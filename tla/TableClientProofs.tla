-------------------------- MODULE TableClientProofs --------------------------
(***************************************************************************)
(* Theorems of TableClient for every set of clients, every script and      *)
(* every switch: no answer is taken for that of another call, and files of *)
(* commands take effect as CommandService promises.                        *)
(***************************************************************************)
EXTENDS TableClient, TLAPS, FiniteSetTheorems

-----------------------------------------------------------------------------
(* The messages.                                                           *)

(* Every method has one or two arguments, numbered from 1, and one result. *)
LEMMA Structs ==
  \A m \in Method :
    /\ Len(ArgsOf[m]) \in {1, 2}
    /\ DOMAIN ArgsOf[m] = 1..Len(ArgsOf[m])
    /\ DOMAIN ResultOf[m] = {0}
BY DEF Method, ArgsOf, ResultOf, Success,
  mirroring_mapping_add_args, mirroring_mapping_add_result,
  mirroring_mapping_delete_args, mirroring_mapping_delete_result,
  mirroring_mapping_get_egress_port_args, mirroring_mapping_get_egress_port_result,
  set_egress_queue_depth_args, set_egress_queue_depth_result,
  set_all_egress_queue_depths_args, set_all_egress_queue_depths_result,
  set_egress_queue_rate_args, set_egress_queue_rate_result,
  set_all_egress_queue_rates_args, set_all_egress_queue_rates_result

(* What a line asks for is a call that can be written.                     *)
LEMMA AskedIsCall ==
  ASSUME NEW l \in Line, NEW call \in Asked(l)
  PROVE  call \in Calls
<1>1. call \in Wanted(l) /\ Sendable(call)
  BY DEF Asked
<1>2. l.words \in Seq(Word) /\ l.name \in Commands \cup Method
  BY DEF Line
<1>3. \A i \in DOMAIN call.args : call.args[i] \in Num
  BY <1>1 DEF Sendable
<1>4. \E m \in Method :
        /\ call = [name |-> m, args |-> call.args]
        /\ DOMAIN call.args = 1..Len(ArgsOf[m])
        /\ call.args = [i \in DOMAIN call.args |-> call.args[i]]
  <2>1. CASE l.name = "set_queue_depth"
    BY <1>1, <1>2, <2>1 DEF Wanted, do_set_queue_depth, set_egress_queue_depth,
      set_all_egress_queue_depths, Call, Method, ArgsOf,
      set_egress_queue_depth_args, set_all_egress_queue_depths_args
  <2>2. CASE l.name = "set_queue_rate"
    BY <1>1, <1>2, <2>2 DEF Wanted, do_set_queue_rate, set_egress_queue_rate,
      set_all_egress_queue_rates, Call, Method, ArgsOf,
      set_egress_queue_rate_args, set_all_egress_queue_rates_args
  <2>3. CASE l.name = "mirroring_add"
    BY <1>1, <1>2, <2>3 DEF Wanted, do_mirroring_add, mirroring_mapping_add, Call,
      Method, ArgsOf, mirroring_mapping_add_args
  <2>4. CASE l.name = "mirroring_delete"
    BY <1>1, <1>2, <2>4 DEF Wanted, do_mirroring_delete, mirroring_mapping_delete,
      Call, Method, ArgsOf, mirroring_mapping_delete_args
  <2>5. CASE l.name \notin Commands
    <3>1. l.name \in Method /\ call \in Remote(l.name, l.words)
      BY <1>1, <1>2, <2>5 DEF Wanted, Commands
    <3>2. call = Call(l.name, l.words) /\ Len(l.words) = Len(ArgsOf[l.name])
      BY <3>1 DEF Remote
    <3>3. /\ DOMAIN l.words = 1..Len(l.words)
          /\ l.words = [i \in DOMAIN l.words |-> l.words[i]]
      BY <1>2
    <3> QED BY <3>1, <3>2, <3>3 DEF Call
  <2> QED BY <2>1, <2>2, <2>3, <2>4, <2>5 DEF Commands
<1> QED BY <1>3, <1>4 DEF Calls

(* A line asks for one call at most.                                       *)
LEMMA AskedUnique ==
  ASSUME NEW l, NEW a \in Asked(l), NEW b \in Asked(l)
  PROVE  a = b
BY DEF Asked, Wanted, do_set_queue_depth, do_set_queue_rate, do_mirroring_add,
  do_mirroring_delete, Remote

(* The processor hands its handler the call the client made.               *)
LEMMA HandledIsCall ==
  ASSUME NEW call \in Calls
  PROVE  Handled(Request(call)) = call
<1>1. PICK m \in Method : call \in [name : {m}, args : [1..Len(ArgsOf[m]) -> Num]]
  BY DEF Calls
<1>2. call = [name |-> m, args |-> call.args] /\ call.name = m
      /\ call.args \in [1..Len(ArgsOf[m]) -> Num]
  BY <1>1
<1>3. DOMAIN ArgsOf[m] = 1..Len(ArgsOf[m])
  BY Structs
<1>4. \A i \in 1..Len(ArgsOf[m]) : call.args[i] # None
  BY <1>2, NumAssumption, WordsAssumption
<1>5. Written(ArgsOf[m], call.args) = call.args
  BY <1>2, <1>3, <1>4 DEF Written
<1>6. Read(ArgsOf[m], call.args) = call.args
  BY <1>2, <1>3 DEF Read
<1> QED BY <1>2, <1>5, <1>6 DEF Handled, Request, Call

(* An answer to a call raises in the client when it says that the method   *)
(* is unknown or when the handler returned nothing; else the client        *)
(* returns what the handler did.                                           *)
LEMMA AnswerRead ==
  ASSUME NEW call \in Calls, NEW s
  PROVE  /\ Result(call.name, Reply(Request(call), s)) = s
         /\ Raises(call.name, Reply(Request(call), s)) <=> s = None
         /\ Raises(call.name, UnknownFunction(Request(call)))
<1>1. call.name \in Method
  BY DEF Calls
<1>2. DOMAIN ResultOf[call.name] = {0}
  BY <1>1, Structs
<1>3. Result(call.name, Reply(Request(call), s)) = s
  <2> DEFINE fields == Written(ResultOf[call.name], [id \in {0} |-> s])
  <2>1. Result(call.name, Reply(Request(call), s))
        = Read(ResultOf[call.name], fields)[0]
    BY DEF Result, Reply, Request
  <2>2. CASE s = None
    <3>1. DOMAIN fields = {}
      BY <1>2, <2>2 DEF Written
    <3> QED BY <1>2, <2>1, <2>2, <3>1 DEF Read
  <2>3. CASE s # None
    <3>1. DOMAIN fields = {0} /\ fields[0] = s
      BY <1>2, <2>3 DEF Written
    <3> HIDE DEF fields
    <3> QED BY <1>2, <2>1, <3>1 DEF Read
  <2> QED BY <2>2, <2>3
<1> QED BY <1>3 DEF Raises, UnknownFunction, Reply
(* Both kinds of messages are of their type, and they differ.              *)
LEMMA RequestType ==
  ASSUME NEW call \in Calls
  PROVE  Request(call) \in Messages
<1>1. PICK m \in Method : call \in [name : {m}, args : [1..Len(ArgsOf[m]) -> Num]]
  BY DEF Calls
<1> DEFINE S == {i \in DOMAIN ArgsOf[m] : call.args[i] # None}
<1>2. S \in SUBSET (0..2) /\ DOMAIN ArgsOf[m] = 1..Len(ArgsOf[m])
  BY Structs
<1>3. Written(ArgsOf[m], call.args) \in [S -> Num \cup {-1, 0}]
  BY <1>1, <1>2 DEF Written
<1> QED BY <1>1, <1>2, <1>3 DEF Request, Messages

Returned == Num \cup {-1, 0, None}

LEMMA AnswerType ==
  ASSUME NEW call \in Calls, NEW s \in Returned
  PROVE  /\ Reply(Request(call), s) \in Messages
         /\ UnknownFunction(Request(call)) \in Messages
<1>1. call.name \in Method
  BY DEF Calls
<1>2. DOMAIN ResultOf[call.name] = {0}
  BY <1>1, Structs
<1> DEFINE value == [id \in {0} |-> s]
           S == {i \in {0} : value[i] # None}
<1>3. S \in SUBSET (0..2)
  OBVIOUS
<1>4. Written(ResultOf[call.name], value) \in [S -> Num \cup {-1, 0}]
  BY <1>2 DEF Written, Returned
<1>5. <<>> \in [{} -> Num \cup {-1, 0}]
  OBVIOUS
<1> QED BY <1>1, <1>3, <1>4, <1>5 DEF Reply, UnknownFunction, Request, Messages

LEMMA HandlerReturns ==
  ASSUME NEW call \in Calls, NEW t \in [Key -> Num \cup {None}]
  PROVE  Answers(call, t) \subseteq Returned
<1>1. PICK m \in Method : call \in [name : {m}, args : [1..Len(ArgsOf[m]) -> Num]]
  BY DEF Calls
<1>2. call.args[1] \in Num
  BY <1>1, Structs
<1> QED BY <1>2 DEF Answers, Looked, Returned, Key

LEMMA EffectType ==
  ASSUME NEW call \in Calls, NEW t \in [Key -> Num \cup {None}]
  PROVE  Effect(call, t) \in [Key -> Num \cup {None}]
<1>1. PICK m \in Method : call \in [name : {m}, args : [1..Len(ArgsOf[m]) -> Num]]
  BY DEF Calls
<1>2. ValueOf(call) \in Num \cup {None}
  <2>1. Len(ArgsOf[m]) \in 1..Len(ArgsOf[m])
    BY Structs
  <2> QED BY <1>1, <2>1 DEF ValueOf
<1> QED BY <1>2 DEF Effect

-----------------------------------------------------------------------------
(* The inductive invariant: what is on the way belongs to the line its     *)
(* process is at, and what a served line wrote stands.                     *)

(* What call wrote is in the switch where only c writes.                   *)
Landed(c, call) ==
  \A k \in Writes(call) : OnlyWriter(c, k) => tables[k] = ValueOf(call)

(* m is an answer to call, and true of the tables as they are now.         *)
AnswerTo(c, call, m) ==
  \/ call.name \notin Served /\ m = UnknownFunction(Request(call))
  \/ /\ call.name \in Served
     /\ \E s \in Returned :
          /\ m = Reply(Request(call), s)
          /\ (/\ ~cut[c] /\ call.name = "mirroring_mapping_get_egress_port"
              /\ OnlyWriter(c, <<"mirror", call.args[1]>>)) => s = Looked(call, tables)
     /\ ~cut[c] => Landed(c, call)

Sent(c, call) == req[c] = {Request(call)} /\ rep[c] = {} /\ ~cut[c]
Silent(c, call) == req[c] = {} /\ rep[c] = {} /\ cut[c]
Answered(c, call) ==
  req[c] = {} /\ \E m \in Messages : rep[c] = {m} /\ AnswerTo(c, call, m)

Waits(c) ==
  /\ line[c] <= Len(Lines(c))
  /\ \E call \in Asked(Now(c)) :
       Sent(c, call) \/ Silent(c, call) \/ Answered(c, call)

Connected(c) ==
  /\ cut[c] \/ up
  /\ file[c] <= Len(Script[c])
  /\ line[c] <= Len(Lines(c)) + 1

FlowAt(c) ==
  /\ pc[c] = "start" => ~cut[c] /\ line[c] = 1
  /\ pc[c] # "start" => Connected(c)
  /\ pc[c] = "waiting" => Waits(c)
  /\ pc[c] # "waiting" => req[c] = {} /\ rep[c] = {}
Flow == \A c \in Clients : FlowAt(c)

IInv == TypeOK /\ Flow /\ Stands

LEMMA LineType ==
  ASSUME TypeOK, NEW c \in Clients, file[c] <= Len(Script[c])
  PROVE  /\ Lines(c) \in Seq(Line)
         /\ \A i \in 1..Len(Lines(c)) : Lines(c)[i] \in Line
         /\ line[c] <= Len(Lines(c)) => Now(c) \in Line
<1>1. Script[c] \in Seq(Seq(Line)) /\ file[c] \in 1..Len(Script[c])
  BY ScriptAssumption DEF TypeOK
<1>2. Lines(c) \in Seq(Line)
  BY <1>1 DEF Lines
<1>3. \A i \in 1..Len(Lines(c)) : Lines(c)[i] \in Line
  BY <1>2
<1>4. line[c] \in Nat \ {0}
  BY DEF TypeOK
<1> QED BY <1>2, <1>3, <1>4 DEF Now

(* A process that waits for an answer is at a line that asks for the call. *)
LEMMA WaitingCall ==
  ASSUME IInv, NEW c \in Clients, pc[c] = "waiting"
  PROVE  /\ Connected(c) /\ line[c] <= Len(Lines(c))
         /\ Now(c) = Lines(c)[line[c]] /\ Asked(Now(c)) \subseteq Calls
         /\ \E call \in Asked(Now(c)) :
              Sent(c, call) \/ Silent(c, call) \/ Answered(c, call)
<1>1. Connected(c) /\ Waits(c)
  BY DEF IInv, Flow, FlowAt
<1>2. Now(c) \in Line
  BY <1>1, LineType DEF IInv, Connected, Waits
<1> QED BY <1>1, <1>2, AskedIsCall DEF Waits, Now

(* A client that neither moved nor was answered keeps its part.            *)
LEMMA Frame ==
  ASSUME NEW d \in Clients, FlowAt(d), Standing(d),
         file'[d] = file[d], pc'[d] = pc[d], line'[d] = line[d], cut'[d] = cut[d],
         req'[d] = req[d], rep'[d] = rep[d], UNCHANGED <<tables, up>>
  PROVE  FlowAt(d)' /\ Standing(d)'
<1>1. FlowAt(d)'
  BY DEF FlowAt, Connected, Waits, Sent, Silent, Answered, AnswerTo, Landed, Looked,
    Lines, Now
<1>2. Standing(d)'
  BY DEF Standing, Lines
<1> QED BY <1>1, <1>2

LEMMA InitIInv == Init => IInv
<1> SUFFICES ASSUME Init PROVE IInv
  OBVIOUS
<1>1. TypeOK
  BY CrashesAssumption DEF Init, TypeOK, Empty
<1>2. Flow
  BY DEF Init, Flow, FlowAt
<1>3. Stands
  BY DEF Init, Stands, Standing
<1> QED BY <1>1, <1>2, <1>3 DEF IInv

(* The next file starts afresh.                                            *)
LEMMA NextFileKeeps ==
  ASSUME IInv, NEW c \in Clients, NextFile(c), pc[c] # "waiting"
  PROVE  IInv'
<1>1. TypeOK'
  BY DEF IInv, TypeOK, NextFile
<1>2. \A d \in Clients \ {c} : FlowAt(d)' /\ Standing(d)'
  <2> SUFFICES ASSUME NEW d \in Clients \ {c} PROVE FlowAt(d)' /\ Standing(d)'
    OBVIOUS
  <2> QED BY Frame DEF IInv, Flow, Stands, NextFile, TypeOK
<1>3. FlowAt(c)' /\ Standing(c)'
  <2>1. /\ pc'[c] = "start" /\ line'[c] = 1 /\ cut'[c] = FALSE
        /\ req'[c] = {} /\ rep'[c] = {}
    BY DEF IInv, Flow, FlowAt, NextFile, TypeOK
  <2> QED BY <2>1 DEF FlowAt, Standing
<1> QED BY <1>1, <1>2, <1>3 DEF IInv, Flow, Stands

(* A step of c alone: the others keep their part by Frame.                 *)
LEMMA OthersKeep ==
  ASSUME IInv, NEW c \in Clients, UNCHANGED <<tables, up>>,
         \A d \in Clients \ {c} :
           /\ file'[d] = file[d] /\ pc'[d] = pc[d] /\ line'[d] = line[d]
           /\ cut'[d] = cut[d] /\ req'[d] = req[d] /\ rep'[d] = rep[d],
         TypeOK', FlowAt(c)', Standing(c)'
  PROVE  IInv'
<1>1. \A d \in Clients \ {c} : FlowAt(d)' /\ Standing(d)'
  BY Frame DEF IInv, Flow, Stands
<1> QED BY <1>1 DEF IInv, Flow, Stands

LEMMA StartKeeps ==
  ASSUME IInv, NEW c \in Clients, Start(c)
  PROVE  IInv'
<1>1. CASE ~up /\ NextFile(c)
  BY <1>1, NextFileKeeps DEF Start
<1>2. CASE /\ up /\ pc' = [pc EXCEPT ![c] = "ready"]
           /\ UNCHANGED <<file, line, cut, req, rep, tables, up, crashes>>
  <2>1. TypeOK'
    BY <1>2 DEF IInv, TypeOK
  <2>2. pc[c] = "start" /\ pc'[c] = "ready" /\ file[c] <= Len(Script[c])
    BY <1>2 DEF Start, IInv, TypeOK
  <2>3. ~cut[c] /\ line[c] = 1 /\ req[c] = {} /\ rep[c] = {}
    BY <2>2 DEF IInv, Flow, FlowAt
  <2>4. UNCHANGED <<file, line, cut, req, rep, tables, up>>
    BY <1>2
  <2>5. Lines(c) \in Seq(Line) /\ Lines(c)' = Lines(c)
    BY <2>2, <2>4, LineType DEF IInv, Lines
  <2>6. Connected(c)'
    BY <1>2, <2>2, <2>3, <2>4, <2>5 DEF Connected
  <2>7. FlowAt(c)' /\ Standing(c)'
    BY <2>2, <2>3, <2>4, <2>6 DEF FlowAt, Standing
  <2>8. \A d \in Clients \ {c} : pc'[d] = pc[d]
    BY <1>2 DEF IInv, TypeOK
  <2> QED BY <2>1, <2>4, <2>7, <2>8, OthersKeep
<1> QED BY <1>1, <1>2 DEF Start

LEMMA SendKeeps ==
  ASSUME IInv, NEW c \in Clients, Send(c)
  PROVE  IInv'
<1>1. PICK call \in Asked(Now(c)) : req' = [req EXCEPT ![c] = {Request(call)}]
  BY DEF Send
<1>2. /\ pc[c] = "ready" /\ line[c] <= Len(Lines(c)) /\ ~cut[c]
      /\ Connected(c) /\ rep[c] = {}
  BY DEF Send, HasLine, IInv, Flow, FlowAt
<1>3. Request(call) \in Messages
  BY <1>2, LineType, AskedIsCall, RequestType DEF IInv, Connected
<1>4. TypeOK'
  BY <1>1, <1>3 DEF IInv, TypeOK, Send
<1>5. /\ pc'[c] = "waiting" /\ req'[c] = {Request(call)}
      /\ UNCHANGED <<file, line, cut, rep, tables, up>>
  BY <1>1 DEF Send, IInv, TypeOK
<1>6. FlowAt(c)'
  <2>1. Connected(c)' /\ Lines(c)' = Lines(c) /\ Now(c)' = Now(c)
    BY <1>2, <1>5 DEF Connected, Lines, Now
  <2>2. Sent(c, call)'
    BY <1>2, <1>5 DEF Sent
  <2>3. Waits(c)'
    BY <1>2, <1>5, <2>1, <2>2 DEF Waits
  <2> QED BY <1>5, <2>1, <2>3 DEF FlowAt
<1>7. Standing(c)'
  BY <1>2, <1>5 DEF Standing, Lines, IInv, Stands
<1>8. \A d \in Clients \ {c} : pc'[d] = pc[d] /\ req'[d] = req[d]
  BY <1>1 DEF Send, IInv, TypeOK
<1> QED BY <1>4, <1>5, <1>6, <1>7, <1>8, OthersKeep

LEMMA BadLineKeeps ==
  ASSUME IInv, NEW c \in Clients, BadLine(c)
  PROVE  IInv'
<1>1. /\ pc[c] = "ready" /\ pc'[c] = "raised"
      /\ UNCHANGED <<file, line, cut, req, rep, tables, up, crashes>>
  BY DEF BadLine, IInv, TypeOK
<1>2. TypeOK'
  BY DEF BadLine, IInv, TypeOK
<1>3. FlowAt(c)'
  BY <1>1 DEF FlowAt, IInv, Flow, Connected, Lines
<1>4. Standing(c)'
  BY <1>1 DEF Standing, Lines, IInv, Stands
<1>5. \A d \in Clients \ {c} : pc'[d] = pc[d]
  BY DEF BadLine, IInv, TypeOK
<1> QED BY <1>1, <1>2, <1>3, <1>4, <1>5, OthersKeep

LEMMA LostKeeps ==
  ASSUME IInv, NEW c \in Clients, Lost(c)
  PROVE  IInv'
<1>1. /\ pc[c] \in {"waiting", "ready"} /\ pc'[c] = "raised" /\ cut[c]
      /\ rep'[c] = {} /\ UNCHANGED <<file, line, cut, req, tables, up, crashes>>
  BY DEF Lost, IInv, TypeOK
<1>2. TypeOK'
  BY DEF Lost, IInv, TypeOK
<1>3. req[c] = {} /\ Connected(c)
  BY <1>1 DEF IInv, Flow, FlowAt, Waits, Sent, Silent, Answered
<1>4. FlowAt(c)' /\ Standing(c)'
  BY <1>1, <1>3 DEF FlowAt, Connected, Lines, Standing
<1>5. \A d \in Clients \ {c} : pc'[d] = pc[d] /\ rep'[d] = rep[d]
  BY DEF Lost, IInv, TypeOK
<1> QED BY <1>1, <1>2, <1>4, <1>5, OthersKeep

(* The call of a line is the one its answer was made for.                  *)
LEMMA ReceivedAnswer ==
  ASSUME IInv, NEW c \in Clients, pc[c] = "waiting",
         NEW call \in Asked(Now(c)), NEW m \in rep[c]
  PROVE  call \in Calls /\ req[c] = {} /\ AnswerTo(c, call, m)
<1>1. call \in Calls
  BY WaitingCall
<1>2. PICK own \in Asked(Now(c)) :
        Sent(c, own) \/ Silent(c, own) \/ Answered(c, own)
  BY WaitingCall
<1>3. own = call
  BY AskedUnique
<1>4. Answered(c, call)
  BY <1>2, <1>3 DEF Sent, Silent
<1> QED BY <1>1, <1>4 DEF Answered

(* An answer that does not raise is the handler's, and what the call wrote *)
(* stands.                                                                 *)
LEMMA GoodAnswer ==
  ASSUME NEW c \in Clients, NEW call \in Calls, NEW m, AnswerTo(c, call, m),
         ~Raises(call.name, m), ~cut[c]
  PROVE  Landed(c, call)
BY AnswerRead DEF AnswerTo

LEMMA ReceiveKeeps ==
  ASSUME IInv, NEW c \in Clients, Receive(c)
  PROVE  IInv'
<1>1. /\ pc[c] = "waiting" /\ rep'[c] = {}
      /\ UNCHANGED <<file, cut, req, tables, up, crashes>>
  BY DEF Receive, IInv, TypeOK
<1>2. PICK call \in Asked(Now(c)), m \in rep[c] :
        \/ /\ Raises(call.name, m)
           /\ pc' = [pc EXCEPT ![c] = "raised"] /\ line' = line
        \/ /\ ~Raises(call.name, m)
           /\ pc' = [pc EXCEPT ![c] = "ready"]
           /\ line' = [line EXCEPT ![c] = @ + 1]
  BY DEF Receive
<1>3. call \in Calls /\ req[c] = {} /\ AnswerTo(c, call, m)
  BY <1>1, ReceivedAnswer
<1>4. Connected(c) /\ line[c] <= Len(Lines(c)) /\ Now(c) = Lines(c)[line[c]]
  BY <1>1, WaitingCall
<1>5. TypeOK'
  BY <1>2 DEF Receive, IInv, TypeOK
<1>6. Lines(c)' = Lines(c)
  BY <1>1 DEF Lines
<1>7. line[c] \in Nat \ {0} /\ Lines(c) \in Seq(Line)
  BY <1>4, LineType DEF IInv, TypeOK, Connected
<1>8. ASSUME pc'[c] = "raised", line' = line
      PROVE  FlowAt(c)' /\ Standing(c)'
  BY <1>1, <1>3, <1>4, <1>6, <1>8 DEF FlowAt, Connected, Standing, IInv, Stands
<1>9. ASSUME ~Raises(call.name, m), pc'[c] = "ready", line'[c] = line[c] + 1
      PROVE  FlowAt(c)' /\ Standing(c)'
  <2>1. FlowAt(c)'
    BY <1>1, <1>3, <1>4, <1>6, <1>7, <1>9 DEF FlowAt, Connected
  <2>2. Standing(c)'
    <3> SUFFICES ASSUME ~cut[c], NEW i \in 1..line[c],
                        NEW a \in Asked(Lines(c)[i]), NEW k \in Writes(a)
                 PROVE  \/ tables[k] = ValueOf(a)
                        \/ ~OnlyWriter(c, k)
                        \/ \E j \in (i + 1)..Len(Lines(c)) :
                             /\ j <= line[c] + 1
                             /\ \E later \in Asked(Lines(c)[j]) : k \in Writes(later)
      BY <1>1, <1>6, <1>7, <1>9 DEF Standing
    <3>1. CASE i = line[c]
      <4>1. a = call
        BY <1>4, <3>1, AskedUnique
      <4> QED BY <1>3, <1>9, <4>1, GoodAnswer DEF Landed
    <3>2. CASE i \in 1..(line[c] - 1)
      <4>1. \/ tables[k] = ValueOf(a)
            \/ ~OnlyWriter(c, k)
            \/ \E j \in (i + 1)..Len(Lines(c)) :
                 /\ j <= line[c]
                 /\ \E later \in Asked(Lines(c)[j]) : k \in Writes(later)
        BY <1>1, <3>2 DEF IInv, Stands, Standing
      <4> QED BY <1>7, <4>1
    <3> QED BY <1>7, <3>1, <3>2
  <2> QED BY <2>1, <2>2
<1>10. \A d \in Clients \ {c} :
         pc'[d] = pc[d] /\ line'[d] = line[d] /\ rep'[d] = rep[d]
  BY <1>2 DEF Receive, IInv, TypeOK
<1>11. FlowAt(c)' /\ Standing(c)' => IInv'
  BY <1>1, <1>5, <1>10, OthersKeep
<1>12. \/ Raises(call.name, m) /\ pc'[c] = "raised" /\ line' = line
       \/ ~Raises(call.name, m) /\ pc'[c] = "ready" /\ line'[c] = line[c] + 1
  BY <1>2 DEF IInv, TypeOK
<1> QED BY <1>8, <1>9, <1>11, <1>12

(* A request that reaches the switch is the call of the line its process   *)
(* is at, and the handler gets that call.                                  *)
LEMMA RequestSent ==
  ASSUME IInv, NEW c \in Clients, NEW msg \in req[c]
  PROVE  /\ pc[c] = "waiting"
         /\ \E call \in Asked(Now(c)) :
              /\ call \in Calls /\ Sent(c, call)
              /\ msg = Request(call) /\ Handled(msg) = call /\ msg.name = call.name
<1>1. pc[c] = "waiting"
  BY DEF IInv, Flow, FlowAt
<1>2. PICK call \in Asked(Now(c)) :
        Sent(c, call) \/ Silent(c, call) \/ Answered(c, call)
  BY <1>1, WaitingCall
<1>3. call \in Calls /\ Sent(c, call) /\ msg = Request(call)
  BY <1>1, <1>2, WaitingCall DEF Sent, Silent, Answered
<1>4. Handled(msg) = call /\ msg.name = call.name
  BY <1>3, HandledIsCall DEF Request
<1> QED BY <1>1, <1>3, <1>4

(* A key that only another client writes is not written by a line of c.    *)
LEMMA NotWritten ==
  ASSUME IInv, NEW c \in Clients, pc[c] = "waiting", NEW call \in Asked(Now(c)),
         NEW d \in Clients \ {c}, NEW k \in Key, OnlyWriter(d, k)
  PROVE  k \notin Writes(call)
<1>1. /\ file[c] \in 1..Len(Script[c]) /\ line[c] \in 1..Len(Lines(c))
      /\ Lines(c) = Script[c][file[c]] /\ Now(c) = Lines(c)[line[c]]
  <2>1. Connected(c) /\ line[c] <= Len(Lines(c)) /\ Now(c) = Lines(c)[line[c]]
    BY WaitingCall
  <2>2. Script[c] \in Seq(Seq(Line)) /\ Lines(c) \in Seq(Line)
    BY <2>1, ScriptAssumption, LineType DEF IInv, Connected
  <2> QED BY <2>1, <2>2 DEF IInv, TypeOK, Connected, Lines
<1>2. c \notin Writers[k]
  BY DEF OnlyWriter
<1> QED BY <1>1, <1>2 DEF Writers

LEMMA ServeKeeps ==
  ASSUME IInv, NEW c \in Clients, Serve(c)
  PROVE  IInv'
<1>1. PICK msg \in req[c] :
        \/ /\ msg.name \notin Served
           /\ rep' = [rep EXCEPT ![c] = {UnknownFunction(msg)}]
           /\ tables' = tables
        \/ /\ msg.name \in Served
           /\ tables' = Effect(Handled(msg), tables)
           /\ \E success \in Answers(Handled(msg), tables) :
                rep' = [rep EXCEPT ![c] = {Reply(msg, success)}]
  BY DEF Serve
<1>2. PICK call \in Asked(Now(c)) :
        /\ call \in Calls /\ Sent(c, call) /\ msg = Request(call)
        /\ Handled(msg) = call /\ msg.name = call.name
  BY RequestSent
<1>3. /\ pc[c] = "waiting" /\ Connected(c) /\ line[c] <= Len(Lines(c)) /\ ~cut[c]
      /\ Now(c) = Lines(c)[line[c]]
  BY <1>2, RequestSent, WaitingCall DEF Sent
<1>4. /\ req' = [req EXCEPT ![c] = {}]
      /\ UNCHANGED <<file, pc, line, cut, up, crashes>>
  BY DEF Serve, process
<1>5. tables \in [Key -> Num \cup {None}]
  BY DEF IInv, TypeOK
<1>6. PICK m : rep' = [rep EXCEPT ![c] = {m}] /\ m \in Messages /\ AnswerTo(c, call, m)'
  <2>1. CASE call.name \notin Served
    BY <1>1, <1>2, <2>1, AnswerType DEF AnswerTo, Returned
  <2>2. CASE call.name \in Served
    <3>1. PICK s \in Answers(call, tables) : rep' = [rep EXCEPT ![c] = {Reply(msg, s)}]
      BY <1>1, <1>2, <2>2
    <3>2. s \in Returned
      BY <1>2, <1>5, <3>1, HandlerReturns
    <3>3. tables' = Effect(call, tables)
      BY <1>1, <1>2, <2>2
    <3>4. Landed(c, call)'
      BY <3>3 DEF Landed, Effect, Writes
    <3>5. call.name = "mirroring_mapping_get_egress_port" => s = Looked(call, tables)'
      <4> SUFFICES ASSUME call.name = "mirroring_mapping_get_egress_port"
                   PROVE  s = Looked(call, tables)'
        OBVIOUS
      <4>1. Writes(call) = {}
        BY DEF Writes
      <4>2. tables' = tables
        BY <1>5, <3>3, <4>1 DEF Effect
      <4> QED BY <3>1, <4>2 DEF Answers, Looked
    <3>6. Reply(Request(call), s) \in Messages
      BY <1>2, <3>2, AnswerType
    <3> QED BY <1>2, <2>2, <3>1, <3>2, <3>4, <3>5, <3>6 DEF AnswerTo
  <2> QED BY <2>1, <2>2
<1>7. tables' \in [Key -> Num \cup {None}]
  BY <1>1, <1>2, <1>5, EffectType
<1>8. TypeOK'
  BY <1>4, <1>6, <1>7 DEF IInv, TypeOK
<1>9. rep'[c] = {m} /\ req'[c] = {}
  BY <1>4, <1>6 DEF IInv, TypeOK
<1>10. FlowAt(c)'
  <2>1. Connected(c)' /\ Lines(c)' = Lines(c) /\ Now(c)' = Now(c)
    BY <1>3, <1>4 DEF Connected, Lines, Now
  <2>2. Answered(c, call)'
    BY <1>6, <1>9 DEF Answered
  <2>3. Waits(c)'
    BY <1>3, <1>4, <2>1, <2>2 DEF Waits
  <2> QED BY <1>3, <1>4, <2>1, <2>3 DEF FlowAt
<1>11. \A k \in Key : tables'[k] = tables[k] \/ k \in Writes(call)
  BY <1>1, <1>2, <1>5 DEF Effect
<1>12. Standing(c)'
  <2> SUFFICES ASSUME NEW i \in 1..(line[c] - 1), NEW a \in Asked(Lines(c)[i]),
                      NEW k \in Writes(a)
               PROVE  \/ tables'[k] = ValueOf(a)
                      \/ ~OnlyWriter(c, k)
                      \/ \E j \in (i + 1)..Len(Lines(c)) :
                           /\ j <= line[c]
                           /\ \E later \in Asked(Lines(c)[j]) : k \in Writes(later)
    BY <1>4 DEF Standing, Lines
  <2>1. \/ tables[k] = ValueOf(a)
        \/ ~OnlyWriter(c, k)
        \/ \E j \in (i + 1)..Len(Lines(c)) :
             j <= line[c] /\ \E later \in Asked(Lines(c)[j]) : k \in Writes(later)
    BY <1>3 DEF IInv, Stands, Standing
  <2>2. line[c] \in (i + 1)..Len(Lines(c))
    BY <1>3, LineType DEF IInv, TypeOK, Connected
  <2>3. k \in Key
    BY DEF Writes
  <2> QED BY <1>3, <1>11, <2>1, <2>2, <2>3
<1>13. ASSUME NEW d \in Clients \ {c}
       PROVE  FlowAt(d)' /\ Standing(d)'
  <2>1. rep'[d] = rep[d] /\ req'[d] = req[d]
    BY <1>4, <1>6 DEF IInv, TypeOK
  <2>2. \A k \in Key : OnlyWriter(d, k) => tables'[k] = tables[k]
    BY <1>3, <1>11, NotWritten
  <2>3. \A own : Landed(d, own) => Landed(d, own)'
    BY <2>2 DEF Landed, Writes
  <2>4. \A own \in Calls :
          /\ own.name = "mirroring_mapping_get_egress_port"
          /\ OnlyWriter(d, <<"mirror", own.args[1]>>)
          => Looked(own, tables)' = Looked(own, tables)
    <3> SUFFICES ASSUME NEW own \in Calls, OnlyWriter(d, <<"mirror", own.args[1]>>)
                 PROVE  tables'[<<"mirror", own.args[1]>>] = tables[<<"mirror", own.args[1]>>]
      BY DEF Looked
    <3>1. own.args[1] \in Num
      BY Structs DEF Calls
    <3> QED BY <2>2, <3>1 DEF Key
  <2>5. \A own \in Calls : \A n : AnswerTo(d, own, n) => AnswerTo(d, own, n)'
    BY <1>4, <2>3, <2>4 DEF AnswerTo
  <2>6. pc[d] = "waiting" => Waits(d)'
    <3> SUFFICES ASSUME pc[d] = "waiting" PROVE Waits(d)'
      OBVIOUS
    <3>1. Lines(d)' = Lines(d) /\ Now(d)' = Now(d)
      BY <1>4 DEF Lines, Now
    <3>2. PICK own \in Asked(Now(d)) :
            /\ own \in Calls
            /\ Sent(d, own) \/ Silent(d, own) \/ Answered(d, own)
      BY WaitingCall
    <3>3. Sent(d, own)' \/ Silent(d, own)' \/ Answered(d, own)'
      BY <1>4, <2>1, <2>5, <3>2 DEF Sent, Silent, Answered
    <3>4. line[d] <= Len(Lines(d))
      BY WaitingCall
    <3> QED BY <1>4, <3>1, <3>2, <3>3, <3>4 DEF Waits
  <2>7. FlowAt(d)'
    BY <1>4, <2>1, <2>6 DEF FlowAt, Connected, Lines, IInv, Flow
  <2>8. Standing(d)'
    <3>1. Standing(d)
      BY DEF IInv, Stands
    <3>2. \A a : Writes(a) \subseteq Key
      BY DEF Writes
    <3> QED BY <1>4, <2>2, <3>1, <3>2 DEF Standing, Lines
  <2> QED BY <2>7, <2>8
<1> QED BY <1>8, <1>10, <1>12, <1>13 DEF IInv, Flow, Stands

LEMMA CrashKeeps ==
  ASSUME IInv, Crash
  PROVE  IInv'
<1>1. TypeOK'
  <2>1. crashes' \in 0..MaxCrashes
    BY CrashesAssumption DEF IInv, TypeOK, Crash
  <2>2. cut' \in [Clients -> BOOLEAN]
    BY DEF Crash
  <2> QED BY <2>1, <2>2 DEF IInv, TypeOK, Crash
<1>2. ASSUME NEW c \in Clients
      PROVE  FlowAt(c)' /\ Standing(c)'
  <2>1. /\ cut'[c] = (pc[c] # "start") /\ req'[c] = {}
        /\ UNCHANGED <<file, pc, line, rep, tables>>
    BY DEF Crash
  <2>2. FlowAt(c)
    BY DEF IInv, Flow
  <2>3. Lines(c)' = Lines(c) /\ Now(c)' = Now(c)
    BY <2>1 DEF Lines, Now
  <2>4. pc[c] # "start" => Connected(c)'
    BY <2>1, <2>2, <2>3 DEF FlowAt, Connected
  <2>5. pc[c] = "waiting" => Waits(c)'
    <3> SUFFICES ASSUME pc[c] = "waiting" PROVE Waits(c)'
      OBVIOUS
    <3>1. PICK call \in Asked(Now(c)) :
            Sent(c, call) \/ Silent(c, call) \/ Answered(c, call)
      BY WaitingCall
    <3>2. \A m : AnswerTo(c, call, m) => AnswerTo(c, call, m)'
      BY <2>1 DEF AnswerTo
    <3>3. Silent(c, call)' \/ Answered(c, call)'
      BY <2>1, <3>1, <3>2 DEF Sent, Silent, Answered
    <3>4. line[c] <= Len(Lines(c))
      BY WaitingCall
    <3> QED BY <2>1, <2>3, <3>1, <3>3, <3>4 DEF Waits
  <2>6. FlowAt(c)'
    BY <2>1, <2>2, <2>4, <2>5 DEF FlowAt
  <2>7. Standing(c)'
    BY <2>1 DEF Standing
  <2> QED BY <2>6, <2>7
<1> QED BY <1>1, <1>2 DEF IInv, Flow, Stands

(* While the switch is away no connection stands.                          *)
LEMMA RestartKeeps ==
  ASSUME IInv, Restart
  PROVE  IInv'
<1>1. TypeOK'
  BY DEF IInv, TypeOK, Restart, Empty, process
<1>2. ASSUME NEW c \in Clients
      PROVE  FlowAt(c)' /\ Standing(c)'
  <2>1. ~up /\ up' = TRUE /\ UNCHANGED <<file, pc, line, cut, req, rep>>
    BY DEF Restart, process
  <2>2. FlowAt(c)
    BY DEF IInv, Flow
  <2>3. pc[c] # "start" => cut[c] /\ Connected(c)'
    BY <2>1, <2>2 DEF FlowAt, Connected, Lines
  <2>4. Lines(c)' = Lines(c) /\ Now(c)' = Now(c)
    BY <2>1 DEF Lines, Now
  <2>5. pc[c] = "waiting" => Waits(c)'
    <3> SUFFICES ASSUME pc[c] = "waiting" PROVE Waits(c)'
      OBVIOUS
    <3>1. PICK call \in Asked(Now(c)) :
            Sent(c, call) \/ Silent(c, call) \/ Answered(c, call)
      BY WaitingCall
    <3>2. \A m : AnswerTo(c, call, m) => AnswerTo(c, call, m)'
      BY <2>1, <2>3 DEF AnswerTo
    <3>3. Silent(c, call)' \/ Answered(c, call)'
      BY <2>1, <2>3, <3>1, <3>2 DEF Sent, Silent, Answered
    <3>4. line[c] <= Len(Lines(c))
      BY WaitingCall
    <3> QED BY <2>1, <2>4, <3>1, <3>3, <3>4 DEF Waits
  <2>6. FlowAt(c)' /\ Standing(c)'
    BY <2>1, <2>2, <2>3, <2>5 DEF FlowAt, Standing
  <2> QED BY <2>6
<1> QED BY <1>1, <1>2 DEF IInv, Flow, Stands

LEMMA NextKeeps == IInv /\ [Next]_vars => IInv'
<1> SUFFICES ASSUME IInv, [Next]_vars PROVE IInv'
  OBVIOUS
<1>1. ASSUME NEW c \in Clients, Step(c) PROVE IInv'
  <2>1. CASE Start(c) BY <2>1, StartKeeps
  <2>2. CASE Send(c) BY <2>2, SendKeeps
  <2>3. CASE BadLine(c) BY <2>3, BadLineKeeps
  <2>4. CASE Serve(c) BY <2>4, ServeKeeps
  <2>5. CASE Receive(c) BY <2>5, ReceiveKeeps
  <2>6. CASE Lost(c) BY <2>6, LostKeeps
  <2>7. CASE Died(c) BY <2>7, NextFileKeeps DEF Died
  <2>8. CASE EndOfFile(c) BY <2>8, NextFileKeeps DEF EndOfFile
  <2> QED BY <1>1, <2>1, <2>2, <2>3, <2>4, <2>5, <2>6, <2>7, <2>8 DEF Step
<1>2. CASE Crash BY <1>2, CrashKeeps
<1>3. CASE Restart BY <1>3, RestartKeeps
<1>4. CASE UNCHANGED vars
  <2>1. UNCHANGED <<file, pc, line, cut, req, rep, tables, up, crashes>>
    BY <1>4 DEF vars, process
  <2>2. TypeOK'
    BY <2>1 DEF IInv, TypeOK
  <2> QED BY <2>1, <2>2, Frame DEF IInv, Flow, Stands
<1> QED BY <1>1, <1>2, <1>3, <1>4 DEF Next

LEMMA Invariance == Spec => []IInv
<1> QED BY InitIInv, NextKeeps, PTL DEF Spec

(* TypeOK holds for every script and every switch: in particular what is   *)
(* on the way between sswitch_CLI.py and the processor are messages that   *)
(* the other side can read.                                                *)
THEOREM TypeCorrect == Spec => []TypeOK
<1>1. IInv => TypeOK
  BY DEF IInv
<1> QED BY <1>1, Invariance, PTL

(* No answer of SimpleSwitch.py is taken for that of another call, though  *)
(* recv_* looks at neither its name nor its number.                        *)
THEOREM OwnAnswerHolds == Spec => []OwnAnswer
<1>1. IInv => OwnAnswer
  <2> SUFFICES ASSUME IInv, NEW c \in Clients
               PROVE  /\ Cardinality(req[c] \cup rep[c]) <= 1
                      /\ \A msg \in req[c] \cup rep[c] :
                           /\ pc[c] = "waiting"
                           /\ \E call \in Asked(Now(c)) : Concerns(c, call, msg)
    BY DEF OwnAnswer
  <2>1. CASE pc[c] # "waiting"
    <3>1. req[c] \cup rep[c] = {}
      BY <2>1 DEF IInv, Flow, FlowAt
    <3> QED BY <3>1, FS_EmptySet
  <2>2. CASE pc[c] = "waiting"
    <3>1. PICK call \in Asked(Now(c)) :
            Sent(c, call) \/ Silent(c, call) \/ Answered(c, call)
      BY <2>2, WaitingCall
    <3>2. call \in Calls
      BY <2>2, WaitingCall
    <3>3. ASSUME NEW m, req[c] \cup rep[c] = {m}, Concerns(c, call, m)
          PROVE  /\ Cardinality(req[c] \cup rep[c]) <= 1
                 /\ \A msg \in req[c] \cup rep[c] : Concerns(c, call, msg)
      BY <3>3, FS_Singleton
    <3>4. CASE Sent(c, call)
      <4>1. req[c] \cup rep[c] = {Request(call)}
        BY <3>4 DEF Sent
      <4>2. /\ Request(call).name = call.name /\ Request(call).type = "CALL"
            /\ Handled(Request(call)) = call
        BY <3>2, HandledIsCall DEF Request
      <4>3. Concerns(c, call, Request(call))
        BY <4>2 DEF Concerns
      <4> QED BY <2>2, <3>3, <4>1, <4>3
    <3>5. CASE Silent(c, call)
      <4>1. req[c] \cup rep[c] = {}
        BY <3>5 DEF Silent
      <4> QED BY <4>1, FS_EmptySet
    <3>6. CASE Answered(c, call)
      <4>1. PICK m \in Messages :
              req[c] = {} /\ rep[c] = {m} /\ AnswerTo(c, call, m)
        BY <3>6 DEF Answered
      <4>2. m.name = call.name /\ m.type \in {"REPLY", "EXCEPTION"}
        BY <4>1 DEF AnswerTo, Reply, UnknownFunction, Request
      <4>3. Concerns(c, call, m)
        <5>1. CASE m.type # "REPLY"
          BY <4>2, <5>1 DEF Concerns
        <5>2. CASE m.type = "REPLY"
          <6>1. m # UnknownFunction(Request(call))
            BY <5>2 DEF UnknownFunction
          <6> QED BY <3>2, <4>1, <4>2, <5>2, <6>1, AnswerRead DEF AnswerTo, Concerns
        <5> QED BY <5>1, <5>2
      <4>4. req[c] \cup rep[c] = {m}
        BY <4>1
      <4> QED BY <2>2, <3>3, <4>3, <4>4
    <3> QED BY <3>1, <3>4, <3>5, <3>6
  <2> QED BY <2>1, <2>2
<1> QED BY <1>1, Invariance, PTL

(* What a line of a file wrote is in the switch while the connection       *)
(* stands, whatever the other clients do to other keys.                    *)
THEOREM StandsHolds == Spec => []Stands
<1>1. IInv => Stands
  BY DEF IInv
<1> QED BY <1>1, Invariance, PTL

-----------------------------------------------------------------------------
(* The refinement.                                                         *)
Sessions == [c \in Clients |-> SessionOf(c)]
Dones == [c \in Clients |-> DoneOf(c)]

(* A step of c alone changes the position of no other session.             *)
LEMMA MapOthers ==
  ASSUME NEW c \in Clients,
         \A d \in Clients \ {c} :
           /\ file'[d] = file[d] /\ pc'[d] = pc[d] /\ line'[d] = line[d]
           /\ cut'[d] = cut[d] /\ req'[d] = req[d] /\ rep'[d] = rep[d]
  PROVE  /\ Sessions' = [Sessions EXCEPT ![c] = SessionOf(c)']
         /\ Dones' = [Dones EXCEPT ![c] = DoneOf(c)']
<1>1. ASSUME NEW d \in Clients \ {c}
      PROVE  SessionOf(d)' = SessionOf(d) /\ DoneOf(d)' = DoneOf(d)
  BY DEF SessionOf, DoneOf, AnswerRaises, Now, Lines
<1> QED BY <1>1 DEF Sessions, Dones

(* Where a session is, by what its process does.                           *)
LEMMA Positions ==
  ASSUME IInv, NEW c \in Clients
  PROVE  /\ pc[c] = "start" => SessionOf(c) = "none" /\ DoneOf(c) = 0
         /\ pc[c] # "start" /\ (pc[c] = "raised" \/ cut[c]) =>
              SessionOf(c) = "over" /\ DoneOf(c) = 0
         /\ pc[c] = "ready" /\ ~cut[c] =>
              SessionOf(c) = "open" /\ DoneOf(c) = line[c] - 1
         /\ pc[c] = "waiting" /\ ~cut[c] /\ req[c] # {} /\ rep[c] = {} =>
              SessionOf(c) = "open" /\ DoneOf(c) = line[c] - 1
         /\ pc[c] = "waiting" /\ ~cut[c] /\ AnswerRaises(c) =>
              SessionOf(c) = "over" /\ DoneOf(c) = 0
         /\ pc[c] = "waiting" /\ ~cut[c] /\ ~AnswerRaises(c) /\ req[c] = {} =>
              SessionOf(c) = "open" /\ DoneOf(c) = line[c]
BY DEF SessionOf, DoneOf, AnswerRaises

(* A line moves the position of its own session, or ends it.               *)
LEMMA ServeMaps ==
  ASSUME IInv, NEW c \in Clients, Serve(c)
  PROVE  Service!Apply(c) \/ Service!Refuse(c)
<1>1. PICK msg \in req[c] :
        \/ /\ msg.name \notin Served
           /\ rep' = [rep EXCEPT ![c] = {UnknownFunction(msg)}]
           /\ tables' = tables
        \/ /\ msg.name \in Served
           /\ tables' = Effect(Handled(msg), tables)
           /\ \E success \in Answers(Handled(msg), tables) :
                rep' = [rep EXCEPT ![c] = {Reply(msg, success)}]
  BY DEF Serve
<1>2. PICK call \in Asked(Now(c)) :
        /\ call \in Calls /\ Sent(c, call) /\ msg = Request(call)
        /\ Handled(msg) = call /\ msg.name = call.name
  BY RequestSent
<1>3. /\ pc[c] = "waiting" /\ Connected(c) /\ line[c] <= Len(Lines(c)) /\ ~cut[c]
      /\ Now(c) = Lines(c)[line[c]]
  BY <1>2, RequestSent, WaitingCall DEF Sent
<1>4. /\ req' = [req EXCEPT ![c] = {}]
      /\ UNCHANGED <<file, pc, line, cut, up, crashes>>
  BY DEF Serve, process
<1>5. SessionOf(c) = "open" /\ DoneOf(c) = line[c] - 1
  BY <1>2, <1>3, Positions DEF Sent
<1>6. Sessions[c] = "open" /\ Dones[c] = line[c] - 1
  BY <1>5 DEF Sessions, Dones
<1>7. PICK m : rep' = [rep EXCEPT ![c] = {m}]
  BY <1>1
<1>8. /\ Sessions' = [Sessions EXCEPT ![c] = SessionOf(c)']
      /\ Dones' = [Dones EXCEPT ![c] = DoneOf(c)']
  BY <1>4, <1>7, MapOthers DEF IInv, TypeOK
<1>9. IInv' /\ Now(c)' = Now(c) /\ Lines(c)' = Lines(c)
  BY <1>4, ServeKeeps DEF Now, Lines
<1>10. line[c] \in Nat \ {0} /\ Len(Lines(c)) \in Nat
  BY <1>3, LineType DEF IInv, TypeOK, Connected
<1>11. Service!Lines(c) = Lines(c) /\ Lines(c)[Dones[c] + 1] = Now(c)
  BY <1>3, <1>6, <1>10 DEF Lines, Service!Lines
<1>12. rep'[c] = {m} /\ req'[c] = {}
  BY <1>4, <1>7 DEF IInv, TypeOK
<1>13. AnswerRaises(c)' <=> Raises(call.name, m)
  BY <1>9, <1>12, AskedUnique DEF AnswerRaises
<1>14. /\ Raises(call.name, m) => SessionOf(c)' = "over" /\ DoneOf(c)' = 0
       /\ ~Raises(call.name, m) => SessionOf(c)' = "open" /\ DoneOf(c)' = line[c]
  BY <1>3, <1>4, <1>12, <1>13 DEF SessionOf, DoneOf
<1>15. CASE call.name \notin Served
  <2>1. m = UnknownFunction(msg) /\ tables' = tables
    BY <1>1, <1>2, <1>7, <1>12, <1>15 DEF IInv, TypeOK
  <2>2. Raises(call.name, m)
    BY <1>2, <2>1, AnswerRead
  <2>3. \A a \in Asked(Now(c)) : a.name \notin Served
    BY <1>15, AskedUnique
  <2>4. Service!Refuse(c)
    BY <1>3, <1>4, <1>6, <1>8, <1>10, <1>11, <1>14, <2>1, <2>2, <2>3
      DEF Service!Refuse, Service!End, Sessions, Dones
  <2> QED BY <2>4
<1>16. CASE call.name \in Served
  <2>1. tables' = Effect(call, tables) /\ up
    BY <1>1, <1>2, <1>16 DEF Serve
  <2>2. \/ Service!End(c)
        \/ Sessions' = Sessions /\ Dones' = [Dones EXCEPT ![c] = @ + 1]
    <3>1. CASE Raises(call.name, m)
      BY <1>8, <1>14, <3>1 DEF Service!End, Sessions, Dones
    <3>2. CASE ~Raises(call.name, m)
      <4>1. Dones' = [Dones EXCEPT ![c] = @ + 1]
        <5>1. DoneOf(c)' = line[c] /\ line[c] = Dones[c] + 1
          BY <1>6, <1>10, <1>14, <3>2
        <5> QED BY <1>8, <5>1
      <4>2. Sessions = [Sessions EXCEPT ![c] = "open"]
        BY <1>6 DEF Sessions
      <4> QED BY <1>8, <1>14, <3>2, <4>1, <4>2
    <3> QED BY <3>1, <3>2
  <2>3. Service!Apply(c)
    BY <1>3, <1>4, <1>6, <1>10, <1>11, <1>16, <2>1, <2>2
      DEF Service!Apply, Sessions, Dones
  <2> QED BY <2>3
<1> QED BY <1>15, <1>16

LEMMA NextFileMaps ==
  ASSUME IInv, NEW c \in Clients, NextFile(c), pc[c] # "waiting"
  PROVE  /\ Sessions' = [Sessions EXCEPT ![c] = "none"]
         /\ Dones' = [Dones EXCEPT ![c] = 0]
         /\ file' = [file EXCEPT ![c] = @ + 1] /\ UNCHANGED <<tables, up>>
<1>1. pc'[c] = "start"
  BY DEF NextFile, IInv, TypeOK
<1>2. SessionOf(c)' = "none" /\ DoneOf(c)' = 0
  BY <1>1 DEF SessionOf, DoneOf
<1>3. /\ Sessions' = [Sessions EXCEPT ![c] = SessionOf(c)']
      /\ Dones' = [Dones EXCEPT ![c] = DoneOf(c)']
  BY MapOthers DEF NextFile, IInv, TypeOK
<1> QED BY <1>2, <1>3 DEF NextFile

(* The steps that only the process sees.                                   *)
LEMMA Stutters ==
  ASSUME IInv, NEW c \in Clients, Send(c) \/ Receive(c) \/ Lost(c)
  PROVE  UNCHANGED <<file, Sessions, Dones, tables, up>>
<1>1. UNCHANGED <<file, tables, up>>
  BY DEF Send, Receive, Lost
<1>2. SessionOf(c)' = SessionOf(c) /\ DoneOf(c)' = DoneOf(c)
  <2>1. CASE Send(c)
    <3>1. PICK call \in Asked(Now(c)) : req' = [req EXCEPT ![c] = {Request(call)}]
      BY <2>1 DEF Send
    <3>2. /\ pc[c] = "ready" /\ pc'[c] = "waiting" /\ ~cut[c]
          /\ rep'[c] = {} /\ req'[c] # {} /\ line' = line /\ cut' = cut
      BY <2>1, <3>1 DEF Send, IInv, TypeOK, Flow, FlowAt
    <3> QED BY <3>2 DEF SessionOf, DoneOf, AnswerRaises
  <2>2. CASE Receive(c)
    <3>1. /\ pc[c] = "waiting" /\ cut' = cut /\ req' = req
          /\ Lines(c)' = Lines(c)
      BY <2>2 DEF Receive, Lines
    <3>2. PICK call \in Asked(Now(c)), m \in rep[c] :
            \/ /\ Raises(call.name, m)
               /\ pc' = [pc EXCEPT ![c] = "raised"] /\ line' = line
            \/ /\ ~Raises(call.name, m)
               /\ pc' = [pc EXCEPT ![c] = "ready"]
               /\ line' = [line EXCEPT ![c] = @ + 1]
      BY <2>2 DEF Receive
    <3>3. req[c] = {} /\ rep[c] = {m}
      <4>1. PICK own \in Asked(Now(c)) :
              Sent(c, own) \/ Silent(c, own) \/ Answered(c, own)
        BY <3>1, WaitingCall
      <4> QED BY <3>2, <4>1 DEF Sent, Silent, Answered
    <3>4. AnswerRaises(c) <=> Raises(call.name, m)
      BY <3>2, <3>3, AskedUnique DEF AnswerRaises
    <3>5. CASE Raises(call.name, m)
      <4>1. pc'[c] = "raised"
        BY <3>2, <3>5 DEF IInv, TypeOK
      <4> QED BY <3>1, <3>4, <3>5, <4>1 DEF SessionOf, DoneOf
    <3>6. CASE ~Raises(call.name, m)
      <4>1. pc'[c] = "ready" /\ line'[c] = line[c] + 1 /\ line[c] \in Nat
        BY <3>2, <3>6 DEF IInv, TypeOK
      <4> QED BY <3>1, <3>3, <3>4, <3>6, <4>1 DEF SessionOf, DoneOf
    <3> QED BY <3>5, <3>6
  <2>3. CASE Lost(c)
    BY <2>3 DEF Lost, SessionOf, DoneOf, IInv, TypeOK
  <2> QED BY <2>1, <2>2, <2>3
<1>3. ASSUME NEW d \in Clients \ {c}
      PROVE  /\ file'[d] = file[d] /\ pc'[d] = pc[d] /\ line'[d] = line[d]
             /\ cut'[d] = cut[d] /\ req'[d] = req[d] /\ rep'[d] = rep[d]
  <2>1. CASE Send(c)
    BY <2>1 DEF Send, IInv, TypeOK
  <2>2. CASE Receive(c)
    BY <2>2 DEF Receive, IInv, TypeOK
  <2>3. CASE Lost(c)
    BY <2>3 DEF Lost, IInv, TypeOK
  <2> QED BY <2>1, <2>2, <2>3
<1>4. /\ Sessions' = [Sessions EXCEPT ![c] = SessionOf(c)']
      /\ Dones' = [Dones EXCEPT ![c] = DoneOf(c)']
  BY <1>3, MapOthers
<1> QED BY <1>1, <1>2, <1>4 DEF Sessions, Dones

(* A line that sends nothing is refused, unless the connection is gone.    *)
LEMMA BadLineMaps ==
  ASSUME IInv, NEW c \in Clients, BadLine(c)
  PROVE  Service!Refuse(c) \/ UNCHANGED <<file, Sessions, Dones, tables, up>>
<1>1. /\ pc[c] = "ready" /\ pc'[c] = "raised" /\ line[c] <= Len(Lines(c))
      /\ Asked(Now(c)) = {} /\ UNCHANGED <<file, line, cut, req, rep, tables, up>>
  BY DEF BadLine, HasLine, IInv, TypeOK
<1>2. \A d \in Clients \ {c} : pc'[d] = pc[d]
  BY DEF BadLine, IInv, TypeOK
<1>3. /\ Sessions' = [Sessions EXCEPT ![c] = SessionOf(c)']
      /\ Dones' = [Dones EXCEPT ![c] = DoneOf(c)']
  BY <1>1, <1>2, MapOthers
<1>4. SessionOf(c)' = "over" /\ DoneOf(c)' = 0
  BY <1>1 DEF SessionOf, DoneOf
<1>5. CASE cut[c]
  <2>1. SessionOf(c) = "over" /\ DoneOf(c) = 0
    BY <1>1, <1>5, Positions
  <2> QED BY <1>1, <1>3, <1>4, <2>1 DEF Sessions, Dones
<1>6. CASE ~cut[c]
  <2>1. Sessions[c] = "open" /\ Dones[c] = line[c] - 1
    BY <1>1, <1>6, Positions DEF Sessions, Dones
  <2>2. line[c] \in Nat \ {0} /\ Len(Lines(c)) \in Nat
    BY <1>1, LineType DEF IInv, TypeOK, Flow, FlowAt, Connected
  <2>3. Service!Lines(c) = Lines(c) /\ Lines(c)[Dones[c] + 1] = Now(c)
    BY <2>1, <2>2 DEF Lines, Now, Service!Lines
  <2> QED BY <1>1, <1>3, <1>4, <2>1, <2>2, <2>3
        DEF Service!Refuse, Service!End, Sessions, Dones
<1> QED BY <1>5, <1>6

LEMMA StartMaps ==
  ASSUME IInv, NEW c \in Clients, Start(c)
  PROVE  Service!Open(c) \/ Service!Unreachable(c)
<1>1. pc[c] = "start" /\ file[c] <= Len(Script[c]) /\ ~cut[c] /\ line[c] = 1
  BY DEF Start, IInv, Flow, FlowAt
<1>2. Sessions[c] = "none" /\ Dones[c] = 0
  BY <1>1, Positions DEF Sessions, Dones
<1>3. CASE ~up /\ NextFile(c)
  <2>1. /\ Sessions' = [Sessions EXCEPT ![c] = "none"]
        /\ Dones' = [Dones EXCEPT ![c] = 0]
        /\ file' = [file EXCEPT ![c] = @ + 1] /\ UNCHANGED <<tables, up>>
    BY <1>1, <1>3, NextFileMaps
  <2>2. Sessions' = Sessions /\ Dones' = Dones
    BY <1>2, <2>1 DEF Sessions, Dones
  <2>3. Service!Unreachable(c)
    BY <1>1, <1>2, <1>3, <2>1, <2>2 DEF Service!Unreachable, Sessions, Dones
  <2> QED BY <2>3
<1>4. CASE /\ up /\ pc' = [pc EXCEPT ![c] = "ready"]
           /\ UNCHANGED <<file, line, cut, req, rep, tables, up, crashes>>
  <2>1. pc'[c] = "ready" /\ \A d \in Clients \ {c} : pc'[d] = pc[d]
    BY <1>4 DEF IInv, TypeOK
  <2>2. /\ Sessions' = [Sessions EXCEPT ![c] = SessionOf(c)']
        /\ Dones' = [Dones EXCEPT ![c] = DoneOf(c)']
    BY <1>4, <2>1, MapOthers
  <2>3. SessionOf(c)' = "open" /\ DoneOf(c)' = 0
    BY <1>1, <1>4, <2>1 DEF SessionOf, DoneOf
  <2>4. Dones' = Dones
    BY <1>2, <2>2, <2>3 DEF Dones
  <2>5. Service!Open(c)
    BY <1>1, <1>2, <1>4, <2>2, <2>3, <2>4 DEF Service!Open, Sessions, Dones
  <2> QED BY <2>5
<1> QED BY <1>3, <1>4 DEF Start

LEMMA EndMaps ==
  ASSUME IInv, NEW c \in Clients, Died(c) \/ EndOfFile(c)
  PROVE  Service!Close(c)
<1>1. /\ pc[c] \in {"ready", "raised"} /\ NextFile(c)
      /\ pc[c] = "ready" => line[c] > Len(Lines(c))
  <2>1. line[c] \in Nat /\ (pc[c] = "ready" => Len(Lines(c)) \in Nat)
    BY LineType DEF IInv, TypeOK, Flow, FlowAt, Connected
  <2> QED BY <2>1 DEF Died, EndOfFile, HasLine
<1>2. /\ Sessions' = [Sessions EXCEPT ![c] = "none"]
      /\ Dones' = [Dones EXCEPT ![c] = 0]
      /\ file' = [file EXCEPT ![c] = @ + 1] /\ UNCHANGED <<tables, up>>
  BY <1>1, NextFileMaps
<1>3. \/ Sessions[c] = "over"
      \/ Sessions[c] = "open" /\ Dones[c] = Len(Service!Lines(c))
  <2>1. CASE pc[c] = "raised" \/ cut[c]
    BY <1>1, <2>1, Positions DEF Sessions
  <2>2. CASE pc[c] = "ready" /\ ~cut[c]
    <3>1. Connected(c) /\ line[c] \in Nat /\ Len(Lines(c)) \in Nat
      BY <2>2, LineType DEF IInv, TypeOK, Flow, FlowAt, Connected
    <3>2. line[c] - 1 = Len(Lines(c))
      BY <1>1, <2>2, <3>1 DEF Connected
    <3>3. Service!Lines(c) = Lines(c)
      BY DEF Lines, Service!Lines
    <3> QED BY <2>2, <3>2, <3>3, Positions DEF Sessions, Dones
  <2> QED BY <1>1, <2>1, <2>2
<1> QED BY <1>2, <1>3 DEF Service!Close, Sessions, Dones

LEMMA CrashMaps ==
  ASSUME IInv, Crash
  PROVE  Service!Crash
<1>1. ASSUME NEW c \in Clients
      PROVE  /\ SessionOf(c)' = IF SessionOf(c) = "open" THEN "over" ELSE SessionOf(c)
             /\ DoneOf(c)' = 0
  <2>1. pc'[c] = pc[c] /\ cut'[c] = (pc[c] # "start")
    BY DEF Crash
  <2> QED BY <2>1 DEF SessionOf, DoneOf
<1>2. /\ Sessions' = [c \in Clients |->
                       IF Sessions[c] = "open" THEN "over" ELSE Sessions[c]]
      /\ Dones' = [c \in Clients |-> 0]
  BY <1>1 DEF Sessions, Dones
<1> QED BY <1>2 DEF Crash, Service!Crash, Sessions, Dones

(* Files of commands take effect as CommandService promises, whatever is   *)
(* in them, whichever methods the switch has and whenever it goes away.    *)
THEOREM Implements == Spec => ImplementsCommands
<1>1. Init => Service!Init
  <2> SUFFICES ASSUME Init PROVE Service!Init
    OBVIOUS
  <2>1. \A c \in Clients : SessionOf(c) = "none" /\ DoneOf(c) = 0
    BY DEF Init, SessionOf, DoneOf
  <2> QED BY <2>1 DEF Init, Service!Init
<1>2. IInv /\ [Next]_vars => [Service!Next]_(Service!vars)
  <2> SUFFICES ASSUME IInv, [Next]_vars
               PROVE  Service!Next \/ UNCHANGED Service!vars
    OBVIOUS
  <2> DEFINE Still == UNCHANGED <<file, Sessions, Dones, tables, up>>
  <2>1. Still => UNCHANGED Service!vars
    BY DEF Service!vars, Sessions, Dones
  <2>2. ASSUME NEW c \in Clients, Step(c)
        PROVE  Service!Next \/ Still
    <3>1. CASE Start(c)
      BY <3>1, StartMaps DEF Service!Next
    <3>2. CASE Send(c) \/ Receive(c) \/ Lost(c)
      BY <3>2, Stutters
    <3>3. CASE BadLine(c)
      BY <3>3, BadLineMaps DEF Service!Next
    <3>4. CASE Serve(c)
      BY <3>4, ServeMaps DEF Service!Next
    <3>5. CASE Died(c) \/ EndOfFile(c)
      BY <3>5, EndMaps DEF Service!Next
    <3> QED BY <2>2, <3>1, <3>2, <3>3, <3>4, <3>5 DEF Step
  <2>3. CASE Crash
    BY <2>3, CrashMaps DEF Service!Next
  <2>4. CASE Restart
    <3>1. UNCHANGED <<file, Sessions, Dones>>
      BY <2>4 DEF Restart, process, Sessions, Dones, SessionOf, DoneOf, AnswerRaises,
        Now, Lines
    <3>2. Service!Restart
      BY <2>4, <3>1 DEF Restart, Service!Restart, Sessions, Dones
    <3> QED BY <3>2 DEF Service!Next
  <2>5. ASSUME UNCHANGED vars PROVE Still
    BY <2>5 DEF vars, process, Sessions, Dones, SessionOf, DoneOf, AnswerRaises, Now,
      Lines
  <2> QED BY <2>1, <2>2, <2>3, <2>4, <2>5 DEF Next
<1> QED BY <1>1, <1>2, Invariance, PTL DEF Spec, ImplementsCommands, Service!Spec
=============================================================================
