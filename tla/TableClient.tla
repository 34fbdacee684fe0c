----------------------------- MODULE TableClient -----------------------------
(***************************************************************************)
(* cli.py, one process for each file of commands, sswitch_CLI.py inside it *)
(* and the thrift client and processor of SimpleSwitch.py; the switch may  *)
(* stop and start again with empty tables.                                 *)
(***************************************************************************)
EXTENDS SwitchCommands, FiniteSets

CONSTANTS
  Clients,      \* the scripts, and hands, that start cli.py or SimpleSwitch-remote
  Script,       \* the files each of them feeds, in order
  Served,       \* the methods in the processMap of the switch
  MaxCrashes    \* bound: how often the switch goes away

ASSUME ScriptAssumption == Script \in [Clients -> Seq(Seq(Line))]
ASSUME ServedAssumption == Served \subseteq Method
ASSUME CrashesAssumption == MaxCrashes \in Nat

VARIABLES
  file,         \* the file each client is at
  pc,           \* "start", "ready" for a line, "waiting" in recv, or "raised"
  line,         \* the line the process is at
  cut,          \* the connection of the process is to a switch that is gone
  req, rep,     \* the messages on the way to the switch and back
  tables, up,   \* the switch
  crashes

process == <<file, pc, line, cut>>
vars == <<process, req, rep, tables, up, crashes>>

Lines(c) == Script[c][file[c]]
Now(c) == Lines(c)[line[c]]
HasLine(c) == line[c] <= Len(Lines(c))

Init ==
  /\ file = [c \in Clients |-> 1] /\ line = [c \in Clients |-> 1]
  /\ pc = [c \in Clients |-> "start"]
  /\ cut = [c \in Clients |-> FALSE]
  /\ req = [c \in Clients |-> {}] /\ rep = [c \in Clients |-> {}]
  /\ tables = Empty /\ up = TRUE /\ crashes = 0

(* The script looks at no return code: the next file gets a process of its *)
(* own, whatever became of this one.                                       *)
NextFile(c) ==
  /\ file' = [file EXCEPT ![c] = @ + 1]
  /\ pc' = [pc EXCEPT ![c] = "start"]
  /\ line' = [line EXCEPT ![c] = 1]
  /\ cut' = [cut EXCEPT ![c] = FALSE]
  /\ rep' = [rep EXCEPT ![c] = {}]
  /\ UNCHANGED <<req, tables, up, crashes>>

Start(c) ==
  /\ pc[c] = "start" /\ file[c] <= Len(Script[c])
  /\ \/ /\ up /\ pc' = [pc EXCEPT ![c] = "ready"]
        /\ UNCHANGED <<file, line, cut, req, rep, tables, up, crashes>>
     \/ ~up /\ NextFile(c)

Send(c) ==
  /\ pc[c] = "ready" /\ HasLine(c) /\ ~cut[c]
  /\ \E call \in Asked(Now(c)) : req' = [req EXCEPT ![c] = {Request(call)}]
  /\ pc' = [pc EXCEPT ![c] = "waiting"]
  /\ UNCHANGED <<file, line, cut, rep, tables, up, crashes>>

(* The word is no number, there are too few, or it does not fit.           *)
BadLineSkipped(c) ==    \* Mutation: the exception is caught and the line skipped.
  /\ pc[c] = "ready" /\ HasLine(c) /\ Asked(Now(c)) = {}
  /\ line' = [line EXCEPT ![c] = @ + 1]
  /\ UNCHANGED <<file, pc, cut, req, rep, tables, up, crashes>>
BadLine(c) ==
  /\ pc[c] = "ready" /\ HasLine(c) /\ Asked(Now(c)) = {}
  /\ pc' = [pc EXCEPT ![c] = "raised"]
  /\ UNCHANGED <<file, line, cut, req, rep, tables, up, crashes>>

Serve(c) ==
  /\ up
  /\ \E msg \in req[c] :
       \/ /\ msg.name \notin Served
          /\ rep' = [rep EXCEPT ![c] = {UnknownFunction(msg)}]
          /\ tables' = tables
       \/ /\ msg.name \in Served
          /\ tables' = Effect(Handled(msg), tables)
          /\ \E success \in Answers(Handled(msg), tables) :
               rep' = [rep EXCEPT ![c] = {Reply(msg, success)}]
  /\ req' = [req EXCEPT ![c] = {}]
  /\ UNCHANGED <<process, up, crashes>>

ReceiveOverruns(c) ==   \* Mutation: the answer is left in the connection.
  /\ pc[c] = "waiting"
  /\ \E call \in Asked(Now(c)), msg \in rep[c] : ~Raises(call.name, msg)
  /\ pc' = [pc EXCEPT ![c] = "ready"]
  /\ line' = [line EXCEPT ![c] = @ + 1]
  /\ UNCHANGED <<file, cut, req, rep, tables, up, crashes>>
Receive(c) ==
  /\ pc[c] = "waiting"
  /\ \E call \in Asked(Now(c)), msg \in rep[c] :
       \/ /\ Raises(call.name, msg)
          /\ pc' = [pc EXCEPT ![c] = "raised"] /\ line' = line
       \/ /\ ~Raises(call.name, msg)
          /\ pc' = [pc EXCEPT ![c] = "ready"]
          /\ line' = [line EXCEPT ![c] = @ + 1]
  /\ rep' = [rep EXCEPT ![c] = {}]
  /\ UNCHANGED <<file, cut, req, tables, up, crashes>>

(* Writing to or reading from the connection fails, though an answer may   *)
(* have been on its way.                                                   *)
LostOnWrite(c) ==       \* Mutation: recv does not notice.
  /\ cut[c] /\ pc[c] = "ready" /\ HasLine(c)
  /\ pc' = [pc EXCEPT ![c] = "raised"]
  /\ UNCHANGED <<file, line, cut, req, rep, tables, up, crashes>>
Lost(c) ==
  /\ cut[c] /\ (pc[c] = "waiting" \/ (pc[c] = "ready" /\ HasLine(c)))
  /\ pc' = [pc EXCEPT ![c] = "raised"]
  /\ rep' = [rep EXCEPT ![c] = {}]
  /\ UNCHANGED <<file, line, cut, req, tables, up, crashes>>

(* Nothing catches the exception: the rest of the file is not read.        *)
Died(c) == pc[c] = "raised" /\ NextFile(c)
EndOfFile(c) == pc[c] = "ready" /\ ~HasLine(c) /\ NextFile(c)

CrashUnnoticed ==       \* Mutation: the connection is made anew.
  /\ up /\ crashes < MaxCrashes
  /\ up' = FALSE /\ crashes' = crashes + 1
  /\ req' = [c \in Clients |-> {}]
  /\ UNCHANGED <<file, pc, line, cut, rep, tables>>

Crash ==
  /\ up /\ crashes < MaxCrashes
  /\ up' = FALSE /\ crashes' = crashes + 1
  /\ cut' = [c \in Clients |-> pc[c] # "start"]
  /\ req' = [c \in Clients |-> {}]
  /\ UNCHANGED <<file, pc, line, rep, tables>>

Restart ==
  /\ ~up /\ up' = TRUE /\ tables' = Empty
  /\ UNCHANGED <<process, req, rep, crashes>>

Step(c) ==
  \/ Start(c) \/ Send(c) \/ BadLine(c) \/ Serve(c) \/ Receive(c) \/ Lost(c)
  \/ Died(c) \/ EndOfFile(c)

Next == (\E c \in Clients : Step(c)) \/ Crash \/ Restart

(* Every process and the thread that serves it run on; no process has a    *)
(* timeout, and nothing makes the switch come back.                        *)
Fairness == \A c \in Clients : WF_vars(Step(c))
Spec == Init /\ [][Next]_vars /\ Fairness

-----------------------------------------------------------------------------
Messages ==
  [name : Method, type : {"CALL", "REPLY", "EXCEPTION"}, seqid : {0},
   fields : UNION {[S -> Num \cup {-1, 0}] : S \in SUBSET (0..2)}]

TypeOK ==
  /\ file \in [Clients -> Nat \ {0}] /\ line \in [Clients -> Nat \ {0}]
  /\ pc \in [Clients -> {"start", "ready", "waiting", "raised"}]
  /\ cut \in [Clients -> BOOLEAN]
  /\ req \in [Clients -> SUBSET Messages] /\ rep \in [Clients -> SUBSET Messages]
  /\ tables \in [Key -> Num \cup {None}]
  /\ up \in BOOLEAN /\ crashes \in 0..MaxCrashes

(* The clients with a line that could write a key.                         *)
Writers ==
  [k \in Key |-> {c \in Clients :
     \E f \in 1..Len(Script[c]) : \E i \in 1..Len(Script[c][f]) :
       \E call \in Asked(Script[c][f][i]) : k \in Writes(call)}]
OnlyWriter(c, k) == Writers[k] \subseteq {c}

(* The message carries the call, or answers it: with the port of the       *)
(* mirroring session as it is, where nobody else touches it.               *)
Concerns(c, call, msg) ==
  /\ msg.name = call.name
  /\ msg.type = "CALL" => Handled(msg) = call
  /\ (/\ msg.type = "REPLY" /\ ~cut[c]
      /\ call.name = "mirroring_mapping_get_egress_port"
      /\ OnlyWriter(c, <<"mirror", call.args[1]>>))
     => Result(call.name, msg) = Looked(call, tables)

(* The answer a process reads is the one to the call it waits for, though  *)
(* recv_* compares neither name nor number.                                *)
OwnAnswer ==
  \A c \in Clients :
    /\ Cardinality(req[c] \cup rep[c]) <= 1
    /\ \A msg \in req[c] \cup rep[c] :
         pc[c] = "waiting" /\ \E call \in Asked(Now(c)) : Concerns(c, call, msg)

(* As long as the connection stands, what a line that was answered wrote   *)
(* is in the switch, unless a later line of the file or another client     *)
(* writes there too.                                                       *)
Standing(c) ==
  pc[c] # "start" /\ ~cut[c] =>
    \A i \in 1..(line[c] - 1) : \A call \in Asked(Lines(c)[i]) :
      \A k \in Writes(call) :
        \/ tables[k] = ValueOf(call)
        \/ ~OnlyWriter(c, k)
        \/ \E j \in (i + 1)..Len(Lines(c)) :
             j <= line[c] /\ \E later \in Asked(Lines(c)[j]) : k \in Writes(later)
Stands == \A c \in Clients : Standing(c)

(* The files take effect as CommandService says: the position of a session *)
(* moves when the switch serves a call, not when the client hears of it.   *)
AnswerRaises(c) ==
  \E call \in Asked(Now(c)), msg \in rep[c] : Raises(call.name, msg)
SessionOf(c) ==
  IF pc[c] = "start" THEN "none"
  ELSE IF pc[c] = "raised" \/ cut[c] THEN "over"
  ELSE IF pc[c] = "waiting" /\ AnswerRaises(c) THEN "over" ELSE "open"
DoneOf(c) ==
  IF SessionOf(c) # "open" THEN 0
  ELSE IF pc[c] = "waiting" /\ req[c] = {} THEN line[c] ELSE line[c] - 1

Service ==
  INSTANCE CommandService WITH session <- [c \in Clients |-> SessionOf(c)],
                               done <- [c \in Clients |-> DoneOf(c)]
ImplementsCommands == Service!Spec

(* Every script comes to its end, whatever fails on the way.               *)
EveryScriptEnds ==
  <>(\A c \in Clients : file[c] = Len(Script[c]) + 1)
=============================================================================
