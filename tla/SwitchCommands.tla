---------------------------- MODULE SwitchCommands ---------------------------
(***************************************************************************)
(* The lines sswitch_CLI.py and SimpleSwitch-remote accept, the call each  *)
(* one asks for, and what the calls do to a switch.                        *)
(***************************************************************************)
EXTENDS ThriftService

CONSTANTS
  Num,          \* the numbers in use; each fits an i32
  Junk,         \* a word int() and eval refuse
  Wide          \* a number too wide for an i32, and for the i64 of a rate

ASSUME NumAssumption == Num \subseteq Int
ASSUME WordsAssumption == {Junk, Wide} \cap Num = {} /\ None \notin Int

Word == Num \cup {Junk, Wide}
Commands ==
  {"set_queue_depth", "set_queue_rate", "mirroring_add", "mirroring_delete"}
Line == [name : Commands \cup Method, words : Seq(Word)]

do_set_queue_depth(words) ==
  CASE Len(words) > 1 -> {set_egress_queue_depth(words[2], words[1])}
    [] Len(words) = 1 -> {set_all_egress_queue_depths(words[1])}
    [] OTHER -> {}
do_set_queue_rate(words) ==
  CASE Len(words) > 1 -> {set_egress_queue_rate(words[2], words[1])}
    [] Len(words) = 1 -> {set_all_egress_queue_rates(words[1])}
    [] OTHER -> {}
do_mirroring_add(words) ==
  IF Len(words) > 1 THEN {mirroring_mapping_add(words[1], words[2])} ELSE {}
do_mirroring_delete(words) ==           \* int() of the whole line
  IF Len(words) = 1 THEN {mirroring_mapping_delete(words[1])} ELSE {}
Remote(method, words) ==                \* SimpleSwitch-remote counts them
  IF Len(words) = Len(ArgsOf[method]) THEN {Call(method, words)} ELSE {}

Calls == UNION {[name : {m}, args : [1..Len(ArgsOf[m]) -> Num]] : m \in Method}

(* What the line sends: one call, or none because an exception ends the    *)
(* process first: a word is missing, it is no number, or writeI32 refuses  *)
(* it before anything is flushed.                                          *)
Wanted(line) ==
  CASE line.name = "set_queue_depth" -> do_set_queue_depth(line.words)
    [] line.name = "set_queue_rate" -> do_set_queue_rate(line.words)
    [] line.name = "mirroring_add" -> do_mirroring_add(line.words)
    [] line.name = "mirroring_delete" -> do_mirroring_delete(line.words)
    [] OTHER -> Remote(line.name, line.words)
Sendable(call) == \A i \in DOMAIN call.args : call.args[i] \in Num
Asked(line) == {call \in Wanted(line) : Sendable(call)}

-----------------------------------------------------------------------------
(* The handler of simple_switch: a mirroring map and a queue for each port.*)
Key == {"mirror", "depth", "rate"} \X Num
Empty == [k \in Key |-> None]

Writes(call) ==
  {k \in Key :
     \/ /\ call.name \in {"mirroring_mapping_add", "mirroring_mapping_delete"}
        /\ k = <<"mirror", call.args[1]>>
     \/ call.name = "set_egress_queue_depth" /\ k = <<"depth", call.args[1]>>
     \/ call.name = "set_all_egress_queue_depths" /\ k[1] = "depth"
     \/ call.name = "set_egress_queue_rate" /\ k = <<"rate", call.args[1]>>
     \/ call.name = "set_all_egress_queue_rates" /\ k[1] = "rate"}

ValueOf(call) ==
  IF call.name = "mirroring_mapping_delete" THEN None
  ELSE call.args[Len(ArgsOf[call.name])]

Effect(call, tables) ==
  [k \in Key |-> IF k \in Writes(call) THEN ValueOf(call) ELSE tables[k]]

(* What the handler may return: the port of a mirroring session or -1 if   *)
(* there is none, else 0; a handler that returns nothing leaves success    *)
(* unset.                                                                  *)
Looked(call, tables) ==
  LET port == tables[<<"mirror", call.args[1]>>]
  IN IF port = None THEN -1 ELSE port
Answers(call, tables) ==
  IF call.name = "mirroring_mapping_get_egress_port"
  THEN {Looked(call, tables)} ELSE {0, None}
=============================================================================
