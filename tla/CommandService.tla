---------------------------- MODULE CommandService ---------------------------
(***************************************************************************)
(* What feeding files of commands to a switch promises: every file has a   *)
(* session of its own, whose lines take effect one at a time and in their  *)
(* order, none twice, and none after a line that failed or after the       *)
(* switch went away.  Nothing is repeated in a later session.              *)
(***************************************************************************)
EXTENDS Naturals, Sequences

CONSTANTS
  Clients,      \* the processes that feed files one after the other
  Script,       \* the files of each client, sequences of lines
  Served,       \* the methods the switch has
  Asked(_),     \* the call a line asks for, a set of one or none
  Effect(_, _), \* what a call makes of the tables
  Empty         \* the tables of a switch that just started

VARIABLES
  file,         \* the number of the file each client is at
  session,      \* "none", "open", or "over": nothing more will take effect
  done,         \* how many lines of the file took effect in this session
  tables,       \* the mirroring sessions and queues of the switch
  up            \* the switch runs

vars == <<file, session, done, tables, up>>

Lines(c) == Script[c][file[c]]

Init ==
  /\ file = [c \in Clients |-> 1]
  /\ session = [c \in Clients |-> "none"]
  /\ done = [c \in Clients |-> 0]
  /\ tables = Empty
  /\ up = TRUE

Open(c) ==
  /\ session[c] = "none" /\ file[c] <= Len(Script[c]) /\ up
  /\ session' = [session EXCEPT ![c] = "open"]
  /\ UNCHANGED <<file, done, tables, up>>

Unreachable(c) ==
  /\ session[c] = "none" /\ file[c] <= Len(Script[c]) /\ ~up
  /\ file' = [file EXCEPT ![c] = @ + 1]
  /\ UNCHANGED <<session, done, tables, up>>

End(c) ==
  /\ session' = [session EXCEPT ![c] = "over"]
  /\ done' = [done EXCEPT ![c] = 0]

(* The next line takes effect, and the session goes on or ends.            *)
Apply(c) ==
  /\ session[c] = "open" /\ done[c] < Len(Lines(c)) /\ up
  /\ \E call \in Asked(Lines(c)[done[c] + 1]) :
       call.name \in Served /\ tables' = Effect(call, tables)
  /\ \/ done' = [done EXCEPT ![c] = @ + 1] /\ session' = session
     \/ End(c)
  /\ UNCHANGED <<file, up>>

Refuse(c) ==
  /\ session[c] = "open" /\ done[c] < Len(Lines(c))
  /\ \A call \in Asked(Lines(c)[done[c] + 1]) : call.name \notin Served
  /\ End(c)
  /\ UNCHANGED <<file, tables, up>>

Close(c) ==
  /\ \/ session[c] = "over"
     \/ session[c] = "open" /\ done[c] = Len(Lines(c))
  /\ session' = [session EXCEPT ![c] = "none"]
  /\ done' = [done EXCEPT ![c] = 0]
  /\ file' = [file EXCEPT ![c] = @ + 1]
  /\ UNCHANGED <<tables, up>>

Crash ==
  /\ up /\ up' = FALSE
  /\ session' = [c \in Clients |-> IF session[c] = "open" THEN "over" ELSE session[c]]
  /\ done' = [c \in Clients |-> 0]
  /\ UNCHANGED <<file, tables>>

Restart ==
  /\ ~up /\ up' = TRUE /\ tables' = Empty
  /\ UNCHANGED <<file, session, done>>

Next ==
  \/ \E c \in Clients :
       Open(c) \/ Unreachable(c) \/ Apply(c) \/ Refuse(c) \/ Close(c)
  \/ Crash \/ Restart

Spec == Init /\ [][Next]_vars
=============================================================================
