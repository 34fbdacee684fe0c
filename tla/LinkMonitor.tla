---------------------------- MODULE LinkMonitor ----------------------------
(***************************************************************************)
(* nanomsg_link_status.py for one switch: it learns of ports going down    *)
(* and up from the switch's event log and keeps the one entry of the table *)
(* frr_indication in step with them.  The entry is always 0/0, so the      *)
(* table holds at most one; its handle is what the monitor must remember   *)
(* to delete it again.                                                     *)
(*                                                                         *)
(* The switch polls its ports and logs, in one message, all that changed   *)
(* since the last poll (bmv2's port monitor, not in this repository).  The *)
(* log is PUB/SUB: a message can be lost, and a monitor that is started    *)
(* again hears of nothing that was published before.  last_handle is a     *)
(* local variable and starts at -1; the entry outlives the monitor.        *)
(***************************************************************************)
EXTENDS TeBits, Sequences, FiniteSets

CONSTANTS
    Ports,        \* the ports of the switch
    NumSwitches,  \* switches of the network the tables were generated for
    Hosts,        \* hosts at each of them
    Switch,       \* this switch, counted from 1
    Regimes,      \* what the links may do: records [down, batch, faults]
    MaxChanges    \* bound on the changes

ASSUME MonitorAssumption ==
    /\ Ports \subseteq Nat \ {0}
    /\ IsFiniteSet(Ports)
    /\ Switch \in Nat \ {0}
    /\ MaxChanges \in Nat
    /\ Regimes \subseteq [down : Nat, batch : Nat, faults : Nat]

NoHandle == -1
NoEntry == [handle |-> NoHandle, bp |-> 0]

VARIABLES
    regime,       \* at most regime.down ports are down at a time, and at most
                  \* regime.batch of them change between two polls; at most
                  \* regime.faults messages are lost and restarts happen
    up,           \* the ports that are up
    reported,     \* the ports that were up at the last poll
    log,          \* messages not yet received: sets of [port, status]
    entry,        \* the entry of frr_indication, or NoEntry
    handles,      \* handles the table has given out
    last_handle,  \* what the monitor remembers
    changes,      \* changes so far
    faults,       \* lost messages and restarts so far
    since,        \* handles given out when the monitor was last started
    missed        \* ports of whose last change the monitor acts on no message

links == <<regime, up, reported, changes>>
table == <<entry, handles>>
vars == <<links, table, log, last_handle, faults, since, missed>>

Status == [port : Ports, status : {"UP", "DOWN"}]

TypeOK ==
    /\ regime \in Regimes
    /\ up \subseteq Ports
    /\ reported \subseteq Ports
    /\ log \in Seq(SUBSET Status)
    /\ entry \in [handle : NoHandle .. MaxChanges, bp : Nat]
    /\ handles \in 0 .. MaxChanges
    /\ last_handle \in NoHandle .. MaxChanges
    /\ changes \in 0 .. MaxChanges
    /\ faults \in 0 .. regime.faults
    /\ since \in 0 .. handles
    /\ missed \subseteq Ports

Init ==
    /\ regime \in Regimes
    /\ up = Ports
    /\ reported = Ports
    /\ log = << >>
    /\ entry = NoEntry
    /\ handles = 0
    /\ last_handle = NoHandle
    /\ changes = 0
    /\ faults = 0
    /\ since = 0
    /\ missed = {}

Unreported(now) == (now \cup reported) \ (now \cap reported)

\* The ports that messages are about.
Named(messages) == UNION {{m.port : m \in messages[i]} : i \in DOMAIN messages}

Change(p) ==
    LET now == IF p \in up THEN up \ {p} ELSE up \cup {p}
    IN  /\ changes < MaxChanges
        /\ Cardinality(Ports \ now) <= regime.down
        /\ Cardinality(Unreported(now)) <= regime.batch
        /\ up' = now
        /\ changes' = changes + 1
        /\ UNCHANGED <<regime, reported, table, log, last_handle, faults, since,
                       missed>>

\* Mutation: ports counted from 0.
PollFromZero ==
    /\ up # reported
    /\ log' = Append(log, {[port |-> p - 1, status |-> IF p \in up THEN "UP" ELSE "DOWN"] :
                              p \in Unreported(up)})
    /\ reported' = up
    /\ missed' = missed \ Unreported(up)
    /\ UNCHANGED <<regime, up, changes, table, last_handle, faults, since>>

Poll ==
    /\ up # reported
    /\ log' = Append(log, {[port |-> p, status |-> IF p \in up THEN "UP" ELSE "DOWN"] :
                              p \in Unreported(up)})
    /\ reported' = up
    /\ missed' = missed \ Unreported(up)
    /\ UNCHANGED <<regime, up, changes, table, last_handle, faults, since>>

\* The message does not reach the monitor, which is busy with a command.
PollLost ==
    /\ up # reported
    /\ faults < regime.faults
    /\ faults' = faults + 1
    /\ reported' = up
    /\ missed' = missed \cup Unreported(up)
    /\ UNCHANGED <<regime, up, changes, table, log, last_handle, since>>

\* The monitor is stopped and started again.
Restart ==
    /\ faults < regime.faults
    /\ faults' = faults + 1
    /\ log' = << >>
    /\ missed' = missed \cup Named(log)
    /\ last_handle' = NoHandle
    /\ since' = handles
    /\ UNCHANGED <<links, table>>

\* "more than one status change, no p4 action is taken"
Ignore ==
    /\ log # << >>
    /\ Cardinality(Head(log)) > 1
    /\ log' = Tail(log)
    /\ missed' = missed \cup ({m.port : m \in Head(log)} \ Named(Tail(log)))
    /\ UNCHANGED <<links, table, last_handle, faults, since>>

Received(p, status) ==
    /\ log # << >>
    /\ Head(log) = {[port |-> p, status |-> status]}
    /\ log' = Tail(log)

\* Mutation: the handle is forgotten before the command is made of it.
PortUpForgetsFirst(p) ==
    /\ Received(p, "UP")
    /\ last_handle' = NoHandle
    /\ UNCHANGED <<links, table, faults, since, missed>>

\* table_delete of the remembered handle, which fails when it is not there.
PortUp(p) ==
    /\ Received(p, "UP")
    /\ entry' = IF entry.handle = last_handle THEN NoEntry ELSE entry
    /\ last_handle' = NoHandle
    /\ UNCHANGED <<links, handles, faults, since, missed>>

\* Mutation: a refused table_add is taken for one that succeeded.
PortDownUnchecked(p) ==
    /\ Received(p, "DOWN")
    /\ last_handle' = handles
    /\ IF entry = NoEntry
       THEN /\ entry' = [handle |-> handles, bp |-> MonitoredBit(Switch - 1, p)]
            /\ handles' = handles + 1
       ELSE UNCHANGED <<entry, handles>>
    /\ UNCHANGED <<links, faults, since, missed>>

\* Mutation: an entry with the same key is replaced.
PortDownReplaces(p) ==
    /\ Received(p, "DOWN")
    /\ entry' = [handle |-> handles, bp |-> MonitoredBit(Switch - 1, p)]
    /\ last_handle' = handles
    /\ handles' = handles + 1
    /\ UNCHANGED <<links, faults, since, missed>>

\* table_add of 0/0, refused when the table has that entry already; only the
\* output of an add that succeeded names a handle.
PortDown(p) ==
    /\ Received(p, "DOWN")
    /\ IF entry = NoEntry
       THEN /\ entry' = [handle |-> handles, bp |-> MonitoredBit(Switch - 1, p)]
            /\ last_handle' = handles
            /\ handles' = handles + 1
       ELSE UNCHANGED <<entry, handles, last_handle>>
    /\ UNCHANGED <<links, faults, since, missed>>

Handle == Ignore \/ \E p \in Ports : PortUp(p) \/ PortDown(p)

Next == (\E p \in Ports : Change(p)) \/ Poll \/ PollLost \/ Restart \/ Handle

Spec == Init /\ [][Next]_vars

\* The switch polls periodically and the monitor's loop receives every message.
FairSpec == Spec /\ WF_vars(Poll) /\ WF_vars(Handle)

-----------------------------------------------------------------------------
Quiet == up = reported /\ log = << >>

\* The link ports are the ones with a bit of their own.
Affected == {AdjacencyBit(NumSwitches, Hosts, Switch, p) :
                p \in (Ports \cap LinkPorts(Hosts)) \ up}

\* The entry was made before the monitor was last started.
Orphan == entry # NoEntry /\ entry.handle < since

\* What the monitor remembers is the handle of the entry, whatever commands
\* the switch refused in between; of an orphan it remembers nothing.
HandleKnown == last_handle = IF Orphan THEN NoHandle ELSE entry.handle

\* No message and no command gets rid of an entry made before a restart: its
\* bit stays the one that is protected, whatever fails or comes back later.
OrphanStays == [][Orphan => entry' = entry]_vars

\* One port down at a time and one change per message: there is one entry for
\* all of them.
OneFailure == regime.down = 1 /\ regime.batch = 1

\* What restarts and lost messages did to the entry has passed.
Undisturbed == ~Orphan /\ missed = {}

\* Once the monitor has caught up, the entry it made is about an adjacency that
\* is down, or the message that said otherwise was lost or not acted on,
\* however failures overlap: traffic is not rerouted around a link that works.
NoFalseAlarm ==
    Quiet /\ entry # NoEntry /\ ~Orphan =>
        \/ entry.bp \in Affected
        \/ \E p \in missed : entry.bp = MonitoredBit(Switch - 1, p)

\* Once the monitor has caught up, a link that is down has the entry.
Protected ==
    OneFailure /\ Undisturbed /\ Quiet /\ Affected # {} =>
        entry # NoEntry /\ entry.bp \in Affected

\* When the links stop changing, the table ends up in step with them: a lost
\* message does harm until the next change of its port, and a restart only
\* when there is an entry.
Settles ==
    OneFailure =>
        <>[](Undisturbed =>
                IF Affected = {} THEN entry = NoEntry ELSE entry.bp \in Affected)
=============================================================================
