------------------------- MODULE LinkMonitorProofs -------------------------
(***************************************************************************)
(* Whatever messages are lost or ignored, and however often it is started  *)
(* again, the monitor knows the handle of the entry it made, never touches *)
(* one made before, and, once it has caught up, its entry is about an      *)
(* adjacency that is down unless the message that said otherwise was lost  *)
(* or named other changes too.                                             *)
(***************************************************************************)
EXTENDS LinkMonitor, SequenceTheorems, FiniteSetTheorems, TLAPS

Said(p) == [port |-> p, status |-> IF p \in up THEN "UP" ELSE "DOWN"]

-----------------------------------------------------------------------------
(* Types.  The handles are bounded by the changes because each is given    *)
(* out for a message of its own, and each message reports a change.        *)

Counted ==
    handles + Len(log) + (IF up = reported THEN 0 ELSE 1) <= changes

LEMMA TypeOKInitially == Init => TypeOK /\ Counted
  <1> SUFFICES ASSUME Init
               PROVE  TypeOK /\ Counted
    OBVIOUS
  <1>1. entry \in [handle : NoHandle .. MaxChanges, bp : Nat]
    BY MonitorAssumption DEF Init, NoEntry, NoHandle
  <1>2. regime \in Regimes /\ regime.faults \in Nat
    BY MonitorAssumption DEF Init
  <1>3. /\ log = << >> /\ up = reported /\ handles = 0 /\ changes = 0
        /\ faults = 0 /\ since = 0 /\ missed = {} /\ up = Ports
        /\ last_handle = NoHandle
    BY DEF Init
  <1>4. Counted
    BY <1>3 DEF Counted
  <1> QED BY <1>1, <1>2, <1>3, <1>4, MonitorAssumption DEF TypeOK, NoHandle

\* Receiving a message takes the first one off the log.
LEMMA HeadReceived ==
    ASSUME TypeOK, log # << >>
    PROVE  /\ Len(log) \in Nat \ {0}
           /\ Head(log) = log[1]
           /\ Head(log) \subseteq Status
           /\ Tail(log) \in Seq(SUBSET Status)
           /\ Len(Tail(log)) = Len(log) - 1
           /\ DOMAIN Tail(log) = 1 .. Len(log) - 1
           /\ \A i \in 1 .. Len(log) - 1 : Tail(log)[i] = log[i + 1]
  BY DEF TypeOK

LEMMA MessageType ==
    TypeOK => {Said(p) : p \in Unreported(up)} \in SUBSET Status
  BY DEF TypeOK, Said, Unreported, Status

\* A poll appends what it says about the ports that changed.
LEMMA PollAppends ==
    ASSUME TypeOK, Poll
    PROVE  /\ log' \in Seq(SUBSET Status)
           /\ Len(log') = Len(log) + 1
           /\ \A i \in 1 .. Len(log) : log'[i] = log[i]
           /\ log'[Len(log) + 1] = {Said(p) : p \in Unreported(up)}
  BY MessageType DEF TypeOK, Poll, Said

LEMMA NamedPorts ==
    ASSUME NEW ms \in Seq(SUBSET Status)
    PROVE  Named(ms) \subseteq Ports
  BY DEF Named, Status

LEMMA TypeOKInductive ==
    ASSUME TypeOK, Counted, [Next]_vars
    PROVE  TypeOK' /\ Counted'
  <1>1. /\ Len(log) \in Nat /\ handles \in Nat /\ changes \in Nat
        /\ MaxChanges \in Nat /\ faults \in Nat /\ regime.faults \in Nat
        /\ since \in Nat /\ since <= handles /\ handles <= MaxChanges
    BY MonitorAssumption DEF TypeOK
  <1>2. ASSUME NEW p \in Ports, Change(p)
        PROVE  TypeOK' /\ Counted'
    <2>1. changes' = changes + 1 /\ changes < MaxChanges
          /\ UNCHANGED <<regime, reported, table, log, last_handle, faults, since,
                         missed>>
      BY <1>2 DEF Change
    <2>2. up' \subseteq Ports
      BY <1>2 DEF Change, TypeOK
    <2> QED BY <1>1, <2>1, <2>2 DEF TypeOK, Counted, table
  <1>3. CASE Poll
    <2>1. /\ reported' = up /\ up # reported /\ missed' \subseteq missed
          /\ UNCHANGED <<regime, up, changes, table, last_handle, faults, since>>
      BY <1>3 DEF Poll
    <2>2. log' \in Seq(SUBSET Status) /\ Len(log') = Len(log) + 1
      BY <1>3, PollAppends
    <2> QED BY <1>1, <2>1, <2>2 DEF TypeOK, Counted, table
  <1>4. CASE PollLost
    <2>1. Unreported(up) \subseteq Ports
      BY DEF TypeOK, Unreported
    <2>2. /\ reported' = up /\ up # reported /\ missed' = missed \cup Unreported(up)
          /\ faults' = faults + 1 /\ faults < regime.faults
          /\ UNCHANGED <<regime, up, changes, table, log, last_handle, since>>
      BY <1>4 DEF PollLost
    <2> QED BY <1>1, <2>1, <2>2 DEF TypeOK, Counted, table
  <1>5. CASE Restart
    <2>1. Named(log) \subseteq Ports
      BY NamedPorts DEF TypeOK
    <2>2. /\ log' = << >> /\ missed' = missed \cup Named(log)
          /\ last_handle' = NoHandle /\ since' = handles
          /\ faults' = faults + 1 /\ faults < regime.faults
          /\ UNCHANGED <<links, table>>
      BY <1>5 DEF Restart
    <2>3. NoHandle \in NoHandle .. MaxChanges
      BY <1>1 DEF NoHandle
    <2>4. log' \in Seq(SUBSET Status) /\ Len(log') = 0
      BY <2>2
    <2>5. TypeOK'
      BY <1>1, <2>1, <2>2, <2>3, <2>4 DEF TypeOK, links, table
    <2>6. Counted'
      BY <1>1, <2>2, <2>4 DEF Counted, links, table
    <2> QED BY <2>5, <2>6
  <1>6. ASSUME log # << >>, log' = Tail(log), UNCHANGED <<links, faults, since>>,
               handles' = handles \/ handles' = handles + 1
        PROVE  /\ log' \in Seq(SUBSET Status)
               /\ handles' \in 0 .. MaxChanges
               /\ handles < MaxChanges
               /\ since' \in 0 .. handles'
               /\ Counted'
    BY <1>1, <1>6, HeadReceived DEF TypeOK, Counted, links
  <1>7. CASE Ignore
    <2>1. {m.port : m \in Head(log)} \subseteq Ports
      BY <1>7, HeadReceived DEF Ignore, Status
    <2> QED BY <1>6, <1>7, <2>1 DEF Ignore, TypeOK, links, table
  <1>8. ASSUME NEW p \in Ports, PortUp(p)
        PROVE  TypeOK' /\ Counted'
    <2>1. NoEntry \in [handle : NoHandle .. MaxChanges, bp : Nat]
      BY <1>1 DEF NoEntry, NoHandle
    <2>2. entry' \in [handle : NoHandle .. MaxChanges, bp : Nat]
      BY <1>8, <2>1 DEF PortUp, TypeOK
    <2>3. last_handle' \in NoHandle .. MaxChanges
      BY <1>1, <1>8 DEF PortUp, NoHandle
    <2> QED BY <1>6, <1>8, <2>2, <2>3 DEF PortUp, Received, TypeOK, links
  <1>9. ASSUME NEW p \in Ports, PortDown(p)
        PROVE  TypeOK' /\ Counted'
    <2>1. MonitoredBit(Switch - 1, p) \in Nat
      BY MonitorAssumption DEF MonitoredBit
    <2>2. /\ log' \in Seq(SUBSET Status) /\ handles' \in 0 .. MaxChanges
          /\ handles < MaxChanges /\ since' \in 0 .. handles' /\ Counted'
      BY <1>6, <1>9 DEF PortDown, Received
    <2>3. handles \in NoHandle .. MaxChanges
      BY <1>1, <2>2 DEF NoHandle
    <2>4. entry' \in [handle : NoHandle .. MaxChanges, bp : Nat]
      BY <1>9, <2>1, <2>3 DEF PortDown, TypeOK
    <2>5. last_handle' \in NoHandle .. MaxChanges
      BY <1>9, <2>3 DEF PortDown, TypeOK
    <2> QED BY <1>9, <2>2, <2>4, <2>5 DEF PortDown, TypeOK, links
  <1>10. CASE UNCHANGED vars
    BY <1>10 DEF vars, links, table, TypeOK, Counted
  <1> QED BY <1>2, <1>3, <1>4, <1>5, <1>7, <1>8, <1>9, <1>10 DEF Next, Handle

\* The types, and with them the bound on the handles the table gives out
\* (nanomsg_link_status.py:73-120).
THEOREM TypeCorrect == Spec => []TypeOK
  BY TypeOKInitially, TypeOKInductive, PTL DEF Spec

-----------------------------------------------------------------------------
(* The remembered handle, and the entry nobody remembers.                  *)

\* Only handles that were given out are in the table.
HandleGiven ==
    entry = NoEntry \/ (0 <= entry.handle /\ entry.handle < handles)

RememberInv == TypeOK /\ HandleGiven /\ HandleKnown

LEMMA RememberInvInitially == Init => HandleGiven /\ HandleKnown
  BY DEF Init, HandleGiven, HandleKnown, Orphan, NoEntry, NoHandle

LEMMA RememberInvInductive ==
    ASSUME RememberInv, [Next]_vars
    PROVE  HandleGiven' /\ HandleKnown'
  <1>1. /\ handles \in Nat /\ entry.handle \in Int /\ since \in Nat
        /\ since <= handles /\ HandleGiven /\ HandleKnown
    BY DEF RememberInv, TypeOK, NoHandle
  <1>2. ASSUME NEW p \in Ports, PortUp(p)
        PROVE  HandleGiven' /\ HandleKnown'
    <2>1. /\ entry' = IF entry.handle = last_handle THEN NoEntry ELSE entry
          /\ last_handle' = NoHandle /\ UNCHANGED <<handles, since>>
      BY <1>2 DEF PortUp
    <2>2. CASE Orphan
      BY <1>1, <2>1, <2>2
         DEF HandleGiven, HandleKnown, Orphan, NoEntry, NoHandle
    <2>3. CASE ~Orphan
      BY <1>1, <2>1, <2>3
         DEF HandleGiven, HandleKnown, Orphan, NoEntry, NoHandle
    <2> QED BY <2>2, <2>3
  <1>3. ASSUME NEW p \in Ports, PortDown(p)
        PROVE  HandleGiven' /\ HandleKnown'
    <2>1. CASE entry = NoEntry
      <3>1. /\ entry'.handle = handles /\ last_handle' = handles
            /\ handles' = handles + 1 /\ since' = since
        BY <1>3, <2>1 DEF PortDown
      <3> QED BY <1>1, <3>1 DEF HandleGiven, HandleKnown, Orphan
    <2>2. CASE entry # NoEntry
      <3>1. UNCHANGED <<entry, handles, last_handle, since>>
        BY <1>3, <2>2 DEF PortDown
      <3> QED BY <1>1, <3>1 DEF HandleGiven, HandleKnown, Orphan
    <2> QED BY <2>1, <2>2
  <1>4. CASE Restart
    <2>1. last_handle' = NoHandle /\ since' = handles /\ UNCHANGED <<entry, handles>>
      BY <1>4 DEF Restart, table
    <2>2. entry = NoEntry \/ Orphan'
      BY <1>1, <2>1 DEF HandleGiven, Orphan
    <2> QED BY <1>1, <2>1, <2>2 DEF HandleGiven, HandleKnown, NoEntry
  <1>5. CASE UNCHANGED <<table, last_handle, since>>
    BY <1>1, <1>5 DEF HandleGiven, HandleKnown, Orphan, table
  <1> QED BY <1>2, <1>3, <1>4, <1>5
          DEF Next, Handle, Change, Poll, PollLost, Ignore, vars

LEMMA RememberInvHolds == Spec => []RememberInv
  <1>1. Init => RememberInv
    BY RememberInvInitially, TypeOKInitially DEF RememberInv
  <1>2. RememberInv /\ TypeOK' /\ [Next]_vars => RememberInv'
    BY RememberInvInductive DEF RememberInv
  <1> QED BY <1>1, <1>2, TypeCorrect, PTL DEF Spec

\* Whatever messages are lost or ignored and whatever commands the switch
\* refuses, the monitor knows the handle of the entry it made since it was
\* started (nanomsg_link_status.py:71, 103-120).
THEOREM HandleKnownHolds == Spec => []HandleKnown
  <1>1. RememberInv => HandleKnown
    BY DEF RememberInv
  <1> QED BY <1>1, RememberInvHolds, PTL

\* An entry made before a restart is never changed again
\* (nanomsg_link_status.py:71, 104-107).
THEOREM OrphanStaysHolds == Spec => OrphanStays
  <1>1. RememberInv /\ [Next]_vars => (Orphan => entry' = entry)
    <2> SUFFICES ASSUME RememberInv, [Next]_vars, Orphan
                 PROVE  entry' = entry
      OBVIOUS
    <2>1. last_handle = NoHandle /\ entry # NoEntry
      BY DEF RememberInv, HandleKnown, Orphan
    <2>2. ASSUME NEW p \in Ports, PortUp(p)
          PROVE  entry' = entry
      BY <2>1, <2>2 DEF PortUp, RememberInv, HandleGiven, NoHandle
    <2>3. ASSUME NEW p \in Ports, PortDown(p)
          PROVE  entry' = entry
      BY <2>1, <2>3 DEF PortDown
    <2> QED BY <2>2, <2>3
            DEF Next, Handle, Change, Poll, PollLost, Restart, Ignore, vars, table
  <1> QED BY <1>1, RememberInvHolds, PTL DEF Spec, OrphanStays

-----------------------------------------------------------------------------
(* What the entry is about.                                                *)

\* The numbers in the monitor are those the tables were generated for
\* (nanomsg_link_status.py:100-102), and the ports are those of links.
NumbersAgree ==
    /\ NumSwitches = 8
    /\ Hosts = 1
    /\ Ports \subseteq LinkPorts(Hosts)

Says(p, status) == [port |-> p, status |-> status]

\* The log says from message i on that p is up.
AnsweredFrom(p, i) == \E j \in i .. Len(log) : Says(p, "UP") \in log[j]

\* A port that was last reported to be up is reported so after each message
\* that it was down, or the monitor does not hear of it.
DownsAreAnswered ==
    \A p \in reported \ missed : \A i \in 1 .. Len(log) :
        Says(p, "DOWN") \in log[i] => AnsweredFrom(p, i + 1)

\* The monitor's entry is about a port that was last reported to be down, or
\* the message that it came up is on its way, or the monitor does not hear it.
EntryIsAnswered ==
    entry # NoEntry /\ ~Orphan =>
        \E p \in Ports :
            /\ entry.bp = MonitoredBit(Switch - 1, p)
            /\ p \in reported \ missed => AnsweredFrom(p, 1)

AlarmInv == DownsAreAnswered /\ EntryIsAnswered

LEMMA AlarmInvInitially == Init => AlarmInv
  <1> SUFFICES ASSUME Init
               PROVE  AlarmInv
    OBVIOUS
  <1>1. Len(log) = 0 /\ entry = NoEntry
    BY DEF Init
  <1> QED BY <1>1 DEF AlarmInv, DownsAreAnswered, EntryIsAnswered

LEMMA StatusesDiffer ==
    ASSUME NEW p, NEW q
    PROVE  Says(p, "UP") # Says(q, "DOWN")
  <1>1. Says(p, "UP").status = "UP" /\ Says(q, "DOWN").status = "DOWN"
    BY DEF Says
  <1>2. "UP" # "DOWN"
    OBVIOUS
  <1> QED BY <1>1, <1>2

LEMMA SaidByPoll ==
    ASSUME NEW p, NEW status \in {"UP", "DOWN"},
           Says(p, status) \in {Said(q) : q \in Unreported(up)}
    PROVE  p \in Unreported(up) /\ (status = "UP" <=> p \in up)
  <1>1. PICK q \in Unreported(up) : Says(p, status) = Said(q)
    OBVIOUS
  <1>2. Says(p, status).port = p /\ Says(p, status).status = status
    BY DEF Says
  <1>3. Said(q).port = q /\ Said(q).status = IF q \in up THEN "UP" ELSE "DOWN"
    BY DEF Said
  <1>4. p = q
    BY <1>1, <1>2, <1>3
  <1>5. status = IF p \in up THEN "UP" ELSE "DOWN"
    BY <1>1, <1>2, <1>3, <1>4
  <1> QED BY <1>1, <1>4, <1>5

LEMMA PollKeepsAlarmInv ==
    ASSUME TypeOK, AlarmInv, Poll
    PROVE  AlarmInv'
  <1>1. /\ reported' = up /\ missed' = missed \ Unreported(up)
        /\ UNCHANGED <<entry, since>>
    BY DEF Poll, table
  <1>2. /\ Len(log) \in Nat /\ Len(log') = Len(log) + 1
        /\ \A i \in 1 .. Len(log) : log'[i] = log[i]
        /\ log'[Len(log) + 1] = {Said(p) : p \in Unreported(up)}
    BY PollAppends DEF TypeOK
  \* The new message answers for the ports that came up, the old ones for those
  \* that were up before.
  <1>3. ASSUME NEW p \in up, p \notin missed', NEW i \in Nat \ {0},
               i <= Len(log) + 1,
               p \in reported \ missed => AnsweredFrom(p, i)
        PROVE  AnsweredFrom(p, i)'
    <2>1. CASE p \in Unreported(up)
      <3>1. Said(p) = Says(p, "UP")
        BY DEF Said, Says
      <3>2. Says(p, "UP") \in log'[Len(log) + 1]
        BY <1>2, <2>1, <3>1
      <3>3. Len(log) + 1 \in i .. Len(log')
        BY <1>2, <1>3
      <3> QED BY <3>2, <3>3 DEF AnsweredFrom, Says
    <2>2. CASE p \notin Unreported(up)
      <3>1. p \in reported \ missed
        BY <1>1, <1>3, <2>2 DEF Unreported
      <3>2. PICK j \in i .. Len(log) : Says(p, "UP") \in log[j]
        BY <1>3, <3>1 DEF AnsweredFrom
      <3>3. j \in i .. Len(log') /\ Says(p, "UP") \in log'[j]
        BY <1>2, <1>3, <3>2
      <3> QED BY <3>3 DEF AnsweredFrom, Says
    <2> QED BY <2>1, <2>2
  <1>4. DownsAreAnswered'
    <2> SUFFICES ASSUME NEW p \in up, p \notin missed', NEW i \in 1 .. Len(log) + 1,
                        Says(p, "DOWN") \in log'[i]
                 PROVE  AnsweredFrom(p, i + 1)'
      BY <1>1, <1>2 DEF DownsAreAnswered, AnsweredFrom, Says
    <2>1. i # Len(log) + 1
      BY <1>2, SaidByPoll
    <2>2. Says(p, "DOWN") \in log[i] /\ i \in 1 .. Len(log)
      BY <1>2, <2>1
    <2>3. p \in reported \ missed => AnsweredFrom(p, i + 1)
      BY <2>2 DEF AlarmInv, DownsAreAnswered
    <2>4. i + 1 \in Nat \ {0} /\ i + 1 <= Len(log) + 1
      BY <1>2, <2>2
    <2> QED BY <1>3, <2>3, <2>4
  <1>5. EntryIsAnswered'
    <2> SUFFICES ASSUME entry # NoEntry, ~Orphan
                 PROVE  \E p \in Ports :
                            /\ entry.bp = MonitoredBit(Switch - 1, p)
                            /\ p \in up \ missed' => AnsweredFrom(p, 1)'
      BY <1>1 DEF EntryIsAnswered, AnsweredFrom, Orphan, Says
    <2>1. PICK p \in Ports :
            /\ entry.bp = MonitoredBit(Switch - 1, p)
            /\ p \in reported \ missed => AnsweredFrom(p, 1)
      BY DEF AlarmInv, EntryIsAnswered
    <2> QED BY <1>2, <1>3, <2>1
  <1> QED BY <1>4, <1>5 DEF AlarmInv

LEMMA PollLostKeepsAlarmInv ==
    ASSUME TypeOK, AlarmInv, PollLost
    PROVE  AlarmInv'
  <1>1. /\ reported' = up /\ missed' = missed \cup Unreported(up)
        /\ UNCHANGED <<entry, since, log>>
    BY DEF PollLost, table
  <1>2. reported' \ missed' \subseteq reported \ missed
    BY <1>1 DEF Unreported
  <1> QED BY <1>1, <1>2
          DEF AlarmInv, DownsAreAnswered, EntryIsAnswered, AnsweredFrom, Orphan, Says

LEMMA RestartKeepsAlarmInv ==
    ASSUME RememberInv, Restart
    PROVE  AlarmInv'
  <1>1. Len(log') = 0 /\ since' = handles /\ UNCHANGED <<entry, handles>>
    BY DEF Restart, table
  <1>2. entry' = NoEntry \/ Orphan'
    BY <1>1 DEF RememberInv, HandleGiven, Orphan
  <1> QED BY <1>1, <1>2 DEF AlarmInv, DownsAreAnswered, EntryIsAnswered

\* The log without its first message, when that is not the answer.
LEMMA StillAnswered ==
    ASSUME TypeOK, log # << >>, log' = Tail(log), NEW p, NEW i \in Nat \ {0, 1},
           AnsweredFrom(p, i)
    PROVE  AnsweredFrom(p, i - 1)'
  <1>1. PICK j \in i .. Len(log) : Says(p, "UP") \in log[j]
    BY DEF AnsweredFrom
  <1>2. j - 1 \in 1 .. Len(log) - 1 /\ j - 1 + 1 = j
    BY <1>1, HeadReceived
  <1>3. j - 1 \in i - 1 .. Len(log') /\ Says(p, "UP") \in log'[j - 1]
    BY <1>1, <1>2, HeadReceived
  <1> QED BY <1>3 DEF AnsweredFrom, Says

LEMMA ReceivedKeepsDowns ==
    ASSUME TypeOK, AlarmInv, log # << >>, log' = Tail(log), UNCHANGED reported,
           missed \subseteq missed'
    PROVE  DownsAreAnswered'
  <1>1. Len(log) \in Nat \ {0} /\ Len(log') = Len(log) - 1
        /\ \A i \in 1 .. Len(log) - 1 : log'[i] = log[i + 1]
    BY HeadReceived
  <1> SUFFICES ASSUME NEW p \in reported \ missed, NEW i \in 1 .. Len(log) - 1,
                      Says(p, "DOWN") \in log'[i]
               PROVE  AnsweredFrom(p, i + 1)'
    BY <1>1 DEF DownsAreAnswered, AnsweredFrom, Says
  <1>2. AnsweredFrom(p, i + 1 + 1)
    BY <1>1 DEF AlarmInv, DownsAreAnswered
  <1>3. i + 1 + 1 \in Nat \ {0, 1} /\ i + 1 + 1 - 1 = i + 1
    BY <1>1
  <1> QED BY <1>2, <1>3, StillAnswered

\* When an ignored message says a port is up, a later one says so again, or no
\* later one is about it and it counts as missed.
LEMMA IgnoreKeepsAlarmInv ==
    ASSUME TypeOK, AlarmInv, Ignore
    PROVE  AlarmInv'
  <1>1. /\ log # << >> /\ log' = Tail(log)
        /\ missed' = missed \cup ({m.port : m \in Head(log)} \ Named(Tail(log)))
        /\ UNCHANGED <<reported, entry, since>>
    BY DEF Ignore, links, table
  <1>2. /\ Len(log) \in Nat \ {0} /\ Head(log) = log[1]
        /\ DOMAIN Tail(log) = 1 .. Len(log) - 1
        /\ Tail(log) \in Seq(SUBSET Status)
        /\ \A i \in 1 .. Len(log) - 1 : Tail(log)[i] = log[i + 1]
    BY <1>1, HeadReceived
  <1>3. DownsAreAnswered'
    BY <1>1, ReceivedKeepsDowns
  <1>4. ASSUME NEW p \in reported \ missed', AnsweredFrom(p, 1)
        PROVE  AnsweredFrom(p, 2)
    <2>1. PICK j \in 1 .. Len(log) : Says(p, "UP") \in log[j]
      BY <1>4 DEF AnsweredFrom
    <2>2. CASE j # 1
      BY <1>2, <2>1, <2>2 DEF AnsweredFrom
    <2>3. CASE j = 1
      <3>1. p \in {m.port : m \in Head(log)}
        <4>1. Says(p, "UP").port = p
          BY DEF Says
        <4> QED BY <1>2, <2>1, <2>3, <4>1
      <3>2. p \in Named(Tail(log))
        BY <1>1, <1>4, <3>1
      <3>3. PICK i \in 1 .. Len(log) - 1 : p \in {m.port : m \in Tail(log)[i]}
        BY <1>2, <3>2 DEF Named
      <3>4. PICK m \in log[i + 1] : m.port = p
        BY <1>2, <3>3
      <3>5. m \in Status /\ i + 1 \in 2 .. Len(log)
        BY <1>2, <3>3, <3>4 DEF TypeOK
      <3>6. m = Says(p, "UP") \/ m = Says(p, "DOWN")
        BY <3>4, <3>5 DEF Status, Says
      <3>7. CASE m = Says(p, "UP")
        BY <3>4, <3>5, <3>7 DEF AnsweredFrom
      <3>8. CASE m = Says(p, "DOWN")
        <4>1. AnsweredFrom(p, i + 1 + 1)
          BY <1>1, <1>2, <1>4, <3>4, <3>5, <3>8 DEF AlarmInv, DownsAreAnswered
        <4> QED BY <1>2, <3>5, <4>1 DEF AnsweredFrom
      <3> QED BY <3>6, <3>7, <3>8
    <2> QED BY <2>2, <2>3
  <1>5. EntryIsAnswered'
    <2> SUFFICES ASSUME entry # NoEntry, ~Orphan
                 PROVE  \E p \in Ports :
                            /\ entry.bp = MonitoredBit(Switch - 1, p)
                            /\ p \in reported \ missed' => AnsweredFrom(p, 1)'
      BY <1>1 DEF EntryIsAnswered, AnsweredFrom, Orphan, Says
    <2>1. PICK p \in Ports :
            /\ entry.bp = MonitoredBit(Switch - 1, p)
            /\ p \in reported \ missed => AnsweredFrom(p, 1)
      BY DEF AlarmInv, EntryIsAnswered
    <2>2. p \in reported \ missed' => AnsweredFrom(p, 2)
      BY <1>1, <1>4, <2>1
    <2>3. p \in reported \ missed' => AnsweredFrom(p, 1)'
      BY <1>1, <2>2, StillAnswered
    <2> QED BY <2>1, <2>3
  <1> QED BY <1>3, <1>5 DEF AlarmInv

LEMMA PortUpKeepsAlarmInv ==
    ASSUME RememberInv, AlarmInv, NEW q \in Ports, PortUp(q)
    PROVE  AlarmInv'
  <1>1. /\ log # << >> /\ log' = Tail(log) /\ UNCHANGED <<reported, missed, since>>
        /\ entry' = IF entry.handle = last_handle THEN NoEntry ELSE entry
    BY DEF PortUp, Received, links
  <1>2. DownsAreAnswered'
    BY <1>1, ReceivedKeepsDowns DEF RememberInv
  <1>3. entry' = NoEntry \/ Orphan'
    BY <1>1 DEF RememberInv, HandleKnown, Orphan
  <1> QED BY <1>2, <1>3 DEF AlarmInv, EntryIsAnswered

LEMMA PortDownKeepsAlarmInv ==
    ASSUME RememberInv, AlarmInv, NEW q \in Ports, PortDown(q)
    PROVE  AlarmInv'
  <1>1. /\ log # << >> /\ log' = Tail(log) /\ UNCHANGED <<reported, missed, since>>
        /\ Head(log) = {Says(q, "DOWN")}
        /\ IF entry = NoEntry
           THEN entry' = [handle |-> handles, bp |-> MonitoredBit(Switch - 1, q)]
           ELSE entry' = entry
    BY DEF PortDown, Received, links, Says
  <1>2. TypeOK /\ Len(log) \in Nat \ {0} /\ Head(log) = log[1]
    BY <1>1, HeadReceived DEF RememberInv
  <1>3. DownsAreAnswered'
    BY <1>1, <1>2, ReceivedKeepsDowns
  \* The answer is not the message just received.
  <1>4. ASSUME NEW p, p \in reported \ missed => AnsweredFrom(p, 1)
        PROVE  p \in reported \ missed => AnsweredFrom(p, 1)'
    <2>1. Says(p, "UP") \notin log[1]
      BY <1>1, <1>2, StatusesDiffer
    <2>2. p \in reported \ missed => AnsweredFrom(p, 2)
      BY <1>2, <1>4, <2>1 DEF AnsweredFrom
    <2> QED BY <1>1, <1>2, <2>2, StillAnswered
  <1>5. EntryIsAnswered'
    <2>1. CASE entry = NoEntry
      <3>1. q \in reported \ missed => AnsweredFrom(q, 2)
        BY <1>1, <1>2 DEF AlarmInv, DownsAreAnswered
      <3>2. q \in reported \ missed => AnsweredFrom(q, 1)'
        BY <1>1, <1>2, <3>1, StillAnswered
      <3>3. entry'.bp = MonitoredBit(Switch - 1, q)
        BY <1>1, <2>1
      <3> QED BY <1>1, <3>2, <3>3 DEF EntryIsAnswered, AnsweredFrom, Says
    <2>2. CASE entry # NoEntry
      <3> SUFFICES ASSUME ~Orphan
                   PROVE  \E p \in Ports :
                              /\ entry.bp = MonitoredBit(Switch - 1, p)
                              /\ p \in reported \ missed => AnsweredFrom(p, 1)'
        BY <1>1, <2>2 DEF EntryIsAnswered, AnsweredFrom, Orphan, Says
      <3>1. PICK p \in Ports :
              /\ entry.bp = MonitoredBit(Switch - 1, p)
              /\ p \in reported \ missed => AnsweredFrom(p, 1)
        BY <2>2 DEF AlarmInv, EntryIsAnswered
      <3> QED BY <1>4, <3>1
    <2> QED BY <2>1, <2>2
  <1> QED BY <1>3, <1>5 DEF AlarmInv

LEMMA AlarmInvInductive ==
    ASSUME RememberInv, AlarmInv, [Next]_vars
    PROVE  AlarmInv'
  <1>1. TypeOK
    BY DEF RememberInv
  <1>2. CASE UNCHANGED <<reported, table, log, since, missed>>
    BY <1>2 DEF AlarmInv, DownsAreAnswered, EntryIsAnswered, AnsweredFrom, Orphan,
                Says, table
  <1> QED BY <1>1, <1>2, PollKeepsAlarmInv, PollLostKeepsAlarmInv,
             RestartKeepsAlarmInv, IgnoreKeepsAlarmInv, PortUpKeepsAlarmInv,
             PortDownKeepsAlarmInv
          DEF Next, Handle, Change, vars, links

LEMMA CaughtUp ==
    ASSUME NumbersAgree, AlarmInv
    PROVE  NoFalseAlarm
  <1> SUFFICES ASSUME Quiet, entry # NoEntry, ~Orphan
               PROVE  \/ entry.bp \in Affected
                      \/ \E p \in missed : entry.bp = MonitoredBit(Switch - 1, p)
    BY DEF NoFalseAlarm
  <1>1. PICK p \in Ports : /\ entry.bp = MonitoredBit(Switch - 1, p)
                           /\ p \in reported \ missed => AnsweredFrom(p, 1)
    BY DEF AlarmInv, EntryIsAnswered
  <1>2. p \notin up \/ p \in missed
    BY <1>1 DEF Quiet, AnsweredFrom
  <1>3. AdjacencyBit(NumSwitches, Hosts, Switch, p) = MonitoredBit(Switch - 1, p)
    BY <1>1, MonitorAssumption
       DEF NumbersAgree, AdjacencyBit, MonitoredBit, MaxPortNum
  <1>4. CASE p \notin up
    <2>1. p \in (Ports \cap LinkPorts(Hosts)) \ up
      BY <1>1, <1>4 DEF NumbersAgree
    <2> QED BY <1>1, <1>3, <2>1 DEF Affected
  <1> QED BY <1>1, <1>2, <1>4

\* Once the monitor has caught up, the entry it made is about an adjacency that
\* is down, unless the message that said otherwise was lost or named other
\* changes too, for any switch, however many of its links fail and come back
\* and however often the monitor is started again
\* (nanomsg_link_status.py:71-120).
THEOREM NoFalseAlarmHolds ==
    ASSUME NumbersAgree
    PROVE  Spec => []NoFalseAlarm
  <1>1. Spec => []AlarmInv
    BY AlarmInvInitially, AlarmInvInductive, RememberInvHolds, PTL DEF Spec
  <1>2. AlarmInv => NoFalseAlarm
    BY CaughtUp
  <1> QED BY <1>1, <1>2, PTL

-----------------------------------------------------------------------------
(* One failure at a time.                                                  *)

\* At most one port is down, now and at the last poll, and at most one has
\* changed since.
OneAtATime ==
    OneFailure =>
        /\ Cardinality(Ports \ up) <= 1
        /\ Cardinality(Ports \ reported) <= 1
        /\ Cardinality(Unreported(up)) <= 1

\* When the monitor hears that a port has gone down, that is the last message
\* it has not yet received, or it has received all and there is an entry.
EntryComes ==
    OneFailure /\ ~Orphan =>
        \A p \in (Ports \ reported) \ missed :
            IF log = << >> THEN entry # NoEntry
                           ELSE log[Len(log)] = {Says(p, "DOWN")}

ProtectInv == OneAtATime /\ EntryComes

LEMMA AtMostOne ==
    ASSUME NEW S, IsFiniteSet(S), Cardinality(S) <= 1, NEW a \in S, NEW b \in S
    PROVE  a = b
  <1>1. Cardinality(S) \in Nat
    BY FS_CardinalityType
  <1>2. CASE Cardinality(S) = 0
    BY <1>2, FS_EmptySet
  <1>3. CASE Cardinality(S) = 1
    BY <1>3, FS_Singleton
  <1> QED BY <1>1, <1>2, <1>3

LEMMA ProtectInvInitially == Init => ProtectInv
  <1> SUFFICES ASSUME Init
               PROVE  ProtectInv
    OBVIOUS
  <1>1. /\ Ports \ up = {} /\ Ports \ reported = {} /\ Unreported(up) = {}
    BY DEF Init, Unreported
  <1>2. Cardinality({}) = 0
    BY FS_EmptySet
  <1>3. 0 <= 1
    OBVIOUS
  <1>4. OneAtATime
    BY <1>1, <1>2, <1>3, Zenon DEF OneAtATime
  <1> QED BY <1>1, <1>4 DEF ProtectInv, EntryComes

LEMMA OneAtATimeInductive ==
    ASSUME TypeOK, OneAtATime, [Next]_vars
    PROVE  OneAtATime'
  <1>1. ASSUME NEW p \in Ports, Change(p)
        PROVE  OneAtATime'
    BY <1>1 DEF Change, OneAtATime, OneFailure, Unreported
  <1>2. CASE Poll \/ PollLost
    <2>1. reported' = up /\ up' = up /\ regime' = regime
      BY <1>2 DEF Poll, PollLost
    <2>2. Unreported(up)' = {}
      BY <2>1 DEF Unreported
    <2>3. Cardinality({}) = 0
      BY FS_EmptySet
    <2> QED BY <2>1, <2>2, <2>3 DEF OneAtATime, OneFailure
  <1>3. CASE UNCHANGED links
    BY <1>3 DEF OneAtATime, OneFailure, Unreported, links
  <1> QED BY <1>1, <1>2, <1>3
          DEF Next, Handle, Restart, Ignore, PortUp, PortDown, vars

\* A port that is down is the one that changed since the last poll, if any did.
LEMMA DownChanged ==
    ASSUME TypeOK, OneAtATime, OneFailure, NEW p \in Ports \ up, up # reported
    PROVE  Unreported(up) = {p}
  <1>1. /\ IsFiniteSet(Ports) /\ up \subseteq Ports /\ reported \subseteq Ports
    BY MonitorAssumption DEF TypeOK
  <1>2. /\ IsFiniteSet(Ports \ up) /\ IsFiniteSet(Ports \ reported)
        /\ IsFiniteSet(Unreported(up))
    BY <1>1, FS_Subset DEF Unreported
  <1>3. PICK q \in Unreported(up) : TRUE
    BY DEF Unreported
  <1>4. Unreported(up) = {q}
    BY <1>2, <1>3, AtMostOne DEF OneAtATime
  <1>5. q \in Ports
    BY <1>1, <1>3 DEF Unreported
  <1>6. CASE q \notin up
    BY <1>2, <1>4, <1>5, <1>6, AtMostOne DEF OneAtATime
  <1>7. CASE q \in up
    <2>1. q \in Ports \ reported
      BY <1>3, <1>5, <1>7 DEF Unreported
    <2>2. p \in Unreported(up) \/ p \in Ports \ reported
      BY DEF Unreported
    <2> QED BY <1>2, <1>4, <2>1, <2>2, AtMostOne DEF OneAtATime
  <1> QED BY <1>6, <1>7

\* Receiving a message that is not the last one.
LEMMA LastMessageStays ==
    ASSUME TypeOK, EntryComes, OneFailure, ~Orphan, log # << >>, log' = Tail(log),
           UNCHANGED reported, missed \subseteq missed',
           NEW p \in (Ports \ reported') \ missed',
           Head(log) # {Says(p, "DOWN")}
    PROVE  log' # << >> /\ log'[Len(log')] = {Says(p, "DOWN")}
  <1>1. log[Len(log)] = {Says(p, "DOWN")}
    BY DEF EntryComes
  <1>2. Len(log) # 1
    BY <1>1, HeadReceived
  <1>3. Len(log) - 1 \in 1 .. Len(log) - 1 /\ Len(log') = Len(log) - 1
    BY <1>2, HeadReceived
  <1>4. log'[Len(log')] = log[Len(log) - 1 + 1]
    BY <1>3, HeadReceived
  <1>5. Len(log') # 0 /\ Len(log) - 1 + 1 = Len(log)
    BY <1>3, HeadReceived
  <1>6. log' # << >>
    BY <1>5
  <1> QED BY <1>1, <1>4, <1>5, <1>6

LEMMA EntryComesInductive ==
    ASSUME RememberInv, ProtectInv, [Next]_vars
    PROVE  EntryComes'
  <1>1. TypeOK /\ OneAtATime /\ EntryComes
    BY DEF RememberInv, ProtectInv
  <1> SUFFICES ASSUME OneFailure', ~Orphan', NEW p \in (Ports \ reported') \ missed'
               PROVE  IF log' = << >> THEN entry' # NoEntry
                                      ELSE log'[Len(log')] = {Says(p, "DOWN")}
    BY DEF EntryComes, Says
  <1>2. OneFailure
    BY DEF Next, Handle, Change, Poll, PollLost, Restart, Ignore, PortUp, PortDown,
           OneFailure, vars, links
  <1>3. CASE Poll
    <2>1. /\ reported' = up /\ missed' = missed \ Unreported(up) /\ up # reported
      BY <1>3 DEF Poll
    <2>2. Unreported(up) = {p}
      BY <1>1, <1>2, <2>1, DownChanged
    <2>3. /\ Len(log') = Len(log) + 1 /\ Len(log) \in Nat
          /\ log'[Len(log) + 1] = {Said(q) : q \in Unreported(up)}
      BY <1>1, <1>3, PollAppends DEF TypeOK
    <2>4. Said(p) = Says(p, "DOWN")
      BY <2>1 DEF Said, Says
    <2>5. log' # << >>
      BY <2>3
    <2> QED BY <2>2, <2>3, <2>4, <2>5
  <1>4. CASE PollLost
    <2>1. /\ reported' = up /\ missed' = missed \cup Unreported(up) /\ up # reported
      BY <1>4 DEF PollLost
    <2>2. Unreported(up) = {p}
      BY <1>1, <1>2, <2>1, DownChanged
    <2> QED BY <2>1, <2>2
  <1>5. CASE Restart
    <2>1. /\ missed' = missed \cup Named(log) /\ log' = << >>
          /\ UNCHANGED <<reported, entry, handles>> /\ since' = handles
      BY <1>5 DEF Restart, links, table
    <2>2. entry = NoEntry
      BY <2>1 DEF RememberInv, HandleGiven, Orphan
    <2>3. log = << >> \/ log[Len(log)] = {Says(p, "DOWN")}
      BY <1>1, <1>2, <2>1, <2>2 DEF EntryComes, Orphan
    <2>4. log # << >>
      BY <1>1, <1>2, <2>1, <2>2 DEF EntryComes, Orphan
    <2>5. Len(log) \in DOMAIN log
      BY <1>1, <2>4, HeadReceived DEF TypeOK
    <2>6. Says(p, "DOWN").port = p
      BY DEF Says
    <2>7. p \in Named(log)
      BY <2>3, <2>4, <2>5, <2>6 DEF Named
    <2> QED BY <2>1, <2>7
  <1>6. CASE Ignore
    <2>1. /\ log # << >> /\ log' = Tail(log) /\ missed \subseteq missed'
          /\ UNCHANGED <<reported, entry, since>> /\ Cardinality(Head(log)) > 1
      BY <1>6 DEF Ignore, links, table
    <2>2. Cardinality({Says(p, "DOWN")}) = 1
      BY FS_Singleton
    <2>3. Head(log) # {Says(p, "DOWN")}
      <3>1. ~(1 > 1)
        OBVIOUS
      <3> QED BY <2>1, <2>2, <3>1, Zenon
    <2>4. ~Orphan
      BY <2>1 DEF Orphan
    <2> QED BY <1>1, <1>2, <2>1, <2>3, <2>4, LastMessageStays
  <1>7. ASSUME NEW q \in Ports, PortUp(q)
        PROVE  IF log' = << >> THEN entry' # NoEntry
                               ELSE log'[Len(log')] = {Says(p, "DOWN")}
    <2>1. /\ log # << >> /\ log' = Tail(log) /\ UNCHANGED <<reported, missed, since>>
          /\ entry' = IF entry.handle = last_handle THEN NoEntry ELSE entry
          /\ Head(log) = {Says(q, "UP")}
      BY <1>7 DEF PortUp, Received, links, Says
    <2>2. ~Orphan
      BY <2>1 DEF Orphan, RememberInv, HandleKnown, HandleGiven, NoHandle
    <2>3. Head(log) # {Says(p, "DOWN")}
      BY <2>1, StatusesDiffer
    <2> QED BY <1>1, <1>2, <2>1, <2>2, <2>3, LastMessageStays
  <1>8. ASSUME NEW q \in Ports, PortDown(q)
        PROVE  IF log' = << >> THEN entry' # NoEntry
                               ELSE log'[Len(log')] = {Says(p, "DOWN")}
    <2>1. /\ log # << >> /\ log' = Tail(log) /\ UNCHANGED <<reported, missed, since>>
          /\ IF entry = NoEntry
             THEN entry' = [handle |-> handles, bp |-> MonitoredBit(Switch - 1, q)]
             ELSE entry' = entry
      BY <1>8 DEF PortDown, Received, links
    <2>2. entry' # NoEntry
      BY <1>1, <2>1 DEF NoEntry, NoHandle, TypeOK
    <2>3. ~Orphan
      BY <2>1 DEF Orphan
    <2>4. Len(log) \in Nat \ {0} /\ Len(log') = Len(log) - 1
          /\ log' \in Seq(SUBSET Status)
      BY <1>1, <2>1, HeadReceived
    <2>5. CASE Len(log) = 1
      BY <2>2, <2>4, <2>5
    <2>6. CASE Len(log) # 1
      <3>1. log[Len(log)] = {Says(p, "DOWN")}
        BY <1>1, <1>2, <2>1, <2>3 DEF EntryComes
      <3>2. log'[Len(log')] = log[Len(log) - 1 + 1]
        BY <1>1, <2>1, <2>4, <2>6, HeadReceived
      <3> QED BY <2>4, <2>6, <3>1, <3>2
    <2> QED BY <2>5, <2>6
  <1>9. CASE UNCHANGED <<reported, log, entry, since, missed>>
    BY <1>1, <1>2, <1>9 DEF EntryComes, Orphan
  <1> QED BY <1>3, <1>4, <1>5, <1>6, <1>7, <1>8, <1>9
          DEF Next, Handle, Change, vars, links, table

\* Once the monitor has caught up, a link that is down has the entry, when links
\* fail one at a time and no message is lost or passed over whose port has not
\* changed since (nanomsg_link_status.py:71-120).
THEOREM ProtectedHolds ==
    ASSUME NumbersAgree
    PROVE  Spec => []Protected
  <1>1. RememberInv /\ ProtectInv /\ [Next]_vars => ProtectInv'
    BY OneAtATimeInductive, EntryComesInductive DEF RememberInv, ProtectInv
  <1>2. Spec => []ProtectInv
    BY <1>1, ProtectInvInitially, RememberInvHolds, PTL DEF Spec
  <1>3. ProtectInv /\ TypeOK /\ NoFalseAlarm => Protected
    <2> SUFFICES ASSUME ProtectInv, TypeOK, NoFalseAlarm,
                        OneFailure, Undisturbed, Quiet, Affected # {}
                 PROVE  entry # NoEntry /\ entry.bp \in Affected
      BY DEF Protected
    <2>1. PICK p \in Ports : p \notin reported /\ p \notin missed
      BY DEF Affected, Quiet, Undisturbed
    <2>2. entry # NoEntry
      BY <2>1 DEF ProtectInv, EntryComes, Quiet, Undisturbed
    <2> QED BY <2>2 DEF NoFalseAlarm, Undisturbed
  <1> QED BY <1>2, <1>3, TypeCorrect, NoFalseAlarmHolds, PTL
=============================================================================
