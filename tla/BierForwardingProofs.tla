------------------------ MODULE BierForwardingProofs ------------------------
(***************************************************************************)
(* ServedOnce and NoneLost hold of every table, every set of packets and   *)
(* every order of serving the bits.  With TypeOK, ServedOnce is inductive; *)
(* NoneLost needs its first part, that what is left was wanted.            *)
(***************************************************************************)
EXTENDS BierForwarding, SequenceTheorems, TLAPS

\* A step that sends one copy of a and takes the bits of it, and no others
\* that a still has, out of todo.
SendsOne(a, port, bits, gone) ==
    /\ sent' = [sent EXCEPT ![a] = Append(@, [port |-> port, bits |-> bits])]
    /\ todo' = [todo EXCEPT ![a] = @ \ gone]
    /\ todo[a] \cap gone = bits

SendsSome(a) ==
    \E port \in Ports, bits \in SUBSET Bits, gone \in SUBSET Bits :
        SendsOne(a, port, bits, gone)

\* Appending a copy leaves the earlier copies as they are.
LEMMA AppendedCopy ==
    ASSUME NEW s \in Seq(Copy), NEW e \in Copy
    PROVE  /\ Append(s, e) \in Seq(Copy)
           /\ DOMAIN Append(s, e) = DOMAIN s \cup {Len(s) + 1}
           /\ Len(s) + 1 \notin DOMAIN s
           /\ Append(s, e)[Len(s) + 1] = e
           /\ \A i \in DOMAIN s : Append(s, e)[i] = s[i]
  OBVIOUS

\* Every step of a packet sends one copy or gives the packet up.
LEMMA StepOfOnePacket ==
    ASSUME TypeOK, NEW a \in Arrivals, Serve(a)
    PROVE  want' = want /\ (SendsSome(a) \/ GiveUp(a))
  <1>1. CASE Deliver(a)
    <2>1. HostPort \in Ports /\ {BfrId} \in SUBSET Bits
      BY ForwardingAssumption
    <2>2. SendsOne(a, HostPort, {BfrId}, {BfrId})
      BY <1>1 DEF Deliver, Send, SendsOne
    <2> QED BY <1>1, <2>1, <2>2 DEF SendsSome, Deliver
  <1>2. ASSUME NEW k \in Bits, Forward(a, k)
        PROVE  want' = want /\ SendsSome(a)
    <2>1. Bift[k].nbr_port \in Ports /\ Bift[k].f_bm \in SUBSET Bits
      BY <1>2, ForwardingAssumption DEF Forward
    <2>2. todo[a] \cap Bift[k].f_bm \in SUBSET Bits
      BY <2>1
    <2>3. SendsOne(a, Bift[k].nbr_port, todo[a] \cap Bift[k].f_bm, Bift[k].f_bm)
      BY <1>2 DEF Forward, Send, SendsOne
    <2> QED BY <1>2, <2>1, <2>2, <2>3 DEF SendsSome, Forward
  <1>3. CASE GiveUp(a)
    BY <1>3 DEF GiveUp
  <1> QED BY <1>1, <1>2, <1>3 DEF Serve

\* What such a step makes of the copies and of the bits still to do.
OneMore(a, bits, gone) ==
    /\ sent' \in [Arrivals -> Seq(Copy)]
    /\ todo' \in [Arrivals -> SUBSET Bits]
    /\ \A b \in Arrivals \ {a} : sent'[b] = sent[b] /\ todo'[b] = todo[b]
    /\ todo'[a] = todo[a] \ gone
    /\ bits = todo[a] \cap gone
    /\ DOMAIN sent'[a] = DOMAIN sent[a] \cup {Len(sent[a]) + 1}
    /\ Len(sent[a]) + 1 \notin DOMAIN sent[a]
    /\ sent'[a][Len(sent[a]) + 1].bits = bits
    /\ \A i \in DOMAIN sent[a] : sent'[a][i] = sent[a][i]

LEMMA SendsSomeEffect ==
    ASSUME TypeOK, NEW a \in Arrivals, SendsSome(a)
    PROVE  \E bits \in SUBSET Bits, gone \in SUBSET Bits : OneMore(a, bits, gone)
  <1>1. PICK port \in Ports, bits \in SUBSET Bits, gone \in SUBSET Bits :
            SendsOne(a, port, bits, gone)
    BY DEF SendsSome
  <1> DEFINE e == [port |-> port, bits |-> bits]
  <1>2. e \in Copy /\ e.bits = bits
    BY DEF Copy
  <1>3. sent[a] \in Seq(Copy)
    BY DEF TypeOK
  <1>4. /\ sent' = [sent EXCEPT ![a] = Append(sent[a], e)]
        /\ todo' = [todo EXCEPT ![a] = todo[a] \ gone]
        /\ bits = todo[a] \cap gone
    BY <1>1 DEF SendsOne
  <1> HIDE DEF e
  <1>5. /\ sent' \in [Arrivals -> Seq(Copy)]
        /\ sent'[a] = Append(sent[a], e)
        /\ \A b \in Arrivals \ {a} : sent'[b] = sent[b]
    BY <1>2, <1>3, <1>4, AppendedCopy DEF TypeOK
  <1>6. /\ todo' \in [Arrivals -> SUBSET Bits]
        /\ todo'[a] = todo[a] \ gone
        /\ \A b \in Arrivals \ {a} : todo'[b] = todo[b]
    BY <1>4 DEF TypeOK
  <1>7. OneMore(a, bits, gone)
    BY <1>2, <1>3, <1>4, <1>5, <1>6, AppendedCopy DEF OneMore
  <1> QED BY <1>7

LEMMA TypeOKInductive ==
    ASSUME TypeOK, [Next]_vars
    PROVE  TypeOK'
  <1>1. CASE UNCHANGED vars
    BY <1>1 DEF vars, TypeOK
  <1>2. ASSUME NEW a \in Arrivals, Serve(a)
        PROVE  TypeOK'
    <2>1. want' = want /\ (SendsSome(a) \/ GiveUp(a))
      BY <1>2, StepOfOnePacket
    <2>2. CASE SendsSome(a)
      BY <2>1, <2>2, SendsSomeEffect DEF OneMore, TypeOK
    <2>3. CASE GiveUp(a)
      BY <2>1, <2>3 DEF GiveUp, TypeOK
    <2> QED BY <2>1, <2>2, <2>3
  <1> QED BY <1>1, <1>2 DEF Next

\* The variables keep their types.
THEOREM TypeCorrect == Spec => []TypeOK
  <1>1. Init => TypeOK
    BY DEF Init, TypeOK
  <1> QED BY <1>1, TypeOKInductive, PTL DEF Spec

-----------------------------------------------------------------------------
\* The three parts of ServedOnce for one packet.
WithinWant(a) == todo[a] \subseteq want[a]

Taken(a) == \A i \in DOMAIN sent[a] : sent[a][i].bits \subseteq want[a] \ todo[a]

Apart(a) == \A i, j \in DOMAIN sent[a] :
                i # j => sent[a][i].bits \cap sent[a][j].bits = {}

OnceEach(a) == WithinWant(a) /\ Taken(a) /\ Apart(a)

LEMMA ServedOnceParts == ServedOnce <=> \A a \in Arrivals : OnceEach(a)
  BY DEF ServedOnce, OnceEach, WithinWant, Taken, Apart

LEMMA OnceEachAfterSend ==
    ASSUME TypeOK, NEW a \in Arrivals, OnceEach(a), SendsSome(a), want' = want
    PROVE  OnceEach(a)'
  <1>1. PICK bits \in SUBSET Bits, gone \in SUBSET Bits : OneMore(a, bits, gone)
    BY SendsSomeEffect
  <1> DEFINE s == sent[a]
             n == Len(s) + 1
  <1>2. /\ todo'[a] = todo[a] \ gone
        /\ bits = todo[a] \cap gone
        /\ DOMAIN sent'[a] = DOMAIN s \cup {n}
        /\ n \notin DOMAIN s
        /\ sent'[a][n].bits = bits
        /\ \A i \in DOMAIN s : sent'[a][i] = s[i]
    BY <1>1 DEF OneMore
  <1> HIDE DEF n, s
  <1>3. /\ todo[a] \subseteq want[a]
        /\ \A i \in DOMAIN s : s[i].bits \subseteq want[a] \ todo[a]
        /\ \A i, j \in DOMAIN s : i # j => s[i].bits \cap s[j].bits = {}
    BY DEF OnceEach, WithinWant, Taken, Apart, s
  <1>4. WithinWant(a)'
    BY <1>2, <1>3 DEF WithinWant
  <1>5. Taken(a)'
    <2>1. ASSUME NEW i \in DOMAIN sent'[a]
          PROVE  sent'[a][i].bits \subseteq want[a] \ todo'[a]
      <3>1. CASE i = n
        BY <3>1, <1>2, <1>3
      <3>2. CASE i \in DOMAIN s
        BY <3>2, <1>2, <1>3
      <3> QED BY <3>1, <3>2, <1>2
    <2> QED BY <2>1 DEF Taken
  <1>6. Apart(a)'
    <2>1. \A i \in DOMAIN s : s[i].bits \cap bits = {}
      BY <1>2, <1>3
    <2>2. ASSUME NEW i \in DOMAIN sent'[a], NEW j \in DOMAIN sent'[a], i # j
          PROVE  sent'[a][i].bits \cap sent'[a][j].bits = {}
      BY <2>1, <2>2, <1>2, <1>3
    <2> QED BY <2>2 DEF Apart
  <1> QED BY <1>4, <1>5, <1>6 DEF OnceEach

LEMMA ServedOnceInductive ==
    ASSUME TypeOK, ServedOnce, [Next]_vars
    PROVE  ServedOnce'
  <1>1. CASE UNCHANGED vars
    BY <1>1 DEF vars, ServedOnce
  <1>2. ASSUME NEW a \in Arrivals, Serve(a)
        PROVE  ServedOnce'
    <2>1. \A b \in Arrivals : OnceEach(b)
      BY ServedOnceParts
    <2>2. want' = want /\ (SendsSome(a) \/ GiveUp(a))
      BY <1>2, StepOfOnePacket
    <2>3. \A b \in Arrivals \ {a} : sent'[b] = sent[b] /\ todo'[b] = todo[b]
      <3>1. CASE SendsSome(a)
        BY <3>1, SendsSomeEffect DEF OneMore
      <3>2. CASE GiveUp(a)
        BY <3>2 DEF GiveUp, TypeOK
      <3> QED BY <2>2, <3>1, <3>2
    <2>4. \A b \in Arrivals \ {a} : OnceEach(b)'
      BY <2>1, <2>2, <2>3 DEF OnceEach, WithinWant, Taken, Apart
    <2>5. OnceEach(a)'
      <3>1. CASE SendsSome(a)
        BY <2>1, <2>2, <3>1, OnceEachAfterSend
      <3>2. CASE GiveUp(a)
        <4>1. todo'[a] = {} /\ sent' = sent
          BY <3>2 DEF GiveUp, TypeOK
        <4> QED BY <2>1, <2>2, <4>1 DEF OnceEach, WithinWant, Taken, Apart
      <3> QED BY <2>2, <3>1, <3>2
    <2>6. \A b \in Arrivals : OnceEach(b)'
      BY <2>4, <2>5
    <2> QED BY <2>6 DEF ServedOnce, OnceEach, WithinWant, Taken, Apart
  <1> QED BY <1>1, <1>2 DEF Next

\* No bit of a packet is served by two copies.
THEOREM ServedOnceHolds == Spec => []ServedOnce
  <1>1. ASSUME Init
        PROVE  ServedOnce
    <2>1. \A a \in Arrivals : todo[a] = want[a] /\ sent[a] = << >>
      BY <1>1 DEF Init
    <2>2. ASSUME NEW a \in Arrivals
          PROVE  DOMAIN sent[a] = {}
      <3>1. sent[a] \in Seq(Copy) /\ Len(sent[a]) = 0
        BY <2>1, EmptySeq
      <3> QED BY <3>1
    <2> QED BY <2>1, <2>2 DEF ServedOnce
  <1>2. Spec => []TypeOK
    BY TypeCorrect
  <1>3. TypeOK /\ ServedOnce /\ [Next]_vars => ServedOnce'
    BY ServedOnceInductive
  <1> QED BY <1>1, <1>2, <1>3, PTL DEF Spec

-----------------------------------------------------------------------------
Routable == DOMAIN Bift \cup {BfrId}

NoneLostOf(a) == want[a] \subseteq Routable => want[a] \subseteq todo[a] \cup Served(a)

LEMMA NoneLostInductive ==
    ASSUME TypeOK, ServedOnce, NoneLost, [Next]_vars
    PROVE  NoneLost'
  <1>1. CASE UNCHANGED vars
    BY <1>1 DEF vars, NoneLost, Served
  <1>2. ASSUME NEW a \in Arrivals, Serve(a)
        PROVE  NoneLost'
    <2>1. \A b \in Arrivals : NoneLostOf(b)
      BY DEF NoneLost, NoneLostOf, Routable
    <2>2. want' = want /\ (SendsSome(a) \/ GiveUp(a))
      BY <1>2, StepOfOnePacket
    <2>3. CASE SendsSome(a)
      <3>1. PICK bits \in SUBSET Bits, gone \in SUBSET Bits : OneMore(a, bits, gone)
        BY <2>3, SendsSomeEffect
      <3>2. \A b \in Arrivals \ {a} : NoneLostOf(b)'
        <4>1. \A b \in Arrivals \ {a} :
                  Served(b)' = Served(b) /\ todo'[b] = todo[b] /\ want'[b] = want[b]
          BY <2>2, <3>1 DEF OneMore, Served
        <4> QED BY <2>1, <4>1 DEF NoneLostOf, Routable
      <3>3. Served(a)' = Served(a) \cup bits
        BY <3>1 DEF OneMore, Served
      <3>4. todo[a] \subseteq todo'[a] \cup bits
        BY <3>1 DEF OneMore
      <3>5. NoneLostOf(a)'
        BY <2>1, <2>2, <3>3, <3>4 DEF NoneLostOf, Routable
      <3>6. \A b \in Arrivals : NoneLostOf(b)'
        BY <3>2, <3>5
      <3> QED BY <3>6 DEF NoneLost, NoneLostOf, Routable
    <2>4. CASE GiveUp(a)
      <3>1. ~(want[a] \subseteq Routable)
        BY <2>4 DEF GiveUp, Routable, ServedOnce
      <3>2. /\ sent' = sent
            /\ \A b \in Arrivals \ {a} : todo'[b] = todo[b]
        BY <2>4 DEF GiveUp, TypeOK
      <3>3. \A b \in Arrivals : NoneLostOf(b)'
        BY <2>1, <2>2, <3>1, <3>2 DEF NoneLostOf, Served, Routable
      <3> QED BY <3>3 DEF NoneLost, NoneLostOf, Routable
    <2> QED BY <2>2, <2>3, <2>4
  <1> QED BY <1>1, <1>2 DEF Next

\* A packet all of whose bits have an entry has each of them served or still
\* to be served.
THEOREM NoneLostHolds == Spec => []NoneLost
  <1>1. Init => NoneLost
    BY DEF Init, NoneLost
  <1>2. Spec => [](TypeOK /\ ServedOnce)
    BY TypeCorrect, ServedOnceHolds, PTL
  <1>3. TypeOK /\ ServedOnce /\ NoneLost /\ [Next]_vars => NoneLost'
    BY NoneLostInductive
  <1> QED BY <1>1, <1>2, <1>3, PTL DEF Spec
=============================================================================
