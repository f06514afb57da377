--------------------------- MODULE TransportProofs ---------------------------
(***************************************************************************)
(* Proofs about module Transport, for every mesh, every number of          *)
(* announces and packets and every bound: the types, and what hop counts   *)
(* and routes are worth when frames are lost and garbled and tables        *)
(* cleared or reset.                                                       *)
(***************************************************************************)
EXTENDS Transport, FiniteSetTheorems, TLAPS

USE TransportAssumption DEF TransportAssumption

----------------------------------------------------------------------------
(* What sending puts in flight *)

LEMMA TransmitFrames ==
  ASSUME NEW i \in Ifaces, NEW pkt \in Announces \cup Data, NEW form \in Forms,
         NEW hops \in 0 .. HopModulus - 1
  PROVE  Transmit(i, pkt, form, hops) \subseteq Frames
  <1>1. Hears[i] \subseteq Ifaces
    OBVIOUS
  <1>2. QED
    BY <1>1 DEF Transmit, Frames

LEMMA BroadcastFrames ==
  ASSUME NEW n \in Nodes, NEW skip, interfaces[n] \subseteq Ifaces,
         NEW pkt \in Announces \cup Data, NEW form \in Forms,
         NEW hops \in 0 .. HopModulus - 1
  PROVE  Broadcast(n, skip, pkt, form, hops) \subseteq Frames
  <1>1. \A i \in interfaces[n] \ skip : Transmit(i, pkt, form, hops) \subseteq Frames
    BY TransmitFrames
  <1>2. QED
    BY <1>1 DEF Broadcast

----------------------------------------------------------------------------
(* Types *)

\* The initial state has the types.
LEMMA InitType == Init => TypeOK
  <1>1. NoPath \in Entry \cup {NoPath}
    OBVIOUS
  <1>2. QED
    BY <1>1 DEF Init, TypeOK

LEMMA AnnounceType ==
  ASSUME TypeOK, NEW a \in Announces, Announce(a)
  PROVE  TypeOK'
  <1>1. Home[AnnDest[a]] \in Nodes
    OBVIOUS
  <1>2. Broadcast(Home[AnnDest[a]], {}, a, Sent, 0) \subseteq Frames
    <2>1. /\ interfaces[Home[AnnDest[a]]] \subseteq Ifaces
          /\ 0 \in 0 .. HopModulus - 1 /\ Sent \in Forms
      BY <1>1 DEF TypeOK, Forms
    <2>2. QED
      BY <1>1, <2>1, BroadcastFrames
  <1>3. air' \in SUBSET Frames
    BY <1>2 DEF TypeOK, Announce
  <1>4. QED
    BY <1>3 DEF TypeOK, Announce, nodeVars, history

LEMMA SendDataType ==
  ASSUME TypeOK, NEW n \in Nodes, NEW p \in Data, SendData(n, p)
  PROVE  TypeOK'
  <1>1. Broadcast(n, {}, p, Sent, 0) \subseteq Frames
    <2>1. interfaces[n] \subseteq Ifaces /\ 0 \in 0 .. HopModulus - 1 /\ Sent \in Forms
      BY DEF TypeOK, Forms
    <2>2. QED
      BY <2>1, BroadcastFrames
  <1>2. air' \in SUBSET Frames
    BY <1>1 DEF TypeOK, SendData
  <1>3. QED
    BY <1>2 DEF TypeOK, SendData, nodeVars, history

\* A received frame has the fields its handler relies on.
LEMMA FrameFields ==
  ASSUME TypeOK, NEW f \in air
  PROVE  /\ f \in Frames
         /\ f.pkt \in Announces \cup Data /\ f.form \in Forms
         /\ f.hops \in 0 .. HopModulus - 1
         /\ f.from \in Ifaces /\ f.to \in Ifaces /\ Owner[f.to] \in Nodes
  <1>1. f \in Frames
    BY DEF TypeOK
  <1>2. f.to \in Ifaces
    BY <1>1 DEF Frames
  <1>3. QED
    BY <1>1, <1>2 DEF Frames

LEMMA RebroadcastFrames ==
  ASSUME TypeOK, NEW f \in air
  PROVE  Rebroadcast(Owner[f.to], f) \subseteq Frames
  <1>1. CASE f.hops < PATHFINDER_M
    <2>1. f.hops + 1 \in 0 .. HopModulus - 1
      BY <1>1, FrameFields
    <2>2. Broadcast(Owner[f.to], {f.to}, f.pkt, f.form, f.hops + 1) \subseteq Frames
      BY <2>1, FrameFields, BroadcastFrames DEF TypeOK
    <2>3. QED
      BY <1>1, <2>2 DEF Rebroadcast
  <1>2. CASE ~(f.hops < PATHFINDER_M)
    BY <1>2 DEF Rebroadcast
  <1>3. QED
    BY <1>1, <1>2

\* Adding an element to one set of a family of sets.
LEMMA AddToOne ==
  ASSUME NEW I, NEW S, NEW g \in [I -> SUBSET S], NEW i \in I, NEW x \in S
  PROVE  /\ [g EXCEPT ![i] = @ \cup {x}] \in [I -> SUBSET S]
         /\ \A m \in I : g[m] \subseteq [g EXCEPT ![i] = @ \cup {x}][m]
  OBVIOUS

LEMMA ReceiveAnnounceType ==
  ASSUME TypeOK, NEW f \in air, ReceiveAnnounce(f)
  PROVE  TypeOK'
  <1> DEFINE n == Owner[f.to]
             d == AnnDest[f.pkt]
  <1>1. /\ n \in Nodes /\ f.pkt \in Announces /\ f.form \in Forms
        /\ d \in Dests
        /\ [hops |-> f.hops, via |-> f.to] \in Entry
    BY FrameFields DEF ReceiveAnnounce, Entry
  <1>2. air' \in SUBSET Frames
    <2>1. \/ air' = air \ {f}
          \/ air' = (air \ {f}) \cup Rebroadcast(n, f)
      BY DEF ReceiveAnnounce, AcceptAnnounce, RejectAnnounce
    <2>2. QED
      BY <2>1, RebroadcastFrames DEF TypeOK
  <1>3. seen_announces' \in [Nodes -> SUBSET Hashes]
    <2>1. Hash(f) \in Hashes
      BY <1>1 DEF Hash, Hashes
    <2>2. \/ seen_announces' = [seen_announces EXCEPT ![n] = @ \cup {Hash(f)}]
          \/ seen_announces' = seen_announces
      BY DEF ReceiveAnnounce
    <2>3. seen_announces \in [Nodes -> SUBSET Hashes]
      BY DEF TypeOK
    <2>4. [seen_announces EXCEPT ![n] = @ \cup {Hash(f)}]
             \in [Nodes -> SUBSET Hashes]
      BY <1>1, <2>1, <2>3, AddToOne
    <2>5. QED
      BY <2>2, <2>3, <2>4
  <1>4. CASE AcceptAnnounce(n, f)
    <2>1. known' \in [Nodes -> SUBSET Dests]
      BY <1>1, <1>4 DEF AcceptAnnounce, TypeOK
    <2>2. path_table' \in [Nodes -> [Dests -> Entry \cup {NoPath}]]
      BY <1>1, <1>4 DEF AcceptAnnounce, TypeOK
    <2>3. accepted' \in [Nodes -> [Hashes -> Nat]]
      <3>1. Hash(f) \in Hashes
        BY <1>1 DEF Hash, Hashes
      <3>2. QED
        BY <1>1, <1>4, <3>1 DEF AcceptAnnounce, TypeOK
    <2>4. QED
      BY <1>2, <1>3, <2>1, <2>2, <2>3 DEF ReceiveAnnounce, TypeOK
  <1>5. CASE UNCHANGED <<known, path_table, accepted>>
    BY <1>2, <1>3, <1>5 DEF ReceiveAnnounce, TypeOK
  <1>6. QED
    BY <1>4, <1>5 DEF ReceiveAnnounce, RejectAnnounce

LEMMA ReceiveDataType ==
  ASSUME TypeOK, NEW f \in air, ReceiveData(f)
  PROVE  TypeOK'
  <1> DEFINE n == Owner[f.to]
             e == path_table[n][DataDest[f.pkt]]
  <1>1. /\ n \in Nodes /\ f.pkt \in Data /\ f.form \in Forms
        /\ DataDest[f.pkt] \in Dests /\ f.hops \in Nat
    BY FrameFields DEF ReceiveData
  <1>2. air' \in SUBSET Frames
    <2>1. CASE DeliverData(n, f) \/ DropData(n, f)
      BY <2>1 DEF DeliverData, DropData, TypeOK
    <2>2. CASE ForwardData(n, f)
      <3>1. e.via \in Ifaces
        BY <1>1, <2>2 DEF ForwardData, TypeOK, IsPath, Entry
      <3>2. (f.hops + 1) % HopModulus \in 0 .. HopModulus - 1
        BY <1>1
      <3>3. Transmit(e.via, f.pkt, f.form, (f.hops + 1) % HopModulus) \subseteq Frames
        BY <1>1, <3>1, <3>2, TransmitFrames
      <3>4. QED
        BY <2>2, <3>3 DEF ForwardData, TypeOK
    <2>3. QED
      BY <2>1, <2>2 DEF ReceiveData
  <1>3. delivered' \in [Nodes -> SUBSET Data]
    <2>1. CASE DeliverData(n, f)
      BY <1>1, <2>1 DEF DeliverData, TypeOK
    <2>2. CASE ForwardData(n, f) \/ DropData(n, f)
      BY <2>2 DEF ForwardData, DropData, TypeOK
    <2>3. QED
      BY <2>1, <2>2 DEF ReceiveData
  <1>4. QED
    BY <1>2, <1>3 DEF ReceiveData, nodeVars, TypeOK

LEMMA GarbledHops ==
  ASSUME NEW f \in Frames, NEW h \in 0 .. HopModulus - 1
  PROVE  /\ [f EXCEPT !.hops = h] \in Frames
         /\ [f EXCEPT !.hops = h].pkt = f.pkt /\ [f EXCEPT !.hops = h].form = f.form
         /\ [f EXCEPT !.hops = h].from = f.from /\ [f EXCEPT !.hops = h].to = f.to
  BY DEF Frames

LEMMA GarbledContent ==
  ASSUME NEW f \in Frames, NEW x \in Forms
  PROVE  /\ [f EXCEPT !.form = x] \in Frames
         /\ [f EXCEPT !.form = x].pkt = f.pkt /\ [f EXCEPT !.form = x].hops = f.hops
         /\ [f EXCEPT !.form = x].from = f.from /\ [f EXCEPT !.form = x].to = f.to
  BY DEF Frames

\* What a fault leaves of the frames in flight: a garbled one is still a copy of
\* its packet on its link; its hop byte is false only if that is on record, and
\* it reads as sent only if it did.
LEMMA FaultFrames ==
  ASSUME TypeOK, NEW f \in air, Fault(f)
  PROVE  /\ misread \subseteq misread' /\ misread' \subseteq Announces \cup Data
         /\ \A g \in air' :
              \/ g \in air
              \/ /\ g \in Frames
                 /\ g.pkt = f.pkt /\ g.from = f.from /\ g.to = f.to
                 /\ g.hops = f.hops \/ f.pkt \in misread'
                 /\ g.form = Sent => f.form = Sent
  <1>1. f \in Frames /\ f.pkt \in Announces \cup Data
    BY FrameFields
  <1>2. CASE Lose(f)
    BY <1>2 DEF Lose, TypeOK
  <1>3. CASE GarbleHops(f)
    <2>1. PICK h \in 0 .. HopModulus - 1 : air' = (air \ {f}) \cup {[f EXCEPT !.hops = h]}
      BY <1>3 DEF GarbleHops
    <2> DEFINE b == [f EXCEPT !.hops = h]
    <2>2. /\ b \in Frames /\ b.pkt = f.pkt /\ b.form = f.form
          /\ b.from = f.from /\ b.to = f.to
      BY <1>1, GarbledHops
    <2>3. misread' = misread \cup {f.pkt}
      BY <1>3 DEF GarbleHops
    <2>4. \A g \in air' : g \in air \/ g = b
      BY <2>1
    <2> HIDE DEF b
    <2>5. QED
      BY <1>1, <2>2, <2>3, <2>4 DEF TypeOK
  <1>4. CASE GarbleContent(f)
    <2>1. PICK x \in {Broken} \cup Recasts :
            air' = (air \ {f}) \cup {[f EXCEPT !.form = x]}
      BY <1>4 DEF GarbleContent
    <2> DEFINE b == [f EXCEPT !.form = x]
    <2>2. /\ b \in Frames /\ b.pkt = f.pkt /\ b.hops = f.hops
          /\ b.from = f.from /\ b.to = f.to
      BY <1>1, GarbledContent DEF Forms
    <2>3. f.form = Sent /\ misread' = misread
      BY <1>4 DEF GarbleContent
    <2>4. \A g \in air' : g \in air \/ g = b
      BY <2>1
    <2> HIDE DEF b
    <2>5. QED
      BY <1>1, <2>2, <2>3, <2>4 DEF TypeOK
  <1>5. QED
    BY <1>2, <1>3, <1>4 DEF Fault

LEMMA FaultType ==
  ASSUME TypeOK, NEW f \in air, Fault(f)
  PROVE  TypeOK'
  <1>1. air' \in SUBSET Frames /\ misread' \in SUBSET (Announces \cup Data)
    BY FaultFrames DEF TypeOK
  <1>2. faults' \in 0 .. MaxFaults
    BY DEF Fault, TypeOK
  <1>3. QED
    BY <1>1, <1>2 DEF Fault, nodeVars, TypeOK

LEMMA ChurnType ==
  ASSUME TypeOK, Churn
  PROVE  TypeOK'
  <1>1. churn' \in 0 .. MaxChurn
    BY DEF Churn, TypeOK
  <1>2. CASE \E i \in Ifaces : DeregisterInterface(i)
    BY <1>1, <1>2 DEF Churn, DeregisterInterface, TypeOK
  <1>3. CASE \E d \in Dests : DeregisterDestination(d)
    BY <1>1, <1>3 DEF Churn, DeregisterDestination, TypeOK
  <1>4. ASSUME NEW n \in Nodes, ClearPaths(n)
        PROVE  TypeOK'
    BY <1>1, <1>4 DEF Churn, ClearPaths, TypeOK
  <1>5. ASSUME NEW n \in Nodes, Reset(n)
        PROVE  TypeOK'
    BY <1>1, <1>5 DEF Churn, Reset, TypeOK
  <1>6. QED
    BY <1>2, <1>3, <1>4, <1>5 DEF Churn

\* TypeCorrect: every reachable state of every mesh has the declared types; in
\* particular a recorded path is whole and a hop counter fits its byte.
THEOREM TypeCorrect == Spec => []TypeOK
  <1>1. Init => TypeOK
    BY InitType
  <1>2. TypeOK /\ [Next]_vars => TypeOK'
    <2> SUFFICES ASSUME TypeOK, [Next]_vars
                 PROVE  TypeOK'
      OBVIOUS
    <2>1. CASE \E a \in Announces : Announce(a)
      BY <2>1, AnnounceType
    <2>2. CASE \E n \in Nodes, p \in Data : SendData(n, p)
      BY <2>2, SendDataType
    <2>3. CASE \E f \in air : ReceiveAnnounce(f) \/ ReceiveData(f) \/ Fault(f)
      BY <2>3, ReceiveAnnounceType, ReceiveDataType, FaultType
    <2>4. CASE \E i \in Ifaces : RegisterInterface(i)
      BY <2>4 DEF RegisterInterface, history, TypeOK
    <2>5. CASE \E d \in Dests : RegisterDestination(d)
      BY <2>5 DEF RegisterDestination, history, TypeOK
    <2>6. CASE Churn
      BY <2>6, ChurnType
    <2>7. CASE UNCHANGED vars
      BY <2>7 DEF vars, nodeVars, history, TypeOK
    <2>8. QED
      BY <2>1, <2>2, <2>3, <2>4, <2>5, <2>6, <2>7 DEF Next
  <1>3. QED
    BY <1>1, <1>2, PTL DEF Spec

----------------------------------------------------------------------------
(* Acting once *)

\* What _seen_announces records of the announces acted on.
ActedIsSeen ==
  \A n \in Nodes, h \in Hashes :
    accepted[n][h] = 0 \/ (accepted[n][h] = 1 /\ h \in seen_announces[n])

ActedInv == TypeOK /\ ActedIsSeen

LEMMA ActedReceive ==
  ASSUME ActedInv, NEW f \in air, ReceiveAnnounce(f)
  PROVE  ActedIsSeen'
  <1> DEFINE n == Owner[f.to]
  <1>1. n \in Nodes /\ f.pkt \in Announces /\ Hash(f) \in Hashes
    BY FrameFields DEF ActedInv, ReceiveAnnounce, Hash, Hashes
  <1>2. \A m \in Nodes : seen_announces[m] \subseteq seen_announces'[m]
    <2>1. seen_announces \in [Nodes -> SUBSET Hashes]
      BY DEF ActedInv, TypeOK
    <2>2. \/ seen_announces' = [seen_announces EXCEPT ![n] = @ \cup {Hash(f)}]
          \/ seen_announces' = seen_announces
      BY DEF ReceiveAnnounce
    <2>3. \A m \in Nodes :
            seen_announces[m] \subseteq [seen_announces EXCEPT ![n] = @ \cup {Hash(f)}][m]
      BY <1>1, <2>1, AddToOne
    <2>4. QED
      BY <2>2, <2>3
  <1>3. CASE FirstCopy(n, f) /\ AcceptAnnounce(n, f)
              /\ seen_announces' = [seen_announces EXCEPT ![n] = @ \cup {Hash(f)}]
    <2>1. accepted[n][Hash(f)] = 0
      BY <1>1, <1>3 DEF ActedInv, ActedIsSeen, FirstCopy
    <2>2. accepted' = [accepted EXCEPT ![n][Hash(f)] = 1]
      BY <1>1, <1>3, <2>1 DEF AcceptAnnounce, ActedInv, TypeOK
    <2>3. Hash(f) \in seen_announces'[n]
      BY <1>1, <1>3 DEF ActedInv, TypeOK
    <2>4. QED
      BY <1>1, <1>2, <2>2, <2>3 DEF ActedInv, ActedIsSeen, TypeOK
  <1>4. CASE UNCHANGED accepted
    BY <1>2, <1>4 DEF ActedInv, ActedIsSeen
  <1>5. QED
    BY <1>3, <1>4 DEF ReceiveAnnounce, RejectAnnounce

LEMMA ActedReset ==
  ASSUME ActedInv, NEW n \in Nodes, Reset(n)
  PROVE  ActedIsSeen'
  <1>1. \A h \in Hashes : accepted'[n][h] = 0
    BY DEF Reset, ActedInv, TypeOK
  <1>2. \A m \in Nodes \ {n} : accepted'[m] = accepted[m]
                               /\ seen_announces'[m] = seen_announces[m]
    BY DEF Reset, ActedInv, TypeOK
  <1>3. QED
    BY <1>1, <1>2 DEF ActedInv, ActedIsSeen

\* ActedOnOnceHolds: on every mesh a node acts on a hash at most once between two
\* resets, whatever copies arrive and with whatever hop bytes.
THEOREM ActedOnOnceHolds == Spec => []ActedOnOnce
  <1>1. Init => ActedInv
    BY InitType DEF Init, ActedInv, ActedIsSeen
  <1>2. ActedInv /\ TypeOK' /\ [Next]_vars => ActedInv'
    <2> SUFFICES ASSUME ActedInv, TypeOK', [Next]_vars
                 PROVE  ActedIsSeen'
      BY DEF ActedInv
    <2>1. CASE UNCHANGED <<seen_announces, accepted>>
      BY <2>1 DEF ActedInv, ActedIsSeen
    <2>2. ASSUME NEW f \in air, ReceiveAnnounce(f)
          PROVE  ActedIsSeen'
      BY <2>2, ActedReceive
    <2>3. ASSUME NEW n \in Nodes, Reset(n)
          PROVE  ActedIsSeen'
      BY <2>3, ActedReset
    <2>4. Churn => \/ UNCHANGED <<seen_announces, accepted>>
                   \/ \E n \in Nodes : Reset(n)
      BY DEF Churn, DeregisterInterface, DeregisterDestination, ClearPaths
    <2>5. QED
      BY <2>1, <2>2, <2>3, <2>4
         DEF Next, vars, nodeVars, history, Announce, SendData, ReceiveData,
             Fault, RegisterInterface, RegisterDestination
  <1>3. ActedInv => ActedOnOnce
    BY DEF ActedInv, ActedIsSeen, ActedOnOnce
  <1>4. QED
    BY <1>1, <1>2, <1>3, TypeCorrect, PTL DEF Spec

----------------------------------------------------------------------------
(* Hop counts are walks *)

\* A node registers only interfaces of its own; an announce is in flight only on
\* a link, and unless a hop byte was garbled it is within the hop limit and ends
\* a walk of its hop count; so does every path.
OwnInterfaces == \A n \in Nodes : \A i \in interfaces[n] : Owner[i] = n

FrameOnWalk(f) ==
  f.pkt \in Announces =>
    /\ f.to \in Hears[f.from]
    /\ HopsRead(AnnDest[f.pkt]) => /\ f.hops <= PATHFINDER_M
                                   /\ Walk(AnnDest[f.pkt], f.hops, f.from)

PathOnWalk(n, d) ==
  LET e == path_table[n][d] IN
  IsPath(e) => /\ Owner[e.via] = n
               /\ HopsRead(d) =>
                    /\ e.hops <= PATHFINDER_M
                    /\ \E i \in Ifaces : e.via \in Hears[i] /\ Walk(d, e.hops, i)

WalkInv ==
  /\ TypeOK
  /\ OwnInterfaces
  /\ \A f \in air : FrameOnWalk(f)
  /\ \A n \in Nodes, d \in Dests : PathOnWalk(n, d)

\* An interface of the home itself ends a walk without relays.
LEMMA WalkStart ==
  ASSUME NEW d \in Dests, NEW i \in Ifaces, Owner[i] = Home[d]
  PROVE  Walk(d, 0, i)
  <1> DEFINE w == [k \in 0 .. 0 |-> i]
  <1>1. w \in [0 .. 0 -> Ifaces] /\ w[0] = i
    OBVIOUS
  <1>2. \A k \in 0 .. 0 - 1 : FALSE
    OBVIOUS
  <1>3. QED
    BY <1>1, <1>2 DEF Walk

\* A relay that heard the end of a walk on j and sends on another of its
\* interfaces makes the walk one longer.
LEMMA WalkStep ==
  ASSUME NEW d \in Dests, NEW h \in Nat, NEW i \in Ifaces, Walk(d, h, i),
         NEW j \in Hears[i], NEW k \in Ifaces, Owner[k] = Owner[j], k # j
  PROVE  Walk(d, h + 1, k)
  <1>1. PICK w \in [0 .. h -> Ifaces] :
          /\ Owner[w[0]] = Home[d] /\ w[h] = i
          /\ \A x \in 0 .. h - 1 :
               \E y \in Hears[w[x]] : Owner[y] = Owner[w[x + 1]] /\ y # w[x + 1]
    BY DEF Walk
  <1> DEFINE v == [x \in 0 .. h + 1 |-> IF x = h + 1 THEN k ELSE w[x]]
  <1>2. v \in [0 .. h + 1 -> Ifaces]
    OBVIOUS
  <1>3. v[0] = w[0] /\ v[h] = i /\ v[h + 1] = k
    BY <1>1
  <1>4. ASSUME NEW x \in 0 .. (h + 1) - 1
        PROVE  \E y \in Hears[v[x]] : Owner[y] = Owner[v[x + 1]] /\ y # v[x + 1]
    <2>1. CASE x = h
      BY <1>3, <2>1
    <2>2. CASE x # h
      <3>1. x \in 0 .. h - 1 /\ v[x] = w[x] /\ v[x + 1] = w[x + 1]
        BY <2>2
      <3>2. QED
        BY <1>1, <3>1
    <2>3. QED
      BY <2>1, <2>2
  <1>5. Owner[v[0]] = Home[d] /\ v[h + 1] = k
    BY <1>1, <1>3
  <1> HIDE DEF v
  <1>6. QED
    BY <1>2, <1>4, <1>5, Zenon DEF Walk

LEMMA BroadcastOnWalk ==
  ASSUME NEW n \in Nodes, NEW skip, interfaces[n] \subseteq Ifaces,
         NEW a \in Announces, NEW form, NEW h \in 0 .. PATHFINDER_M,
         HopsRead(AnnDest[a]) => \A i \in interfaces[n] \ skip : Walk(AnnDest[a], h, i)
  PROVE  \A g \in Broadcast(n, skip, a, form, h) : FrameOnWalk(g)
  <1> SUFFICES ASSUME NEW g \in Broadcast(n, skip, a, form, h)
               PROVE  FrameOnWalk(g)
    OBVIOUS
  <1>1. PICK i \in interfaces[n] \ skip : g \in Transmit(i, a, form, h)
    BY DEF Broadcast
  <1>2. g.pkt = a /\ g.hops = h /\ g.from = i /\ g.to \in Hears[i]
    BY <1>1 DEF Transmit
  <1>3. QED
    BY <1>1, <1>2 DEF FrameOnWalk

LEMMA AnnounceWalk ==
  ASSUME WalkInv, NEW a \in Announces, Announce(a)
  PROVE  \A f \in air' : FrameOnWalk(f)
  <1> DEFINE n == Home[AnnDest[a]]
  <1>1. n \in Nodes /\ interfaces[n] \subseteq Ifaces /\ 0 \in 0 .. PATHFINDER_M
    BY DEF WalkInv, TypeOK
  <1>2. \A i \in interfaces[n] : Walk(AnnDest[a], 0, i)
    BY <1>1, WalkStart DEF WalkInv, OwnInterfaces
  <1>3. \A g \in Broadcast(n, {}, a, Sent, 0) : FrameOnWalk(g)
    BY <1>1, <1>2, BroadcastOnWalk
  <1>4. QED
    BY <1>3 DEF Announce, WalkInv

\* Copies carry the packet that was sent.
LEMMA TransmitPkt ==
  ASSUME NEW i \in Ifaces, NEW pkt, NEW form, NEW hops
  PROVE  \A g \in Transmit(i, pkt, form, hops) : g.pkt = pkt
  BY DEF Transmit

LEMMA BroadcastPkt ==
  ASSUME NEW n \in Nodes, NEW skip, interfaces[n] \subseteq Ifaces,
         NEW pkt, NEW form, NEW hops
  PROVE  \A g \in Broadcast(n, skip, pkt, form, hops) : g.pkt = pkt
  BY TransmitPkt DEF Broadcast

LEMMA BroadcastFields ==
  ASSUME NEW n \in Nodes, NEW skip, NEW pkt, NEW form, NEW hops
  PROVE  \A g \in Broadcast(n, skip, pkt, form, hops) :
           g.pkt = pkt /\ g.hops = hops /\ g.from \in interfaces[n]
  <1> SUFFICES ASSUME NEW g \in Broadcast(n, skip, pkt, form, hops)
               PROVE  g.pkt = pkt /\ g.hops = hops /\ g.from \in interfaces[n]
    OBVIOUS
  <1>1. PICK i \in interfaces[n] \ skip : g \in Transmit(i, pkt, form, hops)
    BY DEF Broadcast
  <1>2. QED
    BY <1>1 DEF Transmit

LEMMA SendDataWalk ==
  ASSUME WalkInv, NEW n \in Nodes, NEW p \in Data, SendData(n, p)
  PROVE  \A f \in air' : FrameOnWalk(f)
  <1>1. \A g \in Broadcast(n, {}, p, Sent, 0) : g.pkt = p
    BY BroadcastPkt DEF WalkInv, TypeOK
  <1>2. QED
    BY <1>1 DEF SendData, WalkInv, FrameOnWalk

LEMMA RebroadcastWalk ==
  ASSUME WalkInv, NEW f \in air, f.pkt \in Announces
  PROVE  \A g \in Rebroadcast(Owner[f.to], f) : FrameOnWalk(g)
  <1> DEFINE n == Owner[f.to]
             a == f.pkt
  <1>1. CASE f.hops < PATHFINDER_M
    <2>1. /\ n \in Nodes /\ interfaces[n] \subseteq Ifaces
          /\ f.hops \in Nat /\ f.hops + 1 \in 0 .. PATHFINDER_M
          /\ f.from \in Ifaces /\ AnnDest[a] \in Dests
      BY <1>1, FrameFields DEF WalkInv, TypeOK
    <2>2. /\ f.to \in Hears[f.from]
          /\ HopsRead(AnnDest[a]) => Walk(AnnDest[a], f.hops, f.from)
      BY DEF WalkInv, FrameOnWalk
    <2>3. HopsRead(AnnDest[a]) =>
            \A i \in interfaces[n] \ {f.to} : Walk(AnnDest[a], f.hops + 1, i)
      BY <2>1, <2>2, WalkStep DEF WalkInv, OwnInterfaces
    <2>4. \A g \in Broadcast(n, {f.to}, a, f.form, f.hops + 1) : FrameOnWalk(g)
      BY <2>1, <2>3, BroadcastOnWalk
    <2>5. QED
      BY <1>1, <2>4 DEF Rebroadcast
  <1>2. CASE ~(f.hops < PATHFINDER_M)
    BY <1>2 DEF Rebroadcast
  <1>3. QED
    BY <1>1, <1>2

LEMMA ReceiveAnnounceWalk ==
  ASSUME WalkInv, NEW f \in air, ReceiveAnnounce(f)
  PROVE  /\ \A g \in air' : FrameOnWalk(g)
         /\ \A n \in Nodes, d \in Dests : PathOnWalk(n, d)'
  <1> DEFINE m == Owner[f.to]
             a == f.pkt
  <1>1. /\ a \in Announces /\ m \in Nodes /\ AnnDest[a] \in Dests
        /\ f.hops \in Nat /\ f.from \in Ifaces /\ f.to \in Ifaces
    BY FrameFields DEF WalkInv, ReceiveAnnounce
  <1>2. /\ f.to \in Hears[f.from]
        /\ HopsRead(AnnDest[a]) => /\ f.hops <= PATHFINDER_M
                                   /\ Walk(AnnDest[a], f.hops, f.from)
    BY <1>1 DEF WalkInv, FrameOnWalk
  <1>3. \A g \in air' : FrameOnWalk(g)
    <2>1. air' \subseteq air \cup Rebroadcast(m, f)
      BY DEF ReceiveAnnounce, AcceptAnnounce, RejectAnnounce
    <2>2. QED
      BY <1>1, <2>1, RebroadcastWalk DEF WalkInv
  <1>4. ASSUME NEW n \in Nodes, NEW d \in Dests
        PROVE  PathOnWalk(n, d)'
    <2>0. HopsRead(d)' <=> HopsRead(d)
      BY DEF ReceiveAnnounce, HopsRead
    <2>1. CASE path_table'[n][d] = path_table[n][d]
      BY <2>0, <2>1 DEF PathOnWalk, WalkInv
    <2>2. CASE /\ n = m /\ d = AnnDest[a]
               /\ path_table'[n][d] = [hops |-> f.hops, via |-> f.to]
      BY <1>1, <1>2, <2>0, <2>2 DEF PathOnWalk
    <2>3. \/ path_table' = path_table
          \/ path_table' = [path_table EXCEPT
               ![m][AnnDest[a]] = [hops |-> f.hops, via |-> f.to]]
      BY DEF ReceiveAnnounce, AcceptAnnounce, RejectAnnounce
    <2>4. QED
      BY <1>1, <2>1, <2>2, <2>3 DEF WalkInv, TypeOK
  <1>5. QED
    BY <1>3, <1>4

LEMMA ReceiveDataWalk ==
  ASSUME WalkInv, NEW f \in air, ReceiveData(f)
  PROVE  \A g \in air' : FrameOnWalk(g)
  <1> DEFINE n == Owner[f.to]
             e == path_table[n][DataDest[f.pkt]]
  <1>1. f.pkt \in Data /\ n \in Nodes
    BY FrameFields DEF ReceiveData, WalkInv
  <1>2. \A g \in air' : g \in air \/ g.pkt = f.pkt
    <2>1. CASE DeliverData(n, f) \/ DropData(n, f)
      BY <2>1 DEF DeliverData, DropData
    <2>2. CASE ForwardData(n, f)
      <3>1. e.via \in Ifaces
        BY <1>1, <2>2 DEF ForwardData, WalkInv, TypeOK, IsPath, Entry
      <3>2. QED
        BY <2>2, <3>1, TransmitPkt DEF ForwardData
    <2>3. QED
      BY <2>1, <2>2 DEF ReceiveData
  <1>3. f.pkt \notin Announces
    BY <1>1, TransportAssumption
  <1>4. ASSUME NEW g \in air', g.pkt = f.pkt
        PROVE  FrameOnWalk(g)
    BY <1>3, <1>4 DEF FrameOnWalk
  <1>5. \A g \in air : FrameOnWalk(g)
    BY DEF WalkInv
  <1>6. QED
    BY <1>2, <1>4, <1>5

\* A garbled hop byte is on record, and lifts what is claimed of its packet.
LEMMA FaultWalk ==
  ASSUME WalkInv, NEW f \in air, Fault(f)
  PROVE  /\ \A g \in air' : FrameOnWalk(g)'
         /\ \A n \in Nodes, d \in Dests : PathOnWalk(n, d)'
  <1>1. \A d : HopsRead(d)' => HopsRead(d)
    BY FaultFrames DEF WalkInv, HopsRead
  <1>2. ASSUME NEW g \in air'
        PROVE  FrameOnWalk(g)'
    <2>1. CASE g \in air
      BY <1>1, <2>1 DEF WalkInv, FrameOnWalk
    <2>2. CASE /\ g.pkt = f.pkt /\ g.from = f.from /\ g.to = f.to
               /\ g.hops = f.hops \/ f.pkt \in misread'
      <3>1. f.pkt \in Announces /\ f.pkt \in misread' => ~HopsRead(AnnDest[f.pkt])'
        BY DEF HopsRead
      <3>2. QED
        BY <1>1, <2>2, <3>1 DEF WalkInv, FrameOnWalk
    <2>3. QED
      BY <2>1, <2>2, FaultFrames DEF WalkInv
  <1>3. \A n \in Nodes, d \in Dests : PathOnWalk(n, d)'
    BY <1>1 DEF Fault, nodeVars, WalkInv, PathOnWalk
  <1>4. QED
    BY <1>2, <1>3

LEMMA ChurnWalk ==
  ASSUME WalkInv, Churn
  PROVE  /\ OwnInterfaces'
         /\ \A n \in Nodes, d \in Dests : PathOnWalk(n, d)'
  <1>1. \A n \in Nodes : interfaces'[n] \subseteq interfaces[n]
    <2>1. ASSUME NEW i \in Ifaces, DeregisterInterface(i)
          PROVE  \A n \in Nodes : interfaces'[n] \subseteq interfaces[n]
      BY <2>1 DEF DeregisterInterface, WalkInv, TypeOK
    <2>2. ASSUME NEW m \in Nodes, Reset(m)
          PROVE  \A n \in Nodes : interfaces'[n] \subseteq interfaces[n]
      BY <2>2 DEF Reset, WalkInv, TypeOK
    <2>3. CASE UNCHANGED interfaces
      BY <2>3
    <2>4. QED
      BY <2>1, <2>2, <2>3 DEF Churn, DeregisterDestination, ClearPaths
  <1>2. \A n \in Nodes, d \in Dests :
          path_table'[n][d] \in {path_table[n][d], NoPath}
    BY DEF Churn, DeregisterInterface, DeregisterDestination, ClearPaths,
           Reset, WalkInv, TypeOK
  <1>3. ~IsPath(NoPath) /\ \A d : HopsRead(d)' <=> HopsRead(d)
    BY DEF IsPath, Churn, HopsRead
  <1>4. ASSUME NEW n \in Nodes, NEW d \in Dests
        PROVE  PathOnWalk(n, d)'
    <2>1. CASE path_table'[n][d] = path_table[n][d]
      BY <1>3, <2>1 DEF PathOnWalk, WalkInv
    <2>2. CASE path_table'[n][d] = NoPath
      BY <1>3, <2>2 DEF PathOnWalk
    <2>3. QED
      BY <1>2, <2>1, <2>2
  <1>5. QED
    BY <1>1, <1>4 DEF WalkInv, OwnInterfaces

LEMMA WalkInit == Init => WalkInv
  <1> SUFFICES ASSUME Init PROVE WalkInv
    OBVIOUS
  <1>1. OwnInterfaces
    BY DEF Init, OwnInterfaces
  <1>2. \A n \in Nodes, d \in Dests : PathOnWalk(n, d)
    BY DEF Init, PathOnWalk, NoPath, IsPath
  <1>3. QED
    BY <1>1, <1>2, InitType DEF Init, WalkInv

LEMMA WalkInvariant == Spec => []WalkInv
  <1>1. Init => WalkInv
    BY WalkInit
  <1>2. WalkInv /\ TypeOK' /\ [Next]_vars => WalkInv'
    <2> SUFFICES ASSUME WalkInv, TypeOK', [Next]_vars
                 PROVE  WalkInv'
      OBVIOUS
    <2>1. CASE \E a \in Announces : Announce(a)
      BY <2>1, AnnounceWalk
         DEF Announce, nodeVars, WalkInv, OwnInterfaces, PathOnWalk, FrameOnWalk, HopsRead, history
    <2>2. CASE \E n \in Nodes, p \in Data : SendData(n, p)
      BY <2>2, SendDataWalk
         DEF SendData, nodeVars, history, WalkInv, OwnInterfaces, PathOnWalk,
             FrameOnWalk, HopsRead
    <2>3. ASSUME NEW f \in air, ReceiveAnnounce(f)
          PROVE  WalkInv'
      BY <2>3, ReceiveAnnounceWalk
         DEF ReceiveAnnounce, WalkInv, OwnInterfaces, FrameOnWalk, HopsRead
    <2>4. ASSUME NEW f \in air, ReceiveData(f)
          PROVE  WalkInv'
      BY <2>4, ReceiveDataWalk
         DEF ReceiveData, nodeVars, WalkInv, OwnInterfaces, PathOnWalk,
             FrameOnWalk, HopsRead
    <2>5. ASSUME NEW f \in air, Fault(f)
          PROVE  WalkInv'
      BY <2>5, FaultWalk
         DEF Fault, nodeVars, WalkInv, OwnInterfaces
    <2>6. CASE \E i \in Ifaces : RegisterInterface(i)
      BY <2>6 DEF RegisterInterface, WalkInv, TypeOK, OwnInterfaces, PathOnWalk,
                  FrameOnWalk, HopsRead, history
    <2>7. CASE \E d \in Dests : RegisterDestination(d)
      BY <2>7 DEF RegisterDestination, WalkInv, OwnInterfaces, PathOnWalk,
                  FrameOnWalk, HopsRead, history
    <2>8. CASE Churn
      BY <2>8, ChurnWalk DEF Churn, WalkInv, FrameOnWalk, HopsRead
    <2>9. CASE UNCHANGED vars
      BY <2>9 DEF vars, nodeVars, history, WalkInv, OwnInterfaces, PathOnWalk,
                  FrameOnWalk, HopsRead
    <2>10. QED
      BY <2>1, <2>2, <2>3, <2>4, <2>5, <2>6, <2>7, <2>8, <2>9 DEF Next
  <1>3. QED
    BY <1>1, <1>2, TypeCorrect, PTL DEF Spec

\* PathIsAWalkHolds: on every mesh, with any losses, resets and garbled contents,
\* each recorded hop count is the length of a chain of relays that exists, and
\* within the limit, as long as no hop byte of the destination was garbled.
THEOREM PathIsAWalkHolds == Spec => []PathIsAWalk
  <1>1. WalkInv => PathIsAWalk
    BY DEF WalkInv, PathOnWalk, PathIsAWalk
  <1>2. QED
    BY <1>1, WalkInvariant, PTL

----------------------------------------------------------------------------
(* The hop limit *)

\* What AnnounceHopLimit says of one frame.
WithinLimit(g) ==
  /\ g.hops <= PATHFINDER_M
  /\ \/ g.hops = 0
     \/ \E f \in air : /\ f.pkt = g.pkt /\ g.hops = f.hops + 1
                        /\ Owner[f.to] = Owner[g.from]

LEMMA RebroadcastWithinLimit ==
  ASSUME TypeOK, OwnInterfaces, NEW f \in air
  PROVE  \A g \in Rebroadcast(Owner[f.to], f) : WithinLimit(g)
  <1> SUFFICES ASSUME NEW g \in Rebroadcast(Owner[f.to], f)
               PROVE  WithinLimit(g)
    OBVIOUS
  <1>1. /\ f.hops < PATHFINDER_M
        /\ g \in Broadcast(Owner[f.to], {f.to}, f.pkt, f.form, f.hops + 1)
    BY DEF Rebroadcast
  <1>2. Owner[f.to] \in Nodes /\ f.hops \in Nat
    BY FrameFields
  <1>3. g.pkt = f.pkt /\ g.hops = f.hops + 1 /\ g.from \in interfaces[Owner[f.to]]
    BY <1>1, <1>2, BroadcastFields
  <1>4. Owner[g.from] = Owner[f.to]
    BY <1>2, <1>3 DEF OwnInterfaces
  <1>5. QED
    BY <1>1, <1>2, <1>3, <1>4 DEF WithinLimit

\* AnnounceHopLimitHolds: on every mesh and whatever hop bytes are received, a
\* node sends an announce with at most PATHFINDER_M hops, one more than a copy it
\* got, so that garbling aside the hop byte of an announce never wraps.
THEOREM AnnounceHopLimitHolds == Spec => AnnounceHopLimit
  <1>1. WalkInv /\ [Next]_vars =>
          [\A g \in air' \ air : g.pkt \in Announces /\ faults' = faults =>
             WithinLimit(g)]_vars
    <2> SUFFICES ASSUME WalkInv, [Next]_vars, NEW g \in air' \ air,
                        g.pkt \in Announces, faults' = faults
                 PROVE  WithinLimit(g)
      OBVIOUS
    <2>0. TypeOK /\ OwnInterfaces
      BY DEF WalkInv
    <2>1. ASSUME NEW a \in Announces, Announce(a)
          PROVE  WithinLimit(g)
      <3>1. g \in Broadcast(Home[AnnDest[a]], {}, a, Sent, 0)
        BY <2>1 DEF Announce
      <3>2. g.hops = 0
        BY <3>1, BroadcastFields
      <3>3. QED
        BY <3>2 DEF WithinLimit
    <2>2. ASSUME NEW n \in Nodes, NEW p \in Data, SendData(n, p)
          PROVE  WithinLimit(g)
      <3>1. g \in Broadcast(n, {}, p, Sent, 0)
        BY <2>2 DEF SendData
      <3>2. g.hops = 0
        BY <3>1, BroadcastFields
      <3>3. QED
        BY <3>2 DEF WithinLimit
    <2>3. ASSUME NEW f \in air, ReceiveAnnounce(f)
          PROVE  WithinLimit(g)
      <3>1. g \in Rebroadcast(Owner[f.to], f)
        BY <2>3 DEF ReceiveAnnounce, AcceptAnnounce, RejectAnnounce
      <3>2. QED
        BY <2>0, <3>1, RebroadcastWithinLimit
    <2>4. ASSUME NEW f \in air, ReceiveData(f)
          PROVE  FALSE
      <3>1. f.pkt \in Data /\ g.pkt # f.pkt
        BY <2>4 DEF ReceiveData
      <3>2. \A h \in Transmit(path_table[Owner[f.to]][DataDest[f.pkt]].via, f.pkt,
                              f.form, (f.hops + 1) % HopModulus) : h.pkt = f.pkt
        BY DEF Transmit
      <3>3. QED
        BY <2>4, <3>1, <3>2 DEF ReceiveData, DeliverData, ForwardData, DropData
    <2>5. ASSUME NEW f \in air, Fault(f)
          PROVE  FALSE
      BY <2>0, <2>5 DEF Fault, TypeOK
    <2>6. air' # air
      OBVIOUS
    <2>7. QED
      BY <2>1, <2>2, <2>3, <2>4, <2>5, <2>6
         DEF Next, vars, RegisterInterface, RegisterDestination, Churn
  <1>2. QED
    BY <1>1, WalkInvariant, PTL DEF Spec, AnnounceHopLimit, WithinLimit

----------------------------------------------------------------------------
(* Routes lead home *)

\* OneAnnounceSeen for one announce.
Only(d, a) ==
  /\ \A b \in announced : AnnDest[b] = d <=> b = a
  /\ \A n \in Nodes, x \in Recasts : <<a, x>> \notin seen_announces[n]

\* What is in flight was announced, and, unless something was cleared, a path is
\* there because its node has seen a valid announce.
OfMade ==
  /\ \A f \in air : f.pkt \in Announces => f.pkt \in announced
  /\ \A n \in Nodes, d \in Dests : churn = 0 /\ IsPath(path_table[n][d]) =>
       \E a \in announced, x \in Forms \ {Broken} :
         AnnDest[a] = d /\ <<a, x>> \in seen_announces[n]

\* A copy in flight that reads as sent comes from the home or from a node that
\* has a path already.
FromRouted(d, a) ==
  \A f \in air : f.pkt = a /\ f.form = Sent => Owner[f.from] \in {Home[d]} \cup Routed(d)

Exits(d) ==
  \A S \in SUBSET Routed(d) : S # {} =>
    \E n \in S, i \in Ifaces :
      /\ path_table[n][d].via \in Hears[i]
      /\ Owner[i] \in {Home[d]} \cup (Routed(d) \ S)

\* As long as there is one announce of d, each copy of it was sent by a node with
\* a path, and so was each that became a path.
RouteInv ==
  /\ WalkInv
  /\ OfMade
  /\ \A d \in Dests, a \in announced :
       churn = 0 /\ Only(d, a) => FromRouted(d, a) /\ Exits(d)

\* A step that moves no path to d keeps the exits.
LEMMA ExitsStay ==
  ASSUME NEW d \in Dests, Exits(d),
         \A n \in Nodes : path_table'[n][d] = path_table[n][d]
  PROVE  Routed(d)' = Routed(d) /\ Exits(d)'
  <1>1. Routed(d)' = Routed(d)
    BY DEF Routed
  <1>2. \A n \in Routed(d) : n \in Nodes
    BY DEF Routed
  <1>3. ASSUME NEW S \in SUBSET Routed(d), S # {}
        PROVE  \E n \in S, i \in Ifaces :
                 /\ path_table'[n][d].via \in Hears[i]
                 /\ Owner[i] \in {Home[d]} \cup (Routed(d) \ S)
    <2>1. PICK n \in S, i \in Ifaces :
            /\ path_table[n][d].via \in Hears[i]
            /\ Owner[i] \in {Home[d]} \cup (Routed(d) \ S)
      BY <1>3 DEF Exits
    <2>2. path_table'[n][d] = path_table[n][d]
      BY <1>2
    <2>3. QED
      BY <2>1, <2>2
  <1>4. QED
    BY <1>1, <1>3 DEF Exits

\* A step that moves no path to d and sends no copy of a as it was leaves both.
LEMMA RoutesStay ==
  ASSUME NEW d \in Dests, NEW a \in Announces, FromRouted(d, a), Exits(d),
         \A n \in Nodes : path_table'[n][d] = path_table[n][d],
         \A g \in air' : \/ g.pkt # a \/ g.form # Sent
                         \/ \E f \in air : /\ f.pkt = g.pkt /\ f.form = Sent
                                           /\ f.from = g.from
  PROVE  (FromRouted(d, a) /\ Exits(d))'
  <1>1. Routed(d)' = Routed(d) /\ Exits(d)'
    BY ExitsStay
  <1>2. FromRouted(d, a)'
    BY <1>1 DEF FromRouted
  <1>3. QED
    BY <1>1, <1>2

\* The only announce of d is the one its frames and its paths come from.
LEMMA OnlyOne ==
  ASSUME RouteInv, NEW d \in Dests, NEW a \in announced, Only(d, a), churn = 0
  PROVE  /\ \A f \in air : f.pkt \in Announces /\ AnnDest[f.pkt] = d => f.pkt = a
         /\ \A n \in Nodes : IsPath(path_table[n][d]) => Genuine(a) \in seen_announces[n]
  <1>1. \A x \in announced : AnnDest[x] = d => x = a
    BY DEF Only
  <1>2. \A n \in Nodes, x \in Forms \ {Broken} : <<a, x>> \in seen_announces[n] => x = Sent
    BY DEF Only, Forms
  <1>3. QED
    BY <1>1, <1>2 DEF RouteInv, OfMade, Genuine

LEMMA AnnounceRoutes ==
  ASSUME RouteInv, NEW b \in Announces, Announce(b)
  PROVE  /\ OfMade'
         /\ \A d \in Dests, a \in announced' :
              churn' = 0 /\ Only(d, a)' => (FromRouted(d, a) /\ Exits(d))'
  <1> DEFINE n == Home[AnnDest[b]]
             new == Broadcast(n, {}, b, Sent, 0)
  <1>0. n \in Nodes /\ interfaces[n] \subseteq Ifaces /\ announced \subseteq Announces
    BY DEF RouteInv, WalkInv, TypeOK
  <1>1. \A g \in new : g.pkt = b /\ Owner[g.from] = n
    <2>1. \A i \in interfaces[n] : Owner[i] = n
      BY <1>0 DEF RouteInv, WalkInv, OwnInterfaces
    <2>2. \A g \in new : g.pkt = b /\ g.from \in interfaces[n]
      BY <1>0, BroadcastFields
    <2>3. QED
      BY <1>0, <2>1, <2>2
  <1>2. /\ air' = air \cup new /\ announced' = announced \cup {b} /\ b \notin announced
        /\ path_table' = path_table /\ seen_announces' = seen_announces /\ churn' = churn
    BY DEF Announce, nodeVars
  <1>3. OfMade'
    BY <1>1, <1>2 DEF RouteInv, OfMade
  <1>4. ASSUME NEW d \in Dests, NEW a \in announced', churn' = 0, Only(d, a)'
        PROVE  (FromRouted(d, a) /\ Exits(d))'
    <2>1. CASE a # b
      <3>1. a \in announced /\ a \in Announces /\ Only(d, a)
        BY <1>0, <1>2, <1>4, <2>1 DEF Only
      <3>2. FromRouted(d, a) /\ Exits(d)
        BY <1>2, <1>4, <3>1 DEF RouteInv
      <3>3. \A g \in air' : g.pkt # a \/ g \in air
        BY <1>1, <1>2, <2>1
      <3>4. QED
        BY <1>2, <3>1, <3>2, <3>3, RoutesStay
    <2>2. CASE a = b
      <3>1. AnnDest[b] = d /\ \A x \in announced : AnnDest[x] # d
        BY <1>2, <1>4, <2>2 DEF Only
      <3>2. \A f \in air : f.pkt # b
        BY <1>2 DEF RouteInv, OfMade
      <3>3. \A m \in Nodes : ~IsPath(path_table'[m][d])
        BY <1>2, <1>4, <3>1 DEF RouteInv, OfMade
      <3>4. Exits(d)'
        BY <3>3 DEF Exits, Routed
      <3>5. FromRouted(d, a)'
        BY <1>1, <1>2, <2>2, <3>1, <3>2 DEF FromRouted
      <3>6. QED
        BY <3>4, <3>5
    <2>3. QED
      BY <2>1, <2>2
  <1>5. QED
    BY <1>3, <1>4

\* A node without a path takes one from a node that has one: every set of nodes
\* with paths keeps an exit, and a new one leads to the sender.
LEMMA NewExit ==
  ASSUME NEW d \in Dests, NEW n \in Nodes, NEW j \in Ifaces, Exits(d), n \notin Routed(d),
         \A m \in Nodes : m # n => path_table'[m][d] = path_table[m][d],
         path_table'[n][d].via \in Hears[j], IsPath(path_table'[n][d]),
         Owner[j] \in {Home[d]} \cup Routed(d)
  PROVE  Routed(d) \subseteq Routed(d)' /\ Routed(d)' \subseteq Routed(d) \cup {n} /\ Exits(d)'
  <1>1. Routed(d) \subseteq Routed(d)'
    BY DEF Routed
  <1>2. Routed(d)' \subseteq Routed(d) \cup {n}
    BY DEF Routed
  <1>3. ASSUME NEW S \in SUBSET Routed(d)', S # {}
        PROVE  \E m \in S, i \in Ifaces :
                 /\ path_table'[m][d].via \in Hears[i]
                 /\ Owner[i] \in {Home[d]} \cup (Routed(d)' \ S)
    <2> DEFINE T == S \ {n}
    <2>1. CASE T = {}
      <3>1. n \in S /\ S = {n}
        BY <1>3, <2>1
      <3>2. Owner[j] \in {Home[d]} \cup (Routed(d)' \ S)
        BY <1>1, <3>1
      <3>3. QED
        BY <3>1, <3>2
    <2>2. CASE T # {}
      <3>1. T \in SUBSET Routed(d)
        BY <1>2
      <3>2. PICK m \in T, i \in Ifaces : /\ path_table[m][d].via \in Hears[i]
                                         /\ Owner[i] \in {Home[d]} \cup (Routed(d) \ T)
        BY <2>2, <3>1 DEF Exits
      <3>3. m \in S /\ m # n /\ m \in Nodes
        BY <3>1, <3>2 DEF Routed
      <3>4. path_table'[m][d].via \in Hears[i]
        BY <3>2, <3>3
      <3>5. Owner[i] \in {Home[d]} \cup (Routed(d)' \ S)
        BY <1>1, <3>2
      <3>6. QED
        BY <3>3, <3>4, <3>5
    <2>3. QED
      BY <2>1, <2>2
  <1>4. QED
    BY <1>1, <1>2, <1>3 DEF Exits

\* The first valid copy of the only announce of d makes a path at a node that
\* has none, and copies that come from it.
LEMMA AcceptRoutes ==
  ASSUME RouteInv, TypeOK', NEW f \in air, ReceiveAnnounce(f),
         FirstCopy(Owner[f.to], f), AcceptAnnounce(Owner[f.to], f),
         NEW d \in Dests, NEW a \in announced, churn = 0, Only(d, a), Only(d, a)',
         seen_announces' = [seen_announces EXCEPT ![Owner[f.to]] = @ \cup {Hash(f)}],
         AnnDest[f.pkt] = d
  PROVE  (FromRouted(d, a) /\ Exits(d))'
  <1> DEFINE n == Owner[f.to]
             e == [hops |-> f.hops, via |-> f.to]
  <1>1. /\ f.pkt = a /\ f.pkt \in Announces /\ n \in Nodes /\ f.form \in Forms
        /\ f.from \in Ifaces /\ f.to \in Ifaces /\ f.to \in Hears[f.from]
    <2>1. f.pkt \in Announces
      BY DEF ReceiveAnnounce
    <2>2. QED
      BY <2>1, OnlyOne, FrameFields DEF RouteInv, WalkInv, FrameOnWalk
  <1>2. f.form = Sent
    <2>1. <<a, f.form>> \in seen_announces'[n]
      BY <1>1 DEF Hash, RouteInv, WalkInv, TypeOK
    <2>2. f.form \notin Recasts
      BY <1>1, <2>1 DEF Only
    <2>3. f.form # Broken
      BY DEF AcceptAnnounce, Valid
    <2>4. QED
      BY <1>1, <2>2, <2>3 DEF Forms
  <1>3. ~IsPath(path_table[n][d])
    <2>1. Hash(f) = Genuine(a)
      BY <1>1, <1>2 DEF Hash, Genuine
    <2>2. QED
      BY <1>1, <2>1, OnlyOne DEF FirstCopy
  <1>4. path_table' = [path_table EXCEPT ![n][d] = e]
    BY DEF AcceptAnnounce
  <1>5. path_table'[n][d] = e /\ IsPath(path_table'[n][d]) /\ e.via = f.to
    BY <1>1, <1>4 DEF RouteInv, WalkInv, TypeOK, IsPath, NoPath
  <1>6. \A m \in Nodes : m # n => path_table'[m][d] = path_table[m][d]
    BY <1>1, <1>4 DEF RouteInv, WalkInv, TypeOK
  <1>7. FromRouted(d, a) /\ Exits(d)
    BY DEF RouteInv
  <1>8. Owner[f.from] \in {Home[d]} \cup Routed(d)
    BY <1>1, <1>2, <1>7 DEF FromRouted
  <1>9. n \notin Routed(d) /\ path_table'[n][d].via \in Hears[f.from]
    BY <1>1, <1>3, <1>5 DEF Routed
  <1> HIDE DEF n, e
  <1>10. Routed(d) \subseteq Routed(d)' /\ Exits(d)'
    BY <1>1, <1>5, <1>6, <1>7, <1>8, <1>9, NewExit
  <1>11. n \in {Home[d]} \cup Routed(d)'
    BY <1>1, <1>5 DEF Routed
  <1>12. ASSUME NEW g \in Rebroadcast(n, f)
         PROVE  Owner[g.from] = n
    <2>1. g \in Broadcast(n, {f.to}, f.pkt, f.form, f.hops + 1)
      BY DEF Rebroadcast
    <2>2. g.from \in interfaces[n]
      BY <1>1, <2>1, BroadcastFields
    <2>3. QED
      BY <1>1, <2>2 DEF RouteInv, WalkInv, OwnInterfaces
  <1>13. air' = (air \ {f}) \cup Rebroadcast(n, f)
    BY DEF AcceptAnnounce, n
  <1>14. FromRouted(d, a)'
    BY <1>7, <1>10, <1>11, <1>12, <1>13 DEF FromRouted
  <1>15. QED
    BY <1>10, <1>14

LEMMA ReceiveAnnounceRoutes ==
  ASSUME RouteInv, TypeOK', NEW f \in air, ReceiveAnnounce(f)
  PROVE  /\ OfMade'
         /\ \A d \in Dests, a \in announced' :
              churn' = 0 /\ Only(d, a)' => (FromRouted(d, a) /\ Exits(d))'
  <1> DEFINE n == Owner[f.to]
             Accepted == /\ FirstCopy(n, f) /\ AcceptAnnounce(n, f)
                         /\ seen_announces' = [seen_announces EXCEPT ![n] = @ \cup {Hash(f)}]
  <1>1. /\ churn' = churn /\ announced' = announced /\ announced \subseteq Announces
        /\ n \in Nodes /\ f.pkt \in Announces /\ AnnDest[f.pkt] \in Dests
        /\ f.pkt \in announced /\ f.form \in Forms
    BY FrameFields DEF ReceiveAnnounce, RouteInv, WalkInv, OfMade, TypeOK
  <1>2. \A g \in air' : g \in air \/ g.pkt = f.pkt
    <2>1. air' \subseteq air \cup Rebroadcast(n, f)
      BY DEF ReceiveAnnounce, AcceptAnnounce, RejectAnnounce
    <2>2. \A g \in Rebroadcast(n, f) : g.pkt = f.pkt
      BY <1>1, BroadcastFields DEF Rebroadcast
    <2>3. QED
      BY <2>1, <2>2
  <1>3. ~Accepted => path_table' = path_table /\ air' \subseteq air
    BY DEF ReceiveAnnounce, RejectAnnounce
  <1>4. Accepted => \A m \in Nodes, d \in Dests :
                      path_table'[m][d] = path_table[m][d] \/ (m = n /\ d = AnnDest[f.pkt])
    BY <1>1 DEF AcceptAnnounce, RouteInv, WalkInv, TypeOK
  <1>5. \A m \in Nodes : seen_announces[m] \subseteq seen_announces'[m]
    <2>1. \/ seen_announces' = [seen_announces EXCEPT ![n] = @ \cup {Hash(f)}]
          \/ seen_announces' = seen_announces
      BY DEF ReceiveAnnounce
    <2>2. seen_announces \in [Nodes -> SUBSET Hashes]
      BY DEF RouteInv, WalkInv, TypeOK
    <2>3. Hash(f) \in Hashes
      BY <1>1 DEF Hash, Hashes
    <2>4. CASE seen_announces' = seen_announces
      BY <2>4
    <2>5. CASE seen_announces' = [seen_announces EXCEPT ![n] = @ \cup {Hash(f)}]
      BY <1>1, <2>2, <2>5
    <2>6. QED
      BY <2>1, <2>4, <2>5
  <1>6. Accepted => \E x \in Forms \ {Broken} : <<f.pkt, x>> \in seen_announces'[n]
    BY <1>1 DEF AcceptAnnounce, Valid, Hash, RouteInv, WalkInv, TypeOK
  <1>7. OfMade'
    <2>1. ASSUME NEW m \in Nodes, NEW d \in Dests, churn' = 0, IsPath(path_table'[m][d])
          PROVE  \E a \in announced', x \in Forms \ {Broken} :
                   AnnDest[a] = d /\ <<a, x>> \in seen_announces'[m]
      <3>1. CASE path_table'[m][d] = path_table[m][d]
        BY <1>1, <1>5, <2>1, <3>1 DEF RouteInv, OfMade
      <3>2. CASE Accepted /\ m = n /\ d = AnnDest[f.pkt]
        BY <1>1, <1>6, <3>2
      <3>3. QED
        BY <1>3, <1>4, <3>1, <3>2
    <2>2. QED
      BY <1>1, <1>2, <2>1 DEF RouteInv, OfMade
  <1>8. ASSUME NEW d \in Dests, NEW a \in announced', churn' = 0, Only(d, a)'
        PROVE  (FromRouted(d, a) /\ Exits(d))'
    <2>0. churn = 0 /\ a \in announced /\ a \in Announces /\ Only(d, a)
      BY <1>1, <1>5, <1>8 DEF Only
    <2>1. FromRouted(d, a) /\ Exits(d)
      BY <2>0 DEF RouteInv
    <2>2. CASE ~Accepted
      BY <1>3, <2>0, <2>1, <2>2, RoutesStay
    <2>3. CASE Accepted /\ AnnDest[f.pkt] = d
      BY <1>8, <2>0, <2>3, AcceptRoutes
    <2>4. CASE Accepted /\ AnnDest[f.pkt] # d
      <3>1. f.pkt # a
        BY <2>0, <2>4 DEF Only
      <3>2. \A m \in Nodes : path_table'[m][d] = path_table[m][d]
        BY <1>4, <2>4
      <3>3. \A g \in air' : g.pkt # a \/ g \in air
        BY <1>2, <3>1
      <3>4. QED
        BY <2>0, <2>1, <3>2, <3>3, RoutesStay
    <2>5. QED
      BY <2>2, <2>3, <2>4
  <1>9. QED
    BY <1>7, <1>8

\* The other steps move no path and put no copy of an announce on the air that
\* reads as sent, unless one was there on the same link.
LEMMA OtherStepsRoute ==
  ASSUME RouteInv, announced' = announced, churn' = churn,
         path_table' = path_table, seen_announces' = seen_announces,
         \A g \in air' : \/ g.pkt \in Data
                         \/ \E f \in air : /\ f.pkt = g.pkt /\ f.from = g.from
                                           /\ g.form = Sent => f.form = Sent
  PROVE  /\ OfMade'
         /\ \A d \in Dests, a \in announced' :
              churn' = 0 /\ Only(d, a)' => (FromRouted(d, a) /\ Exits(d))'
  <1>1. OfMade'
    <2>1. \A g \in air' : g.pkt \in Announces => g.pkt \in announced
      BY DEF RouteInv, OfMade
    <2>2. QED
      BY <2>1 DEF RouteInv, OfMade
  <1>2. ASSUME NEW d \in Dests, NEW a \in announced', churn' = 0, Only(d, a)'
        PROVE  (FromRouted(d, a) /\ Exits(d))'
    <2>1. churn = 0 /\ a \in announced /\ a \in Announces /\ Only(d, a)
      BY <1>2 DEF Only, RouteInv, WalkInv, TypeOK
    <2>2. FromRouted(d, a) /\ Exits(d)
      BY <2>1 DEF RouteInv
    <2>3. \A g \in air' : \/ g.pkt # a \/ g.form # Sent
                          \/ \E f \in air : /\ f.pkt = g.pkt /\ f.form = Sent
                                            /\ f.from = g.from
      BY <2>1
    <2>4. QED
      BY <2>1, <2>2, <2>3, RoutesStay
  <1>3. QED
    BY <1>1, <1>2

LEMMA DataAndFaultFrames ==
  ASSUME TypeOK, NEW f \in air, ReceiveData(f) \/ Fault(f)
  PROVE  \A g \in air' : \/ g.pkt \in Data
                         \/ \E h \in air : /\ h.pkt = g.pkt /\ h.from = g.from
                                           /\ g.form = Sent => h.form = Sent
  <1>1. CASE ReceiveData(f)
    <2> DEFINE n == Owner[f.to]
               e == path_table[n][DataDest[f.pkt]]
    <2>1. f.pkt \in Data
      BY <1>1 DEF ReceiveData
    <2>2. \A g \in Transmit(e.via, f.pkt, f.form, (f.hops + 1) % HopModulus) : g.pkt = f.pkt
      BY DEF Transmit
    <2>3. \A g \in air' : g \in air \/ g.pkt \in Data
      BY <1>1, <2>1, <2>2 DEF ReceiveData, DeliverData, ForwardData, DropData
    <2>4. QED
      BY <2>3
  <1>2. CASE Fault(f)
    BY <1>2, FaultFrames
  <1>3. QED
    BY <1>1, <1>2

LEMMA RouteInvariant == Spec => []RouteInv
  <1>1. Init => RouteInv
    <2> SUFFICES ASSUME Init, WalkInv PROVE RouteInv
      BY WalkInit
    <2>1. announced = {} /\ air = {}
      BY DEF Init
    <2>2. OfMade
      BY <2>1 DEF Init, OfMade, IsPath
    <2>3. QED
      BY <2>1, <2>2 DEF RouteInv
  <1>2. RouteInv /\ WalkInv' /\ [Next]_vars => RouteInv'
    <2> SUFFICES ASSUME RouteInv, WalkInv', [Next]_vars
                 PROVE  /\ OfMade'
                        /\ \A d \in Dests, a \in announced' :
                             churn' = 0 /\ Only(d, a)' => (FromRouted(d, a) /\ Exits(d))'
      BY DEF RouteInv
    <2>0. TypeOK /\ TypeOK'
      BY DEF RouteInv, WalkInv
    <2>1. CASE \E a \in Announces : Announce(a)
      BY <2>1, AnnounceRoutes
    <2>2. CASE \E n \in Nodes, p \in Data : SendData(n, p)
      <3>1. PICK n \in Nodes, p \in Data : SendData(n, p)
        BY <2>2
      <3>2. \A g \in Broadcast(n, {}, p, Sent, 0) : g.pkt = p
        BY <2>0, BroadcastPkt DEF TypeOK
      <3>3. \A g \in air' : g \in air \/ g.pkt \in Data
        BY <3>1, <3>2 DEF SendData
      <3>4. QED
        BY <3>1, <3>3, OtherStepsRoute DEF SendData, nodeVars
    <2>3. CASE \E f \in air : ReceiveAnnounce(f)
      BY <2>0, <2>3, ReceiveAnnounceRoutes
    <2>4. CASE \E f \in air : ReceiveData(f) \/ Fault(f)
      <3>1. PICK f \in air : ReceiveData(f) \/ Fault(f)
        BY <2>4
      <3>2. \A g \in air' : \/ g.pkt \in Data
                            \/ \E h \in air : /\ h.pkt = g.pkt /\ h.from = g.from
                                              /\ g.form = Sent => h.form = Sent
        BY <2>0, <3>1, DataAndFaultFrames
      <3>3. QED
        BY <3>1, <3>2, OtherStepsRoute DEF ReceiveData, Fault, nodeVars
    <2>5. CASE \/ \E i \in Ifaces : RegisterInterface(i)
               \/ \E d \in Dests : RegisterDestination(d)
               \/ UNCHANGED vars
      <3>1. /\ UNCHANGED <<announced, churn, path_table, seen_announces, air>>
        BY <2>5 DEF RegisterInterface, RegisterDestination, vars, nodeVars
      <3>2. QED
        BY <3>1, OtherStepsRoute
    <2>6. CASE Churn
      <3>1. churn' # 0 /\ announced' = announced /\ air' = air
        BY <2>0, <2>6 DEF Churn, TypeOK
      <3>2. QED
        BY <3>1 DEF RouteInv, OfMade
    <2>7. QED
      BY <2>1, <2>2, <2>3, <2>4, <2>5, <2>6 DEF Next
  <1>3. QED
    BY <1>1, <1>2, WalkInvariant, PTL DEF Spec

\* RoutesLeadHomeHolds: on every mesh, with any losses and any garbling of hop
\* bytes, the paths made by the only announce of a destination have no loop.
THEOREM RoutesLeadHomeHolds == Spec => []RoutesLeadHome
  <1>1. RouteInv => RoutesLeadHome
    BY DEF RouteInv, RoutesLeadHome, OneAnnounceSeen, Only, Exits
  <1>2. QED
    BY <1>1, RouteInvariant, PTL

----------------------------------------------------------------------------
(* What moves a route *)

MovesRoute(n, d) ==
  \/ path_table'[n][d] = path_table[n][d]
  \/ path_table'[n][d] = NoPath
  \/ \E a \in Announces, x \in Forms \ {Broken} :
       /\ AnnDest[a] = d
       /\ <<a, x>> \in seen_announces'[n]
       /\ <<a, x>> \notin seen_announces[n]

LEMMA ReceiveMovesRoute ==
  ASSUME TypeOK, NEW f \in air, ReceiveAnnounce(f), NEW n \in Nodes, NEW d \in Dests
  PROVE  MovesRoute(n, d)
  <1> DEFINE m == Owner[f.to]
             a == f.pkt
  <1>1. m \in Nodes /\ a \in Announces /\ AnnDest[a] \in Dests
    BY FrameFields DEF ReceiveAnnounce
  <1>2. CASE /\ FirstCopy(m, f) /\ AcceptAnnounce(m, f)
             /\ seen_announces' = [seen_announces EXCEPT ![m] = @ \cup {Hash(f)}]
    <2>1. f.form \in Forms \ {Broken}
      BY <1>2, FrameFields DEF AcceptAnnounce, Valid
    <2>2. <<a, f.form>> \notin seen_announces[m]
      BY <1>2 DEF FirstCopy, Hash
    <2>3. <<a, f.form>> \in seen_announces'[m]
      BY <1>1, <1>2 DEF TypeOK, Hash
    <2>4. CASE n = m /\ d = AnnDest[a]
      BY <1>1, <2>1, <2>2, <2>3, <2>4 DEF MovesRoute
    <2>5. CASE ~(n = m /\ d = AnnDest[a])
      <3>1. path_table' = [path_table EXCEPT
              ![m][AnnDest[a]] = [hops |-> f.hops, via |-> f.to]]
        BY <1>2 DEF AcceptAnnounce
      <3>2. path_table'[n][d] = path_table[n][d]
        BY <1>1, <2>5, <3>1 DEF TypeOK
      <3>3. QED
        BY <3>2 DEF MovesRoute
    <2>6. QED
      BY <2>4, <2>5
  <1>3. CASE UNCHANGED path_table
    BY <1>3 DEF MovesRoute
  <1>4. QED
    BY <1>2, <1>3 DEF ReceiveAnnounce, RejectAnnounce

\* RouteNeedsNewAnnounceHolds: on every mesh, with any number of announces, a
\* path moves only by a valid announce its node had not processed, or is cleared.
THEOREM RouteNeedsNewAnnounceHolds == Spec => RouteNeedsNewAnnounce
  <1>1. TypeOK /\ [Next]_vars =>
          [\A n \in Nodes, d \in Dests : MovesRoute(n, d)]_vars
    <2> SUFFICES ASSUME TypeOK, [Next]_vars, NEW n \in Nodes, NEW d \in Dests
                 PROVE  MovesRoute(n, d)
      OBVIOUS
    <2>1. CASE UNCHANGED path_table
      BY <2>1 DEF MovesRoute
    <2>2. ASSUME NEW f \in air, ReceiveAnnounce(f)
          PROVE  MovesRoute(n, d)
      BY <2>2, ReceiveMovesRoute
    <2>3. CASE Churn
      <3>1. path_table'[n][d] \in {path_table[n][d], NoPath}
        BY <2>3 DEF Churn, DeregisterInterface, DeregisterDestination,
                    ClearPaths, Reset, TypeOK
      <3>2. QED
        BY <3>1 DEF MovesRoute
    <2>4. QED
      BY <2>1, <2>2, <2>3
         DEF Next, vars, nodeVars, history, Announce, SendData, ReceiveData,
             Fault, RegisterInterface, RegisterDestination
  <1>2. QED
    BY <1>1, TypeCorrect, PTL DEF Spec, RouteNeedsNewAnnounce, MovesRoute

=============================================================================
