------------------------------ MODULE Transport ------------------------------
(***************************************************************************)
(* The mesh: every node runs the static class RNS::Transport               *)
(* (src/src/transport.cpp) behind its interfaces.  Announces are flooded   *)
(* and fill the path tables; DATA follows them hop by hop.  This module    *)
(* has the ANNOUNCE and DATA branches of Transport::inbound, the           *)
(* registration calls, broadcast, clear_paths and reset.  The LINKREQUEST  *)
(* and PROOF branches, which are never forwarded, are module Link.         *)
(*                                                                         *)
(* inbound holds the recursive mutex from its first line to its last, so   *)
(* one received frame is one atomic step of its node.                      *)
(***************************************************************************)
EXTENDS Naturals, FiniteSets

CONSTANTS
  Nodes,          \* the devices of the mesh
  Ifaces,         \* every InterfaceImpl of every node
  NoIface,        \* not an interface: the via of an absent path
  Owner,          \* [Ifaces -> Nodes]: the device an interface belongs to
  Hears,          \* [Ifaces -> SUBSET Ifaces]: who receives what it transmits
  Dests,          \* destination hashes
  Home,           \* [Dests -> Nodes]: the node that owns the destination
  Announces,      \* announce packets: one Destination::announce call each
  AnnDest,        \* [Announces -> Dests]
  Data,           \* DATA packets
  DataDest,       \* [Data -> Dests]
  PATHFINDER_M,   \* hop limit of announces (128 in type.h)
  HopModulus,     \* size of the hop counter's type (256: it is a uint8_t)
  Sent,           \* how a frame reads: as its sender wrote it,
  Broken,         \*   with a signature (of DATA, a ciphertext) that fails,
  Recasts,        \*   or changed where only its hash covers it
  MaxFaults,      \* bound: frames lost or garbled
  MaxChurn        \* bound: deregistrations, clear_paths and reset calls

ASSUME TransportAssumption ==
  /\ NoIface \notin Ifaces
  /\ Owner \in [Ifaces -> Nodes]
  /\ Hears \in [Ifaces -> SUBSET Ifaces]
  /\ Home \in [Dests -> Nodes]
  /\ AnnDest \in [Announces -> Dests]
  /\ DataDest \in [Data -> Dests]
  /\ Announces \cap Data = {}
  /\ PATHFINDER_M \in Nat /\ HopModulus \in Nat
  /\ PATHFINDER_M < HopModulus
  /\ Sent # Broken /\ {Sent, Broken} \cap Recasts = {}
  /\ MaxFaults \in Nat /\ MaxChurn \in Nat

VARIABLES
  interfaces,     \* [Nodes -> SUBSET Ifaces]: _interfaces
  destinations,   \* [Nodes -> SUBSET Dests]: _destinations
  path_table,     \* [Nodes -> [Dests -> Entry or NoPath]]: _path_table
  seen_announces, \* [Nodes -> SUBSET packet hashes]: _seen_announces
  known,          \* [Nodes -> SUBSET Dests]: keys of Identity::_known_destinations
  air,            \* frames in flight
  announced,      \* announces already made (their random hash makes them unique)
  sent,           \* DATA packets already sent
  accepted,       \* history: how often a node acted on a hash since its last reset
  delivered,      \* history: DATA packets handed to a destination's callback
  misread,        \* history: packets of which a copy got a false hop byte
  faults, churn   \* how much of the two bounds is used

nodeVars == <<interfaces, destinations, path_table, seen_announces, known>>
history  == <<accepted, delivered, misread>>
vars == <<nodeVars, air, announced, sent, history, faults, churn>>

Entry  == [hops : 0 .. HopModulus - 1, via : Ifaces]
NoPath == [hops |-> 0, via |-> NoIface]
IsPath(e) == e # NoPath

\* The context byte and the destination type are hashed and not signed: a frame
\* recast there still verifies (still decrypts), under another hash.
Forms == {Sent, Broken} \cup Recasts
Valid(f) == f.form # Broken

\* A packet's hash leaves the hop count out (packet.cpp get_hashable_part), so
\* it is the packet, and how the rest of the frame reads.
Hash(f) == <<f.pkt, f.form>>
Hashes == Announces \X Forms
Genuine(a) == <<a, Sent>>

Frames == [pkt : Announces \cup Data, form : Forms, hops : 0 .. HopModulus - 1,
           from : Ifaces, to : Ifaces]

DestOf(pkt) == IF pkt \in Announces THEN AnnDest[pkt] ELSE DataDest[pkt]

----------------------------------------------------------------------------
(* Sending *)

\* InterfaceImpl::send_outgoing: what a transmission on i puts in flight.
Transmit(i, pkt, form, hops) ==
  [pkt : {pkt}, form : {form}, hops : {hops}, from : {i}, to : Hears[i]]

\* Transport::broadcast on node n, skipping the interfaces of skip.
Broadcast(n, skip, pkt, form, hops) ==
  UNION {Transmit(i, pkt, form, hops) : i \in interfaces[n] \ skip}

\* Destination::announce: a fresh announce leaves its home with hop count 0.
\* The home does not put it into its own _seen_announces.
Announce(a) ==
  /\ a \notin announced
  /\ announced' = announced \cup {a}
  /\ air' = air \cup Broadcast(Home[AnnDest[a]], {}, a, Sent, 0)
  /\ UNCHANGED <<nodeVars, sent, history, faults, churn>>

\* Packet::send to a destination whose identity the node can recall.
SendData(n, p) ==
  /\ p \notin sent
  /\ DataDest[p] \in known[n]
  /\ sent' = sent \cup {p}
  /\ air' = air \cup Broadcast(n, {}, p, Sent, 0)
  /\ UNCHANGED <<nodeVars, announced, history, faults, churn>>

----------------------------------------------------------------------------
(* Transport::inbound, ANNOUNCE: process_announce *)

\* Faulty variants, named <definition>_<fault>, stand before the definition they
\* distort; PROJECT.json pairs each with the property that rejects it.
Rebroadcast_NoIncrement(n, f) ==
  IF f.hops < PATHFINDER_M
  THEN Broadcast(n, {f.to}, f.pkt, f.form, f.hops) ELSE {}

Rebroadcast_OneTooFar(n, f) ==
  IF f.hops <= PATHFINDER_M
  THEN Broadcast(n, {f.to}, f.pkt, f.form, f.hops + 1) ELSE {}

Rebroadcast_SkipInverted(n, f) ==
  IF f.hops < PATHFINDER_M
  THEN Transmit(f.to, f.pkt, f.form, f.hops + 1) ELSE {}

\* The copies node n sends on: every interface but the arrival one, hop count
\* one more, unless the limit is reached.
Rebroadcast(n, f) ==
  IF f.hops < PATHFINDER_M
  THEN Broadcast(n, {f.to}, f.pkt, f.form, f.hops + 1)
  ELSE {}

AcceptAnnounce_Unverified(n, f) ==
  /\ LET d == AnnDest[f.pkt] IN
       /\ known' = [known EXCEPT ![n] = @ \cup {d}]
       /\ path_table' = [path_table EXCEPT ![n][d] = [hops |-> f.hops, via |-> f.to]]
  /\ accepted' = [accepted EXCEPT ![n][Hash(f)] = @ + 1]
  /\ air' = (air \ {f}) \cup Rebroadcast(n, f)

\* A first copy with a valid signature: remember the identity, replace the
\* path whatever it was, call on_announce, rebroadcast.
AcceptAnnounce(n, f) ==
  /\ Valid(f)
  /\ LET d == AnnDest[f.pkt] IN
       /\ known' = [known EXCEPT ![n] = @ \cup {d}]
       /\ path_table' = [path_table EXCEPT ![n][d] = [hops |-> f.hops, via |-> f.to]]
  /\ accepted' = [accepted EXCEPT ![n][Hash(f)] = @ + 1]
  /\ air' = (air \ {f}) \cup Rebroadcast(n, f)

\* A copy whose signature or destination hash does not check.
RejectAnnounce(n, f) ==
  /\ ~Valid(f)
  /\ air' = air \ {f}
  /\ UNCHANGED <<known, path_table, accepted>>

FirstCopy_NotChecked(n, f) == n \in Nodes

\* The hash goes into _seen_announces before the content is looked at.
FirstCopy(n, f) == Hash(f) \notin seen_announces[n]

ReceiveAnnounce(f) ==
  LET n == Owner[f.to] IN
  /\ f \in air /\ f.pkt \in Announces
  /\ \/ /\ FirstCopy(n, f)
        /\ seen_announces' = [seen_announces EXCEPT ![n] = @ \cup {Hash(f)}]
        /\ AcceptAnnounce(n, f) \/ RejectAnnounce(n, f)
     \/ /\ ~FirstCopy(n, f)
        /\ air' = air \ {f}
        /\ UNCHANGED <<seen_announces, known, path_table, accepted>>
  /\ UNCHANGED <<interfaces, destinations, announced, sent, delivered, misread,
                 faults, churn>>

----------------------------------------------------------------------------
(* Transport::inbound, DATA *)

\* Local destination: decrypt returns nothing for a garbled packet.
DeliverData(n, f) ==
  /\ DataDest[f.pkt] \in destinations[n]
  /\ delivered' = [delivered EXCEPT ![n] = IF Valid(f) THEN @ \cup {f.pkt} ELSE @]
  /\ air' = air \ {f}

ForwardData_AwayFromVia(n, f) ==
  LET e == path_table[n][DataDest[f.pkt]] IN
  /\ DataDest[f.pkt] \notin destinations[n]
  /\ IsPath(e)
  /\ air' = (air \ {f}) \cup Broadcast(n, {e.via}, f.pkt, f.form,
                                       (f.hops + 1) % HopModulus)
  /\ UNCHANGED delivered

\* Otherwise follow the path table; byte 1 of the frame is incremented with
\* no limit, and nothing remembers which packets were forwarded before.
ForwardData(n, f) ==
  LET e == path_table[n][DataDest[f.pkt]] IN
  /\ DataDest[f.pkt] \notin destinations[n]
  /\ IsPath(e)
  /\ air' = (air \ {f})
            \cup Transmit(e.via, f.pkt, f.form, (f.hops + 1) % HopModulus)
  /\ UNCHANGED delivered

DropData(n, f) ==
  /\ DataDest[f.pkt] \notin destinations[n]
  /\ ~IsPath(path_table[n][DataDest[f.pkt]])
  /\ air' = air \ {f}
  /\ UNCHANGED delivered

ReceiveData(f) ==
  LET n == Owner[f.to] IN
  /\ f \in air /\ f.pkt \in Data
  /\ DeliverData(n, f) \/ ForwardData(n, f) \/ DropData(n, f)
  /\ UNCHANGED <<nodeVars, announced, sent, accepted, misread, faults, churn>>

----------------------------------------------------------------------------
(* Registration, and the calls that forget state *)

RegisterInterface(i) ==
  /\ i \notin interfaces[Owner[i]]
  /\ interfaces' = [interfaces EXCEPT ![Owner[i]] = @ \cup {i}]
  /\ UNCHANGED <<destinations, path_table, seen_announces, known, air,
                 announced, sent, history, faults, churn>>

RegisterDestination(d) ==
  /\ d \notin destinations[Home[d]]
  /\ destinations' = [destinations EXCEPT ![Home[d]] = @ \cup {d}]
  /\ UNCHANGED <<interfaces, path_table, seen_announces, known, air,
                 announced, sent, history, faults, churn>>

\* Paths through the interface stay in the table: their entries share it.
DeregisterInterface(i) ==
  /\ i \in interfaces[Owner[i]]
  /\ interfaces' = [interfaces EXCEPT ![Owner[i]] = @ \ {i}]
  /\ UNCHANGED <<destinations, path_table, seen_announces, known, accepted>>

DeregisterDestination(d) ==
  /\ d \in destinations[Home[d]]
  /\ destinations' = [destinations EXCEPT ![Home[d]] = @ \ {d}]
  /\ UNCHANGED <<interfaces, path_table, seen_announces, known, accepted>>

ClearPaths(n) ==
  /\ \E d \in Dests : IsPath(path_table[n][d])
  /\ path_table' = [path_table EXCEPT ![n] = [d \in Dests |-> NoPath]]
  /\ UNCHANGED <<interfaces, destinations, seen_announces, known, accepted>>

\* Identity::_known_destinations is not Transport's and survives a reset.
Reset(n) ==
  /\ interfaces' = [interfaces EXCEPT ![n] = {}]
  /\ destinations' = [destinations EXCEPT ![n] = {}]
  /\ path_table' = [path_table EXCEPT ![n] = [d \in Dests |-> NoPath]]
  /\ seen_announces' = [seen_announces EXCEPT ![n] = {}]
  /\ accepted' = [accepted EXCEPT ![n] = [h \in Hashes |-> 0]]
  /\ UNCHANGED known

Churn ==
  /\ churn < MaxChurn
  /\ churn' = churn + 1
  /\ \/ \E i \in Ifaces : DeregisterInterface(i)
     \/ \E d \in Dests : DeregisterDestination(d)
     \/ \E n \in Nodes : ClearPaths(n) \/ Reset(n)
  /\ UNCHANGED <<air, announced, sent, delivered, misread, faults>>

----------------------------------------------------------------------------
(* The medium.  A frame in flight may arrive at any time; it may be lost   *)
(* (a collision, a full transmit queue) or reach its receiver garbled.     *)

Lose(f) ==
  /\ air' = air \ {f}
  /\ UNCHANGED misread

\* A false hop byte, or content that reads otherwise.  What does not verify any
\* more stays so, and the kind of packet and its destination hash stay.
GarbleHops(f) ==
  /\ \E h \in 0 .. HopModulus - 1 :
       h # f.hops /\ air' = (air \ {f}) \cup {[f EXCEPT !.hops = h]}
  /\ misread' = misread \cup {f.pkt}

GarbleContent(f) ==
  /\ f.form = Sent
  /\ \E x \in {Broken} \cup Recasts : air' = (air \ {f}) \cup {[f EXCEPT !.form = x]}
  /\ UNCHANGED misread

Fault(f) ==
  /\ f \in air
  /\ faults < MaxFaults
  /\ faults' = faults + 1
  /\ Lose(f) \/ GarbleHops(f) \/ GarbleContent(f)
  /\ UNCHANGED <<nodeVars, announced, sent, accepted, delivered, churn>>

----------------------------------------------------------------------------
\* The state app_main leaves behind: each node has registered its interfaces
\* and its destinations, and has heard nothing yet.
Init ==
  /\ interfaces = [n \in Nodes |-> {i \in Ifaces : Owner[i] = n}]
  /\ destinations = [n \in Nodes |-> {d \in Dests : Home[d] = n}]
  /\ path_table = [n \in Nodes |-> [d \in Dests |-> NoPath]]
  /\ seen_announces = [n \in Nodes |-> {}]
  /\ known = [n \in Nodes |-> {}]
  /\ air = {} /\ announced = {} /\ sent = {}
  /\ accepted = [n \in Nodes |-> [h \in Hashes |-> 0]]
  /\ delivered = [n \in Nodes |-> {}]
  /\ misread = {}
  /\ faults = 0 /\ churn = 0

Next ==
  \/ \E a \in Announces : Announce(a)
  \/ \E n \in Nodes, p \in Data : SendData(n, p)
  \/ \E f \in air : ReceiveAnnounce(f) \/ ReceiveData(f) \/ Fault(f)
  \/ \E i \in Ifaces : RegisterInterface(i)
  \/ \E d \in Dests : RegisterDestination(d)
  \/ Churn

Spec == Init /\ [][Next]_vars

Disturbed == faults > 0 \/ churn > 0

\* What the medium owes each link of an undisturbed mesh: while frames are in
\* flight on it, it keeps delivering, in any order.  Once disturbed it owes
\* nothing, and nothing ever forces an application to announce or to send.
Receive(i, j) ==
  /\ ~Disturbed
  /\ \E f \in air : f.from = i /\ f.to = j /\ (ReceiveAnnounce(f) \/ ReceiveData(f))

Fairness == \A i \in Ifaces : \A j \in Hears[i] : WF_vars(Receive(i, j))

FairSpec == Spec /\ Fairness

----------------------------------------------------------------------------
(* Properties *)

\* TypeOK: every variable has its type; path entries are absent or whole.
TypeOK ==
  /\ interfaces \in [Nodes -> SUBSET Ifaces]
  /\ destinations \in [Nodes -> SUBSET Dests]
  /\ path_table \in [Nodes -> [Dests -> Entry \cup {NoPath}]]
  /\ seen_announces \in [Nodes -> SUBSET Hashes]
  /\ known \in [Nodes -> SUBSET Dests]
  /\ air \in SUBSET Frames
  /\ announced \in SUBSET Announces /\ sent \in SUBSET Data
  /\ accepted \in [Nodes -> [Hashes -> Nat]]
  /\ delivered \in [Nodes -> SUBSET Data]
  /\ misread \in SUBSET (Announces \cup Data)
  /\ faults \in 0 .. MaxFaults /\ churn \in 0 .. MaxChurn

\* ActedOnOnce: between two resets a node acts on an announce (path, on_announce,
\* rebroadcast) at most once, however many copies reach it and with whatever hop
\* bytes: what _seen_announces is for, and what ends the flood.  An announce
\* garbled outside its signature has a hash of its own and counts by itself.
ActedOnOnce == \A n \in Nodes, h \in Hashes : accepted[n][h] <= 1

\* A chain of h relays that ends in a transmission on interface i: it starts at
\* d's home, and no relay sends on the interface it received on.
Walk(d, h, i) ==
  \E w \in [0 .. h -> Ifaces] :
    /\ Owner[w[0]] = Home[d] /\ w[h] = i
    /\ \A k \in 0 .. h - 1 :
         \E j \in Hears[w[k]] : Owner[j] = Owner[w[k + 1]] /\ j # w[k + 1]

\* No copy of an announce of d was given a false hop byte.
HopsRead(d) == \A a \in Announces : AnnDest[a] = d => a \notin misread

\* PathIsAWalk: a path entry's hop count is within PATHFINDER_M and the length of
\* a chain of relays that exists, from the destination's home to a neighbour
\* heard on the entry's interface: hops_to never understates the distance,
\* whatever was lost, reordered, cleared, reset, or garbled in its content.  Only
\* a garbled hop byte, which nothing protects, can make the count false.
PathIsAWalk ==
  \A n \in Nodes, d \in Dests :
    LET e == path_table[n][d] IN
    IsPath(e) => /\ Owner[e.via] = n
                 /\ HopsRead(d) =>
                      /\ e.hops <= PATHFINDER_M
                      /\ \E i \in Ifaces : e.via \in Hears[i] /\ Walk(d, e.hops, i)

\* AnnounceHopLimit: the medium aside, an announce goes on the air with hop
\* count 0, or with one more than a copy that its sender received, and never with
\* more than PATHFINDER_M, whatever hop byte was received: the uint8_t never
\* wraps on an announce.
AnnounceHopLimit ==
  [][\A g \in air' \ air : g.pkt \in Announces /\ faults' = faults =>
       /\ g.hops <= PATHFINDER_M
       /\ \/ g.hops = 0
          \/ \E f \in air : /\ f.pkt = g.pkt /\ g.hops = f.hops + 1
                             /\ Owner[f.to] = Owner[g.from]]_vars

\* RouteNeedsNewAnnounce: a path changes only when its node processes an announce
\* of that destination whose signature holds and whose hash it had not processed
\* before, or when the table is cleared: further copies, whatever their hop
\* bytes, and announces garbled under their signature never move a route.
RouteNeedsNewAnnounce ==
  [][\A n \in Nodes, d \in Dests :
       \/ path_table'[n][d] = path_table[n][d]
       \/ path_table'[n][d] = NoPath
       \/ \E a \in Announces, x \in Forms \ {Broken} :
            /\ AnnDest[a] = d
            /\ <<a, x>> \in seen_announces'[n]
            /\ <<a, x>> \notin seen_announces[n]]_vars

\* The nodes that d's home is not, and that have a path to d.
Routed(d) == {n \in Nodes \ {Home[d]} : IsPath(path_table[n][d])}

\* Some announce of d, and only one, was made, and no node has seen a recast of it.
OneAnnounceSeen(d) ==
  \E a \in announced :
    /\ \A b \in announced : AnnDest[b] = d <=> b = a
    /\ \A n \in Nodes, x \in Recasts : <<a, x>> \notin seen_announces[n]

\* RoutesLeadHome: while one announce of a destination has been made, no node saw
\* it recast, and nothing was deregistered, cleared or reset, routes are free of
\* loops: from any set of nodes with a path, via_interface of one of them leads
\* out of the set, to the home or to another node with a path.  Hop bytes may be
\* garbled.  (A second announce or a recast one breaks this: see the README.)
RoutesLeadHome ==
  \A d \in Dests : churn = 0 /\ OneAnnounceSeen(d) =>
    \A S \in SUBSET Routed(d) : S # {} =>
      \E n \in S, i \in Ifaces :
        /\ path_table[n][d].via \in Hears[i]
        /\ Owner[i] \in {Home[d]} \cup (Routed(d) \ S)

\* FloodReachesAll: on a connected mesh of at most PATHFINDER_M nodes that loses
\* nothing, every node processes every announce (rebroadcast is never skipped).
FloodReachesAll ==
  \A a \in Announces : a \in announced ~>
    \/ \A n \in Nodes \ {Home[AnnDest[a]]} : Genuine(a) \in seen_announces[n]
    \/ Disturbed

\* DataFollowsRoute: once every other node has a path to the destination, a
\* DATA packet in flight reaches its destination's callback.
DataFollowsRoute ==
  \A p \in Data :
    (/\ \E f \in air : f.pkt = p
     /\ \A n \in Nodes \ {Home[DataDest[p]]} : IsPath(path_table[n][DataDest[p]]))
    ~> (p \in delivered[Home[DataDest[p]]] \/ Disturbed)

=============================================================================
