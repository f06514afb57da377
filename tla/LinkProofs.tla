------------------------------ MODULE LinkProofs ------------------------------
(***************************************************************************)
(* Proofs about Link, for any number of links, MTUs, faults and reboots.   *)
(* The argument for ActiveAsSigned: a proof in flight whose signature      *)
(* verifies carries what the responder signed; a link that waits for its   *)
(* proof still has the MTU it advertised; no frame bears the id of a link  *)
(* that is still to be asked for.  For KeysAgree, which needs a single     *)
(* interface: the one LINKREQUEST of a link is used up by the one session  *)
(* the responder signs for it.                                             *)
(***************************************************************************)
EXTENDS Link, TLAPS

Frame == Request \cup Proof \cup DataFrame

LEMMA OnWireType == \A m \in Mtus : OnWire(m) \in 0 .. MtuModulus - 1
  BY LinkAssumption DEF OnWire

LEMMA NoLinkType == NoLink \in LinkObj
  BY LinkAssumption DEF NoLink, LinkObj, Status

\* Other MTU bytes leave the rest of a frame as it was.
LEMMA OtherMtuFrame ==
  ASSUME NEW f \in Request \cup Proof, NEW g \in OtherMtu(f)
  PROVE  /\ f \in Request => g \in Request
         /\ f \in Proof => g \in Proof /\ g.resp = f.resp
         /\ g.type = f.type /\ g.link = f.link
<1>1. CASE g = [f EXCEPT !.hasMtu = FALSE, !.mtu = 0]
  <2>1. 0 \in 0 .. MtuModulus - 1
    BY LinkAssumption
  <2> QED
    BY <1>1, <2>1 DEF Request, Proof
<1>2. ASSUME NEW m \in Mtus, g = [f EXCEPT !.hasMtu = TRUE, !.mtu = OnWire(m)]
      PROVE  /\ f \in Request => g \in Request
             /\ f \in Proof => g \in Proof /\ g.resp = f.resp
             /\ g.type = f.type /\ g.link = f.link
  <2>1. OnWire(m) \in 0 .. MtuModulus - 1
    BY OnWireType
  <2> QED
    BY <1>2, <2>1 DEF Request, Proof
<1> QED
  BY <1>1, <1>2, Zenon DEF OtherMtu

\* What a garbled frame still has of the frame it was.
LEMMA GarbledFrame ==
  ASSUME NEW f \in Frame, NEW g \in Garbled(f)
  PROVE  /\ g \in Frame /\ g.type = f.type
         /\ f.type = "LINKREQUEST" => g.link = f.link \/ g.link \notin Requests
         /\ f.type = "LRPROOF" =>
              /\ g.link = f.link
              /\ g.ok => f.ok /\ g.resp = f.resp /\ g.hasMtu = f.hasMtu /\ g.mtu = f.mtu
<1>1. CASE f.type = "LINKREQUEST"
  <2>1. f \in Request
    BY <1>1 DEF Frame, Proof, DataFrame
  <2>2. CASE g = [f EXCEPT !.whole = FALSE]
    BY <1>1, <2>1, <2>2 DEF Frame, Request
  <2>3. ASSUME NEW l \in LinkIds \ Requests, g = [f EXCEPT !.link = l]
        PROVE  g \in Request /\ g.type = f.type /\ g.link \notin Requests
    BY <2>1, <2>3 DEF Request
  <2>4. CASE g \in OtherMtu(f)
    BY <1>1, <2>1, <2>4, OtherMtuFrame DEF Frame
  <2>5. \/ g = [f EXCEPT !.whole = FALSE] \/ g \in OtherMtu(f)
        \/ \E l \in LinkIds \ Requests : g = [f EXCEPT !.link = l]
    BY <1>1, Zenon DEF Garbled
  <2> QED
    BY <1>1, <2>2, <2>3, <2>4, <2>5 DEF Frame
<1>2. CASE f.type = "LRPROOF"
  <2>1. f \in Proof
    BY <1>2 DEF Frame, Request, DataFrame
  <2>2. CASE g = [f EXCEPT !.whole = FALSE] \/ g = [f EXCEPT !.ok = FALSE]
    BY <1>2, <2>1, <2>2 DEF Frame, Proof
  <2>3. ASSUME NEW h \in OtherMtu(f), g = [h EXCEPT !.ok = FALSE]
        PROVE  g \in Proof /\ g.type = f.type /\ g.link = f.link /\ ~g.ok
    <3>1. h \in Proof /\ h.type = f.type /\ h.link = f.link
      BY <2>1, OtherMtuFrame
    <3> QED
      BY <2>3, <3>1 DEF Proof
  <2>4. \/ g = [f EXCEPT !.whole = FALSE] \/ g = [f EXCEPT !.ok = FALSE]
        \/ \E h \in OtherMtu(f) : g = [h EXCEPT !.ok = FALSE]
    <3>1. f.type # "LINKREQUEST"
      BY <1>2
    <3> QED
      BY <1>2, <3>1, Zenon DEF Garbled
  <2> QED
    BY <1>2, <2>2, <2>3, <2>4 DEF Frame
<1>3. CASE f.type \notin {"LINKREQUEST", "LRPROOF"}
  <2>1. f \in DataFrame
    BY <1>3 DEF Frame, Request, Proof
  <2>2. g = [f EXCEPT !.ok = FALSE]
    BY <1>3, Zenon DEF Garbled
  <2> QED
    BY <1>3, <2>1, <2>2 DEF Frame, DataFrame
<1> QED
  BY <1>1, <1>2, <1>3

(* Types *)

\* An ACTIVE link knows the responder's key.
KeyKnown ==
  \A l \in LinkIds : /\ ilinks[l].status = "ACTIVE" => ilinks[l].resp # 0
                     /\ rlinks[l].status = "ACTIVE" => rlinks[l].resp # 0

TypeInv == TypeOK /\ KeyKnown

LEMMA EncryptedType ==
  ASSUME TypeInv, NEW n \in Ends, NEW l \in LinkIds, NEW p \in Payloads,
         NEW ctx \in {"NONE", "REQUEST", "RESPONSE"},
         LinksOf(Peer(n))[l].status = "ACTIVE"
  PROVE  Encrypted(n, l, p, ctx) \subseteq DataFrame
<1>1. LinksOf(Peer(n))[l].resp \in 1 .. MaxResp
  BY LinkAssumption DEF LinksOf, Peer, Ends, TypeInv, KeyKnown, TypeOK, LinkObj
<1> QED
  BY <1>1 DEF Encrypted, DataFrame

LEMMA LoseRamType ==
  ASSUME TypeInv, NEW n \in Ends, LoseRam(n)
  PROVE  /\ ilinks' \in [LinkIds -> LinkObj] /\ rlinks' \in [LinkIds -> LinkObj]
         /\ handler' \in {"app_main", "nomadnet"}
         /\ KeyKnown'
<1>1. NoLink.status # "ACTIVE"
  BY DEF NoLink
<1> QED
  BY <1>1, NoLinkType DEF LoseRam, TypeInv, TypeOK, KeyKnown

LEMMA RequestLinkType ==
  ASSUME TypeInv, NEW l \in Requests, NEW m \in Mtus, NEW cb \in BOOLEAN,
         RequestLink(l, m, cb)
  PROVE  TypeInv'
<1> DEFINE obj == [status |-> "HANDSHAKE", resp |-> 0, local |-> m,
                   mtu |-> Advertised(m), cb |-> cb]
           new == [type : {"LINKREQUEST"}, chan : 1 .. Shared, link : {l},
                   hasMtu : {m # 0}, mtu : {OnWire(m)}, whole : {TRUE}]
<1>1. /\ ilinks' = [ilinks EXCEPT ![l] = obj] /\ net' = net \cup new
      /\ requested' = requested \cup {l}
      /\ UNCHANGED <<rlinks, handler, resps, sentby, got, signed, aborts, faults, reboots>>
  BY DEF RequestLink
<1>2. obj \in LinkObj /\ obj.status = "HANDSHAKE" /\ l \in LinkIds
  BY LinkAssumption DEF LinkObj, Status, Advertised
<1>3. new \subseteq Request
  <2>1. OnWire(m) \in 0 .. MtuModulus - 1
    BY OnWireType
  <2> QED
    BY <1>2, <2>1 DEF Request
<1> HIDE DEF obj, new
<1>4. ilinks' \in [LinkIds -> LinkObj]
  BY <1>1, <1>2 DEF TypeInv, TypeOK
<1>5. KeyKnown'
  BY <1>1, <1>2 DEF TypeInv, TypeOK, KeyKnown
<1> QED
  BY <1>1, <1>2, <1>3, <1>4, <1>5 DEF TypeInv, TypeOK

LEMMA ReceiveProofType ==
  ASSUME TypeInv, NEW f \in net, ReceiveProof(f)
  PROVE  TypeInv'
<1> DEFINE obj == [status |-> ProofStatus(f), resp |-> f.resp,
                   local |-> ilinks[f.link].local, cb |-> ilinks[f.link].cb,
                   mtu |-> IF f.hasMtu THEN f.mtu ELSE ilinks[f.link].mtu]
<1>1. f \in Proof
  BY DEF TypeInv, TypeOK, ReceiveProof, Request, DataFrame
<1>2. /\ ilinks' = ilinks \/ ilinks' = [ilinks EXCEPT ![f.link] = obj]
      /\ net' \subseteq net
      /\ UNCHANGED <<rlinks, handler, resps, requested, sentby, got, signed, aborts,
                     faults, reboots>>
  BY Zenon DEF ReceiveProof
<1>3. obj \in LinkObj /\ obj.resp # 0 /\ f.link \in LinkIds
  BY <1>1, LinkAssumption DEF Proof, LinkObj, Status, ProofStatus, TypeInv, TypeOK
<1> HIDE DEF obj
<1>4. ilinks' \in [LinkIds -> LinkObj]
  BY <1>2, <1>3 DEF TypeInv, TypeOK
<1>5. KeyKnown'
  BY <1>2, <1>3 DEF TypeInv, TypeOK, KeyKnown
<1> QED
  BY <1>2, <1>4, <1>5 DEF TypeInv, TypeOK

LEMMA ReceiveRequestType ==
  ASSUME TypeInv, NEW f \in net, ReceiveRequest(f)
  PROVE  TypeInv'
<1> DEFINE obj == [status |-> "ACTIVE", resp |-> resps + 1, local |-> 0,
                   mtu |-> ResponderMtu(f), cb |-> handler = "app_main"]
           proof == [type : {"LRPROOF"}, chan : 1 .. Shared, link : {f.link},
                     resp : {ProofKey(f)}, hasMtu : {f.hasMtu}, mtu : {f.mtu},
                     whole : {TRUE}, ok : {TRUE}]
<1>1. f \in Request
  BY DEF TypeInv, TypeOK, ReceiveRequest, Proof, DataFrame
<1>2. CASE f.whole
  <2>1. /\ resps < MaxResp /\ resps' = resps + 1
        /\ rlinks' = [rlinks EXCEPT ![f.link] = obj]
        /\ signed' = signed \cup {<<f.link, resps + 1, Signalling(f)>>}
        /\ net' = (net \ {f}) \cup proof
        /\ UNCHANGED <<ilinks, handler, requested, sentby, got, aborts, faults, reboots>>
    BY <1>2 DEF ReceiveRequest
  <2>2. /\ f.link \in LinkIds /\ ResponderMtu(f) \in Nat /\ resps + 1 \in 1 .. MaxResp
        /\ Signalling(f) \in SUBSET Nat
    BY <1>1, <2>1, LinkAssumption DEF Request, ResponderMtu, Signalling, TypeInv, TypeOK
  <2>3. obj \in LinkObj /\ obj.resp # 0
    BY <2>2 DEF LinkObj, Status
  <2>4. proof \subseteq Proof
    BY <1>1, <1>2, <2>2 DEF Request, Proof, ProofKey
  <2> HIDE DEF obj, proof
  <2>5. rlinks' \in [LinkIds -> LinkObj]
    BY <2>1, <2>2, <2>3 DEF TypeInv, TypeOK
  <2>6. KeyKnown'
    BY <2>1, <2>2, <2>3 DEF TypeInv, TypeOK, KeyKnown
  <2>7. signed' \subseteq LinkIds \X (1 .. MaxResp) \X SUBSET Nat
    BY <2>1, <2>2 DEF TypeInv, TypeOK
  <2>8. resps' \in 0 .. MaxResp
    BY <2>1, <2>2
  <2> QED
    BY <2>1, <2>4, <2>5, <2>6, <2>7, <2>8 DEF TypeInv, TypeOK
<1>3. CASE ~f.whole
  BY <1>3 DEF ReceiveRequest, TypeInv, TypeOK, KeyKnown
<1> QED
  BY <1>2, <1>3

LEMMA ReceiveDataType ==
  ASSUME TypeInv, NEW f \in net, ReceiveData(f)
  PROVE  TypeInv'
<1>1. f \in DataFrame
  BY DEF TypeInv, TypeOK, ReceiveData, Request, Proof
<1>2. /\ f.to \in Ends /\ f.link \in LinkIds /\ f.payload \in Payloads
      /\ f.context \in {"NONE", "REQUEST", "RESPONSE"}
  BY <1>1 DEF DataFrame
<1>3. UNCHANGED <<resps, requested, sentby, signed, faults, reboots>>
  BY DEF ReceiveData
<1>4. CASE LinksOf(f.to)[f.link].status = "ACTIVE" /\ Dispatch(f.to, f)
  <2>1. UNCHANGED <<ilinks, rlinks, handler, aborts>>
    BY <1>4 DEF Dispatch
  <2>2. got' = got \/ got' = got \cup {<<f.to, f.link, f.payload, f.context>>}
    BY <1>4 DEF Dispatch
  <2>3. net' = net \ {f} \/ (f.to = "s" /\ net' = (net \ {f}) \cup Answer(f))
    <3> DEFINE asked == f.to = "s" /\ f.payload \in Served
    <3>1. CASE f.context = "REQUEST"
      <4>1. IF asked
            THEN got' = got \cup {<<f.to, f.link, f.payload, f.context>>}
                 /\ net' = (net \ {f}) \cup Answer(f)
            ELSE net' = net \ {f} /\ UNCHANGED got
        BY <1>4, <3>1 DEF Dispatch
      <4> QED
        BY <4>1
    <3>2. CASE f.context # "REQUEST"
      BY <1>4, <3>2 DEF Dispatch
    <3> QED
      BY <3>1, <3>2
  <2>4. net' \subseteq Frame
    <3>1. CASE f.to = "s"
      <4>1. Answer(f) \subseteq DataFrame
        <5>1. LinksOf(Peer("c"))[f.link].status = "ACTIVE" /\ "c" \in Ends
          BY <1>4, <3>1 DEF Peer, Ends
        <5> QED
          BY <1>2, <5>1, EncryptedType DEF Answer
      <4> QED
        BY <2>3, <4>1 DEF TypeInv, TypeOK, Frame
    <3>2. CASE f.to # "s"
      BY <2>3, <3>2 DEF TypeInv, TypeOK, Frame
    <3> QED
      BY <3>1, <3>2
  <2> QED
    BY <1>2, <1>3, <2>1, <2>2, <2>4 DEF TypeInv, TypeOK, KeyKnown, Frame
<1>5. CASE Abort(f.to, f)
  <2>1. /\ net' \subseteq net /\ aborts' = aborts + 1 /\ LoseRam(f.to) /\ got' = got
    BY <1>5 DEF Abort
  <2> QED
    BY <1>2, <1>3, <2>1, LoseRamType DEF TypeInv, TypeOK
<1>6. CASE net' = net \ {f} /\ UNCHANGED <<ilinks, rlinks, handler, got, aborts>>
  BY <1>3, <1>6 DEF TypeInv, TypeOK, KeyKnown
<1> QED
  BY <1>4, <1>5, <1>6 DEF ReceiveData

LEMMA TypeStep ==
  ASSUME TypeInv, [Next]_vars
  PROVE  TypeInv'
<1>1. CASE UNCHANGED vars
  BY <1>1 DEF vars, TypeInv, TypeOK, KeyKnown
<1>2. CASE StartNomadnet
  BY <1>2 DEF StartNomadnet, TypeInv, TypeOK, KeyKnown
<1>3. ASSUME NEW n \in Ends, NEW l \in LinkIds, NEW p \in Payloads, Send(n, l, p)
      PROVE  TypeInv'
  <2>1. Encrypted(Peer(n), l, p, Context[p]) \subseteq DataFrame
    <3>1. Context[p] \in {"NONE", "REQUEST", "RESPONSE"}
      BY LinkAssumption
    <3>2. Peer(n) \in Ends /\ Peer(Peer(n)) = n
      BY DEF Peer, Ends
    <3>3. LinksOf(Peer(Peer(n)))[l].status = "ACTIVE"
      BY <1>3, <3>2 DEF Send
    <3> QED
      BY <3>1, <3>2, <3>3, EncryptedType
  <2>2. /\ sentby' = sentby \cup {<<n, l, p>>}
        /\ net' = net \cup Encrypted(Peer(n), l, p, Context[p])
        /\ UNCHANGED <<ilinks, rlinks, handler, resps, requested, got, signed,
                       aborts, faults, reboots>>
    BY <1>3 DEF Send
  <2> QED
    BY <2>1, <2>2 DEF TypeInv, TypeOK, KeyKnown
<1>4. CASE Fault
  <2>1. /\ faults < MaxFaults /\ faults' = faults + 1
        /\ UNCHANGED <<ilinks, rlinks, handler, resps, requested, sentby, got, signed,
                       aborts, reboots>>
    BY <1>4 DEF Fault
  <2>2. PICK f \in net :
          net' = net \ {f} \/ \E g \in Garbled(f) \ {f} : net' = (net \ {f}) \cup {g}
    BY <1>4, Zenon DEF Fault
  <2>3. f \in Frame
    BY DEF TypeInv, TypeOK, Frame
  <2>4. net' \subseteq Frame
    BY <2>2, <2>3, GarbledFrame DEF TypeInv, TypeOK, Frame
  <2> QED
    BY <2>1, <2>4, LinkAssumption DEF TypeInv, TypeOK, KeyKnown, Frame
<1>5. ASSUME NEW n \in Ends, Reboot(n)
      PROVE  TypeInv'
  <2>1. /\ reboots < MaxReboots /\ reboots' = reboots + 1 /\ LoseRam(n)
        /\ UNCHANGED <<resps, net, requested, sentby, got, signed, aborts, faults>>
    BY <1>5 DEF Reboot
  <2> QED
    BY <2>1, LoseRamType, LinkAssumption DEF TypeInv, TypeOK
<1> QED
  BY <1>1, <1>2, <1>3, <1>4, <1>5, RequestLinkType, ReceiveProofType,
     ReceiveRequestType, ReceiveDataType DEF Next, Receive

LEMMA TypeStart == Init => TypeInv
  BY NoLinkType, LinkAssumption DEF Init, TypeInv, TypeOK, KeyKnown, NoLink

\* TypeCorrect: whatever is sent, lost or garbled and whoever reboots, every
\* link object, frame and history entry has its type (link.cpp).
THEOREM TypeCorrect == Spec => []TypeOK
<1>1. TypeInv => TypeOK
  BY DEF TypeInv
<1> QED
  BY TypeStart, TypeStep, <1>1, PTL DEF Spec

----------------------------------------------------------------------------
(* ActiveAsSigned *)

\* A link id is on the wire, or in _links, only once the link was asked for.
AskedFor ==
  /\ \A f \in net : f.type \in {"LINKREQUEST", "LRPROOF"} /\ f.link \in Requests =>
       f.link \in requested
  /\ \A l \in LinkIds : ilinks[l].status # "NONE" => l \in requested

\* Until its proof arrives a link has the MTU it advertised.
OwnMtu ==
  \A l \in LinkIds : ilinks[l].status = "HANDSHAKE" =>
    ilinks[l].mtu = Advertised(ilinks[l].local)

\* A signature that verifies is one the responder made.
ProofsAreSigned ==
  \A f \in net : f.type = "LRPROOF" /\ f.ok => <<f.link, f.resp, Signalling(f)>> \in signed

SignedInv == TypeInv /\ AskedFor /\ OwnMtu /\ ProofsAreSigned /\ ActiveAsSigned

\* A step that adds no frame of the handshake, keeps what was signed and asked
\* for, and leaves the initiator its links or none of them.
LEMMA NoHandshakeFrame ==
  ASSUME SignedInv, \A f \in net' \ net : f.type = "DATA",
         ilinks' = ilinks \/ ilinks' = [l \in LinkIds |-> NoLink],
         UNCHANGED <<signed, requested>>
  PROVE  AskedFor' /\ OwnMtu' /\ ProofsAreSigned' /\ ActiveAsSigned'
<1>1. \A f \in net' : f.type \in {"LINKREQUEST", "LRPROOF"} => f \in net
  OBVIOUS
<1>2. NoLink.status = "NONE"
  BY DEF NoLink
<1>4. AskedFor'
  BY <1>1, <1>2 DEF SignedInv, AskedFor
<1>5. OwnMtu'
  BY <1>2 DEF SignedInv, OwnMtu
<1>6. ProofsAreSigned'
  BY <1>1 DEF SignedInv, ProofsAreSigned
<1>7. ActiveAsSigned'
  BY <1>2 DEF SignedInv, ActiveAsSigned, SignedAs
<1> QED
  BY <1>4, <1>5, <1>6, <1>7

LEMMA SignedStep ==
  ASSUME SignedInv, [Next]_vars
  PROVE  SignedInv'
<1> SUFFICES AskedFor' /\ OwnMtu' /\ ProofsAreSigned' /\ ActiveAsSigned'
  BY TypeStep DEF SignedInv
<1>1. ASSUME NEW l \in Requests, NEW m \in Mtus, NEW cb \in BOOLEAN, RequestLink(l, m, cb)
      PROVE  AskedFor' /\ OwnMtu' /\ ProofsAreSigned' /\ ActiveAsSigned'
  <2> DEFINE obj == [status |-> "HANDSHAKE", resp |-> 0, local |-> m,
                     mtu |-> Advertised(m), cb |-> cb]
             new == [type : {"LINKREQUEST"}, chan : 1 .. Shared, link : {l},
                     hasMtu : {m # 0}, mtu : {OnWire(m)}, whole : {TRUE}]
  <2>1. /\ ilinks' = [ilinks EXCEPT ![l] = obj] /\ net' = net \cup new
        /\ requested' = requested \cup {l} /\ l \notin requested
        /\ UNCHANGED <<signed>>
    BY <1>1 DEF RequestLink
  <2>2. \A f \in new : f.type = "LINKREQUEST" /\ f.link = l
    OBVIOUS
  <2>3. obj.status = "HANDSHAKE" /\ obj.mtu = Advertised(obj.local)
    OBVIOUS
  <2> HIDE DEF obj, new
  <2>4. /\ ilinks'[l] = obj
        /\ \A k \in LinkIds : k # l => ilinks'[k] = ilinks[k]
    BY <2>1, LinkAssumption DEF SignedInv, TypeInv, TypeOK
  <2>5. AskedFor'
    BY <2>1, <2>2, <2>4 DEF SignedInv, AskedFor
  <2>6. OwnMtu'
    BY <2>3, <2>4 DEF SignedInv, OwnMtu
  <2>7. ProofsAreSigned'
    BY <2>1, <2>2 DEF SignedInv, ProofsAreSigned
  <2>8. ActiveAsSigned'
    BY <2>1, <2>3, <2>4 DEF SignedInv, ActiveAsSigned, SignedAs
  <2> QED
    BY <2>5, <2>6, <2>7, <2>8
<1>2. ASSUME NEW f \in net, ReceiveProof(f)
      PROVE  AskedFor' /\ OwnMtu' /\ ProofsAreSigned' /\ ActiveAsSigned'
  <2>1. /\ f.type = "LRPROOF" /\ net' = net \ {f} /\ UNCHANGED <<signed, requested>>
    BY <1>2 DEF ReceiveProof
  <2>2. f.link \in LinkIds
    BY <2>1 DEF SignedInv, TypeInv, TypeOK, Request, DataFrame, Proof
  <2>3. CASE UNCHANGED ilinks
    BY <2>1, <2>3 DEF SignedInv, AskedFor, OwnMtu, ProofsAreSigned, ActiveAsSigned, SignedAs
  <2>4. CASE ~UNCHANGED ilinks
    <3> DEFINE obj == [status |-> ProofStatus(f), resp |-> f.resp,
                       local |-> ilinks[f.link].local, cb |-> ilinks[f.link].cb,
                       mtu |-> IF f.hasMtu THEN f.mtu ELSE ilinks[f.link].mtu]
    <3>1. AwaitsProof(f.link) /\ ilinks' = [ilinks EXCEPT ![f.link] = obj]
      BY <1>2, <2>4, Zenon DEF ReceiveProof
    <3>2. ilinks[f.link].status = "HANDSHAKE" /\ f.link \in Requests
      BY <2>2, <3>1 DEF AwaitsProof, SignedInv, TypeInv, TypeOK, AskedFor
    <3>3. ilinks[f.link].mtu = Advertised(ilinks[f.link].local)
      BY <2>2, <3>2 DEF SignedInv, OwnMtu
    <3>4. obj.status = "ACTIVE" => SignedAs(f.link, obj)
      <4>1. obj.status = "ACTIVE" => <<f.link, f.resp, Signalling(f)>> \in signed
        BY <2>1 DEF ProofStatus, SignedInv, ProofsAreSigned
      <4>2. /\ f.hasMtu => obj.mtu = f.mtu
            /\ ~f.hasMtu => obj.mtu = Advertised(obj.local)
            /\ obj.resp = f.resp
        BY <3>3
      <4>3. Signalling(f) = {obj.mtu} \/ (Signalling(f) = {} /\ obj.mtu = Advertised(obj.local))
        BY <4>2 DEF Signalling
      <4> HIDE DEF obj
      <4> QED
        BY <4>1, <4>2, <4>3 DEF SignedAs
    <3>5. obj.status # "HANDSHAKE"
      BY DEF ProofStatus
    <3> HIDE DEF obj
    <3>6. /\ ilinks'[f.link] = obj
          /\ \A k \in LinkIds : k # f.link => ilinks'[k] = ilinks[k]
      BY <2>2, <3>1 DEF SignedInv, TypeInv, TypeOK
    <3>7. AskedFor'
      <4>1. f.link \in requested
        BY <2>1, <3>2 DEF SignedInv, AskedFor
      <4> QED
        BY <2>1, <3>6, <4>1 DEF SignedInv, AskedFor
    <3>8. OwnMtu'
      BY <3>5, <3>6 DEF SignedInv, OwnMtu
    <3>9. ProofsAreSigned' /\ ActiveAsSigned'
      BY <2>1, <3>4, <3>6 DEF SignedInv, ProofsAreSigned, ActiveAsSigned, SignedAs
    <3> QED
      BY <3>7, <3>8, <3>9
  <2> QED
    BY <2>3, <2>4
<1>3. ASSUME NEW f \in net, ReceiveRequest(f)
      PROVE  AskedFor' /\ OwnMtu' /\ ProofsAreSigned' /\ ActiveAsSigned'
  <2>1. f.type = "LINKREQUEST" /\ UNCHANGED <<ilinks, requested>>
    BY <1>3 DEF ReceiveRequest
  <2>2. CASE ~f.whole
    <3>1. net' = net \ {f} /\ UNCHANGED signed
      BY <1>3, <2>2 DEF ReceiveRequest
    <3> QED
      BY <2>1, <3>1 DEF SignedInv, AskedFor, OwnMtu, ProofsAreSigned, ActiveAsSigned, SignedAs
  <2>3. CASE f.whole
    <3> DEFINE proof == [type : {"LRPROOF"}, chan : 1 .. Shared, link : {f.link},
                         resp : {ProofKey(f)}, hasMtu : {f.hasMtu}, mtu : {f.mtu},
                         whole : {TRUE}, ok : {TRUE}]
    <3>1. /\ signed' = signed \cup {<<f.link, resps + 1, Signalling(f)>>}
          /\ net' = (net \ {f}) \cup proof
      BY <1>3, <2>3 DEF ReceiveRequest
    <3>2. \A g \in proof : /\ g.type = "LRPROOF" /\ g.link = f.link /\ g.resp = resps + 1
                           /\ g.hasMtu = f.hasMtu /\ g.mtu = f.mtu
      BY <2>3 DEF ProofKey
    <3> HIDE DEF proof
    <3>3. AskedFor' /\ OwnMtu'
      BY <2>1, <3>1, <3>2 DEF SignedInv, AskedFor, OwnMtu
    <3>4. ProofsAreSigned'
      BY <3>1, <3>2 DEF SignedInv, ProofsAreSigned, Signalling
    <3>5. ActiveAsSigned'
      BY <2>1, <3>1 DEF SignedInv, ActiveAsSigned, SignedAs
    <3> QED
      BY <3>3, <3>4, <3>5
  <2> QED
    BY <2>2, <2>3
<1>4. ASSUME NEW f \in net, ReceiveData(f)
      PROVE  AskedFor' /\ OwnMtu' /\ ProofsAreSigned' /\ ActiveAsSigned'
  <2>1. /\ UNCHANGED <<signed, requested>>
        /\ ilinks' = ilinks \/ ilinks' = [l \in LinkIds |-> NoLink]
    BY <1>4 DEF ReceiveData, Dispatch, Abort, LoseRam
  <2>2. \A g \in net' \ net : g.type = "DATA"
    <3>1. net' \subseteq net \/ net' = (net \ {f}) \cup Answer(f)
      BY <1>4, Zenon DEF ReceiveData, Dispatch, Abort
    <3> QED
      <4>1. \A g \in Answer(f) : g.type = "DATA"
        BY DEF Answer, Encrypted
      <4> QED
        BY <3>1, <4>1
  <2> QED
    BY <2>1, <2>2, NoHandshakeFrame
<1>5. ASSUME NEW n \in Ends, NEW l \in LinkIds, NEW p \in Payloads, Send(n, l, p)
      PROVE  AskedFor' /\ OwnMtu' /\ ProofsAreSigned' /\ ActiveAsSigned'
  <2>1. UNCHANGED <<signed, requested, ilinks>>
    BY <1>5 DEF Send
  <2>2. \A g \in net' \ net : g.type = "DATA"
    BY <1>5 DEF Send, Encrypted
  <2> QED
    BY <2>1, <2>2, NoHandshakeFrame
<1>6. CASE Fault
  <2>1. UNCHANGED <<signed, requested, ilinks>>
    BY <1>6 DEF Fault
  <2>2. PICK f \in net :
          net' = net \ {f} \/ \E g \in Garbled(f) \ {f} : net' = (net \ {f}) \cup {g}
    BY <1>6, Zenon DEF Fault
  <2>3. f \in Frame
    BY DEF SignedInv, TypeInv, TypeOK, Frame
  <2>4. CASE net' = net \ {f}
    BY <2>1, <2>4, NoHandshakeFrame
  <2>5. ASSUME NEW g \in Garbled(f), net' = (net \ {f}) \cup {g}
        PROVE  AskedFor' /\ OwnMtu' /\ ProofsAreSigned' /\ ActiveAsSigned'
    <3>1. /\ g.type = f.type
          /\ f.type = "LINKREQUEST" => g.link = f.link \/ g.link \notin Requests
          /\ f.type = "LRPROOF" =>
               /\ g.link = f.link
               /\ g.ok => f.ok /\ g.resp = f.resp /\ g.hasMtu = f.hasMtu /\ g.mtu = f.mtu
      BY <2>3, GarbledFrame
    <3>2. AskedFor'
      BY <2>1, <2>5, <3>1 DEF SignedInv, AskedFor
    <3>3. OwnMtu'
      BY <2>1, <2>5, <3>1 DEF SignedInv, OwnMtu
    <3>4. ProofsAreSigned' /\ ActiveAsSigned'
      BY <2>1, <2>5, <3>1 DEF SignedInv, ProofsAreSigned, ActiveAsSigned, Signalling, SignedAs
    <3> QED
      BY <3>2, <3>3, <3>4
  <2> QED
    BY <2>2, <2>4, <2>5, Zenon
<1>7. CASE UNCHANGED vars \/ StartNomadnet \/ \E n \in Ends : Reboot(n)
  <2>1. /\ UNCHANGED <<signed, requested, net>>
        /\ ilinks' = ilinks \/ ilinks' = [l \in LinkIds |-> NoLink]
    BY <1>7 DEF vars, StartNomadnet, Reboot, LoseRam
  <2>2. \A g \in net' \ net : g.type = "DATA"
    BY <2>1
  <2> QED
    BY <2>1, <2>2, NoHandshakeFrame
<1> QED
  BY <1>1, <1>2, <1>3, <1>4, <1>5, <1>6, <1>7 DEF Next, Receive

\* ActiveAsSignedHolds: for any number of links, interfaces and faults, an
\* initiator's link becomes ACTIVE only with a key the responder signed and with the
\* MTU signed or, where none was, its own, although on_proof takes key and MTU over
\* before it looks at the signature.
THEOREM ActiveAsSignedHolds == Spec => []ActiveAsSigned
<1>1. Init => SignedInv
  <2>1. ASSUME Init PROVE AskedFor /\ OwnMtu /\ ProofsAreSigned /\ ActiveAsSigned
    BY <2>1 DEF Init, NoLink, AskedFor, OwnMtu, ProofsAreSigned, ActiveAsSigned
  <2> QED
    BY <2>1, TypeStart DEF SignedInv
<1>2. SignedInv => ActiveAsSigned
  BY DEF SignedInv
<1> QED
  BY <1>1, <1>2, SignedStep, PTL DEF Spec

LEMMA FrozenStep ==
  ASSUME SignedInv, [Next]_vars, NEW l \in LinkIds,
         ilinks[l].status \in {"ACTIVE", "CLOSED"}
  PROVE  ilinks'[l] = ilinks[l] \/ ilinks'[l] = NoLink
<1>1. ASSUME NEW k \in Requests, NEW m \in Mtus, NEW cb \in BOOLEAN, RequestLink(k, m, cb)
      PROVE  ilinks'[l] = ilinks[l] \/ ilinks'[l] = NoLink
  <2>1. k # l
    BY <1>1 DEF RequestLink, SignedInv, AskedFor
  <2> QED
    BY <1>1, <2>1 DEF RequestLink, SignedInv, TypeInv, TypeOK
<1>2. ASSUME NEW f \in net, ReceiveProof(f)
      PROVE  ilinks'[l] = ilinks[l] \/ ilinks'[l] = NoLink
  <2>1. CASE f.link = l
    BY <1>2, <2>1 DEF ReceiveProof, AwaitsProof
  <2>2. CASE f.link # l
    BY <1>2, <2>2 DEF ReceiveProof, SignedInv, TypeInv, TypeOK
  <2> QED
    BY <2>1, <2>2
<1>3. CASE UNCHANGED ilinks \/ ilinks' = [k \in LinkIds |-> NoLink]
  BY <1>3
<1>4. ASSUME NEW f \in net, ReceiveRequest(f) \/ ReceiveData(f)
      PROVE  UNCHANGED ilinks \/ ilinks' = [k \in LinkIds |-> NoLink]
  BY <1>4 DEF ReceiveRequest, ReceiveData, Dispatch, Abort, LoseRam
<1>5. ASSUME UNCHANGED vars \/ StartNomadnet \/ Fault
             \/ (\E n \in Ends, k \in LinkIds, p \in Payloads : Send(n, k, p))
             \/ (\E n \in Ends : Reboot(n))
      PROVE  UNCHANGED ilinks \/ ilinks' = [k \in LinkIds |-> NoLink]
  BY <1>5 DEF vars, StartNomadnet, Fault, Send, Reboot, LoseRam
<1> QED
  BY <1>1, <1>2, <1>3, <1>4, <1>5 DEF Next, Receive

\* EstablishedIsFrozenHolds: an established or failed link is never changed by
\* what arrives later; only a reboot of its node ends it (on_proof's guard).
THEOREM EstablishedIsFrozenHolds == Spec => EstablishedIsFrozen
<1>1. Init => SignedInv
  BY TypeStart DEF Init, SignedInv, NoLink, AskedFor, OwnMtu, ProofsAreSigned,
     ActiveAsSigned
<1>2. SignedInv /\ [Next]_vars =>
        [\A l \in LinkIds : ilinks[l].status \in {"ACTIVE", "CLOSED"} =>
           ilinks'[l] = ilinks[l] \/ ilinks'[l] = NoLink]_vars
  BY FrozenStep
<1> QED
  BY <1>1, <1>2, SignedStep, PTL DEF Spec, EstablishedIsFrozen

----------------------------------------------------------------------------
(* KeysAgree *)

IsRequest(f) == f.type = "LINKREQUEST" /\ f.link \in Requests

\* Of a link that was asked for over one interface there is one LINKREQUEST, until
\* the responder opens the one session it signs for it.
OneSession ==
  /\ \A f, g \in net : IsRequest(f) /\ IsRequest(g) /\ f.link = g.link => f = g
  /\ \A f \in net : IsRequest(f) => \A s \in signed : s[1] # f.link
  /\ \A s \in signed : s[1] \in Requests => s[1] \in requested
  /\ \A s, t \in signed : s[1] = t[1] /\ s[1] \in Requests => s[2] = t[2]
  /\ \A l \in LinkIds : rlinks[l].status = "ACTIVE" =>
       \E s \in signed : s[1] = l /\ s[2] = rlinks[l].resp

\* A step that adds no request, signs nothing and leaves the responder its links or
\* none of them.
LEMMA NoRequestAdded ==
  ASSUME OneSession, \A f \in net' : IsRequest(f) => f \in net,
         UNCHANGED <<signed, requested>>,
         rlinks' = rlinks \/ rlinks' = [l \in LinkIds |-> NoLink]
  PROVE  OneSession'
<1>1. NoLink.status = "NONE"
  BY DEF NoLink
<1>2. \A l \in LinkIds : rlinks'[l].status = "ACTIVE" =>
        \E s \in signed : s[1] = l /\ s[2] = rlinks'[l].resp
  BY <1>1 DEF OneSession
<1> QED
  BY <1>2 DEF OneSession

\* Over one interface a request is sent once.
LEMMA OneCopy ==
  ASSUME Shared = 1, NEW l, NEW b, NEW w, NEW t,
         NEW f \in [type : {"LINKREQUEST"}, chan : 1 .. Shared, link : {l}, hasMtu : {b},
                    mtu : {w}, whole : {t}],
         NEW g \in [type : {"LINKREQUEST"}, chan : 1 .. Shared, link : {l}, hasMtu : {b},
                    mtu : {w}, whole : {t}]
  PROVE  f = g
  OBVIOUS

LEMMA SessionRequestLink ==
  ASSUME Shared = 1, SignedInv, OneSession,
         NEW l \in Requests, NEW m \in Mtus, NEW cb \in BOOLEAN, RequestLink(l, m, cb)
  PROVE  OneSession'
<1> DEFINE copies == [type : {"LINKREQUEST"}, chan : 1 .. Shared, link : {l},
                      hasMtu : {m # 0}, mtu : {OnWire(m)}, whole : {TRUE}]
<1>1. /\ net' = net \cup copies /\ requested' = requested \cup {l} /\ l \notin requested
      /\ UNCHANGED <<signed, rlinks>>
  BY DEF RequestLink
<1>2. \A f \in copies : f.link = l
  OBVIOUS
<1>3. \A f, g \in copies : f = g
  BY OneCopy
<1> HIDE DEF copies
<1>4. \A f \in net : IsRequest(f) => f.link # l
  BY <1>1 DEF SignedInv, AskedFor, IsRequest
<1>5. \A s \in signed : s[1] # l
  BY <1>1 DEF OneSession
<1> QED
  BY <1>1, <1>2, <1>3, <1>4, <1>5 DEF OneSession

LEMMA SessionReceiveRequest ==
  ASSUME SignedInv, OneSession, NEW f \in net, ReceiveRequest(f)
  PROVE  OneSession'
<1>1. f.type = "LINKREQUEST" /\ UNCHANGED requested /\ f.link \in LinkIds
      /\ (f.link \in Requests => f.link \in requested)
  BY DEF ReceiveRequest, SignedInv, AskedFor, TypeInv, TypeOK, Request, Proof, DataFrame
<1>2. CASE ~f.whole
  <2>1. net' = net \ {f} /\ UNCHANGED <<signed, rlinks>>
    BY <1>2 DEF ReceiveRequest
  <2> QED
    BY <1>1, <2>1, NoRequestAdded
<1>3. CASE f.whole
  <2> DEFINE s == <<f.link, resps + 1, Signalling(f)>>
             obj == [status |-> "ACTIVE", resp |-> resps + 1, local |-> 0,
                     mtu |-> ResponderMtu(f), cb |-> handler = "app_main"]
  <2>1. signed' = signed \cup {s} /\ rlinks' = [rlinks EXCEPT ![f.link] = obj]
    BY <1>3 DEF ReceiveRequest
  <2>2. \A g \in net' : IsRequest(g) => g \in net /\ g # f
    <3> DEFINE proof == [type : {"LRPROOF"}, chan : 1 .. Shared, link : {f.link},
                         resp : {ProofKey(f)}, hasMtu : {f.hasMtu}, mtu : {f.mtu},
                         whole : {TRUE}, ok : {TRUE}]
    <3>1. net' = (net \ {f}) \cup proof
      BY <1>3 DEF ReceiveRequest
    <3>2. \A g \in proof : g.type = "LRPROOF"
      OBVIOUS
    <3> HIDE DEF proof
    <3> QED
      BY <3>1, <3>2 DEF IsRequest
  <2>3. s[1] = f.link /\ s[2] = resps + 1 /\ obj.resp = resps + 1
    OBVIOUS
  <2> HIDE DEF s, obj
  <2>4. \A g \in net' : IsRequest(g) => \A t \in signed' : t[1] # g.link
    <3>1. \A g \in net' : IsRequest(g) => g.link # f.link
      BY <1>1, <2>2 DEF OneSession, IsRequest
    <3> QED
      BY <2>1, <2>2, <2>3, <3>1 DEF OneSession
  <2>5. \A t \in signed' : t[1] \in Requests => t[1] \in requested
    BY <1>1, <2>1, <2>3 DEF OneSession
  <2>6. \A t, u \in signed' : t[1] = u[1] /\ t[1] \in Requests => t[2] = u[2]
    <3>1. f.link \in Requests => \A t \in signed : t[1] # f.link
      BY <1>1 DEF OneSession, IsRequest
    <3> QED
      BY <2>1, <2>3, <3>1 DEF OneSession
  <2>7. \A l \in LinkIds : rlinks'[l].status = "ACTIVE" =>
          \E t \in signed' : t[1] = l /\ t[2] = rlinks'[l].resp
    <3>1. rlinks'[f.link] = obj /\ \A l \in LinkIds : l # f.link => rlinks'[l] = rlinks[l]
      BY <1>1, <2>1 DEF SignedInv, TypeInv, TypeOK
    <3> QED
      BY <2>1, <2>3, <3>1 DEF OneSession
  <2> QED
    BY <1>1, <2>2, <2>4, <2>5, <2>6, <2>7 DEF OneSession
<1> QED
  BY <1>2, <1>3

LEMMA SessionFault ==
  ASSUME SignedInv, OneSession, Fault
  PROVE  OneSession'
<1>1. UNCHANGED <<signed, requested, rlinks>>
  BY DEF Fault
<1>2. PICK f \in net :
        net' = net \ {f} \/ \E g \in Garbled(f) \ {f} : net' = (net \ {f}) \cup {g}
  BY Zenon DEF Fault
<1>3. CASE net' = net \ {f}
  BY <1>1, <1>3, NoRequestAdded
<1>4. ASSUME NEW g \in Garbled(f), net' = (net \ {f}) \cup {g}
      PROVE  OneSession'
  <2>1. f \in Frame
    BY DEF SignedInv, TypeInv, TypeOK, Frame
  <2>2. IsRequest(g) => IsRequest(f) /\ g.link = f.link
    BY <2>1, GarbledFrame DEF IsRequest
  <2>3. \A h \in net' : h # g => h \in net /\ h # f
    BY <1>4
  <2>4. \A h, k \in net' : IsRequest(h) /\ IsRequest(k) /\ h.link = k.link => h = k
    BY <2>2, <2>3 DEF OneSession
  <2>5. \A h \in net' : IsRequest(h) => \A s \in signed : s[1] # h.link
    BY <2>2, <2>3 DEF OneSession
  <2> QED
    BY <1>1, <2>4, <2>5 DEF OneSession
<1> QED
  BY <1>2, <1>3, <1>4, Zenon

LEMMA SessionStep ==
  ASSUME Shared = 1, SignedInv, OneSession, [Next]_vars
  PROVE  OneSession'
<1>1. ASSUME NEW f \in net, ReceiveProof(f) \/ ReceiveData(f)
      PROVE  OneSession'
  <2>1. /\ UNCHANGED <<signed, requested>>
        /\ rlinks' = rlinks \/ rlinks' = [l \in LinkIds |-> NoLink]
    BY <1>1 DEF ReceiveProof, ReceiveData, Dispatch, Abort, LoseRam
  <2>2. \A g \in net' : IsRequest(g) => g \in net
    <3>1. net' \subseteq net \/ net' = (net \ {f}) \cup Answer(f)
      BY <1>1, Zenon DEF ReceiveProof, ReceiveData, Dispatch, Abort
    <3>2. \A g \in Answer(f) : g.type = "DATA"
      BY DEF Answer, Encrypted
    <3> QED
      BY <3>1, <3>2 DEF IsRequest
  <2> QED
    BY <2>1, <2>2, NoRequestAdded
<1>2. ASSUME NEW n \in Ends, NEW l \in LinkIds, NEW p \in Payloads, Send(n, l, p)
      PROVE  OneSession'
  BY <1>2, NoRequestAdded DEF Send, Encrypted, IsRequest
<1>3. CASE UNCHANGED vars \/ StartNomadnet \/ \E n \in Ends : Reboot(n)
  BY <1>3, NoRequestAdded DEF vars, StartNomadnet, Reboot, LoseRam
<1> QED
  BY <1>1, <1>2, <1>3, SessionRequestLink, SessionReceiveRequest, SessionFault
     DEF Next, Receive

\* KeysAgreeHolds: over one common interface the two ends of a link that are both
\* ACTIVE have the same session key, for any number of links, faults and reboots.
\* (Over two they need not, see ReceiveRequest.)
THEOREM KeysAgreeHolds ==
  ASSUME Shared = 1
  PROVE  Spec => []KeysAgree
<1>1. Init => SignedInv /\ OneSession
  BY TypeStart DEF Init, SignedInv, NoLink, AskedFor, OwnMtu, ProofsAreSigned,
     ActiveAsSigned, OneSession
<1>2. SignedInv /\ OneSession /\ [Next]_vars => OneSession'
  BY SessionStep
<1>3. SignedInv /\ OneSession => KeysAgree
  <2> SUFFICES ASSUME SignedInv, OneSession, NEW l \in LinkIds,
                      ilinks[l].status = "ACTIVE", rlinks[l].status = "ACTIVE"
               PROVE  ilinks[l].resp = rlinks[l].resp
    BY DEF KeysAgree
  <2>1. l \in Requests
    BY DEF SignedInv, AskedFor, TypeInv, TypeOK
  <2>2. PICK s \in signed : s[1] = l /\ s[2] = ilinks[l].resp
    BY DEF SignedInv, ActiveAsSigned, SignedAs
  <2>3. PICK t \in signed : t[1] = l /\ t[2] = rlinks[l].resp
    BY DEF OneSession
  <2> QED
    BY <2>1, <2>2, <2>3 DEF OneSession
<1> QED
  BY <1>1, <1>2, <1>3, SignedStep, PTL DEF Spec
=============================================================================
