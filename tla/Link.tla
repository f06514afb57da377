--------------------------------- MODULE Link ---------------------------------
(***************************************************************************)
(* RNS::Link (src/src/link.cpp): the handshake LINKREQUEST / LRPROOF       *)
(* between an initiator "c" and a responder "s", and encrypted DATA over   *)
(* the link, with the branches of Transport::inbound that dispatch them    *)
(* and the two link request handlers of the firmware.                      *)
(*                                                                         *)
(* Cryptography is symbolic.  A link id stands for the initiator's         *)
(* ephemeral keys (the id is a hash over them); the responder draws a      *)
(* fresh ephemeral key per request, a number of its own.  The session key  *)
(* is the pair of both: a frame decrypts only under the pair it was        *)
(* encrypted with.  Each node handles a frame inside Transport's mutex.    *)
(***************************************************************************)
EXTENDS Naturals, FiniteSets

CONSTANTS
  LinkIds,      \* link ids that can occur on the wire
  Requests,     \* those the initiator asks for; the others come of garbling
  Payloads,     \* application payloads
  Context,      \* [Payloads -> {"NONE", "REQUEST"}]
  Served,       \* REQUEST payloads whose path has a handler at the responder
  Mtus,         \* MTUs an application may advertise; 0: no MTU bytes
  DefaultMtu,   \* Type::Reticulum::MTU (500)
  MtuModulus,   \* MTU_BYTEMASK + 1 (2^21): what fits the signalling bytes
  Shared,       \* number of interfaces the two nodes have in common
  MaxResp,      \* bound: ephemeral keys the responder draws
  MaxFaults,    \* bound: frames lost or garbled
  MaxReboots    \* bound: reboots for reasons outside this module

ASSUME LinkAssumption ==
  /\ Requests \subseteq LinkIds
  /\ Context \in [Payloads -> {"NONE", "REQUEST"}]
  /\ Served \subseteq Payloads
  /\ Mtus \subseteq Nat /\ DefaultMtu \in Nat /\ MtuModulus \in Nat \ {0}
  /\ Shared \in Nat \ {0}
  /\ MaxResp \in Nat /\ MaxFaults \in Nat /\ MaxReboots \in Nat

VARIABLES
  ilinks,       \* the initiator's _links: [LinkIds -> link object]
  rlinks,       \* the responder's _links
  handler,      \* the responder's _on_link_request
  resps,        \* ephemeral keys drawn by the responder
  net,          \* frames in flight
  requested,    \* links asked for so far
  sentby,       \* history: <<node, link, payload>> handed to Link::send
  got,          \* history: <<node, link, payload, context>> given to a callback
  signed,       \* history: <<link, resp, Signalling>> the responder signed
  aborts,       \* exceptions that left Transport::inbound
  faults, reboots

vars == <<ilinks, rlinks, handler, resps, net, requested, sentby, got,
          signed, aborts, faults, reboots>>

Ends == {"c", "s"}
Status == {"NONE", "HANDSHAKE", "ACTIVE", "CLOSED"}  \* NONE: not in _links

\* A link object: resp is the responder's ephemeral key (0 before it is known),
\* local the MTU the initiator advertised (0: none), mtu the one in force, and cb
\* says whether a packet callback is installed.
LinkObj == [status : Status, resp : 0 .. MaxResp, local : Nat, mtu : Nat, cb : BOOLEAN]
NoLink == [status |-> "NONE", resp |-> 0, local |-> 0, mtu |-> 0, cb |-> FALSE]

\* The three frames.  whole: its length is one the parser accepts; ok: its
\* signature (LRPROOF) or HMAC (DATA) is that of its content.
Request == [type : {"LINKREQUEST"}, chan : 1 .. Shared, link : LinkIds,
            hasMtu : BOOLEAN, mtu : 0 .. MtuModulus - 1, whole : BOOLEAN]
Proof   == [type : {"LRPROOF"}, chan : 1 .. Shared, link : LinkIds,
            resp : 1 .. MaxResp, hasMtu : BOOLEAN, mtu : 0 .. MtuModulus - 1,
            whole : BOOLEAN, ok : BOOLEAN]
DataFrame == [type : {"DATA"}, chan : 1 .. Shared, to : Ends, link : LinkIds,
              resp : 1 .. MaxResp, payload : Payloads,
              context : {"NONE", "REQUEST", "RESPONSE"}, ok : BOOLEAN]

----------------------------------------------------------------------------
(* The initiator *)

\* Faulty variants, named <definition>_<fault>, stand before the definition they
\* distort; PROJECT.json pairs each with the property that rejects it.

\* encode_signalling keeps 21 bits of the MTU.
OnWire(m) == m % MtuModulus

\* The MTU of a link whose initiator advertises m (0: no MTU bytes).
Advertised(m) == IF m = 0 THEN DefaultMtu ELSE m

\* Link::request: register the link, then broadcast the LINKREQUEST on every
\* interface.  mtu = 0 sends no MTU bytes.
RequestLink(l, m, cb) ==
  /\ l \in Requests \ requested
  /\ requested' = requested \cup {l}
  /\ ilinks' = [ilinks EXCEPT ![l] =
       [status |-> "HANDSHAKE", resp |-> 0, local |-> m, mtu |-> Advertised(m), cb |-> cb]]
  /\ net' = net \cup [type : {"LINKREQUEST"}, chan : 1 .. Shared, link : {l},
                      hasMtu : {m # 0}, mtu : {OnWire(m)}, whole : {TRUE}]
  /\ UNCHANGED <<rlinks, handler, resps, sentby, got, signed, aborts,
                 faults, reboots>>

AwaitsProof_Always(l) == ilinks[l].status # "NONE"
AwaitsProof_Pending(l) == ilinks[l].status = "PENDING"

\* on_proof's first guard: only a link in HANDSHAKE takes a proof.
AwaitsProof(l) == ilinks[l].status = "HANDSHAKE"

ProofStatus_Unverified(f) == IF f.whole THEN "ACTIVE" ELSE "CLOSED"

\* The signature covers the link id, the responder's key and the MTU bytes.
ProofStatus(f) == IF f.ok THEN "ACTIVE" ELSE "CLOSED"

\* Link::on_proof: MTU and session key are taken over before the signature is
\* looked at; a wrong signature closes the link for good.
ReceiveProof(f) ==
  /\ f.type = "LRPROOF"
  /\ net' = net \ {f}
  /\ IF AwaitsProof(f.link) /\ f.whole
     THEN ilinks' = [ilinks EXCEPT ![f.link] =
            [status |-> ProofStatus(f), resp |-> f.resp, local |-> @.local, cb |-> @.cb,
             mtu |-> IF f.hasMtu THEN f.mtu ELSE @.mtu]]
     ELSE UNCHANGED ilinks
  /\ UNCHANGED <<rlinks, handler, resps, requested, sentby, got, signed,
                 aborts, faults, reboots>>

----------------------------------------------------------------------------
(* The responder *)

\* The responder takes the MTU it is sent verbatim.
ResponderMtu(f) == IF f.hasMtu THEN f.mtu ELSE DefaultMtu

\* The MTU bytes of a request or proof, which the signature covers: one MTU or none.
Signalling(f) == IF f.hasMtu THEN {f.mtu} ELSE {}

ProofKey_DrawnAgain(f) == IF f.whole THEN resps + 2 ELSE resps

\* The ephemeral key the LRPROOF carries: the one the session was opened with.
ProofKey(f) == IF f.whole THEN resps + 1 ELSE resps

\* Link::validate_request under either handler: a request of the right length
\* always makes an ACTIVE link with a fresh key, replacing an earlier link of
\* the same id; the LRPROOF leaves before the handler gets the link back.
\* Only app_main's handler installs a packet callback.
ReceiveRequest(f) ==
  /\ f.type = "LINKREQUEST"
  /\ \/ /\ f.whole
        /\ resps < MaxResp
        /\ resps' = resps + 1
        /\ rlinks' = [rlinks EXCEPT ![f.link] =
             [status |-> "ACTIVE", resp |-> resps + 1, local |-> 0,
              mtu |-> ResponderMtu(f), cb |-> handler = "app_main"]]
        /\ signed' = signed \cup {<<f.link, resps + 1, Signalling(f)>>}
        /\ net' = (net \ {f}) \cup
             [type : {"LRPROOF"}, chan : 1 .. Shared, link : {f.link},
              resp : {ProofKey(f)}, hasMtu : {f.hasMtu}, mtu : {f.mtu},
              whole : {TRUE}, ok : {TRUE}]
     \/ /\ ~f.whole
        /\ net' = net \ {f}
        /\ UNCHANGED <<rlinks, resps, signed>>
  /\ UNCHANGED <<ilinks, handler, requested, sentby, got, aborts, faults,
                 reboots>>

\* NomadnetNode::start installs its own handler for every destination.
StartNomadnet ==
  /\ handler = "app_main"
  /\ handler' = "nomadnet"
  /\ UNCHANGED <<ilinks, rlinks, resps, net, requested, sentby, got,
                 signed, aborts, faults, reboots>>

----------------------------------------------------------------------------
(* DATA over the link *)

LinksOf(n) == IF n = "c" THEN ilinks ELSE rlinks
Peer(n) == IF n = "c" THEN "s" ELSE "c"

\* The copies of one encrypted payload on the way to n.
Encrypted(n, l, p, ctx) ==
  [type : {"DATA"}, chan : 1 .. Shared, to : {n}, link : {l},
   resp : {LinksOf(Peer(n))[l].resp}, payload : {p}, context : {ctx}, ok : {TRUE}]

\* Link::send and send_with_context: nothing happens unless the link is ACTIVE.
Send(n, l, p) ==
  /\ LinksOf(n)[l].status = "ACTIVE"
  /\ <<n, l, p>> \notin sentby
  /\ sentby' = sentby \cup {<<n, l, p>>}
  /\ net' = net \cup Encrypted(Peer(n), l, p, Context[p])
  /\ UNCHANGED <<ilinks, rlinks, handler, resps, requested, got, signed,
                 aborts, faults, reboots>>

\* RAM is lost; app_main runs again and installs its handler first.
LoseRam(n) ==
  IF n = "c"
  THEN /\ ilinks' = [l \in LinkIds |-> NoLink]
       /\ UNCHANGED <<rlinks, handler>>
  ELSE /\ rlinks' = [l \in LinkIds |-> NoLink]
       /\ handler' = "app_main"
       /\ UNCHANGED ilinks

\* Token::decrypt throws on a wrong HMAC; nothing between on_inbound and the
\* task that polled the interface catches it, so the firmware aborts.
Abort(n, f) ==
  /\ net' = net \ {f}
  /\ aborts' = aborts + 1
  /\ LoseRam(n)
  /\ UNCHANGED got

Answer_AsPlainData(f) == Encrypted("c", f.link, f.payload, "NONE")

\* handle_request sends the generator's answer back with context RESPONSE.
Answer(f) == Encrypted("c", f.link, f.payload, "RESPONSE")

\* The plaintext: REQUEST at the responder goes to the path's handler, which
\* answers at once; other payloads go to the packet callback, if there is one.
Dispatch(n, f) ==
  /\ \/ /\ f.context = "REQUEST"
        /\ IF n = "s" /\ f.payload \in Served
           THEN /\ got' = got \cup {<<n, f.link, f.payload, f.context>>}
                /\ net' = (net \ {f}) \cup Answer(f)
           ELSE net' = net \ {f} /\ UNCHANGED got
     \/ /\ f.context # "REQUEST"
        /\ net' = net \ {f}
        /\ IF LinksOf(n)[f.link].cb
           THEN got' = got \cup {<<n, f.link, f.payload, f.context>>}
           ELSE UNCHANGED got
  /\ UNCHANGED <<ilinks, rlinks, handler, aborts>>

Decrypts(n, f) == f.ok /\ f.resp = LinksOf(n)[f.link].resp

\* Link::on_inbound.
ReceiveData(f) ==
  /\ f.type = "DATA"
  /\ \/ /\ LinksOf(f.to)[f.link].status = "ACTIVE"
        /\ IF Decrypts(f.to, f) THEN Dispatch(f.to, f) ELSE Abort(f.to, f)
     \/ /\ LinksOf(f.to)[f.link].status # "ACTIVE"
        /\ net' = net \ {f}
        /\ UNCHANGED <<ilinks, rlinks, handler, got, aborts>>
  /\ UNCHANGED <<resps, requested, sentby, signed, faults, reboots>>

----------------------------------------------------------------------------
(* The environment *)

\* The MTU bytes of a request or proof changed, cut off, or added to one that has
\* none: both lengths are accepted, and the link id does not depend on them.
OtherMtu(f) ==
  {[f EXCEPT !.hasMtu = FALSE, !.mtu = 0]}
  \cup {[f EXCEPT !.hasMtu = TRUE, !.mtu = OnWire(m)] : m \in Mtus \ {0}}

\* Garbling changes what no check covers as well: the MTU bytes of a LINKREQUEST
\* and its keys (hence the link id, a hash, which is then nobody's).
Garbled(f) ==
  CASE f.type = "LINKREQUEST" ->
         {[f EXCEPT !.whole = FALSE]} \cup OtherMtu(f)
         \cup {[f EXCEPT !.link = l] : l \in LinkIds \ Requests}
    [] f.type = "LRPROOF" ->
         {[f EXCEPT !.whole = FALSE], [f EXCEPT !.ok = FALSE]}
         \cup {[g EXCEPT !.ok = FALSE] : g \in OtherMtu(f)}
    [] OTHER -> {[f EXCEPT !.ok = FALSE]}

Fault ==
  /\ faults < MaxFaults
  /\ faults' = faults + 1
  /\ \E f \in net : \/ net' = net \ {f}
                    \/ \E g \in Garbled(f) \ {f} : net' = (net \ {f}) \cup {g}
  /\ UNCHANGED <<ilinks, rlinks, handler, resps, requested, sentby, got,
                 signed, aborts, reboots>>

Reboot(n) ==
  /\ reboots < MaxReboots
  /\ reboots' = reboots + 1
  /\ LoseRam(n)
  /\ UNCHANGED <<resps, net, requested, sentby, got, signed, aborts, faults>>

----------------------------------------------------------------------------
Init ==
  /\ ilinks = [l \in LinkIds |-> NoLink]
  /\ rlinks = [l \in LinkIds |-> NoLink]
  /\ handler = "app_main" /\ resps = 0
  /\ net = {} /\ requested = {}
  /\ sentby = {} /\ got = {} /\ signed = {}
  /\ aborts = 0 /\ faults = 0 /\ reboots = 0

Receive(f) == ReceiveProof(f) \/ ReceiveRequest(f) \/ ReceiveData(f)

Next ==
  \/ \E l \in Requests, m \in Mtus, cb \in BOOLEAN : RequestLink(l, m, cb)
  \/ \E f \in net : Receive(f)
  \/ StartNomadnet
  \/ \E n \in Ends, l \in LinkIds, p \in Payloads : Send(n, l, p)
  \/ Fault
  \/ \E n \in Ends : Reboot(n)

Spec == Init /\ [][Next]_vars

\* The medium delivers each kind of frame that stays in flight; applications
\* owe nothing, and neither does the firmware retry anything.
Fairness ==
  \A l \in LinkIds, k \in 1 .. Shared, t \in {"LINKREQUEST", "LRPROOF", "DATA"} :
    WF_vars(\E f \in net : f.link = l /\ f.chan = k /\ f.type = t /\ Receive(f))

FairSpec == Spec /\ Fairness

----------------------------------------------------------------------------
(* Properties *)

\* TypeOK: every variable has its type.
TypeOK ==
  /\ ilinks \in [LinkIds -> LinkObj] /\ rlinks \in [LinkIds -> LinkObj]
  /\ handler \in {"app_main", "nomadnet"}
  /\ resps \in 0 .. MaxResp
  /\ net \subseteq Request \cup Proof \cup DataFrame
  /\ requested \subseteq Requests
  /\ sentby \subseteq Ends \X LinkIds \X Payloads
  /\ got \subseteq Ends \X LinkIds \X Payloads \X {"NONE", "REQUEST", "RESPONSE"}
  /\ signed \subseteq LinkIds \X (1 .. MaxResp) \X SUBSET Nat
  /\ aborts \in Nat /\ faults \in 0 .. MaxFaults /\ reboots \in 0 .. MaxReboots

\* Link object o of id l has a key signed for it, and the MTU signed with the key or,
\* where no MTU bytes were signed, the one its initiator advertised.
SignedAs(l, o) ==
  \E s \in signed : /\ s[1] = l /\ s[2] = o.resp
                    /\ s[3] = {o.mtu} \/ (s[3] = {} /\ o.mtu = Advertised(o.local))

\* ActiveAsSigned: an initiator's link is ACTIVE only with a key the responder
\* signed for it, however requests and proofs were garbled, lost, duplicated or
\* answered twice (on_proof's signature check).  Its MTU is the one signed with the
\* key or, where the responder saw no MTU bytes and signed none, the one the
\* initiator advertised: nothing of a proof that failed the check is left in it.
ActiveAsSigned ==
  \A l \in LinkIds : ilinks[l].status = "ACTIVE" => SignedAs(l, ilinks[l])

\* EstablishedIsFrozen: once ACTIVE, or once CLOSED by a bad proof, a link keeps
\* its key and MTU until its node reboots: late and duplicate proofs are ignored.
EstablishedIsFrozen ==
  [][\A l \in LinkIds : ilinks[l].status \in {"ACTIVE", "CLOSED"} =>
       ilinks'[l] = ilinks[l] \/ ilinks'[l] = NoLink]_vars

\* KeysAgree: when both ends are ACTIVE on a link id they hold the same session
\* key (test_link.cpp: "Link handshake derives matching session keys on both
\* sides").
KeysAgree ==
  \A l \in LinkIds :
    ilinks[l].status = "ACTIVE" /\ rlinks[l].status = "ACTIVE" =>
      ilinks[l].resp = rlinks[l].resp

\* HandshakeCompletes: when nothing is lost, every requested link becomes ACTIVE
\* at the initiator, unless a node reboots.
HandshakeCompletes ==
  \A l \in Requests :
    l \in requested ~> (ilinks[l].status = "ACTIVE" \/ reboots > 0)

\* RequestAnswered: when nothing is lost, a request for a served path that the
\* initiator sends on an ACTIVE link comes back to its packet callback as a
\* RESPONSE (Link::handle_request), unless a node reboots.
RequestAnswered ==
  \A l \in Requests, p \in Served :
    <<"c", l, p>> \in sentby /\ ilinks[l].cb
      ~> (<<"c", l, p, "RESPONSE">> \in got \/ reboots > 0)

=============================================================================
