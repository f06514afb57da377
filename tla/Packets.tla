-------------------------------- MODULE Packets --------------------------------
(* One packet from the call that builds it over its relays to the node that    *)
(* takes it apart (src/packet.cpp, Destination, Identity, the announce and the *)
(* LINKREQUEST of transport.cpp and link.cpp).                                 *)
(*                                                                             *)
(* A byte is <<n>> or one of an opaque string, <<kind, of what, which>>: a     *)
(* hash, a key, a signature or a ciphertext is the same only for the same.     *)
EXTENDS Integers, Sequences

CONSTANTS
    Owners,         \* identities
    Names,          \* app name and aspects of a destination
    Payloads,       \* app data and DATA, sequences of bytes
    Keys,           \* the ephemeral keys of a LINKREQUEST
    Relays,         \* transport ids of relays that write HEADER_2
    DST_LEN,        \* bytes of a truncated hash (16)
    KEY,            \* of a public key, or of the two of a LINKREQUEST (64)
    NHL, RHL, SIGL, \* of a name hash (10), a random hash (10), a signature (64)
    MTU_BYTES,      \* of the MTU in a LINKREQUEST (3)
    MDU,            \* of data in a packet (464)
    MaxHops         \* bound: relays on the way

ASSUME PacketsAssumption ==
    /\ {DST_LEN, KEY, NHL, RHL, SIGL, MTU_BYTES, MDU} \subseteq Nat \ {0}
    /\ KEY + MTU_BYTES <= MDU
    /\ Payloads \subseteq Seq([{1} -> 0..255])
    /\ MaxHops \in Nat

VARIABLES
    sent,           \* the call: what it built, and from what
    raw             \* the frame, where it is now

frameVars == <<sent, raw>>

-----------------------------------------------------------------------------
(* Strings, hashes, keys *)

Opaque(kind, of, n) == [i \in 1..n |-> <<kind, of, i>>]

\* full_hash(x), of which callers take the left end.
Hashed(x, n) == Opaque("hash", x, n)

PublicKey(id) == Opaque("key", id, KEY)
IdentityHash(id) == Hashed(PublicKey(id), DST_LEN)
Sign(id, message) == Opaque("sig", <<id, message>>, SIGL)
Encrypt(id, x) == Opaque("sealed", <<id, x>>, Len(x) + 1)

Left(s, n) == IF Len(s) <= n THEN s ELSE SubSeq(s, 1, n)
From(s, n) == SubSeq(s, n + 1, Len(s))

-----------------------------------------------------------------------------
(* Destinations *)

NameHash(text) == Hashed(text, NHL)
DestinationHash(id, text) == Hashed(NameHash(text) \o IdentityHash(id), DST_LEN)

\* An IN destination that is given no identity draws one, and its hash is of
\* the name with the identity's digits at the end; its name hash is not.
Destination(id, name, given) ==
    LET text == <<<<"text", name, 1>>>>
    IN  [id |-> id, nameHash |-> NameHash(text),
         hash |-> DestinationHash(id, IF given THEN text ELSE text \o IdentityHash(id))]

-----------------------------------------------------------------------------
(* Frames *)

DATA == 0
ANNOUNCE == 1
LINKREQUEST == 2
SINGLE == 0
HEADER_1 == 0
HEADER_2 == 1
CONTEXT_NONE == 0

\* The shifted fields do not overlap: no caller passes a transport type but
\* BROADCAST.
PackFlags(header, transport, dtype, type) == 64 * header + 16 * transport + 4 * dtype + type

\* The constructor cuts the data.
PacketData(payload) == Left(payload, MDU)

\* pack() encrypts what is left of DATA.
Frame(d, type, payload) ==
    LET data == PacketData(payload)
    IN  <<<<PackFlags(HEADER_1, 0, SINGLE, type)>>, <<0>>>> \o d.hash \o <<<<CONTEXT_NONE>>>>
        \o (IF type = DATA THEN Encrypt(d.id, data) ELSE data)

Header(frame) == (frame[1][1] \div 64) % 2

\* Mutant: the whole first byte counts.
HashablePart_AllFlags(frame) ==
    <<frame[1]>> \o From(frame, IF Header(frame) = HEADER_2 THEN 2 + DST_LEN ELSE 2)

\* get_hashable_part(): without hops, transport id and the upper half of the
\* flags.
HashablePart(frame) ==
    IF Len(frame) < 2 THEN <<>>
    ELSE <<<<frame[1][1] % 16>>>>
         \o From(frame, IF Header(frame) = HEADER_2 THEN 2 + DST_LEN ELSE 2)

Malformed == [ok |-> FALSE]

Unpack(frame) ==
    LET off == IF Header(frame) = HEADER_2 THEN 2 + 2 * DST_LEN ELSE 2 + DST_LEN
    IN  IF Len(frame) < 2 + DST_LEN + 1 \/ Len(frame) < off + 1 THEN Malformed
        ELSE [ok |-> TRUE, type |-> frame[1][1] % 4,
              dest |-> SubSeq(frame, off - DST_LEN + 1, off),
              context |-> frame[off + 1], data |-> From(frame, off + 1),
              hash |-> Hashed(HashablePart(frame), DST_LEN)]

-----------------------------------------------------------------------------
(* Announces *)

\* Mutant: the app data is not signed.
SignedPart_NoApp(dest, key, nameHash, random, app) == dest \o key \o nameHash \o random

SignedPart(dest, key, nameHash, random, app) == dest \o key \o nameHash \o random \o app

AnnounceData(d, app) ==
    LET random == Opaque("random", d.id, RHL)
        signature == Sign(d.id, SignedPart(d.hash, PublicKey(d.id), d.nameHash, random, app))
    IN  PublicKey(d.id) \o d.nameHash \o random \o signature \o app

AnnounceMin == KEY + NHL + RHL + SIGL

Rejected == [valid |-> FALSE]

\* process_announce(): what is remembered, if the signature is of the key that
\* comes with it and the destination is one of that key.
ReadAnnounce(p) ==
    LET part(from, n) == SubSeq(p.data, from + 1, from + n)
        key == Left(p.data, KEY)
        nameHash == part(KEY, NHL)
        app == From(p.data, AnnounceMin)
        message == SignedPart(p.dest, key, nameHash, part(KEY + NHL, RHL), app)
    IN  IF /\ Len(p.data) >= AnnounceMin
           /\ \E id \in Owners : /\ PublicKey(id) = key
                                 /\ Sign(id, message) = part(KEY + NHL + RHL, SIGL)
           /\ p.dest = Hashed(nameHash \o Hashed(key, DST_LEN), DST_LEN)
        THEN [valid |-> TRUE, dest |-> p.dest, key |-> key, app |-> app]
        ELSE Rejected

-----------------------------------------------------------------------------
(* Link requests *)

RequestData(key, withMtu) ==
    Opaque("key", key, KEY) \o (IF withMtu THEN Opaque("mtu", key, MTU_BYTES) ELSE <<>>)

\* link_id_from_lr_packet(), n bytes of data in the packet.
LinkId(frame, n) ==
    LET hashable == HashablePart(frame)
        diff == IF n > KEY THEN n - KEY ELSE 0
    IN  Hashed(IF Len(hashable) > diff THEN Left(hashable, Len(hashable) - diff) ELSE hashable,
               DST_LEN)

\* validate_request(): the key and the link id, if the size is one of the two.
ReadRequest(frame) ==
    LET p == Unpack(frame)
    IN  IF Len(p.data) \in {KEY, KEY + MTU_BYTES}
        THEN [valid |-> TRUE, key |-> Left(p.data, KEY), id |-> LinkId(frame, Len(p.data)),
              withMtu |-> Len(p.data) # KEY]
        ELSE Rejected

-----------------------------------------------------------------------------
(* Calls, and the way *)

NothingSent == [call |-> "none"]

FrameInit == sent = NothingSent /\ raw = <<>>

\* Every call, with all it can be given.
Calls == [call : {"announce"}, id : Owners, name : Names, given : BOOLEAN, app : Payloads]
    \cup [call : {"request"}, id : Owners, name : Names, key : Keys, withMtu : BOOLEAN]
    \cup [call : {"data"}, id : Owners, name : Names, data : Payloads]

Built(c) ==
    CASE c.call = "announce" ->
           LET d == Destination(c.id, c.name, c.given)
           IN  Frame(d, ANNOUNCE, AnnounceData(d, c.app))
      [] c.call = "request" ->
           Frame(Destination(c.id, c.name, TRUE), LINKREQUEST,
                 RequestData(c.key, c.withMtu))
      [] c.call = "data" ->
           Frame(Destination(c.id, c.name, TRUE), DATA, c.data)

Send(c) == sent = NothingSent /\ sent' = c /\ raw' = Built(c)

\* A node of this stack passes it on: one more hop, mod 256.
PassOn ==
    /\ raw # <<>> /\ raw[2][1] < MaxHops
    /\ raw' = [raw EXCEPT ![2] = <<(raw[2][1] + 1) % 256>>]
    /\ UNCHANGED sent

\* Python transport nodes: the frame is addressed to the next relay, or stripped
\* of that for the last hop.
ToRelay(t) ==
    /\ raw # <<>> /\ Header(raw) = HEADER_1 /\ raw[2][1] < MaxHops
    /\ raw' = <<<<PackFlags(HEADER_2, 1, 0, 0) + raw[1][1]>>, <<raw[2][1] + 1>>>>
              \o Opaque("relay", t, DST_LEN) \o From(raw, 2)
    /\ UNCHANGED sent

LastHop ==
    /\ raw # <<>> /\ Header(raw) = HEADER_2 /\ raw[2][1] < MaxHops
    /\ raw' = <<<<raw[1][1] % 16>>, <<raw[2][1] + 1>>>> \o From(raw, 2 + DST_LEN)
    /\ UNCHANGED sent

FrameNext == (\E c \in Calls : Send(c)) \/ PassOn \/ (\E t \in Relays : ToRelay(t)) \/ LastHop

FrameSpec == FrameInit /\ [][FrameNext]_frameVars

-----------------------------------------------------------------------------
(* Properties *)

\* HashIgnoresTheRoute: wherever the frame is and whoever relayed it, it unpacks
\* to the hash it was sent with, and no other call could have made that one, so
\* that _seen_announces takes copies for copies and nothing else for one.  The
\* responder of a LINKREQUEST reads its key and names the link as the initiator
\* did, with MTU bytes or without, and as no other request would.
HashIgnoresTheRoute ==
    /\ sent # NothingSent =>
         /\ Unpack(raw).ok /\ Unpack(raw).hash = Unpack(Built(sent)).hash
         /\ \A c \in Calls : Unpack(raw).hash = Unpack(Built(c)).hash => Built(c) = Built(sent)
    /\ sent.call = "request" =>
         LET id(c) == LinkId(Built(c), Len(RequestData(c.key, c.withMtu)))
             alike(c) == c.id = sent.id /\ c.name = sent.name /\ c.key = sent.key
         IN  /\ ReadRequest(raw) = [valid |-> TRUE, key |-> Opaque("key", sent.key, KEY),
                                    id |-> id(sent), withMtu |-> sent.withMtu]
             /\ \A c \in Calls : c.call = "request" /\ id(c) = id(sent) => alike(c)

\* AnnounceReadsBack: an announce is taken, with its key, destination and app data
\* and over any route, exactly if its destination was given its identity and the
\* data fits one packet.
AnnounceReadsBack ==
    sent.call = "announce" =>
      LET d == Destination(sent.id, sent.name, sent.given)
          fits == AnnounceMin + Len(sent.app) <= MDU
      IN  ReadAnnounce(Unpack(raw)) =
            IF sent.given /\ fits
            THEN [valid |-> TRUE, dest |-> d.hash, key |-> PublicKey(sent.id), app |-> sent.app]
            ELSE Rejected
===============================================================================
