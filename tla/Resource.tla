------------------------------- MODULE Resource -------------------------------
(***************************************************************************)
(* RNS::Resource (src/src/resource.cpp): chunked transfer of a payload     *)
(* over an ACTIVE Link, without acknowledgements or retries.               *)
(*                                                                         *)
(* Two tasks may send on one link, so the chunks of two resources can mix. *)
(* Link::send broadcasts a frame on every interface; each interface the    *)
(* two nodes share keeps its frames in order but may lose some, and a Link *)
(* has no duplicate filter, so a chunk can arrive once per shared          *)
(* interface.  A chunk's bytes are their place in the payload.             *)
(***************************************************************************)
EXTENDS Naturals, Sequences, FiniteSetsExt

CONSTANTS
  Resources,      \* resources the sender may send
  Receivers,      \* Resource objects made by Resource::receive
  Nothing,        \* no resource id, no hook, nothing delivered
  SizeOf,         \* [Resources -> Nat], payload sizes in bytes
  Mtus,           \* MTUs the link may have negotiated
  ChunkPayload,   \* CHUNK_PAYLOAD (256)
  Headroom,       \* bytes left for headers (100)
  SmallChunk,     \* chunk size on a tiny MTU (64)
  Shared,         \* number of interfaces the two nodes have in common
  MaxLost         \* bound: frames lost

ASSUME ResourceAssumption ==
  /\ SizeOf \in [Resources -> Nat]
  /\ Mtus \subseteq Nat
  /\ ChunkPayload \in Nat \ {0} /\ Headroom \in Nat /\ SmallChunk \in Nat \ {0}
  /\ Shared \in Nat \ {0} /\ MaxLost \in Nat
  /\ Nothing \notin Resources \cup Receivers

VARIABLES
  mtu,     \* the link's MTU
  next,    \* [Resources -> chunks handed to Link::send so far]
  chan,    \* [1..Shared -> frames in flight on that interface]
  hook,    \* the receiver the link's packet callback belongs to
  rx,      \* [Receivers -> Resource object]
  lost

vars == <<mtu, next, chan, hook, rx, lost>>

----------------------------------------------------------------------------
(* The sender *)

ChunkSize_WholeMtu(m) ==
  IF m = 0 THEN ChunkPayload
  ELSE IF m >= ChunkPayload + Headroom THEN m
  ELSE IF m > Headroom THEN m - Headroom ELSE SmallChunk

\* The chunk size: CHUNK_PAYLOAD unless the MTU leaves too little room for it.
ChunkSize(m) ==
  IF m = 0 \/ m >= ChunkPayload + Headroom THEN ChunkPayload
  ELSE IF m > Headroom THEN m - Headroom ELSE SmallChunk

ChunkCount_Truncated(r) == SizeOf[r] \div ChunkSize(mtu)

ChunkCount(r) == (SizeOf[r] + ChunkSize(mtu) - 1) \div ChunkSize(mtu)

\* Frames: HEAD carries index 0, even of an empty payload, and the sizes.
FramesOf(r) == IF SizeOf[r] = 0 THEN 1 ELSE ChunkCount(r)

\* The bytes of chunk i.
Piece(r, i) ==
  LET off == i * ChunkSize(mtu)
  IN  [of |-> r, off |-> off,
       len |-> IF off + ChunkSize(mtu) > SizeOf[r] THEN SizeOf[r] - off
               ELSE ChunkSize(mtu)]

Chunk(r, i) ==
  [tag |-> IF i = 0 THEN "HEAD" ELSE "BODY", id |-> r, index |-> i,
   total |-> IF i = 0 THEN SizeOf[r] ELSE 0,
   count |-> IF i = 0 THEN ChunkCount(r) ELSE 0,
   piece |-> Piece(r, i)]

\* One turn of the loop of Resource::send; the sender is COMPLETE after the last.
SendChunk(r) ==
  /\ next[r] < FramesOf(r)
  /\ next' = [next EXCEPT ![r] = @ + 1]
  /\ chan' = [k \in 1 .. Shared |-> Append(chan[k], Chunk(r, next[r]))]
  /\ UNCHANGED <<mtu, hook, rx, lost>>

----------------------------------------------------------------------------
(* The receiver *)

Idle == [status |-> "IDLE", id |-> Nothing, total |-> 0, count |-> 0,
         received |-> 0, chunks |-> <<>>, out |-> <<>>]

\* Resource::receive takes the link's packet callback, which its previous
\* owner loses.
Receive(x) ==
  /\ rx[x].status = "IDLE"
  /\ rx' = [rx EXCEPT ![x].status = "RECEIVING"]
  /\ hook' = x
  /\ UNCHANGED <<mtu, next, chan, lost>>

Takes_AnyChunk(o, f) == o.status = "RECEIVING" /\ f.tag \in {"HEAD", "BODY"}

\* A HEAD is taken by a receiver without an id, anything else must match it.
Takes(o, f) ==
  /\ o.status = "RECEIVING"
  /\ \/ f.tag = "HEAD" /\ o.id = Nothing
     \/ o.id = f.id

Store_ByArrival(o, f) ==
  [o EXCEPT !.id = f.id,
            !.total = IF f.tag = "HEAD" THEN f.total ELSE @,
            !.count = IF f.tag = "HEAD" THEN f.count ELSE @,
            !.received = @ + f.piece.len,
            !.chunks = [i \in DOMAIN o.chunks \cup {Cardinality(DOMAIN o.chunks)} |->
                          IF i \in DOMAIN o.chunks THEN o.chunks[i] ELSE f.piece]]

\* A repeated chunk replaces the stored one but is counted again.
Store(o, f) ==
  [o EXCEPT !.id = f.id,
            !.total = IF f.tag = "HEAD" THEN f.total ELSE @,
            !.count = IF f.tag = "HEAD" THEN f.count ELSE @,
            !.received = @ + f.piece.len,
            !.chunks = [i \in DOMAIN o.chunks \cup {f.index} |->
                          IF i = f.index THEN f.piece ELSE o.chunks[i]]]

\* Every chunk is there, judged by their number.
Full(o) == o.count > 0 /\ Cardinality(DOMAIN o.chunks) = o.count

\* Bytes in the pieces with the indices of S.
Total(pieces, S) == MapThenSumSet(LAMBDA i : pieces[i].len, S)

\* Assembly: a missing index or a wrong sum of lengths is FAILED.
Assembles(o) ==
  /\ 0 .. o.count - 1 \subseteq DOMAIN o.chunks
  /\ Total(o.chunks, 0 .. o.count - 1) = o.total

Settle(o) ==
  IF Full(o)
  THEN IF Assembles(o)
       THEN [o EXCEPT !.status = "COMPLETE",
                      !.out = [i \in 1 .. o.count |-> o.chunks[i - 1]]]
       ELSE [o EXCEPT !.status = "FAILED"]
  ELSE IF o.count = 0 /\ o.total = 0 THEN [o EXCEPT !.status = "COMPLETE"] ELSE o

\* A frame arrives: on_chunk of the receiver that holds the packet callback.
Arrive(k) ==
  /\ chan[k] # <<>>
  /\ chan' = [chan EXCEPT ![k] = Tail(@)]
  /\ LET f == Head(chan[k])
     IN  IF hook # Nothing /\ rx[hook].status = "RECEIVING"
         THEN rx' = IF Takes(rx[hook], f)
                       THEN [rx EXCEPT ![hook] = Settle(Store(@, f))]
                       ELSE rx
         ELSE UNCHANGED rx
  /\ UNCHANGED <<mtu, next, hook, lost>>

Lose(k) ==
  /\ lost < MaxLost
  /\ chan[k] # <<>>
  /\ lost' = lost + 1
  /\ chan' = [chan EXCEPT ![k] = Tail(@)]
  /\ UNCHANGED <<mtu, next, hook, rx>>

----------------------------------------------------------------------------
Init ==
  /\ mtu \in Mtus
  /\ next = [r \in Resources |-> 0]
  /\ chan = [k \in 1 .. Shared |-> <<>>]
  /\ hook = Nothing
  /\ rx = [x \in Receivers |-> Idle]
  /\ lost = 0

Next ==
  \/ \E r \in Resources : SendChunk(r)
  \/ \E x \in Receivers : Receive(x)
  \/ \E k \in 1 .. Shared : Arrive(k) \/ Lose(k)

Spec == Init /\ [][Next]_vars

\* A send that has begun runs to its end; frames in flight arrive or are lost.
Fairness ==
  /\ \A r \in Resources : WF_vars(next[r] > 0 /\ SendChunk(r))
  /\ \A k \in 1 .. Shared : WF_vars(Arrive(k))

FairSpec == Spec /\ Fairness

----------------------------------------------------------------------------
(* Properties *)

Indices(r) == 0 .. FramesOf(r) - 1

Frames == UNION {{Chunk(r, i) : i \in Indices(r)} : r \in Resources}

\* TypeOK: every variable has its type; a receiver holds chunks of its resource.
TypeOK ==
  /\ mtu \in Mtus
  /\ next \in [Resources -> Nat] /\ \A r \in Resources : next[r] <= FramesOf(r)
  /\ DOMAIN chan = 1 .. Shared
  /\ \A k \in 1 .. Shared : \A j \in 1 .. Len(chan[k]) : chan[k][j] \in Frames
  /\ hook \in Receivers \cup {Nothing}
  /\ DOMAIN rx = Receivers
  /\ \A x \in Receivers :
       /\ rx[x].status \in {"IDLE", "RECEIVING", "COMPLETE", "FAILED"}
       /\ rx[x].id \in Resources \cup {Nothing}
       /\ \A i \in DOMAIN rx[x].chunks :
            rx[x].id # Nothing /\ rx[x].chunks[i] = Piece(rx[x].id, i)
  /\ lost \in 0 .. MaxLost

\* The pieces of r in order, from the first byte to the last without a gap.
IsWhole(pieces, r) ==
  /\ Total(pieces, DOMAIN pieces) = SizeOf[r]
  /\ \A i \in DOMAIN pieces :
       pieces[i].of = r /\ pieces[i].off = Total(pieces, 1 .. i - 1)

offered == {r \in Resources : next[r] = FramesOf(r)}
result == [x \in Receivers |->
  IF rx[x].status # "COMPLETE" THEN Nothing
  ELSE IF IsWhole(rx[x].out, rx[x].id) THEN rx[x].id ELSE "corrupt"]

Transfer == INSTANCE ResourceTransfer

\* ImplementsTransfer: whatever is lost, repeated or mixed with the chunks of
\* another resource, on_complete is called at most once per receiver, with
\* exactly the payload of one resource that was sent to its end (on_chunk).
ImplementsTransfer == Transfer!Spec

\* HookedCompletes: as long as nothing is lost, a receiver that still waits for an
\* id when a HEAD is about to arrive completes, however the interfaces interleave
\* their copies, unless another receive takes its hook.
HookedCompletes ==
  \A x \in Receivers :
    (/\ hook = x /\ rx[x].status = "RECEIVING" /\ rx[x].id = Nothing
     /\ \E k \in 1 .. Shared : chan[k] # <<>> /\ Head(chan[k]).tag = "HEAD")
    ~> (rx[x].status = "COMPLETE" \/ hook # x \/ lost > 0)

\* What a chunk costs on the wire: tag, id and numbers, padded by PKCS7 to 16
\* bytes, with IV and HMAC, behind the 19 bytes of flags, hops, link id, context.
FrameSize(f) ==
  LET plain == f.piece.len + IF f.tag = "HEAD" THEN 29 ELSE 21
  IN  19 + 16 + 16 * (plain \div 16 + 1) + 32

\* FullChunksFit: when the MTU leaves room for CHUNK_PAYLOAD and the headroom, no
\* frame is larger than the MTU.  (Below that, 12 bytes too many can go out.)
FullChunksFit ==
  mtu >= ChunkPayload + Headroom =>
    \A k \in 1 .. Shared : \A j \in 1 .. Len(chan[k]) : FrameSize(chan[k][j]) <= mtu

=============================================================================
