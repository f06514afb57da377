---------------------------- MODULE ResourceProofs ----------------------------
(* Proofs about Resource, for any resources, sizes, MTUs and interfaces.       *)
(* The argument: what is in flight is a chunk that was sent, so a receiver     *)
(* holds, under its index, pieces of the one resource whose HEAD it took, and  *)
(* the numbers of that HEAD.  As many pieces as chunks are then all of them,   *)
(* the last one sent included, and their lengths add up to the payload.        *)
EXTENDS Resource, FiniteSetTheorems, WellFoundedInduction, TLAPS

-----------------------------------------------------------------------------
(* The sum of the lengths of pieces.  Total folds over a set in an order that  *)
(* is not known; the least set on which it could differ from G shows it does   *)
(* not.                                                                        *)

\* G[s] is the sum of the lengths in s, one element at a time.
AddsUp(G, pieces, S) ==
  /\ G \in [SUBSET S -> Nat]
  /\ G[{}] = 0
  /\ \A s \in SUBSET S : \A x \in s : G[s] = pieces[x].len + G[s \ {x}]

\* A function on the subsets of S that adds one element at a time is the sum.
LEMMA TotalIs ==
  ASSUME NEW S, NEW pieces, NEW G, IsFiniteSet(S), AddsUp(G, pieces, S)
  PROVE  Total(pieces, S) = G[S]
<1> DEFINE Sums(g) == g = [s \in SUBSET S |->
             IF s = {} THEN 0
             ELSE pieces[CHOOSE x \in s : TRUE].len + g[s \ {CHOOSE x \in s : TRUE}]]
           f == CHOOSE g : Sums(g)
           Differ == {s \in SUBSET S : f[s] # G[s]}
           R == StrictSubsetOrdering(S)
<1>1. Sums(G)
  BY DEF AddsUp
<1>2. Sums(f)
  <2> HIDE DEF Sums
  <2>1. \E g : Sums(g)
    BY <1>1
  <2> QED
    BY <2>1
<1>3. Total(pieces, S) = f[S]
  BY DEF Total, MapThenSumSet, MapThenFoldSet
<1>4. f = [s \in SUBSET S |->
             IF s = {} THEN 0
             ELSE pieces[CHOOSE x \in s : TRUE].len + f[s \ {CHOOSE x \in s : TRUE}]]
  <2> HIDE DEF f
  <2> QED
    BY <1>2
<1> HIDE DEF f, Sums
<1>5. SUFFICES ASSUME Differ # {} PROVE FALSE
  <2>1. S \notin Differ
    BY <1>5
  <2> QED
    BY <1>3, <2>1
<1>6. Differ \subseteq FiniteSubsetsOf(S)
  BY FS_Subset DEF FiniteSubsetsOf
<1>7. PICK s \in Differ : \A t \in Differ : <<t, s>> \notin R
  <2> HIDE DEF Differ, R
  <2>1. IsWellFoundedOn(R, FiniteSubsetsOf(S))
    BY FS_StrictSubsetOrderingWellFounded DEF R
  <2> QED
    BY <1>5, <1>6, <2>1, WFMin
<1>8. CASE s = {}
  BY <1>4, <1>7, <1>8 DEF AddsUp
<1>9. CASE s # {}
  <2> DEFINE x == CHOOSE x \in s : TRUE
  <2>1. x \in s
    BY <1>9
  <2>2. f[s] = pieces[x].len + f[s \ {x}]
    BY <1>4, <1>7, <1>9
  <2> HIDE DEF x
  <2>3. G[s] = pieces[x].len + G[s \ {x}]
    BY <1>7, <2>1 DEF AddsUp
  <2>4. <<s \ {x}, s>> \in R
    BY <1>7, <2>1 DEF StrictSubsetOrdering
  <2>5. s \ {x} \notin Differ
    BY <1>7, <2>4
  <2>6. f[s \ {x}] = G[s \ {x}]
    BY <1>7, <2>5
  <2> QED
    BY <1>7, <2>2, <2>3, <2>6 DEF AddsUp
<1> QED
  BY <1>8, <1>9

\* The pieces of S have c bytes each, except the one at last.
EqualBut(pieces, S, last, c, l) ==
  \A i \in S : pieces[i].len = IF i = last THEN l ELSE c

LEMMA TotalOfEqual ==
  ASSUME NEW S, NEW pieces, NEW last, NEW c \in Nat, NEW l \in Nat, IsFiniteSet(S),
         EqualBut(pieces, S, last, c, l)
  PROVE  Total(pieces, S) = IF last \in S THEN (Cardinality(S) - 1) * c + l
                            ELSE Cardinality(S) * c
<1> DEFINE n(s) == Cardinality(s)
           g(s) == IF last \in s THEN (n(s) - 1) * c + l ELSE n(s) * c
           G == [s \in SUBSET S |-> g(s)]
<1>1. ASSUME NEW s \in SUBSET S
      PROVE  n(s) \in Nat /\ (s # {} => n(s) >= 1) /\ (\A x \in s : n(s \ {x}) = n(s) - 1)
  <2>1. IsFiniteSet(s)
    BY <1>1, FS_Subset
  <2>2. n(s) \in Nat
    BY <2>1, FS_CardinalityType
  <2>3. \A x \in s : n(s \ {x}) = n(s) - 1
    BY <2>1, FS_RemoveElement
  <2>4. s # {} => n(s) >= 1
    BY <2>1, <2>2, FS_EmptySet
  <2> QED
    BY <2>2, <2>3, <2>4
<1>2. \A m \in Int : m * c \in Int /\ m * c = (m - 1) * c + c /\ (m >= 0 => m * c >= 0)
  OBVIOUS
<1>3. n({}) = 0
  BY FS_EmptySet
<1>4. \A s \in SUBSET S : g(s) \in Nat
  <2> HIDE DEF n
  <2> TAKE s \in SUBSET S
  <2>1. CASE last \in s
    <3>1. n(s) - 1 \in Nat
      BY <1>1, <2>1
    <3> QED
      BY <1>2, <2>1, <3>1
  <2>2. CASE last \notin s
    BY <1>1, <1>2, <2>2
  <2> QED
    BY <2>1, <2>2
<1>5. ASSUME NEW s \in SUBSET S, NEW x \in s
      PROVE  g(s) = pieces[x].len + g(s \ {x})
  <2> HIDE DEF n
  <2>1. n(s) \in Int /\ n(s \ {x}) = n(s) - 1
    BY <1>1
  <2>2. CASE x = last
    BY <2>1, <2>2, <1>2 DEF EqualBut
  <2>3. CASE x # last /\ last \in s
    <3>1. n(s) - 1 \in Int
      BY <2>1
    <3>2. (n(s) - 1) * c = (n(s) - 1 - 1) * c + c
      BY <3>1, <1>2
    <3> QED
      BY <2>1, <2>3, <1>2, <3>2 DEF EqualBut
  <2>4. CASE x # last /\ last \notin s
    BY <2>1, <2>4, <1>2 DEF EqualBut
  <2> QED
    BY <2>2, <2>3, <2>4
<1>6. G \in [SUBSET S -> Nat] /\ G[{}] = 0
  BY <1>3, <1>4
<1>7. \A s \in SUBSET S : \A x \in s : G[s] = pieces[x].len + G[s \ {x}]
  <2> HIDE DEF g
  <2> QED
    BY <1>5
<1>8. G[S] = g(S)
  OBVIOUS
<1> HIDE DEF G
<1>9. Total(pieces, S) = G[S]
  <2>1. AddsUp(G, pieces, S)
    BY <1>6, <1>7 DEF AddsUp
  <2> HIDE DEF g, n
  <2> QED
    BY <2>1, TotalIs
<1> QED
  BY <1>8, <1>9

-----------------------------------------------------------------------------
(* The chunks cover the payload. *)

\* Products with a fixed factor grow with the other one.
LEMMA ProductGrows ==
  ASSUME NEW a \in Int, NEW b \in Int, NEW c \in Nat, a <= b
  PROVE  a * c <= b * c /\ a * c \in Int
<1>1. (b - a) * c >= 0
  OBVIOUS
<1>2. (b - a) * c = b * c - a * c
  OBVIOUS
<1> QED
  BY <1>1, <1>2

\* n is s divided by c, rounded up.
LEMMA RoundedUp ==
  ASSUME NEW s \in Nat, NEW c \in Nat \ {0}, NEW n, n = (s + c - 1) \div c
  PROVE  n \in Nat /\ (s = 0 => n = 0) /\ (s # 0 => n >= 1) /\ (n - 1) * c < s /\ s <= n * c
<1>1. n \in Int
  OBVIOUS
<1> QED
  BY <1>1

LEMMA ChunkSizeType ==
  ASSUME mtu \in Nat
  PROVE  ChunkSize(mtu) \in Nat \ {0}
  BY ResourceAssumption DEF ChunkSize

\* A payload that is not empty has its chunks, and the last of them its rest.
LEMMA CountCovers ==
  ASSUME mtu \in Nat, NEW r \in Resources
  PROVE  /\ SizeOf[r] \in Nat /\ ChunkCount(r) \in Nat
         /\ SizeOf[r] = 0 => ChunkCount(r) = 0
         /\ SizeOf[r] # 0 => ChunkCount(r) >= 1
         /\ (ChunkCount(r) - 1) * ChunkSize(mtu) < SizeOf[r]
         /\ SizeOf[r] <= ChunkCount(r) * ChunkSize(mtu)
<1>1. SizeOf[r] \in Nat /\ ChunkSize(mtu) \in Nat \ {0}
  BY ResourceAssumption, ChunkSizeType
<1>2. ChunkCount(r) = (SizeOf[r] + ChunkSize(mtu) - 1) \div ChunkSize(mtu)
  BY DEF ChunkCount
<1> DEFINE c == ChunkSize(mtu)
           s == SizeOf[r]
           n == ChunkCount(r)
<1>3. s \in Nat /\ c \in Nat \ {0} /\ n = (s + c - 1) \div c
  BY <1>1, <1>2
<1> HIDE DEF c, s, n
<1>4. n \in Nat /\ (s = 0 => n = 0) /\ (s # 0 => n >= 1) /\ (n - 1) * c < s /\ s <= n * c
  BY <1>3, RoundedUp
<1> QED
  BY <1>3, <1>4 DEF c, s, n

\* A resource has at least one frame, and a chunk per frame if it is not empty.
LEMMA FramesAreChunks ==
  ASSUME mtu \in Nat, NEW r \in Resources
  PROVE  /\ FramesOf(r) \in Nat /\ FramesOf(r) >= 1
         /\ ChunkCount(r) > 0 => SizeOf[r] # 0 /\ FramesOf(r) = ChunkCount(r)
  BY CountCovers DEF FramesOf

\* Every chunk but the last is full, and the last is what remains.
LEMMA PieceLength ==
  ASSUME mtu \in Nat, NEW r \in Resources, NEW i \in Nat, i < ChunkCount(r)
  PROVE  /\ Piece(r, i).of = r /\ Piece(r, i).off = i * ChunkSize(mtu)
         /\ Piece(r, i).len = IF i = ChunkCount(r) - 1 THEN SizeOf[r] - i * ChunkSize(mtu)
                              ELSE ChunkSize(mtu)
<1> DEFINE c == ChunkSize(mtu)
           n == ChunkCount(r)
           s == SizeOf[r]
<1>1. c \in Nat \ {0} /\ n \in Nat /\ s \in Nat /\ (n - 1) * c < s /\ s <= n * c
  BY ChunkSizeType, CountCovers
<1>2. Piece(r, i).of = r /\ Piece(r, i).off = i * c
  BY DEF Piece
<1>3. Piece(r, i).len = IF i * c + c > s THEN s - i * c ELSE c
  BY DEF Piece
<1>4. i < n
  OBVIOUS
<1> HIDE DEF c, n, s
<1>5. i * c \in Int /\ i * c + c = (i + 1) * c
  BY <1>1
<1>6. CASE i = n - 1
  <2>1. i + 1 = n
    BY <1>1, <1>6
  <2>2. s <= i * c + c
    BY <1>1, <1>5, <2>1
  <2>3. s - i * c = IF i * c + c > s THEN s - i * c ELSE c
    BY <1>1, <1>5, <2>2
  <2> QED
    BY <1>2, <1>3, <1>6, <2>3 DEF c, n, s
<1>7. CASE i # n - 1
  <2>1. i + 1 \in Int /\ n - 1 \in Int /\ i + 1 <= n - 1
    BY <1>1, <1>4, <1>7
  <2>2. (i + 1) * c <= (n - 1) * c
    BY <1>1, <2>1, ProductGrows
  <2>3. ~(i * c + c > s)
    BY <1>1, <1>5, <2>1, <2>2
  <2> QED
    BY <1>2, <1>3, <1>7, <2>3 DEF c, n, s
<1> QED
  BY <1>6, <1>7

\* All pieces in order make the payload.
LEMMA PiecesAreWhole ==
  ASSUME mtu \in Nat, NEW r \in Resources, NEW out,
         out = [i \in 1 .. ChunkCount(r) |-> Piece(r, i - 1)]
  PROVE  IsWhole(out, r)
<1> DEFINE c == ChunkSize(mtu)
           n == ChunkCount(r)
           s == SizeOf[r]
           l == s - (n - 1) * c
<1>1. c \in Nat \ {0} /\ n \in Nat /\ s \in Nat /\ (n - 1) * c < s /\ s <= n * c
      /\ (s = 0 => n = 0) /\ (s # 0 => n >= 1)
  BY ChunkSizeType, CountCovers
<1>2. ASSUME NEW i \in 1 .. n
      PROVE  out[i].of = r /\ out[i].off = (i - 1) * c
             /\ out[i].len = IF i = n THEN l ELSE c
  <2>1. i - 1 \in Nat /\ i - 1 < n /\ (i - 1 = n - 1 <=> i = n)
    BY <1>1
  <2>2. out[i] = Piece(r, i - 1)
    OBVIOUS
  <2> QED
    BY <2>1, <2>2, PieceLength
<1>3. DOMAIN out = 1 .. n
  OBVIOUS
<1> HIDE DEF c, n, s
<1>4. l \in Nat
  BY <1>1
<1> HIDE DEF l
<1>5. ASSUME NEW k \in Nat, k <= n
      PROVE  Total(out, 1 .. k) = IF k = n /\ n >= 1 THEN s ELSE k * c
  <2> DEFINE S == 1 .. k
  <2>1. IsFiniteSet(S) /\ Cardinality(S) = k
    BY FS_Interval
  <2>2. EqualBut(out, S, n, c, l)
    <3>1. \A i \in S : i \in 1 .. n
      BY <1>1, <1>5
    <3>2. \A i \in 1 .. n : out[i].len = IF i = n THEN l ELSE c
      BY <1>2
    <3> HIDE DEF S
    <3> QED
      BY <3>1, <3>2 DEF EqualBut
  <2>3. c \in Nat
    BY <1>1
  <2>4. Total(out, S) = IF n \in S THEN (Cardinality(S) - 1) * c + l ELSE Cardinality(S) * c
    <3> HIDE DEF S
    <3> QED
      BY <1>4, <2>1, <2>2, <2>3, TotalOfEqual
  <2>5. (n - 1) * c + l = s
    BY <1>1 DEF l
  <2>6. n \in 1 .. k <=> k = n /\ n >= 1
    BY <1>1, <1>5
  <2>7. CASE k = n /\ n >= 1
    BY <2>1, <2>4, <2>5, <2>6, <2>7
  <2>8. CASE ~(k = n /\ n >= 1)
    BY <2>1, <2>4, <2>6, <2>8
  <2> QED
    BY <2>7, <2>8
<1>6. Total(out, DOMAIN out) = s
  <2>1. Total(out, 1 .. n) = IF n >= 1 THEN s ELSE n * c
    BY <1>1, <1>5
  <2> QED
    BY <1>1, <1>3, <2>1
<1>7. ASSUME NEW i \in DOMAIN out
      PROVE  out[i].of = r /\ out[i].off = Total(out, 1 .. i - 1)
  <2>1. i \in 1 .. n
    BY <1>3
  <2>2. PICK k \in Nat : k = i - 1 /\ k <= n /\ k # n
    BY <1>1, <2>1
  <2>3. Total(out, 1 .. k) = k * c
    BY <1>5, <2>2
  <2> QED
    BY <1>2, <2>1, <2>2, <2>3
<1> QED
  BY <1>6, <1>7 DEF IsWhole, s

-----------------------------------------------------------------------------
(* The invariant. *)

\* A frame in flight is a chunk the sender has handed to the link.
Sent(f) == \E r \in Resources : \E i \in Nat : i < next[r] /\ f = Chunk(r, i)

InFlight ==
  /\ chan \in [1 .. Shared -> Seq(Frames)]
  /\ \A k \in 1 .. Shared : \A j \in 1 .. Len(chan[k]) : Sent(chan[k][j])

IsObject(o) ==
  /\ o = [status |-> o.status, id |-> o.id, total |-> o.total, count |-> o.count,
          received |-> o.received, chunks |-> o.chunks, out |-> o.out]
  /\ o.status \in {"IDLE", "RECEIVING", "COMPLETE", "FAILED"}
  /\ o.id \in Resources \cup {Nothing}

\* A receiver without an id has nothing; one with an id has the numbers of that
\* resource, from its HEAD, and only pieces of it that were sent.
Holds(o) ==
  /\ o.id = Nothing => o.total = 0 /\ o.count = 0 /\ DOMAIN o.chunks = {}
  /\ o.id # Nothing => o.total = SizeOf[o.id] /\ o.count = ChunkCount(o.id)
  /\ \A i \in DOMAIN o.chunks :
       i \in Nat /\ o.id # Nothing /\ i < next[o.id] /\ o.chunks[i] = Piece(o.id, i)

\* A receiver has nothing to hand out before it is complete, and then the payload
\* of a resource that was sent to its end.
Delivered(o) ==
  /\ o.status \in {"IDLE", "RECEIVING"} => o.out = <<>>
  /\ o.status = "COMPLETE" =>
       o.id \in Resources /\ next[o.id] = FramesOf(o.id) /\ IsWhole(o.out, o.id)

Types ==
  /\ mtu \in Mtus
  /\ next \in [Resources -> Nat] /\ \A r \in Resources : next[r] <= FramesOf(r)
  /\ hook \in Receivers \cup {Nothing}
  /\ lost \in 0 .. MaxLost

Objects ==
  /\ rx = [x \in Receivers |-> rx[x]]
  /\ \A x \in Receivers : IsObject(rx[x]) /\ Holds(rx[x]) /\ Delivered(rx[x])

IInv == Types /\ InFlight /\ Objects

LEMMA MtuIsNat ==
  ASSUME Types PROVE mtu \in Nat
  BY ResourceAssumption DEF Types

\* No step changes the MTU, so none changes what a chunk is.
LEMMA ChunksStay ==
  ASSUME mtu' = mtu
  PROVE  /\ \A r : FramesOf(r)' = FramesOf(r) /\ ChunkCount(r)' = ChunkCount(r)
         /\ \A r, i : Piece(r, i)' = Piece(r, i) /\ Chunk(r, i)' = Chunk(r, i)
         /\ Frames' = Frames
<1>1. ChunkSize(mtu)' = ChunkSize(mtu)
  BY DEF ChunkSize
<1>2. \A r : ChunkCount(r)' = ChunkCount(r)
  BY <1>1 DEF ChunkCount
<1>3. \A r : FramesOf(r)' = FramesOf(r)
  BY <1>2 DEF FramesOf
<1>4. \A r, i : Piece(r, i)' = Piece(r, i)
  BY <1>1 DEF Piece
<1>5. \A r, i : Chunk(r, i)' = Chunk(r, i)
  BY <1>2, <1>4 DEF Chunk
<1>6. \A r : Indices(r)' = Indices(r)
  BY <1>3 DEF Indices
<1>7. Frames' = Frames
  BY <1>5, <1>6 DEF Frames
<1> QED
  BY <1>2, <1>3, <1>4, <1>5, <1>7

\* What was sent stays sent.
LEMMA SentStays ==
  ASSUME mtu' = mtu, next \in [Resources -> Nat], next' \in [Resources -> Nat],
         \A r \in Resources : next[r] <= next'[r]
  PROVE  \A f : Sent(f) => Sent(f)'
<1> TAKE f
<1> HAVE Sent(f)
<1>1. PICK r \in Resources, i \in Nat : i < next[r] /\ f = Chunk(r, i)
  BY DEF Sent
<1>2. i < next'[r]
  BY <1>1
<1>3. f = Chunk(r, i)'
  BY <1>1, ChunksStay
<1> QED
  BY <1>2, <1>3 DEF Sent

\* Nor does more that is sent harm a receiver.
LEMMA ObjectStays ==
  ASSUME mtu' = mtu, next \in [Resources -> Nat], next' \in [Resources -> Nat],
         \A r \in Resources : next[r] <= next'[r],
         \A r \in Resources : next[r] = FramesOf(r) => next'[r] = next[r]
  PROVE  \A o : IsObject(o) /\ Holds(o) /\ Delivered(o) => Holds(o)' /\ Delivered(o)'
<1> TAKE o
<1> HAVE IsObject(o) /\ Holds(o) /\ Delivered(o)
<1>1. Holds(o)'
  BY ChunksStay DEF Holds, IsObject
<1>2. Delivered(o)'
  BY ChunksStay DEF Delivered
<1> QED
  BY <1>1, <1>2

LEMMA ObjectsFollow ==
  ASSUME rx' = [x \in Receivers |-> rx'[x]],
         \A x \in Receivers : \A o : o = rx'[x] => IsObject(o) /\ Holds(o)' /\ Delivered(o)'
  PROVE  Objects'
  BY DEF Objects, IsObject, Holds, Delivered

LEMMA InFlightFollows ==
  ASSUME mtu' = mtu, chan' \in [1 .. Shared -> Seq(Frames)],
         \A k \in 1 .. Shared : \A j \in 1 .. Len(chan'[k]) : \A f : f = chan'[k][j] => Sent(f)'
  PROVE  InFlight'
<1>1. Frames' = Frames
  BY ChunksStay
<1>2. ASSUME NEW k \in 1 .. Shared, NEW j \in 1 .. Len(chan'[k])
      PROVE  Sent(chan[k][j])'
  BY DEF Sent
<1> QED
  BY <1>1, <1>2 DEF InFlight

LEMMA IInvInit == Init => IInv
<1> SUFFICES ASSUME Init PROVE IInv
  OBVIOUS
<1>1. mtu \in Nat
  BY ResourceAssumption DEF Init
<1>2. Types
  <2>1. \A r \in Resources : 0 <= FramesOf(r)
    BY <1>1, FramesAreChunks
  <2> QED
    BY <2>1, ResourceAssumption DEF Init, Types
<1>3. InFlight
  BY DEF Init, InFlight
<1>4. Objects
  BY DEF Init, Objects, Idle, IsObject, Holds, Delivered
<1> QED
  BY <1>2, <1>3, <1>4 DEF IInv

LEMMA SendStep ==
  ASSUME IInv, NEW r \in Resources, SendChunk(r)
  PROVE  IInv'
<1>1. mtu \in Nat /\ mtu' = mtu /\ rx' = rx
  BY MtuIsNat DEF IInv, SendChunk
<1>2. next \in [Resources -> Nat] /\ next' = [next EXCEPT ![r] = @ + 1]
      /\ next[r] < FramesOf(r) /\ FramesOf(r) \in Nat
  BY <1>1, FramesAreChunks DEF IInv, Types, SendChunk
<1>3. next' \in [Resources -> Nat] /\ next'[r] = next[r] + 1
      /\ \A q \in Resources : next[q] <= next'[q] /\ (next[q] = FramesOf(q) => next'[q] = next[q])
  BY <1>2
<1>4. Types'
  <2>1. \A q \in Resources : next'[q] <= FramesOf(q)
    BY <1>2 DEF IInv, Types
  <2>2. \A q \in Resources : FramesOf(q)' = FramesOf(q)
    BY <1>1, ChunksStay
  <2> QED
    BY <1>1, <1>3, <2>1, <2>2 DEF IInv, Types, SendChunk
<1>5. InFlight'
  <2>1. PICK f : f = Chunk(r, next[r])
    OBVIOUS
  <2>2. f \in Frames
    <3>1. next[r] \in Indices(r)
      BY <1>2 DEF Indices
    <3> QED
      BY <2>1, <3>1 DEF Frames
  <2>3. Sent(f)'
    <3>1. \A i : Chunk(r, i)' = Chunk(r, i)
      BY <1>1, ChunksStay
    <3>2. PICK i \in Nat : i = next[r] /\ i < next'[r]
      BY <1>2, <1>3
    <3> QED
      BY <2>1, <3>1, <3>2 DEF Sent
  <2>4. chan \in [1 .. Shared -> Seq(Frames)] /\ chan' = [k \in 1 .. Shared |-> Append(chan[k], f)]
    BY <2>1 DEF IInv, InFlight, SendChunk
  <2>5. ASSUME NEW k \in 1 .. Shared, NEW j \in 1 .. Len(chan'[k]), NEW g, g = chan'[k][j]
        PROVE  Sent(g)'
    <3>1. CASE j \in 1 .. Len(chan[k])
      <4>1. g = chan[k][j]
        BY <2>4, <2>5, <3>1
      <4>2. Sent(g)
        BY <3>1, <4>1 DEF IInv, InFlight
      <4> QED
        BY <1>1, <1>3, <4>2, SentStays, <1>2
    <3>2. CASE j \notin 1 .. Len(chan[k])
      BY <2>2, <2>3, <2>4, <2>5, <3>2
    <3> QED
      BY <3>1, <3>2
  <2>6. chan' \in [1 .. Shared -> Seq(Frames)]
    BY <2>2, <2>4
  <2> QED
    BY <1>1, <2>5, <2>6, InFlightFollows
<1>6. Objects'
  <2>1. ASSUME NEW x \in Receivers, NEW o, o = rx'[x]
        PROVE  IsObject(o) /\ Holds(o)' /\ Delivered(o)'
    <3>1. IsObject(o) /\ Holds(o) /\ Delivered(o)
      BY <1>1, <2>1 DEF IInv, Objects
    <3> QED
      BY <1>1, <1>2, <1>3, <3>1, ObjectStays
  <2>2. rx' = [x \in Receivers |-> rx'[x]]
    BY <1>1 DEF IInv, Objects
  <2> QED
    BY <2>1, <2>2, ObjectsFollow
<1> QED
  BY <1>4, <1>5, <1>6 DEF IInv

\* Taking a frame off an interface leaves the others in flight.
LEMMA TailInFlight ==
  ASSUME IInv, UNCHANGED <<mtu, next>>, NEW k \in 1 .. Shared, chan[k] # <<>>,
         chan' = [chan EXCEPT ![k] = Tail(@)]
  PROVE  InFlight'
<1>1. chan \in [1 .. Shared -> Seq(Frames)]
  BY DEF IInv, InFlight
<1>2. chan[k] \in Seq(Frames) /\ chan[k] # <<>>
  BY <1>1
<1>3. Tail(chan[k]) \in Seq(Frames) /\ Len(Tail(chan[k])) = Len(chan[k]) - 1
      /\ \A j \in 1 .. Len(Tail(chan[k])) : Tail(chan[k])[j] = chan[k][j + 1]
  BY <1>2
<1>4. chan' \in [1 .. Shared -> Seq(Frames)]
  BY <1>1, <1>3
<1>5. next \in [Resources -> Nat] /\ next' \in [Resources -> Nat]
      /\ \A r \in Resources : next[r] <= next'[r]
  BY DEF IInv, Types
<1>6. ASSUME NEW m \in 1 .. Shared, NEW j \in 1 .. Len(chan'[m]), NEW f, f = chan'[m][j]
      PROVE  Sent(f)'
  <2>1. \E i \in 1 .. Len(chan[m]) : f = chan[m][i]
    <3>1. CASE m = k
      <4>1. chan'[m] = Tail(chan[k])
        BY <1>1, <3>1
      <4>2. j \in 1 .. Len(Tail(chan[k])) /\ f = Tail(chan[k])[j]
        BY <1>6, <4>1
      <4>3. f = chan[k][j + 1]
        BY <1>3, <4>2
      <4>4. j + 1 \in 1 .. Len(chan[k])
        BY <1>2, <1>3, <4>2
      <4> QED
        BY <3>1, <4>3, <4>4
    <3>2. CASE m # k
      BY <1>1, <1>6, <3>2
    <3> QED
      BY <3>1, <3>2
  <2>2. Sent(f)
    BY <2>1 DEF IInv, InFlight
  <2> QED
    BY <1>5, <2>2, SentStays
<1> QED
  BY <1>4, <1>6, InFlightFollows

LEMMA TypesStay ==
  ASSUME Types, UNCHANGED <<mtu, next>>, hook' \in Receivers \cup {Nothing},
         lost' \in 0 .. MaxLost
  PROVE  Types'
<1>1. \A r : FramesOf(r)' = FramesOf(r)
  BY ChunksStay
<1> QED
  BY <1>1 DEF Types

LEMMA ObjectsUnchanged ==
  ASSUME IInv, UNCHANGED <<mtu, next, rx>>
  PROVE  Objects'
<1>1. next \in [Resources -> Nat] /\ next' \in [Resources -> Nat]
      /\ (\A r \in Resources : next[r] <= next'[r])
      /\ \A r \in Resources : next[r] = FramesOf(r) => next'[r] = next[r]
  BY DEF IInv, Types
<1>2. ASSUME NEW x \in Receivers, NEW o, o = rx'[x]
      PROVE  IsObject(o) /\ Holds(o)' /\ Delivered(o)'
  <2>1. IsObject(o) /\ Holds(o) /\ Delivered(o)
    BY <1>2 DEF IInv, Objects
  <2> QED
    BY <1>1, <2>1, ObjectStays
<1>3. rx' = [x \in Receivers |-> rx'[x]]
  BY DEF IInv, Objects
<1> QED
  BY <1>2, <1>3, ObjectsFollow

\* A receiver that changes alone, to an object that is right, is all that changes.
LEMMA ObjectsChange ==
  ASSUME Objects, Types, UNCHANGED <<mtu, next>>, NEW x \in Receivers, NEW o,
         rx' = [rx EXCEPT ![x] = o], IsObject(o), Holds(o), Delivered(o)
  PROVE  Objects'
<1>1. next \in [Resources -> Nat] /\ next' \in [Resources -> Nat]
      /\ (\A r \in Resources : next[r] <= next'[r])
      /\ \A r \in Resources : next[r] = FramesOf(r) => next'[r] = next[r]
  BY DEF Types
<1>2. rx' = [y \in Receivers |-> IF y = x THEN o ELSE rx[y]]
  BY DEF Objects
<1>3. ASSUME NEW y \in Receivers, NEW p, p = rx'[y]
      PROVE  IsObject(p) /\ Holds(p)' /\ Delivered(p)'
  <2>1. IsObject(p) /\ Holds(p) /\ Delivered(p)
    BY <1>2, <1>3 DEF Objects
  <2> QED
    BY <1>1, <2>1, ObjectStays
<1>4. rx' = [y \in Receivers |-> rx'[y]]
  BY <1>2
<1> QED
  BY <1>3, <1>4, ObjectsFollow

\* A chunk that is taken is stored under its index, with its resource's numbers.
LEMMA StoreHolds ==
  ASSUME mtu \in Nat, next \in [Resources -> Nat], NEW o, IsObject(o), Holds(o),
         NEW f, Sent(f), Takes(o, f)
  PROVE  LET p == Store(o, f)
         IN  /\ IsObject(p) /\ Holds(p) /\ p.status = "RECEIVING" /\ p.out = o.out
             /\ p.id \in Resources /\ next[p.id] >= 1
<1>1. PICK r \in Resources, i \in Nat : i < next[r] /\ f = Chunk(r, i)
  BY DEF Sent
<1>2. f.id = r /\ f.index = i /\ f.piece = Piece(r, i)
      /\ (f.tag = "HEAD" <=> i = 0)
      /\ (f.tag = "HEAD" => f.total = SizeOf[r] /\ f.count = ChunkCount(r))
  BY <1>1 DEF Chunk
<1>3. r # Nothing /\ (o.id = Nothing => f.tag = "HEAD") /\ (o.id # Nothing => o.id = r)
      /\ o.status = "RECEIVING"
  BY <1>2, ResourceAssumption DEF Takes
<1>4. PICK p : p = Store(o, f)
  OBVIOUS
<1>5. DOMAIN o.chunks \cup {i} = DOMAIN p.chunks
      /\ \A j \in DOMAIN p.chunks : p.chunks[j] = IF j = i THEN Piece(r, i) ELSE o.chunks[j]
  BY <1>2, <1>4 DEF Store, IsObject
<1>6. /\ p.id = r /\ p.status = "RECEIVING" /\ p.out = o.out
      /\ p.total = IF f.tag = "HEAD" THEN SizeOf[r] ELSE o.total
      /\ p.count = IF f.tag = "HEAD" THEN ChunkCount(r) ELSE o.count
      /\ IsObject(p)
  BY <1>2, <1>3, <1>4 DEF Store, IsObject
<1>7. p.total = SizeOf[r] /\ p.count = ChunkCount(r)
  BY <1>3, <1>6 DEF Holds
<1>8. ASSUME NEW j \in DOMAIN p.chunks
      PROVE  j \in Nat /\ j < next[r] /\ p.chunks[j] = Piece(r, j)
  <2>1. CASE j = i
    BY <1>1, <1>5, <2>1
  <2>2. CASE j # i
    <3>1. j \in DOMAIN o.chunks
      BY <1>5, <2>2
    <3> QED
      BY <1>3, <1>5, <2>2, <3>1 DEF Holds
  <2> QED
    BY <2>1, <2>2
<1>9. Holds(p)
  BY <1>3, <1>6, <1>7, <1>8 DEF Holds
<1>10. next[r] >= 1
  BY <1>1
<1> QED
  BY <1>4, <1>6, <1>9, <1>10

\* A receiver that has what it counted hands out the payload that was sent.
LEMMA SettleHolds ==
  ASSUME Types, NEW p, IsObject(p), Holds(p), p.status = "RECEIVING", p.out = <<>>,
         p.id \in Resources, next[p.id] >= 1
  PROVE  IsObject(Settle(p)) /\ Holds(Settle(p)) /\ Delivered(Settle(p))
<1> DEFINE r == p.id
<1>1. mtu \in Nat /\ r \in Resources /\ r # Nothing
  BY MtuIsNat, ResourceAssumption
<1>2. p.total = SizeOf[r] /\ p.count = ChunkCount(r)
      /\ \A i \in DOMAIN p.chunks : i \in Nat /\ i < next[r] /\ p.chunks[i] = Piece(r, i)
  BY <1>1 DEF Holds
<1>3. next[r] \in Nat /\ next[r] <= FramesOf(r) /\ FramesOf(r) \in Nat /\ ChunkCount(r) \in Nat
  BY <1>1, FramesAreChunks, CountCovers DEF Types
<1>4. CASE Full(p) /\ Assembles(p)
  <2>1. PICK out : out = [i \in 1 .. p.count |-> p.chunks[i - 1]]
    OBVIOUS
  <2>2. p.count > 0 /\ \A i \in 0 .. p.count - 1 : i \in DOMAIN p.chunks
    BY <1>4 DEF Full, Assembles
  <2>3. out = [i \in 1 .. ChunkCount(r) |-> Piece(r, i - 1)]
    <3>1. \A i \in 1 .. p.count : p.chunks[i - 1] = Piece(r, i - 1)
      <4> TAKE i \in 1 .. p.count
      <4>1. PICK j : j = i - 1
        OBVIOUS
      <4>2. j \in 0 .. p.count - 1
        BY <1>2, <1>3, <4>1
      <4> QED
        BY <1>2, <2>2, <4>1, <4>2
    <3> QED
      BY <1>2, <2>1, <3>1
  <2>4. IsWhole(out, r)
    BY <1>1, <2>3, PiecesAreWhole
  <2>5. next[r] = FramesOf(r)
    <3>1. ChunkCount(r) - 1 < next[r]
      BY <1>2, <1>3, <2>2
    <3>2. FramesOf(r) = ChunkCount(r)
      BY <1>1, <1>2, <2>2, FramesAreChunks
    <3> QED
      BY <1>3, <3>1, <3>2
  <2>6. PICK q : q = [p EXCEPT !.status = "COMPLETE", !.out = out]
    OBVIOUS
  <2>7. Settle(p) = q
    BY <1>4, <2>1, <2>6 DEF Settle
  <2>8. /\ IsObject(q) /\ q.out = out /\ q.id = p.id /\ q.total = p.total
        /\ q.count = p.count /\ q.chunks = p.chunks
    BY <2>6 DEF IsObject
  <2>9. Holds(q)
    BY <2>8 DEF Holds
  <2>10. Delivered(q)
    BY <1>1, <2>4, <2>5, <2>6, <2>8 DEF Delivered, IsObject
  <2> QED
    BY <2>7, <2>8, <2>9, <2>10
<1>5. CASE Full(p) /\ ~Assembles(p)
  <2>1. PICK q : q = [p EXCEPT !.status = "FAILED"]
    OBVIOUS
  <2>2. Settle(p) = q
    BY <1>5, <2>1 DEF Settle
  <2>3. /\ IsObject(q) /\ q.status = "FAILED" /\ q.id = p.id /\ q.total = p.total
        /\ q.count = p.count /\ q.chunks = p.chunks
    BY <2>1 DEF IsObject
  <2> QED
    BY <2>2, <2>3 DEF Holds, Delivered
<1>6. CASE ~Full(p) /\ p.count = 0 /\ p.total = 0
  <2>1. PICK q : q = [p EXCEPT !.status = "COMPLETE"]
    OBVIOUS
  <2>2. Settle(p) = q
    BY <1>6, <2>1 DEF Settle
  <2>3. /\ IsObject(q) /\ q.out = <<>> /\ q.id = p.id /\ q.total = p.total
        /\ q.count = p.count /\ q.chunks = p.chunks
    BY <2>1 DEF IsObject
  <2>4. ChunkCount(r) = 0 /\ SizeOf[r] = 0 /\ FramesOf(r) = 1
    BY <1>2, <1>6 DEF FramesOf
  <2>5. IsWhole(<<>>, r)
    <3>1. <<>> = [i \in 1 .. ChunkCount(r) |-> Piece(r, i - 1)]
      BY <2>4
    <3> QED
      BY <1>1, <3>1, PiecesAreWhole
  <2>6. next[r] = FramesOf(r)
    BY <1>3, <2>4
  <2>7. Holds(q)
    BY <2>3 DEF Holds
  <2>8. Delivered(q)
    BY <1>1, <2>1, <2>3, <2>5, <2>6 DEF Delivered, IsObject
  <2> QED
    BY <2>2, <2>3, <2>7, <2>8
<1>7. CASE ~Full(p) /\ ~(p.count = 0 /\ p.total = 0)
  <2>1. Settle(p) = p
    BY <1>7 DEF Settle
  <2> QED
    BY <2>1 DEF Delivered
<1> QED
  BY <1>4, <1>5, <1>6, <1>7

LEMMA ArriveStep ==
  ASSUME IInv, NEW k \in 1 .. Shared, Arrive(k)
  PROVE  IInv'
<1>1. UNCHANGED <<mtu, next, hook, lost>> /\ chan[k] # <<>> /\ chan' = [chan EXCEPT ![k] = Tail(@)]
  BY DEF Arrive
<1>2. InFlight'
  BY <1>1, TailInFlight
<1>3. Types'
  BY <1>1, TypesStay DEF IInv, Types
<1>4. CASE UNCHANGED rx
  <2>1. Objects'
    BY <1>1, <1>4, ObjectsUnchanged
  <2> QED
    BY <1>2, <1>3, <2>1 DEF IInv
<1>5. CASE ~UNCHANGED rx
  <2>1. PICK f : f = Head(chan[k])
    OBVIOUS
  <2>2. hook # Nothing /\ rx[hook].status = "RECEIVING" /\ Takes(rx[hook], f)
        /\ rx' = [rx EXCEPT ![hook] = Settle(Store(@, f))]
    BY <1>5, <2>1 DEF Arrive
  <2>3. PICK x \in Receivers : x = hook
    BY <2>2 DEF IInv, Types
  <2>4. PICK o : o = rx[x]
    OBVIOUS
  <2>5. IsObject(o) /\ Holds(o) /\ Delivered(o) /\ o.status = "RECEIVING" /\ Takes(o, f)
    BY <2>2, <2>3, <2>4 DEF IInv, Objects
  <2>6. Sent(f)
    <3>1. chan[k] \in Seq(Frames) /\ chan[k] # <<>>
      BY <1>1 DEF IInv, InFlight
    <3>2. 1 \in 1 .. Len(chan[k]) /\ f = chan[k][1]
      BY <2>1, <3>1
    <3> QED
      BY <3>2 DEF IInv, InFlight
  <2>7. mtu \in Nat /\ next \in [Resources -> Nat]
    BY MtuIsNat DEF IInv, Types
  <2>8. PICK p : p = Store(o, f)
    OBVIOUS
  <2>9. IsObject(p) /\ Holds(p) /\ p.status = "RECEIVING" /\ p.out = <<>>
        /\ p.id \in Resources /\ next[p.id] >= 1
    BY <2>5, <2>6, <2>7, <2>8, StoreHolds DEF Delivered
  <2>10. PICK q : q = Settle(p)
    OBVIOUS
  <2>11. IsObject(q) /\ Holds(q) /\ Delivered(q)
    BY <2>9, <2>10, SettleHolds DEF IInv
  <2>12. rx' = [rx EXCEPT ![x] = q]
    BY <2>2, <2>3, <2>4, <2>8, <2>10
  <2>13. Objects'
    BY <1>1, <2>11, <2>12, ObjectsChange DEF IInv
  <2> QED
    BY <1>2, <1>3, <2>13 DEF IInv
<1> QED
  BY <1>4, <1>5

LEMMA LoseStep ==
  ASSUME IInv, NEW k \in 1 .. Shared, Lose(k)
  PROVE  IInv'
<1>1. UNCHANGED <<mtu, next, hook, rx>> /\ chan[k] # <<>> /\ chan' = [chan EXCEPT ![k] = Tail(@)]
      /\ lost < MaxLost /\ lost' = lost + 1
  BY DEF Lose
<1>2. InFlight'
  BY <1>1, TailInFlight
<1>3. Types'
  <2>1. lost' \in 0 .. MaxLost
    BY <1>1, ResourceAssumption DEF IInv, Types
  <2>2. Types /\ hook' \in Receivers \cup {Nothing}
    BY <1>1 DEF IInv, Types
  <2> QED
    BY <1>1, <2>1, <2>2, TypesStay
<1>4. Objects'
  BY <1>1, ObjectsUnchanged
<1> QED
  BY <1>2, <1>3, <1>4 DEF IInv

LEMMA ReceiveStep ==
  ASSUME IInv, NEW x \in Receivers, Receive(x)
  PROVE  IInv'
<1>1. UNCHANGED <<mtu, next, chan, lost>> /\ hook' = x /\ rx[x].status = "IDLE"
      /\ rx' = [rx EXCEPT ![x].status = "RECEIVING"]
  BY DEF Receive
<1>2. Types'
  BY <1>1, TypesStay DEF IInv, Types
<1>3. InFlight'
  <2>1. next \in [Resources -> Nat] /\ next' \in [Resources -> Nat]
        /\ \A r \in Resources : next[r] <= next'[r]
    BY <1>1 DEF IInv, Types
  <2>2. ASSUME NEW k \in 1 .. Shared, NEW j \in 1 .. Len(chan'[k]), NEW f, f = chan'[k][j]
        PROVE  Sent(f)'
    <3>1. Sent(f)
      BY <1>1, <2>2 DEF IInv, InFlight
    <3> QED
      BY <1>1, <2>1, <3>1, SentStays
  <2>3. chan' \in [1 .. Shared -> Seq(Frames)]
    BY <1>1 DEF IInv, InFlight
  <2> QED
    BY <1>1, <2>2, <2>3, InFlightFollows
<1>4. Objects'
  <2>1. PICK o : o = [rx[x] EXCEPT !.status = "RECEIVING"]
    OBVIOUS
  <2>2. IsObject(rx[x]) /\ Holds(rx[x]) /\ Delivered(rx[x])
    BY DEF IInv, Objects
  <2>3. /\ IsObject(o) /\ o.status = "RECEIVING" /\ o.out = <<>> /\ o.id = rx[x].id
        /\ o.total = rx[x].total /\ o.count = rx[x].count /\ o.chunks = rx[x].chunks
    BY <1>1, <2>1, <2>2 DEF IsObject, Delivered
  <2>4. Holds(o) /\ Delivered(o)
    BY <2>2, <2>3 DEF Holds, Delivered
  <2>5. rx' = [rx EXCEPT ![x] = o]
    BY <1>1, <2>1
  <2> QED
    BY <1>1, <2>3, <2>4, <2>5, ObjectsChange DEF IInv
<1> QED
  BY <1>2, <1>3, <1>4 DEF IInv

LEMMA StutterStep ==
  ASSUME IInv, UNCHANGED vars
  PROVE  IInv'
<1>1. UNCHANGED <<mtu, next, chan, hook, rx, lost>>
  BY DEF vars
<1>2. Types'
  BY <1>1, TypesStay DEF IInv, Types
<1>3. InFlight'
  BY <1>1, ChunksStay DEF IInv, InFlight, Sent
<1>4. Objects'
  BY <1>1, ObjectsUnchanged
<1> QED
  BY <1>2, <1>3, <1>4 DEF IInv

LEMMA IInvStep == IInv /\ [Next]_vars => IInv'
  BY SendStep, ReceiveStep, ArriveStep, LoseStep, StutterStep DEF Next

\* IInvHolds: in every reachable state a receiver holds sent pieces of one resource.
LEMMA IInvHolds == Spec => []IInv
  BY IInvInit, IInvStep, PTL DEF Spec

\* TypeCorrect: every variable has its type, and a receiver only chunks of its
\* resource, under their own index (Resource::on_chunk).
THEOREM TypeCorrect == Spec => []TypeOK
<1>1. IInv => TypeOK
  <2> SUFFICES ASSUME IInv PROVE TypeOK
    OBVIOUS
  <2>1. \A k \in 1 .. Shared : \A j \in 1 .. Len(chan[k]) : chan[k][j] \in Frames
    BY DEF IInv, InFlight
  <2>2. \A x \in Receivers :
          /\ rx[x].status \in {"IDLE", "RECEIVING", "COMPLETE", "FAILED"}
          /\ rx[x].id \in Resources \cup {Nothing}
          /\ \A i \in DOMAIN rx[x].chunks :
               rx[x].id # Nothing /\ rx[x].chunks[i] = Piece(rx[x].id, i)
    BY DEF IInv, Objects, IsObject, Holds
  <2>3. DOMAIN chan = 1 .. Shared /\ DOMAIN rx = Receivers
    BY DEF IInv, InFlight, Objects
  <2> QED
    BY <2>1, <2>2, <2>3 DEF IInv, Types, TypeOK
<1> QED
  BY <1>1, IInvHolds, PTL

\* FullChunksFitHolds: with the constants of resource.cpp, a frame that carries a
\* full CHUNK_PAYLOAD is no larger than the MTU, whichever chunk it is.
THEOREM FullChunksFitHolds ==
  ASSUME ChunkPayload = 256, Headroom = 100
  PROVE  Spec => []FullChunksFit
<1>1. IInv => FullChunksFit
  <2> SUFFICES ASSUME IInv, mtu >= 356, NEW k \in 1 .. Shared, NEW j \in 1 .. Len(chan[k])
               PROVE  FrameSize(chan[k][j]) <= mtu
    BY DEF FullChunksFit
  <2>1. mtu \in Nat
    BY MtuIsNat DEF IInv
  <2>2. ChunkSize(mtu) = 256
    BY <2>1 DEF ChunkSize
  <2>3. Sent(chan[k][j])
    BY DEF IInv, InFlight
  <2>4. PICK r \in Resources, i \in Nat : chan[k][j] = Chunk(r, i)
    BY <2>3 DEF Sent
  <2>5. PICK f : f = chan[k][j]
    OBVIOUS
  <2>6. f.tag \in {"HEAD", "BODY"} /\ f.piece.len \in Int /\ f.piece.len <= 256
    <3>1. SizeOf[r] \in Nat /\ i * 256 \in Int
      BY ResourceAssumption
    <3>2. f.piece = Piece(r, i) /\ f.tag \in {"HEAD", "BODY"}
      BY <2>4, <2>5 DEF Chunk
    <3> QED
      BY <2>2, <3>1, <3>2 DEF Piece
  <2>7. FrameSize(f) <= 355
    <3>1. \A n \in Int : n <= 285 => n \div 16 \in Int /\ n \div 16 <= 17
      OBVIOUS
    <3>2. PICK n : n = f.piece.len + IF f.tag = "HEAD" THEN 29 ELSE 21
      OBVIOUS
    <3>3. n \in Int /\ n <= 285
      BY <2>6, <3>2
    <3>4. FrameSize(f) = 19 + 16 + 16 * (n \div 16 + 1) + 32
      BY <3>2 DEF FrameSize
    <3> QED
      BY <3>1, <3>3, <3>4
  <2>8. FrameSize(f) \in Int
    BY <2>6 DEF FrameSize
  <2> QED
    BY <2>1, <2>5, <2>7, <2>8
<1> QED
  BY <1>1, IInvHolds, PTL

-----------------------------------------------------------------------------
(* Resource implements ResourceTransfer. *)

\* A result is what a complete receiver has, and that is never corrupt.
LEMMA ResultIs ==
  ASSUME IInv
  PROVE  result = [x \in Receivers |-> IF rx[x].status = "COMPLETE" THEN rx[x].id ELSE Nothing]
  BY DEF IInv, Objects, Delivered, result

LEMMA TransferInit == Init => Transfer!Init
<1> SUFFICES ASSUME Init PROVE Transfer!Init
  OBVIOUS
<1>1. IInv
  BY IInvInit
<1>2. offered = {}
  <2>1. \A r \in Resources : FramesOf(r) # 0
    BY <1>1, MtuIsNat, FramesAreChunks DEF IInv
  <2> QED
    BY <2>1 DEF offered, Init
<1>3. result = [x \in Receivers |-> Nothing]
  BY <1>1, ResultIs DEF Init, Idle
<1> QED
  BY <1>2, <1>3 DEF Transfer!Init

LEMMA TransferStep ==
  ASSUME IInv, IInv', [Next]_vars
  PROVE  [Transfer!Next]_<<offered, result>>
<1>1. mtu' = mtu /\ \A r : FramesOf(r)' = FramesOf(r)
  <2>1. mtu' = mtu
    BY DEF Next, SendChunk, Receive, Arrive, Lose, vars
  <2> QED
    BY <2>1, ChunksStay
<1>2. result = [x \in Receivers |-> IF rx[x].status = "COMPLETE" THEN rx[x].id ELSE Nothing]
  BY ResultIs
<1>3. result' = [x \in Receivers |-> IF rx'[x].status = "COMPLETE" THEN rx'[x].id ELSE Nothing]
  BY DEF IInv, Objects, Delivered, result
<1>4. offered = {r \in Resources : next[r] = FramesOf(r)}
      /\ offered' = {r \in Resources : next'[r] = FramesOf(r)}
  BY <1>1 DEF offered
<1>5. ASSUME UNCHANGED next, UNCHANGED rx
      PROVE  UNCHANGED <<offered, result>>
  BY <1>2, <1>3, <1>4, <1>5
<1>6. ASSUME NEW r \in Resources, SendChunk(r)
      PROVE  [Transfer!Next]_<<offered, result>>
  <2>1. rx' = rx /\ next' = [next EXCEPT ![r] = @ + 1] /\ next[r] < FramesOf(r)
        /\ next \in [Resources -> Nat] /\ FramesOf(r) \in Nat
    BY <1>6, MtuIsNat, FramesAreChunks DEF SendChunk, IInv, Types
  <2>2. result' = result
    BY <1>2, <1>3, <2>1
  <2>3. r \notin offered
    BY <1>4, <2>1
  <2>4. CASE next[r] + 1 = FramesOf(r)
    <3>1. offered' = offered \cup {r}
      BY <1>4, <2>1, <2>4
    <3> QED
      BY <2>2, <2>3, <3>1 DEF Transfer!Next, Transfer!Offer
  <2>5. CASE next[r] + 1 # FramesOf(r)
    <3>1. offered' = offered
      BY <1>4, <2>1, <2>5
    <3> QED
      BY <2>2, <3>1
  <2> QED
    BY <2>4, <2>5
<1>7. ASSUME NEW x \in Receivers, Receive(x)
      PROVE  UNCHANGED <<offered, result>>
  <2>1. next' = next /\ rx[x].status = "IDLE" /\ rx' = [rx EXCEPT ![x].status = "RECEIVING"]
        /\ rx = [y \in Receivers |-> rx[y]] /\ IsObject(rx[x])
    BY <1>7 DEF Receive, IInv, Objects
  <2>2. \A y \in Receivers : rx'[y].status = "COMPLETE" <=> rx[y].status = "COMPLETE"
    BY <2>1 DEF IsObject
  <2>3. \A y \in Receivers : rx[y].status = "COMPLETE" => rx'[y].id = rx[y].id
    BY <2>1 DEF IsObject
  <2> QED
    BY <1>2, <1>3, <1>4, <2>1, <2>2, <2>3
<1>8. ASSUME NEW k \in 1 .. Shared, Arrive(k), ~UNCHANGED rx
      PROVE  [Transfer!Next]_<<offered, result>>
  <2>1. PICK q : rx' = [rx EXCEPT ![hook] = q] /\ hook # Nothing
                 /\ rx[hook].status = "RECEIVING"
    BY <1>8 DEF Arrive
  <2>2. PICK x \in Receivers : x = hook
    BY <2>1 DEF IInv, Types
  <2>3. rx = [y \in Receivers |-> rx[y]] /\ offered' = offered
    BY <1>4, <1>8 DEF IInv, Objects, Arrive
  <2>4. rx' = [y \in Receivers |-> IF y = x THEN q ELSE rx[y]]
    BY <2>1, <2>2, <2>3
  <2>5. result[x] = Nothing
    BY <1>2, <2>1, <2>2
  <2>6. CASE q.status = "COMPLETE"
    <3>1. result' = [result EXCEPT ![x] = q.id]
      BY <1>2, <1>3, <2>4, <2>6
    <3>2. q.id \in Resources /\ next'[q.id] = FramesOf(q.id)
      <4>1. rx'[x] = q
        BY <2>4
      <4>2. (rx[x].id \in Resources /\ next[rx[x].id] = FramesOf(rx[x].id))'
        BY <2>6, <4>1 DEF IInv, Objects, Delivered
      <4> QED
        BY <1>1, <4>1, <4>2 DEF FramesOf, ChunkCount, ChunkSize
    <3>3. q.id \in offered
      BY <1>4, <2>3, <3>2
    <3> QED
      BY <2>3, <2>5, <3>1, <3>2, <3>3 DEF Transfer!Next, Transfer!Deliver
  <2>7. CASE q.status # "COMPLETE"
    <3>1. result' = result
      BY <1>2, <1>3, <2>1, <2>2, <2>4, <2>7
    <3> QED
      BY <2>3, <3>1
  <2> QED
    BY <2>6, <2>7
<1>9. ASSUME NEW k \in 1 .. Shared, Arrive(k) \/ Lose(k)
      PROVE  UNCHANGED next /\ (Lose(k) => UNCHANGED rx)
  BY <1>9 DEF Arrive, Lose
<1>10. ASSUME UNCHANGED vars
       PROVE  UNCHANGED next /\ UNCHANGED rx
  BY <1>10 DEF vars
<1> QED
  BY <1>5, <1>6, <1>7, <1>8, <1>9, <1>10 DEF Next

\* ImplementsTransferHolds: for any resources, sizes, MTUs and interfaces, whatever is
\* lost, repeated or mixed, a receiver's on_complete is called at most once, with the
\* whole payload of one resource that was sent to its end.
THEOREM ImplementsTransferHolds == Spec => ImplementsTransfer
  BY IInvHolds, TransferInit, TransferStep, PTL DEF Spec, ImplementsTransfer, Transfer!Spec
=============================================================================
