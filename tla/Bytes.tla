--------------------------------- MODULE Bytes ---------------------------------
(* RNS::Bytes (include/rtreticulum/bytes.h, src/bytes.cpp): byte strings that  *)
(* share their buffer until one of them is written.  A handle is a variable of *)
(* type Bytes; one that is destroyed and constructed anew is one assigned to.  *)
EXTENDS Integers, Sequences

CONSTANTS
    Handles,        \* variables of type Bytes
    Buffers,        \* addresses of a Data
    NoBuffer,       \* nullptr
    Chunks,         \* contents given from outside, sequences of bytes
    Hexes,          \* digits given from outside, sequences of characters
    Fills,          \* bytes written through operator[] and writable()
    MaxLen          \* bound: length of a byte string

ASSUME BytesAssumption ==
    /\ NoBuffer \notin Buffers
    /\ MaxLen \in Nat
    /\ Chunks \subseteq Seq(0..255) /\ <<>> \in Chunks
    /\ Hexes \subseteq Seq(0..255)
    /\ Fills \subseteq 0..255

VARIABLES
    heap,           \* the buffers' contents
    data,           \* _data
    exclusive       \* _exclusive

vars == <<heap, data, exclusive>>

Byte == 0..255
Smaller(m, n) == IF m < n THEN m ELSE n

Value(h) == IF data[h] = NoBuffer THEN <<>> ELSE heap[data[h]]

-----------------------------------------------------------------------------
(* Pure functions of contents. *)

\* size_t len is cut to what there is.
Mid(s, pos, len) ==
    IF pos >= Len(s) THEN <<>> ELSE SubSeq(s, pos + 1, pos + Smaller(len, Len(s) - pos))

Right(s, len) == SubSeq(s, Len(s) - Smaller(len, Len(s)) + 1, Len(s))

Resized(s, n) == [i \in 1..n |-> IF i <= Len(s) THEN s[i] ELSE 0]

\* The value of a digit in ASCII.
Nibble(c) == ((c % 32) + 9) % 25

FromHex(x) ==
    [i \in 1..(Len(x) \div 2) |-> (Nibble(x[2*i-1]) * 16 + Nibble(x[2*i])) % 256]

Digit(n, upper) == IF n < 10 THEN 48 + n ELSE IF upper THEN 55 + n ELSE 87 + n

ToHex(s, upper) ==
    [i \in 1..2*Len(s) |->
       Digit(IF (i % 2) = 1 THEN s[(i + 1) \div 2] \div 16 ELSE s[i \div 2] % 16, upper)]

\* operator < of std::vector
Less(s, t) ==
    \E i \in 1..Len(t) :
      /\ \A j \in 1..i-1 : j <= Len(s) /\ s[j] = t[j]
      /\ i > Len(s) \/ s[i] < t[i]

\* Mutant: A null buffer comes before everything else.
Compare_NullFirst(h, g) ==
    CASE data[h] = NoBuffer /\ data[g] = NoBuffer -> 0
      [] data[h] = NoBuffer /\ data[g] # NoBuffer -> -1
      [] data[h] # NoBuffer /\ data[g] = NoBuffer -> 1
      [] OTHER -> IF Less(heap[data[h]], heap[data[g]]) THEN -1
                  ELSE IF Less(heap[data[g]], heap[data[h]]) THEN 1 ELSE 0

IsEmpty(h) == data[h] = NoBuffer \/ heap[data[h]] = <<>>

\* compare()
Compare(h, g) ==
    CASE IsEmpty(h) /\ IsEmpty(g) -> 0
      [] IsEmpty(h) /\ ~IsEmpty(g) -> -1
      [] ~IsEmpty(h) /\ IsEmpty(g) -> 1
      [] OTHER -> IF Less(heap[data[h]], heap[data[g]]) THEN -1
                  ELSE IF Less(heap[data[g]], heap[data[h]]) THEN 1 ELSE 0

-----------------------------------------------------------------------------
(* Buffers *)

Free == {b \in Buffers : \A g \in Handles : data[g] # b}

\* h is left with buffer b and contents s; a buffer without a handle is freed.
Become(h, b, s) ==
    /\ data' = [data EXCEPT ![h] = b]
    /\ heap' = [c \in Buffers |->
                  IF c = b THEN s
                  ELSE IF \E g \in Handles \ {h} : data[g] = c THEN heap[c] ELSE <<>>]

\* exclusiveData(): the buffers it can leave h with.
ExclusiveData(h) == IF data[h] # NoBuffer /\ exclusive[h] THEN {data[h]} ELSE Free

\* h gets a buffer of its own, and contents s in it.
Write(h, s) ==
    /\ Len(s) <= MaxLen
    /\ \E b \in ExclusiveData(h) : Become(h, b, s)
    /\ exclusive' = [exclusive EXCEPT ![h] = TRUE]

Init ==
    /\ heap = [b \in Buffers |-> <<>>]
    /\ data = [h \in Handles |-> NoBuffer]
    /\ exclusive = [h \in Handles |-> TRUE]

-----------------------------------------------------------------------------
(* Operations *)

Clear(h) ==
    /\ Become(h, NoBuffer, <<>>)
    /\ exclusive' = [exclusive EXCEPT ![h] = TRUE]

\* Bytes(size_t): no bytes, but a buffer.
Reserve(h) ==
    /\ \E b \in Free : Become(h, b, <<>>)
    /\ exclusive' = [exclusive EXCEPT ![h] = TRUE]

AssignChunk(h, s) == IF s = <<>> THEN Clear(h) ELSE Write(h, s)
AssignHex(h, x) == AssignChunk(h, FromHex(x))

\* assign(const Bytes&): neither owns the buffer afterwards.
Share(h, g) ==
    /\ Become(h, data[g], Value(g))
    /\ exclusive' = [exclusive EXCEPT ![g] = FALSE, ![h] = FALSE]

\* h is what a call returned in a new Bytes with contents s, constructed in
\* place, or assigned from a temporary, which leaves it as if it were shared.
Returned(h, s, e) ==
    /\ Len(s) <= MaxLen
    /\ IF s = <<>> THEN Become(h, NoBuffer, s) ELSE \E b \in Free : Become(h, b, s)
    /\ \E own \in BOOLEAN : exclusive' = [e EXCEPT ![h] = own]

\* mid(), left() and right()
Slice(h, g) ==
    \/ \E pos, len \in 0..MaxLen : Returned(h, Mid(Value(g), pos, len), exclusive)
    \/ \E len \in 0..MaxLen : Returned(h, Right(Value(g), len), exclusive)

\* operator +: a copy of g with k appended, which shares g's buffer if k is
\* empty and leaves g's flag cleared in any case.
Plus(h, g, k) ==
    IF Value(k) = <<>> THEN Share(h, g)
    ELSE Returned(h, Value(g) \o Value(k), [exclusive EXCEPT ![g] = FALSE])

AppendChunk(h, s) == IF s = <<>> THEN UNCHANGED vars ELSE Write(h, Value(h) \o s)
AppendHex(h, x) == AppendChunk(h, FromHex(x))

\* append(const Bytes&), which may be h itself.
AppendBytes(h, g) == AppendChunk(h, Value(g))

\* Mutant: The reference is into a shared buffer.
PutByte_InPlace(h, i, v) ==
    /\ i \in DOMAIN Value(h)
    /\ heap' = [heap EXCEPT ![data[h]][i] = v]
    /\ UNCHANGED <<data, exclusive>>

\* operator[] and a write through the reference.
PutByte(h, i, v) == i \in DOMAIN Value(h) /\ Write(h, [Value(h) EXCEPT ![i] = v])

Resize(h, n) ==
    IF n = Len(Value(h)) THEN UNCHANGED vars ELSE Write(h, Resized(Value(h), n))

\* writable(), and a caller that fills the buffer it points to.
Writable(h, n, v) ==
    LET size == IF n > 0 THEN n ELSE Len(Value(h))
    IN  (n > 0 \/ data[h] # NoBuffer) /\ Write(h, [i \in 1..size |-> v])

Next ==
    \E h \in Handles :
      \/ Clear(h) \/ Reserve(h)
      \/ \E s \in Chunks : AssignChunk(h, s) \/ AppendChunk(h, s)
      \/ \E x \in Hexes : AssignHex(h, x) \/ AppendHex(h, x)
      \/ \E g \in Handles : Share(h, g) \/ Slice(h, g) \/ AppendBytes(h, g)
      \/ \E g, k \in Handles : Plus(h, g, k)
      \/ \E i \in 1..MaxLen, v \in Fills : PutByte(h, i, v)
      \/ \E n \in 0..MaxLen : Resize(h, n)
      \/ \E n \in 0..MaxLen, v \in Fills : Writable(h, n, v)

Spec == Init /\ [][Next]_vars

-----------------------------------------------------------------------------
(* Properties *)

(* Every variable has its type. *)
TypeOK ==
    /\ heap \in [Buffers -> Seq(Byte)]
    /\ data \in [Handles -> Buffers \cup {NoBuffer}]
    /\ exclusive \in [Handles -> BOOLEAN]

(* A handle that takes a buffer for its own is the only one that has it: the   *)
(* flag is cleared on both sides of every copy, through const references too   *)
(* (shareData()).                                                              *)
ExclusiveOwns ==
    \A h \in Handles :
      data[h] # NoBuffer /\ exclusive[h] =>
        \A g \in Handles \ {h} : data[g] # data[h]

Values == INSTANCE ByteValues WITH
    value <- [h \in Handles |-> Value(h)],
    Inputs <- Chunks \cup {FromHex(x) : x \in Hexes}

(* Handles behave like values: whatever was copied, sliced, added or returned  *)
(* before, an operation on one handle is never seen through another.           *)
ImplementsValues == Values!Spec

(* compare() is zero exactly for equal contents, with or without a buffer, and *)
(* a total order: handles are the keys of every table of the stack.            *)
KeysAreOrdered ==
    \A h, g, k \in Handles :
      /\ Compare(h, g) = 0 <=> Value(h) = Value(g)
      /\ Compare(h, g) = -Compare(g, h)
      /\ Compare(h, g) < 0 /\ Compare(g, k) < 0 => Compare(h, k) < 0

(* assignHex() reads back what toHex() wrote, in either case: keys and hashes  *)
(* are stored and shown as digits.                                             *)
HexRoundTrip ==
    \A h \in Handles, upper \in BOOLEAN : FromHex(ToHex(Value(h), upper)) = Value(h)
=============================================================================
