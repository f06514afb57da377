-------------------------------- MODULE MsgPack --------------------------------
(* RNS::MsgPack (src/msgpack.cpp): the writers append one value each to a      *)
(* buffer, and a Reader over the buffer, or over what is left of it, reads     *)
(* them in order or skips whole values.                                        *)
(*                                                                             *)
(* A call is a pair of its kind and its argument as bytes: eight in two's      *)
(* complement for pack_int, the eight of the double for pack_float64, the data *)
(* for pack_bin, the count alone for pack_array_header, 1 for pack_nil.  A     *)
(* size_t is as wide as on a host: a position plus a length does not wrap.     *)
EXTENDS Integers, Sequences

CONSTANTS
    PackCalls,      \* the calls a writer makes
    MaxCalls,       \* bound: calls per buffer
    MaxOut          \* bound: bytes of what is packed, unless it is alone

UInt8 == 0..255
Most == 2147483647      \* bytes of data, and elements of an array: less than 2^31

IsCall(c) ==
    \/ c = <<"nil", <<1>>>>
    \/ c \in {"bool"} \X {<<0>>, <<1>>}
    \/ c \in {"int", "float"} \X [1..8 -> UInt8]
    \/ c \in {"bin"} \X Seq(UInt8) /\ Len(c[2]) <= Most
    \/ c \in {"array"} \X Seq(Nat) /\ Len(c[2]) = 1 /\ c[2][1] <= Most

ASSUME MsgPackAssumption ==
    /\ MaxCalls \in Nat /\ MaxOut \in Nat
    /\ \A c \in PackCalls : IsCall(c)

VARIABLES
    calls,          \* the values packed
    out,            \* the buffer
    cut,            \* it lost its end
    pos,            \* _pos of the reader
    taken,          \* how many of the calls it is past
    same            \* what it read is what was packed

msgPackVars == <<calls, out, cut, pos, taken, same>>

-----------------------------------------------------------------------------
(* Writing *)

\* The bytes of v, most significant first.
BigEndian(v, n) == [i \in 1..n |-> (v \div 256^(n - i)) % 256]

Low(w, n) == SubSeq(w, 9 - n, 8)

\* 0 <= w < 256^n, and -256 <= w < 0.
Fits(w, n) == \A i \in 1..8 - n : w[i] = 0
Minus(w) == \A i \in 1..7 : w[i] = 255

PackInt(w) ==
    CASE Fits(w, 1) /\ w[8] < 128             -> <<w[8]>>
      [] Fits(w, 1) /\ w[8] >= 128            -> <<204, w[8]>>
      [] Fits(w, 2) /\ ~Fits(w, 1)            -> <<205>> \o Low(w, 2)
      [] Fits(w, 4) /\ ~Fits(w, 2)            -> <<206>> \o Low(w, 4)
      [] Minus(w) /\ w[8] >= 224              -> <<w[8]>>
      [] Minus(w) /\ w[8] >= 128 /\ w[8] < 224 -> <<208, w[8]>>
      [] OTHER                                -> <<211>> \o w

PackBin(s) ==
    (CASE Len(s) <= 255                    -> <<196, Len(s)>>
       [] Len(s) > 255 /\ Len(s) <= 65535  -> <<197>> \o BigEndian(Len(s), 2)
       [] OTHER                            -> <<198>> \o BigEndian(Len(s), 4)) \o s

PackArrayHeader(n) ==
    CASE n <= 15                  -> <<144 + n>>
      [] n > 15 /\ n <= 65535     -> <<220>> \o BigEndian(n, 2)
      [] OTHER                    -> <<221>> \o BigEndian(n, 4)

Pack(c) ==
    CASE c[1] = "nil"   -> <<192>>
      [] c[1] = "bool"  -> <<194 + c[2][1]>>
      [] c[1] = "int"   -> PackInt(c[2])
      [] c[1] = "float" -> <<203>> \o c[2]
      [] c[1] = "bin"   -> PackBin(c[2])
      [] c[1] = "array" -> PackArrayHeader(c[2][1])

-----------------------------------------------------------------------------
(* Reading: what a call returns, and where it leaves the position *)

\* peek(); next() moves on, but not past the end.
Peek(s, p) == IF p < Len(s) THEN s[p + 1] ELSE 0
Past(s, p, n) == IF p + n < Len(s) THEN p + n ELSE Len(s)
Nexts(s, p, n) == [i \in 1..n |-> Peek(s, p + i - 1)]

\* The first of four bytes is below 128 in all that is modelled.
Number(b) ==
    LET v[i \in 0..Len(b)] == IF i = 0 THEN 0 ELSE v[i - 1] * 256 + b[i] IN v[Len(b)]

Extended(b, signed) ==
    [i \in 1..8 |-> IF i > 8 - Len(b) THEN b[i + Len(b) - 8]
                    ELSE IF signed /\ b[1] >= 128 THEN 255 ELSE 0]

\* Bytes after 0xCC .. 0xCF (unsigned) and 0xD0 .. 0xD3.
IntWidth(b) == 2^(b % 4)

\* Mutant: the unsigned bytes are sign-extended too.
ReadInt_AllSigned(s, p) ==
    LET b == Peek(s, p)
        q == Past(s, p, 1)
    IN  IF b \in 204..211
        THEN <<Extended(Nexts(s, q, IntWidth(b)), TRUE), Past(s, q, IntWidth(b))>>
        ELSE <<Extended(<<b>>, b >= 224), q>>

ReadInt(s, p) ==
    LET b == Peek(s, p)
        q == Past(s, p, 1)
    IN  CASE b < 128 \/ b >= 224 -> <<Extended(<<b>>, TRUE), q>>
          [] b \in 204..211 ->
               <<Extended(Nexts(s, q, IntWidth(b)), b >= 208), Past(s, q, IntWidth(b))>>
          [] OTHER -> <<[i \in 1..8 |-> 0], q>>

\* The bytes of a double, or of a float if that is what there is.
ReadFloat64(s, p) ==
    LET q == Past(s, p, 1)
        n == IF Peek(s, p) = 202 THEN 4 ELSE 8
    IN  <<Nexts(s, q, n), Past(s, q, n)>>

\* Bytes of the length after bin 8/16/32, and str 8/16/32, which a Python peer
\* may send instead.
LengthWidth == [b \in 196..198 \cup 217..219 |->
                  CASE b \in {196, 217} -> 1 [] b \in {197, 218} -> 2 [] b \in {198, 219} -> 4]

ReadBin(s, p) ==
    LET b == Peek(s, p)
        w == IF b \in DOMAIN LengthWidth THEN LengthWidth[b] ELSE 0
        q == Past(s, p, 1 + w)
        len == IF b \in 160..191 THEN b - 160 ELSE Number(Nexts(s, p + 1, w))
    IN  IF (w = 0 /\ b \notin 160..191) \/ q + len > Len(s) THEN <<<<>>, q>>
        ELSE <<SubSeq(s, q + 1, q + len), q + len>>

\* A count of one byte or in two or four more; 0 for anything else.
ReadArrayHeader(s, p) ==
    LET b == Peek(s, p)
        q == Past(s, p, 1)
        w == IF b = 220 THEN 2 ELSE IF b = 221 THEN 4 ELSE 0
    IN  IF b \in 144..159 THEN <<<<b - 144>>, q>>
        ELSE <<<<Number(Nexts(s, q, w))>>, Past(s, q, w)>>

\* Where a call that expects the kind leaves the reader, and what it returns.
ReadAs(kind, s, p) ==
    CASE kind = "nil"   -> IF Peek(s, p) = 192 THEN <<<<1>>, Past(s, p, 1)>> ELSE <<<<0>>, p>>
      [] kind = "bool"  -> <<<<IF Peek(s, p) = 195 THEN 1 ELSE 0>>, Past(s, p, 1)>>
      [] kind = "int"   -> ReadInt(s, p)
      [] kind = "float" -> ReadFloat64(s, p)
      [] kind = "bin"   -> ReadBin(s, p)
      [] kind = "array" -> ReadArrayHeader(s, p)

\* The kind skip() takes a byte for: maps and extensions are one byte to it.
Kind(b) ==
    CASE b \in {202, 203}                          -> "float"
      [] b \in 204..211                            -> "int"
      [] b \in 160..191 \cup DOMAIN LengthWidth    -> "bin"
      [] b \in 144..159 \cup {220, 221}            -> "array"
      [] OTHER                                     -> "bool"

\* Where n values skipped from position p lead, for x = <<p, n>>.  At the end
\* skip() changes nothing, so that it does not matter how many are left.
Skip(s) ==
    LET skip[x \in (0..Len(s)) \X Nat] ==
          LET kind == Kind(Peek(s, x[1]))
              r == ReadAs(kind, s, x[1])
          IN  IF x[2] = 0 \/ x[1] = Len(s) THEN x[1]
              ELSE IF kind # "array" THEN skip[<<r[2], x[2] - 1>>]
              ELSE skip[<<skip[<<r[2], r[1][1]>>], x[2] - 1>>]
    IN  skip

-----------------------------------------------------------------------------
(* A writer, and then a reader *)

PackInit ==
    /\ calls = <<>> /\ out = <<>> /\ cut = FALSE
    /\ pos = 0 /\ taken = 0 /\ same = TRUE

PackOne(c) ==
    /\ taken = 0 /\ ~cut /\ Len(calls) < MaxCalls
    /\ calls = <<>> \/ Len(out \o Pack(c)) <= MaxOut
    /\ calls' = Append(calls, c) /\ out' = out \o Pack(c)
    /\ UNCHANGED <<cut, pos, taken, same>>

\* The end of the buffer does not arrive.
LoseEnd ==
    /\ taken = 0 /\ ~cut /\ Len(out) <= MaxOut
    /\ \E n \in 0..Len(out) - 1 : out' = SubSeq(out, 1, n)
    /\ cut' = TRUE
    /\ UNCHANGED <<calls, pos, taken, same>>

ReadNext ==
    /\ taken < Len(calls)
    /\ LET c == calls[taken + 1]
           r == ReadAs(c[1], out, pos)
       IN  /\ pos' = r[2]
           /\ same' = (same /\ r[1] = c[2])
    /\ taken' = taken + 1
    /\ UNCHANGED <<calls, out, cut>>

\* How many values are still to come after the k-th call, of the value the i-th
\* call begins: the elements of its arrays.
Open(i) ==
    LET open[k \in i - 1..Len(calls)] ==
          IF k < i THEN 1
          ELSE open[k - 1] - 1 + (IF calls[k][1] = "array" THEN calls[k][2][1] ELSE 0)
    IN  open

\* The last call of that value, or of what there is of it.
ValueEnd(i) ==
    LET Closed == {k \in i..Len(calls) : Open(i)[k] = 0}
    IN  IF Closed = {} THEN Len(calls) ELSE CHOOSE k \in Closed : \A j \in Closed : k <= j

SkipNext ==
    /\ taken < Len(calls)
    /\ pos' = Skip(out)[<<pos, 1>>]
    /\ taken' = ValueEnd(taken + 1)
    /\ UNCHANGED <<calls, out, cut, same>>

PackNext == (\E c \in PackCalls : PackOne(c)) \/ LoseEnd \/ ReadNext \/ SkipNext

PackSpec == PackInit /\ [][PackNext]_msgPackVars

-----------------------------------------------------------------------------
(* Properties *)

\* Where each call ends in a buffer that lost nothing.
Ends(cs) ==
    LET end[k \in 0..Len(cs)] == IF k = 0 THEN 0 ELSE end[k - 1] + Len(Pack(cs[k]))
    IN  end

\* ReaderInStep: whatever mixture of reads and skips, the reader stands at the end
\* of the last value it took, an array with all its elements, and read what was
\* packed; in a buffer that lost its end it never stands past what there is.
ReaderInStep ==
    /\ pos <= Len(out)
    /\ ~cut => same /\ pos = Ends(calls)[taken]
===============================================================================
