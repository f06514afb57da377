----------------------------- MODULE BytesProofs -----------------------------
(* Proofs about byte strings.                                                  *)
(* Bytes: handles behave like values, for any handles, buffers and inputs.     *)
(* Every operation replaces the contents of one handle, in a buffer no other   *)
(* handle has, or one whose contents it takes over; this keeps the flags true  *)
(* to what is shared, and the other handles as they are.  compare() orders     *)
(* contents of any length, by the first byte in which two of them differ.      *)
(* Packets: a frame is its parts laid end to end, and stays so on any way.     *)
(* What is read back from it follows from the lengths of the parts, and what   *)
(* its hash names from taking the hashed string apart again.                   *)
(* MsgPack: what a call reads where a packed value stands is that value, and   *)
(* it ends where the value ends.  skip() never turns back, and skipping m and  *)
(* then n values is skipping m + n, so that a skipped array is the walk over   *)
(* the calls it consists of.  With its end lost a buffer is only kept to.      *)
EXTENDS Bytes, MsgPack, Packets, SequenceTheorems, FiniteSetTheorems, WellFoundedInduction, TLAPS

IInv == TypeOK /\ ExclusiveOwns

Contents == [h \in Handles |-> Value(h)]
Pointers == Buffers \cup {NoBuffer}

\* The step leaves h with contents s: in buffer b, which no other handle has
\* unless it holds s already, and which h calls its own only if it is.
EffectIn(h, s, b) ==
  /\ Become(h, b, s)
  /\ b = NoBuffer => s = <<>>
  /\ exclusive' \in [Handles -> BOOLEAN]
  /\ \A g \in Handles \ {h} :
       /\ exclusive'[g] => exclusive[g]
       /\ b # NoBuffer /\ data[g] = b =>
            heap[b] = s /\ ~exclusive'[g] /\ ~exclusive'[h]

Effect(h, s) == \E b \in Pointers : EffectIn(h, s, b)

USE DEF Byte

-----------------------------------------------------------------------------
(* Contents are sequences of bytes. *)

LEMMA ValueType ==
  ASSUME TypeOK, NEW h \in Handles
  PROVE  Value(h) \in Seq(Byte)
  BY DEF TypeOK, Value

LEMMA NibbleType == \A c \in 0..255 : Nibble(c) \in 0..24
  BY DEF Nibble

LEMMA ByteOfNibbles == \A m, n \in 0..24 : (m * 16 + n) % 256 \in 0..255
  OBVIOUS

LEMMA PairsOfDigits ==
  ASSUME NEW x \in Seq(0..255), NEW i \in 1..(Len(x) \div 2)
  PROVE  x[2*i-1] \in 0..255 /\ x[2*i] \in 0..255
  <1>1. 2*i-1 \in 1..Len(x) /\ 2*i \in 1..Len(x)
    OBVIOUS
  <1>2. QED  BY <1>1, ElementOfSeq, Zenon

LEMMA HexType ==
  ASSUME NEW x \in Seq(0..255)
  PROVE  FromHex(x) \in Seq(Byte)
  <1>1. \A i \in 1..(Len(x) \div 2) :
           (Nibble(x[2*i-1]) * 16 + Nibble(x[2*i])) % 256 \in Byte
    BY PairsOfDigits, NibbleType, ByteOfNibbles
  <1>2. Len(x) \div 2 \in Nat
    OBVIOUS
  <1>3. QED  BY <1>1, <1>2 DEF FromHex

LEMMA Parts ==
  ASSUME NEW s \in Seq(Byte), NEW i \in 1..Len(s)+1, NEW j \in 0..Len(s)
  PROVE  SubSeq(s, i, j) \in Seq(Byte)
  <1>1. \A k \in i..j : s[k] \in Byte
    <2>1. \A k \in i..j : k \in 1..Len(s)
      OBVIOUS
    <2>2. QED  BY <2>1, ElementOfSeq, Zenon
  <1>2. i \in Int /\ j \in Int
    OBVIOUS
  <1>3. QED  BY <1>1, <1>2, SubSeqProperties

LEMMA MidType ==
  ASSUME NEW s \in Seq(Byte), NEW from \in Nat, NEW len \in Nat
  PROVE  \E i \in 1..Len(s)+1, j \in 0..Len(s) : Mid(s, from, len) = SubSeq(s, i, j)
  <1> DEFINE n == Len(s)
  <1>0. n \in Nat
    OBVIOUS
  <1>1. CASE from >= n
    <2>1. Mid(s, from, len) = <<>>
      BY <1>1 DEF Mid
    <2>2. SubSeq(s, 1, 0) = <<>>
      OBVIOUS
    <2>3. 1 \in 1..n+1 /\ 0 \in 0..n
      BY <1>0
    <2>4. QED  BY <2>1, <2>2, <2>3
  <1>2. CASE ~(from >= n)
    <2>1. from + 1 \in 1..n+1 /\ from + Smaller(len, n - from) \in 0..n
      BY <1>0, <1>2 DEF Smaller
    <2>2. Mid(s, from, len) = SubSeq(s, from + 1, from + Smaller(len, n - from))
      BY <1>2 DEF Mid
    <2>3. QED  BY <2>1, <2>2
  <1>3. QED  BY <1>1, <1>2

LEMMA RightType ==
  ASSUME NEW s \in Seq(Byte), NEW len \in Nat
  PROVE  \E i \in 1..Len(s)+1 : Right(s, len) = SubSeq(s, i, Len(s))
  <1> DEFINE n == Len(s)
  <1>0. n \in Nat
    OBVIOUS
  <1>1. n - Smaller(len, n) + 1 \in 1..n+1
    <2> HIDE DEF n
    <2>1. QED  BY <1>0 DEF Smaller
  <1>2. QED  BY <1>1 DEF Right

LEMMA ResizedType ==
  ASSUME NEW s \in Seq(Byte), NEW n \in Nat
  PROVE  Resized(s, n) \in Seq(Byte)
  <1>1. \A i \in 1..n : (IF i <= Len(s) THEN s[i] ELSE 0) \in Byte
    <2> TAKE i \in 1..n
    <2>1. CASE i <= Len(s)
      <3>1. i \in 1..Len(s)
        BY <2>1
      <3>2. QED  BY <2>1, <3>1, ElementOfSeq
    <2>2. CASE ~(i <= Len(s))
      BY <2>2
    <2>3. QED  BY <2>1, <2>2
  <1>2. QED  BY <1>1 DEF Resized

-----------------------------------------------------------------------------
(* What a step with an effect does. *)

LEMMA EffectOnOne ==
  ASSUME IInv, NEW h \in Handles, NEW s \in Seq(Byte), Effect(h, s)
  PROVE  IInv' /\ Contents' = [Contents EXCEPT ![h] = s]
  <1>1. PICK b \in Pointers : EffectIn(h, s, b)
    BY DEF Effect
  <1>2. data' = [data EXCEPT ![h] = b]
    BY <1>1 DEF EffectIn, Become
  <1>3. \A c \in Buffers :
          heap'[c] = IF c = b THEN s
                     ELSE IF \E g \in Handles \ {h} : data[g] = c THEN heap[c]
                     ELSE <<>>
    BY <1>1 DEF EffectIn, Become
  <1>4. TypeOK'
    <2>1. heap' \in [Buffers -> Seq(Byte)]
      <3>1. \A c \in Buffers : heap'[c] \in Seq(Byte)
        BY <1>3, EmptySeq DEF IInv, TypeOK
      <3>2. heap' = [c \in Buffers |-> heap'[c]]
        BY <1>1 DEF EffectIn, Become
      <3>3. QED  BY <3>1, <3>2
    <2>2. data' \in [Handles -> Buffers \cup {NoBuffer}]
      BY <1>2 DEF IInv, TypeOK, Pointers
    <2>3. QED  BY <1>1, <2>1, <2>2 DEF EffectIn, TypeOK
  <1>5. ExclusiveOwns'
    <2> SUFFICES ASSUME NEW k \in Handles, NEW g \in Handles \ {k},
                        data'[k] # NoBuffer, exclusive'[k]
                 PROVE  data'[g] # data'[k]
      BY DEF ExclusiveOwns
    <2>1. CASE k = h
      BY <1>1, <1>2, <2>1 DEF EffectIn, IInv, TypeOK
    <2>2. CASE k # h /\ g = h
      BY <1>1, <1>2, <2>2 DEF EffectIn, IInv, TypeOK
    <2>3. CASE k # h /\ g # h
      BY <1>1, <1>2, <2>3 DEF EffectIn, IInv, TypeOK, ExclusiveOwns
    <2>4. QED  BY <2>1, <2>2, <2>3
  <1>6. Value(h)' = s
    BY <1>1, <1>2, <1>3 DEF EffectIn, IInv, TypeOK, Value, Pointers
  <1>7. ASSUME NEW g \in Handles \ {h}
        PROVE  Value(g)' = Value(g)
    <2>1. data'[g] = data[g]
      BY <1>2 DEF IInv, TypeOK
    <2>2. CASE data[g] = NoBuffer
      BY <2>1, <2>2 DEF Value
    <2>3. CASE data[g] # NoBuffer
      <3>1. data[g] \in Buffers
        BY <2>3 DEF IInv, TypeOK
      <3>2. data[g] = b => heap[data[g]] = s
        BY <1>1, <2>3 DEF EffectIn
      <3>3. heap'[data[g]] = heap[data[g]]
        BY <1>3, <3>1, <3>2
      <3>4. QED  BY <2>1, <2>3, <3>3 DEF Value
    <2>4. QED  BY <2>2, <2>3
  <1>8. Contents' = [Contents EXCEPT ![h] = s]
    BY <1>6, <1>7 DEF Contents
  <1>9. QED  BY <1>4, <1>5, <1>8 DEF IInv

LEMMA WriteEffect ==
  ASSUME IInv, NEW h \in Handles, NEW s \in Seq(Byte), Write(h, s)
  PROVE  Effect(h, s)
  <1>1. PICK b \in ExclusiveData(h) : Become(h, b, s)
    BY DEF Write
  <1>2. b \in Buffers /\ \A g \in Handles \ {h} : data[g] # b
    BY <1>1 DEF ExclusiveData, Free, IInv, TypeOK, ExclusiveOwns
  <1>3. EffectIn(h, s, b)
    BY <1>1, <1>2, BytesAssumption DEF Write, EffectIn, IInv, TypeOK
  <1>4. QED  BY <1>2, <1>3 DEF Effect, Pointers

LEMMA ClearEffect ==
  ASSUME IInv, NEW h \in Handles, Clear(h)
  PROVE  Effect(h, <<>>)
  <1>1. EffectIn(h, <<>>, NoBuffer)
    BY DEF Clear, EffectIn, IInv, TypeOK
  <1>2. QED  BY <1>1 DEF Effect, Pointers

LEMMA ReserveEffect ==
  ASSUME IInv, NEW h \in Handles, Reserve(h)
  PROVE  Effect(h, <<>>)
  <1>1. PICK b \in Free : Become(h, b, <<>>)
    BY DEF Reserve
  <1>2. EffectIn(h, <<>>, b)
    BY <1>1 DEF Reserve, Free, EffectIn, IInv, TypeOK
  <1>3. QED  BY <1>1, <1>2 DEF Effect, Free, Pointers

LEMMA ShareEffect ==
  ASSUME IInv, NEW h \in Handles, NEW g \in Handles, Share(h, g)
  PROVE  Effect(h, Value(g))
  <1>1. data[g] \in Pointers
    BY DEF IInv, TypeOK, Pointers
  <1>2. exclusive' \in [Handles -> BOOLEAN] /\ ~exclusive'[h] /\ ~exclusive'[g]
    BY DEF Share, IInv, TypeOK
  <1>3. ASSUME NEW k \in Handles \ {h}
        PROVE  /\ exclusive'[k] => exclusive[k]
               /\ data[g] # NoBuffer /\ data[k] = data[g] =>
                    heap[data[g]] = Value(g) /\ ~exclusive'[k] /\ ~exclusive'[h]
    <2>1. exclusive'[k] => exclusive[k] /\ k # g
      BY <1>2 DEF Share, IInv, TypeOK
    <2>2. data[g] # NoBuffer /\ data[k] = data[g] => ~exclusive'[k]
      BY <1>2, <2>1 DEF IInv, ExclusiveOwns
    <2>3. QED  BY <1>2, <2>1, <2>2 DEF Value
  <1>4. EffectIn(h, Value(g), data[g])
    BY <1>2, <1>3 DEF Share, EffectIn, Value
  <1>5. QED  BY <1>1, <1>4 DEF Effect

LEMMA ReturnedEffect ==
  ASSUME IInv, NEW h \in Handles, NEW s, NEW e \in [Handles -> BOOLEAN],
         \A g \in Handles : e[g] => exclusive[g],
         Returned(h, s, e)
  PROVE  Effect(h, s)
  <1>1. PICK b \in Pointers :
          /\ Become(h, b, s)
          /\ b = NoBuffer => s = <<>>
          /\ b # NoBuffer => b \in Free
    BY BytesAssumption DEF Returned, Free, Pointers
  <1>2. PICK own \in BOOLEAN : exclusive' = [e EXCEPT ![h] = own]
    BY DEF Returned
  <1>3. EffectIn(h, s, b)
    BY <1>1, <1>2 DEF Free, EffectIn
  <1>4. QED  BY <1>3 DEF Effect

-----------------------------------------------------------------------------
(* Steps. *)

InputsOf == Chunks \cup {FromHex(x) : x \in Hexes}

LEMMA InputType == InputsOf \subseteq Seq(Byte)
  BY BytesAssumption, HexType DEF InputsOf

\* What an operation may make of h, in terms of contents alone.
May(h, s) ==
  \/ s \in InputsOf
  \/ \E t \in InputsOf : s = Value(h) \o t
  \/ \E g \in Handles : s = Value(g)
  \/ \E g, k \in Handles : s = Value(g) \o Value(k)
  \/ \E g \in Handles :
       \E i \in 1..Len(Value(g))+1, j \in 0..Len(Value(g)) : s = SubSeq(Value(g), i, j)
  \/ \E i \in DOMAIN Value(h), v \in Fills : s = [Value(h) EXCEPT ![i] = v]
  \/ \E n \in 0..MaxLen : s = Resized(Value(h), n)
  \/ \E n \in 0..MaxLen, v \in Fills : s = [i \in 1..n |-> v]

LEMMA MayType ==
  ASSUME IInv, NEW h \in Handles, NEW s, May(h, s)
  PROVE  s \in Seq(Byte)
  <1> USE DEF IInv
  <1>1. \A g \in Handles : Value(g) \in Seq(Byte)
    BY ValueType
  <1>2. CASE s \in InputsOf
    BY <1>2, InputType
  <1>3. CASE \E t \in InputsOf : s = Value(h) \o t
    BY <1>1, <1>3, InputType, ConcatProperties
  <1>4. CASE \E g \in Handles : s = Value(g)
    BY <1>1, <1>4
  <1>5. CASE \E g, k \in Handles : s = Value(g) \o Value(k)
    BY <1>1, <1>5, ConcatProperties
  <1>6. CASE \E g \in Handles :
               \E i \in 1..Len(Value(g))+1, j \in 0..Len(Value(g)) :
                 s = SubSeq(Value(g), i, j)
    BY <1>1, <1>6, Parts
  <1>7. CASE \E i \in DOMAIN Value(h), v \in Fills : s = [Value(h) EXCEPT ![i] = v]
    <2>1. PICK i \in DOMAIN Value(h), v \in Fills : s = [Value(h) EXCEPT ![i] = v]
      BY <1>7
    <2>2. i \in 1..Len(Value(h)) /\ v \in Byte
      BY <1>1, <2>1, BytesAssumption
    <2>3. QED  BY <1>1, <2>1, <2>2, ExceptSeq
  <1>8. CASE \E n \in 0..MaxLen : s = Resized(Value(h), n)
    BY <1>1, <1>8, BytesAssumption, ResizedType
  <1>9. CASE \E n \in 0..MaxLen, v \in Fills : s = [i \in 1..n |-> v]
    <2>1. PICK n \in 0..MaxLen, v \in Fills : s = [i \in 1..n |-> v]
      BY <1>9
    <2>2. n \in Nat /\ v \in Byte
      BY <2>1, BytesAssumption
    <2>3. QED  BY <2>1, <2>2, IsASeq
  <1>10. QED
    BY <1>2, <1>3, <1>4, <1>5, <1>6, <1>7, <1>8, <1>9, Zenon DEF May

LEMMA NextHasEffect ==
  ASSUME IInv, Next
  PROVE  UNCHANGED vars \/ \E h \in Handles : \E s : May(h, s) /\ Effect(h, s)
  <1> DEFINE Done(h) == UNCHANGED vars \/ \E s : May(h, s) /\ Effect(h, s)
  <1> USE DEF IInv
  <1>0. \A g \in Handles : Value(g) \in Seq(Byte)
    BY ValueType
  <1>w. ASSUME NEW h \in Handles, NEW s, May(h, s), Write(h, s)
        PROVE  Done(h)
    BY <1>w, MayType, WriteEffect
  <1>e. ASSUME NEW h \in Handles, NEW s \in Chunks \cup {FromHex(x) : x \in Hexes}
        PROVE  /\ AssignChunk(h, s) => Done(h)
               /\ AppendChunk(h, s) => Done(h)
    <2>1. s \in InputsOf
      BY DEF InputsOf
    <2>2. May(h, s) /\ May(h, Value(h) \o s)
      BY <2>1 DEF May
    <2>3. s = <<>> /\ Clear(h) => Done(h)
      BY <2>2, ClearEffect
    <2>4. QED  BY <1>w, <2>2, <2>3 DEF AssignChunk, AppendChunk
  <1>1. ASSUME NEW h \in Handles, Clear(h) \/ Reserve(h)
        PROVE  Done(h)
    <2>1. May(h, <<>>)
      BY BytesAssumption DEF May, InputsOf
    <2>2. QED  BY <1>1, <2>1, ClearEffect, ReserveEffect
  <1>2. ASSUME NEW h \in Handles, NEW g \in Handles, Share(h, g)
        PROVE  Done(h)
    BY <1>2, ShareEffect DEF May
  <1>3. ASSUME NEW h \in Handles, NEW g \in Handles, Slice(h, g)
        PROVE  Done(h)
    <2>1. PICK s : Returned(h, s, exclusive) /\ May(h, s)
      <3>1. CASE \E from, len \in 0..MaxLen : Returned(h, Mid(Value(g), from, len), exclusive)
        <4>1. PICK from \in 0..MaxLen, len \in 0..MaxLen :
                Returned(h, Mid(Value(g), from, len), exclusive)
          BY <3>1
        <4>2. from \in Nat /\ len \in Nat
          BY BytesAssumption
        <4>3. May(h, Mid(Value(g), from, len))
          BY <1>0, <4>2, MidType DEF May
        <4>4. QED  BY <4>1, <4>3
      <3>2. CASE \E len \in 0..MaxLen : Returned(h, Right(Value(g), len), exclusive)
        <4>1. PICK len \in 0..MaxLen : Returned(h, Right(Value(g), len), exclusive)
          BY <3>2
        <4>2. len \in Nat /\ Len(Value(g)) \in 0..Len(Value(g))
          BY <1>0, BytesAssumption
        <4>3. May(h, Right(Value(g), len))
          BY <1>0, <4>2, RightType DEF May
        <4>4. QED  BY <4>1, <4>3
      <3>3. QED  BY <1>3, <3>1, <3>2 DEF Slice
    <2>2. QED  BY <2>1, ReturnedEffect DEF TypeOK
  <1>4. ASSUME NEW h \in Handles, NEW g \in Handles, AppendBytes(h, g)
        PROVE  Done(h)
    <2>1. May(h, Value(h) \o Value(g))
      BY DEF May
    <2>2. QED  BY <1>4, <1>w, <2>1 DEF AppendBytes, AppendChunk
  <1>5. ASSUME NEW h \in Handles, NEW g \in Handles, NEW k \in Handles, Plus(h, g, k)
        PROVE  Done(h)
    <2>1. CASE Value(k) = <<>>
      BY <1>2, <1>5, <2>1 DEF Plus
    <2>2. CASE Value(k) # <<>>
      <3>1. Returned(h, Value(g) \o Value(k), [exclusive EXCEPT ![g] = FALSE])
        BY <1>5, <2>2 DEF Plus
      <3>2. /\ [exclusive EXCEPT ![g] = FALSE] \in [Handles -> BOOLEAN]
            /\ \A x \in Handles : [exclusive EXCEPT ![g] = FALSE][x] => exclusive[x]
        BY DEF TypeOK
      <3>3. May(h, Value(g) \o Value(k))
        BY DEF May
      <3>4. QED  BY <3>1, <3>2, <3>3, ReturnedEffect
    <2>3. QED  BY <2>1, <2>2
  <1>6. ASSUME NEW h \in Handles, NEW i \in 1..MaxLen, NEW v \in Fills, PutByte(h, i, v)
        PROVE  Done(h)
    <2>1. May(h, [Value(h) EXCEPT ![i] = v])
      BY <1>6 DEF May, PutByte
    <2>2. QED  BY <1>6, <1>w, <2>1 DEF PutByte
  <1>7. ASSUME NEW h \in Handles, NEW n \in 0..MaxLen, Resize(h, n)
        PROVE  Done(h)
    <2>1. May(h, Resized(Value(h), n))
      BY DEF May
    <2>2. QED  BY <1>7, <1>w, <2>1 DEF Resize
  <1>8. ASSUME NEW h \in Handles, NEW n \in 0..MaxLen, NEW v \in Fills, Writable(h, n, v)
        PROVE  Done(h)
    <2> DEFINE size == IF n > 0 THEN n ELSE Len(Value(h))
               s == [i \in 1..size |-> v]
    <2>1. Write(h, s)
      BY <1>8 DEF Writable
    <2>2. size \in Nat
      BY <1>0, BytesAssumption
    <2>3. Len(s) = size
      <3> HIDE DEF size
      <3>1. QED  BY <2>2
    <2>4. size \in 0..MaxLen
      BY <2>1, <2>2, <2>3, BytesAssumption DEF Write
    <2>5. May(h, s)
      <3> HIDE DEF size
      <3>1. QED  BY <2>4 DEF May
    <2>6. QED  BY <1>w, <2>1, <2>5
  <1>9. PICK h \in Handles : Done(h)
    <2> HIDE DEF Done
    <2>1. QED
      BY <1>e, <1>1, <1>2, <1>3, <1>4, <1>5, <1>6, <1>7, <1>8
      DEF Next, AssignHex, AppendHex
  <1>10. QED  BY <1>9

LEMMA MayIsNext ==
  ASSUME NEW h \in Handles, NEW s, May(h, s),
         Contents' = [Contents EXCEPT ![h] = s]
  PROVE  Values!Next
  <1>1. \A g \in Handles : Contents[g] = Value(g)
    BY DEF Contents
  <1>2. Values!Becomes(h, s)
    BY DEF Contents, Values!Becomes
  <1>3. CASE s \in InputsOf
    BY <1>2, <1>3 DEF Values!Next, Values!Assign, InputsOf
  <1>4. CASE \E t \in InputsOf : s = Value(h) \o t
    BY <1>1, <1>2, <1>4 DEF Values!Next, Values!Extend, InputsOf, Contents
  <1>5. CASE \E g \in Handles : s = Value(g)
    BY <1>1, <1>2, <1>5 DEF Values!Next, Values!Assign, Contents
  <1>6. CASE \E g, k \in Handles : s = Value(g) \o Value(k)
    BY <1>1, <1>2, <1>6 DEF Values!Next, Values!Concat, Contents
  <1>7. CASE \E g \in Handles :
               \E i \in 1..Len(Value(g))+1, j \in 0..Len(Value(g)) :
                 s = SubSeq(Value(g), i, j)
    BY <1>1, <1>2, <1>7 DEF Values!Next, Values!Slice, Contents
  <1>8. CASE \E i \in DOMAIN Value(h), v \in Fills : s = [Value(h) EXCEPT ![i] = v]
    <2>1. PICK i \in DOMAIN Value(h), v \in Fills : s = [Value(h) EXCEPT ![i] = v]
      BY <1>8
    <2>2. i \in DOMAIN Contents[h] /\ s = [Contents[h] EXCEPT ![i] = v]
      BY <1>1, <2>1
    <2>3. Values!Put(h, i, v)
      BY <1>2, <2>2 DEF Values!Put, Contents
    <2>4. QED  BY <2>2, <2>3, Zenon DEF Values!Next, Contents
  <1>9. CASE \E n \in 0..MaxLen : s = Resized(Value(h), n)
    <2>1. PICK n \in 0..MaxLen : s = Resized(Value(h), n)
      BY <1>9
    <2>2. s = Values!Resized(Contents[h], n)
      BY <1>1, <2>1 DEF Resized, Values!Resized
    <2>3. Values!Resize(h, n)
      BY <1>2, <2>2 DEF Values!Resize, Contents
    <2>4. QED  BY <2>3, Zenon DEF Values!Next
  <1>10. CASE \E n \in 0..MaxLen, v \in Fills : s = [i \in 1..n |-> v]
    BY <1>2, <1>10 DEF Values!Next, Values!Fill
  <1>11. QED
    BY <1>3, <1>4, <1>5, <1>6, <1>7, <1>8, <1>9, <1>10, Zenon DEF May

LEMMA StepCorrect ==
  ASSUME IInv, [Next]_vars
  PROVE  IInv' /\ (Values!Next \/ UNCHANGED Contents)
  <1>1. CASE UNCHANGED vars
    <2>1. \A g \in Handles : Value(g)' = Value(g)
      BY <1>1 DEF vars, Value
    <2>2. IInv'
      BY <1>1 DEF vars, IInv, TypeOK, ExclusiveOwns
    <2>3. QED  BY <2>1, <2>2 DEF Contents
  <1>2. CASE \E h \in Handles : \E s : May(h, s) /\ Effect(h, s)
    <2>1. PICK h \in Handles : \E s : May(h, s) /\ Effect(h, s)
      BY <1>2
    <2>2. PICK s : May(h, s) /\ Effect(h, s)
      BY <2>1
    <2>3. IInv' /\ Contents' = [Contents EXCEPT ![h] = s]
      BY <2>2, MayType, EffectOnOne
    <2>4. QED  BY <2>2, <2>3, MayIsNext
  <1>3. QED  BY <1>1, <1>2, NextHasEffect

LEMMA InitCorrect == Init => IInv /\ Values!Init
  <1> SUFFICES ASSUME Init PROVE IInv /\ Values!Init
    OBVIOUS
  <1>1. IInv
    BY EmptySeq DEF Init, IInv, TypeOK, ExclusiveOwns
  <1>2. Values!Init
    BY DEF Init, Value, Values!Init
  <1>3. QED  BY <1>1, <1>2

(* A buffer a handle takes for its own is its own, whatever was copied         *)
(* (shareData(), exclusiveData()).                                             *)
THEOREM ExclusiveOwnsHolds == Spec => []ExclusiveOwns
  <1>1. Init => IInv
    BY InitCorrect
  <1>2. IInv /\ [Next]_vars => IInv'
    BY StepCorrect
  <1>3. IInv => ExclusiveOwns
    BY DEF IInv
  <1>4. QED  BY <1>1, <1>2, <1>3, PTL DEF Spec

(* Every variable keeps its type. *)
THEOREM TypeCorrect == Spec => []TypeOK
  <1>1. Init => IInv
    BY InitCorrect
  <1>2. IInv /\ [Next]_vars => IInv'
    BY StepCorrect
  <1>3. IInv => TypeOK
    BY DEF IInv
  <1>4. QED  BY <1>1, <1>2, <1>3, PTL DEF Spec

(* Copy-on-write is not seen: handles behave like values of their own, for     *)
(* every number of handles, every allocation and every input.                  *)
THEOREM ImplementsValuesHolds == Spec => ImplementsValues
  <1>1. Init => IInv /\ Values!Init
    BY InitCorrect
  <1>2. IInv /\ [Next]_vars => IInv' /\ [Values!Next]_Contents
    BY StepCorrect
  <1>3. QED  BY <1>1, <1>2, PTL DEF Spec, ImplementsValues, Values!Spec, Contents

-----------------------------------------------------------------------------
(* Digits. *)

LEMMA DigitReadsBack ==
  \A n \in 0..15, upper \in BOOLEAN : Nibble(Digit(n, upper)) = n
  BY DEF Nibble, Digit

LEMMA HalvesOfByte ==
  \A b \in 0..255 : /\ b \div 16 \in 0..15 /\ b % 16 \in 0..15
                     /\ ((b \div 16) * 16 + (b % 16)) % 256 = b
  OBVIOUS

LEMMA HexReadsBack ==
  ASSUME NEW s \in Seq(Byte), NEW upper \in BOOLEAN
  PROVE  FromHex(ToHex(s, upper)) = s
  <1> DEFINE x == ToHex(s, upper)
             n == Len(s)
  <1>1. n \in Nat /\ Len(x) = 2*n
    BY DEF ToHex
  <1>2. Len(x) \div 2 = n
    <2> HIDE DEF n, x
    <2>1. QED  BY <1>1
  <1>3. ASSUME NEW i \in 1..n
        PROVE  (Nibble(x[2*i-1]) * 16 + Nibble(x[2*i])) % 256 = s[i]
    <2>1. s[i] \in 0..255
      BY ElementOfSeq
    <2>2. /\ 2*i-1 \in 1..2*n /\ (2*i-1) % 2 = 1 /\ ((2*i-1) + 1) \div 2 = i
          /\ 2*i \in 1..2*n /\ (2*i) % 2 = 0 /\ (2*i) \div 2 = i
      <3> HIDE DEF n
      <3>1. QED  BY <1>1
    <2>3. x[2*i-1] = Digit(s[i] \div 16, upper)
      BY <2>2 DEF ToHex
    <2>4. x[2*i] = Digit(s[i] % 16, upper)
      BY <2>2 DEF ToHex
    <2>5. Nibble(x[2*i-1]) = s[i] \div 16 /\ Nibble(x[2*i]) = s[i] % 16
      <3> HIDE DEF x
      <3>1. s[i] \div 16 \in 0..15 /\ s[i] % 16 \in 0..15
        BY <2>1, HalvesOfByte, Zenon
      <3>2. QED  BY <2>3, <2>4, <3>1, DigitReadsBack, Zenon
    <2>6. QED
      <3> HIDE DEF x
      <3>1. QED  BY <2>1, <2>5, HalvesOfByte, Zenon
  <1>4. FromHex(x) = [i \in 1..n |-> s[i]]
    BY <1>2, <1>3 DEF FromHex
  <1>5. QED  BY <1>4

(* assignHex() reads back what toHex() wrote, for all contents. *)
THEOREM HexRoundTripHolds == Spec => []HexRoundTrip
  <1>1. TypeOK => HexRoundTrip
    BY ValueType, HexReadsBack DEF HexRoundTrip
  <1>2. QED  BY <1>1, TypeCorrect, PTL
-----------------------------------------------------------------------------
(* The order of contents. *)

(* Of a set of numbers one is the least, for the intervals up to its elements  *)
(* are finite and one of them has none of the others inside.                   *)
LEMMA LeastNumber ==
  ASSUME NEW A \in SUBSET Nat, A # {}
  PROVE  \E m \in A : \A k \in A : m <= k
  <1> DEFINE T == {0..n : n \in A}
             R == StrictSubsetOrdering(Nat)
  <1>1. T # {} /\ T \subseteq FiniteSubsetsOf(Nat)
    <2>1. \A n \in A : 0..n \in SUBSET Nat /\ IsFiniteSet(0..n)
      BY FS_Interval
    <2>2. QED  BY <2>1 DEF FiniteSubsetsOf
  <1>2. IsWellFoundedOn(R, FiniteSubsetsOf(Nat))
    BY FS_StrictSubsetOrderingWellFounded
  <1>3. PICK x \in T : \A y \in T : <<y, x>> \notin R
    <2> HIDE DEF R, T
    <2>1. QED  BY <1>1, <1>2, WFMin
  <1>4. PICK m \in A : x = 0..m
    OBVIOUS
  <1>5. ASSUME NEW k \in A, k < m
        PROVE  FALSE
    <2>1. 0..k \in T /\ 0..k \subseteq 0..m /\ m \in 0..m /\ m \notin 0..k
      BY <1>5
    <2>2. <<0..k, x>> \in R
      BY <1>4, <2>1 DEF StrictSubsetOrdering
    <2>3. QED  BY <1>3, <2>1, <2>2
  <1>6. QED  BY <1>5

LEMMA BytesAreNumbers ==
  ASSUME NEW s \in Seq(Byte)
  PROVE  \A j \in 1..Len(s) : s[j] \in Int
  <1> SUFFICES ASSUME NEW j \in 1..Len(s)
               PROVE  s[j] \in Int
    OBVIOUS
  <1>1. s[j] \in 0..255
    BY ElementOfSeq
  <1>2. \A x \in 0..255 : x \in Int
    OBVIOUS
  <1>3. QED  BY <1>1, <1>2, Zenon

LEMMA LessIsOneWay ==
  ASSUME NEW s \in Seq(Byte), NEW t \in Seq(Byte), Less(s, t), Less(t, s)
  PROVE  FALSE
  <1>1. PICK i \in 1..Len(t) : /\ \A j \in 1..i-1 : j <= Len(s) /\ s[j] = t[j]
                               /\ i > Len(s) \/ s[i] < t[i]
    BY DEF Less
  <1>2. PICK k \in 1..Len(s) : /\ \A j \in 1..k-1 : j <= Len(t) /\ t[j] = s[j]
                               /\ k > Len(t) \/ t[k] < s[k]
    BY DEF Less
  <1>3. Len(s) \in Nat /\ Len(t) \in Nat
    OBVIOUS
  <1>4. \A j \in 1..Len(s) : s[j] \in Int
    BY BytesAreNumbers
  <1>5. \A j \in 1..Len(t) : t[j] \in Int
    BY BytesAreNumbers
  <1>6. CASE i < k
    <2>1. i \in 1..k-1 /\ i \in 1..Len(s)
      BY <1>3, <1>6
    <2>2. s[i] = t[i] /\ s[i] < t[i] /\ s[i] \in Int
      BY <1>1, <1>2, <1>3, <1>4, <2>1
    <2>3. QED  BY <2>2
  <1>7. CASE k < i
    <2>1. k \in 1..i-1 /\ k \in 1..Len(t)
      BY <1>3, <1>7
    <2>2. s[k] = t[k] /\ t[k] < s[k] /\ t[k] \in Int
      BY <1>1, <1>2, <1>3, <1>5, <2>1
    <2>3. QED  BY <2>2
  <1>8. CASE i = k
    <2>1. i \in 1..Len(s) /\ i \in 1..Len(t)
      BY <1>8
    <2>2. s[i] < t[i] /\ t[i] < s[i] /\ s[i] \in Int /\ t[i] \in Int
      BY <1>1, <1>2, <1>3, <1>4, <1>5, <1>8, <2>1
    <2>3. QED  BY <2>2
  <1>9. QED  BY <1>3, <1>6, <1>7, <1>8

LEMMA LessIsTransitive ==
  ASSUME NEW s \in Seq(Byte), NEW t \in Seq(Byte), NEW u \in Seq(Byte),
         Less(s, t), Less(t, u)
  PROVE  Less(s, u)
  <1>1. PICK i \in 1..Len(t) : /\ \A j \in 1..i-1 : j <= Len(s) /\ s[j] = t[j]
                               /\ i > Len(s) \/ s[i] < t[i]
    BY DEF Less
  <1>2. PICK k \in 1..Len(u) : /\ \A j \in 1..k-1 : j <= Len(t) /\ t[j] = u[j]
                               /\ k > Len(t) \/ t[k] < u[k]
    BY DEF Less
  <1>3. Len(s) \in Nat /\ Len(t) \in Nat /\ Len(u) \in Nat
    OBVIOUS
  <1>4. /\ \A j \in 1..Len(s) : s[j] \in Int
        /\ \A j \in 1..Len(t) : t[j] \in Int
        /\ \A j \in 1..Len(u) : u[j] \in Int
    BY BytesAreNumbers
  <1>5. CASE i < k
    <2>1. i \in 1..Len(u) /\ i \in 1..k-1
      BY <1>3, <1>5
    <2>2. t[i] = u[i]
      BY <1>2, <2>1
    <2>3. \A j \in 1..i-1 : j <= Len(s) /\ s[j] = u[j]
      <3>1. \A j \in 1..i-1 : j \in 1..k-1
        BY <1>3, <1>5
      <3>2. QED  BY <1>1, <1>2, <3>1
    <2>4. QED  BY <1>1, <2>1, <2>2, <2>3 DEF Less
  <1>6. CASE k <= i
    <2>1. \A j \in 1..k-1 : j <= Len(s) /\ s[j] = u[j]
      <3>1. \A j \in 1..k-1 : j \in 1..i-1
        BY <1>3, <1>6
      <3>2. QED  BY <1>1, <1>2, <3>1
    <2>2. k \in 1..Len(t) /\ t[k] < u[k]
      BY <1>2, <1>3, <1>6
    <2>3. k > Len(s) \/ s[k] < u[k]
      <3>1. CASE k < i
        <4>1. k \in 1..i-1
          BY <1>3, <3>1
        <4>2. QED  BY <1>1, <2>2, <4>1
      <3>2. CASE k = i /\ ~(k > Len(s))
        <4>1. k \in 1..Len(s) /\ s[k] < t[k]
          BY <1>1, <1>3, <3>2
        <4>2. s[k] \in Int /\ t[k] \in Int /\ u[k] \in Int
          BY <1>4, <2>2, <4>1
        <4>3. QED  BY <2>2, <4>1, <4>2
      <3>3. QED  BY <1>3, <1>6, <3>1, <3>2
    <2>4. QED  BY <2>1, <2>3 DEF Less
  <1>7. QED  BY <1>3, <1>5, <1>6

(* Where two contents first differ, or one of them ends, decides.              *)
LEMMA LessIsTotal ==
  ASSUME NEW s \in Seq(Byte), NEW t \in Seq(Byte), s # t
  PROVE  Less(s, t) \/ Less(t, s)
  <1> DEFINE Here(i) == i > Len(s) \/ i > Len(t) \/ s[i] # t[i]
             D == {i \in 1..Len(s) : Here(i)} \cup {i \in 1..Len(t) : Here(i)}
  <1>1. Len(s) \in Nat /\ Len(t) \in Nat
    OBVIOUS
  <1>2. /\ \A j \in 1..Len(s) : s[j] \in Int
        /\ \A j \in 1..Len(t) : t[j] \in Int
    BY BytesAreNumbers
  <1>3. D # {}
    <2>1. CASE Len(s) = Len(t)
      <3>1. PICK i \in 1..Len(s) : s[i] # t[i]
        BY <2>1, SeqEqual
      <3>2. QED  BY <3>1
    <2>2. CASE Len(s) < Len(t)
      <3>1. Len(t) \in 1..Len(t) /\ Here(Len(t))
        BY <1>1, <2>2
      <3>2. QED  BY <3>1
    <2>3. CASE Len(t) < Len(s)
      <3>1. Len(s) \in 1..Len(s) /\ Here(Len(s))
        BY <1>1, <2>3
      <3>2. QED  BY <3>1
    <2>4. QED  BY <1>1, <2>1, <2>2, <2>3
  <1>4. D \in SUBSET Nat
    BY <1>1
  <1>5. PICK m \in D : \A k \in D : m <= k
    <2> HIDE DEF D
    <2>1. QED  BY <1>3, <1>4, LeastNumber
  <1>6. ASSUME NEW j \in 1..m-1
        PROVE  j <= Len(s) /\ j <= Len(t) /\ s[j] = t[j]
    <2>1. j \notin D
      BY <1>1, <1>4, <1>5
    <2>2. j \in 1..Len(s) \/ j \in 1..Len(t)
      BY <1>1, <1>5
    <2>3. QED  BY <1>1, <2>1, <2>2
  <1>7. CASE m \in 1..Len(s) /\ m \in 1..Len(t)
    <2>1. s[m] # t[m] /\ s[m] \in Int /\ t[m] \in Int
      BY <1>1, <1>2, <1>5, <1>7
    <2>2. s[m] < t[m] \/ t[m] < s[m]
      BY <2>1
    <2>3. QED  BY <1>6, <1>7, <2>2 DEF Less
  <1>8. CASE m \in 1..Len(t) /\ m > Len(s)
    BY <1>6, <1>8 DEF Less
  <1>9. CASE m \in 1..Len(s) /\ m > Len(t)
    BY <1>6, <1>9 DEF Less
  <1>10. QED  BY <1>1, <1>5, <1>7, <1>8, <1>9

LEMMA EmptyIsLeast ==
  ASSUME NEW t \in Seq(Byte)
  PROVE  /\ ~Less(t, <<>>)
         /\ t # <<>> => Less(<<>>, t)
  <1>1. ~Less(t, <<>>)
    BY DEF Less
  <1>2. ASSUME t # <<>>
        PROVE  Less(<<>>, t)
    <2>1. 1 \in 1..Len(t)
      BY <1>2, EmptySeq
    <2>2. QED  BY <2>1 DEF Less
  <1>3. QED  BY <1>1, <1>2

(* Whether there is a buffer makes no difference.                              *)
LEMMA ComparesValues ==
  ASSUME TypeOK, NEW h \in Handles, NEW g \in Handles
  PROVE  Compare(h, g) = IF Less(Value(h), Value(g)) THEN -1
                         ELSE IF Less(Value(g), Value(h)) THEN 1 ELSE 0
  <1>1. Value(h) \in Seq(Byte) /\ Value(g) \in Seq(Byte)
    BY ValueType
  <1>2. (IsEmpty(h) <=> Value(h) = <<>>) /\ (IsEmpty(g) <=> Value(g) = <<>>)
    BY DEF IsEmpty, Value
  <1>3. CASE IsEmpty(h) \/ IsEmpty(g)
    BY <1>1, <1>2, <1>3, EmptyIsLeast, EmptySeq DEF Compare
  <1>4. CASE ~IsEmpty(h) /\ ~IsEmpty(g)
    BY <1>4 DEF Compare, IsEmpty, Value
  <1>5. QED  BY <1>3, <1>4

(* compare() orders handles totally by their contents, for all contents: no    *)
(* table of the stack can lose a key.                                          *)
THEOREM KeysAreOrderedHolds == Spec => []KeysAreOrdered
  <1>1. ASSUME TypeOK, NEW h \in Handles, NEW g \in Handles, NEW k \in Handles
        PROVE  /\ Compare(h, g) = 0 <=> Value(h) = Value(g)
               /\ Compare(h, g) = -Compare(g, h)
               /\ Compare(h, g) < 0 /\ Compare(g, k) < 0 => Compare(h, k) < 0
    <2>1. Value(h) \in Seq(Byte) /\ Value(g) \in Seq(Byte) /\ Value(k) \in Seq(Byte)
      BY <1>1, ValueType
    <2>2. \A x, y \in {h, g, k} :
            Compare(x, y) = IF Less(Value(x), Value(y)) THEN -1
                            ELSE IF Less(Value(y), Value(x)) THEN 1 ELSE 0
      BY <1>1, ComparesValues
    <2>3. \A x, y \in {h, g, k} : ~(Less(Value(x), Value(y)) /\ Less(Value(y), Value(x)))
      BY <2>1, LessIsOneWay
    <2>4. Compare(h, g) = 0 <=> Value(h) = Value(g)
      BY <2>1, <2>2, <2>3, LessIsTotal
    <2>5. Compare(h, g) = -Compare(g, h)
      BY <2>2, <2>3
    <2>6. Compare(h, g) < 0 /\ Compare(g, k) < 0 => Compare(h, k) < 0
      BY <2>1, <2>2, LessIsTransitive
    <2>7. QED  BY <2>4, <2>5, <2>6
  <1>2. TypeOK => KeysAreOrdered
    BY <1>1 DEF KeysAreOrdered
  <1>3. QED  BY <1>2, TypeCorrect, PTL

-----------------------------------------------------------------------------
(* Packets: strings laid end to end. *)

IsSeq(s) == \E A : s \in Seq(A)

(* Two operators of the module Sequences, kept folded: the provers take them   *)
(* apart byte by byte wherever they see them.                                  *)
s ++ t == s \o t
Part(s, a, b) == SubSeq(s, a, b)

LEMMA InOneSet ==
  ASSUME NEW s, NEW t, IsSeq(s), IsSeq(t)
  PROVE  \E A : s \in Seq(A) /\ t \in Seq(A)
  <1>1. PICK A : s \in Seq(A)
    BY DEF IsSeq
  <1>2. PICK B : t \in Seq(B)
    BY DEF IsSeq
  <1>3. Seq(A) \subseteq Seq(A \cup B) /\ Seq(B) \subseteq Seq(A \cup B)
    BY SeqMonotonic
  <1>4. QED  BY <1>1, <1>2, <1>3

LEMMA InOneSet3 ==
  ASSUME NEW s, NEW t, NEW u, IsSeq(s), IsSeq(t), IsSeq(u)
  PROVE  \E A : s \in Seq(A) /\ t \in Seq(A) /\ u \in Seq(A)
  <1>1. PICK A : s \in Seq(A) /\ t \in Seq(A)
    BY InOneSet
  <1>2. PICK B : u \in Seq(B)
    BY DEF IsSeq
  <1>3. Seq(A) \subseteq Seq(A \cup B) /\ Seq(B) \subseteq Seq(A \cup B)
    BY SeqMonotonic
  <1>4. QED  BY <1>1, <1>2, <1>3

LEMMA SeqLen ==
  ASSUME NEW s, IsSeq(s)
  PROVE  Len(s) \in Nat
  BY DEF IsSeq

LEMMA SameSeq ==
  ASSUME NEW s, NEW t, IsSeq(s), IsSeq(t), Len(s) = Len(t),
         \A i \in 1..Len(s) : s[i] = t[i]
  PROVE  s = t
  <1>1. PICK A : s \in Seq(A) /\ t \in Seq(A)
    BY InOneSet
  <1>2. QED  BY <1>1, SeqEqual

LEMMA Cat ==
  ASSUME NEW s, NEW t, IsSeq(s), IsSeq(t)
  PROVE  /\ IsSeq(s ++ t)
         /\ Len(s ++ t) = Len(s) + Len(t)
         /\ \A i \in 1..Len(s) : (s ++ t)[i] = s[i]
         /\ \A i \in 1..Len(t) : (s ++ t)[Len(s) + i] = t[i]
  <1>1. PICK A : s \in Seq(A) /\ t \in Seq(A)
    BY InOneSet
  <1>2. s ++ t \in Seq(A) /\ Len(s ++ t) = Len(s) + Len(t)
    BY <1>1, ConcatProperties DEF ++
  <1>3. \A i \in 1..Len(s) + Len(t) :
          (s ++ t)[i] = IF i <= Len(s) THEN s[i] ELSE t[i - Len(s)]
    BY <1>1, ConcatProperties DEF ++
  <1>4. Len(s) \in Nat /\ Len(t) \in Nat
    BY SeqLen
  <1>5. \A i \in 1..Len(s) : (s ++ t)[i] = s[i]
    BY <1>3, <1>4
  <1>6. \A i \in 1..Len(t) : (s ++ t)[Len(s) + i] = t[i]
    <2> SUFFICES ASSUME NEW i \in 1..Len(t)
                 PROVE  (s ++ t)[Len(s) + i] = t[i]
      OBVIOUS
    <2>1. Len(s) + i \in 1..Len(s) + Len(t) /\ ~(Len(s) + i <= Len(s))
          /\ (Len(s) + i) - Len(s) = i
      BY <1>4
    <2>2. QED  BY <1>3, <2>1
  <1>7. QED  BY <1>2, <1>5, <1>6 DEF IsSeq

LEMMA CatIs ==
  ASSUME NEW s, NEW t, IsSeq(s), IsSeq(t)
  PROVE  IsSeq(s ++ t) /\ Len(s ++ t) = Len(s) + Len(t)
  BY Cat

LEMMA CatFirst ==
  ASSUME NEW s, NEW t, IsSeq(s), IsSeq(t), NEW i \in 1..Len(s)
  PROVE  (s ++ t)[i] = s[i]
  BY Cat

LEMMA CatSecond ==
  ASSUME NEW s, NEW t, IsSeq(s), IsSeq(t), NEW i \in 1..Len(t)
  PROVE  (s ++ t)[Len(s) + i] = t[i]
  BY Cat

LEMMA CatAssoc ==
  ASSUME NEW s, NEW t, NEW u, IsSeq(s), IsSeq(t), IsSeq(u)
  PROVE  (s ++ t) ++ u = s ++ (t ++ u)
  <1>1. PICK A : s \in Seq(A) /\ t \in Seq(A) /\ u \in Seq(A)
    BY InOneSet3
  <1>2. QED  BY <1>1, ConcatAssociative DEF ++

(* A part of a string, wherever it is in it.                                   *)
LEMMA Sub ==
  ASSUME NEW s, IsSeq(s), NEW m \in Nat, NEW n \in Nat, 1 <= m, m <= n + 1, n <= Len(s)
  PROVE  /\ IsSeq(SubSeq(s, m, n)) /\ Len(SubSeq(s, m, n)) = n - m + 1
         /\ \A i \in 1..n - m + 1 : SubSeq(s, m, n)[i] = s[m + i - 1]
  <1>1. PICK A : s \in Seq(A)
    BY DEF IsSeq
  <1>2. \A i \in m..n : s[i] \in A
    <2>1. \A i \in m..n : i \in 1..Len(s)
      BY <1>1
    <2>2. QED  BY <1>1, <2>1, ElementOfSeq
  <1>3. /\ SubSeq(s, m, n) \in Seq(A)
        /\ Len(SubSeq(s, m, n)) = IF m <= n THEN n - m + 1 ELSE 0
        /\ \A i \in 1..n - m + 1 : SubSeq(s, m, n)[i] = s[m + i - 1]
    BY <1>2, SubSeqProperties
  <1>4. QED  BY <1>3 DEF IsSeq

(* The string t stands in f, behind k bytes.                                   *)
Stands(f, t, k) == k + Len(t) <= Len(f) /\ \A i \in 1..Len(t) : f[k + i] = t[i]

LEMMA SubIs ==
  ASSUME NEW f, NEW t, IsSeq(f), IsSeq(t), NEW k \in Nat, Stands(f, t, k),
         NEW a \in Nat, NEW b \in Nat, a = k + 1, b = k + Len(t)
  PROVE  Part(f, a, b) = t
  <1> DEFINE u == Part(f, a, b)
  <1>1. /\ Len(t) \in Nat /\ Len(f) \in Nat
        /\ k + Len(t) <= Len(f) /\ \A i \in 1..Len(t) : f[k + i] = t[i]
    BY SeqLen DEF Stands
  <1>2. 1 <= a /\ a <= b + 1 /\ b <= Len(f) /\ b - a + 1 = Len(t)
    BY <1>1
  <1>3. IsSeq(u) /\ Len(u) = b - a + 1 /\ \A i \in 1..b - a + 1 : u[i] = f[a + i - 1]
    BY <1>2, Sub DEF Part
  <1>4. \A i \in 1..Len(t) : a + i - 1 = k + i
    BY <1>1
  <1> HIDE DEF u
  <1>5. \A i \in 1..Len(t) : u[i] = t[i]
    BY <1>1, <1>2, <1>3, <1>4
  <1>6. u = t
    BY <1>2, <1>3, <1>5, SameSeq
  <1>7. QED  BY <1>6 DEF u

LEMMA SubFirst ==
  ASSUME NEW s, NEW t, IsSeq(s), IsSeq(t)
  PROVE  Part(s ++ t, 1, Len(s)) = s
  <1> DEFINE f == s ++ t
             b == Len(s)
  <1>1. IsSeq(f) /\ 0 + Len(s) <= Len(f) /\ b \in Nat /\ b = Len(s)
    BY CatIs, SeqLen
  <1>2. \A i \in 1..Len(s) : f[0 + i] = s[i]
    BY CatFirst
  <1> HIDE DEF f, b
  <1>3. Stands(f, s, 0)
    BY <1>1, <1>2 DEF Stands
  <1>4. \A k, a \in Nat : Stands(f, s, k) /\ a = k + 1 /\ b = k + Len(s) => Part(f, a, b) = s
    BY <1>1, SubIs
  <1>5. 0 \in Nat /\ 1 \in Nat /\ 1 = 0 + 1 /\ b = 0 + Len(s)
    BY <1>1
  <1>6. Part(f, 1, b) = s
    BY <1>3, <1>4, <1>5
  <1>7. QED  BY <1>6 DEF f, b

LEMMA SubSecond ==
  ASSUME NEW s, NEW t, IsSeq(s), IsSeq(t),
         NEW a \in Nat, NEW b \in Nat, a = Len(s) + 1, b = Len(s) + Len(t)
  PROVE  Part(s ++ t, a, b) = t
  <1> DEFINE f == s ++ t
             k == Len(s)
  <1>1. /\ IsSeq(f) /\ k \in Nat /\ Len(t) \in Nat /\ k + Len(t) <= Len(f)
        /\ a = k + 1 /\ b = k + Len(t)
    BY CatIs, SeqLen
  <1>2. \A i \in 1..Len(t) : f[k + i] = t[i]
    BY CatSecond
  <1> HIDE DEF f, k
  <1>3. Stands(f, t, k)
    BY <1>1, <1>2 DEF Stands
  <1>4. Part(f, a, b) = t
    BY <1>1, <1>3, SubIs
  <1>5. QED  BY <1>4 DEF f

LEMMA Middle ==
  ASSUME NEW s, NEW t, NEW u, IsSeq(s), IsSeq(t), IsSeq(u),
         NEW a \in Nat, NEW b \in Nat, a = Len(s) + 1, b = Len(s) + Len(t)
  PROVE  Part(s ++ (t ++ u), a, b) = t
  <1> DEFINE v == t ++ u
             f == s ++ v
             k == Len(s)
  <1>1. IsSeq(v) /\ Len(v) = Len(t) + Len(u) /\ Len(t) \in Nat /\ Len(u) \in Nat /\ k \in Nat
    BY CatIs, SeqLen
  <1>2. \A i \in 1..Len(t) : v[i] = t[i] /\ i \in 1..Len(v)
    <2>1. \A i \in 1..Len(t) : v[i] = t[i]
      BY CatFirst
    <2>2. QED  BY <1>1, <2>1
  <1> HIDE DEF v
  <1>3. IsSeq(f) /\ k + Len(t) <= Len(f) /\ a = k + 1 /\ b = k + Len(t)
    BY <1>1, CatIs
  <1>4. \A i \in 1..Len(v) : f[k + i] = v[i]
    BY <1>1, CatSecond
  <1>5. \A i \in 1..Len(t) : f[k + i] = t[i]
    BY <1>2, <1>4
  <1> HIDE DEF f, k
  <1>6. Stands(f, t, k)
    BY <1>3, <1>5 DEF Stands
  <1>7. Part(f, a, b) = t
    BY <1>1, <1>3, <1>6, SubIs
  <1>8. QED  BY <1>7 DEF f, v

(* Two strings end to end tell where the first ends, if its length is known.   *)
LEMMA CatParts ==
  ASSUME NEW s, NEW t, NEW x, NEW y, IsSeq(s), IsSeq(t), IsSeq(x), IsSeq(y),
         Len(s) = Len(x), s ++ t = x ++ y
  PROVE  s = x /\ t = y
  <1>1. s = x
    BY SubFirst
  <1>2. Len(t) = Len(y)
    <2>1. Len(s ++ t) = Len(s) + Len(t) /\ Len(x ++ y) = Len(x) + Len(y)
      BY Cat
    <2>2. QED  BY <2>1, SeqLen
  <1>3. ASSUME NEW i \in 1..Len(t)
        PROVE  t[i] = y[i]
    <2>1. (s ++ t)[Len(s) + i] = t[i]
      BY CatSecond
    <2>2. (x ++ y)[Len(x) + i] = y[i]
      BY <1>2, CatSecond
    <2>3. QED  BY <2>1, <2>2
  <1>4. QED  BY <1>1, <1>2, <1>3, SameSeq

LEMMA LeftOf ==
  ASSUME NEW s, NEW t, IsSeq(s), IsSeq(t)
  PROVE  Left(s ++ t, Len(s)) = s
  <1>1. Len(s) \in Nat /\ Len(t) \in Nat /\ Len(s ++ t) = Len(s) + Len(t)
    BY Cat, SeqLen
  <1>2. CASE Len(t) = 0
    <2>1. \A i \in 1..Len(s ++ t) : (s ++ t)[i] = s[i]
      BY <1>1, <1>2, Cat
    <2>2. IsSeq(s ++ t) /\ Len(s ++ t) = Len(s)
      BY <1>1, <1>2, Cat
    <2>3. s ++ t = s
      BY <2>1, <2>2, SameSeq
    <2>4. QED  BY <1>1, <1>2, <2>3 DEF Left
  <1>3. CASE Len(t) # 0
    BY <1>1, <1>3, SubFirst DEF Left, Part
  <1>4. QED  BY <1>2, <1>3

LEMMA LeftWhole ==
  ASSUME NEW s, NEW n \in Nat, Len(s) <= n
  PROVE  Left(s, n) = s
  BY DEF Left

LEMMA FromAfter ==
  ASSUME NEW s, NEW t, IsSeq(s), IsSeq(t)
  PROVE  From(s ++ t, Len(s)) = t
  <1> DEFINE a == Len(s) + 1
             b == Len(s) + Len(t)
  <1>1. a \in Nat /\ b \in Nat /\ Len(s ++ t) = b
    BY CatIs, SeqLen
  <1>2. Part(s ++ t, a, b) = t
    BY <1>1, SubSecond
  <1>3. QED  BY <1>1, <1>2 DEF From, Part

LEMMA OpaqueIs ==
  ASSUME NEW kind, NEW of, NEW n \in Nat
  PROVE  /\ IsSeq(Opaque(kind, of, n)) /\ Len(Opaque(kind, of, n)) = n
         /\ \A i \in 1..n : Opaque(kind, of, n)[i] = <<kind, of, i>>
  <1> DEFINE s == [i \in 1..n |-> <<kind, of, i>>]
             A == {<<kind, of, i>> : i \in 1..n}
  <1>1. s \in Seq(A) /\ Len(s) = n
    OBVIOUS
  <1>2. QED  BY <1>1 DEF Opaque, IsSeq

LEMMA OpaqueOf ==
  ASSUME NEW kind, NEW x, NEW y, NEW n \in Nat \ {0},
         Opaque(kind, x, n) = Opaque(kind, y, n)
  PROVE  x = y
  <1>1. 1 \in 1..n
    OBVIOUS
  <1>2. <<kind, x, 1>> = <<kind, y, 1>>
    BY <1>1, OpaqueIs
  <1>3. QED  BY <1>2

(* A byte, the first one a relay writes, strings of one and of two, a name: kept *)
(* folded as well.                                                             *)
Octet(n) == <<n>>
RelayByte(ty) == Octet(80 + ty)
One(x) == <<x>>
Two(x, y) == <<x, y>>
Text(name) == <<<<"text", name, 1>>>>

LEMMA OneByte ==
  ASSUME NEW x
  PROVE  IsSeq(One(x)) /\ Len(One(x)) = 1 /\ One(x)[1] = x
  <1>1. <<x>> \in Seq({x})
    OBVIOUS
  <1>2. QED  BY <1>1 DEF IsSeq, One

LEMMA TwoBytes ==
  ASSUME NEW x, NEW y
  PROVE  IsSeq(Two(x, y)) /\ Len(Two(x, y)) = 2 /\ Two(x, y)[1] = x /\ Two(x, y)[2] = y
  <1>1. <<x, y>> \in Seq({x, y})
    OBVIOUS
  <1>2. QED  BY <1>1 DEF IsSeq, Two

LEMMA RelayByteOf ==
  ASSUME NEW ty
  PROVE  RelayByte(ty)[1] = 80 + ty
  BY DEF RelayByte, Octet

LEMMA OctetOf ==
  ASSUME NEW n
  PROVE  Octet(n)[1] = n
  BY DEF Octet

-----------------------------------------------------------------------------
(* Packets: frames on their way. *)

LEMMA Lengths ==
  /\ DST_LEN \in Nat \ {0} /\ KEY \in Nat \ {0} /\ NHL \in Nat \ {0} /\ RHL \in Nat \ {0}
  /\ SIGL \in Nat \ {0} /\ MTU_BYTES \in Nat \ {0} /\ MDU \in Nat \ {0}
  /\ KEY + MTU_BYTES <= MDU
  BY PacketsAssumption DEF PacketsAssumption

LEMMA Hashable ==
  ASSUME NEW f, NEW t, ~(Len(f) < 2), f[1][1] % 16 = t
  PROVE  HashablePart(f) = One(Octet(t)) ++ From(f, IF Header(f) = HEADER_2 THEN 2 + DST_LEN ELSE 2)
  BY DEF HashablePart, ++, One, Octet

LEMMA DirectFrame ==
  ASSUME NEW ty, NEW h, NEW rest, NEW f,
         ty \in 0..2, h \in Nat, IsSeq(rest), f = Two(Octet(ty), Octet(h)) ++ rest
  PROVE  /\ IsSeq(f) /\ Len(f) = 2 + Len(rest)
         /\ f[1] = Octet(ty) /\ f[2] = Octet(h)
         /\ Header(f) = HEADER_1
         /\ From(f, 2) = rest
         /\ HashablePart(f) = One(Octet(ty)) ++ rest
  <1> DEFINE w == Two(Octet(ty), Octet(h))
  <1>0. f = w ++ rest
    OBVIOUS
  <1>1. IsSeq(w) /\ Len(w) = 2 /\ w[1] = Octet(ty) /\ w[2] = Octet(h)
    BY TwoBytes
  <1>2. IsSeq(f) /\ Len(f) = 2 + Len(rest) /\ f[1] = w[1] /\ f[2] = w[2]
    <2> HIDE DEF w
    <2>1. 1 \in 1..Len(w) /\ 2 \in 1..Len(w)
      BY <1>1
    <2>2. IsSeq(f) /\ Len(f) = 2 + Len(rest)
      BY <1>0, <1>1, CatIs
    <2>3. f[1] = w[1]
      BY <1>0, <1>1, <2>1, CatFirst
    <2>4. f[2] = w[2]
      BY <1>0, <1>1, <2>1, CatFirst
    <2>5. QED  BY <2>2, <2>3, <2>4
  <1>3. From(f, 2) = rest
    <2> HIDE DEF w
    <2>1. QED  BY <1>0, <1>1, FromAfter
  <1>4. Header(f) = HEADER_1
    <2>1. f[1][1] = ty
      <3> HIDE DEF w
      <3>1. QED  BY <1>1, <1>2, OctetOf
    <2>2. (ty \div 64) % 2 = 0
      OBVIOUS
    <2>3. QED  BY <2>1, <2>2 DEF Header, HEADER_1
  <1>5. HashablePart(f) = One(Octet(ty)) ++ rest
    <2>1. ~(Len(f) < 2)
      BY <1>2, SeqLen
    <2>2. f[1][1] = ty /\ ty % 16 = ty
      <3>1. f[1][1] = ty
        <4> HIDE DEF w
        <4>1. QED  BY <1>1, <1>2, OctetOf
      <3>2. QED  BY <3>1
    <2>3. QED  BY <1>3, <1>4, <2>1, <2>2, Hashable DEF HEADER_1, HEADER_2
  <1>6. QED  BY <1>1, <1>2, <1>3, <1>4, <1>5

LEMMA RelayedFrame ==
  ASSUME NEW ty, NEW h, NEW rest, NEW r, NEW f,
         ty \in 0..2, h \in Nat, IsSeq(rest), IsSeq(r), Len(r) = DST_LEN,
         f = Two(RelayByte(ty), Octet(h)) ++ (r ++ rest)
  PROVE  /\ IsSeq(f) /\ Len(f) = 2 + DST_LEN + Len(rest)
         /\ f[1] = RelayByte(ty) /\ f[2] = Octet(h)
         /\ Header(f) = HEADER_2
         /\ From(f, 2 + DST_LEN) = rest
         /\ HashablePart(f) = One(Octet(ty)) ++ rest
  <1> DEFINE w == Two(RelayByte(ty), Octet(h))
  <1>0. f = w ++ (r ++ rest)
    OBVIOUS
  <1>1. IsSeq(w) /\ Len(w) = 2 /\ w[1] = RelayByte(ty) /\ w[2] = Octet(h)
    BY TwoBytes
  <1>2. /\ IsSeq(w ++ r) /\ Len(w ++ r) = 2 + DST_LEN
        /\ f = (w ++ r) ++ rest
    <2> HIDE DEF w
    <2>1. IsSeq(w ++ r) /\ Len(w ++ r) = 2 + DST_LEN
      BY <1>0, <1>1, CatIs
    <2>2. (w ++ r) ++ rest = w ++ (r ++ rest)
      <3>1. IsSeq(w)
        BY <1>1
      <3>2. QED  BY <3>1, CatAssoc
    <2>3. QED  BY <1>0, <2>1, <2>2
  <1>3. IsSeq(f) /\ Len(f) = 2 + DST_LEN + Len(rest) /\ f[1] = w[1] /\ f[2] = w[2]
    <2> HIDE DEF w
    <2>1. 1 \in 1..Len(w) /\ 2 \in 1..Len(w)
      BY <1>1
    <2> DEFINE v == r ++ rest
    <2>2. IsSeq(v) /\ f = w ++ v
      BY <1>0, CatIs
    <2>3. IsSeq(f) /\ f[1] = w[1] /\ f[2] = w[2]
      <3> HIDE DEF v
      <3>1. IsSeq(f)
        BY <1>1, <2>2, CatIs
      <3>2. \A i \in 1..Len(w) : (w ++ v)[i] = w[i]
        <4>1. IsSeq(w)
          BY <1>1
        <4>2. QED  BY <2>2, <4>1, CatFirst
      <3>3. f[1] = w[1]
        BY <2>1, <2>2, <3>2
      <3>4. f[2] = w[2]
        BY <2>1, <2>2, <3>2
      <3>5. QED  BY <3>1, <3>3, <3>4
    <2>4. Len(f) = 2 + DST_LEN + Len(rest)
      <3> DEFINE u == w ++ r
      <3>1. IsSeq(u) /\ Len(u) = 2 + DST_LEN /\ f = u ++ rest
        BY <1>2
      <3> HIDE DEF u
      <3>2. Len(u ++ rest) = Len(u) + Len(rest)
        BY <3>1, CatIs
      <3>3. QED  BY <3>1, <3>2
    <2>5. QED  BY <2>3, <2>4
  <1>4. From(f, 2 + DST_LEN) = rest
    <2> DEFINE u == w ++ r
    <2>1. IsSeq(u) /\ Len(u) = 2 + DST_LEN /\ f = u ++ rest
      BY <1>2
    <2> HIDE DEF u
    <2>2. From(u ++ rest, Len(u)) = rest
      BY <2>1, FromAfter
    <2>3. QED  BY <2>1, <2>2
  <1>5. f[1][1] = 80 + ty
    <2> HIDE DEF w
    <2>1. QED  BY <1>1, <1>3, RelayByteOf
  <1>6. Header(f) = HEADER_2
    <2>1. ((80 + ty) \div 64) % 2 = 1
      OBVIOUS
    <2>2. QED  BY <1>5, <2>1 DEF Header, HEADER_2
  <1>7. HashablePart(f) = One(Octet(ty)) ++ rest
    <2>1. ~(Len(f) < 2)
      BY <1>3, SeqLen, Lengths
    <2>2. (80 + ty) % 16 = ty
      OBVIOUS
    <2>3. QED  BY <1>4, <1>5, <1>6, <2>1, <2>2, Hashable
  <1>8. QED  BY <1>1, <1>3, <1>4, <1>6, <1>7

(* What stands where, behind the part before the destination.                  *)
LEMMA Inside ==
  ASSUME NEW p, NEW dest, NEW ctx, NEW payload, NEW f, NEW off,
         IsSeq(p), IsSeq(dest), Len(dest) = DST_LEN, IsSeq(payload),
         f = p ++ (dest ++ (One(ctx) ++ payload)),
         off \in Nat, off = Len(p) + DST_LEN
  PROVE  /\ Part(f, off - DST_LEN + 1, off) = dest
         /\ f[off + 1] = ctx
         /\ From(f, off + 1) = payload
         /\ Len(f) = off + 1 + Len(payload)
  <1> DEFINE c == One(ctx)
             rest == dest ++ (c ++ payload)
             front == p ++ dest
  <1>1. IsSeq(c) /\ Len(c) = 1 /\ c[1] = ctx
    BY OneByte
  <1>2. Len(p) \in Nat /\ Len(payload) \in Nat /\ DST_LEN \in Nat \ {0} /\ off \in Nat
    BY SeqLen, Lengths
  <1>3. IsSeq(c ++ payload) /\ Len(c ++ payload) = 1 + Len(payload) /\ (c ++ payload)[1] = ctx
    <2> HIDE DEF c
    <2>1. IsSeq(c ++ payload) /\ Len(c ++ payload) = 1 + Len(payload)
      BY <1>1, CatIs
    <2>2. (c ++ payload)[1] = c[1]
      <3>1. IsSeq(c) /\ 1 \in 1..Len(c)
        BY <1>1
      <3>2. QED  BY <3>1, CatFirst
    <2>3. QED  BY <1>1, <2>1, <2>2
  <1>4. IsSeq(rest) /\ Len(rest) = DST_LEN + 1 + Len(payload)
    <2> DEFINE tail == c ++ payload
    <2>1. IsSeq(tail) /\ Len(tail) = 1 + Len(payload) /\ rest = dest ++ tail
      BY <1>3
    <2> HIDE DEF tail, rest
    <2>2. IsSeq(dest ++ tail) /\ Len(dest ++ tail) = Len(dest) + Len(tail)
      BY <2>1, CatIs
    <2>3. QED  BY <1>2, <2>1, <2>2
  <1>5. IsSeq(front) /\ Len(front) = off /\ f = front ++ (c ++ payload)
    <2> DEFINE tail == c ++ payload
    <2>1. IsSeq(tail) /\ f = p ++ (dest ++ tail)
      BY <1>3
    <2>2. IsSeq(front) /\ Len(front) = off
      BY CatIs
    <2> HIDE DEF tail
    <2>3. (p ++ dest) ++ tail = p ++ (dest ++ tail)
      BY <2>1, CatAssoc
    <2>4. QED  BY <2>1, <2>2, <2>3 DEF tail
  <1>6. Part(f, off - DST_LEN + 1, off) = dest
    <2> DEFINE tail == c ++ payload
               a == off - DST_LEN + 1
    <2>1. IsSeq(tail) /\ f = p ++ (dest ++ tail)
      BY <1>3
    <2>2. a \in Nat /\ off \in Nat /\ a = Len(p) + 1 /\ off = Len(p) + Len(dest)
      BY <1>2
    <2> HIDE DEF tail, a
    <2>3. Part(p ++ (dest ++ tail), a, off) = dest
      BY <2>1, <2>2, Middle
    <2>4. QED  BY <2>1, <2>3 DEF a
  <1>7. f[off + 1] = ctx
    <2> DEFINE tail == c ++ payload
    <2>1. IsSeq(tail) /\ 1 \in 1..Len(tail) /\ tail[1] = ctx /\ f = front ++ tail
      BY <1>2, <1>3, <1>5
    <2> HIDE DEF tail, front
    <2>2. (front ++ tail)[Len(front) + 1] = tail[1]
      BY <1>5, <2>1, CatSecond
    <2>3. QED  BY <1>5, <2>1, <2>2
  <1>8. From(f, off + 1) = payload
    <2> DEFINE head == front ++ c
    <2>1. IsSeq(head) /\ Len(head) = off + 1 /\ f = head ++ payload
      <3> HIDE DEF front, c
      <3>1. IsSeq(front ++ c) /\ Len(front ++ c) = off + 1
        BY <1>1, <1>5, CatIs
      <3>2. (front ++ c) ++ payload = front ++ (c ++ payload)
        <4>1. IsSeq(c) /\ IsSeq(front)
          BY <1>1, <1>5
        <4>2. \A x, y : IsSeq(x) /\ IsSeq(y) => (x ++ y) ++ payload = x ++ (y ++ payload)
          BY CatAssoc
        <4>3. QED  BY <4>1, <4>2
      <3>3. QED  BY <1>5, <3>1, <3>2
    <2> HIDE DEF head
    <2>2. From(head ++ payload, Len(head)) = payload
      BY <2>1, FromAfter
    <2>3. QED  BY <2>1, <2>2
  <1>9. Len(f) = off + 1 + Len(payload)
    <2> DEFINE tail == c ++ payload
    <2>1. IsSeq(tail) /\ Len(tail) = 1 + Len(payload) /\ f = front ++ tail
      BY <1>3, <1>5
    <2> HIDE DEF tail, front
    <2>2. Len(front ++ tail) = Len(front) + Len(tail)
      BY <1>5, <2>1, Cat
    <2>3. QED  BY <1>2, <1>5, <2>1, <2>2
  <1>10. QED  BY <1>6, <1>7, <1>8, <1>9


(* The first part of a string, when it is cut behind that.                     *)
LEMMA LeftCat ==
  ASSUME NEW s, NEW t, NEW n, NEW m,
         IsSeq(s), IsSeq(t), n \in Nat, m \in Nat, m = Len(s) + n
  PROVE  Left(s ++ t, m) = s ++ Left(t, n)
  <1>1. Len(s) \in Nat /\ Len(t) \in Nat /\ IsSeq(s ++ t) /\ Len(s ++ t) = Len(s) + Len(t)
    BY CatIs, SeqLen
  <1>2. CASE Len(t) <= n
    BY <1>1, <1>2 DEF Left
  <1>3. CASE n < Len(t)
    <2> DEFINE u == SubSeq(s ++ t, 1, m)
               v == SubSeq(t, 1, n)
    <2>1. IsSeq(u) /\ Len(u) = m /\ \A i \in 1..m : u[i] = (s ++ t)[i]
      <3>1. 1 \in Nat /\ 1 <= 1 /\ 1 <= m + 1 /\ m <= Len(s ++ t) /\ m - 1 + 1 = m
        BY <1>1, <1>3
      <3>2. /\ IsSeq(u) /\ Len(u) = m - 1 + 1
            /\ \A i \in 1..m - 1 + 1 : u[i] = (s ++ t)[1 + i - 1]
        BY <1>1, <3>1, Sub
      <3>3. \A i \in 1..m : 1 + i - 1 = i
        OBVIOUS
      <3> HIDE DEF u
      <3>4. QED  BY <3>1, <3>2, <3>3
    <2>2. IsSeq(v) /\ Len(v) = n /\ \A i \in 1..n : v[i] = t[i]
      <3>1. 1 \in Nat /\ 1 <= 1 /\ 1 <= n + 1 /\ n <= Len(t) /\ n - 1 + 1 = n
        BY <1>1, <1>3
      <3>2. /\ IsSeq(v) /\ Len(v) = n - 1 + 1
            /\ \A i \in 1..n - 1 + 1 : v[i] = t[1 + i - 1]
        BY <1>1, <3>1, Sub
      <3>3. \A i \in 1..n : 1 + i - 1 = i
        OBVIOUS
      <3> HIDE DEF v
      <3>4. QED  BY <3>1, <3>2, <3>3
    <2> HIDE DEF u, v
    <2>3. IsSeq(s ++ v) /\ Len(s ++ v) = m
      BY <2>2, CatIs
    <2>4. ASSUME NEW i \in 1..m
          PROVE  u[i] = (s ++ v)[i]
      <3>1. CASE i <= Len(s)
        <4>1. i \in 1..Len(s)
          BY <1>1, <3>1
        <4>2. (s ++ t)[i] = s[i]
          BY <4>1, CatFirst
        <4>3. (s ++ v)[i] = s[i]
          BY <2>2, <4>1, CatFirst
        <4>4. QED  BY <2>1, <4>2, <4>3
      <3>2. CASE i > Len(s)
        <4>1. PICK j \in 1..n : i = Len(s) + j
          <5>1. i - Len(s) \in 1..n /\ i = Len(s) + (i - Len(s))
            BY <1>1, <3>2
          <5>2. QED  BY <5>1
        <4>2. j \in 1..Len(t) /\ j \in 1..Len(v)
          BY <1>1, <1>3, <2>2
        <4>3. (s ++ t)[Len(s) + j] = t[j]
          BY <4>2, CatSecond
        <4>4. (s ++ v)[Len(s) + j] = v[j]
          BY <2>2, <4>2, CatSecond
        <4>5. QED  BY <2>1, <2>2, <4>1, <4>3, <4>4
      <3>3. QED  BY <1>1, <3>1, <3>2
    <2>5. u = s ++ v
      BY <2>1, <2>3, <2>4, SameSeq
    <2>6. Left(s ++ t, m) = u /\ Left(t, n) = v
      BY <1>1, <1>3 DEF Left, u, v
    <2>7. QED  BY <2>5, <2>6
  <1>4. QED  BY <1>1, <1>2, <1>3

(* Five strings end to end are read back by their lengths.                     *)
LEMMA FiveParts ==
  ASSUME NEW s, NEW t, NEW u, NEW v, NEW w,
         IsSeq(s), IsSeq(t), IsSeq(u), IsSeq(v), IsSeq(w),
         NEW a \in Nat, NEW b \in Nat, NEW c \in Nat, NEW d \in Nat,
         Len(s) = a, Len(t) = b, Len(u) = c, Len(v) = d
  PROVE  LET all == (((s ++ t) ++ u) ++ v) ++ w
         IN  /\ IsSeq(((s ++ t) ++ u) ++ v) /\ Len(((s ++ t) ++ u) ++ v) = a + b + c + d
             /\ IsSeq(all) /\ Len(all) = a + b + c + d + Len(w)
             /\ Left(all, a) = s
             /\ Part(all, a + 1, a + b) = t
             /\ Part(all, a + b + 1, a + b + c) = u
             /\ Part(all, a + b + c + 1, a + b + c + d) = v
             /\ From(all, a + b + c + d) = w
  <1> DEFINE st == s ++ t
             stu == st ++ u
             stuv == stu ++ v
             all == stuv ++ w
             vw == v ++ w
             uvw == u ++ vw
             tuvw == t ++ uvw
  <1>0. \A x, y, z : IsSeq(x) /\ IsSeq(y) /\ IsSeq(z) => (x ++ y) ++ z = x ++ (y ++ z)
    BY CatAssoc
  <1>1. IsSeq(st) /\ Len(st) = a + b
    BY CatIs
  <1>2. IsSeq(stu) /\ Len(stu) = a + b + c
    <2> HIDE DEF st
    <2>1. QED  BY <1>1, CatIs
  <1>3. IsSeq(stuv) /\ Len(stuv) = a + b + c + d
    <2> HIDE DEF stu
    <2>1. QED  BY <1>2, CatIs
  <1>4. IsSeq(all) /\ Len(all) = a + b + c + d + Len(w)
    <2> HIDE DEF stuv
    <2>1. QED  BY <1>3, CatIs
  <1>5. IsSeq(vw)
    BY CatIs
  <1>6. IsSeq(uvw)
    <2> HIDE DEF vw
    <2>1. QED  BY <1>5, CatIs
  <1>7. IsSeq(tuvw)
    <2> HIDE DEF uvw
    <2>1. QED  BY <1>6, CatIs
  <1>8. all = stu ++ vw
    <2> HIDE DEF stu
    <2>1. QED  BY <1>0, <1>2
  <1>9. all = st ++ uvw
    <2>1. stu ++ vw = st ++ uvw
      <3> HIDE DEF st, vw
      <3>1. QED  BY <1>0, <1>1, <1>5
    <2>2. QED  BY <1>8, <2>1
  <1>10. all = s ++ tuvw
    <2>1. st ++ uvw = s ++ tuvw
      <3> HIDE DEF uvw
      <3>1. QED  BY <1>0, <1>6
    <2>2. QED  BY <1>9, <2>1
  <1>11. Left(all, a) = s
    <2> HIDE DEF tuvw, all
    <2>1. QED  BY <1>7, <1>10, LeftOf
  <1>12. Part(all, a + 1, a + b) = t
    <2>1. all = s ++ (t ++ uvw)
      BY <1>10
    <2> HIDE DEF uvw, all
    <2> DEFINE i == a + 1
               j == a + b
    <2>2. i \in Nat /\ j \in Nat /\ i = Len(s) + 1 /\ j = Len(s) + Len(t)
      OBVIOUS
    <2> HIDE DEF i, j
    <2>3. Part(s ++ (t ++ uvw), i, j) = t
      BY <1>6, <2>2, Middle
    <2>4. QED  BY <2>1, <2>3 DEF i, j
  <1>13. Part(all, a + b + 1, a + b + c) = u
    <2>1. all = st ++ (u ++ vw)
      BY <1>9
    <2> DEFINE i == a + b + 1
               j == a + b + c
    <2>2. i \in Nat /\ j \in Nat /\ i = Len(st) + 1 /\ j = Len(st) + Len(u)
      BY <1>1
    <2> HIDE DEF vw, all, st, i, j
    <2>3. Part(st ++ (u ++ vw), i, j) = u
      BY <1>1, <1>5, <2>2, Middle
    <2>4. QED  BY <2>1, <2>3 DEF i, j
  <1>14. Part(all, a + b + c + 1, a + b + c + d) = v
    <2>1. all = stu ++ (v ++ w)
      BY <1>8
    <2> DEFINE i == a + b + c + 1
               j == a + b + c + d
    <2>2. IsSeq(stu) /\ i \in Nat /\ j \in Nat /\ i = Len(stu) + 1 /\ j = Len(stu) + Len(v)
      BY <1>2
    <2> HIDE DEF all, stu, i, j
    <2>3. Part(stu ++ (v ++ w), i, j) = v
      BY <2>2, Middle
    <2>4. QED  BY <2>1, <2>3 DEF i, j
  <1>15. From(all, a + b + c + d) = w
    <2> HIDE DEF stuv
    <2>1. From(stuv ++ w, Len(stuv)) = w
      BY <1>3, FromAfter
    <2>2. QED  BY <1>3, <2>1
  <1>16. QED  BY <1>3, <1>4, <1>11, <1>12, <1>13, <1>14, <1>15


-----------------------------------------------------------------------------
(* Packets: what a call puts on the way.                                       *)

TypeOf(c) == CASE c.call = "announce" -> ANNOUNCE
               [] c.call = "request" -> LINKREQUEST
               [] c.call = "data" -> DATA

DestOf(c) == Destination(c.id, c.name, IF c.call = "announce" THEN c.given ELSE TRUE)

BodyOf(c) == CASE c.call = "announce" -> PacketData(AnnounceData(DestOf(c), c.app))
               [] c.call = "request" -> PacketData(RequestData(c.key, c.withMtu))
               [] c.call = "data" -> Encrypt(c.id, PacketData(c.data))

RestOf(c) == DestOf(c).hash ++ (One(Octet(CONTEXT_NONE)) ++ BodyOf(c))

(* The frame of a call, on any way: sent to all, or addressed to a relay.      *)
Direct(c, h) == Two(Octet(TypeOf(c)), Octet(h)) ++ RestOf(c)
Relayed(c, h, t) == Two(RelayByte(TypeOf(c)), Octet(h)) ++ (Opaque("relay", t, DST_LEN) ++ RestOf(c))

Travels(c, f) == \/ \E h \in Nat : f = Direct(c, h)
                 \/ \E h \in Nat, t \in Relays : f = Relayed(c, h, t)

FrameInv == \/ sent = NothingSent /\ raw = <<>>
            \/ sent \in Calls /\ Travels(sent, raw)

LEMMA CallKinds ==
  ASSUME NEW c \in Calls
  PROVE  /\ TypeOf(c) \in 0..2
         /\ \/ /\ c.call = "announce" /\ c.given \in BOOLEAN /\ c.app \in Payloads
               /\ TypeOf(c) = ANNOUNCE
            \/ /\ c.call = "request" /\ c.key \in Keys /\ c.withMtu \in BOOLEAN
               /\ TypeOf(c) = LINKREQUEST
            \/ /\ c.call = "data" /\ c.data \in Payloads /\ TypeOf(c) = DATA
         /\ c.id \in Owners /\ c.name \in Names
  BY DEF Calls, TypeOf, ANNOUNCE, LINKREQUEST, DATA

LEMMA PayloadIs ==
  ASSUME NEW x \in Payloads
  PROVE  IsSeq(x)
  BY PacketsAssumption DEF PacketsAssumption, IsSeq

LEMMA LeftIs ==
  ASSUME NEW s, IsSeq(s), NEW n \in Nat
  PROVE  /\ IsSeq(Left(s, n))
         /\ Len(Left(s, n)) = IF Len(s) <= n THEN Len(s) ELSE n
  <1>1. Len(s) \in Nat
    BY SeqLen
  <1>2. CASE Len(s) <= n
    BY <1>2 DEF Left
  <1>3. CASE n < Len(s)
    <2>1. 1 \in Nat /\ 1 <= 1 /\ 1 <= n + 1 /\ n <= Len(s) /\ n - 1 + 1 = n
      BY <1>1, <1>3
    <2>2. IsSeq(SubSeq(s, 1, n)) /\ Len(SubSeq(s, 1, n)) = n - 1 + 1
      BY <2>1, Sub
    <2>3. ~(Len(s) <= n)
      BY <1>1, <1>3
    <2>4. QED  BY <2>1, <2>2, <2>3 DEF Left
  <1>4. QED  BY <1>1, <1>2, <1>3

LEMMA DestinationIs ==
  ASSUME NEW id, NEW name, NEW given \in BOOLEAN
  PROVE  /\ IsSeq(Destination(id, name, given).hash)
         /\ Len(Destination(id, name, given).hash) = DST_LEN
         /\ Destination(id, name, given).id = id
         /\ Destination(id, name, given).nameHash = NameHash(Text(name))
         /\ given => Destination(id, name, given).hash = DestinationHash(id, Text(name))
         /\ ~given => Destination(id, name, given).hash
                        = DestinationHash(id, Text(name) ++ IdentityHash(id))
  <1>1. \A of : IsSeq(Hashed(of, DST_LEN)) /\ Len(Hashed(of, DST_LEN)) = DST_LEN
    BY OpaqueIs, Lengths DEF Hashed
  <1>2. \A text : IsSeq(DestinationHash(id, text)) /\ Len(DestinationHash(id, text)) = DST_LEN
    BY <1>1 DEF DestinationHash
  <1>3. CASE given
    BY <1>2, <1>3 DEF Destination, Text
  <1>4. CASE ~given
    BY <1>2, <1>4 DEF Destination, ++, Text
  <1>5. QED  BY <1>3, <1>4


(* The parts of announce data, and of request data.                            *)
Random(c) == Opaque("random", c.id, RHL)
Message(c, app) ==
  SignedPart(DestOf(c).hash, PublicKey(c.id), NameHash(Text(c.name)), Random(c), app)
Signed(c) ==
  ((PublicKey(c.id) ++ NameHash(Text(c.name))) ++ Random(c)) ++ Sign(c.id, Message(c, c.app))

LEMMA PartsAre ==
  ASSUME NEW c
  PROVE  /\ IsSeq(PublicKey(c.id)) /\ Len(PublicKey(c.id)) = KEY
         /\ IsSeq(NameHash(Text(c.name))) /\ Len(NameHash(Text(c.name))) = NHL
         /\ IsSeq(Random(c)) /\ Len(Random(c)) = RHL
         /\ \A m : IsSeq(Sign(c.id, m)) /\ Len(Sign(c.id, m)) = SIGL
  <1>1. \A kind, of : /\ IsSeq(Opaque(kind, of, KEY)) /\ Len(Opaque(kind, of, KEY)) = KEY
                      /\ IsSeq(Opaque(kind, of, NHL)) /\ Len(Opaque(kind, of, NHL)) = NHL
                      /\ IsSeq(Opaque(kind, of, RHL)) /\ Len(Opaque(kind, of, RHL)) = RHL
                      /\ IsSeq(Opaque(kind, of, SIGL)) /\ Len(Opaque(kind, of, SIGL)) = SIGL
    BY OpaqueIs, Lengths
  <1>2. QED  BY <1>1 DEF PublicKey, NameHash, Hashed, Random, Sign

LEMMA SignedIs ==
  ASSUME NEW c \in Calls
  PROVE  IsSeq(Signed(c)) /\ Len(Signed(c)) = AnnounceMin
  <1> DEFINE a == PublicKey(c.id)
             b == NameHash(Text(c.name))
             r == Random(c)
             z == Sign(c.id, Message(c, c.app))
  <1>1. /\ IsSeq(a) /\ Len(a) = KEY /\ IsSeq(b) /\ Len(b) = NHL
        /\ IsSeq(r) /\ Len(r) = RHL /\ IsSeq(z) /\ Len(z) = SIGL
    BY PartsAre
  <1> HIDE DEF a, b, r, z
  <1>2. IsSeq(a ++ b) /\ Len(a ++ b) = KEY + NHL
    BY <1>1, CatIs
  <1>3. IsSeq((a ++ b) ++ r) /\ Len((a ++ b) ++ r) = KEY + NHL + RHL
    BY <1>1, <1>2, CatIs
  <1>4. IsSeq(((a ++ b) ++ r) ++ z) /\ Len(((a ++ b) ++ r) ++ z) = KEY + NHL + RHL + SIGL
    BY <1>1, <1>3, CatIs
  <1>5. QED  BY <1>4 DEF Signed, AnnounceMin, a, b, r, z

LEMMA AnnounceDataIs ==
  ASSUME NEW c \in Calls, c.call = "announce"
  PROVE  AnnounceData(DestOf(c), c.app) = Signed(c) ++ c.app
  <1>1. DestOf(c).id = c.id /\ DestOf(c).nameHash = NameHash(Text(c.name))
    <2>1. \A g \in BOOLEAN : /\ Destination(c.id, c.name, g).id = c.id
                             /\ Destination(c.id, c.name, g).nameHash = NameHash(Text(c.name))
      BY DestinationIs
    <2>2. c.given \in BOOLEAN /\ DestOf(c) = Destination(c.id, c.name, c.given)
      BY CallKinds DEF DestOf
    <2>3. QED  BY <2>1, <2>2
  <1> DEFINE d == DestOf(c)
  <1> HIDE DEF d
  <1>2. AnnounceData(d, c.app) =
          (((PublicKey(d.id) ++ d.nameHash) ++ Opaque("random", d.id, RHL))
             ++ Sign(d.id, SignedPart(d.hash, PublicKey(d.id), d.nameHash,
                                      Opaque("random", d.id, RHL), c.app))) ++ c.app
    BY DEF AnnounceData, ++
  <1>3. QED  BY <1>1, <1>2 DEF d, Signed, Message, Random

LEMMA RequestDataIs ==
  ASSUME NEW key, NEW withMtu \in BOOLEAN
  PROVE  /\ IsSeq(Opaque("key", key, KEY)) /\ Len(Opaque("key", key, KEY)) = KEY
         /\ RequestData(key, withMtu) = Opaque("key", key, KEY)
              ++ (IF withMtu THEN Opaque("mtu", key, MTU_BYTES) ELSE <<>>)
         /\ IsSeq(IF withMtu THEN Opaque("mtu", key, MTU_BYTES) ELSE <<>>)
         /\ Len(IF withMtu THEN Opaque("mtu", key, MTU_BYTES) ELSE <<>>)
              = IF withMtu THEN MTU_BYTES ELSE 0
         /\ IsSeq(RequestData(key, withMtu))
         /\ Len(RequestData(key, withMtu)) = IF withMtu THEN KEY + MTU_BYTES ELSE KEY
         /\ PacketData(RequestData(key, withMtu)) = RequestData(key, withMtu)
  <1> DEFINE k == Opaque("key", key, KEY)
             m == IF withMtu THEN Opaque("mtu", key, MTU_BYTES) ELSE <<>>
  <1>1. IsSeq(k) /\ Len(k) = KEY
    BY OpaqueIs, Lengths
  <1>2. IsSeq(m) /\ Len(m) = IF withMtu THEN MTU_BYTES ELSE 0
    <2>1. <<>> \in Seq({}) /\ Len(<<>>) = 0
      OBVIOUS
    <2>2. IsSeq(Opaque("mtu", key, MTU_BYTES)) /\ Len(Opaque("mtu", key, MTU_BYTES)) = MTU_BYTES
      BY OpaqueIs, Lengths
    <2>3. IsSeq(<<>>)
      BY <2>1 DEF IsSeq
    <2>4. QED  BY <2>1, <2>2, <2>3
  <1>3. RequestData(key, withMtu) = k ++ m
    BY DEF RequestData, ++
  <1> HIDE DEF k, m
  <1>4. /\ IsSeq(RequestData(key, withMtu))
        /\ Len(RequestData(key, withMtu)) = IF withMtu THEN KEY + MTU_BYTES ELSE KEY
    <2>1. IsSeq(k ++ m) /\ Len(k ++ m) = Len(k) + Len(m)
      BY <1>1, <1>2, CatIs
    <2>2. QED  BY <1>1, <1>2, <1>3, <2>1, Lengths
  <1>5. PacketData(RequestData(key, withMtu)) = RequestData(key, withMtu)
    BY <1>4, Lengths, LeftWhole DEF PacketData
  <1>6. QED  BY <1>1, <1>2, <1>3, <1>4, <1>5 DEF k, m

LEMMA BodyIs ==
  ASSUME NEW c \in Calls
  PROVE  IsSeq(BodyOf(c))
  <1>1. CASE c.call = "announce"
    <2>1. IsSeq(Signed(c)) /\ IsSeq(c.app)
      BY <1>1, CallKinds, SignedIs, PayloadIs
    <2>2. IsSeq(Signed(c) ++ c.app)
      BY <2>1, CatIs
    <2>3. IsSeq(Left(Signed(c) ++ c.app, MDU))
      BY <2>2, LeftIs, Lengths
    <2>4. QED  BY <1>1, <2>3, AnnounceDataIs DEF BodyOf, PacketData
  <1>2. CASE c.call = "request"
    <2>1. c.withMtu \in BOOLEAN
      BY <1>2, CallKinds
    <2>2. IsSeq(PacketData(RequestData(c.key, c.withMtu)))
      BY <2>1, RequestDataIs
    <2>3. QED  BY <1>2, <2>2 DEF BodyOf
  <1>3. CASE c.call = "data"
    <2>1. IsSeq(c.data)
      BY <1>3, CallKinds, PayloadIs
    <2>2. Len(Left(c.data, MDU)) \in Nat
      BY <2>1, LeftIs, Lengths, SeqLen
    <2>3. IsSeq(Encrypt(c.id, Left(c.data, MDU)))
      <3> DEFINE n == Len(Left(c.data, MDU)) + 1
      <3>1. n \in Nat
        BY <2>2
      <3> HIDE DEF n
      <3>2. \A of : IsSeq(Opaque("sealed", of, n))
        BY <3>1, OpaqueIs
      <3>3. QED  BY <3>2 DEF Encrypt, n
    <2>4. QED  BY <1>3, <2>3 DEF BodyOf, PacketData
  <1>4. QED  BY <1>1, <1>2, <1>3, CallKinds

LEMMA DestIs ==
  ASSUME NEW c \in Calls
  PROVE  IsSeq(DestOf(c).hash) /\ Len(DestOf(c).hash) = DST_LEN
  BY DestinationIs, CallKinds DEF DestOf

LEMMA RestIs ==
  ASSUME NEW c \in Calls
  PROVE  /\ IsSeq(One(Octet(CONTEXT_NONE)) ++ BodyOf(c))
         /\ IsSeq(RestOf(c)) /\ Len(RestOf(c)) = DST_LEN + 1 + Len(BodyOf(c))
         /\ Len(BodyOf(c)) \in Nat
  <1> DEFINE x == One(Octet(CONTEXT_NONE))
             d == DestOf(c).hash
             b == BodyOf(c)
             xb == x ++ b
  <1>1. IsSeq(x) /\ Len(x) = 1
    BY OneByte
  <1>2. IsSeq(b) /\ Len(b) \in Nat /\ IsSeq(d) /\ Len(d) = DST_LEN
    BY BodyIs, DestIs, SeqLen
  <1> HIDE DEF x, d, b
  <1>3. IsSeq(xb) /\ Len(xb) = 1 + Len(b)
    BY <1>1, <1>2, CatIs
  <1> HIDE DEF xb
  <1>4. IsSeq(d ++ xb) /\ Len(d ++ xb) = DST_LEN + (1 + Len(b))
    BY <1>2, <1>3, CatIs
  <1>5. DST_LEN + (1 + Len(b)) = DST_LEN + 1 + Len(b)
    BY <1>2, Lengths
  <1>6. QED  BY <1>2, <1>3, <1>4, <1>5 DEF x, d, b, xb, RestOf

LEMMA BuiltIs ==
  ASSUME NEW c \in Calls
  PROVE  Built(c) = Direct(c, 0)
  <1> DEFINE w == Two(Octet(TypeOf(c)), Octet(0))
             x == One(Octet(CONTEXT_NONE))
             d == DestOf(c).hash
             b == BodyOf(c)
  <1>1. IsSeq(w) /\ IsSeq(x) /\ IsSeq(d) /\ IsSeq(b)
    BY OneByte, TwoBytes, BodyIs, DestIs
  <1>2. Built(c) = ((w ++ d) ++ x) ++ b
    <2>1. \A ty \in 0..2 : PackFlags(HEADER_1, 0, SINGLE, ty) = ty
      BY DEF PackFlags, HEADER_1, SINGLE
    <2>2. CASE c.call = "announce"
      <3>1. Built(c) = Frame(DestOf(c), ANNOUNCE, AnnounceData(DestOf(c), c.app))
        BY <2>2 DEF Built, DestOf
      <3>2. \A y : Frame(DestOf(c), ANNOUNCE, y) = ((Two(Octet(PackFlags(HEADER_1, 0, SINGLE, ANNOUNCE)), Octet(0)) ++ d) ++ x) ++ PacketData(y)
        BY DEF Frame, ++, ANNOUNCE, DATA, One, Two, Octet
      <3>3. TypeOf(c) = ANNOUNCE /\ ANNOUNCE \in 0..2
        BY <2>2, CallKinds DEF ANNOUNCE
      <3>4. QED  BY <2>1, <2>2, <3>1, <3>2, <3>3 DEF BodyOf
    <2>3. CASE c.call = "request"
      <3>1. Built(c) = Frame(DestOf(c), LINKREQUEST, RequestData(c.key, c.withMtu))
        BY <2>3 DEF Built, DestOf
      <3>2. \A y : Frame(DestOf(c), LINKREQUEST, y) = ((Two(Octet(PackFlags(HEADER_1, 0, SINGLE, LINKREQUEST)), Octet(0)) ++ d) ++ x) ++ PacketData(y)
        BY DEF Frame, ++, LINKREQUEST, DATA, One, Two, Octet
      <3>3. TypeOf(c) = LINKREQUEST /\ LINKREQUEST \in 0..2
        BY <2>3, CallKinds DEF LINKREQUEST
      <3>4. QED  BY <2>1, <2>3, <3>1, <3>2, <3>3 DEF BodyOf
    <2>4. CASE c.call = "data"
      <3>1. Built(c) = Frame(DestOf(c), DATA, c.data)
        BY <2>4 DEF Built, DestOf
      <3>2. \A y : Frame(DestOf(c), DATA, y) = ((Two(Octet(PackFlags(HEADER_1, 0, SINGLE, DATA)), Octet(0)) ++ d) ++ x) ++ Encrypt(DestOf(c).id, PacketData(y))
        BY DEF Frame, ++, DATA, One, Two, Octet
      <3>3. TypeOf(c) = DATA /\ DATA \in 0..2 /\ DestOf(c).id = c.id
        BY <2>4, CallKinds, DestinationIs DEF DATA, DestOf
      <3>4. QED  BY <2>1, <2>4, <3>1, <3>2, <3>3 DEF BodyOf
    <2>5. QED  BY <2>2, <2>3, <2>4, CallKinds
  <1> HIDE DEF w, x, d, b
  <1>3. (w ++ d) ++ x = w ++ (d ++ x) /\ IsSeq(d ++ x)
    BY <1>1, CatAssoc, CatIs
  <1>4. (w ++ (d ++ x)) ++ b = w ++ ((d ++ x) ++ b)
    BY <1>1, <1>3, CatAssoc
  <1>5. (d ++ x) ++ b = d ++ (x ++ b)
    BY <1>1, CatAssoc
  <1>6. QED  BY <1>2, <1>3, <1>4, <1>5 DEF w, x, d, b, Direct, RestOf


(* The frame of a call, read anywhere on its way.                              *)
Read(c) == [ok |-> TRUE, type |-> TypeOf(c), dest |-> DestOf(c).hash,
            context |-> Octet(CONTEXT_NONE), data |-> BodyOf(c),
            hash |-> Hashed(One(Octet(TypeOf(c))) ++ RestOf(c), DST_LEN)]

LEMMA DirectRead ==
  ASSUME NEW c \in Calls, NEW h \in Nat
  PROVE  LET f == Direct(c, h)
         IN  /\ IsSeq(f) /\ f[1] = Octet(TypeOf(c)) /\ f[2] = Octet(h) /\ f # <<>>
             /\ Header(f) = HEADER_1
             /\ From(f, 2) = RestOf(c)
             /\ HashablePart(f) = One(Octet(TypeOf(c))) ++ RestOf(c)
             /\ Unpack(f) = Read(c)
  <1> DEFINE f == Direct(c, h)
             w == Two(Octet(TypeOf(c)), Octet(h))
             off == 2 + DST_LEN
  <1>1. /\ IsSeq(f) /\ Len(f) = 2 + Len(RestOf(c))
        /\ f[1] = Octet(TypeOf(c)) /\ f[2] = Octet(h) /\ Header(f) = HEADER_1
        /\ From(f, 2) = RestOf(c)
        /\ HashablePart(f) = One(Octet(TypeOf(c))) ++ RestOf(c)
    <2>1. TypeOf(c) \in 0..2 /\ IsSeq(RestOf(c))
      BY CallKinds, RestIs
    <2>2. PICK ty \in 0..2 : ty = TypeOf(c)
      BY <2>1
    <2>3. f = Two(Octet(ty), Octet(h)) ++ RestOf(c)
      BY <2>2 DEF Direct
    <2> HIDE DEF f
    <2>4. QED  BY <2>1, <2>2, <2>3, DirectFrame
  <1>2. /\ Part(f, off - DST_LEN + 1, off) = DestOf(c).hash
        /\ f[off + 1] = Octet(CONTEXT_NONE) /\ From(f, off + 1) = BodyOf(c)
    <2>1. IsSeq(w) /\ Len(w) = 2
      BY TwoBytes
    <2>2. IsSeq(DestOf(c).hash) /\ Len(DestOf(c).hash) = DST_LEN /\ IsSeq(BodyOf(c))
      BY DestIs, BodyIs
    <2>3. f = w ++ (DestOf(c).hash ++ (One(Octet(CONTEXT_NONE)) ++ BodyOf(c)))
      BY DEF Direct, RestOf
    <2> DEFINE n == Len(w) + DST_LEN
    <2>4. n \in Nat /\ n = off
      BY <2>1, Lengths
    <2> HIDE DEF w, f
    <2>5. /\ Part(f, n - DST_LEN + 1, n) = DestOf(c).hash
          /\ f[n + 1] = Octet(CONTEXT_NONE) /\ From(f, n + 1) = BodyOf(c)
      <3>1. IsSeq(w) /\ n \in Nat
        BY <2>1, <2>4
      <3>2. QED  BY <2>2, <2>3, <3>1, Inside
    <2> HIDE DEF n
    <2>6. QED  BY <2>4, <2>5
  <1>3. Len(f) \in Nat /\ ~(Len(f) < 2 + DST_LEN + 1) /\ ~(Len(f) < off + 1) /\ Len(f) # 0
    <2> HIDE DEF f
    <2>1. QED  BY <1>1, RestIs, Lengths
  <1>4. f # <<>>
    <2> HIDE DEF f
    <2>1. QED  BY <1>3
  <1>5. Unpack(f) = Read(c)
    <2>1. f[1][1] % 4 = TypeOf(c)
      <3>1. f[1][1] = TypeOf(c)
        <4> HIDE DEF f
        <4>1. QED  BY <1>1, OctetOf
      <3>2. TypeOf(c) % 4 = TypeOf(c)
        BY CallKinds
      <3>3. QED  BY <3>1, <3>2
    <2> HIDE DEF f
    <2>2. Unpack(f) = [ok |-> TRUE, type |-> f[1][1] % 4,
                       dest |-> Part(f, off - DST_LEN + 1, off),
                       context |-> f[off + 1], data |-> From(f, off + 1),
                       hash |-> Hashed(HashablePart(f), DST_LEN)]
      <3>1. ~(Header(f) = HEADER_2)
        BY <1>1 DEF HEADER_1, HEADER_2
      <3>2. QED  BY <1>3, <3>1 DEF Unpack, Part
    <2>3. QED  BY <1>1, <1>2, <2>1, <2>2 DEF Read
  <1>6. QED  BY <1>1, <1>4, <1>5

LEMMA RelayedRead ==
  ASSUME NEW c \in Calls, NEW h \in Nat, NEW t
  PROVE  LET f == Relayed(c, h, t)
         IN  /\ IsSeq(f) /\ f[1] = RelayByte(TypeOf(c)) /\ f[2] = Octet(h) /\ f # <<>>
             /\ Header(f) = HEADER_2
             /\ From(f, 2 + DST_LEN) = RestOf(c)
             /\ HashablePart(f) = One(Octet(TypeOf(c))) ++ RestOf(c)
             /\ Unpack(f) = Read(c)
  <1> DEFINE f == Relayed(c, h, t)
             w == Two(RelayByte(TypeOf(c)), Octet(h))
             r == Opaque("relay", t, DST_LEN)
             off == 2 + 2 * DST_LEN
  <1>0. IsSeq(r) /\ Len(r) = DST_LEN
    BY OpaqueIs, Lengths
  <1>1. /\ IsSeq(f) /\ Len(f) = 2 + DST_LEN + Len(RestOf(c))
        /\ f[1] = RelayByte(TypeOf(c)) /\ f[2] = Octet(h) /\ Header(f) = HEADER_2
        /\ From(f, 2 + DST_LEN) = RestOf(c)
        /\ HashablePart(f) = One(Octet(TypeOf(c))) ++ RestOf(c)
    <2>1. TypeOf(c) \in 0..2 /\ IsSeq(RestOf(c))
      BY CallKinds, RestIs
    <2>2. PICK ty \in 0..2 : ty = TypeOf(c)
      BY <2>1
    <2>3. f = Two(RelayByte(ty), Octet(h)) ++ (r ++ RestOf(c))
      BY <2>2 DEF Relayed
    <2> HIDE DEF f, r
    <2>4. /\ IsSeq(f) /\ Len(f) = 2 + DST_LEN + Len(RestOf(c))
          /\ f[1] = RelayByte(ty) /\ f[2] = Octet(h) /\ Header(f) = HEADER_2
          /\ From(f, 2 + DST_LEN) = RestOf(c)
          /\ HashablePart(f) = One(Octet(ty)) ++ RestOf(c)
      BY <1>0, <2>1, <2>3, RelayedFrame
    <2>5. QED  BY <2>2, <2>4
  <1>2. /\ Part(f, off - DST_LEN + 1, off) = DestOf(c).hash
        /\ f[off + 1] = Octet(CONTEXT_NONE) /\ From(f, off + 1) = BodyOf(c)
    <2> DEFINE wr == w ++ r
    <2>1. IsSeq(w) /\ Len(w) = 2
      BY TwoBytes
    <2>2. IsSeq(DestOf(c).hash) /\ Len(DestOf(c).hash) = DST_LEN /\ IsSeq(BodyOf(c))
      BY DestIs, BodyIs
    <2>3. f = w ++ (r ++ RestOf(c))
      BY DEF Relayed
    <2> HIDE DEF w, f, r
    <2>4. IsSeq(wr) /\ Len(wr) = 2 + DST_LEN
      BY <1>0, <2>1, CatIs
    <2>5. (w ++ r) ++ RestOf(c) = w ++ (r ++ RestOf(c))
      BY <1>0, <2>1, RestIs, CatAssoc
    <2>6. f = wr ++ (DestOf(c).hash ++ (One(Octet(CONTEXT_NONE)) ++ BodyOf(c)))
      BY <2>3, <2>5 DEF RestOf
    <2> DEFINE n == Len(wr) + DST_LEN
    <2>7. /\ Part(f, n - DST_LEN + 1, n) = DestOf(c).hash
          /\ f[n + 1] = Octet(CONTEXT_NONE) /\ From(f, n + 1) = BodyOf(c)
      <3> HIDE DEF wr
      <3>1. QED  BY <2>2, <2>4, <2>6, Inside
    <2>8. n = off
      BY <2>4, Lengths
    <2> HIDE DEF n
    <2>9. QED  BY <2>7, <2>8
  <1>3. Len(f) \in Nat /\ ~(Len(f) < 2 + DST_LEN + 1) /\ ~(Len(f) < off + 1) /\ Len(f) # 0
    <2> HIDE DEF f
    <2>1. QED  BY <1>1, RestIs, Lengths
  <1>4. f # <<>>
    <2> HIDE DEF f
    <2>1. QED  BY <1>3
  <1>5. Unpack(f) = Read(c)
    <2>1. f[1][1] % 4 = TypeOf(c)
      <3>1. f[1][1] = 80 + TypeOf(c)
        <4> HIDE DEF f
        <4>1. QED  BY <1>1, RelayByteOf
      <3>2. (80 + TypeOf(c)) % 4 = TypeOf(c)
        BY CallKinds
      <3>3. QED  BY <3>1, <3>2
    <2> HIDE DEF f
    <2>2. Unpack(f) = [ok |-> TRUE, type |-> f[1][1] % 4,
                       dest |-> Part(f, off - DST_LEN + 1, off),
                       context |-> f[off + 1], data |-> From(f, off + 1),
                       hash |-> Hashed(HashablePart(f), DST_LEN)]
      BY <1>1, <1>3 DEF Unpack, Part
    <2>3. QED  BY <1>1, <1>2, <2>1, <2>2 DEF Read
  <1>6. QED  BY <1>1, <1>4, <1>5

LEMMA OnTheWay ==
  ASSUME NEW c \in Calls, NEW f, Travels(c, f)
  PROVE  /\ Unpack(f) = Read(c)
         /\ HashablePart(f) = One(Octet(TypeOf(c))) ++ RestOf(c)
  BY DirectRead, RelayedRead DEF Travels

LEMMA AtTheStart ==
  ASSUME NEW c \in Calls
  PROVE  Travels(c, Built(c))
  <1>1. 0 \in Nat /\ Built(c) = Direct(c, 0)
    BY BuiltIs
  <1>2. QED  BY <1>1 DEF Travels


(* A new byte in the place of the second.                                      *)
LEMMA NewHops ==
  ASSUME NEW x, NEW y, NEW z, NEW rest, IsSeq(rest), NEW f, f = Two(x, y) ++ rest
  PROVE  [f EXCEPT ![2] = z] = Two(x, z) ++ rest
  <1> DEFINE v == Two(x, y)
             w == Two(x, z)
             g == w ++ rest
             e == [f EXCEPT ![2] = z]
  <1>1. /\ IsSeq(v) /\ Len(v) = 2 /\ v[1] = x /\ f = v ++ rest
        /\ IsSeq(w) /\ Len(w) = 2 /\ w[1] = x /\ w[2] = z
    BY TwoBytes
  <1>2. Len(rest) \in Nat
    BY SeqLen
  <1> HIDE DEF v, w
  <1>3. IsSeq(f) /\ Len(f) = 2 + Len(rest)
    BY <1>1, CatIs
  <1>4. IsSeq(g) /\ Len(g) = 2 + Len(rest)
    BY <1>1, CatIs
  <1>5. f[1] = x
    <2>1. 1 \in 1..Len(v)
      BY <1>1
    <2>2. f[1] = v[1]
      BY <1>1, <2>1, CatFirst
    <2>3. QED  BY <1>1, <2>2
  <1>6. g[1] = x /\ g[2] = z
    <2>1. 1 \in 1..Len(w) /\ 2 \in 1..Len(w)
      BY <1>1
    <2>2. g[1] = w[1]
      BY <1>1, <2>1, CatFirst
    <2>3. g[2] = w[2]
      BY <1>1, <2>1, CatFirst
    <2>4. QED  BY <1>1, <2>2, <2>3
  <1>7. ASSUME NEW i \in 1..Len(rest)
        PROVE  f[2 + i] = g[2 + i]
    <2>1. (v ++ rest)[Len(v) + i] = rest[i]
      <3>1. IsSeq(v)
        BY <1>1
      <3>2. QED  BY <3>1, CatSecond
    <2>2. (w ++ rest)[Len(w) + i] = rest[i]
      <3>1. IsSeq(w)
        BY <1>1
      <3>2. QED  BY <3>1, CatSecond
    <2>3. QED  BY <1>1, <2>1, <2>2
  <1>8. IsSeq(e) /\ Len(e) = Len(f) /\ \A i \in 1..Len(f) : e[i] = IF i = 2 THEN z ELSE f[i]
    <2>1. PICK A : f \in Seq(A)
      BY <1>3 DEF IsSeq
    <2>2. f \in Seq(A \cup {z})
      BY <2>1, SeqMonotonic
    <2>3. /\ e \in Seq(A \cup {z}) /\ Len(e) = Len(f)
          /\ \A i \in 1..Len(f) : e[i] = IF i = 2 THEN z ELSE f[i]
      <3> DEFINE n == Len(f)
                 B == A \cup {z}
      <3>1. n \in Nat /\ DOMAIN f = 1..n /\ f \in [1..n -> B]
        BY <2>2
      <3> HIDE DEF n, B
      <3>2. e \in [1..n -> B] /\ \A i \in 1..n : e[i] = IF i = 2 THEN z ELSE f[i]
        <4>1. z \in B
          BY DEF B
        <4>2. QED  BY <3>1, <4>1
      <3> HIDE DEF e
      <3>3. e \in Seq(B) /\ Len(e) = n
        BY <3>1, <3>2
      <3>4. QED  BY <3>2, <3>3 DEF n, B
    <2>4. QED  BY <2>3 DEF IsSeq
  <1> HIDE DEF g, e
  <1>9. ASSUME NEW i \in 1..Len(e)
        PROVE  e[i] = g[i]
    <2>1. i \in 1..2 + Len(rest) /\ i \in 1..Len(f)
      BY <1>3, <1>8
    <2>2. CASE i = 1
      BY <1>5, <1>6, <1>8, <2>1, <2>2
    <2>3. CASE i = 2
      BY <1>6, <1>8, <2>1, <2>3
    <2>4. CASE i > 2
      <3>1. PICK j \in 1..Len(rest) : i = 2 + j
        <4>1. i - 2 \in 1..Len(rest) /\ i = 2 + (i - 2)
          BY <1>2, <2>1, <2>4
        <4>2. QED  BY <4>1
      <3>2. f[i] = g[i]
        BY <1>7, <3>1
      <3>3. QED  BY <1>8, <2>1, <2>4, <3>2
    <2>5. QED  BY <2>1, <2>2, <2>3, <2>4
  <1>10. e = g
    BY <1>3, <1>4, <1>8, <1>9, SameSeq
  <1>11. QED  BY <1>10 DEF e, g, w

(* Every step keeps what travels a frame of the call, on the way.              *)
LEMMA SendKeeps ==
  ASSUME NEW c \in Calls, Send(c)
  PROVE  FrameInv'
  <1>1. sent' = c /\ raw' = Built(c)
    BY DEF Send
  <1>2. Travels(c, raw')
    BY <1>1, AtTheStart
  <1>3. QED  BY <1>1, <1>2 DEF FrameInv

LEMMA PassOnKeeps ==
  ASSUME FrameInv, PassOn
  PROVE  FrameInv'
  <1>1. sent \in Calls /\ Travels(sent, raw) /\ sent' = sent
    BY DEF FrameInv, PassOn
  <1> DEFINE n == (raw[2][1] + 1) % 256
  <1>2. raw' = [raw EXCEPT ![2] = Octet(n)]
    BY DEF PassOn, Octet
  <1>3. CASE \E h \in Nat : raw = Direct(sent, h)
    <2>1. PICK h \in Nat : raw = Direct(sent, h)
      BY <1>3
    <2>2. n \in Nat
      <3>1. raw[2] = Octet(h)
        BY <1>1, <2>1, DirectRead
      <3>2. raw[2][1] = h
        BY <3>1, OctetOf
      <3>3. QED  BY <3>2
    <2> HIDE DEF n
    <2>3. raw = Two(Octet(TypeOf(sent)), Octet(h)) ++ RestOf(sent)
      BY <2>1 DEF Direct
    <2>4. raw' = Direct(sent, n)
      BY <1>1, <1>2, <2>3, NewHops, RestIs DEF Direct
    <2>5. QED  BY <1>1, <2>2, <2>4 DEF FrameInv, Travels
  <1>4. CASE \E h \in Nat, t \in Relays : raw = Relayed(sent, h, t)
    <2>1. PICK h \in Nat, t \in Relays : raw = Relayed(sent, h, t)
      BY <1>4
    <2>2. n \in Nat
      <3>1. raw[2] = Octet(h)
        BY <1>1, <2>1, RelayedRead
      <3>2. raw[2][1] = h
        BY <3>1, OctetOf
      <3>3. QED  BY <3>2
    <2> HIDE DEF n
    <2> DEFINE rest == Opaque("relay", t, DST_LEN) ++ RestOf(sent)
    <2>3. raw = Two(RelayByte(TypeOf(sent)), Octet(h)) ++ rest
      BY <2>1 DEF Relayed
    <2>4. IsSeq(rest)
      BY <1>1, OpaqueIs, RestIs, CatIs, Lengths
    <2> HIDE DEF rest
    <2>5. raw' = Two(RelayByte(TypeOf(sent)), Octet(n)) ++ rest
      BY <1>2, <2>3, <2>4, NewHops
    <2>6. raw' = Relayed(sent, n, t)
      BY <2>5 DEF Relayed, rest
    <2>7. QED  BY <1>1, <2>2, <2>6 DEF FrameInv, Travels
  <1>5. QED  BY <1>1, <1>3, <1>4 DEF Travels

LEMMA ToRelayKeeps ==
  ASSUME FrameInv, NEW t \in Relays, ToRelay(t)
  PROVE  FrameInv'
  <1>1. sent \in Calls /\ Travels(sent, raw) /\ sent' = sent /\ Header(raw) = HEADER_1
    BY DEF FrameInv, ToRelay
  <1>2. PICK h \in Nat : raw = Direct(sent, h)
    <2>1. \A i : i \in Nat => \A u : Header(Relayed(sent, i, u)) = HEADER_2
      BY <1>1, RelayedRead
    <2>2. HEADER_1 # HEADER_2
      BY DEF HEADER_1, HEADER_2
    <2>3. QED  BY <1>1, <2>1, <2>2 DEF Travels
  <1>3. raw[1][1] = TypeOf(sent) /\ raw[2][1] = h /\ From(raw, 2) = RestOf(sent)
    BY <1>1, <1>2, DirectRead, OctetOf
  <1> DEFINE r == Opaque("relay", t, DST_LEN)
             w == Two(RelayByte(TypeOf(sent)), Octet(h + 1))
  <1>4. raw' = (w ++ r) ++ RestOf(sent)
    <2>1. raw' = (Two(Octet(PackFlags(HEADER_2, 1, 0, 0) + raw[1][1]), Octet(raw[2][1] + 1)) ++ r) ++ From(raw, 2)
      BY DEF ToRelay, ++, Two, Octet
    <2>2. PackFlags(HEADER_2, 1, 0, 0) = 80
      BY DEF PackFlags, HEADER_2
    <2>3. QED  BY <1>3, <2>1, <2>2 DEF RelayByte
  <1>5. IsSeq(w) /\ IsSeq(r) /\ IsSeq(RestOf(sent))
    BY <1>1, TwoBytes, OpaqueIs, RestIs, Lengths
  <1>6. (w ++ r) ++ RestOf(sent) = w ++ (r ++ RestOf(sent))
    <2> HIDE DEF w, r
    <2>1. QED  BY <1>5, CatAssoc
  <1>7. raw' = Relayed(sent, h + 1, t)
    BY <1>4, <1>6 DEF Relayed
  <1>8. h + 1 \in Nat
    OBVIOUS
  <1>9. QED  BY <1>1, <1>7, <1>8 DEF FrameInv, Travels

LEMMA LastHopKeeps ==
  ASSUME FrameInv, LastHop
  PROVE  FrameInv'
  <1>1. sent \in Calls /\ Travels(sent, raw) /\ sent' = sent /\ Header(raw) = HEADER_2
    BY DEF FrameInv, LastHop
  <1>2. PICK h \in Nat, t \in Relays : raw = Relayed(sent, h, t)
    <2>1. \A i \in Nat : Header(Direct(sent, i)) = HEADER_1
      BY <1>1, DirectRead
    <2>2. HEADER_1 # HEADER_2
      BY DEF HEADER_1, HEADER_2
    <2>3. QED  BY <1>1, <2>1, <2>2 DEF Travels
  <1>3. raw[1][1] = 80 + TypeOf(sent) /\ raw[2][1] = h /\ From(raw, 2 + DST_LEN) = RestOf(sent)
    BY <1>1, <1>2, RelayedRead, OctetOf, RelayByteOf
  <1>4. raw' = Direct(sent, h + 1)
    <2>1. raw' = Two(Octet(raw[1][1] % 16), Octet(raw[2][1] + 1)) ++ From(raw, 2 + DST_LEN)
      BY DEF LastHop, ++, Two, Octet
    <2>2. (80 + TypeOf(sent)) % 16 = TypeOf(sent)
      BY <1>1, CallKinds
    <2>3. QED  BY <1>3, <2>1, <2>2 DEF Direct
  <1>5. h + 1 \in Nat
    OBVIOUS
  <1>6. QED  BY <1>1, <1>4, <1>5 DEF FrameInv, Travels

(* FrameInvariant: what is on the way is the frame of the call, sent to all or *)
(* addressed to a relay, with no byte changed but the first two.               *)
THEOREM FrameInvariant == FrameSpec => []FrameInv
  <1>1. FrameInit => FrameInv
    BY DEF FrameInit, FrameInv
  <1>2. FrameInv /\ [FrameNext]_frameVars => FrameInv'
    <2> SUFFICES ASSUME FrameInv, [FrameNext]_frameVars
                 PROVE  FrameInv'
      OBVIOUS
    <2>1. ASSUME NEW c \in Calls, Send(c)
          PROVE  FrameInv'
      BY <2>1, SendKeeps
    <2>2. CASE PassOn
      BY <2>2, PassOnKeeps
    <2>3. ASSUME NEW t \in Relays, ToRelay(t)
          PROVE  FrameInv'
      BY <2>3, ToRelayKeeps
    <2>4. CASE LastHop
      BY <2>4, LastHopKeeps
    <2>5. CASE UNCHANGED frameVars
      BY <2>5 DEF frameVars, FrameInv
    <2>6. QED  BY <2>1, <2>2, <2>3, <2>4, <2>5 DEF FrameNext
  <1>3. QED  BY <1>1, <1>2, PTL DEF FrameSpec


-----------------------------------------------------------------------------
(* Packets: the hash of a frame, and what it names.                            *)

LEMMA HashedOf ==
  ASSUME NEW x, NEW y, Hashed(x, DST_LEN) = Hashed(y, DST_LEN)
  PROVE  x = y
  BY OpaqueOf, Lengths DEF Hashed

LEMMA OctetIs ==
  ASSUME NEW m, NEW n, One(Octet(m)) = One(Octet(n))
  PROVE  m = n
  BY OneByte, OctetOf

(* Frames that hash alike were built alike.                                    *)
LEMMA HashNamesTheFrame ==
  ASSUME NEW b \in Calls, NEW c \in Calls, Read(b).hash = Read(c).hash
  PROVE  Built(b) = Built(c)
  <1> DEFINE x == One(Octet(TypeOf(b)))
             y == One(Octet(TypeOf(c)))
  <1>1. Hashed(x ++ RestOf(b), DST_LEN) = Hashed(y ++ RestOf(c), DST_LEN)
    BY DEF Read
  <1>2. /\ IsSeq(x) /\ IsSeq(y) /\ Len(x) = Len(y)
        /\ IsSeq(RestOf(b)) /\ IsSeq(RestOf(c))
    BY OneByte, RestIs
  <1>3. x = y /\ RestOf(b) = RestOf(c)
    <2> HIDE DEF x, y
    <2>1. x ++ RestOf(b) = y ++ RestOf(c)
      BY <1>1, HashedOf
    <2>2. QED  BY <1>2, <2>1, CatParts
  <1>4. TypeOf(b) = TypeOf(c)
    BY <1>3, OctetIs
  <1>5. Built(b) = Direct(b, 0) /\ Built(c) = Direct(c, 0)
    BY BuiltIs
  <1>6. QED  BY <1>3, <1>4, <1>5 DEF Direct

(* The string a link id is the hash of: a request without its MTU bytes.       *)
Named(c) == One(Octet(LINKREQUEST))
              ++ (DestOf(c).hash ++ (One(Octet(CONTEXT_NONE)) ++ Opaque("key", c.key, KEY)))

LEMMA LinkIdIs ==
  ASSUME NEW c \in Calls, c.call = "request"
  PROVE  LinkId(Built(c), Len(RequestData(c.key, c.withMtu))) = Hashed(Named(c), DST_LEN)
  <1> DEFINE t == One(Octet(LINKREQUEST))
             d == DestOf(c).hash
             x == One(Octet(CONTEXT_NONE))
             k == Opaque("key", c.key, KEY)
             m == IF c.withMtu THEN Opaque("mtu", c.key, MTU_BYTES) ELSE <<>>
             n == Len(RequestData(c.key, c.withMtu))
             diff == IF n > KEY THEN n - KEY ELSE 0
             named == t ++ (d ++ (x ++ k))
             whole == HashablePart(Built(c))
  <1>1. c.withMtu \in BOOLEAN
    BY CallKinds
  <1>2. IsSeq(t) /\ IsSeq(x) /\ IsSeq(d)
    BY OneByte, DestIs
  <1>3. IsSeq(k) /\ IsSeq(m) /\ BodyOf(c) = k ++ m
    BY <1>1, RequestDataIs DEF BodyOf
  <1>4. Len(m) = diff /\ diff \in Nat
    <2>1. CASE c.withMtu
      <3>1. Len(m) = MTU_BYTES /\ n = KEY + MTU_BYTES
        BY <1>1, <2>1, RequestDataIs
      <3> HIDE DEF n, m
      <3>2. QED  BY <3>1, Lengths
    <2>2. CASE ~c.withMtu
      <3>1. Len(m) = 0 /\ n = KEY
        BY <1>1, <2>2, RequestDataIs
      <3> HIDE DEF n, m
      <3>2. QED  BY <3>1, Lengths
    <2>3. QED  BY <1>1, <2>1, <2>2
  <1>5. IsSeq(named) /\ whole = named ++ m
    <2>1. whole = t ++ (d ++ (x ++ (k ++ m)))
      <3>1. Travels(c, Built(c))
        BY AtTheStart
      <3>2. whole = One(Octet(TypeOf(c))) ++ RestOf(c)
        BY <3>1, OnTheWay
      <3>3. TypeOf(c) = LINKREQUEST
        BY DEF TypeOf
      <3>4. QED  BY <1>3, <3>2, <3>3 DEF RestOf
    <2> HIDE DEF t, d, x, k, m, whole
    <2>2. (x ++ k) ++ m = x ++ (k ++ m) /\ IsSeq(x ++ k)
      BY <1>2, <1>3, CatAssoc, CatIs
    <2>3. (d ++ (x ++ k)) ++ m = d ++ ((x ++ k) ++ m) /\ IsSeq(d ++ (x ++ k))
      BY <1>2, <1>3, <2>2, CatAssoc, CatIs
    <2>4. (t ++ (d ++ (x ++ k))) ++ m = t ++ ((d ++ (x ++ k)) ++ m) /\ IsSeq(named)
      BY <1>2, <1>3, <2>3, CatAssoc, CatIs
    <2>5. QED  BY <2>1, <2>2, <2>3, <2>4
  <1>6. (IF Len(whole) > diff THEN Left(whole, Len(whole) - diff) ELSE whole) = named
    <2> HIDE DEF named, m, whole, diff
    <2>1. Len(whole) = Len(named) + diff /\ Len(named) \in Nat
      BY <1>3, <1>4, <1>5, CatIs, SeqLen
    <2>2. Left(whole, Len(named)) = named
      BY <1>3, <1>5, LeftOf
    <2>3. Len(named) # 0
      <3>1. \A u : IsSeq(u) => Len(t ++ u) = 1 + Len(u)
        <4>1. Len(t) = 1
          BY OneByte
        <4> HIDE DEF t
        <4>2. QED  BY <1>2, <4>1, CatIs
      <3>2. IsSeq(d ++ (x ++ k))
        <4> HIDE DEF d, x, k
        <4>1. IsSeq(x ++ k)
          BY <1>2, <1>3, CatIs
        <4>2. QED  BY <1>2, <4>1, CatIs
      <3>3. QED  BY <3>1, <3>2, SeqLen DEF named
    <2>4. Len(whole) > diff /\ Len(whole) - diff = Len(named)
      BY <1>4, <2>1, <2>3
    <2>5. QED  BY <2>2, <2>4
  <1>7. LinkId(Built(c), n) = Hashed(named, DST_LEN)
    <2>1. LinkId(Built(c), n)
            = Hashed(IF Len(whole) > diff THEN Left(whole, Len(whole) - diff) ELSE whole, DST_LEN)
      BY DEF LinkId
    <2>2. QED  BY <1>6, <2>1
  <1>8. QED  BY <1>7 DEF Named

(* One link id, one destination and one key.                                   *)
LEMMA LinkIdNames ==
  ASSUME NEW b \in Calls, NEW c \in Calls, b.call = "request", c.call = "request",
         Hashed(Named(b), DST_LEN) = Hashed(Named(c), DST_LEN)
  PROVE  b.id = c.id /\ b.name = c.name /\ b.key = c.key
  <1> DEFINE t == One(Octet(LINKREQUEST))
             x == One(Octet(CONTEXT_NONE))
             d1 == DestOf(b).hash
             d2 == DestOf(c).hash
             k1 == Opaque("key", b.key, KEY)
             k2 == Opaque("key", c.key, KEY)
  <1>1. IsSeq(t) /\ IsSeq(x) /\ IsSeq(d1) /\ IsSeq(d2) /\ Len(d1) = Len(d2)
    BY OneByte, DestIs
  <1>2. IsSeq(k1) /\ IsSeq(k2)
    BY OpaqueIs, Lengths
  <1>3. d1 = d2 /\ k1 = k2
    <2>1. t ++ (d1 ++ (x ++ k1)) = t ++ (d2 ++ (x ++ k2))
      BY HashedOf DEF Named
    <2> HIDE DEF t, x, d1, d2, k1, k2
    <2>2. IsSeq(x ++ k1) /\ IsSeq(x ++ k2)
      BY <1>1, <1>2, CatIs
    <2>3. IsSeq(d1 ++ (x ++ k1)) /\ IsSeq(d2 ++ (x ++ k2))
      BY <1>1, <2>2, CatIs
    <2>4. d1 ++ (x ++ k1) = d2 ++ (x ++ k2)
      BY <1>1, <2>1, <2>3, CatParts
    <2>5. d1 = d2 /\ x ++ k1 = x ++ k2
      BY <1>1, <2>2, <2>4, CatParts
    <2>6. k1 = k2
      BY <1>1, <1>2, <2>5, CatParts
    <2>7. QED  BY <2>5, <2>6
  <1>4. b.key = c.key
    BY <1>3, OpaqueOf, Lengths
  <1>5. DestinationHash(b.id, Text(b.name)) = DestinationHash(c.id, Text(c.name))
    <2>1. \A e \in Calls : e.call = "request" =>
            DestOf(e).hash = DestinationHash(e.id, Text(e.name))
      <3>1. \A id, name : Destination(id, name, TRUE).hash = DestinationHash(id, Text(name))
        BY DestinationIs
      <3>2. QED  BY <3>1 DEF DestOf
    <2>2. QED  BY <1>3, <2>1
  <1>6. /\ NameHash(Text(b.name)) = NameHash(Text(c.name))
        /\ IdentityHash(b.id) = IdentityHash(c.id)
    <2>1. NameHash(Text(b.name)) ++ IdentityHash(b.id) = NameHash(Text(c.name)) ++ IdentityHash(c.id)
      BY <1>5, HashedOf DEF DestinationHash, ++
    <2>2. \A of : /\ IsSeq(Hashed(of, NHL)) /\ Len(Hashed(of, NHL)) = NHL
                  /\ IsSeq(Hashed(of, DST_LEN))
      BY OpaqueIs, Lengths DEF Hashed
    <2>3. /\ IsSeq(NameHash(Text(b.name))) /\ IsSeq(NameHash(Text(c.name)))
          /\ Len(NameHash(Text(b.name))) = Len(NameHash(Text(c.name)))
          /\ IsSeq(IdentityHash(b.id)) /\ IsSeq(IdentityHash(c.id))
      BY <2>2 DEF NameHash, IdentityHash
    <2>4. QED  BY <2>1, <2>3, CatParts
  <1>7. b.name = c.name
    <2>1. Text(b.name) = Text(c.name)
      BY <1>6, OpaqueOf, Lengths DEF NameHash, Hashed
    <2>2. QED  BY <2>1 DEF Text
  <1>8. b.id = c.id
    <2>1. PublicKey(b.id) = PublicKey(c.id)
      BY <1>6, HashedOf DEF IdentityHash
    <2>2. QED  BY <2>1, OpaqueOf, Lengths DEF PublicKey
  <1>9. QED  BY <1>4, <1>7, <1>8


(* The responder's reading of a request, which way it came.                    *)
LEMMA RequestReadsBack ==
  ASSUME NEW c \in Calls, c.call = "request", NEW f, Travels(c, f)
  PROVE  ReadRequest(f) = [valid |-> TRUE, key |-> Opaque("key", c.key, KEY),
                           id |-> LinkId(Built(c), Len(RequestData(c.key, c.withMtu))),
                           withMtu |-> c.withMtu]
  <1> DEFINE payload == RequestData(c.key, c.withMtu)
             k == Opaque("key", c.key, KEY)
             m == IF c.withMtu THEN Opaque("mtu", c.key, MTU_BYTES) ELSE <<>>
  <1>1. c.withMtu \in BOOLEAN
    BY CallKinds
  <1>2. Unpack(f).data = payload
    <2>1. Unpack(f) = Read(c)
      BY OnTheWay
    <2>2. BodyOf(c) = payload
      BY <1>1, RequestDataIs DEF BodyOf
    <2>3. QED  BY <2>1, <2>2 DEF Read
  <1>3. Left(payload, KEY) = k
    <2>1. payload = k ++ m /\ IsSeq(k) /\ IsSeq(m) /\ Len(k) = KEY
      BY <1>1, RequestDataIs
    <2> HIDE DEF payload, k, m
    <2>2. Left(k ++ m, Len(k)) = k
      BY <2>1, LeftOf
    <2>3. QED  BY <2>1, <2>2
  <1>4. Len(payload) \in {KEY, KEY + MTU_BYTES} /\ (Len(payload) # KEY) = c.withMtu
    <2>1. CASE c.withMtu
      <3>1. Len(payload) = KEY + MTU_BYTES
        BY <1>1, <2>1, RequestDataIs
      <3>2. Len(payload) # KEY
        BY <3>1, Lengths
      <3>3. QED  BY <2>1, <3>1, <3>2
    <2>2. CASE ~c.withMtu
      <3>1. Len(payload) = KEY
        BY <1>1, <2>2, RequestDataIs
      <3>2. QED  BY <1>1, <2>2, <3>1
    <2>3. QED  BY <1>1, <2>1, <2>2
  <1> HIDE DEF payload
  <1>5. LinkId(f, Len(payload)) = LinkId(Built(c), Len(payload))
    <2>1. HashablePart(f) = HashablePart(Built(c))
      BY OnTheWay, AtTheStart
    <2>2. QED  BY <2>1 DEF LinkId
  <1>6. ReadRequest(f) = [valid |-> TRUE, key |-> Left(payload, KEY), id |-> LinkId(f, Len(payload)),
                          withMtu |-> Len(payload) # KEY]
    BY <1>2, <1>4 DEF ReadRequest
  <1>7. QED  BY <1>3, <1>4, <1>5, <1>6 DEF payload

(* HashIgnoresTheRouteHolds: the hash a frame unpacks to is the one it was sent *)
(* with, on any way, and one no other frame has; a link id names one           *)
(* destination and one key, with MTU bytes or without.                         *)
THEOREM HashIgnoresTheRouteHolds == FrameSpec => []HashIgnoresTheRoute
  <1>1. FrameInv => HashIgnoresTheRoute
    <2> SUFFICES ASSUME FrameInv
                 PROVE  HashIgnoresTheRoute
      OBVIOUS
    <2> DEFINE id(c) == LinkId(Built(c), Len(RequestData(c.key, c.withMtu)))
               alike(c) == c.id = sent.id /\ c.name = sent.name /\ c.key = sent.key
    <2>1. CASE sent = NothingSent
      BY <2>1 DEF HashIgnoresTheRoute, NothingSent
    <2>2. CASE sent \in Calls /\ Travels(sent, raw)
      <3>1. Unpack(raw) = Read(sent)
        BY <2>2, OnTheWay
      <3>2. \A c \in Calls : Unpack(Built(c)) = Read(c)
        BY OnTheWay, AtTheStart
      <3>3. Unpack(raw).ok
        BY <3>1 DEF Read
      <3>4. Unpack(raw).hash = Unpack(Built(sent)).hash
        BY <2>2, <3>1, <3>2
      <3>5. \A c \in Calls : Unpack(raw).hash = Unpack(Built(c)).hash => Built(c) = Built(sent)
        BY <2>2, <3>1, <3>2, HashNamesTheFrame
      <3>6. ASSUME sent.call = "request"
            PROVE  /\ ReadRequest(raw) = [valid |-> TRUE, key |-> Opaque("key", sent.key, KEY),
                                          id |-> id(sent), withMtu |-> sent.withMtu]
                   /\ \A c \in Calls : c.call = "request" /\ id(c) = id(sent) => alike(c)
        <4>1. ReadRequest(raw) = [valid |-> TRUE, key |-> Opaque("key", sent.key, KEY),
                                  id |-> id(sent), withMtu |-> sent.withMtu]
          BY <2>2, <3>6, RequestReadsBack
        <4>2. ASSUME NEW c \in Calls, c.call = "request", id(c) = id(sent)
              PROVE  alike(c)
          <5>1. id(c) = Hashed(Named(c), DST_LEN)
            BY <4>2, LinkIdIs
          <5>2. id(sent) = Hashed(Named(sent), DST_LEN)
            BY <2>2, <3>6, LinkIdIs
          <5> HIDE DEF id
          <5>3. QED  BY <2>2, <3>6, <4>2, <5>1, <5>2, LinkIdNames
        <4> HIDE DEF id, alike
        <4>3. QED  BY <4>1, <4>2
      <3>7. QED  BY <3>3, <3>4, <3>5, <3>6 DEF HashIgnoresTheRoute
    <2>3. QED  BY <2>1, <2>2 DEF FrameInv
  <1>2. QED  BY <1>1, FrameInvariant, PTL

-----------------------------------------------------------------------------
(* Packets: announces are read back. *)

(* Announce data that is cut somewhere in the app data, or not at all.         *)
LEMMA ReadsTheParts ==
  ASSUME NEW c \in Calls, c.call = "announce", NEW app, IsSeq(app), NEW p,
         p.data = Signed(c) ++ app, p.dest = DestOf(c).hash
  PROVE  ReadAnnounce(p) =
           IF app = c.app /\ c.given
           THEN [valid |-> TRUE, dest |-> DestOf(c).hash, key |-> PublicKey(c.id), app |-> app]
           ELSE Rejected
  <1> DEFINE a == PublicKey(c.id)
             b == NameHash(Text(c.name))
             r == Random(c)
             z == Sign(c.id, Message(c, c.app))
             n2 == KEY + NHL
             n3 == n2 + RHL
             n4 == n3 + SIGL
  <1>1. /\ IsSeq(a) /\ Len(a) = KEY /\ IsSeq(b) /\ Len(b) = NHL
        /\ IsSeq(r) /\ Len(r) = RHL /\ IsSeq(z) /\ Len(z) = SIGL
    BY PartsAre
  <1>2. /\ Left(p.data, KEY) = a /\ Part(p.data, KEY + 1, KEY + NHL) = b
        /\ Part(p.data, KEY + NHL + 1, KEY + NHL + RHL) = r
        /\ Part(p.data, KEY + NHL + RHL + 1, KEY + NHL + RHL + SIGL) = z
        /\ From(p.data, AnnounceMin) = app
        /\ Len(p.data) >= AnnounceMin
    <2>1. p.data = (((a ++ b) ++ r) ++ z) ++ app
      BY DEF Signed
    <2> HIDE DEF a, b, r, z
    <2> DEFINE all == (((a ++ b) ++ r) ++ z) ++ app
    <2>2. /\ Len(all) = KEY + NHL + RHL + SIGL + Len(app)
          /\ Left(all, KEY) = a /\ Part(all, KEY + 1, KEY + NHL) = b
          /\ Part(all, KEY + NHL + 1, KEY + NHL + RHL) = r
          /\ Part(all, KEY + NHL + RHL + 1, KEY + NHL + RHL + SIGL) = z
          /\ From(all, KEY + NHL + RHL + SIGL) = app
      BY <1>1, Lengths, FiveParts
    <2> HIDE DEF all
    <2>3. p.data = all
      BY <2>1 DEF all
    <2>4. Len(all) >= KEY + NHL + RHL + SIGL
      BY <2>2, SeqLen, Lengths
    <2>5. QED  BY <2>2, <2>3, <2>4 DEF AnnounceMin
  <1> DEFINE message == SignedPart(p.dest, a, b, r, app)
             signed == \E id \in Owners : PublicKey(id) = a /\ Sign(id, message) = z
             named == p.dest = Hashed(b \o Hashed(a, DST_LEN), DST_LEN)
  <1>3. ReadAnnounce(p) =
          IF signed /\ named
          THEN [valid |-> TRUE, dest |-> p.dest, key |-> a, app |-> app]
          ELSE Rejected
    <2> HIDE DEF a, b, r, z
    <2>1. QED  BY <1>2 DEF ReadAnnounce, Part
  <1>4. signed <=> app = c.app
    <2>1. message = Message(c, app)
      BY DEF Message
    <2>2. ASSUME app = c.app
          PROVE  signed
      BY <2>1, <2>2, CallKinds
    <2>3. ASSUME signed
          PROVE  app = c.app
      <3>1. PICK id \in Owners : PublicKey(id) = PublicKey(c.id)
                                 /\ Sign(id, Message(c, app)) = Sign(c.id, Message(c, c.app))
        BY <2>1, <2>3
      <3>2. Message(c, app) = Message(c, c.app)
        <4>1. <<id, Message(c, app)>> = <<c.id, Message(c, c.app)>>
          BY <3>1, OpaqueOf, Lengths DEF Sign
        <4>2. QED  BY <4>1
      <3>3. \A w : Message(c, w) = (((DestOf(c).hash ++ a) ++ b) ++ r) ++ w
        BY DEF Message, SignedPart, ++
      <3> DEFINE front == ((DestOf(c).hash ++ a) ++ b) ++ r
      <3>4. IsSeq(front)
        <4> HIDE DEF a, b, r
        <4>1. IsSeq(DestOf(c).hash ++ a)
          BY <1>1, DestIs, CatIs
        <4>2. IsSeq((DestOf(c).hash ++ a) ++ b)
          BY <1>1, <4>1, CatIs
        <4>3. QED  BY <1>1, <4>2, CatIs
      <3>5. front ++ app = front ++ c.app
        BY <3>2, <3>3
      <3>6. IsSeq(c.app)
        BY CallKinds, PayloadIs
      <3> HIDE DEF front
      <3>7. QED  BY <3>4, <3>5, <3>6, CatParts
    <2>4. QED  BY <2>2, <2>3
  <1>5. named <=> c.given
    <2>1. c.given \in BOOLEAN /\ DestOf(c) = Destination(c.id, c.name, c.given)
      BY CallKinds DEF DestOf
    <2>2. named <=> DestOf(c).hash = DestinationHash(c.id, Text(c.name))
      BY DEF DestinationHash, IdentityHash
    <2>3. CASE c.given
      <3>1. DestOf(c).hash = DestinationHash(c.id, Text(c.name))
        <4>1. DestOf(c) = Destination(c.id, c.name, TRUE)
          BY <2>1, <2>3
        <4>2. \A id, name : Destination(id, name, TRUE).hash = DestinationHash(id, Text(name))
          BY DestinationIs
        <4>3. QED  BY <4>1, <4>2
      <3>2. QED  BY <2>2, <2>3, <3>1
    <2>4. CASE ~c.given
      <3> DEFINE t == Text(c.name)
                 h == IdentityHash(c.id)
      <3>1. DestOf(c).hash = DestinationHash(c.id, t ++ h)
        BY <2>1, <2>4, DestinationIs
      <3>2. IsSeq(h) /\ Len(h) = DST_LEN /\ IsSeq(t) /\ Len(t) = 1
        BY OpaqueIs, OneByte, Lengths DEF IdentityHash, Hashed, Text, One
      <3> HIDE DEF t, h
      <3>3. ASSUME DestinationHash(c.id, t ++ h) = DestinationHash(c.id, t)
            PROVE  FALSE
        <4>1. NameHash(t ++ h) ++ h = NameHash(t) ++ h
          BY <3>3, HashedOf DEF DestinationHash, ++, h
        <4>2. \A of : IsSeq(Hashed(of, NHL)) /\ Len(Hashed(of, NHL)) = NHL
          BY OpaqueIs, Lengths DEF Hashed
        <4>3. /\ IsSeq(NameHash(t ++ h)) /\ IsSeq(NameHash(t))
              /\ Len(NameHash(t ++ h)) = Len(NameHash(t))
          BY <4>2 DEF NameHash
        <4>4. NameHash(t ++ h) = NameHash(t)
          BY <3>2, <4>1, <4>3, CatParts
        <4>5. t ++ h = t
          BY <4>4, OpaqueOf, Lengths DEF NameHash, Hashed
        <4>6. Len(t ++ h) = 1 + DST_LEN
          BY <3>2, CatIs
        <4>7. Len(t ++ h) = 1
          BY <3>2, <4>5
        <4>8. 1 = 1 + DST_LEN
          <5> DEFINE n == Len(t ++ h)
          <5>1. n = 1 + DST_LEN /\ n = 1
            BY <4>6, <4>7
          <5> HIDE DEF n
          <5>2. QED  BY <5>1
        <4>9. QED  BY <4>8, Lengths
      <3>4. QED  BY <2>2, <2>4, <3>1, <3>3 DEF t
    <2>5. QED  BY <2>1, <2>3, <2>4
  <1>6. QED
    <2> HIDE DEF signed, named, a
    <2>1. QED  BY <1>3, <1>4, <1>5 DEF a


(* AnnounceReadsBackHolds: an announce is taken with what was put into it, over *)
(* any way, exactly if its destination was given its identity and the data was  *)
(* not cut.                                                                    *)
THEOREM AnnounceReadsBackHolds == FrameSpec => []AnnounceReadsBack
  <1>1. FrameInv => AnnounceReadsBack
    <2> SUFFICES ASSUME FrameInv, sent.call = "announce"
                 PROVE  LET d == Destination(sent.id, sent.name, sent.given)
                            fits == AnnounceMin + Len(sent.app) <= MDU
                        IN  ReadAnnounce(Unpack(raw)) =
                              IF sent.given /\ fits
                              THEN [valid |-> TRUE, dest |-> d.hash,
                                    key |-> PublicKey(sent.id), app |-> sent.app]
                              ELSE Rejected
      BY DEF AnnounceReadsBack
    <2> DEFINE fits == AnnounceMin + Len(sent.app) <= MDU
               p == Unpack(raw)
               app == Left(sent.app, MDU - AnnounceMin)
    <2>1. sent \in Calls /\ Travels(sent, raw)
      BY DEF FrameInv, NothingSent
    <2>2. p = Read(sent)
      BY <2>1, OnTheWay
    <2>3. p.dest = DestOf(sent).hash /\ p.data = Left(Signed(sent) ++ sent.app, MDU)
      <3>1. BodyOf(sent) = Left(AnnounceData(DestOf(sent), sent.app), MDU)
        BY DEF BodyOf, PacketData
      <3>2. AnnounceData(DestOf(sent), sent.app) = Signed(sent) ++ sent.app
        BY <2>1, AnnounceDataIs
      <3>3. QED  BY <2>2, <3>1, <3>2 DEF Read
    <2>4. /\ IsSeq(Signed(sent)) /\ Len(Signed(sent)) = AnnounceMin
          /\ IsSeq(sent.app) /\ Len(sent.app) \in Nat
      BY <2>1, SignedIs, CallKinds, PayloadIs, SeqLen
    <2>5. AnnounceMin \in Nat
      BY Lengths DEF AnnounceMin
    <2>6. sent.given \in BOOLEAN /\ DestOf(sent) = Destination(sent.id, sent.name, sent.given)
      BY <2>1, CallKinds DEF DestOf
    <2>7. CASE MDU < AnnounceMin
      <3>1. ~fits
        BY <2>4, <2>5, <2>7, Lengths
      <3>2. Len(p.data) < AnnounceMin
        <4> DEFINE all == Signed(sent) ++ sent.app
        <4>1. IsSeq(all) /\ Len(all) = AnnounceMin + Len(sent.app)
          BY <2>4, CatIs
        <4> HIDE DEF all
        <4>2. Len(Left(all, MDU)) = MDU
          BY <2>4, <2>5, <2>7, <4>1, LeftIs, Lengths
        <4>3. QED  BY <2>3, <2>7, <4>2 DEF all
      <3>3. ReadAnnounce(p) = Rejected
        <4>1. ~(Len(p.data) >= AnnounceMin)
          <5> DEFINE n == Len(p.data)
          <5>1. n \in Nat /\ n < AnnounceMin
            <6>1. IsSeq(p.data)
              BY <2>1, <2>2, BodyIs DEF Read
            <6>2. QED  BY <3>2, <6>1, SeqLen
          <5> HIDE DEF n
          <5>2. ~(n >= AnnounceMin)
            BY <2>5, <5>1
          <5>3. QED  BY <5>2 DEF n
        <4> HIDE DEF p
        <4>2. QED  BY <4>1 DEF ReadAnnounce
      <3>4. QED  BY <3>1, <3>3
    <2>8. CASE AnnounceMin <= MDU
      <3> DEFINE n == MDU - AnnounceMin
      <3>1. n \in Nat /\ MDU = AnnounceMin + n
        BY <2>5, <2>8, Lengths
      <3>2. p.data = Signed(sent) ++ app
        <4> HIDE DEF n
        <4>1. Left(Signed(sent) ++ sent.app, MDU) = Signed(sent) ++ Left(sent.app, n)
          <5>1. n \in Nat /\ MDU \in Nat /\ MDU = Len(Signed(sent)) + n
            BY <2>4, <3>1, Lengths
          <5>2. QED  BY <2>4, <5>1, LeftCat
        <4>2. QED  BY <2>3, <4>1 DEF n
      <3>3. IsSeq(app) /\ Len(app) = IF Len(sent.app) <= n THEN Len(sent.app) ELSE n
        BY <2>4, <3>1, LeftIs
      <3>4. fits <=> app = sent.app
        <4>1. ASSUME fits
              PROVE  app = sent.app
          BY <2>4, <2>5, <3>1, <4>1 DEF Left
        <4>2. ASSUME ~fits
              PROVE  app # sent.app
          <5>1. ~(Len(sent.app) <= n)
            BY <2>4, <2>5, <3>1, <4>2, Lengths
          <5>2. Len(app) = n /\ Len(sent.app) # n
            BY <2>4, <3>1, <3>3, <5>1
          <5> HIDE DEF app, n
          <5>3. QED  BY <5>2
        <4>3. QED  BY <4>1, <4>2
      <3> HIDE DEF app, p, n, fits
      <3>5. ReadAnnounce(p) =
              IF app = sent.app /\ sent.given
              THEN [valid |-> TRUE, dest |-> DestOf(sent).hash,
                    key |-> PublicKey(sent.id), app |-> app]
              ELSE Rejected
        BY <2>1, <2>3, <3>2, <3>3, ReadsTheParts
      <3>6. CASE fits
        BY <2>6, <3>4, <3>5, <3>6 DEF fits, p
      <3>7. CASE ~fits
        BY <3>4, <3>5, <3>7 DEF fits, p
      <3>8. QED  BY <3>6, <3>7
    <2>9. QED  BY <2>5, <2>7, <2>8, Lengths
  <1>2. QED  BY <1>1, FrameInvariant, PTL

-----------------------------------------------------------------------------
(* Values that follow each other step by step.                                *)

LEMMA NumberByNumber ==
  ASSUME NEW A \in SUBSET Nat, 0 \in A, \A n \in A : n + 1 \in A
  PROVE  A = Nat
<1> DEFINE B == Nat \ A
<1>1. SUFFICES ASSUME B # {} PROVE FALSE
  OBVIOUS
<1>2. PICK m \in B : \A k \in B : m <= k
  <2>1. B \in SUBSET Nat
    OBVIOUS
  <2> HIDE DEF B
  <2> QED
    BY <1>1, <2>1, LeastNumber
<1>3. m # 0 /\ m - 1 \in Nat /\ m - 1 \notin B
  BY <1>2
<1> QED
  BY <1>3

\* The values from v0 on that step gives.
Steps(f, V, v0, N, step) ==
    /\ f \in [0..N -> V] /\ f[0] = v0
    /\ \A i \in 1..N : f[i] = step[i][f[i - 1]]

LEMMA StepsExist ==
  ASSUME NEW V, NEW v0 \in V, NEW N \in Nat, NEW step \in [1..N -> [V -> V]]
  PROVE  \E f : Steps(f, V, v0, N, step)
<1> DEFINE Upto(f, n) == /\ f \in [0..n -> V] /\ f[0] = v0
                         /\ \A i \in 1..n : f[i] = step[i][f[i - 1]]
           A == {n \in Nat : n <= N => \E f : Upto(f, n)}
<1>1. 0 \in A
  <2>1. Upto([i \in 0..0 |-> v0], 0)
    OBVIOUS
  <2> QED
    BY <2>1
<1>2. ASSUME NEW n \in A
      PROVE  n + 1 \in A
  <2>1. SUFFICES ASSUME n + 1 <= N PROVE \E f : Upto(f, n + 1)
    OBVIOUS
  <2>2. PICK f : Upto(f, n)
    BY <2>1
  <2> DEFINE g == [i \in 0..n+1 |-> IF i = n + 1 THEN step[n + 1][f[n]] ELSE f[i]]
  <2>3. f[n] \in V /\ n + 1 \in 1..N /\ step[n + 1][f[n]] \in V
    <3>1. f[n] \in V /\ n + 1 \in 1..N
      BY <2>1, <2>2
    <3> QED
      BY <3>1
  <2>4. g \in [0..n+1 -> V] /\ g[0] = v0
    BY <2>2, <2>3
  <2>5. ASSUME NEW i \in 1..n+1
        PROVE  g[i] = step[i][g[i - 1]]
    <3>1. CASE i = n + 1
      <4>1. g[i - 1] = f[n]
        BY <3>1
      <4> QED
        BY <3>1, <4>1
    <3>2. CASE i # n + 1
      <4>1. i \in 1..n /\ g[i] = f[i] /\ g[i - 1] = f[i - 1]
        BY <3>2
      <4> QED
        BY <2>2, <4>1
    <3> QED
      BY <3>1, <3>2
  <2>6. Upto(g, n + 1)
    BY <2>4, <2>5
  <2> QED
    BY <2>6
<1>3. N \in A
  <2> HIDE DEF Upto
  <2>1. A \in SUBSET Nat
    OBVIOUS
  <2> HIDE DEF A
  <2>2. A = Nat
    BY <1>1, <1>2, <2>1, NumberByNumber
  <2> QED
    BY <2>2
<1> QED
  BY <1>3 DEF Steps

-----------------------------------------------------------------------------
(* MsgPack: what is read where a packed value stands.                          *)

LEMMA PastIs ==
  ASSUME NEW s \in Seq(UInt8), NEW p \in 0..Len(s), NEW n \in Nat
  PROVE  /\ Past(s, p, n) \in p..Len(s)
         /\ p + n <= Len(s) => Past(s, p, n) = p + n
         /\ p < Len(s) /\ n > 0 => Past(s, p, n) > p
  BY DEF Past

LEMMA PeekIs ==
  ASSUME NEW s \in Seq(UInt8), NEW p \in Nat
  PROVE  Peek(s, p) \in UInt8
  <1>1. CASE p < Len(s)
    <2>1. p + 1 \in 1..Len(s)
      BY <1>1
    <2>2. QED  BY <1>1, <2>1, ElementOfSeq DEF Peek
  <1>2. CASE ~(p < Len(s))
    BY <1>2 DEF Peek, UInt8
  <1>3. QED  BY <1>1, <1>2

LEMMA NextsIs ==
  ASSUME NEW s \in Seq(UInt8), NEW p \in Nat, NEW n \in Nat
  PROVE  Nexts(s, p, n) \in Seq(UInt8) /\ Len(Nexts(s, p, n)) = n
  <1>1. \A i \in 1..n : Peek(s, p + i - 1) \in UInt8
    <2>1. ASSUME NEW i \in 1..n
          PROVE  Peek(s, p + i - 1) \in UInt8
      <3>1. PICK q \in Nat : q = p + i - 1
        OBVIOUS
      <3>2. QED  BY <3>1, PeekIs
    <2>2. QED  BY <2>1
  <1>2. Nexts(s, p, n) \in [1..n -> UInt8]
    BY <1>1 DEF Nexts
  <1>3. QED  BY <1>2

\* What is read where the packed value t stands: its first byte, and n after it.
Reads(s, t, p) ==
  /\ Peek(s, p) = t[1] /\ Past(s, p, 1) = p + 1
  /\ \A n \in Nat : n < Len(t) =>
       /\ Nexts(s, p + 1, n) = [i \in 1..n |-> t[1 + i]]
       /\ Past(s, p + 1, n) = p + (n + 1) /\ Past(s, p, 1 + n) = p + (n + 1)

LEMMA StandingRead ==
  ASSUME NEW s \in Seq(UInt8), NEW p \in 0..Len(s), NEW t \in Seq(UInt8), t # <<>>,
         Stands(s, t, p)
  PROVE  Reads(s, t, p)
  <1>1. Len(t) >= 1 /\ p + Len(t) <= Len(s) /\ s[p + 1] = t[1]
    BY DEF Stands
  <1>2. Peek(s, p) = t[1] /\ Past(s, p, 1) = p + 1
    BY <1>1 DEF Peek, Past
  <1>3. ASSUME NEW n \in Nat, n < Len(t)
        PROVE  /\ Nexts(s, p + 1, n) = [i \in 1..n |-> t[1 + i]]
               /\ Past(s, p + 1, n) = p + (n + 1) /\ Past(s, p, 1 + n) = p + (n + 1)
    <2>1. ASSUME NEW i \in 1..n
          PROVE  Peek(s, p + 1 + i - 1) = t[1 + i]
      <3>1. 1 + i \in 1..Len(t) /\ p + (1 + i) <= Len(s) /\ p + 1 + i - 1 = p + i
        BY <1>1, <1>3
      <3>2. s[p + (1 + i)] = t[1 + i]
        BY <3>1 DEF Stands
      <3>3. p + i < Len(s) /\ p + (1 + i) = p + i + 1
        BY <3>1
      <3>4. QED  BY <3>1, <3>2, <3>3 DEF Peek
    <2>2. QED  BY <1>1, <1>3, <2>1 DEF Nexts, Past
  <1>4. QED  BY <1>2, <1>3 DEF Reads

\* t is the byte b and the last n of w.
Headed(t, b, w, n) ==
  /\ t \in Seq(UInt8) /\ Len(t) = n + 1 /\ t[1] = b
  /\ \A i \in 1..n : t[1 + i] = w[8 - n + i]

LEMMA WordIs ==
  ASSUME NEW w \in [1..8 -> UInt8]
  PROVE  w \in Seq(UInt8) /\ Len(w) = 8
  <1>1. w \in UNION {[1..n -> UInt8] : n \in Nat}
    OBVIOUS
  <1>2. w \in Seq(UInt8)
    BY <1>1, SeqDef
  <1>3. 1..Len(w) = 1..8 /\ Len(w) \in Nat
    BY <1>2, LenProperties
  <1>4. QED  BY <1>2, <1>3

LEMMA HeadedIs ==
  ASSUME NEW w \in [1..8 -> UInt8], NEW b \in UInt8, NEW n \in 1..8
  PROVE  Headed(<<b>> \o Low(w, n), b, w, n)
  <1>1. w \in Seq(UInt8) /\ Len(w) = 8
    BY WordIs
  <1>2. Low(w, n) \in Seq(UInt8) /\ Len(Low(w, n)) = n
    BY <1>1, SubSeqProperties DEF Low
  <1>3. \A i \in 1..n : Low(w, n)[i] = w[8 - n + i]
    BY <1>1 DEF Low
  <1> HIDE DEF Low
  <1>4. <<b>> \in Seq(UInt8) /\ Len(<<b>>) = 1
    OBVIOUS
  <1>5. <<b>> \o Low(w, n) \in Seq(UInt8) /\ Len(<<b>> \o Low(w, n)) = n + 1
    BY <1>2, <1>4, ConcatProperties
  <1>6. (<<b>> \o Low(w, n))[1] = b
    BY <1>2
  <1>7. \A i \in 1..n : (<<b>> \o Low(w, n))[1 + i] = Low(w, n)[i]
    BY <1>2, <1>4
  <1>8. QED  BY <1>3, <1>5, <1>6, <1>7 DEF Headed

LEMMA HeadedByte ==
  ASSUME NEW w \in [1..8 -> UInt8], NEW b \in UInt8
  PROVE  Headed(<<b, w[8]>>, b, w, 1)
  <1>1. w[8] \in UInt8
    BY DEF UInt8
  <1>2. /\ <<b, w[8]>> \in Seq(UInt8) /\ Len(<<b, w[8]>>) = 1 + 1
        /\ <<b, w[8]>>[1] = b /\ <<b, w[8]>>[1 + 1] = w[8 - 1 + 1]
    BY <1>1
  <1>3. \A i \in 1..1 : i = 1
    OBVIOUS
  <1>4. QED  BY <1>2, <1>3 DEF Headed

Narrow(w) ==
  \/ w[8] < 128 /\ \A i \in 1..7 : w[i] = 0
  \/ w[8] >= 224 /\ \A i \in 1..7 : w[i] = 255

LEMMA PackIntIs ==
  ASSUME NEW w \in [1..8 -> UInt8]
  PROVE  \/ PackInt(w) = <<w[8]>> /\ Narrow(w)
         \/ Headed(PackInt(w), 204, w, 1) /\ \A i \in 1..7 : w[i] = 0
         \/ Headed(PackInt(w), 205, w, 2) /\ \A i \in 1..6 : w[i] = 0
         \/ Headed(PackInt(w), 206, w, 4) /\ \A i \in 1..4 : w[i] = 0
         \/ Headed(PackInt(w), 208, w, 1) /\ w[8] >= 128 /\ \A i \in 1..7 : w[i] = 255
         \/ Headed(PackInt(w), 211, w, 8)
  <1>1. w \in Seq(UInt8) /\ Len(w) = 8 /\ w[8] \in 0..255
    BY WordIs DEF UInt8
  <1>2. w = Low(w, 8)
    BY <1>1 DEF Low
  <1>4. {204, 205, 206, 208, 211} \subseteq UInt8
    BY DEF UInt8
  <1>5. /\ Headed(<<204, w[8]>>, 204, w, 1) /\ Headed(<<205>> \o Low(w, 2), 205, w, 2)
        /\ Headed(<<206>> \o Low(w, 4), 206, w, 4) /\ Headed(<<208, w[8]>>, 208, w, 1)
        /\ Headed(<<211>> \o w, 211, w, 8)
    <2>1. /\ Headed(<<205>> \o Low(w, 2), 205, w, 2) /\ Headed(<<206>> \o Low(w, 4), 206, w, 4)
          /\ Headed(<<211>> \o Low(w, 8), 211, w, 8)
      <3>1. \A b \in UInt8, n \in 1..8 : Headed(<<b>> \o Low(w, n), b, w, n)
        BY HeadedIs
      <3>2. 2 \in 1..8 /\ 4 \in 1..8 /\ 8 \in 1..8
        OBVIOUS
      <3>3. QED  BY <1>4, <3>1, <3>2, Zenon
    <2>2. Headed(<<204, w[8]>>, 204, w, 1) /\ Headed(<<208, w[8]>>, 208, w, 1)
      BY <1>4, HeadedByte
    <2>3. QED  BY <1>2, <2>1, <2>2, Zenon
  <1>6. /\ Fits(w, 1) <=> \A i \in 1..7 : w[i] = 0
        /\ Fits(w, 2) <=> \A i \in 1..6 : w[i] = 0
        /\ Fits(w, 4) <=> \A i \in 1..4 : w[i] = 0
        /\ Minus(w) <=> \A i \in 1..7 : w[i] = 255
    BY DEF Fits, Minus
  <1>7. /\ Fits(w, 1) => Fits(w, 2)
        /\ Fits(w, 2) => Fits(w, 4)
        /\ Fits(w, 4) => ~Minus(w)
    <2>1. Fits(w, 4) => w[1] = 0
      BY <1>6
    <2>2. Minus(w) => w[1] = 255
      BY <1>6
    <2>3. QED  BY <1>6, <2>1, <2>2
  <1> DEFINE F1 == Fits(w, 1)
             F2 == Fits(w, 2)
             F4 == Fits(w, 4)
             M == Minus(w)
             L2 == <<205>> \o Low(w, 2)
             L4 == <<206>> \o Low(w, 4)
             L8 == <<211>> \o w
  <1>8. PackInt(w) =
          CASE F1 /\ w[8] < 128         -> <<w[8]>>
            [] F1 /\ w[8] >= 128        -> <<204, w[8]>>
            [] F2 /\ ~F1                -> L2
            [] F4 /\ ~F2                -> L4
            [] M /\ w[8] >= 224         -> <<w[8]>>
            [] M /\ w[8] >= 128 /\ w[8] < 224 -> <<208, w[8]>>
            [] OTHER                    -> L8
    BY Zenon DEF PackInt
  <1> HIDE DEF F1, F2, F4, M, L2, L4, L8
  <1>9. \/ F1 /\ w[8] < 128 /\ PackInt(w) = <<w[8]>>
        \/ F1 /\ PackInt(w) = <<204, w[8]>>
        \/ F2 /\ PackInt(w) = L2
        \/ F4 /\ PackInt(w) = L4
        \/ M /\ w[8] >= 224 /\ PackInt(w) = <<w[8]>>
        \/ M /\ w[8] >= 128 /\ PackInt(w) = <<208, w[8]>>
        \/ PackInt(w) = L8
    <2>1. (F1 => F2) /\ (F2 => F4) /\ (F4 => ~M)
      BY <1>7 DEF F1, F2, F4, M
    <2>2. QED  BY <1>1, <1>8, <2>1
  <1>10. /\ F1 <=> \A i \in 1..7 : w[i] = 0
         /\ F2 <=> \A i \in 1..6 : w[i] = 0
         /\ F4 <=> \A i \in 1..4 : w[i] = 0
         /\ M <=> \A i \in 1..7 : w[i] = 255
    BY <1>6 DEF F1, F2, F4, M
  <1>11. /\ Headed(<<204, w[8]>>, 204, w, 1) /\ Headed(L2, 205, w, 2)
         /\ Headed(L4, 206, w, 4) /\ Headed(<<208, w[8]>>, 208, w, 1)
         /\ Headed(L8, 211, w, 8)
    BY <1>5 DEF L2, L4, L8
  <1>12. CASE F1 /\ w[8] < 128 /\ PackInt(w) = <<w[8]>>
    BY <1>10, <1>12, Zenon DEF Narrow
  <1>13. CASE F1 /\ PackInt(w) = <<204, w[8]>>
    BY <1>10, <1>11, <1>13, Zenon
  <1>14. CASE F2 /\ PackInt(w) = L2
    BY <1>10, <1>11, <1>14, Zenon
  <1>15. CASE F4 /\ PackInt(w) = L4
    BY <1>10, <1>11, <1>15, Zenon
  <1>16. CASE M /\ w[8] >= 224 /\ PackInt(w) = <<w[8]>>
    BY <1>10, <1>16, Zenon DEF Narrow
  <1>17. CASE M /\ w[8] >= 128 /\ PackInt(w) = <<208, w[8]>>
    <2>1. Headed(PackInt(w), 208, w, 1)
      BY <1>11, <1>17
    <2>2. QED  BY <1>10, <1>17, <2>1, Zenon
  <1>18. CASE PackInt(w) = L8
    BY <1>11, <1>18, Zenon
  <1>19. QED  BY <1>9, <1>12, <1>13, <1>14, <1>15, <1>16, <1>17, <1>18, Zenon

\* The number with the last n bytes x, filled up by g.
Filled(x, n, g) == [i \in 1..8 |-> IF i > 8 - n THEN x[i + n - 8] ELSE g]

LastOf(w, n, x) == \A i \in 1..n : x[i] = w[8 - n + i]
Above(w, n, g) == \A i \in 1..8 - n : w[i] = g

LEMMA FilledIs ==
  ASSUME NEW w \in [1..8 -> UInt8], NEW n \in 1..8, NEW x, NEW g,
         LastOf(w, n, x), Above(w, n, g)
  PROVE  Filled(x, n, g) = w
  <1>1. ASSUME NEW i \in 1..8, i > 8 - n
        PROVE  x[i + n - 8] = w[i]
    <2>1. PICK j \in 1..n : j = i + n - 8
      BY <1>1
    <2>2. 8 - n + j = i
      BY <2>1
    <2>3. QED  BY <2>1, <2>2 DEF LastOf
  <1>2. ASSUME NEW i \in 1..8, ~(i > 8 - n)
        PROVE  w[i] = g
    <2>1. i \in 1..8 - n
      BY <1>2
    <2>2. QED  BY <2>1 DEF Above
  <1>3. \A i \in 1..8 : (IF i > 8 - n THEN x[i + n - 8] ELSE g) = w[i]
    BY <1>1, <1>2
  <1>4. w = [i \in 1..8 |-> w[i]]
    OBVIOUS
  <1>5. QED  BY <1>3, <1>4 DEF Filled

LEMMA WidthIs ==
  /\ IntWidth(204) = 1 /\ IntWidth(205) = 2 /\ IntWidth(206) = 4
  /\ IntWidth(208) = 1 /\ IntWidth(211) = 8
  <1>1. 204 % 4 = 0 /\ 205 % 4 = 1 /\ 206 % 4 = 2 /\ 208 % 4 = 0 /\ 211 % 4 = 3
    OBVIOUS
  <1>2. 2^0 = 1 /\ 2^1 = 2 /\ 2^2 = 4 /\ 2^3 = 8
    OBVIOUS
  <1>3. QED  BY <1>1, <1>2 DEF IntWidth

LEMMA WidthsAre ==
  ASSUME NEW b \in UInt8
  PROVE  IntWidth(b) \in 1..8
  <1>1. b % 4 \in {0, 1, 2, 3}
    BY DEF UInt8
  <1>2. 2^0 = 1 /\ 2^1 = 2 /\ 2^2 = 4 /\ 2^3 = 8
    OBVIOUS
  <1>3. 2^(b % 4) \in 1..8
    <2>1. PICK m \in {0, 1, 2, 3} : m = b % 4
      BY <1>1
    <2>2. 2^m \in 1..8
      <3>1. CASE m = 0
        <4>1. 2^m = 2^0
          BY <3>1
        <4>2. QED  BY <1>2, <4>1
      <3>2. CASE m = 1
        <4>1. 2^m = 2^1
          BY <3>2
        <4>2. QED  BY <1>2, <4>1
      <3>3. CASE m = 2
        <4>1. 2^m = 2^2
          BY <3>3
        <4>2. QED  BY <1>2, <4>1
      <3>4. CASE m = 3
        <4>1. 2^m = 2^3
          BY <3>4
        <4>2. QED  BY <1>2, <4>1
      <3>5. QED  BY <3>1, <3>2, <3>3, <3>4
    <2>3. QED  BY <2>1, <2>2
  <1>4. QED  BY <1>3 DEF IntWidth

\* What fills up the last n bytes of w after byte b.
SignOf(b, w, n) == IF b >= 208 /\ w[8 - n + 1] >= 128 THEN 255 ELSE 0

WideRead(s, p, b) ==
  <<Extended(Nexts(s, Past(s, p, 1), IntWidth(b)), b >= 208), Past(s, Past(s, p, 1), IntWidth(b))>>

LEMMA ReadIntIs ==
  ASSUME NEW s, NEW p, NEW b \in 0..255, b = Peek(s, p)
  PROVE  /\ b \in 204..211 => ReadInt(s, p) = WideRead(s, p, b)
         /\ b < 128 \/ b >= 224 =>
              ReadInt(s, p) = <<Extended(<<b>>, TRUE), Past(s, p, 1)>>
         /\ (b >= 128 /\ b < 204) \/ (b > 211 /\ b < 224) =>
              ReadInt(s, p)[2] = Past(s, p, 1)
  <1> DEFINE A == <<Extended(<<b>>, TRUE), Past(s, p, 1)>>
             B == WideRead(s, p, b)
             C == <<[i \in 1..8 |-> 0], Past(s, p, 1)>>
  <1>1. ReadInt(s, p) = CASE b < 128 \/ b >= 224 -> A [] b \in 204..211 -> B [] OTHER -> C
    BY Zenon DEF ReadInt, WideRead
  <1> HIDE DEF A, B, C
  <1>2. /\ b \in 204..211 => ReadInt(s, p) = B
        /\ b < 128 \/ b >= 224 => ReadInt(s, p) = A
        /\ (b >= 128 /\ b < 204) \/ (b > 211 /\ b < 224) => ReadInt(s, p) = C
    BY <1>1
  <1>3. C[2] = Past(s, p, 1)
    BY DEF C
  <1>4. QED  BY <1>2, <1>3, Zenon DEF A, B

\* At p stands t, the byte b and the last n of w, as many as b asks for.
WideAt(s, p, w, b, n, t) ==
  /\ s \in Seq(UInt8) /\ p \in 0..Len(s) /\ w \in [1..8 -> UInt8]
  /\ b \in 204..211 /\ n \in 1..8 /\ n = IntWidth(b)
  /\ Headed(t, b, w, n) /\ Stands(s, t, p) /\ Above(w, n, SignOf(b, w, n))

LEMMA ReadsWide ==
  ASSUME NEW s, NEW p, NEW w, NEW b, NEW n, NEW t, WideAt(s, p, w, b, n, t)
  PROVE  /\ ReadInt(s, p) = <<w, p + Len(t)>> /\ Peek(s, p) = b
         /\ t \in Seq(UInt8) /\ t # <<>>
  <1>0. /\ s \in Seq(UInt8) /\ p \in 0..Len(s) /\ w \in [1..8 -> UInt8]
        /\ b \in 204..211 /\ n \in 1..8 /\ n = IntWidth(b)
        /\ Headed(t, b, w, n) /\ Stands(s, t, p) /\ Above(w, n, SignOf(b, w, n))
    BY DEF WideAt
  <1> USE <1>0
  <1>1. t \in Seq(UInt8) /\ Len(t) = n + 1 /\ t[1] = b
        /\ \A i \in 1..n : t[1 + i] = w[8 - n + i]
    BY DEF Headed
  <1> DEFINE x == Nexts(s, p + 1, n)
  <1>2. /\ Peek(s, p) = b /\ Past(s, p, 1) = p + 1
        /\ x = [i \in 1..n |-> t[1 + i]] /\ Past(s, p + 1, n) = p + (n + 1)
    <2>1. t \in Seq(UInt8) /\ t # <<>> /\ n \in Nat /\ n < Len(t)
      BY <1>1
    <2>2. Reads(s, t, p)
      BY <2>1, StandingRead
    <2>3. QED  BY <1>1, <2>1, <2>2 DEF Reads
  <1>3. Len(x) = n
    <2>1. PICK q \in Nat : q = p + 1
      OBVIOUS
    <2>2. n \in Nat
      OBVIOUS
    <2>3. Len(Nexts(s, q, n)) = n
      BY <2>2, NextsIs
    <2>4. QED  BY <2>1, <2>3
  <1>4. LastOf(w, n, x)
    BY <1>1, <1>2 DEF LastOf
  <1>5. x[1] = w[8 - n + 1]
    <2>1. 1 \in 1..n
      OBVIOUS
    <2>2. QED  BY <1>4, <2>1 DEF LastOf
  <1> HIDE DEF x
  <1>6. Extended(x, b >= 208) = w
    <2>1. Filled(x, n, SignOf(b, w, n)) = w
      BY <1>4, FilledIs
    <2>2. Extended(x, b >= 208) = Filled(x, n, SignOf(b, w, n))
      BY <1>3, <1>5 DEF Extended, Filled, SignOf
    <2>3. QED  BY <2>1, <2>2
  <1>7. ReadInt(s, p) = <<Extended(x, b >= 208), Past(s, p + 1, n)>>
    <2>1. b \in 0..255 /\ b \in 204..211 /\ b = Peek(s, p)
      BY <1>2
    <2>2. ReadInt(s, p) = WideRead(s, p, b)
      BY <2>1, ReadIntIs
    <2>3. WideRead(s, p, b) = <<Extended(x, b >= 208), Past(s, p + 1, n)>>
      BY <1>2, Zenon DEF x, WideRead
    <2>4. QED  BY <2>2, <2>3, Zenon
  <1>8. Len(t) = n + 1 /\ t \in Seq(UInt8) /\ t # <<>>
    BY <1>1
  <1>9. QED  BY <1>2, <1>6, <1>7, <1>8

LEMMA NarrowIs ==
  ASSUME NEW w \in [1..8 -> UInt8], Narrow(w)
  PROVE  Extended(<<w[8]>>, TRUE) = w
  <1> DEFINE x == <<w[8]>>
             g == IF w[8] >= 128 THEN 255 ELSE 0
  <1>1. w[8] \in 0..255
    BY DEF UInt8
  <1>2. \A i \in 1..7 : w[i] = g
    <2>1. CASE w[8] < 128 /\ \A i \in 1..7 : w[i] = 0
      BY <1>1, <2>1
    <2>2. CASE w[8] >= 224 /\ \A i \in 1..7 : w[i] = 255
      BY <1>1, <2>2
    <2>3. QED  BY <2>1, <2>2 DEF Narrow
  <1>3. Above(w, 1, g)
    <2>1. 8 - 1 = 7
      OBVIOUS
    <2>2. QED  BY <1>2, <2>1 DEF Above
  <1>4. Len(x) = 1 /\ x[1] = w[8]
    OBVIOUS
  <1>5. LastOf(w, 1, x)
    <2>1. \A i \in 1..1 : i = 1
      OBVIOUS
    <2>2. QED  BY <1>4, <2>1 DEF LastOf
  <1> HIDE DEF x
  <1>6. Extended(x, TRUE) = Filled(x, 1, g)
    BY <1>4 DEF Extended, Filled
  <1>7. 1 \in 1..8
    OBVIOUS
  <1> HIDE DEF g
  <1>8. Filled(x, 1, g) = w
    BY <1>3, <1>5, <1>7, FilledIs
  <1>9. QED  BY <1>6, <1>8 DEF x

LEMMA ReadsNarrow ==
  ASSUME NEW s \in Seq(UInt8), NEW p \in 0..Len(s), NEW w \in [1..8 -> UInt8],
         NEW x, x = <<w[8]>>, Stands(s, x, p), Narrow(w)
  PROVE  ReadInt(s, p) = <<w, p + 1>> /\ Peek(s, p) = w[8]
  <1>1. w[8] \in UInt8 /\ w[8] \in 0..255
    BY DEF UInt8
  <1>2. x \in Seq(UInt8) /\ Len(x) = 1 /\ x[1] = w[8] /\ x # <<>>
    BY <1>1
  <1>3. Peek(s, p) = w[8] /\ Past(s, p, 1) = p + 1
    <2>1. Reads(s, x, p)
      BY <1>2, StandingRead
    <2>2. QED  BY <1>2, <2>1 DEF Reads
  <1>4. Extended(<<w[8]>>, TRUE) = w
    BY NarrowIs
  <1>5. w[8] < 128 \/ w[8] >= 224
    BY DEF Narrow
  <1>6. PICK b \in 0..255 : b = w[8]
    BY <1>1
  <1>7. ReadInt(s, p) = <<Extended(<<b>>, TRUE), Past(s, p, 1)>>
    <2>1. b = Peek(s, p) /\ (b < 128 \/ b >= 224)
      BY <1>3, <1>5, <1>6
    <2>2. QED  BY <2>1, ReadIntIs
  <1>8. QED  BY <1>3, <1>4, <1>6, <1>7

LEMMA ReadsInt ==
  ASSUME NEW s \in Seq(UInt8), NEW p \in 0..Len(s), NEW w \in [1..8 -> UInt8],
         NEW t, t = PackInt(w), Stands(s, t, p)
  PROVE  /\ ReadInt(s, p) = <<w, p + Len(t)>>
         /\ t \in Seq(UInt8) /\ t # <<>>
         /\ Peek(s, p) \in 204..211 \/ Peek(s, p) < 128 \/ Peek(s, p) >= 224
  <1>2. \A i \in 1..8 : w[i] \in 0..255
    BY DEF UInt8
  <1>3. CASE t = <<w[8]>> /\ Narrow(w)
    <2>1. ReadInt(s, p) = <<w, p + 1>> /\ Peek(s, p) = w[8]
      BY <1>3, ReadsNarrow
    <2>2. w[8] \in UInt8
      OBVIOUS
    <2>3. t \in Seq(UInt8) /\ Len(t) = 1 /\ t # <<>>
      BY <1>3, <2>2
    <2>4. w[8] < 128 \/ w[8] >= 224
      BY <1>3 DEF Narrow
    <2>5. QED  BY <2>1, <2>3, <2>4
  <1>4. CASE Headed(t, 204, w, 1) /\ \A i \in 1..7 : w[i] = 0
    <2>1. Above(w, 1, SignOf(204, w, 1))
      BY <1>4 DEF Above, SignOf
    <2>2. 1 = IntWidth(204) /\ 204 \in 204..211 /\ 1 \in 1..8 /\ Headed(t, 204, w, 1)
      BY <1>4, WidthIs
    <2>3. WideAt(s, p, w, 204, 1, t)
      BY <2>1, <2>2 DEF WideAt
    <2>4. /\ ReadInt(s, p) = <<w, p + Len(t)>> /\ Peek(s, p) = 204
          /\ t \in Seq(UInt8) /\ t # <<>>
      BY <2>3, ReadsWide
    <2>5. QED  BY <2>4
  <1>5. CASE Headed(t, 205, w, 2) /\ \A i \in 1..6 : w[i] = 0
    <2>1. Above(w, 2, SignOf(205, w, 2))
      BY <1>5 DEF Above, SignOf
    <2>2. 2 = IntWidth(205) /\ 205 \in 204..211 /\ 2 \in 1..8 /\ Headed(t, 205, w, 2)
      BY <1>5, WidthIs
    <2>3. WideAt(s, p, w, 205, 2, t)
      BY <2>1, <2>2 DEF WideAt
    <2>4. /\ ReadInt(s, p) = <<w, p + Len(t)>> /\ Peek(s, p) = 205
          /\ t \in Seq(UInt8) /\ t # <<>>
      BY <2>3, ReadsWide
    <2>5. QED  BY <2>4
  <1>6. CASE Headed(t, 206, w, 4) /\ \A i \in 1..4 : w[i] = 0
    <2>1. Above(w, 4, SignOf(206, w, 4))
      BY <1>6 DEF Above, SignOf
    <2>2. 4 = IntWidth(206) /\ 206 \in 204..211 /\ 4 \in 1..8 /\ Headed(t, 206, w, 4)
      BY <1>6, WidthIs
    <2>3. WideAt(s, p, w, 206, 4, t)
      BY <2>1, <2>2 DEF WideAt
    <2>4. /\ ReadInt(s, p) = <<w, p + Len(t)>> /\ Peek(s, p) = 206
          /\ t \in Seq(UInt8) /\ t # <<>>
      BY <2>3, ReadsWide
    <2>5. QED  BY <2>4
  <1>7. CASE Headed(t, 208, w, 1) /\ w[8] >= 128 /\ \A i \in 1..7 : w[i] = 255
    <2>1. Above(w, 1, SignOf(208, w, 1))
      BY <1>7 DEF Above, SignOf
    <2>2. 1 = IntWidth(208) /\ 208 \in 204..211 /\ 1 \in 1..8 /\ Headed(t, 208, w, 1)
      BY <1>7, WidthIs
    <2>3. WideAt(s, p, w, 208, 1, t)
      BY <2>1, <2>2 DEF WideAt
    <2>4. /\ ReadInt(s, p) = <<w, p + Len(t)>> /\ Peek(s, p) = 208
          /\ t \in Seq(UInt8) /\ t # <<>>
      BY <2>3, ReadsWide
    <2>5. QED  BY <2>4
  <1>8. CASE Headed(t, 211, w, 8)
    <2>1. Above(w, 8, SignOf(211, w, 8))
      BY DEF Above
    <2>2. 8 = IntWidth(211) /\ 211 \in 204..211 /\ 8 \in 1..8 /\ Headed(t, 211, w, 8)
      BY <1>8, WidthIs
    <2>3. WideAt(s, p, w, 211, 8, t)
      BY <2>1, <2>2 DEF WideAt
    <2>4. /\ ReadInt(s, p) = <<w, p + Len(t)>> /\ Peek(s, p) = 211
          /\ t \in Seq(UInt8) /\ t # <<>>
      BY <2>3, ReadsWide
    <2>5. QED  BY <2>4
  <1>9. QED  BY <1>3, <1>4, <1>5, <1>6, <1>7, <1>8, PackIntIs

-----------------------------------------------------------------------------
(* Numbers in the bytes after a format byte.                                   *)

LEMMA NumberSteps ==
  ASSUME NEW b \in Seq(UInt8)
  PROVE  \E v : /\ v \in [0..Len(b) -> Nat] /\ v[0] = 0
                /\ \A i \in 1..Len(b) : v[i] = v[i - 1] * 256 + b[i]
                /\ Number(b) = v[Len(b)]
  <1> DEFINE N == Len(b)
             Counts(f) == f = [i \in 0..N |-> IF i = 0 THEN 0 ELSE f[i - 1] * 256 + b[i]]
             step == [i \in 1..N |-> [x \in Nat |-> x * 256 + b[i]]]
  <1>1. N \in Nat /\ \A i \in 1..N : b[i] \in 0..255
    BY ElementOfSeq DEF UInt8
  <1>2. step \in [1..N -> [Nat -> Nat]]
    <2> HIDE DEF N
    <2>1. ASSUME NEW i \in 1..N, NEW x \in Nat
          PROVE  x * 256 + b[i] \in Nat
      <3>1. PICK d \in 0..255 : d = b[i]
        BY <1>1
      <3>2. x * 256 + d \in Nat
        OBVIOUS
      <3>3. QED  BY <3>1, <3>2
    <2>2. QED  BY <2>1
  <1>3. PICK f : Steps(f, Nat, 0, N, step)
    <2> HIDE DEF step, N
    <2>1. QED  BY <1>1, <1>2, StepsExist
  <1>4. /\ f \in [0..N -> Nat] /\ f[0] = 0
        /\ \A i \in 1..N : f[i] = f[i - 1] * 256 + b[i]
    <2>1. f \in [0..N -> Nat] /\ f[0] = 0 /\ \A i \in 1..N : f[i] = step[i][f[i - 1]]
      BY <1>3 DEF Steps
    <2>2. \A i \in 1..N : i - 1 \in 0..N
      BY <1>1
    <2>3. \A i \in 1..N : f[i - 1] \in Nat
      BY <2>1, <2>2
    <2>4. QED  BY <2>1, <2>3
  <1>5. Counts(f)
    <2> HIDE DEF N
    <2>1. \A i \in 0..N : f[i] = IF i = 0 THEN 0 ELSE f[i - 1] * 256 + b[i]
      BY <1>1, <1>4
    <2>2. f = [i \in 0..N |-> f[i]]
      BY <1>4
    <2>3. QED  BY <2>1, <2>2
  <1> DEFINE v == CHOOSE g : Counts(g)
  <1>6. Counts(v)
    BY <1>5
  <1>7. Number(b) = v[N]
    BY Zenon DEF Number
  <1> HIDE DEF v
  <1>8. v = f
    <2> HIDE DEF N
    <2>1. /\ v[0] = 0 /\ \A i \in 1..N : v[i] = v[i - 1] * 256 + b[i]
      BY <1>1, <1>6
    <2> DEFINE A == {k \in Nat : k <= N => v[k] = f[k]}
    <2>2. 0 \in A
      BY <1>4, <2>1
    <2>3. ASSUME NEW k \in A
          PROVE  k + 1 \in A
      <3>1. SUFFICES ASSUME k + 1 <= N PROVE v[k + 1] = f[k + 1]
        OBVIOUS
      <3>2. k + 1 \in 1..N /\ k + 1 - 1 = k /\ v[k] = f[k]
        BY <1>1, <3>1
      <3>3. v[k + 1] = v[k] * 256 + b[k + 1] /\ f[k + 1] = f[k] * 256 + b[k + 1]
        BY <1>4, <2>1, <3>2
      <3>4. QED  BY <3>2, <3>3
    <2>4. A = Nat
      <3>1. A \in SUBSET Nat
        OBVIOUS
      <3> HIDE DEF A
      <3>2. QED  BY <2>2, <2>3, <3>1, NumberByNumber
    <2>5. \A k \in 0..N : v[k] = f[k]
      BY <1>1, <2>4
    <2>6. v = [i \in 0..N |-> v[i]] /\ f = [i \in 0..N |-> f[i]]
      BY <1>4, <1>6
    <2>7. QED  BY <2>5, <2>6
  <1>9. QED  BY <1>4, <1>7, <1>8

LEMMA NumberIs ==
  ASSUME NEW b \in Seq(UInt8)
  PROVE  /\ Number(b) \in Nat
         /\ Len(b) = 0 => Number(b) = 0
         /\ Len(b) = 1 => Number(b) = b[1]
         /\ Len(b) = 2 => Number(b) = b[1] * 256 + b[2]
         /\ Len(b) = 4 => Number(b) = ((b[1] * 256 + b[2]) * 256 + b[3]) * 256 + b[4]
  <1>1. PICK v : /\ v \in [0..Len(b) -> Nat] /\ v[0] = 0
                 /\ \A i \in 1..Len(b) : v[i] = v[i - 1] * 256 + b[i]
                 /\ Number(b) = v[Len(b)]
    BY NumberSteps
  <1>2. \A i \in 1..Len(b) : b[i] \in 0..255
    BY ElementOfSeq DEF UInt8
  <1>3. Len(b) \in 0..Len(b)
    OBVIOUS
  <1>4. Number(b) \in Nat
    BY <1>1, <1>3
  <1>5. Len(b) = 0 => Number(b) = 0
    BY <1>1
  <1>6. ASSUME 1 <= Len(b)
        PROVE  v[1] = b[1]
    <2>1. 1 \in 1..Len(b) /\ 1 - 1 = 0
      BY <1>6
    <2>2. v[1] = v[0] * 256 + b[1]
      BY <1>1, <2>1
    <2>3. v[1] = v[0] * 256 + b[1] /\ v[0] = 0 /\ b[1] \in 0..255
      BY <1>1, <1>2, <2>1, <2>2
    <2>4. PICK d \in 0..255 : d = b[1]
      BY <2>3
    <2>5. v[1] = 0 * 256 + d
      BY <2>3, <2>4
    <2>6. 0 * 256 + d = d
      OBVIOUS
    <2>7. QED  BY <2>4, <2>5, <2>6
  <1>7. ASSUME 2 <= Len(b)
        PROVE  v[2] = b[1] * 256 + b[2]
    <2>1. 2 \in 1..Len(b) /\ 2 - 1 = 1
      BY <1>7
    <2>2. v[2] = v[1] * 256 + b[2]
      BY <1>1, <2>1
    <2>3. QED  BY <1>6, <1>7, <2>2
  <1>8. ASSUME 4 <= Len(b)
        PROVE  v[4] = ((b[1] * 256 + b[2]) * 256 + b[3]) * 256 + b[4]
    <2>1. 3 \in 1..Len(b) /\ 3 - 1 = 2 /\ 4 \in 1..Len(b) /\ 4 - 1 = 3
      BY <1>8
    <2>2. v[3] = v[2] * 256 + b[3] /\ v[4] = v[3] * 256 + b[4]
      BY <1>1, <2>1
    <2>3. QED  BY <1>7, <1>8, <2>2
  <1>9. ASSUME Len(b) = 1
        PROVE  Number(b) = b[1]
    BY <1>1, <1>6, <1>9
  <1>10. ASSUME Len(b) = 2
         PROVE  Number(b) = b[1] * 256 + b[2]
    BY <1>1, <1>7, <1>10
  <1>11. ASSUME Len(b) = 4
         PROVE  Number(b) = ((b[1] * 256 + b[2]) * 256 + b[3]) * 256 + b[4]
    BY <1>1, <1>8, <1>11
  <1>12. QED  BY <1>4, <1>5, <1>9, <1>10, <1>11

LEMMA PowerIs ==
  ASSUME NEW k \in 0..3
  PROVE  256^k \in Nat \ {0}
  <1>1. 256^0 = 1 /\ 256^1 = 256 /\ 256^2 = 65536 /\ 256^3 = 16777216
    BY SMT
  <1>2. CASE k = 0
    <2>1. 256^k = 256^0
      BY <1>2
    <2>2. QED  BY <1>1, <2>1, SMT
  <1>3. CASE k = 1
    <2>1. 256^k = 256^1
      BY <1>3
    <2>2. QED  BY <1>1, <2>1, SMT
  <1>4. CASE k = 2
    <2>1. 256^k = 256^2
      BY <1>4
    <2>2. QED  BY <1>1, <2>1, SMT
  <1>5. CASE k = 3
    <2>1. 256^k = 256^3
      BY <1>5
    <2>2. QED  BY <1>1, <2>1, SMT
  <1>6. QED  BY <1>2, <1>3, <1>4, <1>5

LEMMA DigitIs ==
  ASSUME NEW v \in Nat, NEW k \in 0..3
  PROVE  (v \div 256^k) % 256 \in UInt8
  <1>1. PICK q \in Nat \ {0} : q = 256^k
    BY PowerIs
  <1>2. v \div q \in Nat
    OBVIOUS
  <1>3. (v \div q) % 256 \in 0..255
    BY <1>2
  <1>4. QED  BY <1>1, <1>3 DEF UInt8

LEMMA BigEndianType ==
  ASSUME NEW v \in Nat, NEW n \in 1..4
  PROVE  BigEndian(v, n) \in Seq(UInt8) /\ Len(BigEndian(v, n)) = n
  <1>1. ASSUME NEW i \in 1..n
        PROVE  (v \div 256^(n - i)) % 256 \in UInt8
    <2>1. PICK k \in 0..3 : k = n - i
      BY SMT
    <2>2. (v \div 256^k) % 256 \in UInt8
      BY DigitIs, SMT
    <2>3. QED  BY <2>1, <2>2, SMT
  <1>2. BigEndian(v, n) \in [1..n -> UInt8]
    BY <1>1, SMT DEF BigEndian
  <1>3. QED  BY <1>2, SMT

LEMMA BigEndianIs ==
  ASSUME NEW v \in Nat, v <= Most
  PROVE  /\ v < 65536 => Number(BigEndian(v, 2)) = v
         /\ Number(BigEndian(v, 4)) = v
  <1> DEFINE a == BigEndian(v, 2)
             b == BigEndian(v, 4)
  <1>1. v \in Nat /\ v < 2147483648
    BY SMT DEF Most
  <1>2. a \in Seq(UInt8) /\ Len(a) = 2 /\ b \in Seq(UInt8) /\ Len(b) = 4
    <2>1. 2 \in 1..4 /\ 4 \in 1..4
      BY SMT
    <2>2. QED  BY <2>1, BigEndianType, SMT
  <1>3. a[1] = (v \div 256) % 256 /\ a[2] = v % 256
    <2>1. a[1] = (v \div 256^(2 - 1)) % 256 /\ a[2] = (v \div 256^(2 - 2)) % 256
      BY SMT DEF BigEndian
    <2>2. 256^(2 - 1) = 256 /\ 256^(2 - 2) = 1
      BY SMT
    <2>3. v \div 1 = v
      BY <1>1, SMT
    <2>4. QED  BY <2>1, <2>2, <2>3, SMT
  <1>4. /\ b[1] = (v \div 16777216) % 256 /\ b[2] = (v \div 65536) % 256
        /\ b[3] = (v \div 256) % 256 /\ b[4] = v % 256
    <2>1. /\ b[1] = (v \div 256^(4 - 1)) % 256 /\ b[2] = (v \div 256^(4 - 2)) % 256
          /\ b[3] = (v \div 256^(4 - 3)) % 256 /\ b[4] = (v \div 256^(4 - 4)) % 256
      BY SMT DEF BigEndian
    <2>2. /\ 256^(4 - 1) = 16777216 /\ 256^(4 - 2) = 65536
          /\ 256^(4 - 3) = 256 /\ 256^(4 - 4) = 1
      BY SMT
    <2>3. v \div 1 = v
      BY <1>1, SMT
    <2>4. QED  BY <2>1, <2>2, <2>3, SMT
  <1> HIDE DEF a, b
  <1>5. Number(a) = a[1] * 256 + a[2]
    BY <1>2, NumberIs, SMT
  <1>6. Number(b) = ((b[1] * 256 + b[2]) * 256 + b[3]) * 256 + b[4]
    BY <1>2, NumberIs, SMT
  <1>7. v < 65536 => Number(a) = v
    BY <1>1, <1>3, <1>5, SMT
  <1>8. Number(b) = v
    BY <1>1, <1>4, <1>6, SMT
  <1>9. QED  BY <1>7, <1>8 DEF a, b

-----------------------------------------------------------------------------
(* What each kind of call packs, and how it is read back.                      *)

\* The first w + 1 of t are the byte b and the number n.
Counted(t, b, w, n) ==
  /\ t \in Seq(UInt8) /\ Len(t) >= w + 1 /\ t[1] = b
  /\ Number([i \in 1..w |-> t[1 + i]]) = n

LEMMA CountedByte ==
  ASSUME NEW b \in UInt8, NEW n \in UInt8
  PROVE  Counted(<<b, n>>, b, 1, n) /\ Len(<<b, n>>) = 1 + 1
  <1>1. <<b, n>> \in Seq(UInt8) /\ Len(<<b, n>>) = 1 + 1 /\ <<b, n>>[1] = b
    OBVIOUS
  <1> DEFINE x == [i \in 1..1 |-> <<b, n>>[1 + i]]
  <1>2. x = <<n>>
    <2>1. \A i \in 1..1 : i = 1
      OBVIOUS
    <2>2. x[1] = n
      OBVIOUS
    <2>3. x \in Seq(UInt8) /\ Len(x) = 1
      <3>1. x \in [1..1 -> UInt8]
        BY <2>1
      <3> HIDE DEF x
      <3>2. QED  BY <3>1
    <2> HIDE DEF x
    <2>4. QED  BY <2>2, <2>3
  <1> HIDE DEF x
  <1>3. Number(x) = n
    <2>1. x \in Seq(UInt8) /\ Len(x) = 1 /\ x[1] = n
      BY <1>2
    <2>2. QED  BY <2>1, NumberIs
  <1>4. QED  BY <1>1, <1>3 DEF Counted, x

LEMMA CountedNumber ==
  ASSUME NEW b \in UInt8, NEW n \in Nat, NEW w \in 1..4, Number(BigEndian(n, w)) = n
  PROVE  /\ Counted(<<b>> \o BigEndian(n, w), b, w, n)
         /\ Len(<<b>> \o BigEndian(n, w)) = w + 1
  <1> DEFINE e == BigEndian(n, w)
             t == <<b>> \o e
  <1>1. e \in Seq(UInt8) /\ Len(e) = w
    BY BigEndianType
  <1>2. <<b>> \in Seq(UInt8) /\ Len(<<b>>) = 1 /\ <<b>>[1] = b
    OBVIOUS
  <1> HIDE DEF e
  <1>3. t \in Seq(UInt8) /\ Len(t) = w + 1
    BY <1>1, <1>2, ConcatProperties
  <1>4. t[1] = b /\ \A i \in 1..w : t[1 + i] = e[i]
    BY <1>1, <1>2
  <1> HIDE DEF t
  <1>5. [i \in 1..w |-> t[1 + i]] = e
    BY <1>1, <1>4
  <1>6. Number(e) = n
    BY DEF e
  <1>7. QED  BY <1>3, <1>4, <1>5, <1>6 DEF Counted, t, e

\* More bytes after it change nothing.
LEMMA CountedMore ==
  ASSUME NEW t, NEW d \in Seq(UInt8), NEW b, NEW w \in Nat, NEW n, Counted(t, b, w, n)
  PROVE  Counted(t \o d, b, w, n)
  <1>1. t \in Seq(UInt8) /\ Len(t) >= w + 1 /\ t[1] = b
        /\ Number([i \in 1..w |-> t[1 + i]]) = n
    BY DEF Counted
  <1> DEFINE u == t \o d
  <1>2. u \in Seq(UInt8) /\ Len(u) = Len(t) + Len(d)
    BY <1>1
  <1>3. \A i \in 1..Len(t) : u[i] = t[i]
    BY <1>1
  <1> HIDE DEF u
  <1>4. Len(u) >= w + 1 /\ u[1] = b
    <2>1. 1 \in 1..Len(t)
      BY <1>1
    <2>2. QED  BY <1>1, <1>2, <1>3, <2>1
  <1>5. \A i \in 1..w : u[1 + i] = t[1 + i]
    <2>1. \A i \in 1..w : 1 + i \in 1..Len(t)
      BY <1>1
    <2>2. QED  BY <1>3, <2>1
  <1>6. [i \in 1..w |-> u[1 + i]] = [i \in 1..w |-> t[1 + i]]
    BY <1>5
  <1>7. QED  BY <1>1, <1>2, <1>4, <1>6 DEF Counted, u

LEMMA ReadsCounted ==
  ASSUME NEW s \in Seq(UInt8), NEW p \in 0..Len(s), NEW w \in Nat, NEW b, NEW n, NEW t,
         Counted(t, b, w, n), Stands(s, t, p)
  PROVE  /\ Peek(s, p) = b /\ Past(s, p, 1) = p + 1
         /\ Number(Nexts(s, p + 1, w)) = n
         /\ Past(s, p, 1 + w) = p + (w + 1) /\ Past(s, p + 1, w) = p + (w + 1)
  <1>1. t \in Seq(UInt8) /\ Len(t) >= w + 1 /\ t[1] = b
        /\ Number([i \in 1..w |-> t[1 + i]]) = n
    BY DEF Counted
  <1>2. t # <<>> /\ w < Len(t)
    BY <1>1
  <1>3. Reads(s, t, p)
    BY <1>1, <1>2, StandingRead
  <1>4. QED  BY <1>1, <1>2, <1>3 DEF Reads

\* t is the byte b, the length of d in w bytes, and d.
Binary(t, d, b, w) ==
  /\ b \in 196..198 /\ w \in 1..4 /\ w = LengthWidth[b]
  /\ Counted(t, b, w, Len(d)) /\ Len(t) = (w + 1) + Len(d)
  /\ \A i \in 1..Len(d) : t[(w + 1) + i] = d[i]

LEMMA BinaryIs ==
  ASSUME NEW h \in Seq(UInt8), NEW d \in Seq(UInt8), NEW b \in 196..198, NEW w \in 1..4,
         w = LengthWidth[b], Counted(h, b, w, Len(d)), Len(h) = w + 1
  PROVE  Binary(h \o d, d, b, w)
  <1>1. Len(h \o d) = Len(h) + Len(d)
    OBVIOUS
  <1>2. ASSUME NEW i \in 1..Len(d)
        PROVE  (h \o d)[(w + 1) + i] = d[i]
    <2>1. PICK m \in Nat : m = w + 1
      OBVIOUS
    <2>2. PICK n \in Nat : n = Len(d)
      OBVIOUS
    <2>3. m + i \in 1..m + n /\ ~(m + i <= m) /\ (m + i) - m = i
      BY <2>2
    <2>4. (h \o d)[m + i] = IF m + i <= m THEN h[m + i] ELSE d[(m + i) - m]
      <3>1. \A j \in 1..Len(h) + Len(d) :
               (h \o d)[j] = IF j <= Len(h) THEN h[j] ELSE d[j - Len(h)]
        BY ConcatProperties, Zenon
      <3>2. Len(h) = m /\ Len(d) = n
        BY <2>1, <2>2
      <3>3. QED  BY <2>3, <3>1, <3>2, Zenon
    <2>5. QED  BY <2>1, <2>3, <2>4
  <1>3. w \in Nat
    OBVIOUS
  <1>4. Counted(h \o d, b, w, Len(d))
    BY <1>3, CountedMore
  <1>5. QED  BY <1>1, <1>2, <1>4 DEF Binary

LEMMA PackBinIs ==
  ASSUME NEW d \in Seq(UInt8), Len(d) <= Most
  PROVE  \E b, w : Binary(PackBin(d), d, b, w)
  <1> DEFINE n == Len(d)
             A == <<196, n>>
             B == <<197>> \o BigEndian(n, 2)
             C == <<198>> \o BigEndian(n, 4)
  <1>1. n \in Nat /\ n <= Most
    OBVIOUS
  <1>2. LengthWidth[196] = 1 /\ LengthWidth[197] = 2 /\ LengthWidth[198] = 4
    BY SMT DEF LengthWidth
  <1> DEFINE H == CASE n <= 255 -> A [] n > 255 /\ n <= 65535 -> B [] OTHER -> C
  <1>3. PackBin(d) = H \o d
    BY SMT DEF PackBin
  <1>4. 196 \in UInt8 /\ 197 \in UInt8 /\ 198 \in UInt8
    BY DEF UInt8
  <1>5. 1 \in 1..4 /\ 2 \in 1..4 /\ 4 \in 1..4
    OBVIOUS
  <1>6. 196 \in 196..198 /\ 197 \in 196..198 /\ 198 \in 196..198
    OBVIOUS
  <1> HIDE DEF n
  <1>7. ASSUME n <= 255
        PROVE  Counted(A, 196, 1, n) /\ Len(A) = 1 + 1
    <2>1. n \in UInt8
      BY <1>1, <1>7 DEF UInt8
    <2>2. QED  BY <1>4, <2>1, CountedByte
  <1>8. ASSUME n < 65536
        PROVE  Counted(B, 197, 2, n) /\ Len(B) = 2 + 1
    <2>1. Number(BigEndian(n, 2)) = n
      BY <1>1, <1>8, BigEndianIs, SMT
    <2>2. QED  BY <1>1, <1>4, <1>5, <2>1, CountedNumber
  <1>9. Counted(C, 198, 4, n) /\ Len(C) = 4 + 1
    <2>1. Number(BigEndian(n, 4)) = n
      BY <1>1, BigEndianIs, SMT
    <2>2. QED  BY <1>1, <1>4, <1>5, <2>1, CountedNumber
  <1> HIDE DEF A, B, C
  <1>10. CASE n <= 255
    <2>1. PackBin(d) = A \o d
      <3>1. H = A
        BY <1>1, <1>10, SMT
      <3> HIDE DEF H
      <3>2. QED  BY <1>3, <3>1, Zenon
    <2>2. A \in Seq(UInt8) /\ Counted(A, 196, 1, n) /\ Len(A) = 1 + 1
      BY <1>7, <1>10 DEF Counted
    <2>3. Binary(A \o d, d, 196, 1)
      BY <1>2, <1>5, <1>6, <2>2, BinaryIs DEF n
    <2>4. QED  BY <2>1, <2>3, Zenon
  <1>11. CASE n > 255 /\ n < 65536
    <2>1. PackBin(d) = B \o d
      <3>1. H = B
        BY <1>1, <1>11, SMT
      <3> HIDE DEF H
      <3>2. QED  BY <1>3, <3>1, Zenon
    <2>2. B \in Seq(UInt8) /\ Counted(B, 197, 2, n) /\ Len(B) = 2 + 1
      BY <1>8, <1>11, SMT DEF Counted
    <2>3. Binary(B \o d, d, 197, 2)
      BY <1>2, <1>5, <1>6, <2>2, BinaryIs, SMT DEF n
    <2>4. QED
      <3> DEFINE P == PackBin(d)
                 Q == B \o d
      <3>1. P = Q /\ Binary(Q, d, 197, 2)
        BY <2>1, <2>3
      <3> HIDE DEF P, Q
      <3>2. \E b, w : Binary(P, d, b, w)
        BY <3>1
      <3>3. QED  BY <3>2 DEF P
  <1>12. CASE ~(n <= 255) /\ ~(n < 65536)
    <2>1. PackBin(d) = C \o d
      <3>1. H = C
        BY <1>1, <1>12, SMT
      <3> HIDE DEF H
      <3>2. QED  BY <1>3, <3>1, Zenon
    <2>2. C \in Seq(UInt8) /\ Counted(C, 198, 4, n) /\ Len(C) = 4 + 1
      BY <1>9, SMT DEF Counted
    <2>3. Binary(C \o d, d, 198, 4)
      BY <1>2, <1>5, <1>6, <2>2, BinaryIs, SMT DEF n
    <2>4. QED
      <3> DEFINE P == PackBin(d)
                 Q == C \o d
      <3>1. P = Q /\ Binary(Q, d, 198, 4)
        BY <2>1, <2>3
      <3> HIDE DEF P, Q
      <3>2. \E b, w : Binary(P, d, b, w)
        BY <3>1
      <3>3. QED  BY <3>2 DEF P
  <1>13. QED  BY <1>1, <1>10, <1>11, <1>12, SMT

LEMMA ReadsBinary ==
  ASSUME NEW s \in Seq(UInt8), NEW p \in 0..Len(s), NEW d \in Seq(UInt8),
         NEW t, NEW b, NEW w, Binary(t, d, b, w), Stands(s, t, p)
  PROVE  /\ t \in Seq(UInt8) /\ t # <<>>
         /\ ReadBin(s, p) = <<d, p + Len(t)>> /\ Peek(s, p) \in 196..198
  <1>1. /\ b \in 196..198 /\ w \in 1..4 /\ w = LengthWidth[b]
        /\ Counted(t, b, w, Len(d)) /\ Len(t) = (w + 1) + Len(d)
        /\ \A i \in 1..Len(d) : t[(w + 1) + i] = d[i]
    BY DEF Binary
  <1>2. t \in Seq(UInt8) /\ t # <<>>
    <2>1. t \in Seq(UInt8) /\ Len(t) >= w + 1
      BY <1>1 DEF Counted
    <2>2. QED  BY <1>1, <2>1
  <1>0. PICK n \in Nat : n = Len(d)
    OBVIOUS
  <1> DEFINE q == p + (w + 1)
             x == Number(Nexts(s, p + 1, w))
  <1>3. Peek(s, p) = b /\ x = n /\ Past(s, p, 1 + w) = q
    <2>1. w \in Nat /\ Counted(t, b, w, n)
      BY <1>0, <1>1
    <2> HIDE <1>1
    <2>2. QED  BY <2>1, ReadsCounted
  <1>4. q \in Nat /\ n \in Nat /\ q + n <= Len(s) /\ p + Len(t) = q + n
        /\ \A i \in 1..n : s[q + i] = d[i]
    <2>1. p + Len(t) <= Len(s)
      BY DEF Stands
    <2>2. ASSUME NEW i \in 1..n
          PROVE  s[q + i] = d[i]
      <3>1. PICK m \in Nat : m = w + 1
        BY <1>1
      <3>2. PICK j \in Nat : j = m + i
        BY <3>1
      <3>4. Len(t) = m + n
        BY <1>0, <1>1, <3>1
      <3>5. j \in 1..Len(t)
        BY <3>2, <3>4
      <3>6. t[m + i] = d[i]
        BY <1>0, <1>1, <3>1
      <3>7. s[p + j] = t[j]
        BY <3>5 DEF Stands
      <3>8. p + j = q + i
        BY <3>1, <3>2
      <3>9. QED  BY <3>2, <3>6, <3>7, <3>8
    <2>3. Len(t) = (w + 1) + n /\ w \in 1..4
      BY <1>0, <1>1
    <2>4. q \in Nat /\ q + n <= Len(s) /\ p + Len(t) = q + n
      BY <2>1, <2>3
    <2>5. QED  BY <2>2, <2>4
  <1> HIDE DEF q, x
  <1>5. SubSeq(s, q + 1, q + n) = d
    <2>1. ASSUME NEW i \in 1..n
          PROVE  SubSeq(s, q + 1, q + n)[i] = d[i]
      <3>1. s[q + i] = d[i]
        BY <1>4
      <3>2. SubSeq(s, q + 1, q + n)[i] = s[q + i]
        BY <1>4
      <3>3. QED  BY <3>1, <3>2
    <2>2. SubSeq(s, q + 1, q + n) \in Seq(UInt8) /\ Len(SubSeq(s, q + 1, q + n)) = n
      <3>1. q + 1 \in 1..Len(s) + 1 /\ q + n \in 0..Len(s)
        BY <1>4
      <3>2. \A i \in q + 1..q + n : s[i] \in UInt8
        <4>1. \A i \in q + 1..q + n : i \in 1..Len(s)
          BY <1>4
        <4>2. QED  BY <4>1, ElementOfSeq
      <3>3. q + 1 \in Int /\ q + n \in Int
        BY <1>4
      <3>4. SubSeq(s, q + 1, q + n) \in Seq(UInt8)
        BY <3>2, <3>3, SubSeqProperties
      <3>5. Len(SubSeq(s, q + 1, q + n)) = n
        BY <1>4
      <3>6. QED  BY <3>4, <3>5
    <2>3. QED  BY <2>1, <2>2, <1>0, SeqEqual
  <1>6. ReadBin(s, p) = <<SubSeq(s, q + 1, q + n), q + n>>
    <2>1. b \in DOMAIN LengthWidth /\ b \notin 160..191 /\ w # 0
      <3>1. DOMAIN LengthWidth = 196..198 \cup 217..219
        BY DEF LengthWidth
      <3>2. QED  BY <1>1, <3>1
    <2>2. ReadBin(s, p) =
            LET b0 == Peek(s, p)
                w0 == IF b0 \in DOMAIN LengthWidth THEN LengthWidth[b0] ELSE 0
                q0 == Past(s, p, 1 + w0)
                len == IF b0 \in 160..191 THEN b0 - 160 ELSE Number(Nexts(s, p + 1, w0))
            IN  IF (w0 = 0 /\ b0 \notin 160..191) \/ q0 + len > Len(s) THEN <<<<>>, q0>>
                ELSE <<SubSeq(s, q0 + 1, q0 + len), q0 + len>>
      BY Zenon DEF ReadBin
    <2> DEFINE w0 == IF b \in DOMAIN LengthWidth THEN LengthWidth[b] ELSE 0
    <2>3. w0 = w
      BY <1>1, <2>1
    <2>4. ReadBin(s, p) =
            LET q0 == Past(s, p, 1 + w0)
                len == IF b \in 160..191 THEN b - 160 ELSE Number(Nexts(s, p + 1, w0))
            IN  IF (w0 = 0 /\ b \notin 160..191) \/ q0 + len > Len(s) THEN <<<<>>, q0>>
                ELSE <<SubSeq(s, q0 + 1, q0 + len), q0 + len>>
      BY <1>3, <2>2, Zenon
    <2> HIDE DEF w0
    <2>5. ReadBin(s, p) =
            LET len == IF b \in 160..191 THEN b - 160 ELSE x
            IN  IF (w = 0 /\ b \notin 160..191) \/ q + len > Len(s) THEN <<<<>>, q>>
                ELSE <<SubSeq(s, q + 1, q + len), q + len>>
      BY <1>3, <2>3, <2>4, Zenon DEF x
    <2>6. ~(q + n > Len(s))
      BY <1>4
    <2>7. QED  BY <1>3, <2>1, <2>5, <2>6
  <1>7. QED  BY <1>1, <1>2, <1>3, <1>4, <1>5, <1>6

LEMMA ReadsBin ==
  ASSUME NEW s \in Seq(UInt8), NEW p \in 0..Len(s), NEW d \in Seq(UInt8), Len(d) <= Most,
         NEW t, t = PackBin(d), Stands(s, t, p)
  PROVE  /\ t \in Seq(UInt8) /\ t # <<>>
         /\ ReadBin(s, p) = <<d, p + Len(t)>> /\ Peek(s, p) \in 196..198
  <1>1. PICK b, w : Binary(t, d, b, w)
    <2>1. \E b, w : Binary(PackBin(d), d, b, w)
      BY PackBinIs
    <2> DEFINE P == PackBin(d)
    <2>2. (\E b, w : Binary(P, d, b, w)) /\ t = P
      BY <2>1
    <2> HIDE DEF P
    <2>3. QED  BY <2>2
  <1>2. \A u, v, n : Binary(u, d, v, n) /\ Stands(s, u, p) =>
           /\ u \in Seq(UInt8) /\ u # <<>>
           /\ ReadBin(s, p) = <<d, p + Len(u)>> /\ Peek(s, p) \in 196..198
    BY ReadsBinary
  <1>3. QED  BY <1>1, <1>2, Zenon

LEMMA PackArrayIs ==
  ASSUME NEW n \in Nat, n <= Most, NEW t, t = PackArrayHeader(n)
  PROVE  \/ n \in 0..15 /\ t = <<144 + n>>
         \/ Counted(t, 220, 2, n) /\ Len(t) = 2 + 1
         \/ Counted(t, 221, 4, n) /\ Len(t) = 4 + 1
  <1>1. 220 \in UInt8 /\ 221 \in UInt8
    BY DEF UInt8
  <1>2. CASE n <= 15
    <2>1. n \in 0..15 /\ t = <<144 + n>>
      BY <1>2, SMT DEF PackArrayHeader
    <2>2. QED  BY <2>1
  <1>3. CASE n > 15 /\ n <= 65535
    <2>1. t = <<220>> \o BigEndian(n, 2)
      BY <1>3, SMT DEF PackArrayHeader
    <2>2. n < 65536
      BY <1>3, SMT
    <2>3. Number(BigEndian(n, 2)) = n
      BY <2>2, BigEndianIs, SMT
    <2>4. Counted(t, 220, 2, n) /\ Len(t) = 2 + 1
      BY <1>1, <2>1, <2>3, CountedNumber, SMT
    <2>5. QED  BY <2>4
  <1>4. CASE n > 65535
    <2>1. t = <<221>> \o BigEndian(n, 4)
      <3>1. ~(n <= 15) /\ ~(n > 15 /\ n <= 65535)
        BY <1>4, SMT
      <3>2. QED  BY <3>1, SMT DEF PackArrayHeader
    <2>2. Number(BigEndian(n, 4)) = n
      BY BigEndianIs, SMT
    <2>3. Counted(t, 221, 4, n) /\ Len(t) = 4 + 1
      BY <1>1, <2>1, <2>2, CountedNumber, SMT
    <2>4. QED  BY <2>3
  <1>5. QED  BY <1>2, <1>3, <1>4, SMT

LEMMA ReadsArray ==
  ASSUME NEW s \in Seq(UInt8), NEW p \in 0..Len(s), NEW n \in Nat, n <= Most,
         NEW t, t = PackArrayHeader(n), Stands(s, t, p)
  PROVE  /\ t \in Seq(UInt8) /\ t # <<>>
         /\ ReadArrayHeader(s, p) = <<<<n>>, p + Len(t)>>
         /\ Peek(s, p) \in 144..159 \cup {220, 221}
  <1>1. CASE n \in 0..15 /\ t = <<144 + n>>
    <2>1. 144 + n \in UInt8 /\ 144 + n \in 144..159 /\ (144 + n) - 144 = n
      BY <1>1 DEF UInt8
    <2>2. t \in Seq(UInt8) /\ t # <<>> /\ Len(t) = 1 /\ t[1] = 144 + n
      BY <1>1, <2>1
    <2>3. Reads(s, t, p)
      BY <2>2, StandingRead
    <2>4. Peek(s, p) = 144 + n /\ Past(s, p, 1) = p + 1
      BY <2>2, <2>3 DEF Reads
    <2>5. ReadArrayHeader(s, p) = <<<<n>>, p + 1>>
      BY <2>1, <2>4 DEF ReadArrayHeader
    <2>6. QED  BY <2>1, <2>2, <2>4, <2>5
  <1>2. ASSUME NEW b \in {220, 221}, NEW w \in {2, 4}, w = IF b = 220 THEN 2 ELSE 4,
               Counted(t, b, w, n), Len(t) = w + 1
        PROVE  /\ t \in Seq(UInt8) /\ t # <<>>
               /\ ReadArrayHeader(s, p) = <<<<n>>, p + Len(t)>> /\ Peek(s, p) = b
    <2>1. t \in Seq(UInt8)
      BY <1>2 DEF Counted
    <2>2. w \in Nat
      BY <1>2
    <2>3. /\ Peek(s, p) = b /\ Past(s, p, 1) = p + 1 /\ Number(Nexts(s, p + 1, w)) = n
          /\ Past(s, p + 1, w) = p + (w + 1)
      BY <1>2, <2>2, ReadsCounted
    <2>4. b \notin 144..159 /\ w = IF b = 220 THEN 2 ELSE IF b = 221 THEN 4 ELSE 0
      BY <1>2
    <2>5. ReadArrayHeader(s, p) = <<<<Number(Nexts(s, p + 1, w))>>, Past(s, p + 1, w)>>
      BY <2>3, <2>4, Zenon DEF ReadArrayHeader
    <2>6. t # <<>>
      BY <1>2, <2>1, <2>2
    <2>7. QED  BY <1>2, <2>1, <2>3, <2>5, <2>6
  <1>3. CASE Counted(t, 220, 2, n) /\ Len(t) = 2 + 1
    BY <1>2, <1>3
  <1>4. CASE Counted(t, 221, 4, n) /\ Len(t) = 4 + 1
    BY <1>2, <1>4
  <1>5. QED  BY <1>1, <1>3, <1>4, PackArrayIs

LEMMA FloatIs ==
  ASSUME NEW x \in [1..8 -> UInt8]
  PROVE  Headed(<<203>> \o x, 203, x, 8)
  <1>1. x \in Seq(UInt8) /\ Len(x) = 8
    BY WordIs
  <1>2. x = Low(x, 8)
    BY <1>1 DEF Low
  <1>3. 203 \in UInt8 /\ 8 \in 1..8
    BY DEF UInt8
  <1>4. Headed(<<203>> \o Low(x, 8), 203, x, 8)
    BY <1>3, HeadedIs
  <1>5. QED  BY <1>2, <1>4

LEMMA ReadsFloat ==
  ASSUME NEW s \in Seq(UInt8), NEW p \in 0..Len(s), NEW x \in [1..8 -> UInt8],
         NEW t, t = << 203 >> \o x, Stands(s, t, p)
  PROVE  /\ t \in Seq(UInt8) /\ t # <<>>
         /\ ReadFloat64(s, p) = <<x, p + Len(t)>> /\ Peek(s, p) = 203
  <1>1. Headed(t, 203, x, 8)
    BY FloatIs
  <1>2. t \in Seq(UInt8) /\ Len(t) = 8 + 1 /\ t[1] = 203 /\ \A i \in 1..8 : t[1 + i] = x[i]
    <2>1. /\ t \in Seq(UInt8) /\ Len(t) = 8 + 1 /\ t[1] = 203
          /\ \A i \in 1..8 : t[1 + i] = x[8 - 8 + i]
      BY <1>1 DEF Headed
    <2>2. \A i \in 1..8 : 8 - 8 + i = i
      OBVIOUS
    <2>3. QED  BY <2>1, <2>2
  <1>3. /\ Peek(s, p) = 203 /\ Past(s, p, 1) = p + 1
        /\ Nexts(s, p + 1, 8) = [i \in 1..8 |-> t[1 + i]] /\ Past(s, p + 1, 8) = p + (8 + 1)
    <2>1. t # <<>> /\ 8 \in Nat /\ 8 < Len(t)
      BY <1>2
    <2>2. Reads(s, t, p)
      BY <1>2, <2>1, StandingRead
    <2>3. QED  BY <1>2, <2>1, <2>2 DEF Reads
  <1>4. Nexts(s, p + 1, 8) = x
    <2>1. x = [i \in 1..8 |-> x[i]]
      OBVIOUS
    <2>2. QED  BY <1>2, <1>3, <2>1
  <1>5. ReadFloat64(s, p) = <<Nexts(s, p + 1, 8), Past(s, p + 1, 8)>>
    BY <1>3 DEF ReadFloat64
  <1>6. QED  BY <1>2, <1>3, <1>4, <1>5

-----------------------------------------------------------------------------
(* One call, packed and taken.                                                 *)

LEMMA LengthBytes == DOMAIN LengthWidth = 196..198 \cup 217..219
  BY DEF LengthWidth

LEMMA FloatByte == Kind(203) = "float"
  BY LengthBytes DEF Kind

LEMMA IntBytes == \A b \in 204..211 : Kind(b) = "int"
  BY LengthBytes DEF Kind

LEMMA BinBytes == \A b \in 196..198 : Kind(b) = "bin"
  BY LengthBytes DEF Kind

LEMMA ArrayBytes == \A b \in 144..159 \cup {220, 221} : Kind(b) = "array"
  BY LengthBytes DEF Kind

LEMMA NilAndBoolBytes == \A b \in 192..195 : Kind(b) = "bool"
  BY LengthBytes DEF Kind

LEMMA SmallIntBytes == \A b \in 0..255 : b < 128 \/ b >= 224 => Kind(b) = "bool"
  BY LengthBytes DEF Kind

LEMMA ReadAsIs ==
  ASSUME NEW s, NEW p
  PROVE  /\ ReadAs("nil", s, p) =
              IF Peek(s, p) = 192 THEN <<<<1>>, Past(s, p, 1)>> ELSE <<<<0>>, p>>
         /\ ReadAs("bool", s, p) = <<<<IF Peek(s, p) = 195 THEN 1 ELSE 0>>, Past(s, p, 1)>>
         /\ ReadAs("int", s, p) = ReadInt(s, p)
         /\ ReadAs("float", s, p) = ReadFloat64(s, p)
         /\ ReadAs("bin", s, p) = ReadBin(s, p)
         /\ ReadAs("array", s, p) = ReadArrayHeader(s, p)
  <1> DEFINE A == IF Peek(s, p) = 192 THEN <<<<1>>, Past(s, p, 1)>> ELSE <<<<0>>, p>>
             B == <<<<IF Peek(s, p) = 195 THEN 1 ELSE 0>>, Past(s, p, 1)>>
             I == ReadInt(s, p)
             F == ReadFloat64(s, p)
             D == ReadBin(s, p)
             R == ReadArrayHeader(s, p)
  <1>1. \A k : ReadAs(k, s, p) =
          CASE k = "nil" -> A [] k = "bool" -> B [] k = "int" -> I
            [] k = "float" -> F [] k = "bin" -> D [] k = "array" -> R
    BY Zenon DEF ReadAs
  <1> HIDE DEF A, B, I, F, D, R
  <1>2. /\ ReadAs("nil", s, p) = A /\ ReadAs("bool", s, p) = B /\ ReadAs("int", s, p) = I
        /\ ReadAs("float", s, p) = F /\ ReadAs("bin", s, p) = D
        /\ ReadAs("array", s, p) = R
    BY <1>1
  <1>3. QED  BY <1>2, Zenon DEF A, B, I, F, D, R

\* What a call and a skip find where call c is packed as t.
Taken(s, p, c, t) ==
  LET r == ReadAs(Kind(Peek(s, p)), s, p)
  IN  /\ t \in Seq(UInt8) /\ t # <<>>
      /\ ReadAs(c[1], s, p) = <<c[2], p + Len(t)>>
      /\ Kind(Peek(s, p)) = "array" <=> c[1] = "array"
      /\ r[2] = p + Len(t)
      /\ c[1] = "array" => r[1] = c[2]

\* The byte at p is the only one of t.
LEMMA ReadsByte ==
  ASSUME NEW s \in Seq(UInt8), NEW p \in 0..Len(s), NEW b \in UInt8, NEW t, t = <<b>>,
         Stands(s, t, p)
  PROVE  /\ t \in Seq(UInt8) /\ t # <<>> /\ Len(t) = 1
         /\ Peek(s, p) = b /\ Past(s, p, 1) = p + 1
  <1>1. t \in Seq(UInt8) /\ Len(t) = 1 /\ t[1] = b /\ t # <<>>
    OBVIOUS
  <1>2. Reads(s, t, p)
    BY <1>1, StandingRead
  <1>3. QED  BY <1>1, <1>2 DEF Reads

LEMMA TakesNil ==
  ASSUME NEW s \in Seq(UInt8), NEW p \in 0..Len(s), Stands(s, << 192 >>, p)
  PROVE  Taken(s, p, <<"nil", <<1>>>>, << 192 >>)
  <1> DEFINE t == <<192>>
  <1>1. 192 \in UInt8
    BY DEF UInt8
  <1>2. /\ t \in Seq(UInt8) /\ t # <<>> /\ Len(t) = 1
        /\ Peek(s, p) = 192 /\ Past(s, p, 1) = p + 1
    BY <1>1, ReadsByte
  <1>3. ReadAs("nil", s, p) = <<<<1>>, p + 1>> /\ ReadAs("bool", s, p)[2] = p + 1
    BY <1>2, ReadAsIs
  <1>4. Kind(192) = "bool"
    <2>1. 192 \in 192..195
      OBVIOUS
    <2>2. QED  BY <2>1, NilAndBoolBytes
  <1> HIDE DEF t
  <1>5. QED  BY <1>2, <1>3, <1>4 DEF Taken, t

LEMMA TakesBool ==
  ASSUME NEW s \in Seq(UInt8), NEW p \in 0..Len(s), NEW v \in {0, 1},
         Stands(s, <<194 + v>>, p)
  PROVE  Taken(s, p, <<"bool", <<v>>>>, <<194 + v>>)
  <1>0. PICK b \in 0..255 : b = 194 + v
    OBVIOUS
  <1> DEFINE t == <<b>>
  <1>1. b \in UInt8 /\ b \in 192..195 /\ (b = 195 <=> v = 1)
    BY <1>0 DEF UInt8
  <1>2. /\ t \in Seq(UInt8) /\ t # <<>> /\ Len(t) = 1
        /\ Peek(s, p) = b /\ Past(s, p, 1) = p + 1
    <2>1. Stands(s, t, p)
      BY <1>0
    <2> HIDE DEF t
    <2>2. t = <<b>>
      BY DEF t
    <2>3. QED  BY <1>1, <2>1, <2>2, ReadsByte
  <1>3. ReadAs("bool", s, p) = <<<<v>>, p + 1>>
    BY <1>1, <1>2, ReadAsIs
  <1>4. Kind(b) = "bool"
    BY <1>1, NilAndBoolBytes
  <1> HIDE DEF t
  <1>5. Taken(s, p, <<"bool", <<v>>>>, t)
    BY <1>2, <1>3, <1>4 DEF Taken
  <1>6. QED  BY <1>0, <1>5 DEF t

LEMMA TakesInt ==
  ASSUME NEW s \in Seq(UInt8), NEW p \in 0..Len(s), NEW w \in [1..8 -> UInt8],
         NEW t, t = PackInt(w), Stands(s, t, p)
  PROVE  Taken(s, p, <<"int", w>>, t)
  <1>1. /\ ReadInt(s, p) = <<w, p + Len(t)>>
        /\ t \in Seq(UInt8) /\ t # <<>>
        /\ Peek(s, p) \in 204..211 \/ Peek(s, p) < 128 \/ Peek(s, p) >= 224
    BY ReadsInt
  <1>2. PICK b \in 0..255 : b = Peek(s, p)
    <2>1. p \in Nat
      OBVIOUS
    <2>2. QED  BY <2>1, PeekIs DEF UInt8
  <1>3. ReadAs("int", s, p) = <<w, p + Len(t)>>
    BY <1>1, ReadAsIs
  <1>4. CASE b \in 204..211
    <2>1. Kind(b) = "int"
      BY <1>4, IntBytes
    <2>2. QED  BY <1>1, <1>2, <1>3, <2>1 DEF Taken
  <1>5. CASE b < 128 \/ b >= 224
    <2>1. Kind(b) = "bool"
      BY <1>5, SmallIntBytes
    <2>2. Past(s, p, 1) = p + Len(t)
      <3>1. ReadInt(s, p) = <<Extended(<<b>>, TRUE), Past(s, p, 1)>>
        BY <1>2, <1>5, ReadIntIs
      <3>2. QED  BY <1>1, <3>1
    <2>3. ReadAs("bool", s, p)[2] = p + Len(t)
      BY <2>2, ReadAsIs
    <2>4. QED  BY <1>1, <1>2, <1>3, <2>1, <2>3 DEF Taken
  <1>6. QED  BY <1>1, <1>2, <1>4, <1>5

LEMMA TakesFloat ==
  ASSUME NEW s \in Seq(UInt8), NEW p \in 0..Len(s), NEW x \in [1..8 -> UInt8],
         NEW t, t = << 203 >> \o x, Stands(s, t, p)
  PROVE  Taken(s, p, <<"float", x>>, t)
  <1>1. /\ t \in Seq(UInt8) /\ t # <<>>
        /\ ReadFloat64(s, p) = <<x, p + Len(t)>> /\ Peek(s, p) = 203
    <2>1. \A u : u = <<203>> \o x /\ Stands(s, u, p) =>
             /\ u \in Seq(UInt8) /\ u # <<>>
             /\ ReadFloat64(s, p) = <<x, p + Len(u)>> /\ Peek(s, p) = 203
      BY ReadsFloat
    <2>2. QED  BY <2>1, Zenon
  <1>2. Kind(203) = "float"
    BY FloatByte
  <1>3. ReadAs("float", s, p) = <<x, p + Len(t)>>
    BY <1>1, ReadAsIs
  <1> HIDE <1>1
  <1>4. t \in Seq(UInt8) /\ t # <<>> /\ Peek(s, p) = 203
    BY <1>1
  <1>5. QED  BY <1>2, <1>3, <1>4 DEF Taken

LEMMA TakesBin ==
  ASSUME NEW s \in Seq(UInt8), NEW p \in 0..Len(s), NEW d \in Seq(UInt8), Len(d) <= Most,
         NEW t, t = PackBin(d), Stands(s, t, p)
  PROVE  Taken(s, p, <<"bin", d>>, t)
  <1>1. /\ t \in Seq(UInt8) /\ t # <<>>
        /\ ReadBin(s, p) = <<d, p + Len(t)>> /\ Peek(s, p) \in 196..198
    <2>1. \A u : u = PackBin(d) /\ Stands(s, u, p) =>
             /\ u \in Seq(UInt8) /\ u # <<>>
             /\ ReadBin(s, p) = <<d, p + Len(u)>> /\ Peek(s, p) \in 196..198
      BY ReadsBin
    <2>2. QED  BY <2>1, Zenon
  <1>2. Kind(Peek(s, p)) = "bin"
    <2>1. PICK b \in 0..255 : b = Peek(s, p) /\ b \in 196..198
      BY <1>1
    <2>2. Kind(b) = "bin"
      <3>1. b \in 0..255 /\ b \in 196..198
        BY <2>1
      <3>2. QED  BY <3>1, BinBytes
    <2>3. QED  BY <2>1, <2>2
  <1>3. ReadAs("bin", s, p) = <<d, p + Len(t)>>
    BY <1>1, ReadAsIs
  <1>4. QED  BY <1>1, <1>2, <1>3 DEF Taken

LEMMA TakesArray ==
  ASSUME NEW s \in Seq(UInt8), NEW p \in 0..Len(s), NEW n \in Nat, n <= Most,
         NEW t, t = PackArrayHeader(n), Stands(s, t, p)
  PROVE  Taken(s, p, <<"array", <<n>>>>, t)
  <1>1. /\ t \in Seq(UInt8) /\ t # <<>>
        /\ ReadArrayHeader(s, p) = <<<<n>>, p + Len(t)>>
        /\ Peek(s, p) \in 144..159 \cup {220, 221}
    BY ReadsArray
  <1>2. Kind(Peek(s, p)) = "array"
    <2>1. PICK b \in 0..255 : b = Peek(s, p) /\ b \in 144..159 \cup {220, 221}
      BY <1>1
    <2>2. Kind(b) = "array"
      <3>1. b \in 0..255 /\ b \in 144..159 \cup {220, 221}
        BY <2>1
      <3>2. QED  BY <3>1, ArrayBytes
    <2>3. QED  BY <2>1, <2>2
  <1>3. ReadAs("array", s, p) = <<<<n>>, p + Len(t)>>
    BY <1>1, ReadAsIs
  <1>4. QED  BY <1>1, <1>2, <1>3 DEF Taken

\* A call and a skip both stop at the end of what was packed, and the call
\* returns what was packed, whatever stands around it.
LEMMA TakesCall ==
  ASSUME NEW s \in Seq(UInt8), NEW p \in 0..Len(s), NEW c, IsCall(c),
         Stands(s, Pack(c), p)
  PROVE  Taken(s, p, c, Pack(c))
  <1>1. CASE c = <<"nil", <<1>>>>
    <2>1. Pack(c) = <<192>>
      BY <1>1 DEF Pack
    <2>2. QED  BY <1>1, <2>1, TakesNil
  <1>2. CASE c \in {"bool"} \X {<<0>>, <<1>>}
    <2>1. PICK v \in {0, 1} : c = <<"bool", <<v>>>>
      BY <1>2
    <2>2. Pack(c) = <<194 + v>>
      BY <2>1 DEF Pack
    <2>3. Stands(s, <<194 + v>>, p)
      BY <2>2
    <2>4. Taken(s, p, <<"bool", <<v>>>>, <<194 + v>>)
      BY <2>3, TakesBool
    <2>5. QED  BY <2>1, <2>2, <2>4
  <1>3. CASE c \in {"int", "float"} \X [1..8 -> UInt8]
    <2>1. PICK w \in [1..8 -> UInt8] : c = <<"int", w>> \/ c = <<"float", w>>
      BY <1>3
    <2>2. CASE c = <<"int", w>>
      <3>1. PICK t : t = Pack(c)
        OBVIOUS
      <3>2. t = PackInt(w)
        BY <2>2, <3>1 DEF Pack
      <3>3. QED  BY <2>2, <3>1, <3>2, TakesInt
    <2>3. CASE c = <<"float", w>>
      <3>1. PICK t : t = Pack(c)
        OBVIOUS
      <3>2. t = <<203>> \o w
        BY <2>3, <3>1 DEF Pack
      <3>3. QED  BY <2>3, <3>1, <3>2, TakesFloat
    <2>4. QED  BY <2>1, <2>2, <2>3
  <1>4. CASE c \in {"bin"} \X Seq(UInt8) /\ Len(c[2]) <= Most
    <2>1. PICK d \in Seq(UInt8) : c = <<"bin", d>>
      BY <1>4, SMT
    <2>2. PICK t : t = Pack(c)
      OBVIOUS
    <2>3. t = PackBin(d)
      BY <2>1, <2>2, SMT DEF Pack
    <2>4. Len(d) <= Most
      BY <1>4, <2>1, SMT
    <2>5. Stands(s, t, p)
      BY <2>2
    <2>6. Taken(s, p, <<"bin", d>>, t)
      BY <2>3, <2>4, <2>5, TakesBin
    <2>7. QED  BY <2>1, <2>2, <2>6
  <1>5. CASE c \in {"array"} \X Seq(Nat) /\ Len(c[2]) = 1 /\ c[2][1] <= Most
    <2>1. PICK a \in Seq(Nat) : c = <<"array", a>>
      BY <1>5, SMT
    <2>2. Len(a) = 1 /\ a[1] <= Most /\ a[1] \in Nat
      <3>1. Len(a) = 1 /\ a[1] <= Most
        BY <1>5, <2>1, SMT
      <3>2. 1 \in 1..Len(a)
        BY <3>1
      <3>3. a[1] \in Nat
        BY <3>2, ElementOfSeq
      <3>4. QED  BY <3>1, <3>3, Zenon
    <2>3. PICK n \in Nat : n = a[1] /\ n <= Most
      BY <2>2, SMT
    <2>4. a = <<n>>
      BY <2>2, <2>3, SMT
    <2>5. PICK t : t = Pack(c)
      OBVIOUS
    <2>6. t = PackArrayHeader(n)
      BY <2>1, <2>3, <2>5, SMT DEF Pack
    <2>7. Stands(s, t, p)
      BY <2>5
    <2>8. Taken(s, p, <<"array", <<n>>>>, t)
      BY <2>3, <2>6, <2>7, TakesArray
    <2>9. QED  BY <2>1, <2>4, <2>5, <2>8
  <1>6. QED  BY <1>1, <1>2, <1>3, <1>4, <1>5 DEF IsCall

-----------------------------------------------------------------------------
(* Whatever the bytes are: a call moves on, and never past the end.            *)

Stop(s, p, q) == q \in p..Len(s) /\ (p < Len(s) => q > p)

LEMMA PastStops ==
  ASSUME NEW s \in Seq(UInt8), NEW p \in 0..Len(s), NEW n \in Nat, n > 0
  PROVE  Stop(s, p, Past(s, p, n))
  BY PastIs DEF Stop

LEMMA PastTwiceStops ==
  ASSUME NEW s \in Seq(UInt8), NEW p \in 0..Len(s), NEW n \in Nat
  PROVE  Stop(s, p, Past(s, Past(s, p, 1), n))
  <1>1. PICK q \in 0..Len(s) : q = Past(s, p, 1) /\ Stop(s, p, q)
    <2>1. 1 \in Nat /\ 1 > 0
      OBVIOUS
    <2>2. Stop(s, p, Past(s, p, 1))
      BY <2>1, PastStops
    <2>3. Past(s, p, 1) \in 0..Len(s)
      BY <2>2 DEF Stop
    <2>4. QED  BY <2>2, <2>3
  <1>2. Past(s, q, n) \in q..Len(s)
    BY PastIs
  <1>3. Stop(s, p, Past(s, q, n))
    BY <1>1, <1>2 DEF Stop
  <1>4. QED  BY <1>1, <1>3

LEMMA ReadIntStops ==
  ASSUME NEW s \in Seq(UInt8), NEW p \in 0..Len(s)
  PROVE  Stop(s, p, ReadInt(s, p)[2])
  <1>1. PICK b \in 0..255 : b = Peek(s, p)
    <2>1. p \in Nat
      OBVIOUS
    <2>2. QED  BY <2>1, PeekIs DEF UInt8
  <1>2. IntWidth(b) \in Nat
    <2>1. b \in UInt8
      BY DEF UInt8
    <2>2. IntWidth(b) \in 1..8
      BY <2>1, WidthsAre
    <2>3. QED  BY <2>2
  <1>3. Stop(s, p, Past(s, p, 1))
    <2>1. 1 \in Nat /\ 1 > 0
      OBVIOUS
    <2>2. QED  BY <2>1, PastStops
  <1>4. CASE b \in 204..211
    <2>1. ReadInt(s, p) = WideRead(s, p, b)
      BY <1>1, <1>4, ReadIntIs
    <2>2. WideRead(s, p, b)[2] = Past(s, Past(s, p, 1), IntWidth(b))
      <3> DEFINE A == Extended(Nexts(s, Past(s, p, 1), IntWidth(b)), b >= 208)
                 B == Past(s, Past(s, p, 1), IntWidth(b))
      <3>1. WideRead(s, p, b) = <<A, B>>
        BY Zenon DEF WideRead
      <3> HIDE DEF A, B
      <3>2. WideRead(s, p, b)[2] = B
        BY <3>1
      <3>3. QED  BY <3>2 DEF B
    <2>3. Stop(s, p, Past(s, Past(s, p, 1), IntWidth(b)))
      BY <1>2, PastTwiceStops
    <2>4. QED  BY <2>1, <2>2, <2>3
  <1>5. CASE b < 128 \/ b >= 224
    <2> DEFINE A == Extended(<<b>>, TRUE)
               B == Past(s, p, 1)
    <2>1. ReadInt(s, p) = <<A, B>>
      BY <1>1, <1>5, ReadIntIs
    <2> HIDE DEF A, B
    <2>2. ReadInt(s, p)[2] = B
      BY <2>1
    <2>3. QED  BY <1>3, <2>2 DEF B
  <1>6. CASE (b >= 128 /\ b < 204) \/ (b > 211 /\ b < 224)
    <2>1. ReadInt(s, p)[2] = Past(s, p, 1)
      <3>1. (b >= 128 /\ b < 204) \/ (b > 211 /\ b < 224) => ReadInt(s, p)[2] = Past(s, p, 1)
        <4>1. \A c \in 0..255 : c = Peek(s, p) =>
                 ((c >= 128 /\ c < 204) \/ (c > 211 /\ c < 224) =>
                    ReadInt(s, p)[2] = Past(s, p, 1))
          BY ReadIntIs
        <4>2. QED  BY <1>1, <4>1
      <3>2. QED  BY <1>6, <3>1, Zenon
    <2>2. QED  BY <1>3, <2>1
  <1>7. QED  BY <1>4, <1>5, <1>6

LEMMA ReadFloatStops ==
  ASSUME NEW s \in Seq(UInt8), NEW p \in 0..Len(s)
  PROVE  Stop(s, p, ReadFloat64(s, p)[2])
  <1>1. PICK n \in Nat : n = IF Peek(s, p) = 202 THEN 4 ELSE 8
    OBVIOUS
  <1>2. ReadFloat64(s, p)[2] = Past(s, Past(s, p, 1), n)
    BY <1>1 DEF ReadFloat64
  <1>3. Stop(s, p, Past(s, Past(s, p, 1), n))
    BY PastTwiceStops
  <1>4. QED  BY <1>2, <1>3

LEMMA PeekByte ==
  ASSUME NEW s \in Seq(UInt8), NEW p \in 0..Len(s)
  PROVE  Peek(s, p) \in 0..255
  <1>1. p \in Nat
    OBVIOUS
  <1>2. QED  BY <1>1, PeekIs DEF UInt8

LEMMA ReadArrayStops ==
  ASSUME NEW s \in Seq(UInt8), NEW p \in 0..Len(s)
  PROVE  Stop(s, p, ReadArrayHeader(s, p)[2]) /\ ReadArrayHeader(s, p)[1][1] \in Nat
  <1> DEFINE b == Peek(s, p)
             w == IF b = 220 THEN 2 ELSE IF b = 221 THEN 4 ELSE 0
             q == Past(s, p, 1)
             x == Number(Nexts(s, q, w))
             y == Past(s, q, w)
  <1>1. ReadArrayHeader(s, p) = IF b \in 144..159 THEN <<<<b - 144>>, q>> ELSE <<<<x>>, y>>
    BY Zenon DEF ReadArrayHeader
  <1>2. b \in 0..255
    BY PeekByte
  <1> HIDE DEF b
  <1>3. w \in Nat
    OBVIOUS
  <1> HIDE DEF w
  <1>4. Stop(s, p, q)
    <2>1. 1 \in Nat /\ 1 > 0
      OBVIOUS
    <2>2. QED  BY <2>1, PastStops
  <1>5. Stop(s, p, y)
    BY <1>3, PastTwiceStops
  <1> HIDE DEF q
  <1>6. x \in Nat
    <2>1. q \in Nat
      BY <1>4 DEF Stop
    <2>2. Nexts(s, q, w) \in Seq(UInt8)
      BY <1>3, <2>1, NextsIs
    <2>3. QED  BY <2>2, NumberIs
  <1> HIDE DEF x, y
  <1>7. CASE b \in 144..159
    <2>1. ReadArrayHeader(s, p) = <<<<b - 144>>, q>> /\ b - 144 \in Nat
      BY <1>1, <1>7
    <2>2. QED  BY <1>4, <2>1
  <1>8. CASE b \notin 144..159
    <2>1. ReadArrayHeader(s, p) = <<<<x>>, y>>
      BY <1>1, <1>8
    <2>2. QED  BY <1>5, <1>6, <2>1
  <1>9. QED  BY <1>7, <1>8

LEMMA ReadBinStops ==
  ASSUME NEW s \in Seq(UInt8), NEW p \in 0..Len(s)
  PROVE  Stop(s, p, ReadBin(s, p)[2])
  <1> DEFINE b == Peek(s, p)
             w == IF b \in DOMAIN LengthWidth THEN LengthWidth[b] ELSE 0
             q == Past(s, p, 1 + w)
             x == Number(Nexts(s, p + 1, w))
             len == IF b \in 160..191 THEN b - 160 ELSE x
             A == SubSeq(s, q + 1, q + len)
             C == (w = 0 /\ b \notin 160..191) \/ q + len > Len(s)
  <1>1. ReadBin(s, p) = IF C THEN <<<<>>, q>> ELSE <<A, q + len>>
    BY Zenon DEF ReadBin
  <1>2. b \in 0..255
    BY PeekByte
  <1> HIDE DEF b
  <1>3. w \in Nat
    <2>1. \A v \in DOMAIN LengthWidth : LengthWidth[v] \in Nat
      BY DEF LengthWidth
    <2>2. QED  BY <2>1
  <1> HIDE DEF w
  <1>4. Stop(s, p, q)
    <2>1. PICK n \in Nat : n = 1 + w /\ n > 0
      BY <1>3
    <2>2. Stop(s, p, Past(s, p, n))
      BY <2>1, PastStops
    <2>3. QED  BY <2>1, <2>2
  <1> HIDE DEF q
  <1>5. x \in Nat
    <2>1. PICK m \in Nat : m = p + 1
      OBVIOUS
    <2>2. Nexts(s, m, w) \in Seq(UInt8)
      BY <1>3, NextsIs
    <2>3. QED  BY <2>1, <2>2, NumberIs
  <1> HIDE DEF x
  <1>6. len \in Nat
    BY <1>2, <1>5
  <1> HIDE DEF len
  <1>7. q \in Nat /\ (C \/ q + len <= Len(s))
    BY <1>4, <1>6 DEF Stop
  <1> HIDE DEF A, C
  <1>8. CASE C
    <2>1. ReadBin(s, p)[2] = q
      BY <1>1, <1>8
    <2>2. QED  BY <1>4, <2>1
  <1>9. CASE ~C
    <2>1. ReadBin(s, p)[2] = q + len
      BY <1>1, <1>9
    <2>2. Stop(s, p, q + len)
      BY <1>4, <1>6, <1>7, <1>9 DEF Stop
    <2>3. QED  BY <2>1, <2>2
  <1>10. QED  BY <1>8, <1>9

Kinds == {"nil", "bool", "int", "float", "bin", "array"}

LEMMA ReadAsStops ==
  ASSUME NEW s \in Seq(UInt8), NEW p \in 0..Len(s), NEW k \in Kinds
  PROVE  /\ ReadAs(k, s, p)[2] \in p..Len(s)
         /\ k # "nil" => Stop(s, p, ReadAs(k, s, p)[2])
  <1>1. Past(s, p, 1) \in p..Len(s) /\ Stop(s, p, Past(s, p, 1))
    <2>1. 1 \in Nat /\ 1 > 0
      OBVIOUS
    <2>2. QED  BY <2>1, PastIs, PastStops
  <1> DEFINE q == Past(s, p, 1)
  <1>2. ReadAs("nil", s, p)[2] \in p..Len(s)
    <2>1. ReadAs("nil", s, p) = IF Peek(s, p) = 192 THEN <<<<1>>, q>> ELSE <<<<0>>, p>>
      BY ReadAsIs
    <2> HIDE DEF q
    <2>2. ReadAs("nil", s, p)[2] = q \/ ReadAs("nil", s, p)[2] = p
      BY <2>1
    <2>3. q \in p..Len(s)
      BY <1>1 DEF q
    <2>4. QED  BY <2>2, <2>3
  <1>3. Stop(s, p, ReadAs("bool", s, p)[2])
    <2>1. ReadAs("bool", s, p) = <<<<IF Peek(s, p) = 195 THEN 1 ELSE 0>>, q>>
      BY ReadAsIs
    <2> HIDE DEF q
    <2>2. ReadAs("bool", s, p)[2] = q
      BY <2>1
    <2>3. QED  BY <1>1, <2>2 DEF q
  <1>4. /\ Stop(s, p, ReadAs("int", s, p)[2]) /\ Stop(s, p, ReadAs("float", s, p)[2])
        /\ Stop(s, p, ReadAs("bin", s, p)[2]) /\ Stop(s, p, ReadAs("array", s, p)[2])
    <2>1. /\ ReadAs("int", s, p) = ReadInt(s, p) /\ ReadAs("float", s, p) = ReadFloat64(s, p)
          /\ ReadAs("bin", s, p) = ReadBin(s, p) /\ ReadAs("array", s, p) = ReadArrayHeader(s, p)
      BY ReadAsIs
    <2>2. /\ Stop(s, p, ReadInt(s, p)[2]) /\ Stop(s, p, ReadFloat64(s, p)[2])
          /\ Stop(s, p, ReadBin(s, p)[2]) /\ Stop(s, p, ReadArrayHeader(s, p)[2])
      BY ReadIntStops, ReadFloatStops, ReadBinStops, ReadArrayStops
    <2>3. QED  BY <2>1, <2>2, Zenon
  <1>5. \A m \in Kinds : m # "nil" => Stop(s, p, ReadAs(m, s, p)[2])
    BY <1>3, <1>4, Zenon DEF Kinds
  <1>6. \A m : Stop(s, p, m) => m \in p..Len(s)
    BY DEF Stop
  <1>7. QED  BY <1>2, <1>5, <1>6, Zenon

LEMMA KindType ==
  ASSUME NEW b
  PROVE  Kind(b) \in Kinds /\ Kind(b) # "nil"
  BY DEF Kind, Kinds

-----------------------------------------------------------------------------
(* skip(): a walk over values that begin others.                               *)

\* From p the next value is at nx[p], and ct[p] more are to come.
Moves(L, nx, ct) ==
  /\ L \in Nat /\ nx \in [0..L -> 0..L] /\ ct \in [0..L -> Nat]
  /\ \A p \in 0..L : p < L => nx[p] > p

Walks(f, L, nx, ct) ==
  f = [x \in (0..L) \X Nat |->
         IF x[2] = 0 \/ x[1] = L THEN x[1]
         ELSE f[<<f[<<nx[x[1]], ct[x[1]]>>], x[2] - 1>>]]

\* The same from position m on, row by row.
Rows(g, m, L, nx, ct) ==
  /\ g \in [m..L -> [Nat -> 0..L]]
  /\ \A p \in m..L, n \in Nat :
       /\ g[p][n] >= p
       /\ g[p][n] = IF n = 0 \/ p = L THEN p ELSE g[g[nx[p]][ct[p]]][n - 1]

LEMMA NextRow ==
  ASSUME NEW L, NEW nx, NEW ct, Moves(L, nx, ct), NEW m \in 1..L, NEW g,
         Rows(g, m, L, nx, ct)
  PROVE  \E h : Rows(h, m - 1, L, nx, ct)
  <1>1. /\ L \in Nat /\ nx \in [0..L -> 0..L] /\ ct \in [0..L -> Nat]
        /\ \A p \in 0..L : p < L => nx[p] > p
    BY DEF Moves
  <1>2. /\ g \in [m..L -> [Nat -> 0..L]]
        /\ \A p \in m..L, n \in Nat :
             /\ g[p][n] >= p
             /\ g[p][n] = IF n = 0 \/ p = L THEN p ELSE g[g[nx[p]][ct[p]]][n - 1]
    BY DEF Rows
  <1>3. PICK p0 \in 0..L : p0 = m - 1 /\ p0 < L
    BY <1>1
  <1>4. nx[p0] \in m..L /\ ct[p0] \in Nat
    <2>1. nx[p0] \in 0..L /\ nx[p0] > p0 /\ ct[p0] \in Nat
      BY <1>1, <1>3
    <2>2. QED  BY <1>1, <1>3, <2>1
  <1>5. PICK q \in m..L : q = g[nx[p0]][ct[p0]]
    <2>1. g[nx[p0]] \in [Nat -> 0..L] /\ g[nx[p0]][ct[p0]] >= nx[p0]
      BY <1>2, <1>4
    <2>2. g[nx[p0]][ct[p0]] \in 0..L
      BY <1>4, <2>1
    <2>3. PICK v \in 0..L, r \in m..L :
             v = g[nx[p0]][ct[p0]] /\ r = nx[p0] /\ v >= r
      BY <1>4, <2>1, <2>2
    <2>4. v \in m..L
      <3>1. v >= r /\ L \in Nat
        BY <1>1, <2>3
      <3>2. QED  BY <3>1
    <2>5. QED  BY <2>3, <2>4
  <1> DEFINE row == [n \in Nat |-> IF n = 0 THEN p0 ELSE g[q][n - 1]]
             h == [p \in p0..L |-> IF p = p0 THEN row ELSE g[p]]
  <1>6. ASSUME NEW n \in Nat, n # 0
        PROVE  n - 1 \in Nat /\ g[q][n - 1] \in 0..L /\ g[q][n - 1] >= q
    <2>1. n - 1 \in Nat
      BY <1>6
    <2>2. PICK k \in Nat : k = n - 1
      BY <2>1
    <2>3. g[q] \in [Nat -> 0..L] /\ g[q][k] >= q
      BY <1>2
    <2>4. g[q][k] \in 0..L
      BY <2>3
    <2>5. QED  BY <2>2, <2>3, <2>4
  <1>7. row \in [Nat -> 0..L]
    BY <1>6
  <1>8. row[0] = p0 /\ \A n \in Nat : n # 0 => row[n] = g[q][n - 1] /\ row[n] >= p0
    <2>1. q >= p0
      BY <1>3
    <2>2. ASSUME NEW n \in Nat, n # 0
          PROVE  row[n] = g[q][n - 1] /\ row[n] >= p0
      <3>1. row[n] = g[q][n - 1]
        BY <2>2
      <3> HIDE DEF row
      <3>2. PICK v \in 0..L : v = g[q][n - 1] /\ v >= q
        BY <1>6, <2>2
      <3>3. QED  BY <2>1, <3>1, <3>2
    <2>3. QED  BY <2>2
  <1> HIDE DEF row
  <1>9. h \in [p0..L -> [Nat -> 0..L]]
    <2>1. \A p \in p0..L : p # p0 => p \in m..L
      BY <1>3
    <2>2. QED  BY <1>2, <1>7, <2>1
  <1>10. h[p0] = row /\ \A p \in m..L : h[p] = g[p]
    <2>1. \A p \in m..L : p \in p0..L /\ p # p0
      BY <1>3
    <2>2. QED  BY <1>3, <2>1
  <1> HIDE DEF h
  <1>11. h[h[nx[p0]][ct[p0]]] = g[q]
    BY <1>4, <1>5, <1>10
  <1>12. ASSUME NEW n \in Nat
         PROVE  /\ h[p0][n] >= p0
                /\ h[p0][n] = IF n = 0 \/ p0 = L THEN p0 ELSE h[h[nx[p0]][ct[p0]]][n - 1]
    <2>1. CASE n = 0
      BY <1>3, <1>8, <1>10, <2>1
    <2>2. CASE n # 0
      <3>1. row[n] = g[q][n - 1] /\ row[n] >= p0
        BY <1>8, <2>2
      <3>2. p0 # L
        BY <1>3
      <3>3. h[p0][n] = row[n] /\ h[h[nx[p0]][ct[p0]]][n - 1] = g[q][n - 1]
        BY <1>10, <1>11, Zenon
      <3>4. QED  BY <2>2, <3>1, <3>2, <3>3
    <2>3. QED  BY <2>1, <2>2
  <1>13. ASSUME NEW p \in m..L, NEW n \in Nat
         PROVE  /\ h[p][n] >= p
                /\ h[p][n] = IF n = 0 \/ p = L THEN p ELSE h[h[nx[p]][ct[p]]][n - 1]
    <2>1. /\ g[p][n] >= p
          /\ g[p][n] = IF n = 0 \/ p = L THEN p ELSE g[g[nx[p]][ct[p]]][n - 1]
      BY <1>2
    <2>2. ASSUME p # L
          PROVE  h[h[nx[p]][ct[p]]] = g[g[nx[p]][ct[p]]]
      <3>1. p \in 0..L /\ p < L
        BY <1>1, <2>2
      <3>2. nx[p] \in 0..L /\ nx[p] > p /\ ct[p] \in Nat
        BY <1>1, <3>1
      <3>3. PICK r \in m..L : r = nx[p]
        BY <1>1, <3>1, <3>2
      <3>4. g[r][ct[p]] >= r /\ g[r][ct[p]] \in 0..L
        BY <1>2, <3>2
      <3>5. g[r][ct[p]] \in m..L
        <4>1. PICK v \in 0..L : v = g[r][ct[p]] /\ v >= r
          BY <3>4
        <4>2. v \in m..L
          <5>1. v >= r /\ L \in Nat
            BY <1>1, <4>1
          <5>2. QED  BY <5>1
        <4>3. QED  BY <4>1, <4>2
      <3>6. h[r] = g[r]
        BY <1>10
      <3>7. QED  BY <1>10, <3>3, <3>5, <3>6
    <2>3. h[p] = g[p]
      BY <1>10
    <2>4. QED  BY <2>1, <2>2, <2>3, Zenon
  <1>14. \A p \in p0..L : p = p0 \/ p \in m..L
    BY <1>3
  <1>15. Rows(h, p0, L, nx, ct)
    BY <1>9, <1>12, <1>13, <1>14, Zenon DEF Rows
  <1>16. QED  BY <1>3, <1>15

LEMMA WalkExists ==
  ASSUME NEW L, NEW nx, NEW ct, Moves(L, nx, ct)
  PROVE  \E f : Walks(f, L, nx, ct)
  <1>1. /\ L \in Nat /\ nx \in [0..L -> 0..L] /\ ct \in [0..L -> Nat]
        /\ \A p \in 0..L : p < L => nx[p] > p
    BY DEF Moves
  <1> DEFINE A == {k \in Nat : k <= L => \E g : Rows(g, L - k, L, nx, ct)}
  <1>2. 0 \in A
    <2> DEFINE g == [p \in L..L |-> [n \in Nat |-> L]]
    <2>1. g \in [L..L -> [Nat -> 0..L]]
      BY <1>1
    <2>2. \A p \in L..L, n \in Nat : p = L /\ g[p][n] = L /\ L >= L
      BY <1>1
    <2> HIDE DEF g
    <2>3. Rows(g, L, L, nx, ct)
      BY <2>1, <2>2, Zenon DEF Rows
    <2>4. L - 0 = L
      BY <1>1
    <2>5. QED  BY <2>3, <2>4
  <1>3. ASSUME NEW k \in A
        PROVE  k + 1 \in A
    <2>1. SUFFICES ASSUME k + 1 <= L PROVE \E g : Rows(g, L - (k + 1), L, nx, ct)
      OBVIOUS
    <2>2. PICK m \in 1..L : m = L - k
      BY <1>1, <2>1
    <2>3. PICK g : Rows(g, m, L, nx, ct)
      BY <1>1, <2>1, <2>2
    <2>4. m - 1 = L - (k + 1)
      BY <1>1, <2>2
    <2>5. \E h : Rows(h, m - 1, L, nx, ct)
      BY <2>3, NextRow
    <2>6. QED  BY <2>4, <2>5
  <1>4. L \in A
    <2>1. A \in SUBSET Nat
      OBVIOUS
    <2> HIDE DEF A
    <2>2. A = Nat
      BY <1>2, <1>3, <2>1, NumberByNumber
    <2>3. QED  BY <1>1, <2>2
  <1>5. PICK g : Rows(g, 0, L, nx, ct)
    <2>1. L <= L /\ L - L = 0
      BY <1>1
    <2>2. QED  BY <1>4, <2>1
  <1>6. /\ g \in [0..L -> [Nat -> 0..L]]
        /\ \A p \in 0..L, n \in Nat :
             g[p][n] = IF n = 0 \/ p = L THEN p ELSE g[g[nx[p]][ct[p]]][n - 1]
    BY <1>5 DEF Rows
  <1> DEFINE D == (0..L) \X Nat
             f == [x \in D |-> g[x[1]][x[2]]]
  <1>7. \A p \in 0..L, n \in Nat : f[<<p, n>>] = g[p][n]
    OBVIOUS
  <1>8. ASSUME NEW x \in D
        PROVE  f[x] = IF x[2] = 0 \/ x[1] = L THEN x[1]
                      ELSE f[<<f[<<nx[x[1]], ct[x[1]]>>], x[2] - 1>>]
    <2>1. PICK p \in 0..L, n \in Nat : x = <<p, n>>
      OBVIOUS
    <2>2. x[1] = p /\ x[2] = n /\ f[x] = g[p][n]
      BY <1>7, <2>1
    <2>3. ASSUME n # 0, p # L
          PROVE  f[<<f[<<nx[p], ct[p]>>], n - 1>>] = g[g[nx[p]][ct[p]]][n - 1]
      <3>1. nx[p] \in 0..L /\ ct[p] \in Nat
        BY <1>1
      <3>0. n - 1 \in Nat
        BY <2>3
      <3>2. f[<<nx[p], ct[p]>>] = g[nx[p]][ct[p]] /\ g[nx[p]][ct[p]] \in 0..L
        BY <1>6, <1>7, <3>1
      <3> HIDE DEF f
      <3>3. QED  BY <1>7, <3>0, <3>2
    <2> HIDE DEF f
    <2>4. QED  BY <1>6, <2>2, <2>3
  <1>9. Walks(f, L, nx, ct)
    <2>1. f = [x \in D |-> f[x]]
      OBVIOUS
    <2> HIDE DEF f
    <2>2. f = [x \in D |-> IF x[2] = 0 \/ x[1] = L THEN x[1]
                           ELSE f[<<f[<<nx[x[1]], ct[x[1]]>>], x[2] - 1>>]]
      BY <1>8, <2>1, Zenon
    <2>3. QED  BY <2>2, Zenon DEF Walks
  <1>10. QED  BY <1>9

LEMMA WalkIs ==
  ASSUME NEW L, NEW nx, NEW ct, NEW f, Moves(L, nx, ct), Walks(f, L, nx, ct),
         NEW p \in 0..L, NEW n \in Nat
  PROVE  /\ n = 0 \/ p = L => f[<<p, n>>] = p
         /\ n # 0 /\ p # L => f[<<p, n>>] = f[<<f[<<nx[p], ct[p]>>], n - 1>>]
  <1>1. <<p, n>> \in (0..L) \X Nat /\ <<p, n>>[1] = p /\ <<p, n>>[2] = n
    OBVIOUS
  <1>2. PICK x : x = <<p, n>>
    OBVIOUS
  <1>3. x \in (0..L) \X Nat /\ x[1] = p /\ x[2] = n
    BY <1>1, <1>2
  <1>4. f[x] = IF x[2] = 0 \/ x[1] = L THEN x[1]
               ELSE f[<<f[<<nx[x[1]], ct[x[1]]>>], x[2] - 1>>]
    <2> DEFINE D == (0..L) \X Nat
               B(y) == IF y[2] = 0 \/ y[1] = L THEN y[1]
                       ELSE f[<<f[<<nx[y[1]], ct[y[1]]>>], y[2] - 1>>]
    <2>1. f = [y \in D |-> B(y)]
      BY Zenon DEF Walks
    <2> HIDE DEF B
    <2>2. f[x] = B(x)
      BY <1>3, <2>1, Zenon
    <2>3. QED  BY <2>2 DEF B
  <1>5. f[<<p, n>>] = IF n = 0 \/ p = L THEN p ELSE f[<<f[<<nx[p], ct[p]>>], n - 1>>]
    BY <1>2, <1>3, <1>4, Zenon
  <1>6. QED  BY <1>5, Zenon

LEMMA WalkStays ==
  ASSUME NEW L, NEW nx, NEW ct, NEW f, Moves(L, nx, ct), Walks(f, L, nx, ct)
  PROVE  /\ \A p \in 0..L : f[<<p, 0>>] = p
         /\ \A n \in Nat : f[<<L, n>>] = L
  <1>1. 0 \in Nat /\ L \in 0..L
    BY DEF Moves
  <1>2. \A p \in 0..L, n \in Nat : n = 0 \/ p = L => f[<<p, n>>] = p
    <2> TAKE p \in 0..L, n \in Nat
    <2>1. /\ n = 0 \/ p = L => f[<<p, n>>] = p
          /\ n # 0 /\ p # L => f[<<p, n>>] = f[<<f[<<nx[p], ct[p]>>], n - 1>>]
      BY WalkIs
    <2>2. QED  BY <2>1, Zenon
  <1>3. QED  BY <1>1, <1>2, Zenon

\* A walk never turns back, so that it stays in the buffer.
LEMMA WalkType ==
  ASSUME NEW L, NEW nx, NEW ct, NEW f, Moves(L, nx, ct), Walks(f, L, nx, ct)
  PROVE  \A p \in 0..L, n \in Nat : f[<<p, n>>] \in p..L
  <1>1. /\ L \in Nat /\ nx \in [0..L -> 0..L] /\ ct \in [0..L -> Nat]
        /\ \A p \in 0..L : p < L => nx[p] > p
    BY DEF Moves
  <1> DEFINE A == {k \in Nat : k <= L => \A p \in L - k..L, n \in Nat : f[<<p, n>>] \in p..L}
  <1>2. 0 \in A
    <2>1. ASSUME NEW p \in L - 0..L, NEW n \in Nat
          PROVE  f[<<p, n>>] \in p..L
      <3>1. p \in 0..L /\ p = L
        BY <1>1
      <3>2. f[<<p, n>>] = p
        BY <3>1, WalkStays
      <3>3. QED  BY <1>1, <3>1, <3>2
    <2>2. QED  BY <2>1
  <1>3. ASSUME NEW k \in A
        PROVE  k + 1 \in A
    <2>1. SUFFICES ASSUME k + 1 <= L, NEW p \in L - (k + 1)..L, NEW n \in Nat
                   PROVE  f[<<p, n>>] \in p..L
      OBVIOUS
    <2>2. p \in 0..L /\ (p # L => p < L)
      BY <1>1, <2>1
    <2>3. \A q \in 0..L, j \in Nat : q >= L - k => f[<<q, j>>] \in q..L
      BY <1>1, <2>1
    <2>4. CASE n = 0 \/ p = L
      <3>1. f[<<p, n>>] = p
        BY <2>2, <2>4, WalkStays
      <3>2. QED  BY <1>1, <2>2, <3>1
    <2>5. CASE n # 0 /\ p # L
      <3>0. n - 1 \in Nat
        BY <2>5
      <3>1. PICK r \in 0..L, c \in Nat, j \in Nat : r = nx[p] /\ c = ct[p] /\ j = n - 1
        BY <1>1, <2>2, <3>0
      <3>2. f[<<p, n>>] = f[<<f[<<r, c>>], j>>]
        BY <2>2, <2>5, <3>1, WalkIs
      <3>3. r > p
        BY <1>1, <2>2, <2>5, <3>1
      <3>4. r >= L - k
        BY <1>1, <2>1, <3>3
      <3>5. PICK v \in 0..L : v = f[<<r, c>>] /\ v >= r
        <4>1. f[<<r, c>>] \in r..L
          BY <2>3, <3>4
        <4>2. QED  BY <1>1, <4>1
      <3>6. v >= L - k
        <4>1. v >= r
          BY <3>5
        <4>2. QED  BY <1>1, <3>4, <4>1
      <3>7. f[<<v, j>>] \in v..L
        BY <2>3, <3>6
      <3>8. v >= p
        <4>1. v >= r
          BY <3>5
        <4>2. QED  BY <3>3, <4>1
      <3>9. PICK u \in v..L : u = f[<<v, j>>]
        BY <3>7
      <3>10. u \in p..L
        BY <1>1, <3>8
      <3>11. QED  BY <3>2, <3>5, <3>9, <3>10
    <2>6. QED  BY <2>4, <2>5
  <1>4. L \in A
    <2>1. A \in SUBSET Nat
      OBVIOUS
    <2> HIDE DEF A
    <2>2. A = Nat
      BY <1>2, <1>3, <2>1, NumberByNumber
    <2>3. QED  BY <1>1, <2>2
  <1>5. L - L = 0 /\ L <= L
    BY <1>1
  <1>6. QED  BY <1>4, <1>5

\* To skip m values and then n more is to skip m + n.
LEMMA WalkOn ==
  ASSUME NEW L, NEW nx, NEW ct, NEW f, Moves(L, nx, ct), Walks(f, L, nx, ct)
  PROVE  \A p \in 0..L, m, n \in Nat : f[<<p, m + n>>] = f[<<f[<<p, m>>], n>>]
  <1>1. /\ L \in Nat /\ nx \in [0..L -> 0..L] /\ ct \in [0..L -> Nat]
        /\ \A p \in 0..L : p < L => nx[p] > p
    BY DEF Moves
  <1> DEFINE A == {k \in Nat : k <= L => \A p \in L - k..L, m, n \in Nat :
                                           f[<<p, m + n>>] = f[<<f[<<p, m>>], n>>]}
  <1>2. ASSUME NEW p \in 0..L, p = L, NEW m \in Nat, NEW n \in Nat
        PROVE  f[<<p, m + n>>] = f[<<f[<<p, m>>], n>>]
    <2>1. \A j \in Nat : f[<<p, j>>] = p
      BY <1>2, WalkStays
    <2>2. m + n \in Nat
      OBVIOUS
    <2>3. QED  BY <2>1, <2>2, Zenon
  <1>3. 0 \in A
    <2>1. \A p \in L - 0..L : p \in 0..L /\ p = L
      BY <1>1
    <2>2. QED  BY <1>2, <2>1
  <1>4. ASSUME NEW k \in A
        PROVE  k + 1 \in A
    <2>1. SUFFICES ASSUME k + 1 <= L, NEW p \in L - (k + 1)..L, NEW m \in Nat, NEW n \in Nat
                   PROVE  f[<<p, m + n>>] = f[<<f[<<p, m>>], n>>]
      OBVIOUS
    <2>2. p \in 0..L
      BY <1>1, <2>1
    <2>3. \A q \in 0..L, i, j \in Nat :
             q >= L - k => f[<<q, i + j>>] = f[<<f[<<q, i>>], j>>]
      <3>1. k <= L
        BY <1>1, <2>1
      <3>2. \A q \in L - k..L, i, j \in Nat : f[<<q, i + j>>] = f[<<f[<<q, i>>], j>>]
        BY <3>1, Zenon
      <3>3. \A q \in 0..L : q >= L - k => q \in L - k..L
        BY <1>1
      <3>4. QED  BY <3>2, <3>3, Zenon
    <2>4. CASE p = L
      BY <1>2, <2>2, <2>4
    <2>5. CASE m = 0
      <3>1. f[<<p, m>>] = p
        BY <2>2, <2>5, WalkStays
      <3>2. m + n = n
        BY <2>5
      <3>3. QED  BY <3>1, <3>2, Zenon
    <2>6. CASE m # 0 /\ p # L
      <3>1. PICK r \in 0..L, c \in Nat : r = nx[p] /\ c = ct[p]
        BY <1>1, <2>2
      <3>2. PICK j \in Nat : j = m - 1
        BY <2>6
      <3>3. PICK v \in 0..L : v = f[<<r, c>>] /\ v >= r
        <4>1. f[<<r, c>>] \in r..L
          <5>1. \A q \in 0..L, i \in Nat : f[<<q, i>>] \in q..L
            BY WalkType
          <5>2. QED  BY <5>1
        <4>2. \A v \in r..L : v \in 0..L /\ v >= r
          BY <1>1
        <4>3. QED  BY <4>1, <4>2
      <3>4. v >= L - k
        <4>1. r > p
          BY <1>1, <2>2, <2>6, <3>1
        <4>2. v >= r
          BY <3>3
        <4>3. QED  BY <1>1, <2>1, <4>1, <4>2
      <3>5. f[<<p, m>>] = f[<<v, j>>]
        BY <2>2, <2>6, <3>1, <3>2, <3>3, WalkIs
      <3>6. f[<<p, m + n>>] = f[<<v, j + n>>]
        <4>1. PICK i \in Nat : i = m + n
          OBVIOUS
        <4>2. i # 0 /\ i - 1 = j + n
          BY <2>6, <3>2, <4>1
        <4>3. f[<<p, i>>] = f[<<f[<<nx[p], ct[p]>>], i - 1>>]
          BY <2>2, <2>6, <4>2, WalkIs
        <4>4. QED  BY <3>1, <3>3, <4>1, <4>2, <4>3
      <3>7. f[<<v, j + n>>] = f[<<f[<<v, j>>], n>>]
        BY <2>3, <3>4
      <3>8. QED  BY <3>5, <3>6, <3>7, Zenon
    <2>7. QED  BY <2>4, <2>5, <2>6
  <1>5. L \in A
    <2>1. A \in SUBSET Nat
      OBVIOUS
    <2> HIDE DEF A
    <2>2. A = Nat
      BY <1>3, <1>4, <2>1, NumberByNumber
    <2>3. QED  BY <1>1, <2>2
  <1>6. L - L = 0 /\ L <= L
    BY <1>1
  <1>7. QED  BY <1>5, <1>6

\* A value that begins others leaves them to be skipped instead.
LEMMA WalkStep ==
  ASSUME NEW L, NEW nx, NEW ct, NEW f, Moves(L, nx, ct), Walks(f, L, nx, ct),
         NEW p \in 0..L, p # L, NEW n \in Nat, n # 0
  PROVE  f[<<p, n>>] = f[<<nx[p], n - 1 + ct[p]>>]
  <1>1. nx[p] \in 0..L /\ ct[p] \in Nat
    BY DEF Moves
  <1>2. PICK r \in 0..L, c \in Nat, j \in Nat : r = nx[p] /\ c = ct[p] /\ j = n - 1
    BY <1>1
  <1>3. f[<<p, n>>] = f[<<f[<<r, c>>], j>>]
    BY <1>2, WalkIs
  <1>4. f[<<r, c + j>>] = f[<<f[<<r, c>>], j>>]
    BY WalkOn
  <1>5. c + j = n - 1 + ct[p]
    BY <1>2
  <1>6. QED  BY <1>2, <1>3, <1>4, <1>5

Leads(s, p) == ReadAs(Kind(Peek(s, p)), s, p)[2]
Begins(s, p) == IF Kind(Peek(s, p)) = "array" THEN ReadAs("array", s, p)[1][1] ELSE 0

LeadsOf(s) == [p \in 0..Len(s) |-> Leads(s, p)]
BeginsOf(s) == [p \in 0..Len(s) |-> Begins(s, p)]

LEMMA BytesMove ==
  ASSUME NEW s \in Seq(UInt8)
  PROVE  Moves(Len(s), LeadsOf(s), BeginsOf(s))
  <1>1. ASSUME NEW p \in 0..Len(s)
        PROVE  Leads(s, p) \in 0..Len(s) /\ (p < Len(s) => Leads(s, p) > p)
    <2>1. PICK k \in Kinds : k = Kind(Peek(s, p)) /\ k # "nil"
      BY KindType
    <2>2. Stop(s, p, ReadAs(k, s, p)[2])
      BY <2>1, ReadAsStops
    <2>3. PICK q : q = ReadAs(k, s, p)[2]
      OBVIOUS
    <2>4. q \in 0..Len(s) /\ (p < Len(s) => q > p)
      BY <2>2, <2>3 DEF Stop
    <2>5. Leads(s, p) = q
      BY <2>1, <2>3 DEF Leads
    <2>6. QED  BY <2>4, <2>5
  <1>2. ASSUME NEW p \in 0..Len(s)
        PROVE  Begins(s, p) \in Nat
    <2>1. ReadAs("array", s, p)[1][1] \in Nat
      BY ReadAsIs, ReadArrayStops
    <2>2. QED  BY <2>1 DEF Begins
  <1>3. Len(s) \in Nat
    OBVIOUS
  <1>4. QED  BY <1>1, <1>2, <1>3 DEF Moves, LeadsOf, BeginsOf

LEMMA SkipIs ==
  ASSUME NEW s \in Seq(UInt8)
  PROVE  Walks(Skip(s), Len(s), LeadsOf(s), BeginsOf(s))
  <1> DEFINE L == Len(s)
             nx == LeadsOf(s)
             ct == BeginsOf(s)
             D == (0..L) \X Nat
             Skipped(f, x) ==
               LET kind == Kind(Peek(s, x[1]))
                   r == ReadAs(kind, s, x[1])
               IN  IF x[2] = 0 \/ x[1] = L THEN x[1]
                   ELSE IF kind # "array" THEN f[<<r[2], x[2] - 1>>]
                   ELSE f[<<f[<<r[2], r[1][1]>>], x[2] - 1>>]
             Walked(f, x) == IF x[2] = 0 \/ x[1] = L THEN x[1]
                             ELSE f[<<f[<<nx[x[1]], ct[x[1]]>>], x[2] - 1>>]
             Skips(f) == f = [x \in D |-> Skipped(f, x)]
  <1>1. Skip(s) = CHOOSE f : Skips(f)
    BY Zenon DEF Skip
  <1>2. \A f : Walks(f, L, nx, ct) <=> f = [x \in D |-> Walked(f, x)]
    BY Zenon DEF Walks
  <1>3. Moves(L, nx, ct)
    BY BytesMove
  <1>4. ASSUME NEW f, \A p \in 0..L : f[<<p, 0>>] = p, NEW x \in D
        PROVE  Skipped(f, x) = Walked(f, x)
    <2>1. PICK p \in 0..L, n \in Nat : x = <<p, n>>
      OBVIOUS
    <2>2. x[1] = p /\ x[2] = n
      BY <2>1
    <2> DEFINE k == Kind(Peek(s, p))
               r == ReadAs(k, s, p)
    <2>3. nx[p] = r[2] /\ ct[p] = IF k = "array" THEN ReadAs("array", s, p)[1][1] ELSE 0
      BY DEF LeadsOf, BeginsOf, Leads, Begins
    <2>4. r[2] \in 0..L
      BY <1>3, <2>3 DEF Moves
    <2>5. Skipped(f, x) = IF n = 0 \/ p = L THEN p
                          ELSE IF k # "array" THEN f[<<r[2], n - 1>>]
                          ELSE f[<<f[<<r[2], r[1][1]>>], n - 1>>]
      BY <2>2, Zenon
    <2>6. Walked(f, x) = IF n = 0 \/ p = L THEN p ELSE f[<<f[<<nx[p], ct[p]>>], n - 1>>]
      BY <2>2, Zenon
    <2>7. CASE k = "array"
      <3>1. ct[p] = r[1][1]
        BY <2>3, <2>7
      <3> HIDE DEF r, nx, ct, Skipped, Walked, k
      <3>2. QED  BY <2>3, <2>5, <2>6, <2>7, <3>1, Zenon
    <2>8. CASE k # "array"
      <3>1. ct[p] = 0
        BY <2>3, <2>8
      <3>2. f[<<r[2], 0>>] = r[2]
        BY <1>4, <2>4
      <3> HIDE DEF r, nx, ct, Skipped, Walked, k
      <3>3. f[<<nx[p], ct[p]>>] = r[2]
        BY <2>3, <3>1, <3>2, Zenon
      <3>4. QED  BY <2>5, <2>6, <2>8, <3>3, Zenon
    <2>9. QED  BY <2>7, <2>8
  <1>5. ASSUME NEW f, \A p \in 0..L : f[<<p, 0>>] = p
        PROVE  Skips(f) <=> Walks(f, L, nx, ct)
    <2>1. \A x \in D : Skipped(f, x) = Walked(f, x)
      BY <1>4, <1>5
    <2> HIDE DEF Skipped, Walked, D
    <2>2. [x \in D |-> Skipped(f, x)] = [x \in D |-> Walked(f, x)]
      BY <2>1
    <2>3. QED  BY <1>2, <2>2, Zenon
  <1>6. \E f : Skips(f)
    <2>1. PICK f : Walks(f, L, nx, ct)
      BY <1>3, WalkExists
    <2>2. \A p \in 0..L : f[<<p, 0>>] = p
      <3> HIDE DEF nx, ct, L
      <3>1. \A g : Walks(g, L, nx, ct) =>
               (\A p \in 0..L : g[<<p, 0>>] = p) /\ (\A n \in Nat : g[<<L, n>>] = L)
        BY <1>3, WalkStays
      <3>2. QED  BY <2>1, <3>1, Zenon
    <2> HIDE DEF Skips, nx, ct, L
    <2>3. QED  BY <1>5, <2>1, <2>2
  <1> DEFINE f == Skip(s)
  <1>7. Skips(f)
    <2> HIDE DEF Skips
    <2>1. QED  BY <1>1, <1>6
  <1> HIDE DEF f
  <1>8. ASSUME NEW p \in 0..L
        PROVE  f[<<p, 0>>] = p
    <2>1. PICK x : x = <<p, 0>>
      OBVIOUS
    <2>2. x \in D /\ x[1] = p /\ x[2] = 0
      BY <2>1
    <2> HIDE DEF D
    <2>3. f[x] = Skipped(f, x)
      <3> HIDE DEF Skipped
      <3>1. QED  BY <1>7, <2>2, Zenon
    <2>4. Skipped(f, x) = x[1]
      BY <2>2, Zenon
    <2>5. QED  BY <2>1, <2>2, <2>3, <2>4
  <1>9. Walks(f, L, nx, ct)
    <2> HIDE DEF Skips, nx, ct, L
    <2>1. QED  BY <1>5, <1>7, <1>8
  <1>10. QED  BY <1>9 DEF f

-----------------------------------------------------------------------------
(* A writer and its calls.                                                     *)

LEMMA PackType ==
  ASSUME NEW c, IsCall(c)
  PROVE  Pack(c) \in Seq(UInt8) /\ Pack(c) # <<>>
  <1>1. CASE c = <<"nil", <<1>>>>
    <2>1. Pack(c) = <<192>>
      BY <1>1 DEF Pack
    <2>2. 192 \in UInt8
      BY DEF UInt8
    <2>3. QED  BY <2>1, <2>2
  <1>2. CASE c \in {"bool"} \X {<<0>>, <<1>>}
    <2>1. PICK v \in {0, 1} : c = <<"bool", <<v>>>>
      BY <1>2
    <2>2. Pack(c) = <<194 + v>>
      BY <2>1 DEF Pack
    <2>3. 194 + v \in UInt8
      BY DEF UInt8
    <2>4. QED  BY <2>2, <2>3
  <1>3. CASE c \in {"int", "float"} \X [1..8 -> UInt8]
    <2>1. PICK w \in [1..8 -> UInt8] : c = <<"int", w>> \/ c = <<"float", w>>
      BY <1>3
    <2>2. CASE c = <<"int", w>>
      <3>1. Pack(c) = PackInt(w)
        BY <2>2 DEF Pack
      <3>2. PackInt(w) \in Seq(UInt8) /\ PackInt(w) # <<>>
        <4>1. CASE PackInt(w) = <<w[8]>>
          <5>1. w[8] \in UInt8
            OBVIOUS
          <5>2. QED  BY <4>1, <5>1
        <4>2. ASSUME NEW b, NEW n \in 1..8, Headed(PackInt(w), b, w, n)
              PROVE  PackInt(w) \in Seq(UInt8) /\ PackInt(w) # <<>>
          <5>1. PackInt(w) \in Seq(UInt8) /\ Len(PackInt(w)) = n + 1
            BY <4>2 DEF Headed
          <5>2. n + 1 # 0
            OBVIOUS
          <5>3. QED  BY <5>1, <5>2
        <4>3. \/ PackInt(w) = <<w[8]>>
              \/ Headed(PackInt(w), 204, w, 1) \/ Headed(PackInt(w), 205, w, 2)
              \/ Headed(PackInt(w), 206, w, 4) \/ Headed(PackInt(w), 208, w, 1)
              \/ Headed(PackInt(w), 211, w, 8)
          BY PackIntIs, Zenon
        <4>4. 1 \in 1..8 /\ 2 \in 1..8 /\ 4 \in 1..8 /\ 8 \in 1..8
          OBVIOUS
        <4>5. QED  BY <4>1, <4>2, <4>3, <4>4, Zenon
      <3>3. QED  BY <3>1, <3>2
    <2>3. CASE c = <<"float", w>>
      <3>1. Pack(c) = <<203>> \o w
        BY <2>3 DEF Pack
      <3>2. Headed(Pack(c), 203, w, 8)
        BY <3>1, FloatIs
      <3>3. Pack(c) \in Seq(UInt8) /\ Len(Pack(c)) = 8 + 1
        BY <3>2 DEF Headed
      <3>4. QED  BY <3>3
    <2>4. QED  BY <2>1, <2>2, <2>3
  <1>4. CASE c \in {"bin"} \X Seq(UInt8) /\ Len(c[2]) <= Most
    <2>1. PICK d \in Seq(UInt8) : c = <<"bin", d>>
      BY <1>4, SMT
    <2>2. Pack(c) = PackBin(d)
      BY <2>1, SMT DEF Pack
    <2>3. Len(d) <= Most
      BY <1>4, <2>1, SMT
    <2>4. PICK b, w : Binary(PackBin(d), d, b, w)
      BY <2>3, PackBinIs
    <2>5. PackBin(d) \in Seq(UInt8) /\ Len(PackBin(d)) >= w + 1 /\ w \in 1..4
      BY <2>4 DEF Binary, Counted
    <2>6. QED  BY <2>2, <2>5
  <1>5. CASE c \in {"array"} \X Seq(Nat) /\ Len(c[2]) = 1 /\ c[2][1] <= Most
    <2>1. PICK a \in Seq(Nat) : c = <<"array", a>>
      BY <1>5, SMT
    <2>2. PICK n \in Nat : n = a[1] /\ n <= Most
      <3>1. Len(a) = 1 /\ a[1] <= Most
        BY <1>5, <2>1, SMT
      <3>2. 1 \in 1..Len(a)
        BY <3>1
      <3>3. a[1] \in Nat
        BY <3>2, ElementOfSeq
      <3>4. QED  BY <3>1, <3>3, Zenon
    <2>3. PICK t : t = PackArrayHeader(n)
      OBVIOUS
    <2>4. Pack(c) = t
      BY <2>1, <2>2, <2>3, SMT DEF Pack
    <2>5. n <= Most
      BY <2>2
    <2>6. CASE t = <<144 + n>> /\ n \in 0..15
      <3>1. 144 + n \in UInt8
        BY <2>6 DEF UInt8
      <3>2. QED  BY <2>4, <2>6, <3>1
    <2>7. CASE Counted(t, 220, 2, n) \/ Counted(t, 221, 4, n)
      <3>1. t \in Seq(UInt8) /\ Len(t) >= 3
        BY <2>7 DEF Counted
      <3>2. QED  BY <2>4, <3>1
    <2>8. \/ n \in 0..15 /\ t = <<144 + n>>
          \/ Counted(t, 220, 2, n) /\ Len(t) = 2 + 1
          \/ Counted(t, 221, 4, n) /\ Len(t) = 4 + 1
      BY <2>3, <2>5, PackArrayIs
    <2>9. QED  BY <2>6, <2>7, <2>8, Zenon
  <1>6. QED  BY <1>1, <1>2, <1>3, <1>4, <1>5 DEF IsCall

LEMMA EndsIs ==
  ASSUME NEW cs \in Seq(PackCalls)
  PROVE  /\ Ends(cs) \in [0..Len(cs) -> Nat] /\ Ends(cs)[0] = 0
         /\ \A k \in 1..Len(cs) : Ends(cs)[k] = Ends(cs)[k - 1] + Len(Pack(cs[k]))
  <1> DEFINE N == Len(cs)
             End(f) == f = [k \in 0..N |-> IF k = 0 THEN 0 ELSE f[k - 1] + Len(Pack(cs[k]))]
             step == [i \in 1..N |-> [x \in Nat |-> x + Len(Pack(cs[i]))]]
  <1>1. N \in Nat /\ \A i \in 1..N : Len(Pack(cs[i])) \in Nat
    <2>1. \A i \in 1..N : cs[i] \in PackCalls
      BY ElementOfSeq
    <2>2. \A i \in 1..N : Pack(cs[i]) \in Seq(UInt8)
      BY <2>1, PackType, MsgPackAssumption
    <2>3. QED  BY <2>2
  <1>2. step \in [1..N -> [Nat -> Nat]]
    <2> HIDE DEF N
    <2>1. ASSUME NEW i \in 1..N, NEW x \in Nat
          PROVE  x + Len(Pack(cs[i])) \in Nat
      <3>1. PICK d \in Nat : d = Len(Pack(cs[i]))
        BY <1>1
      <3>2. QED  BY <3>1
    <2>2. QED  BY <2>1
  <1>3. PICK f : Steps(f, Nat, 0, N, step)
    <2> HIDE DEF step, N
    <2>1. QED  BY <1>1, <1>2, StepsExist
  <1>4. /\ f \in [0..N -> Nat] /\ f[0] = 0
        /\ \A i \in 1..N : f[i] = f[i - 1] + Len(Pack(cs[i]))
    <2>1. f \in [0..N -> Nat] /\ f[0] = 0 /\ \A i \in 1..N : f[i] = step[i][f[i - 1]]
      BY <1>3 DEF Steps
    <2>2. \A i \in 1..N : i - 1 \in 0..N
      BY <1>1
    <2>3. \A i \in 1..N : f[i - 1] \in Nat
      BY <2>1, <2>2
    <2>4. QED  BY <2>1, <2>3
  <1>5. End(f)
    <2> HIDE DEF N
    <2>1. \A i \in 0..N : f[i] = IF i = 0 THEN 0 ELSE f[i - 1] + Len(Pack(cs[i]))
      BY <1>1, <1>4
    <2>2. f = [i \in 0..N |-> f[i]]
      BY <1>4
    <2>3. QED  BY <2>1, <2>2
  <1> DEFINE v == CHOOSE g : End(g)
  <1>6. End(v)
    BY <1>5
  <1>7. Ends(cs) = v
    BY Zenon DEF Ends
  <1> HIDE DEF v
  <1>8. v = f
    <2> HIDE DEF N
    <2>1. /\ v[0] = 0 /\ \A i \in 1..N : v[i] = v[i - 1] + Len(Pack(cs[i]))
      BY <1>1, <1>6
    <2> DEFINE A == {k \in Nat : k <= N => v[k] = f[k]}
    <2>2. 0 \in A
      BY <1>4, <2>1
    <2>3. ASSUME NEW k \in A
          PROVE  k + 1 \in A
      <3>1. SUFFICES ASSUME k + 1 <= N PROVE v[k + 1] = f[k + 1]
        OBVIOUS
      <3>2. k + 1 \in 1..N /\ k + 1 - 1 = k /\ v[k] = f[k]
        BY <1>1, <3>1
      <3>3. /\ v[k + 1] = v[k] + Len(Pack(cs[k + 1]))
            /\ f[k + 1] = f[k] + Len(Pack(cs[k + 1]))
        BY <1>4, <2>1, <3>2
      <3>4. QED  BY <3>2, <3>3
    <2>4. A = Nat
      <3>1. A \in SUBSET Nat
        OBVIOUS
      <3> HIDE DEF A
      <3>2. QED  BY <2>2, <2>3, <3>1, NumberByNumber
    <2>5. \A k \in 0..N : v[k] = f[k]
      BY <1>1, <2>4
    <2>6. v = [i \in 0..N |-> v[i]] /\ f = [i \in 0..N |-> f[i]]
      BY <1>4, <1>6
    <2>7. QED  BY <2>5, <2>6
  <1>9. QED  BY <1>4, <1>7, <1>8

LEMMA EndsAppend ==
  ASSUME NEW cs \in Seq(PackCalls), NEW c \in PackCalls
  PROVE  /\ \A k \in 0..Len(cs) : Ends(Append(cs, c))[k] = Ends(cs)[k]
         /\ Ends(Append(cs, c))[Len(cs) + 1] = Ends(cs)[Len(cs)] + Len(Pack(c))
  <1> DEFINE N == Len(cs)
             ds == Append(cs, c)
             e == Ends(cs)
             f == Ends(ds)
  <1>1. ds \in Seq(PackCalls) /\ Len(ds) = N + 1 /\ N \in Nat /\ ds[N + 1] = c
        /\ \A k \in 1..N : ds[k] = cs[k]
    OBVIOUS
  <1>2. e[0] = 0 /\ \A k \in 1..N : e[k] = e[k - 1] + Len(Pack(cs[k]))
    BY EndsIs
  <1>3. f[0] = 0 /\ \A k \in 1..N + 1 : f[k] = f[k - 1] + Len(Pack(ds[k]))
    <2> HIDE DEF ds, N
    <2>1. QED  BY <1>1, EndsIs
  <1> HIDE DEF N, ds, e, f
  <1> DEFINE A == {k \in Nat : k <= N => f[k] = e[k]}
  <1>4. 0 \in A
    BY <1>2, <1>3
  <1>5. ASSUME NEW k \in A
        PROVE  k + 1 \in A
    <2>1. SUFFICES ASSUME k + 1 <= N PROVE f[k + 1] = e[k + 1]
      OBVIOUS
    <2>2. k + 1 \in 1..N /\ k + 1 \in 1..N + 1 /\ k + 1 - 1 = k /\ f[k] = e[k]
      BY <1>1, <2>1
    <2>3. /\ f[k + 1] = f[k] + Len(Pack(ds[k + 1]))
          /\ e[k + 1] = e[k] + Len(Pack(cs[k + 1]))
      BY <1>2, <1>3, <2>2
    <2>4. ds[k + 1] = cs[k + 1]
      BY <1>1, <2>2
    <2>5. QED  BY <2>2, <2>3, <2>4, Zenon
  <1>6. A = Nat
    <2>1. A \in SUBSET Nat
      OBVIOUS
    <2> HIDE DEF A
    <2>2. QED  BY <1>4, <1>5, <2>1, NumberByNumber
  <1>7. \A k \in 0..N : f[k] = e[k]
    BY <1>1, <1>6
  <1>8. f[N + 1] = e[N] + Len(Pack(c))
    <2>1. N + 1 \in 1..N + 1 /\ N + 1 - 1 = N /\ N \in 0..N
      BY <1>1
    <2>2. f[N + 1] = f[N] + Len(Pack(ds[N + 1]))
      BY <1>3, <2>1
    <2>3. QED  BY <1>1, <1>7, <2>1, <2>2, Zenon
  <1>9. QED  BY <1>7, <1>8 DEF N, ds, e, f

\* The calls fill the buffer, one after the other.
Laid(cs, s) ==
  /\ cs \in Seq(PackCalls) /\ s \in Seq(UInt8)
  /\ Len(s) = Ends(cs)[Len(cs)]
  /\ \A k \in 1..Len(cs) : Stands(s, Pack(cs[k]), Ends(cs)[k - 1])

LEMMA LaidOn ==
  ASSUME NEW cs, NEW s, Laid(cs, s), NEW c \in PackCalls
  PROVE  Laid(Append(cs, c), s \o Pack(c))
  <1> DEFINE N == Len(cs)
             ds == Append(cs, c)
             t == Pack(c)
             u == s \o t
             e == Ends(cs)
             f == Ends(ds)
  <1>1. /\ cs \in Seq(PackCalls) /\ s \in Seq(UInt8) /\ Len(s) = e[N]
        /\ \A k \in 1..N : Stands(s, Pack(cs[k]), e[k - 1])
    BY DEF Laid
  <1>2. ds \in Seq(PackCalls) /\ Len(ds) = N + 1 /\ N \in Nat /\ ds[N + 1] = c
        /\ \A k \in 1..N : ds[k] = cs[k]
    BY <1>1
  <1>3. t \in Seq(UInt8)
    BY PackType, MsgPackAssumption
  <1>4. (\A k \in 0..N : f[k] = e[k]) /\ f[N + 1] = e[N] + Len(t)
    BY <1>1, EndsAppend
  <1>5. e[0] = 0 /\ e \in [0..N -> Nat]
    BY <1>1, EndsIs
  <1> HIDE DEF N, ds, t, e, f
  <1>6. u \in Seq(UInt8) /\ Len(u) = Len(s) + Len(t)
    <2>1. s \in Seq(UInt8) /\ t \in Seq(UInt8)
      BY <1>1, <1>3
    <2>2. QED  BY <2>1, ConcatProperties
  <1>7. /\ \A i \in 1..Len(s) : u[i] = s[i]
        /\ \A i \in 1..Len(t) : u[Len(s) + i] = t[i]
    BY <1>1, <1>3
  <1> HIDE DEF u
  <1>8. ASSUME NEW k \in 1..N
        PROVE  Stands(u, Pack(ds[k]), f[k - 1])
    <2>1. PICK p \in Nat : p = e[k - 1]
      <3>1. k - 1 \in 0..N
        BY <1>2
      <3>2. QED  BY <1>5, <3>1
    <2>2. Stands(s, Pack(cs[k]), p)
      BY <1>1, <2>1
    <2>3. Pack(cs[k]) \in Seq(UInt8)
      <3>1. cs[k] \in PackCalls
        BY <1>1, ElementOfSeq DEF N
      <3>2. QED  BY <3>1, PackType, MsgPackAssumption
    <2>4. f[k - 1] = p /\ ds[k] = cs[k]
      <3>1. k - 1 \in 0..N
        BY <1>2
      <3>2. QED  BY <1>2, <1>4, <2>1, <3>1
    <2>5. PICK v : v = Pack(cs[k])
      OBVIOUS
    <2>6. v \in Seq(UInt8) /\ p + Len(v) <= Len(s) /\ \A i \in 1..Len(v) : s[p + i] = v[i]
      BY <2>2, <2>3, <2>5 DEF Stands
    <2>7. p + Len(v) <= Len(u)
      BY <1>1, <1>3, <1>6, <2>6
    <2>8. ASSUME NEW i \in 1..Len(v)
          PROVE  u[p + i] = v[i]
      <3>1. p + i \in 1..Len(s)
        BY <1>1, <2>6
      <3>2. QED  BY <1>7, <2>6, <3>1
    <2>9. Stands(u, v, p)
      BY <2>7, <2>8 DEF Stands
    <2>10. QED  BY <2>4, <2>5, <2>9
  <1>9. Stands(u, Pack(ds[N + 1]), f[(N + 1) - 1])
    <2>1. (N + 1) - 1 = N /\ N \in 0..N
      BY <1>2
    <2>2. f[(N + 1) - 1] = Len(s)
      BY <1>1, <1>4, <2>1
    <2>3. Stands(u, t, Len(s))
      BY <1>6, <1>7 DEF Stands
    <2>4. Pack(ds[N + 1]) = t
      BY <1>2 DEF t
    <2>5. QED  BY <2>2, <2>3, <2>4
  <1>10. \A k \in 1..N + 1 : k \in 1..N \/ k = N + 1
    BY <1>2
  <1>11. \A k \in 1..N + 1 : Stands(u, Pack(ds[k]), f[k - 1])
    BY <1>8, <1>9, <1>10, Zenon
  <1>12. Len(u) = f[N + 1]
    BY <1>1, <1>4, <1>6
  <1>13. Laid(ds, u)
    BY <1>2, <1>6, <1>11, <1>12 DEF Laid, f
  <1>14. QED  BY <1>13 DEF ds, u, t

Held(c) == IF c[1] = "array" THEN c[2][1] ELSE 0

LEMMA HeldType ==
  ASSUME NEW c, IsCall(c)
  PROVE  Held(c) \in Nat
  <1>1. CASE c[1] = "array"
    <2>1. c \in {"array"} \X Seq(Nat) /\ Len(c[2]) = 1
      BY <1>1, SMT DEF IsCall
    <2>2. PICK a \in Seq(Nat) : c[2] = a /\ Len(a) = 1
      BY <2>1
    <2>3. a[1] \in Nat
      <3>1. 1 \in 1..Len(a)
        BY <2>2
      <3>2. QED  BY <3>1, ElementOfSeq
    <2>4. QED  BY <1>1, <2>2, <2>3 DEF Held
  <1>2. CASE c[1] # "array"
    BY <1>2 DEF Held
  <1>3. QED  BY <1>1, <1>2

\* The k-th call: where it begins, what a read and a skip make of it.
LEMMA LaidIs ==
  ASSUME NEW cs, NEW s, Laid(cs, s), NEW k \in 1..Len(cs), NEW p, p = Ends(cs)[k - 1]
  PROVE  /\ p \in 0..Len(s) /\ p # Len(s) /\ Ends(cs)[k] \in 0..Len(s)
         /\ ReadAs(cs[k][1], s, p) = <<cs[k][2], Ends(cs)[k]>>
         /\ LeadsOf(s)[p] = Ends(cs)[k] /\ BeginsOf(s)[p] = Held(cs[k])
  <1>1. /\ cs \in Seq(PackCalls) /\ s \in Seq(UInt8)
        /\ Stands(s, Pack(cs[k]), p)
    BY DEF Laid
  <1>2. PICK c : c = cs[k]
    OBVIOUS
  <1>3. IsCall(c)
    <2>1. c \in PackCalls
      BY <1>1, <1>2, ElementOfSeq
    <2>2. QED  BY <2>1, MsgPackAssumption
  <1>4. PICK t : t = Pack(c)
    OBVIOUS
  <1>5. t \in Seq(UInt8) /\ t # <<>>
    BY <1>3, <1>4, PackType
  <1>6. p \in Nat /\ Ends(cs)[k] = p + Len(t)
    <2>1. /\ Ends(cs) \in [0..Len(cs) -> Nat]
          /\ Ends(cs)[k] = Ends(cs)[k - 1] + Len(Pack(cs[k]))
      BY <1>1, EndsIs
    <2>2. k - 1 \in 0..Len(cs)
      BY <1>1
    <2>3. Ends(cs)[k - 1] \in Nat
      BY <2>1, <2>2
    <2>4. QED  BY <1>2, <1>4, <2>1, <2>3
  <1>7. p + Len(t) <= Len(s) /\ Len(t) \in Nat \ {0}
    BY <1>1, <1>2, <1>4, <1>5 DEF Stands
  <1>8. p \in 0..Len(s) /\ p # Len(s) /\ p + Len(t) \in 0..Len(s)
    <2>1. p \in Nat
      BY <1>6
    <2>2. QED  BY <1>1, <1>7, <2>1
  <1>9. Taken(s, p, c, t)
    <2>1. Stands(s, Pack(c), p)
      BY <1>1, <1>2
    <2>2. Taken(s, p, c, Pack(c))
      BY <1>1, <1>3, <1>8, <2>1, TakesCall
    <2>3. QED  BY <1>4, <2>2
  <1>10. /\ ReadAs(c[1], s, p) = <<c[2], p + Len(t)>>
         /\ (Kind(Peek(s, p)) = "array" <=> c[1] = "array")
         /\ ReadAs(Kind(Peek(s, p)), s, p)[2] = p + Len(t)
         /\ (c[1] = "array" => ReadAs(Kind(Peek(s, p)), s, p)[1] = c[2])
    BY <1>9, Zenon DEF Taken
  <1>11. LeadsOf(s)[p] = p + Len(t)
    BY <1>8, <1>10 DEF LeadsOf, Leads
  <1>12. BeginsOf(s)[p] = Held(c)
    <2>1. BeginsOf(s)[p] = Begins(s, p)
      BY <1>8 DEF BeginsOf
    <2>2. Begins(s, p) = Held(c)
      BY <1>10, Zenon DEF Begins, Held
    <2>3. QED  BY <2>1, <2>2
  <1>13. QED  BY <1>2, <1>6, <1>8, <1>10, <1>11, <1>12

LEMMA OpenIs ==
  ASSUME calls \in Seq(PackCalls), NEW i \in 1..Len(calls)
  PROVE  /\ Open(i)[i - 1] = 1
         /\ \A k \in i..Len(calls) : Open(i)[k] = Open(i)[k - 1] - 1 + Held(calls[k])
  <1> DEFINE N == Len(calls)
             M == N - (i - 1)
             Opens(f) == f = [k \in i - 1..N |->
                                IF k < i THEN 1
                                ELSE f[k - 1] - 1 +
                                     (IF calls[k][1] = "array" THEN calls[k][2][1] ELSE 0)]
             step == [j \in 1..M |-> [x \in Int |-> x - 1 + Held(calls[i - 1 + j])]]
  <1>1. N \in Nat /\ M \in Nat /\ \A k \in 1..N : Held(calls[k]) \in Nat
    <2>1. \A k \in 1..N : calls[k] \in PackCalls
      BY ElementOfSeq
    <2>2. \A k \in 1..N : Held(calls[k]) \in Nat
      BY <2>1, HeldType, MsgPackAssumption
    <2>3. QED  BY <2>2
  <1>2. \A j \in 1..M : i - 1 + j \in 1..N
    BY <1>1
  <1>3. step \in [1..M -> [Int -> Int]]
    <2> HIDE DEF M, N
    <2>1. ASSUME NEW j \in 1..M, NEW x \in Int
          PROVE  x - 1 + Held(calls[i - 1 + j]) \in Int
      <3>1. PICK d \in Nat : d = Held(calls[i - 1 + j])
        BY <1>1, <1>2
      <3>2. QED  BY <3>1
    <2>2. QED  BY <2>1
  <1>4. PICK g : Steps(g, Int, 1, M, step)
    <2> HIDE DEF step, M, N
    <2>1. 1 \in Int
      OBVIOUS
    <2>2. QED  BY <1>1, <1>3, <2>1, StepsExist
  <1>5. /\ g \in [0..M -> Int] /\ g[0] = 1
        /\ \A j \in 1..M : g[j] = g[j - 1] - 1 + Held(calls[i - 1 + j])
    <2>1. g \in [0..M -> Int] /\ g[0] = 1 /\ \A j \in 1..M : g[j] = step[j][g[j - 1]]
      BY <1>4 DEF Steps
    <2>2. \A j \in 1..M : j - 1 \in 0..M
      BY <1>1
    <2>3. \A j \in 1..M : g[j - 1] \in Int
      BY <2>1, <2>2
    <2>4. QED  BY <2>1, <2>3
  <1> HIDE DEF step
  <1> DEFINE f == [k \in i - 1..N |-> g[k - (i - 1)]]
  <1>6. Opens(f)
    <2>1. ASSUME NEW k \in i - 1..N
          PROVE  f[k] = IF k < i THEN 1
                        ELSE f[k - 1] - 1 +
                             (IF calls[k][1] = "array" THEN calls[k][2][1] ELSE 0)
      <3>1. CASE k < i
        <4>1. k - (i - 1) = 0
          BY <3>1
        <4>2. f[k] = g[k - (i - 1)]
          OBVIOUS
        <4>3. QED  BY <1>5, <3>1, <4>1, <4>2
      <3>2. CASE ~(k < i)
        <4>1. PICK j \in 1..M : j = k - (i - 1)
          BY <1>1, <3>2
        <4>2. k - 1 \in i - 1..N /\ (k - 1) - (i - 1) = j - 1 /\ i - 1 + j = k
          BY <1>1, <3>2, <4>1
        <4>3. f[k] = g[j] /\ f[k - 1] = g[j - 1]
          BY <4>1, <4>2
        <4>4. g[j] = g[j - 1] - 1 + Held(calls[k])
          BY <1>5, <4>2
        <4> HIDE DEF f, M, N
        <4>5. QED  BY <3>2, <4>3, <4>4, Zenon DEF Held
      <3>3. QED  BY <3>1, <3>2
    <2>2. f = [k \in i - 1..N |-> f[k]]
      OBVIOUS
    <2> HIDE DEF f, N
    <2>3. QED  BY <2>1, <2>2, Zenon
  <1> DEFINE v == CHOOSE o : Opens(o)
  <1>7. Opens(v)
    <2> HIDE DEF Opens
    <2>1. QED  BY <1>6
  <1>8. Open(i) = v
    BY Zenon DEF Open
  <1> HIDE DEF v, f
  <1>9. v[i - 1] = 1
    <2>1. i - 1 \in i - 1..N /\ i - 1 < i
      BY <1>1
    <2>2. QED  BY <1>7, <2>1
  <1>10. ASSUME NEW k \in i..N
         PROVE  v[k] = v[k - 1] - 1 + Held(calls[k])
    <2>1. k \in i - 1..N /\ ~(k < i)
      BY <1>1
    <2> HIDE DEF N
    <2>2. v[k] = v[k - 1] - 1 + (IF calls[k][1] = "array" THEN calls[k][2][1] ELSE 0)
      BY <1>7, <2>1, Zenon
    <2>3. QED  BY <2>2, Zenon DEF Held
  <1>11. QED  BY <1>8, <1>9, <1>10

\* Skipping from the i-th call on: as long as the value is not closed, it is to
\* skip as many values as are open from the next call on.
LEMMA SkipsOpen ==
  ASSUME Laid(calls, out), NEW i \in 1..Len(calls)
  PROVE  \A k \in i - 1..Len(calls) :
           (\A j \in i..k - 1 : Open(i)[j] # 0) =>
             /\ Open(i)[k] \in Nat
             /\ Skip(out)[<<Ends(calls)[i - 1], 1>>] = Skip(out)[<<Ends(calls)[k], Open(i)[k]>>]
  <1> DEFINE N == Len(calls)
             L == Len(out)
             o == Open(i)
             e == Ends(calls)
             f == Skip(out)
             nx == LeadsOf(out)
             ct == BeginsOf(out)
             M == N - (i - 1)
             Same(k) == (\A j \in i..k - 1 : o[j] # 0) =>
                          o[k] \in Nat /\ f[<<e[i - 1], 1>>] = f[<<e[k], o[k]>>]
  <1>1. calls \in Seq(PackCalls) /\ out \in Seq(UInt8) /\ N \in Nat /\ M \in Nat
    BY DEF Laid
  <1>2. o[i - 1] = 1 /\ \A k \in i..N : o[k] = o[k - 1] - 1 + Held(calls[k])
    BY <1>1, OpenIs
  <1>3. Moves(L, nx, ct) /\ Walks(f, L, nx, ct)
    BY <1>1, BytesMove, SkipIs
  <1>4. \A k \in 1..N : Held(calls[k]) \in Nat
    <2>1. \A k \in 1..N : calls[k] \in PackCalls
      BY <1>1, ElementOfSeq
    <2>2. QED  BY <2>1, HeldType, MsgPackAssumption
  <1>5. \A k \in 1..N : /\ e[k - 1] \in 0..L /\ e[k - 1] # L
                        /\ nx[e[k - 1]] = e[k] /\ ct[e[k - 1]] = Held(calls[k])
    BY LaidIs
  <1> HIDE DEF L, o, e, f, nx, ct
  <1> DEFINE A == {j \in Nat : j <= M => Same(i - 1 + j)}
  <1>6. 0 \in A
    <2>1. i - 1 + 0 = i - 1
      OBVIOUS
    <2>2. Same(i - 1)
      BY <1>2
    <2>3. QED  BY <2>1, <2>2
  <1>7. ASSUME NEW j \in A
        PROVE  j + 1 \in A
    <2>1. SUFFICES ASSUME j + 1 <= M PROVE Same(i - 1 + (j + 1))
      OBVIOUS
    <2>0. j \in Nat /\ j + 1 <= M /\ N \in Nat
      <3> HIDE DEF Same, M, N
      <3>1. QED  BY <1>1, <2>1
    <2>2. PICK k \in 1..N : k = i + j /\ k \in i..N
      <3> HIDE DEF A, N
      <3>1. i + j \in 1..N /\ i + j \in i..N
        BY <2>0
      <3>2. QED  BY <3>1
    <2>3. Same(k - 1)
      <3>1. j \in Nat /\ j <= M /\ i - 1 + j = k - 1
        BY <1>1, <2>1, <2>2
      <3> HIDE DEF Same
      <3>2. QED  BY <3>1
    <2>4. Same(k)
      <3>1. SUFFICES ASSUME \A h \in i..k - 1 : o[h] # 0
                     PROVE  o[k] \in Nat /\ f[<<e[i - 1], 1>>] = f[<<e[k], o[k]>>]
        OBVIOUS
      <3>2. \A h \in i..k - 1 - 1 : h \in i..k - 1
        OBVIOUS
      <3>3. PICK n \in Nat : n = o[k - 1] /\ f[<<e[i - 1], 1>>] = f[<<e[k - 1], n>>]
        BY <2>3, <3>1, <3>2
      <3>4. n # 0
        <4>1. CASE k = i
          BY <1>2, <3>3, <4>1
        <4>2. CASE k # i
          <5>1. k - 1 \in i..k - 1
            BY <2>2, <4>2
          <5>2. QED  BY <3>1, <3>3, <5>1
        <4>3. QED  BY <4>1, <4>2
      <3>5. PICK p \in 0..L, c \in Nat :
               p = e[k - 1] /\ c = ct[e[k - 1]] /\ p # L /\ nx[p] = e[k] /\ c = Held(calls[k])
        BY <1>4, <1>5
      <3>6. f[<<p, n>>] = f[<<nx[p], n - 1 + ct[p]>>]
        <4>1. \A q \in 0..L, m \in Nat :
                 q # L /\ m # 0 => f[<<q, m>>] = f[<<nx[q], m - 1 + ct[q]>>]
          BY <1>3, WalkStep
        <4>2. p # L
          BY <3>5
        <4>3. QED  BY <3>4, <4>1, <4>2
      <3>7. o[k] = n - 1 + c
        BY <1>2, <2>2, <3>3, <3>5
      <3>8. n - 1 + c \in Nat
        BY <3>4
      <3>9. QED  BY <3>3, <3>5, <3>6, <3>7, <3>8
    <2>5. i - 1 + (j + 1) = k
      BY <2>2
    <2> HIDE DEF Same
    <2>6. QED  BY <2>4, <2>5
  <1>8. A = Nat
    <2>1. A \in SUBSET Nat
      OBVIOUS
    <2> HIDE DEF A
    <2>2. QED  BY <1>6, <1>7, <2>1, NumberByNumber
  <1>9. ASSUME NEW k \in i - 1..N
        PROVE  Same(k)
    <2> HIDE DEF Same
    <2>1. PICK j \in Nat : j = k - (i - 1) /\ j <= M /\ i - 1 + j = k
      BY <1>1
    <2>2. j \in A
      BY <1>8
    <2>3. QED  BY <2>1, <2>2
  <1>10. QED  BY <1>9 DEF L, o, e, f, nx, ct

\* A skip stops where the value does, after all its elements, or where the
\* buffer does.
LEMMA SkipsValue ==
  ASSUME Laid(calls, out), NEW i \in 1..Len(calls)
  PROVE  /\ ValueEnd(i) \in i..Len(calls)
         /\ Skip(out)[<<Ends(calls)[i - 1], 1>>] = Ends(calls)[ValueEnd(i)]
  <1> DEFINE N == Len(calls)
             o == Open(i)
             e == Ends(calls)
             f == Skip(out)
             Closed == {k \in i..N : o[k] = 0}
  <1>1. calls \in Seq(PackCalls) /\ out \in Seq(UInt8) /\ N \in Nat /\ Len(out) = e[N]
    BY DEF Laid
  <1>2. \A k \in i - 1..N : (\A j \in i..k - 1 : o[j] # 0) =>
           o[k] \in Nat /\ f[<<e[i - 1], 1>>] = f[<<e[k], o[k]>>]
    BY SkipsOpen
  <1>3. o[i - 1] = 1 /\ \A k \in i..N : o[k] = o[k - 1] - 1 + Held(calls[k])
    BY <1>1, OpenIs
  <1>4. /\ \A p \in 0..Len(out) : f[<<p, 0>>] = p
        /\ \A n \in Nat : f[<<Len(out), n>>] = Len(out)
    <2>1. Moves(Len(out), LeadsOf(out), BeginsOf(out))
      BY <1>1, BytesMove
    <2>2. Walks(f, Len(out), LeadsOf(out), BeginsOf(out))
      BY <1>1, SkipIs
    <2> HIDE DEF f
    <2>3. QED  BY <2>1, <2>2, WalkStays
  <1>5. \A k \in 1..N : e[k] \in 0..Len(out)
    BY LaidIs
  <1>6. ValueEnd(i) = IF Closed = {} THEN N ELSE CHOOSE k \in Closed : \A j \in Closed : k <= j
    BY Zenon DEF ValueEnd
  <1> HIDE DEF N, o, e, f
  <1>7. CASE Closed = {}
    <2>1. ValueEnd(i) = N
      BY <1>6, <1>7
    <2>2. N \in i..N /\ N \in i - 1..N
      BY <1>1 DEF N
    <2>3. \A j \in i..N - 1 : o[j] # 0
      <3>1. \A j \in i..N - 1 : j \in i..N
        BY <1>1
      <3>2. QED  BY <1>7, <3>1
    <2>4. o[N] \in Nat /\ f[<<e[i - 1], 1>>] = f[<<e[N], o[N]>>]
      BY <1>2, <2>2, <2>3, Zenon
    <2>5. f[<<e[N], o[N]>>] = e[N]
      BY <1>1, <1>4, <2>4, Zenon
    <2>6. QED  BY <2>1, <2>2, <2>4, <2>5 DEF N, e, f
  <1>8. CASE Closed # {}
    <2>1. PICK m \in Closed : \A j \in Closed : m <= j
      <3>1. Closed \in SUBSET Nat
        BY <1>1
      <3> HIDE DEF Closed
      <3>2. QED  BY <1>8, <3>1, LeastNumber
    <2> DEFINE l == CHOOSE k \in Closed : \A j \in Closed : k <= j
    <2>2. l \in Closed /\ \A j \in Closed : l <= j
      <3> HIDE DEF Closed
      <3>1. QED  BY <2>1
    <2>3. ValueEnd(i) = l
      BY <1>6, <1>8
    <2> HIDE DEF l
    <2>4. l \in i..N /\ o[l] = 0 /\ l \in i - 1..N /\ l \in 1..N
      BY <1>1, <2>2
    <2>5. \A j \in i..l - 1 : o[j] # 0
      <3>1. SUFFICES ASSUME NEW j \in i..l - 1, o[j] = 0 PROVE FALSE
        OBVIOUS
      <3>2. j \in i..N /\ ~(l <= j)
        BY <1>1, <2>4
      <3>3. j \in Closed
        BY <3>1, <3>2
      <3>4. QED  BY <2>2, <3>2, <3>3
    <2>6. f[<<e[i - 1], 1>>] = f[<<e[l], 0>>]
      BY <1>2, <2>4, <2>5
    <2>7. f[<<e[l], 0>>] = e[l]
      BY <1>4, <1>5, <2>4, Zenon
    <2>8. QED  BY <2>3, <2>4, <2>6, <2>7 DEF N, e, f
  <1>9. QED  BY <1>7, <1>8

LEMMA ValueEndType ==
  ASSUME calls \in Seq(PackCalls), NEW i \in 1..Len(calls)
  PROVE  ValueEnd(i) \in 0..Len(calls)
  <1> DEFINE Closed == {k \in i..Len(calls) : Open(i)[k] = 0}
  <1>1. ValueEnd(i) = IF Closed = {} THEN Len(calls)
                      ELSE CHOOSE k \in Closed : \A j \in Closed : k <= j
    BY Zenon DEF ValueEnd
  <1>2. Closed \in SUBSET Nat /\ Closed \subseteq 0..Len(calls) /\ Len(calls) \in 0..Len(calls)
    OBVIOUS
  <1> HIDE DEF Closed
  <1>3. Closed # {} => \E m \in Closed : \A j \in Closed : m <= j
    BY <1>2, LeastNumber
  <1>4. QED  BY <1>1, <1>2, <1>3

-----------------------------------------------------------------------------
(* The reader keeps in step.                                                   *)

(* What a reader relies on: until the end is lost, the calls fill the buffer   *)
(* one after the other, and it stands where one of them ends.                  *)
PackInv ==
  /\ calls \in Seq(PackCalls) /\ out \in Seq(UInt8) /\ cut \in BOOLEAN
  /\ pos \in 0..Len(out) /\ taken \in 0..Len(calls)
  /\ ~cut => Laid(calls, out) /\ same /\ pos = Ends(calls)[taken]

LEMMA PackInvInit == PackInit => PackInv
  <1> SUFFICES ASSUME PackInit PROVE PackInv
    OBVIOUS
  <1>1. calls = <<>> /\ out = <<>> /\ ~cut /\ cut \in BOOLEAN /\ pos = 0 /\ taken = 0 /\ same
    BY DEF PackInit
  <1>2. <<>> \in Seq(PackCalls) /\ <<>> \in Seq(UInt8)
    OBVIOUS
  <1>3. Len(<<>>) = 0
    OBVIOUS
  <1>4. Ends(<<>>)[0] = 0
    BY <1>2, EndsIs
  <1>5. Laid(<<>>, <<>>)
    <2>1. \A k \in 1..Len(<<>>) : FALSE
      BY <1>3
    <2>2. QED  BY <1>2, <1>3, <1>4, <2>1 DEF Laid
  <1>6. 0 \in 0..0
    OBVIOUS
  <1>7. QED  BY <1>1, <1>2, <1>3, <1>4, <1>5, <1>6 DEF PackInv

LEMMA PackOneKeeps ==
  ASSUME PackInv, NEW c \in PackCalls, PackOne(c)
  PROVE  PackInv'
  <1>1. /\ taken = 0 /\ ~cut /\ calls' = Append(calls, c) /\ out' = out \o Pack(c)
        /\ cut' = cut /\ pos' = pos /\ taken' = taken /\ same' = same
    BY DEF PackOne
  <1>2. /\ calls \in Seq(PackCalls) /\ out \in Seq(UInt8) /\ cut \in BOOLEAN
        /\ Laid(calls, out) /\ same /\ pos = Ends(calls)[0]
    BY <1>1 DEF PackInv
  <1>3. Laid(calls', out')
    BY <1>1, <1>2, LaidOn
  <1>4. calls' \in Seq(PackCalls) /\ out' \in Seq(UInt8)
    BY <1>3 DEF Laid
  <1>5. Ends(calls')[0] = 0 /\ Ends(calls)[0] = 0
    BY <1>2, <1>4, EndsIs
  <1>6. 0 \in 0..Len(out') /\ 0 \in 0..Len(calls')
    BY <1>4
  <1>7. QED  BY <1>1, <1>2, <1>3, <1>4, <1>5, <1>6 DEF PackInv

LEMMA LoseEndKeeps ==
  ASSUME PackInv, LoseEnd
  PROVE  PackInv'
  <1>1. /\ taken = 0 /\ ~cut /\ cut' = TRUE
        /\ calls' = calls /\ pos' = pos /\ taken' = taken /\ same' = same
    BY DEF LoseEnd
  <1>2. PICK n \in 0..Len(out) - 1 : out' = SubSeq(out, 1, n)
    BY DEF LoseEnd
  <1>3. /\ calls \in Seq(PackCalls) /\ out \in Seq(UInt8) /\ pos = Ends(calls)[0]
    BY <1>1 DEF PackInv
  <1>4. pos = 0
    BY <1>3, EndsIs
  <1>5. out' \in Seq(UInt8)
    <2>1. \A i \in 1..n : out[i] \in UInt8
      <3>1. \A i \in 1..n : i \in 1..Len(out)
        BY <1>3
      <3>2. QED  BY <1>3, <3>1, ElementOfSeq
    <2>2. n \in Int
      BY <1>3
    <2>3. QED  BY <1>2, <2>1, <2>2, SubSeqProperties
  <1>6. 0 \in 0..Len(out') /\ 0 \in 0..Len(calls')
    BY <1>1, <1>3, <1>5
  <1>7. QED  BY <1>1, <1>3, <1>4, <1>5, <1>6 DEF PackInv

LEMMA KindOfCall ==
  ASSUME NEW c, IsCall(c)
  PROVE  c[1] \in Kinds
  BY SMT DEF IsCall, Kinds

LEMMA ReadNextKeeps ==
  ASSUME PackInv, ReadNext
  PROVE  PackInv'
  <1> DEFINE c == calls[taken + 1]
             r == ReadAs(c[1], out, pos)
  <1>1. /\ taken < Len(calls) /\ pos' = r[2] /\ same' = (same /\ r[1] = c[2])
        /\ taken' = taken + 1 /\ calls' = calls /\ out' = out /\ cut' = cut
    BY DEF ReadNext
  <1>2. /\ calls \in Seq(PackCalls) /\ out \in Seq(UInt8) /\ cut \in BOOLEAN
        /\ pos \in 0..Len(out) /\ taken \in 0..Len(calls)
        /\ ~cut => Laid(calls, out) /\ same /\ pos = Ends(calls)[taken]
    BY DEF PackInv
  <1>3. PICK k \in 1..Len(calls) : k = taken + 1 /\ taken = k - 1
    BY <1>1, <1>2
  <1>4. c[1] \in Kinds
    <2>1. c \in PackCalls
      BY <1>2, <1>3, ElementOfSeq
    <2>2. QED  BY <2>1, KindOfCall, MsgPackAssumption
  <1>5. r[2] \in 0..Len(out)
    <2>1. r[2] \in pos..Len(out)
      BY <1>2, <1>4, ReadAsStops
    <2> HIDE DEF r
    <2>2. QED  BY <1>2, <2>1
  <1>6. k \in 0..Len(calls)
    BY <1>2
  <1>7. ASSUME ~cut
        PROVE  r[1] = c[2] /\ r[2] = Ends(calls)[k]
    <2>1. Laid(calls, out) /\ pos = Ends(calls)[k - 1]
      BY <1>2, <1>3, <1>7
    <2>2. ReadAs(calls[k][1], out, pos) = <<calls[k][2], Ends(calls)[k]>>
      BY <2>1, LaidIs
    <2>3. c = calls[k]
      BY <1>3
    <2>4. QED  BY <2>2, <2>3
  <1> HIDE DEF c, r
  <1>8. ~cut' => Laid(calls', out') /\ same' /\ pos' = Ends(calls')[taken']
    BY <1>1, <1>2, <1>3, <1>7, Zenon
  <1>9. QED  BY <1>1, <1>2, <1>3, <1>5, <1>6, <1>8 DEF PackInv

LEMMA SkipNextKeeps ==
  ASSUME PackInv, SkipNext
  PROVE  PackInv'
  <1>1. /\ taken < Len(calls) /\ pos' = Skip(out)[<<pos, 1>>] /\ taken' = ValueEnd(taken + 1)
        /\ calls' = calls /\ out' = out /\ cut' = cut /\ same' = same
    BY DEF SkipNext
  <1>2. /\ calls \in Seq(PackCalls) /\ out \in Seq(UInt8) /\ cut \in BOOLEAN
        /\ pos \in 0..Len(out) /\ taken \in 0..Len(calls)
        /\ ~cut => Laid(calls, out) /\ same /\ pos = Ends(calls)[taken]
    BY DEF PackInv
  <1>3. PICK k \in 1..Len(calls) : k = taken + 1 /\ taken = k - 1
    BY <1>1, <1>2
  <1>4. Skip(out)[<<pos, 1>>] \in 0..Len(out)
    <2>1. Moves(Len(out), LeadsOf(out), BeginsOf(out))
      BY <1>2, BytesMove
    <2>2. Walks(Skip(out), Len(out), LeadsOf(out), BeginsOf(out))
      BY <1>2, SkipIs
    <2>3. \A p \in 0..Len(out), n \in Nat : Skip(out)[<<p, n>>] \in p..Len(out)
      BY <2>1, <2>2, WalkType, Zenon
    <2>4. 1 \in Nat
      OBVIOUS
    <2>5. PICK q : q = Skip(out)[<<pos, 1>>]
      OBVIOUS
    <2>6. q \in pos..Len(out)
      BY <1>2, <2>3, <2>4, <2>5
    <2>7. q \in 0..Len(out)
      BY <1>2, <2>6
    <2>8. QED  BY <2>5, <2>7
  <1>5. ValueEnd(k) \in 0..Len(calls)
    BY <1>2, ValueEndType
  <1>6. ASSUME ~cut
        PROVE  Skip(out)[<<pos, 1>>] = Ends(calls)[ValueEnd(k)]
    <2>1. Laid(calls, out) /\ pos = Ends(calls)[k - 1]
      BY <1>2, <1>3, <1>6
    <2>2. QED  BY <2>1, SkipsValue
  <1>7. ~cut' => Laid(calls', out') /\ same' /\ pos' = Ends(calls')[taken']
    BY <1>1, <1>2, <1>3, <1>6, Zenon
  <1>8. pos' \in 0..Len(out') /\ taken' \in 0..Len(calls')
    BY <1>1, <1>3, <1>4, <1>5
  <1>9. QED  BY <1>1, <1>2, <1>7, <1>8 DEF PackInv

LEMMA PackInvHolds == PackSpec => []PackInv
  <1>1. PackInv /\ [PackNext]_msgPackVars => PackInv'
    <2> SUFFICES ASSUME PackInv, [PackNext]_msgPackVars PROVE PackInv'
      OBVIOUS
    <2>1. CASE \E c \in PackCalls : PackOne(c)
      BY <2>1, PackOneKeeps
    <2>2. CASE LoseEnd
      BY <2>2, LoseEndKeeps
    <2>3. CASE ReadNext
      BY <2>3, ReadNextKeeps
    <2>4. CASE SkipNext
      BY <2>4, SkipNextKeeps
    <2>5. CASE UNCHANGED msgPackVars
      BY <2>5 DEF PackInv, msgPackVars
    <2>6. QED  BY <2>1, <2>2, <2>3, <2>4, <2>5 DEF PackNext
  <1>2. QED  BY PackInvInit, <1>1, PTL DEF PackSpec

(* However a writer mixes its calls, and a reader its reads and skips of what  *)
(* msgpack.cpp packed: it stands where a value ends, an array with all its     *)
(* elements, and read what was packed, for numbers, data and counts of any     *)
(* width and buffers of any length; where the end was lost, it stays within    *)
(* what there is.                                                              *)
THEOREM ReaderInStepHolds == PackSpec => []ReaderInStep
  <1>1. PackInv => ReaderInStep
    <2> SUFFICES ASSUME PackInv PROVE ReaderInStep
      OBVIOUS
    <2>1. pos <= Len(out)
      BY DEF PackInv
    <2>2. ~cut => same /\ pos = Ends(calls)[taken]
      BY DEF PackInv
    <2>3. QED  BY <2>1, <2>2, Zenon DEF ReaderInStep
  <1>2. QED  BY PackInvHolds, <1>1, PTL

=============================================================================
