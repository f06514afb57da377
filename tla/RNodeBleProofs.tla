---------------------------- MODULE RNodeBleProofs ----------------------------
(***************************************************************************)
(* Proofs about RNodeBle, for a ring of any size, any frames and any       *)
(* connections.  The ring: the NimBLE task stores only where the tail will *)
(* not come before the head does, and the tail moves only behind the head. *)
(* The radio: every command leaves _radio_on, g_cfg and the mode together. *)
(* The frames: a parser that has read an encoded frame up to some place    *)
(* holds its payload up to there; so what is torn stays a beginning.       *)
(***************************************************************************)
EXTENDS RNodeBle, FiniteSetTheorems, WellFoundedInduction, TLAPS

\* What the two arguments need of the types.
Places ==
    /\ head \in 0..RingSize-1 /\ tail \in 0..RingSize-1
    /\ DOMAIN ring = 0..RingSize-1

SlotsInv == Places /\ SlotsAreStable

LEMMA AfterIsNext ==
  ASSUME NEW i \in 0..RingSize-1
  PROVE  After(i) = IF i = RingSize-1 THEN 0 ELSE i + 1
<1>1. CASE i = RingSize-1
  BY <1>1, RingAssumption, SMT DEF After
<1>2. CASE i # RingSize-1
  BY <1>2, RingAssumption, SMT DEF After
<1> QED
  BY <1>1, <1>2

LEMMA AfterIsPlace ==
  ASSUME NEW i \in 0..RingSize-1
  PROVE  After(i) \in 0..RingSize-1
BY AfterIsNext, RingAssumption

LEMMA AfterIsInjective ==
  ASSUME NEW i \in 0..RingSize-1, NEW j \in 0..RingSize-1, i # j
  PROVE  After(i) # After(j)
BY AfterIsNext, RingAssumption

LEMMA SlotsStep == SlotsInv /\ [Next]_vars => SlotsInv'
<1> SUFFICES ASSUME SlotsInv, [Next]_vars
             PROVE  SlotsInv'
  OBVIOUS
<1> USE DEF SlotsInv, Places, SlotsAreStable, queue, bridge
<1>1. CASE StoreByte
  <2>1. CASE After(head) = tail
    BY <1>1, <2>1 DEF StoreByte
  <2>2. CASE After(head) # tail
    BY <1>1, <2>2 DEF StoreByte
  <2> QED
    BY <2>1, <2>2
<1>2. CASE Publish
  BY <1>2, AfterIsPlace DEF Publish
<1>3. CASE Consume
  <2>1. /\ pc = "consume" /\ tail' = After(tail) /\ pc' # "consume"
        /\ UNCHANGED <<ring, head, stored>>
    BY <1>3 DEF Consume
  <2>2. After(head) # After(tail)
    BY <2>1, AfterIsInjective
  <2> QED
    BY <2>1, <2>2, AfterIsPlace
<1>4. CASE Drain
  BY <1>4 DEF Drain
<1>5. CASE TestReady \/ ClearReady \/ SendFrame \/ Cut \/ Notify
  BY <1>5 DEF TestReady, ClearReady, SendFrame, Cut, Notify
<1>6. CASE Connect \/ Disconnect \/ MtuExchanged \/ Subscribe \/ Write
  <2>1. UNCHANGED <<ring, head, tail, stored, pc, byte>>
    BY <1>6, Zenon DEF Connect, Disconnect, MtuExchanged, Subscribe, Write
  <2> QED
    BY <2>1
<1>7. CASE UNCHANGED vars
  BY <1>7 DEF vars
<1> QED
  BY <1>1, <1>2, <1>3, <1>4, <1>5, <1>6, <1>7 DEF Next, NimbleTask, BridgeTask

\* SlotsAreStableHolds: in a ring of any size no slot is overwritten before it
\* was read, nor read before it was published.
THEOREM SlotsAreStableHolds == Spec => []SlotsAreStable
<1>1. Init => SlotsInv
  BY RingAssumption DEF Init, SlotsInv, Places, SlotsAreStable
<1>2. SlotsInv => SlotsAreStable
  BY DEF SlotsInv
<1> QED
  BY <1>1, <1>2, SlotsStep, PTL DEF Spec

---------------------------------------------------------------------------
(* What a recursive function computes, number by number: a set that holds  *)
(* 0 and the successor of each of its elements is Nat, for otherwise one   *)
(* number outside it is the least.                                         *)

LEMMA LeastNumber ==
  ASSUME NEW A \in SUBSET Nat, A # {}
  PROVE  \E m \in A : \A k \in A : m <= k
<1> DEFINE T == {0..n : n \in A}
           R == StrictSubsetOrdering(Nat)
<1>1. T # {} /\ T \subseteq FiniteSubsetsOf(Nat)
  <2>1. \A n \in A : 0..n \in SUBSET Nat /\ IsFiniteSet(0..n)
    BY FS_Interval
  <2> QED
    BY <2>1 DEF FiniteSubsetsOf
<1>2. IsWellFoundedOn(R, FiniteSubsetsOf(Nat))
  BY FS_StrictSubsetOrderingWellFounded
<1>3. PICK x \in T : \A y \in T : <<y, x>> \notin R
  <2> HIDE DEF R, T
  <2> QED
    BY <1>1, <1>2, WFMin
<1>4. PICK m \in A : x = 0..m
  OBVIOUS
<1>5. ASSUME NEW k \in A, k < m
      PROVE  FALSE
  <2>1. 0..k \in T /\ 0..k \subseteq 0..m /\ m \in 0..m /\ m \notin 0..k
    BY <1>5
  <2>2. <<0..k, x>> \in R
    BY <1>4, <2>1 DEF StrictSubsetOrdering
  <2> QED
    BY <1>3, <2>1, <2>2
<1> QED
  BY <1>5

LEMMA NumberByNumber ==
  ASSUME NEW A \in SUBSET Nat, 0 \in A, \A n \in A : n + 1 \in A
  PROVE  A = Nat
<1> DEFINE B == Nat \ A
<1>1. SUFFICES ASSUME B # {} PROVE FALSE
  OBVIOUS
<1>2. PICK m \in B : \A k \in B : m <= k
  <2>1. B \in SUBSET Nat
    OBVIOUS
  <2> HIDE DEF B
  <2> QED
    BY <1>1, <2>1, LeastNumber
<1>3. m # 0 /\ m - 1 \in Nat /\ m - 1 \notin B
  BY <1>2
<1> QED
  BY <1>3

\* The values from v0 on that step gives.
Steps(f, V, v0, N, step) ==
    /\ f \in [0..N -> V] /\ f[0] = v0
    /\ \A i \in 1..N : f[i] = step[i][f[i - 1]]

LEMMA StepsExist ==
  ASSUME NEW V, NEW v0 \in V, NEW N \in Nat, NEW step \in [1..N -> [V -> V]]
  PROVE  \E f : Steps(f, V, v0, N, step)
<1> DEFINE Upto(f, n) == /\ f \in [0..n -> V] /\ f[0] = v0
                         /\ \A i \in 1..n : f[i] = step[i][f[i - 1]]
           A == {n \in Nat : n <= N => \E f : Upto(f, n)}
<1>1. 0 \in A
  <2>1. Upto([i \in 0..0 |-> v0], 0)
    OBVIOUS
  <2> QED
    BY <2>1
<1>2. ASSUME NEW n \in A
      PROVE  n + 1 \in A
  <2>1. SUFFICES ASSUME n + 1 <= N PROVE \E f : Upto(f, n + 1)
    OBVIOUS
  <2>2. PICK f : Upto(f, n)
    BY <2>1
  <2> DEFINE g == [i \in 0..n+1 |-> IF i = n + 1 THEN step[n + 1][f[n]] ELSE f[i]]
  <2>3. f[n] \in V /\ n + 1 \in 1..N /\ step[n + 1][f[n]] \in V
    <3>1. f[n] \in V /\ n + 1 \in 1..N
      BY <2>1, <2>2
    <3> QED
      BY <3>1
  <2>4. g \in [0..n+1 -> V] /\ g[0] = v0
    BY <2>2, <2>3
  <2>5. ASSUME NEW i \in 1..n+1
        PROVE  g[i] = step[i][g[i - 1]]
    <3>1. CASE i = n + 1
      <4>1. g[i - 1] = f[n]
        BY <3>1
      <4> QED
        BY <3>1, <4>1
    <3>2. CASE i # n + 1
      <4>1. i \in 1..n /\ g[i] = f[i] /\ g[i - 1] = f[i - 1]
        BY <3>2
      <4> QED
        BY <2>2, <4>1
    <3> QED
      BY <3>1, <3>2
  <2>6. Upto(g, n + 1)
    BY <2>4, <2>5
  <2> QED
    BY <2>6
<1>3. N \in A
  <2> HIDE DEF Upto
  <2>1. A \in SUBSET Nat
    OBVIOUS
  <2> HIDE DEF A
  <2>2. A = Nat
    BY <1>1, <1>2, <2>1, NumberByNumber
  <2> QED
    BY <2>2
<1> QED
  BY <1>3 DEF Steps

---------------------------------------------------------------------------
(* The framing, byte by byte.  Starts says where the bytes of a payload    *)
(* are in its frame; a parser that has read the frame up to some place     *)
(* holds the payload up to there.                                          *)

LEMMA EscapedIs ==
  ASSUME NEW b \in Byte
  PROVE  /\ Escaped(b) \in Seq(Byte) /\ Escaped(b)[1] \in Byte \ {FEND}
         /\ b \in {FEND, FESC} =>
              /\ Len(Escaped(b)) = 2 /\ Escaped(b)[1] = FESC
              /\ Escaped(b)[2] = IF b = FEND THEN TFEND ELSE TFESC
         /\ b \notin {FEND, FESC} => Len(Escaped(b)) = 1 /\ Escaped(b)[1] = b
<1>1. FEND = 192 /\ FESC = 219 /\ TFEND = 220 /\ TFESC = 221
  BY DEF FEND, FESC, TFEND, TFESC
<1>2. \A x, y \in Byte : /\ <<x>> \in Seq(Byte) /\ Len(<<x>>) = 1 /\ <<x>>[1] = x
                        /\ <<x, y>> \in Seq(Byte) /\ Len(<<x, y>>) = 2
                        /\ <<x, y>>[1] = x /\ <<x, y>>[2] = y
  OBVIOUS
<1>6. FESC \in Byte /\ TFEND \in Byte /\ TFESC \in Byte /\ FESC # FEND
  BY <1>1 DEF Byte
<1>3. CASE b = FEND
  <2>1. Escaped(b) = <<FESC, TFEND>>
    BY <1>1, <1>3 DEF Escaped
  <2> QED
    BY <1>2, <1>3, <1>6, <2>1
<1>4. CASE b = FESC
  <2>1. Escaped(b) = <<FESC, TFESC>>
    BY <1>1, <1>4 DEF Escaped
  <2> QED
    BY <1>2, <1>4, <1>6, <2>1
<1>5. CASE b # FEND /\ b # FESC
  <2>1. Escaped(b) = <<b>>
    BY <1>5 DEF Escaped
  <2> QED
    BY <1>2, <1>5, <2>1
<1> QED
  BY <1>3, <1>4, <1>5

\* The escaped payload, one byte at a time.
Flat(c, p) ==
    /\ c \in [0..Len(p) -> Seq(Byte)] /\ c[0] = <<>>
    /\ \A i \in 1..Len(p) : c[i] = c[i - 1] \o Escaped(p[i])

LEMMA FlatIs ==
  ASSUME NEW p \in Seq(Byte)
  PROVE  \E c : Flat(c, p) /\ c[Len(p)] = FlattenSeq([i \in DOMAIN p |-> Escaped(p[i])])
<1> DEFINE N == Len(p)
           s == [i \in DOMAIN p |-> Escaped(p[i])]
           Eq(h) == h = [i \in 1..Len(s) |-> IF i = 1 THEN s[i] ELSE h[i - 1] \o s[i]]
           f == CHOOSE h : Eq(h)
           step == [i \in 1..N |-> [x \in Seq(Byte) |-> x \o s[i]]]
<1>1. N \in Nat /\ DOMAIN p = 1..N /\ \A i \in 1..N : p[i] \in Byte
  OBVIOUS
<1>2. \A i \in 1..N : s[i] = Escaped(p[i]) /\ s[i] \in Seq(Byte)
  BY <1>1, EscapedIs
<1>3. s \in Seq(Seq(Byte)) /\ Len(s) = N
  BY <1>1, <1>2
<1>4. FlattenSeq(s) = IF N = 0 THEN <<>> ELSE f[N]
  <2>1. Len(s) = 0 => s = <<>>
    BY <1>3
  <2> QED
    BY <1>3, <2>1 DEF FlattenSeq
<1> HIDE DEF s
<1>5. PICK g : Steps(g, Seq(Byte), <<>>, N, step)
  <2>1. step \in [1..N -> [Seq(Byte) -> Seq(Byte)]]
    BY <1>2
  <2>2. <<>> \in Seq(Byte)
    OBVIOUS
  <2> HIDE DEF step
  <2> QED
    BY <1>1, <2>1, <2>2, StepsExist
<1>6. g \in [0..N -> Seq(Byte)] /\ g[0] = <<>> /\ \A i \in 1..N : g[i] = g[i - 1] \o s[i]
  <2>1. g \in [0..N -> Seq(Byte)] /\ g[0] = <<>> /\ \A i \in 1..N : g[i] = step[i][g[i - 1]]
    BY <1>5 DEF Steps
  <2>2. \A i \in 1..N : i - 1 \in 0..N
    BY <1>1
  <2> QED
    BY <2>1, <2>2
<1> HIDE DEF step
<1>12. \A n \in Nat : n + 1 \in 1..N => g[n + 1] = g[n] \o s[n + 1]
  <2> TAKE n \in Nat
  <2>1. (n + 1) - 1 = n
    OBVIOUS
  <2>2. n + 1 \in 1..N => g[n + 1] = g[(n + 1) - 1] \o s[n + 1]
    BY <1>6
  <2> QED
    BY <2>1, <2>2
<1>13. 1 \in 1..N => g[1] = s[1]
  <2>1. \A x \in Seq(Byte) : <<>> \o x = x
    OBVIOUS
  <2>2. ASSUME NEW i \in 1..N, i = 1
        PROVE  g[i] = s[i]
    <3>1. g[i] = g[i - 1] \o s[i]
      BY <1>6, Zenon
    <3>3. i - 1 = 0
      BY <2>2
    <3>2. g[i] = <<>> \o s[i]
      BY <1>6, <3>1, <3>3, Zenon
    <3> QED
      BY <1>2, <2>1, <3>2
  <2> QED
    BY <2>2
<1>7. Eq(f)
  <2>1. Eq([i \in 1..N |-> g[i]])
    <3> DEFINE h == [i \in 1..N |-> g[i]]
    <3>1. ASSUME NEW i \in 1..N
          PROVE  h[i] = IF i = 1 THEN s[i] ELSE h[i - 1] \o s[i]
      <4>1. CASE i = 1
        BY <1>13, <4>1
      <4>2. CASE i # 1
        <5>1. i - 1 \in 1..N
          BY <1>1, <4>2
        <5> QED
          BY <1>6, <4>2, <5>1
      <4> QED
        BY <4>1, <4>2
    <3>2. h = [i \in 1..N |-> h[i]]
      OBVIOUS
    <3> HIDE DEF h
    <3>3. [i \in 1..N |-> h[i]] = [i \in 1..N |-> IF i = 1 THEN s[i] ELSE h[i - 1] \o s[i]]
      BY <3>1
    <3>4. h = [i \in 1..N |-> IF i = 1 THEN s[i] ELSE h[i - 1] \o s[i]]
      BY <3>2, <3>3, Zenon
    <3>5. Len(s) = N
      BY <1>3
    <3>6. Eq(h)
      BY <3>4, <3>5, Zenon
    <3> QED
      BY <3>6 DEF h
  <2> HIDE DEF Eq
  <2> QED
    BY <2>1
<1>8. f = [i \in 1..N |-> IF i = 1 THEN s[i] ELSE f[i - 1] \o s[i]]
  <2> HIDE DEF f
  <2> QED
    BY <1>3, <1>7
<1> HIDE DEF f, Eq
<1>14. \A i \in 1..N : f[i] = IF i = 1 THEN s[i] ELSE f[i - 1] \o s[i]
  BY <1>8
<1>9. \A n \in Nat : n \in 1..N => f[n] = g[n]
  <2> DEFINE A == {n \in Nat : n \in 1..N => f[n] = g[n]}
  <2>1. 0 \in A
    OBVIOUS
  <2>2. ASSUME NEW n \in A PROVE n + 1 \in A
    <3>1. SUFFICES ASSUME n + 1 \in 1..N PROVE f[n + 1] = g[n + 1]
      OBVIOUS
    <3>5. n \in Nat /\ (n + 1) - 1 = n
      OBVIOUS
    <3>2. g[n + 1] = g[n] \o s[n + 1]
      BY <1>12, <3>1, <3>5
    <3>3. CASE n = 0
      BY <1>13, <1>14, <3>1, <3>3
    <3>4. CASE n # 0
      <4>1. f[n + 1] = f[n] \o s[n + 1]
        <5>1. n + 1 # 1
          BY <3>4, <3>5
        <5>2. f[n + 1] = f[(n + 1) - 1] \o s[n + 1]
          BY <1>14, <3>1, <5>1
        <5> QED
          BY <3>5, <5>2
      <4>2. f[n] = g[n]
        BY <1>1, <3>1, <3>4
      <4> QED
        BY <3>2, <4>1, <4>2
    <3> QED
      BY <3>3, <3>4
  <2>3. A \in SUBSET Nat
    OBVIOUS
  <2>4. A = Nat
    <3> HIDE DEF A
    <3> QED
      BY <2>1, <2>2, <2>3, NumberByNumber
  <2> QED
    BY <2>4
<1>10. g[N] = FlattenSeq(s)
  BY <1>1, <1>4, <1>6, <1>9
<1>11. Flat(g, p)
  BY <1>1, <1>2, <1>6 DEF Flat
<1> QED
  BY <1>10, <1>11 DEF s

LEMMA CatIs ==
  ASSUME NEW x \in Seq(Byte), NEW y \in Seq(Byte)
  PROVE  /\ x \o y \in Seq(Byte) /\ Len(x \o y) = Len(x) + Len(y)
         /\ \A j \in 1..Len(x) : (x \o y)[j] = x[j]
         /\ \A j \in 1..Len(y) : (x \o y)[Len(x) + j] = y[j]
OBVIOUS

\* A longer part begins with a shorter one.
LEMMA FlatGrows ==
  ASSUME NEW p \in Seq(Byte), NEW c, Flat(c, p),
         NEW m \in 0..Len(p), NEW n \in 0..m
  PROVE  Len(c[n]) <= Len(c[m]) /\ \A j \in 1..Len(c[n]) : c[m][j] = c[n][j]
<1> DEFINE N == Len(p)
           Begins(i, k) == Len(c[i]) <= Len(c[k]) /\ \A j \in 1..Len(c[i]) : c[k][j] = c[i][j]
           A == {k \in Nat : k <= N => \A i \in 0..k : Begins(i, k)}
<1>1. N \in Nat /\ \A k \in 0..N : c[k] \in Seq(Byte) /\ Len(c[k]) \in Nat
  BY DEF Flat
<1>2. 0 \in A
  BY <1>1
<1>3. ASSUME NEW k \in A PROVE k + 1 \in A
  <2>1. SUFFICES ASSUME k + 1 <= N, NEW i \in 0..k+1 PROVE Begins(i, k + 1)
    OBVIOUS
  <2>2. k \in Nat /\ k \in 0..N /\ k + 1 \in 0..N /\ k + 1 \in 1..N
    BY <2>1, <1>1
  <2>3. CASE i = k + 1
    BY <2>2, <2>3, <1>1
  <2>4. CASE i # k + 1
    <3>1. i \in 0..k /\ Begins(i, k)
      BY <2>1, <2>2, <2>4
    <3>2. c[k + 1] = c[k] \o Escaped(p[k + 1])
      <4>1. c[k + 1] = c[(k + 1) - 1] \o Escaped(p[k + 1])
        BY <2>2, Zenon DEF Flat
      <4>2. (k + 1) - 1 = k
        BY <2>2
      <4> QED
        BY <4>1, <4>2
    <3>3. Escaped(p[k + 1]) \in Seq(Byte)
      <4>1. p[k + 1] \in Byte
        BY <2>2
      <4> QED
        BY <4>1, EscapedIs
    <3>4. Begins(k, k + 1)
      <4> DEFINE x == c[k]
                 y == Escaped(p[k + 1])
      <4>1. /\ c[k + 1] = x \o y /\ x \in Seq(Byte) /\ y \in Seq(Byte)
            /\ Len(x) \in Nat /\ Len(y) \in Nat
        BY <1>1, <2>2, <3>2, <3>3
      <4> HIDE DEF x, y
      <4>2. Len(x \o y) = Len(x) + Len(y) /\ \A j \in 1..Len(x) : (x \o y)[j] = x[j]
        BY <4>1, CatIs
      <4>3. Len(x) <= Len(c[k + 1]) /\ \A j \in 1..Len(x) : c[k + 1][j] = x[j]
        BY <4>1, <4>2
      <4> QED
        BY <4>3 DEF x
    <3>5. Len(c[i]) \in Nat /\ Len(c[k]) \in Nat /\ Len(c[k + 1]) \in Nat
      BY <1>1, <2>2, <3>1
    <3> QED
      BY <3>1, <3>4, <3>5
  <2> QED
    BY <2>3, <2>4
<1>4. m \in A
  <2>1. A \in SUBSET Nat
    OBVIOUS
  <2> HIDE DEF A
  <2>2. A = Nat
    BY <1>2, <1>3, <2>1, NumberByNumber
  <2> QED
    BY <1>1, <2>2
<1> QED
  BY <1>1, <1>4

\* L[n] bytes of the frame of g come before byte n + 1 of its payload.
Layout(g, L) ==
    LET p == g.payload
        e == Encoded(g)
        N == Len(p)
    IN  /\ L \in [0..N -> Nat] /\ L[0] = 2
        /\ \A n \in 0..N : 2 <= L[n] /\ L[n] <= L[N]
        /\ e \in Seq(Byte) /\ Len(e) = L[N] + 1
        /\ e[1] = FEND /\ e[2] = g.cmd /\ e[L[N] + 1] = FEND
        /\ \A n \in 1..N :
             /\ L[n] = L[n - 1] + Len(Escaped(p[n]))
             /\ e[L[n - 1] + 1] = Escaped(p[n])[1]
             /\ p[n] \in {FEND, FESC} => e[L[n - 1] + 2] = Escaped(p[n])[2]

LEMMA LayoutExists ==
  ASSUME NEW g \in Frames
  PROVE  \E L : Layout(g, L)
<1> DEFINE p == g.payload
           N == Len(p)
           e == Encoded(g)
           start == <<FEND, g.cmd>>
<1>1. p \in Seq(Byte) /\ g.cmd \in Byte /\ N \in Nat
  BY DEF Frames
<1> HIDE DEF p
<1>2. PICK c : Flat(c, p) /\ c[N] = FlattenSeq([i \in DOMAIN p |-> Escaped(p[i])])
  BY <1>1, FlatIs
<1>3. e = start \o c[N] \o <<FEND>>
  BY <1>2 DEF Encoded, p
<1> HIDE DEF e, N
<1>4. \A n \in 0..N : c[n] \in Seq(Byte) /\ Len(c[n]) \in Nat
  BY <1>2 DEF Flat, N
<1>5. c[0] = <<>> /\ Len(c[0]) = 0
  BY <1>2 DEF Flat
<1>6. ASSUME NEW n \in 1..N
      PROVE  /\ n - 1 \in 0..N /\ n \in 0..N /\ p[n] \in Byte
             /\ c[n] = c[n - 1] \o Escaped(p[n])
  <2>1. n - 1 \in 0..N /\ n \in 0..N
    BY <1>1
  <2>2. p[n] \in Byte
    BY <1>1 DEF N
  <2>3. c[n] = c[n - 1] \o Escaped(p[n])
    BY <1>2, Zenon DEF Flat, N
  <2> QED
    BY <2>1, <2>2, <2>3
<1> DEFINE L == [n \in 0..N |-> 2 + Len(c[n])]
<1>7. L \in [0..N -> Nat] /\ L[0] = 2 /\ \A n \in 0..N : L[n] = 2 + Len(c[n])
  BY <1>1, <1>4, <1>5
<1>8. /\ start \in Seq(Byte) /\ Len(start) = 2 /\ start[1] = FEND /\ start[2] = g.cmd
      /\ <<FEND>> \in Seq(Byte) /\ Len(<<FEND>>) = 1 /\ <<FEND>>[1] = FEND
  <2>1. FEND \in Byte
    BY DEF FEND, Byte
  <2> HIDE DEF FEND
  <2> QED
    BY <1>1, <2>1
<1> HIDE DEF L, start
<1>9. N \in 0..N /\ c[N] \in Seq(Byte) /\ Len(c[N]) \in Nat
  BY <1>1, <1>4
<1>10. /\ e \in Seq(Byte) /\ Len(e) = L[N] + 1
       /\ e[1] = FEND /\ e[2] = g.cmd /\ e[L[N] + 1] = FEND
       /\ \A j \in 1..Len(c[N]) : e[2 + j] = c[N][j]
  <2> DEFINE x == start \o c[N]
  <2>1. /\ x \in Seq(Byte) /\ Len(x) = 2 + Len(c[N]) /\ x[1] = FEND /\ x[2] = g.cmd
        /\ \A j \in 1..Len(c[N]) : x[2 + j] = c[N][j]
    <3>1. /\ x \in Seq(Byte) /\ Len(x) = Len(start) + Len(c[N])
          /\ \A j \in 1..Len(start) : x[j] = start[j]
          /\ \A j \in 1..Len(c[N]) : x[Len(start) + j] = c[N][j]
      BY <1>8, <1>9, CatIs
    <3> HIDE DEF x
    <3> QED
      BY <1>8, <3>1
  <2>2. e = x \o <<FEND>>
    BY <1>3
  <2> HIDE DEF x
  <2>3. /\ e \in Seq(Byte) /\ Len(e) = Len(x) + 1
        /\ \A j \in 1..Len(x) : e[j] = x[j]
        /\ e[Len(x) + 1] = FEND
    <3> DEFINE y == <<FEND>>
    <3>1. y \in Seq(Byte) /\ Len(y) = 1 /\ y[1] = FEND /\ e = x \o y
      BY <1>8, <2>2
    <3> HIDE DEF y
    <3>2. /\ e \in Seq(Byte) /\ Len(e) = Len(x) + Len(y)
          /\ \A j \in 1..Len(x) : e[j] = x[j]
          /\ \A j \in 1..Len(y) : e[Len(x) + j] = y[j]
      BY <2>1, <3>1, CatIs
    <3> QED
      BY <3>1, <3>2
  <2>4. L[N] = Len(x)
    BY <1>7, <1>9, <2>1
  <2>5. 1 \in 1..Len(x) /\ 2 \in 1..Len(x) /\ \A j \in 1..Len(c[N]) : 2 + j \in 1..Len(x)
    BY <1>9, <2>1
  <2>6. e[1] = FEND /\ e[2] = g.cmd /\ \A j \in 1..Len(c[N]) : e[2 + j] = c[N][j]
    BY <2>1, <2>3, <2>5
  <2> QED
    BY <2>3, <2>4, <2>6
<1>12. ASSUME NEW n \in 0..N
       PROVE  /\ Len(c[n]) <= Len(c[N]) /\ \A j \in 1..Len(c[n]) : c[N][j] = c[n][j]
              /\ 2 <= L[n] /\ L[n] <= L[N]
  <2>1. N \in 0..Len(p) /\ n \in 0..N
    BY <1>1 DEF N
  <2>2. Len(c[n]) <= Len(c[N]) /\ \A j \in 1..Len(c[n]) : c[N][j] = c[n][j]
    BY <1>1, <1>2, <2>1, FlatGrows
  <2> QED
    BY <1>4, <1>7, <1>9, <2>2
<1>11. ASSUME NEW n \in 1..N
       PROVE  /\ L[n] = L[n - 1] + Len(Escaped(p[n]))
              /\ e[L[n - 1] + 1] = Escaped(p[n])[1]
              /\ p[n] \in {FEND, FESC} => e[L[n - 1] + 2] = Escaped(p[n])[2]
  <2> DEFINE x == Escaped(p[n])
             a == c[n - 1]
  <2>1. /\ x \in Seq(Byte) /\ Len(x) \in {1, 2}
        /\ p[n] \in {FEND, FESC} => Len(x) = 2
    BY <1>6, EscapedIs
  <2>2. c[n] = a \o x /\ a \in Seq(Byte) /\ Len(a) \in Nat
    BY <1>4, <1>6
  <2>3. L[n - 1] = 2 + Len(a) /\ L[n] = 2 + Len(c[n])
    BY <1>6, <1>7
  <2> HIDE DEF x, a
  <2>4. /\ Len(c[n]) = Len(a) + Len(x)
        /\ \A j \in 1..Len(x) : c[n][Len(a) + j] = x[j]
    BY <2>1, <2>2, CatIs
  <2>5. Len(c[n]) <= Len(c[N]) /\ \A j \in 1..Len(c[n]) : c[N][j] = c[n][j]
    BY <1>6, <1>12
  <2>6. \A j \in 1..Len(x) : e[2 + (Len(a) + j)] = x[j]
    <3> TAKE j \in 1..Len(x)
    <3>1. Len(a) + j \in 1..Len(c[n]) /\ Len(a) + j \in 1..Len(c[N])
      BY <1>9, <2>1, <2>2, <2>4, <2>5
    <3>2. c[n][Len(a) + j] = x[j]
      BY <2>4
    <3>3. c[N][Len(a) + j] = c[n][Len(a) + j]
      BY <2>5, <3>1
    <3>4. e[2 + (Len(a) + j)] = c[N][Len(a) + j]
      BY <1>10, <3>1
    <3> QED
      BY <3>2, <3>3, <3>4
  <2>7. e[L[n - 1] + 1] = x[1] /\ (Len(x) = 2 => e[L[n - 1] + 2] = x[2])
    <3>1. 2 + (Len(a) + 1) = L[n - 1] + 1 /\ 2 + (Len(a) + 2) = L[n - 1] + 2
      BY <2>2, <2>3
    <3>2. 1 \in 1..Len(x) /\ (Len(x) = 2 => 2 \in 1..Len(x))
      <4>1. CASE Len(x) = 1
        BY <4>1
      <4>2. CASE Len(x) = 2
        BY <4>2
      <4> QED
        BY <2>1, <4>1, <4>2
    <3>3. e[2 + (Len(a) + 1)] = x[1] /\ (Len(x) = 2 => e[2 + (Len(a) + 2)] = x[2])
      BY <2>6, <3>2
    <3> QED
      BY <3>1, <3>3
  <2>8. L[n] = L[n - 1] + Len(x)
    BY <2>1, <2>2, <2>3, <2>4
  <2> QED
    BY <2>1, <2>7, <2>8 DEF x
<1> QED
  BY <1>7, <1>10, <1>11, <1>12 DEF Layout, e, N, p

\* A frame whose command a parser takes for one.
Commanded(g) == g \in Frames /\ g.cmd \notin {FEND, CMD_UNKNOWN}

Starts(g) == CHOOSE L : Layout(g, L)

\* A parser with room for M bytes, in the payload of g and n bytes into it.
Reading(g, n, escape, M) ==
    [inFrame |-> TRUE, escape |-> escape, cmd |-> g.cmd,
     rx |-> SubSeq(g.payload, 1, Smaller(n, M))]

\* Parser q has read k bytes of the frame of g.
Follows(q, k, g, M) ==
    \/ k = 0
    \/ k = 1 /\ q = AtFend
    \/ \E n \in 0..Len(g.payload) : k = Starts(g)[n] /\ q = Reading(g, n, FALSE, M)
    \/ \E n \in 1..Len(g.payload) :
         /\ g.payload[n] \in {FEND, FESC}
         /\ k = Starts(g)[n - 1] + 1 /\ q = Reading(g, n - 1, TRUE, M)
    \/ k = Len(Encoded(g)) /\ q = AtFend

\* What q would take for a frame, if a FEND came, begins one of S.
Legible(q, S) == q.inFrame /\ q.cmd # CMD_UNKNOWN => BeginsOneOf(FrameOf(q), S)

LEMMA StartsAre ==
  ASSUME NEW g \in Frames
  PROVE  Layout(g, Starts(g))
BY LayoutExists DEF Starts

LEMMA PayloadIs ==
  ASSUME NEW g \in Frames
  PROVE  /\ g.payload \in Seq(Byte) /\ Len(g.payload) \in Nat /\ g.cmd \in Byte
         /\ \A n \in 1..Len(g.payload) : g.payload[n] \in Byte
BY DEF Frames

LEMMA AtFendIs ==
  AtFend = [inFrame |-> TRUE, escape |-> FALSE, cmd |-> 254, rx |-> <<>>]
<1>1. OutOfFrame = [inFrame |-> FALSE, escape |-> FALSE, cmd |-> 254, rx |-> <<>>]
  BY DEF OutOfFrame, CMD_UNKNOWN
<1>2. AtFend = [OutOfFrame EXCEPT !.inFrame = TRUE]
  BY Zenon DEF AtFend
<1> QED
  BY <1>1, <1>2

LEMMA StoredType ==
  ASSUME NEW q \in Parsers, NEW b \in Byte, NEW max \in Nat
  PROVE  /\ Stored(q, b, max) \in Parsers
         /\ Len(q.rx) <= max => Len(Stored(q, b, max).rx) <= max
<1> DEFINE rx == IF Len(q.rx) < max THEN Append(q.rx, Unescaped(q, b)) ELSE q.rx
<1>1. Unescaped(q, b) \in Byte
  BY DEF Unescaped, Byte, FEND, FESC
<1>2. q.rx \in Seq(Byte)
  BY DEF Parsers
<1>3. rx \in Seq(Byte) /\ (Len(q.rx) <= max => Len(rx) <= max)
  BY <1>1, <1>2
<1>4. Stored(q, b, max) = [q EXCEPT !.escape = FALSE, !.rx = rx]
  BY Zenon DEF Stored
<1> HIDE DEF rx
<1> QED
  BY <1>3, <1>4 DEF Parsers

LEMMA AfterByteType ==
  ASSUME NEW q \in Parsers, NEW b \in Byte, NEW max \in Nat
  PROVE  /\ AfterByte(q, b, max) \in Parsers
         /\ Len(q.rx) <= max => Len(AfterByte(q, b, max).rx) <= max
<1>1. AtFend \in Parsers /\ Len(AtFend.rx) <= max
  <2>1. <<>> \in Seq(Byte) /\ Len(<<>>) = 0 /\ 254 \in Byte
    BY DEF Byte
  <2> QED
    BY <2>1, AtFendIs DEF Parsers
<1>2. [q EXCEPT !.cmd = b] \in Parsers /\ [q EXCEPT !.cmd = b].rx = q.rx
  BY DEF Parsers
<1>3. [q EXCEPT !.escape = TRUE] \in Parsers /\ [q EXCEPT !.escape = TRUE].rx = q.rx
  BY DEF Parsers
<1> QED
  BY <1>1, <1>2, <1>3, StoredType DEF AfterByte

LEMMA FrameOfIs ==
  ASSUME NEW q \in Parsers
  PROVE  FrameOf(q) \in Frames /\ FrameOf(q).cmd = q.cmd /\ FrameOf(q).payload = q.rx
BY DEF FrameOf, Frames, Parsers

LEMMA OutOfFrameIs ==
  OutOfFrame \in Parsers /\ ~OutOfFrame.inFrame
<1>1. <<>> \in Seq(Byte) /\ 254 \in Byte
  BY DEF Byte
<1> QED
  BY <1>1 DEF OutOfFrame, CMD_UNKNOWN, Parsers

LEMMA CommandRead ==
  ASSUME NEW g, Commanded(g), NEW M \in Nat
  PROVE  AfterByte(AtFend, g.cmd, M) = Reading(g, 0, FALSE, M)
<1>1. /\ AtFend.inFrame /\ AtFend.cmd = CMD_UNKNOWN /\ g.cmd # FEND
      /\ [AtFend EXCEPT !.cmd = g.cmd] =
           [inFrame |-> TRUE, escape |-> FALSE, cmd |-> g.cmd, rx |-> <<>>]
  <2>1. g.cmd # FEND
    BY DEF Commanded
  <2>2. AtFend.inFrame /\ AtFend.cmd = CMD_UNKNOWN
    BY AtFendIs DEF CMD_UNKNOWN
  <2>3. [AtFend EXCEPT !.cmd = g.cmd] =
          [inFrame |-> TRUE, escape |-> FALSE, cmd |-> g.cmd, rx |-> <<>>]
    <3> DEFINE yes == TRUE
               no == FALSE
    <3>1. AtFend = [inFrame |-> yes, escape |-> no, cmd |-> 254, rx |-> <<>>]
      BY AtFendIs
    <3> HIDE DEF yes, no
    <3>2. [AtFend EXCEPT !.cmd = g.cmd] =
            [inFrame |-> yes, escape |-> no, cmd |-> g.cmd, rx |-> <<>>]
      <4> DEFINE none == <<>>
                 was == 254
      <4>1. AtFend = [inFrame |-> yes, escape |-> no, cmd |-> was, rx |-> none]
        BY <3>1
      <4> HIDE DEF none, was
      <4>2. [AtFend EXCEPT !.cmd = g.cmd] =
              [inFrame |-> yes, escape |-> no, cmd |-> g.cmd, rx |-> none]
        BY <4>1
      <4> QED
        BY <4>2 DEF none
    <3> QED
      BY <3>2 DEF yes, no
  <2> QED
    BY <2>1, <2>2, <2>3
<1>2. AfterByte(AtFend, g.cmd, M) = [AtFend EXCEPT !.cmd = g.cmd]
  BY <1>1, Zenon DEF AfterByte
<1>3. Smaller(0, M) = 0
  BY DEF Smaller
<1>4. SubSeq(g.payload, 1, 0) = <<>>
  <2>1. g.payload \in Seq(Byte)
    BY PayloadIs DEF Commanded
  <2> QED
    BY <2>1
<1> QED
  BY <1>1, <1>2, <1>3, <1>4 DEF Reading

LEMMA ByteStored ==
  ASSUME NEW g, Commanded(g), NEW M \in Nat, NEW n \in 1..Len(g.payload),
         NEW escape \in BOOLEAN, NEW b,
         Unescaped(Reading(g, n - 1, escape, M), b) = g.payload[n]
  PROVE  Stored(Reading(g, n - 1, escape, M), b, M) = Reading(g, n, FALSE, M)
<1> DEFINE p == g.payload
           q == Reading(g, n - 1, escape, M)
           rx == SubSeq(p, 1, Smaller(n - 1, M))
           next == IF Len(rx) < M THEN Append(rx, p[n]) ELSE rx
<1>1. p \in Seq(Byte) /\ n - 1 \in Nat /\ n \in 1..Len(p) /\ Len(p) \in Nat
  BY PayloadIs DEF Commanded
<1> HIDE DEF p
<1>2. next = SubSeq(p, 1, Smaller(n, M))
  <2>1. CASE n - 1 < M
    <3>1. Smaller(n - 1, M) = n - 1 /\ Smaller(n, M) = n
      BY <1>1, <2>1 DEF Smaller
    <3>2. Len(rx) = n - 1
      BY <1>1, <3>1
    <3>3. Append(SubSeq(p, 1, n - 1), p[n]) = SubSeq(p, 1, n)
      BY <1>1
    <3> QED
      BY <2>1, <3>1, <3>2, <3>3
  <2>2. CASE ~(n - 1 < M)
    <3>1. Smaller(n - 1, M) = M /\ Smaller(n, M) = M /\ M <= Len(p)
      BY <1>1, <2>2 DEF Smaller
    <3>2. Len(rx) = M
      BY <1>1, <3>1
    <3> QED
      BY <3>1, <3>2
  <2> QED
    BY <2>1, <2>2
<1>3. q = [inFrame |-> TRUE, escape |-> escape, cmd |-> g.cmd, rx |-> rx]
  BY DEF Reading, p
<1> HIDE DEF rx
<1>4. Stored(q, b, M) = [q EXCEPT !.escape = FALSE, !.rx = next]
  <2>1. Unescaped(q, b) = p[n] /\ q.rx = rx
    BY <1>3 DEF p
  <2> HIDE DEF q
  <2> QED
    BY <2>1, Zenon DEF Stored
<1> HIDE DEF next, q
<1>5. Stored(q, b, M) = [inFrame |-> TRUE, escape |-> FALSE, cmd |-> g.cmd, rx |-> next]
  BY <1>3, <1>4
<1> QED
  BY <1>2, <1>5 DEF Reading, q, p

\* Byte b comes after k bytes of the frame of g.
ComesAfter(b, k, g) == k \in 0..Len(Encoded(g))-1 /\ b = Encoded(g)[k + 1]

\* The parser goes on with the frame; and only at its end comes a FEND.
LEMMA FollowsOn ==
  ASSUME NEW g, Commanded(g), NEW M \in Nat, NEW q,
         NEW k \in Nat, Follows(q, k, g, M), NEW b, ComesAfter(b, k, g)
  PROVE  /\ Follows(AfterByte(q, b, M), k + 1, g, M)
         /\ b = FEND <=> k = 0 \/ k + 1 = Len(Encoded(g))
         /\ b = FEND /\ k > 0 => q = Reading(g, Len(g.payload), FALSE, M)
<1> DEFINE p == g.payload
           N == Len(p)
           e == Encoded(g)
           L == Starts(g)
<1>1. p \in Seq(Byte) /\ N \in Nat /\ g.cmd \in Byte /\ \A n \in 1..N : p[n] \in Byte
  BY PayloadIs DEF Commanded
<1>2. /\ L \in [0..N -> Nat] /\ L[0] = 2
      /\ \A n \in 0..N : 2 <= L[n] /\ L[n] <= L[N]
      /\ e \in Seq(Byte) /\ Len(e) = L[N] + 1
      /\ e[1] = FEND /\ e[2] = g.cmd /\ e[L[N] + 1] = FEND
      /\ \A n \in 1..N :
           /\ L[n] = L[n - 1] + Len(Escaped(p[n]))
           /\ e[L[n - 1] + 1] = Escaped(p[n])[1]
           /\ p[n] \in {FEND, FESC} => e[L[n - 1] + 2] = Escaped(p[n])[2]
  BY StartsAre DEF Layout, Commanded
<1>3. g.cmd # FEND /\ g.cmd # CMD_UNKNOWN
  BY DEF Commanded
<1>4. ASSUME NEW x
      PROVE  AfterByte(x, FEND, M) = AtFend
  <2>1. FESC # FEND
    BY DEF FEND, FESC
  <2> QED
    BY <2>1 DEF AfterByte
<1>5. ASSUME NEW n \in 1..N
      PROVE  /\ n - 1 \in 0..N /\ n \in 0..N /\ N \in 0..N
             /\ L[n] \in Nat /\ L[n - 1] \in Nat /\ L[N] \in Nat
             /\ 2 <= L[n - 1] /\ L[n - 1] < L[N]
  <2>1. n - 1 \in 0..N /\ n \in 0..N /\ N \in 0..N
    BY <1>1
  <2>2. L[n] \in Nat /\ L[n - 1] \in Nat /\ L[N] \in Nat
    BY <1>2, <2>1
  <2>3. Len(Escaped(p[n])) \in {1, 2}
    <3>1. p[n] \in Byte
      BY <1>1
    <3> QED
      BY <3>1, EscapedIs
  <2>4. L[n] = L[n - 1] + Len(Escaped(p[n])) /\ L[n] <= L[N] /\ 2 <= L[n - 1]
    BY <1>2, <2>1
  <2>5. L[n - 1] < L[n]
    <3> DEFINE l == Len(Escaped(p[n]))
    <3>1. l \in {1, 2} /\ L[n] = L[n - 1] + l
      BY <2>3, <2>4
    <3> HIDE DEF l
    <3> QED
      BY <2>2, <3>1
  <2> QED
    BY <2>1, <2>2, <2>4, <2>5
<1>6. N \in 0..N /\ L[N] \in Nat /\ 2 <= L[N] /\ k <= L[N] /\ Len(e) = L[N] + 1
  <2>1. N \in 0..N
    BY <1>1
  <2>2. L[N] \in Nat /\ 2 <= L[N]
    BY <1>2, <2>1
  <2>3. Len(e) = L[N] + 1 /\ k < Len(e)
    BY <1>2 DEF ComesAfter
  <2> HIDE DEF L, N, e
  <2> QED
    BY <2>1, <2>2, <2>3
<1>11. b = e[k + 1]
  BY DEF ComesAfter
<1> HIDE DEF N, p, e, L
<1>7. CASE k = 0
  <2>1. b = FEND
    BY <1>2, <1>7, <1>11
  <2>2. AfterByte(q, b, M) = AtFend
    BY <1>4, <2>1
  <2>3. Follows(AfterByte(q, b, M), k + 1, g, M)
    <3>1. k + 1 = 1
      BY <1>7
    <3> QED
      BY <2>2, <3>1, Zenon DEF Follows
  <2> QED
    BY <1>7, <2>1, <2>3
<1>8. CASE k = 1 /\ q = AtFend
  <2>1. b = g.cmd
    BY <1>2, <1>8, <1>11
  <2>2. AfterByte(q, b, M) = Reading(g, 0, FALSE, M)
    BY <1>8, <2>1, CommandRead
  <2>3. 0 \in 0..N /\ k + 1 = L[0]
    BY <1>1, <1>2, <1>8
  <2>4. Follows(AfterByte(q, b, M), k + 1, g, M)
    BY <2>2, <2>3 DEF Follows, L, N, p
  <2>5. b # FEND /\ k + 1 # Len(e) /\ k # 0
    BY <1>2, <1>3, <1>6, <1>8, <2>1
  <2> QED
    BY <2>4, <2>5, Zenon DEF e
<1>9. ASSUME NEW n \in 0..N, k = L[n], q = Reading(g, n, FALSE, M)
      PROVE  /\ Follows(AfterByte(q, b, M), k + 1, g, M)
             /\ b = FEND <=> n = N
             /\ n = N <=> k + 1 = Len(e)
             /\ k > 0
  <2>1. q.inFrame /\ ~q.escape /\ q.cmd = g.cmd
    BY <1>9 DEF Reading
  <2>2. CASE n = N
    <3>1. b = FEND /\ k + 1 = Len(e)
      BY <1>2, <1>9, <1>11, <2>2
    <3>2. AfterByte(q, b, M) = AtFend
      BY <1>4, <3>1
    <3>3. Follows(AfterByte(q, b, M), k + 1, g, M)
      BY <3>1, <3>2 DEF Follows, e
    <3>4. k > 0
      BY <1>6, <1>9, <2>2
    <3> QED
      BY <2>2, <3>1, <3>3, <3>4, Zenon
  <2>3. CASE n # N
    <3> DEFINE m == n + 1
    <3>1. m \in 1..N /\ m - 1 = n
      BY <1>1, <2>3
    <3> HIDE DEF m
    <3>2. p[m] \in Byte /\ b = Escaped(p[m])[1] /\ k = L[m - 1] /\ k < L[N] /\ k >= 2
      BY <1>1, <1>2, <1>5, <1>9, <1>11, <3>1
    <3>3. b # FEND /\ k + 1 # Len(e)
      <4>1. b # FEND
        BY <3>2, EscapedIs
      <4> QED
        BY <1>2, <1>6, <3>2, <4>1
    <3>4. CASE p[m] \in {FEND, FESC}
      <4>1. b = FESC
        BY <3>2, <3>4, EscapedIs
      <4>2. AfterByte(q, b, M) = [q EXCEPT !.escape = TRUE]
        BY <1>3, <2>1, <3>3, <4>1, Zenon DEF AfterByte
      <4>3. [q EXCEPT !.escape = TRUE] = Reading(g, m - 1, TRUE, M)
        <5> DEFINE rx == SubSeq(g.payload, 1, Smaller(n, M))
        <5>1. q = [inFrame |-> TRUE, escape |-> FALSE, cmd |-> g.cmd, rx |-> rx]
          BY <1>9 DEF Reading
        <5>2. Reading(g, m - 1, TRUE, M) =
                [inFrame |-> TRUE, escape |-> TRUE, cmd |-> g.cmd, rx |-> rx]
          BY <3>1 DEF Reading
        <5> DEFINE yes == TRUE
                   no == FALSE
        <5>3. q = [inFrame |-> yes, escape |-> no, cmd |-> g.cmd, rx |-> rx]
          BY <5>1
        <5> HIDE DEF rx, yes, no
        <5>4. [q EXCEPT !.escape = yes] =
                [inFrame |-> yes, escape |-> yes, cmd |-> g.cmd, rx |-> rx]
          BY <5>3
        <5> QED
          BY <5>2, <5>4 DEF yes
      <4>4. Follows(AfterByte(q, b, M), k + 1, g, M)
        BY <3>1, <3>2, <3>4, <4>2, <4>3 DEF Follows, L, N, p
      <4> QED
        BY <2>3, <3>2, <3>3, <4>4
    <3>5. CASE p[m] \notin {FEND, FESC}
      <4>1. b = p[m] /\ Len(Escaped(p[m])) = 1
        BY <3>2, <3>5, EscapedIs
      <4>2. AfterByte(q, b, M) = Stored(q, b, M)
        <5>1. b # FESC
          BY <3>5, <4>1
        <5> QED
          BY <1>3, <2>1, <3>3, <5>1, Zenon DEF AfterByte
      <4>3. Unescaped(q, b) = p[m]
        BY <2>1, <4>1, Zenon DEF Unescaped
      <4>4. Stored(q, b, M) = Reading(g, m, FALSE, M)
        <5>1. q = Reading(g, m - 1, FALSE, M) /\ m \in 1..Len(g.payload)
          BY <1>9, <3>1 DEF N, p
        <5> QED
          BY <4>3, <5>1, ByteStored DEF p
      <4>5. k + 1 = L[m] /\ m \in 0..N
        <5>1. L[m] = L[m - 1] + Len(Escaped(p[m]))
          BY <1>2, <3>1
        <5>2. m \in 0..N
          BY <1>5, <3>1
        <5> QED
          BY <3>2, <4>1, <5>1, <5>2
      <4>6. Follows(AfterByte(q, b, M), k + 1, g, M)
        BY <4>2, <4>4, <4>5 DEF Follows, L, N, p
      <4> QED
        BY <2>3, <3>2, <3>3, <4>6
    <3> QED
      BY <3>4, <3>5
  <2> QED
    BY <2>2, <2>3
<1>10. ASSUME NEW n \in 1..N, p[n] \in {FEND, FESC},
              k = L[n - 1] + 1, q = Reading(g, n - 1, TRUE, M)
       PROVE  /\ Follows(AfterByte(q, b, M), k + 1, g, M)
              /\ b # FEND /\ k + 1 # Len(e) /\ k > 0
  <2>1. q.inFrame /\ q.escape /\ q.cmd = g.cmd
    BY <1>10 DEF Reading
  <2>2. p[n] \in Byte /\ Len(Escaped(p[n])) = 2
        /\ Escaped(p[n])[2] = IF p[n] = FEND THEN TFEND ELSE TFESC
    <3>1. p[n] \in Byte
      BY <1>1
    <3> QED
      BY <1>10, <3>1, EscapedIs
  <2>3. b = IF p[n] = FEND THEN TFEND ELSE TFESC
    <3>1. k + 1 = L[n - 1] + 2
      BY <1>5, <1>10
    <3> QED
      BY <1>2, <1>10, <1>11, <2>2, <3>1
  <2>4. b # FEND /\ b # FESC
    BY <2>3 DEF FEND, FESC, TFEND, TFESC
  <2>5. AfterByte(q, b, M) = Stored(q, b, M)
    BY <1>3, <2>1, <2>4, Zenon DEF AfterByte
  <2>6. Unescaped(q, b) = p[n]
    <3>1. TFEND # TFESC
      BY DEF TFEND, TFESC
    <3> QED
      BY <1>10, <2>1, <2>3, <3>1 DEF Unescaped
  <2>7. Stored(q, b, M) = Reading(g, n, FALSE, M)
    <3>1. n \in 1..Len(g.payload)
      BY DEF N, p
    <3> QED
      BY <1>10, <2>6, <3>1, ByteStored DEF p
  <2>8. k + 1 = L[n] /\ n \in 0..N
    <3>1. L[n] = L[n - 1] + Len(Escaped(p[n]))
      BY <1>2
    <3> QED
      BY <1>5, <1>10, <2>2, <3>1
  <2>9. Follows(AfterByte(q, b, M), k + 1, g, M)
    BY <2>5, <2>7, <2>8 DEF Follows, L, N, p
  <2>10. k + 1 # Len(e) /\ k > 0
    BY <1>2, <1>5, <1>6, <2>8
  <2> QED
    BY <2>4, <2>9, <2>10
<1> QED
  <2>1. \/ k = 0
        \/ k = 1 /\ q = AtFend
        \/ \E n \in 0..N : k = L[n] /\ q = Reading(g, n, FALSE, M)
        \/ \E n \in 1..N :
             /\ p[n] \in {FEND, FESC}
             /\ k = L[n - 1] + 1 /\ q = Reading(g, n - 1, TRUE, M)
    <3>1. k # Len(e)
      BY <1>2, <1>6
    <3> QED
      BY <3>1 DEF Follows, p, N, L, e
  <2>2. CASE \E n \in 0..N : k = L[n] /\ q = Reading(g, n, FALSE, M)
    <3>1. PICK n \in 0..N : k = L[n] /\ q = Reading(g, n, FALSE, M)
      BY <2>2
    <3>2. /\ Follows(AfterByte(q, b, M), k + 1, g, M)
          /\ b = FEND <=> n = N
          /\ n = N <=> k + 1 = Len(e)
          /\ k > 0
      BY <1>9, <3>1
    <3>3. n = N => q = Reading(g, N, FALSE, M)
      BY <3>1
    <3>4. k # 0
      BY <3>2
    <3> QED
      BY <3>2, <3>3, <3>4, Zenon DEF e, N, p
  <2>3. CASE \E n \in 1..N : /\ p[n] \in {FEND, FESC}
                            /\ k = L[n - 1] + 1 /\ q = Reading(g, n - 1, TRUE, M)
    <3>1. /\ Follows(AfterByte(q, b, M), k + 1, g, M)
          /\ b # FEND /\ k + 1 # Len(e) /\ k > 0
      BY <1>10, <2>3
    <3>2. k # 0
      BY <3>1
    <3> QED
      BY <3>1, <3>2, Zenon DEF e
  <2> QED
    BY <1>7, <1>8, <2>1, <2>2, <2>3

\* A parser that has read some of the frame of g, and with it the whole payload.
LEMMA FollowsLegible ==
  ASSUME NEW g, Commanded(g), NEW M \in Nat, NEW k \in Nat, k > 0,
         NEW q, Follows(q, k, g, M), NEW S, g \in S
  PROVE  Legible(q, S)
<1> DEFINE p == g.payload
<1>1. p \in Seq(Byte) /\ Len(p) \in Nat
  BY PayloadIs DEF Commanded
<1>2. q = AtFend => ~(q.cmd # CMD_UNKNOWN)
  BY AtFendIs DEF CMD_UNKNOWN
<1>3. ASSUME NEW n \in 0..Len(p), NEW escape, q = Reading(g, n, escape, M)
      PROVE  BeginsOneOf(FrameOf(q), S)
  <2> DEFINE m == Smaller(n, M)
             rx == SubSeq(p, 1, m)
  <2>1. m \in 0..Len(p)
    BY <1>1 DEF Smaller
  <2>2. FrameOf(q).cmd = g.cmd /\ FrameOf(q).payload = rx
    BY <1>3 DEF FrameOf, Reading
  <2> HIDE DEF m, p
  <2>3. Len(rx) = m /\ SubSeq(rx, 1, m) = rx
    BY <1>1, <2>1
  <2>4. IsPrefix(rx, p)
    <3> HIDE DEF rx
    <3>1. Len(rx) <= Len(p)
      BY <1>1, <2>1, <2>3
    <3> QED
      BY <2>3, <3>1 DEF IsPrefix, rx
  <2> HIDE DEF rx
  <2> QED
    BY <2>2, <2>4 DEF BeginsOneOf, p
<1>4. \/ q = AtFend
      \/ \E n \in 0..Len(p) : q = Reading(g, n, FALSE, M)
      \/ \E n \in 0..Len(p) : q = Reading(g, n, TRUE, M)
  <2>1. \A n \in 1..Len(p) : n - 1 \in 0..Len(p)
    BY <1>1
  <2>2. k # 0
    OBVIOUS
  <2> HIDE DEF p
  <2>3. \/ q = AtFend
        \/ \E n \in 0..Len(p) : q = Reading(g, n, FALSE, M)
        \/ \E n \in 1..Len(p) : q = Reading(g, n - 1, TRUE, M)
    BY <2>2, Zenon DEF Follows, p
  <2> QED
    BY <2>1, <2>3
<1> QED
  BY <1>2, <1>3, <1>4 DEF Legible

LEMMA WholeFrame ==
  ASSUME NEW g \in Frames, NEW M \in Nat, Len(g.payload) <= M,
         NEW q, q = Reading(g, Len(g.payload), FALSE, M)
  PROVE  q.inFrame /\ q.cmd = g.cmd /\ FrameOf(q) = g
<1> DEFINE p == g.payload
<1>1. p \in Seq(Byte) /\ Len(p) \in Nat /\ g = [cmd |-> g.cmd, payload |-> p]
  BY DEF Frames
<1>2. Smaller(Len(p), M) = Len(p)
  BY <1>1 DEF Smaller
<1>3. SubSeq(p, 1, Len(p)) = p
  BY <1>1
<1>5. q.inFrame /\ q.cmd = g.cmd /\ q.rx = p
  <2>1. q.inFrame /\ q.cmd = g.cmd /\ q.rx = SubSeq(p, 1, Smaller(Len(p), M))
    BY DEF Reading
  <2> QED
    BY <1>2, <1>3, <2>1
<1> HIDE DEF p
<1>6. FrameOf(q) = [cmd |-> g.cmd, payload |-> p]
  BY <1>5, Zenon DEF FrameOf
<1> QED
  BY <1>1, <1>5, <1>6

LEMMA LegibleInMore ==
  ASSUME NEW S, NEW T, S \subseteq T, NEW q, Legible(q, S)
  PROVE  Legible(q, T)
BY DEF Legible, BeginsOneOf

LEMMA EncodedIs ==
  ASSUME NEW g \in Frames
  PROVE  Encoded(g) \in Seq(Byte) /\ Len(Encoded(g)) \in Nat /\ Len(Encoded(g)) >= 3
<1>1. Layout(g, Starts(g))
  BY StartsAre
<1> DEFINE e == Encoded(g)
           L == Starts(g)
           N == Len(g.payload)
<1>2. N \in 0..N
  BY PayloadIs
<1>3. e \in Seq(Byte) /\ Len(e) = L[N] + 1 /\ L \in [0..N -> Nat] /\ \A n \in 0..N : 2 <= L[n]
  BY <1>1 DEF Layout
<1> HIDE DEF e, L, N
<1>4. L[N] \in Nat /\ 2 <= L[N]
  BY <1>2, <1>3
<1>5. e \in Seq(Byte) /\ Len(e) \in Nat /\ Len(e) >= 3
  BY <1>3, <1>4
<1> QED
  BY <1>5 DEF e

\* Parser q reads m bytes more of the frame of g.
Run(r, q, k, m, g, M, S) ==
    /\ r \in [0..m -> Parsers] /\ r[0] = q
    /\ \A i \in 1..m : r[i] = AfterByte(r[i - 1], Encoded(g)[k + i], M)
    /\ \A i \in 0..m : Follows(r[i], k + i, g, M) /\ Legible(r[i], S)

LEMMA Reads ==
  ASSUME NEW g, Commanded(g), NEW M \in Nat, NEW k \in Nat, NEW m \in Nat,
         k + m <= Len(Encoded(g)), NEW q \in Parsers, Follows(q, k, g, M),
         NEW S, g \in S, Legible(q, S)
  PROVE  \E r : Run(r, q, k, m, g, M, S)
<1> DEFINE e == Encoded(g)
           step == [i \in 1..m |-> [x \in Parsers |-> AfterByte(x, e[k + i], M)]]
<1>1. e \in Seq(Byte) /\ Len(e) \in Nat /\ Len(e) >= 3 /\ k + m <= Len(e)
  BY EncodedIs DEF Commanded
<1> HIDE DEF e
<1>2. \A i \in 1..m : k + i \in 1..Len(e) /\ e[k + i] \in Byte
  BY <1>1
<1>3. step \in [1..m -> [Parsers -> Parsers]]
  BY <1>2, AfterByteType
<1>4. PICK r : Steps(r, Parsers, q, m, step)
  <2> HIDE DEF step
  <2> QED
    BY <1>3, StepsExist
<1>5. r \in [0..m -> Parsers] /\ r[0] = q
  BY <1>4 DEF Steps
<1>6. ASSUME NEW i \in 1..m
      PROVE  i - 1 \in 0..m /\ r[i] = AfterByte(r[i - 1], e[k + i], M)
  <2>1. i - 1 \in 0..m /\ r[i - 1] \in Parsers
    BY <1>5
  <2>2. r[i] = step[i][r[i - 1]]
    BY <1>4 DEF Steps
  <2> QED
    BY <2>1, <2>2
<1> HIDE DEF step
<1>7. ASSUME NEW i \in 0..m PROVE Follows(r[i], k + i, g, M) /\ Legible(r[i], S)
  <2> DEFINE A == {n \in Nat : n <= m => Follows(r[n], k + n, g, M) /\ Legible(r[n], S)}
  <2>1. 0 \in A
    BY <1>5
  <2>2. ASSUME NEW n \in A PROVE n + 1 \in A
    <3>1. SUFFICES ASSUME n + 1 <= m
                   PROVE  Follows(r[n + 1], k + (n + 1), g, M) /\ Legible(r[n + 1], S)
      OBVIOUS
    <3>2. /\ n \in Nat /\ n + 1 \in 1..m /\ (n + 1) - 1 = n
          /\ k + n \in Nat /\ (k + n) + 1 = k + (n + 1)
      BY <3>1
    <3>3. Follows(r[n], k + n, g, M)
      BY <3>1
    <3>4. ComesAfter(e[k + (n + 1)], k + n, g)
      BY <1>1, <3>1, <3>2 DEF ComesAfter, e
    <3>5. r[n + 1] = AfterByte(r[n], e[k + (n + 1)], M)
      BY <1>6, <3>2
    <3>6. Follows(r[n + 1], (k + n) + 1, g, M)
      <4> DEFINE x == r[n]
                 b == e[k + (n + 1)]
                 j == k + n
      <4>1. Follows(x, j, g, M) /\ ComesAfter(b, j, g) /\ j \in Nat
        BY <3>2, <3>3, <3>4
      <4>2. r[n + 1] = AfterByte(x, b, M)
        BY <3>5
      <4> HIDE DEF x, b, j
      <4>3. Follows(AfterByte(x, b, M), j + 1, g, M)
        BY <4>1, FollowsOn
      <4> QED
        BY <4>2, <4>3 DEF j
    <3>7. Follows(r[n + 1], k + (n + 1), g, M) /\ k + (n + 1) \in Nat /\ k + (n + 1) > 0
      BY <3>2, <3>6
    <3>8. Legible(r[n + 1], S)
      BY <3>7, FollowsLegible
    <3> QED
      BY <3>7, <3>8
  <2>3. A \in SUBSET Nat
    OBVIOUS
  <2>4. A = Nat
    <3> HIDE DEF A
    <3> QED
      BY <2>1, <2>2, <2>3, NumberByNumber
  <2> QED
    BY <2>4
<1> QED
  BY <1>5, <1>6, <1>7 DEF e, Run

\* What a parser has read and what it got from that.
Listening == [q : Parsers, got : SUBSET Frames]

LEMMA TakenByteType ==
  ASSUME NEW x \in Listening, NEW b \in Byte
  PROVE  TakenByte(x, b) \in Listening
<1>1. x.q \in Parsers /\ x.got \in SUBSET Frames /\ Len(x.q.rx) + 1 \in Nat
  BY DEF Listening, Parsers
<1> DEFINE a == AfterByte(x.q, b, Len(x.q.rx) + 1)
           s == IF EndsFrame(x.q, b) THEN x.got \cup {FrameOf(x.q)} ELSE x.got
<1>2. a \in Parsers
  BY <1>1, AfterByteType
<1>3. s \in SUBSET Frames
  BY <1>1, FrameOfIs
<1>4. TakenByte(x, b) = [q |-> a, got |-> s]
  BY DEF TakenByte
<1> HIDE DEF a, s
<1> QED
  BY <1>2, <1>3, <1>4 DEF Listening

\* Taken goes through the bytes one by one.
LEMMA TakenIs ==
  ASSUME central.parser \in Parsers, NEW s \in Seq(Byte)
  PROVE  \E t : /\ t \in [0..Len(s) -> Listening]
                /\ t[0].q = central.parser /\ t[0].got = {}
                /\ \A i \in 1..Len(s) : t[i] = TakenByte(t[i - 1], s[i])
                /\ Taken(s) = t[Len(s)]
<1> DEFINE N == Len(s)
           v0 == [q |-> central.parser, got |-> {}]
           Eq(h) == h = [i \in 0..N |-> IF i = 0 THEN v0 ELSE TakenByte(h[i - 1], s[i])]
           t == CHOOSE h : Eq(h)
           step == [i \in 1..N |-> [x \in Listening |-> TakenByte(x, s[i])]]
<1>1. N \in Nat /\ \A i \in 1..N : s[i] \in Byte
  OBVIOUS
<1>2. v0 \in Listening /\ v0.q = central.parser /\ v0.got = {}
  BY DEF Listening
<1>3. Taken(s) = t[N]
  BY DEF Taken
<1> HIDE DEF N, v0
<1>4. PICK g : Steps(g, Listening, v0, N, step)
  <2>1. step \in [1..N -> [Listening -> Listening]]
    BY <1>1, TakenByteType
  <2> HIDE DEF step
  <2> QED
    BY <1>1, <1>2, <2>1, StepsExist
<1>5. g \in [0..N -> Listening] /\ g[0] = v0
  BY <1>4 DEF Steps
<1>6. ASSUME NEW i \in 1..N
      PROVE  g[i] = TakenByte(g[i - 1], s[i])
  <2>1. g[i - 1] \in Listening
    BY <1>1, <1>5
  <2>2. g[i] = step[i][g[i - 1]]
    BY <1>4 DEF Steps
  <2> QED
    BY <2>1, <2>2
<1> HIDE DEF step
<1>7. Eq(g)
  <2>1. ASSUME NEW i \in 0..N
        PROVE  g[i] = IF i = 0 THEN v0 ELSE TakenByte(g[i - 1], s[i])
    BY <1>1, <1>5, <1>6
  <2>2. g = [i \in 0..N |-> g[i]]
    BY <1>5
  <2>3. [i \in 0..N |-> g[i]] =
          [i \in 0..N |-> IF i = 0 THEN v0 ELSE TakenByte(g[i - 1], s[i])]
    BY <2>1
  <2> QED
    BY <2>2, <2>3, Zenon
<1>8. t = [i \in 0..N |-> IF i = 0 THEN v0 ELSE TakenByte(t[i - 1], s[i])]
  <2>1. Eq(t)
    <3> HIDE DEF Eq
    <3> QED
      BY <1>7
  <2> HIDE DEF t
  <2> QED
    BY <2>1
<1> HIDE DEF t
<1>9. t[0] = v0 /\ \A i \in 1..N : t[i] = TakenByte(t[i - 1], s[i])
  <2>1. \A i \in 0..N : t[i] = IF i = 0 THEN v0 ELSE TakenByte(t[i - 1], s[i])
    BY <1>8
  <2>2. \A i \in 1..N : i \in 0..N /\ i # 0
    BY <1>1
  <2>3. 0 \in 0..N
    BY <1>1
  <2> QED
    BY <2>1, <2>2, <2>3
<1>10. \A n \in Nat : n \in 0..N => t[n] \in Listening
  <2> DEFINE A == {n \in Nat : n \in 0..N => t[n] \in Listening}
  <2>1. 0 \in A
    BY <1>2, <1>9
  <2>2. ASSUME NEW n \in A PROVE n + 1 \in A
    <3>1. SUFFICES ASSUME n + 1 \in 0..N PROVE t[n + 1] \in Listening
      OBVIOUS
    <3>2. n \in 0..N /\ n + 1 \in 1..N /\ (n + 1) - 1 = n
      BY <1>1, <3>1
    <3>3. t[n] \in Listening /\ s[n + 1] \in Byte
      BY <1>1, <3>2
    <3>4. t[n + 1] = TakenByte(t[(n + 1) - 1], s[n + 1])
      BY <1>9, <3>2
    <3>5. t[n + 1] = TakenByte(t[n], s[n + 1])
      BY <3>2, <3>4
    <3> QED
      BY <3>3, <3>5, TakenByteType
  <2>3. A \in SUBSET Nat
    OBVIOUS
  <2>4. A = Nat
    <3> HIDE DEF A
    <3> QED
      BY <2>1, <2>2, <2>3, NumberByNumber
  <2> QED
    BY <2>4
<1>11. t \in [0..N -> Listening]
  <2>1. DOMAIN t = 0..N /\ t = [i \in 0..N |-> t[i]]
    BY <1>8
  <2>2. \A i \in 0..N : t[i] \in Listening
    BY <1>1, <1>10
  <2> QED
    BY <2>1, <2>2
<1> QED
  BY <1>2, <1>3, <1>9, <1>11 DEF N

\* A parser follows the frame of g, or would if it had not come in too late.
Room(g) == Len(g.payload) + 1
Tracks(q, k, g) ==
    \E x \in Parsers : /\ Follows(x, k, g, Room(g))
                       /\ q = x \/ (k > 0 /\ ~q.inFrame)

\* So it goes on; what it takes for a frame is one it may, and g if it is in step.
LEMMA TracksOn ==
  ASSUME NEW g, Commanded(g), NEW k \in Nat, NEW q \in Parsers, Tracks(q, k, g),
         NEW b \in Byte, ComesAfter(b, k, g), NEW S, g \in S, Legible(q, S),
         NEW q2, q2 = AfterByte(q, b, Len(q.rx) + 1)
  PROVE  /\ q2 \in Parsers /\ Tracks(q2, k + 1, g) /\ Legible(q2, S)
         /\ EndsFrame(q, b) => BeginsOneOf(FrameOf(q), S)
         /\ Follows(q, k, g, Room(g)) =>
              /\ Follows(q2, k + 1, g, Room(g))
              /\ k + 1 = Len(Encoded(g)) => EndsFrame(q, b) /\ FrameOf(q) = g
<1> DEFINE M == Room(g)
<1>1. g \in Frames /\ g.cmd # FEND /\ g.cmd # CMD_UNKNOWN
  BY DEF Commanded
<1>2. M \in Nat /\ Len(g.payload) <= M /\ Len(g.payload) < M /\ Len(g.payload) \in Nat
  BY <1>1, PayloadIs DEF Room
<1>3. Len(q.rx) \in Nat /\ q.rx \in Seq(Byte)
  BY DEF Parsers
<1>4. q2 \in Parsers
  BY <1>3, AfterByteType
<1>5. EndsFrame(q, b) => BeginsOneOf(FrameOf(q), S)
  BY DEF EndsFrame, Legible
<1>6. FESC # FEND
  BY DEF FESC, FEND
<1>7. b = FEND => q2 = AtFend /\ \A x : AfterByte(x, b, M) = AtFend
  BY <1>6 DEF AfterByte
<1>8. b # FEND /\ ~q.inFrame => q2 = q
  BY Zenon DEF AfterByte
<1> HIDE DEF M
<1>9. ASSUME Len(q.rx) < M
      PROVE  q2 = AfterByte(q, b, M)
  <2>1. Stored(q, b, Len(q.rx) + 1) = Stored(q, b, M)
    <3>1. Len(q.rx) < Len(q.rx) + 1 /\ Len(q.rx) < M
      BY <1>3, <1>9
    <3> HIDE <1>9
    <3> QED
      BY <3>1 DEF Stored
  <2> QED
    BY <2>1 DEF AfterByte
<1>10. ASSUME Follows(q, k, g, M), k > 0
       PROVE  Len(q.rx) < M
  <2>1. q = AtFend => Len(q.rx) = 0
    BY AtFendIs
  <2>2. ASSUME NEW n \in 0..Len(g.payload), NEW escape, q = Reading(g, n, escape, M)
        PROVE  Len(q.rx) < M
    <3>1. q.rx = SubSeq(g.payload, 1, Smaller(n, M))
      BY <2>2 DEF Reading
    <3>2. Smaller(n, M) \in 0..Len(g.payload)
      BY <1>2 DEF Smaller
    <3>3. Len(q.rx) = Smaller(n, M)
      <4>1. g.payload \in Seq(Byte)
        BY <1>1, PayloadIs
      <4> QED
        BY <3>1, <3>2, <4>1
    <3> QED
      BY <1>2, <3>2, <3>3
  <2>3. \A n \in 1..Len(g.payload) : n - 1 \in 0..Len(g.payload)
    BY <1>2
  <2>4. \/ q = AtFend
        \/ \E n \in 0..Len(g.payload) : q = Reading(g, n, FALSE, M)
        \/ \E n \in 1..Len(g.payload) : q = Reading(g, n - 1, TRUE, M)
    <3>1. k # 0
      BY <1>10
    <3> QED
      BY <1>10, <3>1, Zenon DEF Follows
  <2>5. CASE q = AtFend
    BY <1>2, <2>1, <2>5
  <2>6. CASE \E n \in 0..Len(g.payload) : q = Reading(g, n, FALSE, M)
    BY <2>2, <2>6
  <2>7. CASE \E n \in 1..Len(g.payload) : q = Reading(g, n - 1, TRUE, M)
    BY <2>2, <2>3, <2>7
  <2> QED
    BY <2>4, <2>5, <2>6, <2>7
<1>11. ASSUME Follows(q, k, g, M)
       PROVE  /\ q2 = AfterByte(q, b, M) /\ Follows(q2, k + 1, g, M)
              /\ k + 1 = Len(Encoded(g)) => EndsFrame(q, b) /\ FrameOf(q) = g
  <2>1. q2 = AfterByte(q, b, M)
    <3>1. k = 0 => b = FEND
      <4>1. k = 0 => Follows(q, k, g, M)
        BY <1>11
      <4>2. b = FEND <=> k = 0 \/ k + 1 = Len(Encoded(g))
        BY <1>2, <1>11, FollowsOn
      <4> QED
        BY <4>2
    <3>2. k = 0 \/ k > 0
      OBVIOUS
    <3> QED
      BY <1>7, <1>9, <1>10, <1>11, <3>1, <3>2
  <2>2. /\ Follows(AfterByte(q, b, M), k + 1, g, M)
        /\ b = FEND <=> k = 0 \/ k + 1 = Len(Encoded(g))
        /\ b = FEND /\ k > 0 => q = Reading(g, Len(g.payload), FALSE, M)
    BY <1>2, <1>11, FollowsOn
  <2>3. ASSUME k + 1 = Len(Encoded(g))
        PROVE  EndsFrame(q, b) /\ FrameOf(q) = g
    <3>1. b = FEND /\ k > 0
      <4>1. Len(Encoded(g)) >= 3
        BY <1>1, EncodedIs
      <4> QED
        BY <2>2, <2>3, <4>1
    <3>2. q = Reading(g, Len(g.payload), FALSE, M)
      BY <2>2, <3>1
    <3>3. q.inFrame /\ q.cmd = g.cmd /\ FrameOf(q) = g
      BY <1>1, <1>2, <3>2, WholeFrame
    <3> QED
      BY <1>1, <3>1, <3>3 DEF EndsFrame
  <2> QED
    BY <2>1, <2>2, <2>3, Zenon
<1>12. Tracks(q2, k + 1, g)
  <2>1. PICK x \in Parsers : Follows(x, k, g, M) /\ (q = x \/ (k > 0 /\ ~q.inFrame))
    BY DEF Tracks, M
  <2> DEFINE x2 == AfterByte(x, b, M)
  <2>2. Follows(x2, k + 1, g, M) /\ x2 \in Parsers
    BY <1>2, <2>1, FollowsOn, AfterByteType
  <2>3. q2 = x2 \/ ~q2.inFrame
    <3>1. CASE q = x
      BY <1>11, <2>1, <3>1
    <3>2. CASE ~q.inFrame
      BY <1>7, <1>8, <3>2
    <3> QED
      BY <2>1, <3>1, <3>2
  <2>4. k + 1 > 0
    OBVIOUS
  <2> HIDE DEF x2
  <2> QED
    BY <2>2, <2>3, <2>4 DEF Tracks, M
<1>13. Legible(q2, S)
  <2>1. PICK x \in Parsers : /\ Follows(x, k + 1, g, M)
                             /\ q2 = x \/ (k + 1 > 0 /\ ~q2.inFrame)
    BY <1>12 DEF Tracks, M
  <2>2. CASE q2 = x
    <3> DEFINE j == k + 1
    <3>1. j \in Nat /\ j > 0 /\ Follows(q2, j, g, M)
      BY <2>1, <2>2
    <3> HIDE DEF j
    <3> QED
      BY <1>2, <3>1, FollowsLegible
  <2>3. CASE ~q2.inFrame
    BY <2>3 DEF Legible
  <2> QED
    BY <2>1, <2>2, <2>3
<1> QED
  BY <1>4, <1>5, <1>11, <1>12, <1>13, Zenon DEF M

\* Bytes of the frame of g, after k others.
PieceOf(bytes, k, g) ==
    /\ bytes \in Seq(Byte) /\ k + Len(bytes) <= Len(Encoded(g))
    /\ \A i \in 1..Len(bytes) : bytes[i] = Encoded(g)[k + i]

\* What a central has after such bytes: something of S, and g if it is in step
\* and they are the last.
Heard(bytes, k, g, S) ==
    LET j == k + Len(bytes)
        t == Taken(bytes)
    IN  /\ t.q \in Parsers /\ Tracks(t.q, j, g) /\ Legible(t.q, S)
        /\ \A f \in t.got : BeginsOneOf(f, S)
        /\ Follows(central.parser, k, g, Room(g)) =>
             /\ Follows(t.q, j, g, Room(g))
             /\ Len(bytes) > 0 /\ j = Len(Encoded(g)) => g \in t.got

LEMMA Hears ==
  ASSUME central.parser \in Parsers, NEW g, Commanded(g), NEW k \in Nat,
         Tracks(central.parser, k, g), NEW S, g \in S, Legible(central.parser, S),
         NEW bytes, PieceOf(bytes, k, g)
  PROVE  Heard(bytes, k, g, S)
<1> DEFINE m == Len(bytes)
<1>0. /\ bytes \in Seq(Byte) /\ m \in Nat /\ k + m <= Len(Encoded(g))
      /\ \A i \in 1..m : bytes[i] = Encoded(g)[k + i]
  BY DEF PieceOf
<1> DEFINE e == Encoded(g)
           InStep == Follows(central.parser, k, g, Room(g))
<1>1. PICK t : /\ t \in [0..m -> Listening]
               /\ t[0].q = central.parser /\ t[0].got = {}
               /\ \A i \in 1..m : t[i] = TakenByte(t[i - 1], bytes[i])
               /\ Taken(bytes) = t[m]
  BY <1>0, TakenIs
<1> HIDE DEF m
<1> DEFINE P(n) == /\ t[n].q \in Parsers /\ Tracks(t[n].q, k + n, g) /\ Legible(t[n].q, S)
                   /\ \A f \in t[n].got : BeginsOneOf(f, S)
                   /\ InStep =>
                        /\ Follows(t[n].q, k + n, g, Room(g))
                        /\ n > 0 /\ k + n = Len(e) => g \in t[n].got
           A == {n \in Nat : n <= m => P(n)}
<1>2. 0 \in A
  <2>1. k + 0 = k /\ ~(0 > 0)
    OBVIOUS
  <2>2. P(0)
    BY <1>1, <2>1
  <2> QED
    BY <2>2
<1>3. ASSUME NEW n \in Nat, P(n), n + 1 <= m PROVE P(n + 1)
  <2> DEFINE b == bytes[n + 1]
             x == t[n]
             y == t[n + 1]
             j == k + n
  <2>1. n + 1 \in 1..m /\ (n + 1) - 1 = n /\ j \in Nat /\ j + 1 = k + (n + 1) /\ n + 1 > 0
    BY <1>3
  <2>2. y = TakenByte(x, b)
    <3>1. t[n + 1] = TakenByte(t[(n + 1) - 1], bytes[n + 1])
      BY <1>1, <2>1
    <3> QED
      BY <2>1, <3>1
  <2>3. b \in Byte /\ b = e[j + 1]
    BY <1>0, <2>1 DEF m
  <2>4. ComesAfter(b, j, g)
    <3>1. j + 1 <= Len(e)
      BY <1>0, <1>3, <2>1, EncodedIs DEF Commanded
    <3>2. Len(e) \in Nat
      BY EncodedIs DEF Commanded
    <3> QED
      BY <2>1, <2>3, <3>1, <3>2 DEF ComesAfter
  <2>5. /\ x.q \in Parsers /\ Tracks(x.q, j, g) /\ Legible(x.q, S)
        /\ \A f \in x.got : BeginsOneOf(f, S)
        /\ InStep => Follows(x.q, j, g, Room(g))
    BY <1>3
  <2> DEFINE q == x.q
             q2 == AfterByte(q, b, Len(q.rx) + 1)
  <2>6. y.q = q2 /\ y.got = IF EndsFrame(q, b) THEN x.got \cup {FrameOf(q)} ELSE x.got
    BY <2>2 DEF TakenByte
  <2> HIDE DEF b, x, y, j, InStep, e, P
  <2>7. /\ q2 \in Parsers /\ Tracks(q2, j + 1, g) /\ Legible(q2, S)
        /\ EndsFrame(q, b) => BeginsOneOf(FrameOf(q), S)
        /\ Follows(q, j, g, Room(g)) =>
             /\ Follows(q2, j + 1, g, Room(g))
             /\ j + 1 = Len(Encoded(g)) => EndsFrame(q, b) /\ FrameOf(q) = g
    <3> HIDE DEF q
    <3>1. q \in Parsers /\ Tracks(q, j, g) /\ Legible(q, S)
      BY <2>5 DEF q
    <3> QED
      BY <2>1, <2>3, <2>4, <3>1, TracksOn
  <2> HIDE DEF q, q2
  <2>8. \A f \in y.got : BeginsOneOf(f, S)
    BY <2>5, <2>6, <2>7
  <2>9. InStep => /\ Follows(y.q, j + 1, g, Room(g))
                  /\ j + 1 = Len(e) => g \in y.got
    <3>1. InStep => Follows(q, j, g, Room(g))
      BY <2>5 DEF q
    <3> QED
      BY <2>6, <2>7, <3>1 DEF e
  <2>10. y.q \in Parsers /\ Tracks(y.q, j + 1, g) /\ Legible(y.q, S)
    BY <2>6, <2>7
  <2> QED
    BY <2>1, <2>8, <2>9, <2>10, Zenon DEF P, y
<1>4. \A n \in A : n + 1 \in A
  <2> HIDE DEF P
  <2> SUFFICES ASSUME NEW n \in A PROVE n + 1 \in A
    OBVIOUS
  <2>1. n \in Nat /\ m \in Nat
    BY <1>0
  <2>2. n + 1 <= m => n <= m
    BY <2>1
  <2> QED
    BY <1>3, <2>2
<1>5. A \in SUBSET Nat
  OBVIOUS
<1>6. A = Nat
  <2> HIDE DEF A
  <2> QED
    BY <1>2, <1>4, <1>5, NumberByNumber
<1>7. P(m)
  <2> HIDE DEF P
  <2> QED
    BY <1>0, <1>6
<1> QED
  BY <1>1, <1>7, Zenon DEF Heard, InStep, e, m

LEMMA TakenType ==
  ASSUME central.parser \in Parsers, NEW s \in Seq(Byte)
  PROVE  Taken(s).q \in Parsers
<1>1. PICK t : t \in [0..Len(s) -> Listening] /\ Taken(s) = t[Len(s)]
  BY TakenIs
<1>2. Len(s) \in 0..Len(s)
  OBVIOUS
<1> QED
  BY <1>1, <1>2 DEF Listening

---------------------------------------------------------------------------
(* The radio *)

\* Settings and radio as RadioAsTold wants them.
Told(c, r) ==
    /\ c = [p \in 1..6 |-> c[p]]
    /\ r \in [on : BOOLEAN, mode : {"rx", "standby"}]
    /\ c[RADIO_STATE] = <<1>> <=> r.on
    /\ ~r.on => r.mode = "standby"

\* Whatever frame is handled, every outcome is as told.
LEMMA HandledKeepsTold ==
  ASSUME Told(cfg, radio), NEW f, NEW o \in Handled(f)
  PROVE  Told(o.cfg, o.radio)
<1> DEFINE Sent == SendRaw(f.payload)
<1>1. ASSUME NEW replies, o = Answered(replies)
      PROVE  Told(o.cfg, o.radio)
  BY <1>1 DEF Answered, Outcome
<1>2. CASE o \in Sent
  <2>1. CASE \E m \in {"rx", "standby"} :
                /\ radio.on
                /\ o = Outcome(cfg, [radio EXCEPT !.mode = m], <<>>)
    <3>1. PICK m \in {"rx", "standby"} :
            radio.on /\ o = Outcome(cfg, [radio EXCEPT !.mode = m], <<>>)
      BY <2>1
    <3>2. o.cfg = cfg /\ o.radio = [radio EXCEPT !.mode = m]
      BY <3>1 DEF Outcome
    <3>3. /\ o.radio \in [on : BOOLEAN, mode : {"rx", "standby"}]
          /\ o.radio.on = radio.on
      BY <3>2 DEF Told
    <3>4. o.cfg = [p \in 1..6 |-> o.cfg[p]]
      BY <3>2 DEF Told
    <3>5. (o.cfg[RADIO_STATE] = <<1>> <=> o.radio.on) /\ o.radio.on
      BY <3>1, <3>2, <3>3, Zenon DEF Told
    <3> QED
      BY <3>3, <3>4, <3>5, Zenon DEF Told
  <2>2. \/ o = Answered(<<>>)
        \/ \E m \in {"rx", "standby"} :
             radio.on /\ o = Outcome(cfg, [radio EXCEPT !.mode = m], <<>>)
    BY <1>2, Zenon DEF SendRaw
  <2> QED
    BY <1>1, <2>1, <2>2
<1>3. CASE f.cmd \in 1..6 /\ o \in Set(f)
  <2> DEFINE v == IF f.cmd = RADIO_STATE /\ f.payload # <<1>>
                  THEN <<0>> ELSE f.payload
             r == IF f.cmd # RADIO_STATE \/ (v = <<1>>) = radio.on THEN radio
                  ELSE [on |-> v = <<1>>,
                        mode |-> IF v = <<1>> THEN "rx" ELSE "standby"]
             taken == [cfg EXCEPT ![f.cmd] = v]
  <2>1. CASE o = Outcome(taken, r, <<Frame(f.cmd, v)>>)
    <3>1. o.cfg = taken /\ o.radio = r
      BY <2>1 DEF Outcome
    <3>2. taken = [p \in 1..6 |-> IF p = f.cmd THEN v ELSE cfg[p]]
      BY <1>3 DEF Told
    <3>3. CASE f.cmd # RADIO_STATE
      BY <3>1, <3>2, <3>3 DEF Told, RADIO_STATE
    <3>4. CASE f.cmd = RADIO_STATE
      <4>1. taken[RADIO_STATE] = v
        BY <3>2, <3>4 DEF RADIO_STATE
      <4>2. /\ r \in [on : BOOLEAN, mode : {"rx", "standby"}]
            /\ r.on <=> v = <<1>>
            /\ ~r.on => r.mode = "standby"
        BY <3>4 DEF Told
      <4> QED
        BY <3>1, <3>2, <4>1, <4>2 DEF Told
    <3> QED
      BY <3>3, <3>4
  <2> QED
    BY <1>1, <1>3, <2>1 DEF Set
<1> QED
  <2>1. \/ o \in Sent \/ (f.cmd \in 1..6 /\ o \in Set(f))
        \/ \E replies : o = Answered(replies)
    BY DEF Handled, Width
  <2> QED
    BY <1>1, <1>2, <1>3, <2>1

LEMMA ToldStep == Told(cfg, radio) /\ [Next]_vars => Told(cfg, radio)'
<1> SUFFICES ASSUME Told(cfg, radio), [Next]_vars
             PROVE  Told(cfg', radio')
  BY DEF Told
<1>1. CASE Consume
  <2>1. CASE EndsFrame(parser, byte)
    BY <1>1, <2>1, HandledKeepsTold DEF Consume
  <2>2. CASE ~EndsFrame(parser, byte)
    BY <1>1, <2>2 DEF Consume, device
  <2> QED
    BY <2>1, <2>2
<1>2. CASE UNCHANGED device
  BY <1>2 DEF device
<1>3. CASE NimbleTask \/ TestReady \/ ClearReady \/ Drain \/ SendFrame \/ Cut \/ Notify
  BY <1>2, <1>3, Zenon
     DEF NimbleTask, StoreByte, Publish, TestReady, ClearReady, Drain, SendFrame,
         Cut, Notify
<1>4. CASE Connect \/ Disconnect \/ MtuExchanged \/ Subscribe \/ Write
  BY <1>2, <1>4, Zenon DEF Connect, Disconnect, MtuExchanged, Subscribe, Write
<1>5. CASE UNCHANGED vars
  BY <1>2, <1>5, Zenon DEF vars
<1> QED
  BY <1>1, <1>3, <1>4, <1>5 DEF Next, BridgeTask

\* RadioAsToldHolds: whatever frames centrals send, whole, torn or mixed, g_cfg
\* and _radio_on agree and a radio that is off stays in standby.
THEOREM RadioAsToldHolds == Spec => []RadioAsTold
<1>1. Init => Told(cfg, radio)
  BY DEF Init, Told, Defaults, RADIO_STATE
<1>2. Told(cfg, radio) => RadioAsTold
  BY DEF Told, RadioAsTold
<1> QED
  BY <1>1, <1>2, ToldStep, PTL DEF Spec

---------------------------------------------------------------------------
(* The types. *)

QueueTypes ==
    /\ ring \in [0..RingSize-1 -> Byte]
    /\ head \in 0..RingSize-1 /\ tail \in 0..RingSize-1
    /\ unstored \in Seq(Byte) /\ stored \in BOOLEAN
    /\ stored => unstored # <<>>

LinkTypes ==
    /\ conn \in Nat /\ notify \in {NotifyMin, NotifyMax} /\ pending \in BOOLEAN
    /\ conns \in Nat

ParserTypes == byte \in Byte /\ parser \in Parsers /\ Len(parser.rx) <= FrameMax

BridgeTypes ==
    /\ pc \in {"loop", "clear", "drain", "consume", "send", "cut", "notify"}
    /\ outbox \in Seq(Frames) /\ out \in Seq(Byte) /\ chunk \in Nat
    /\ pc = "notify" => chunk <= Len(out)

DeviceTypes ==
    /\ cfg \in [1..6 -> Seq(Byte)]
    /\ radio \in [on : BOOLEAN, mode : {"rx", "standby"}]

CentralTypes ==
    /\ central = [unsent |-> central.unsent, subscribed |-> central.subscribed,
                  parser |-> central.parser]
    /\ central.unsent \in Seq(Byte) /\ central.parser \in Parsers
    /\ central.subscribed \in BOOLEAN /\ begun \in 0..Len(Script)

TypeInv ==
    /\ QueueTypes /\ LinkTypes /\ ParserTypes /\ BridgeTypes
    /\ DeviceTypes /\ CentralTypes

LEMMA ShortSequences ==
  ASSUME NEW S
  PROVE  /\ <<>> \in Seq(S)
         /\ \A x \in S : <<x>> \in Seq(S)
         /\ \A x, y \in S : <<x, y>> \in Seq(S)
OBVIOUS

\* What handling a frame leaves has its type.
OutcomeType(o) ==
    /\ o.cfg \in [1..6 -> Seq(Byte)]
    /\ o.radio \in [on : BOOLEAN, mode : {"rx", "standby"}]
    /\ o.replies \in Seq(Frames)

LEMMA AnsweredType ==
  ASSUME DeviceTypes, NEW replies \in Seq(Frames)
  PROVE  OutcomeType(Answered(replies))
BY DEF DeviceTypes, Answered, Outcome, OutcomeType

LEMMA NothingAnswered ==
  ASSUME DeviceTypes
  PROVE  OutcomeType(Answered(<<>>))
<1>1. <<>> \in Seq(Frames)
  BY ShortSequences
<1> QED
  BY <1>1, AnsweredType

LEMMA FrameType ==
  ASSUME NEW c \in Byte, NEW p \in Seq(Byte)
  PROVE  Frame(c, p) \in Frames
BY DEF Frame, Frames

LEMMA SendRawType ==
  ASSUME DeviceTypes, NEW p, NEW o \in SendRaw(p)
  PROVE  OutcomeType(o)
<1>1. CASE o = Answered(<<>>)
  BY <1>1, NothingAnswered
<1>2. ASSUME NEW m \in {"rx", "standby"}, o = Outcome(cfg, [radio EXCEPT !.mode = m], <<>>)
      PROVE  OutcomeType(o)
  <2>1. [radio EXCEPT !.mode = m] \in [on : BOOLEAN, mode : {"rx", "standby"}]
    BY DEF DeviceTypes
  <2> QED
    BY <1>2, <2>1 DEF Outcome, OutcomeType, DeviceTypes
<1> QED
  BY <1>1, <1>2, Zenon DEF SendRaw

LEMMA SetType ==
  ASSUME DeviceTypes, NEW f \in Frames, f.cmd \in 1..6, NEW o \in Set(f)
  PROVE  OutcomeType(o)
<1> DEFINE v == IF f.cmd = RADIO_STATE /\ f.payload # <<1>> THEN <<0>> ELSE f.payload
           on == v = <<1>>
           r == IF f.cmd # RADIO_STATE \/ on = radio.on THEN radio
                ELSE [on |-> on, mode |-> IF on THEN "rx" ELSE "standby"]
           taken == [cfg EXCEPT ![f.cmd] = v]
<1>1. v \in Seq(Byte) /\ f.cmd \in Byte /\ <<1>> \in Seq(Byte) /\ ERROR \in Byte
  <2>1. 0 \in Byte /\ 1 \in Byte /\ ERROR \in Byte
    BY DEF Byte, ERROR
  <2>2. <<0>> \in Seq(Byte) /\ <<1>> \in Seq(Byte)
    BY <2>1, ShortSequences
  <2> QED
    BY <2>1, <2>2 DEF Frames
<1>2. taken \in [1..6 -> Seq(Byte)] /\ cfg[f.cmd] \in Seq(Byte)
  BY <1>1 DEF DeviceTypes
<1>3. r \in [on : BOOLEAN, mode : {"rx", "standby"}]
  BY DEF DeviceTypes
<1>4. CASE o = Outcome(taken, r, <<Frame(f.cmd, v)>>)
  <2>1. Frame(f.cmd, v) \in Frames
    BY <1>1, FrameType
  <2>2. <<Frame(f.cmd, v)>> \in Seq(Frames)
    BY <2>1, ShortSequences
  <2> HIDE DEF taken, r, v
  <2> QED
    BY <1>2, <1>3, <1>4, <2>2 DEF Outcome, OutcomeType
<1>5. CASE o = Answered(<<Frame(ERROR, <<1>>), Frame(f.cmd, cfg[f.cmd])>>)
  <2>1. Frame(ERROR, <<1>>) \in Frames /\ Frame(f.cmd, cfg[f.cmd]) \in Frames
    BY <1>1, <1>2, FrameType
  <2>2. <<Frame(ERROR, <<1>>), Frame(f.cmd, cfg[f.cmd])>> \in Seq(Frames)
    BY <2>1, ShortSequences
  <2> QED
    BY <1>5, <2>2, AnsweredType
<1>6. o \in {Outcome(taken, r, <<Frame(f.cmd, v)>>)}
         \cup {Answered(<<Frame(ERROR, <<1>>), Frame(f.cmd, cfg[f.cmd])>>)}
  BY Zenon DEF Set
<1> QED
  BY <1>4, <1>5, <1>6

LEMMA HandledType ==
  ASSUME DeviceTypes, NEW f \in Frames, NEW o \in Handled(f)
  PROVE  OutcomeType(o)
<1>1. CASE o \in SendRaw(f.payload)
  BY <1>1, SendRawType
<1>2. CASE f.cmd \in 1..6 /\ o \in Set(f)
  BY <1>2, SetType
<1>3. CASE o = Answered(<<>>)
  BY <1>3, NothingAnswered
<1>4. ASSUME NEW c \in Byte, NEW p \in Seq(Byte), o = Answered(<<Frame(c, p)>>)
      PROVE  OutcomeType(o)
  <2>1. <<Frame(c, p)>> \in Seq(Frames)
    BY FrameType, ShortSequences
  <2> QED
    BY <1>4, <2>1, AnsweredType
<1>5. CASE f.cmd \in 1..6 /\ o = Answered(<<Frame(f.cmd, cfg[f.cmd])>>)
  <2>1. cfg[f.cmd] \in Seq(Byte) /\ f.cmd \in Byte
    BY <1>5 DEF DeviceTypes, Frames
  <2> QED
    BY <1>4, <1>5, <2>1, Zenon
<1>6. ASSUME NEW r \in Randoms, o = Answered(<<Frame(RANDOM, <<r>>)>>)
      PROVE  OutcomeType(o)
  <2>1. r \in Byte /\ RANDOM \in Byte
    BY FrameAssumption DEF Byte, RANDOM
  <2>2. <<r>> \in Seq(Byte)
    BY <2>1, ShortSequences
  <2> QED
    BY <1>4, <1>6, <2>1, <2>2, Zenon
<1>7. CASE \/ o = Answered(<<Frame(DETECT, <<70>>)>>)
           \/ o = Answered(<<IndicateReady>>)
           \/ o = Answered(<<Frame(80, <<1, 85>>)>>)
           \/ o = Answered(<<Frame(72, <<128>>)>>)
           \/ o = Answered(<<Frame(73, <<129>>)>>)
           \/ o = Answered(<<Frame(71, <<58>>)>>)
  <2>1. /\ DETECT \in Byte /\ READY \in Byte
        /\ 80 \in Byte /\ 72 \in Byte /\ 73 \in Byte /\ 71 \in Byte
    BY DEF DETECT, READY, Byte
  <2>2. 70 \in Byte /\ 1 \in Byte /\ 85 \in Byte /\ 128 \in Byte /\ 129 \in Byte /\ 58 \in Byte
    BY DEF Byte
  <2>3. /\ <<70>> \in Seq(Byte) /\ <<1>> \in Seq(Byte) /\ <<1, 85>> \in Seq(Byte)
        /\ <<128>> \in Seq(Byte) /\ <<129>> \in Seq(Byte) /\ <<58>> \in Seq(Byte)
    BY <2>2, ShortSequences
  <2>4. CASE o = Answered(<<Frame(DETECT, <<70>>)>>)
    BY <1>4, <2>1, <2>3, <2>4, Zenon
  <2>5. CASE o = Answered(<<IndicateReady>>)
    BY <1>4, <2>1, <2>3, <2>5, Zenon DEF IndicateReady
  <2>6. CASE o = Answered(<<Frame(80, <<1, 85>>)>>)
    BY <1>4, <2>1, <2>3, <2>6, Zenon
  <2>7. CASE o = Answered(<<Frame(72, <<128>>)>>)
    BY <1>4, <2>1, <2>3, <2>7, Zenon
  <2>8. CASE o = Answered(<<Frame(73, <<129>>)>>)
    BY <1>4, <2>1, <2>3, <2>8, Zenon
  <2>9. CASE o = Answered(<<Frame(71, <<58>>)>>)
    BY <1>4, <2>1, <2>3, <2>9, Zenon
  <2> QED
    BY <1>7, <2>4, <2>5, <2>6, <2>7, <2>8, <2>9
<1> QED
  <2>1. DOMAIN Width = 1..6
    BY DEF Width
  <2>2. \/ o \in SendRaw(f.payload)
        \/ f.cmd \in 1..6 /\ (o \in Set(f) \/ o = Answered(<<Frame(f.cmd, cfg[f.cmd])>>))
        \/ o = Answered(<<>>)
        \/ \E r \in Randoms : o = Answered(<<Frame(RANDOM, <<r>>)>>)
        \/ o = Answered(<<Frame(DETECT, <<70>>)>>)
        \/ o = Answered(<<IndicateReady>>)
        \/ o = Answered(<<Frame(80, <<1, 85>>)>>)
        \/ o = Answered(<<Frame(72, <<128>>)>>)
        \/ o = Answered(<<Frame(73, <<129>>)>>)
        \/ o = Answered(<<Frame(71, <<58>>)>>)
    BY <2>1 DEF Handled
  <2> QED
    BY <1>1, <1>2, <1>3, <1>5, <1>6, <1>7, <2>2

LEMMA NimbleStep ==
  ASSUME TypeInv,
         NimbleTask \/ Connect \/ Disconnect \/ MtuExchanged \/ Subscribe \/ Write
  PROVE  TypeInv'
<1> USE DEF TypeInv
<1>1. CASE StoreByte
  <2>1. QueueTypes'
    <3>1. Head(unstored) \in Byte
      BY <1>1 DEF StoreByte, QueueTypes
    <3>2. CASE After(head) = tail
      BY <1>1, <3>2 DEF StoreByte, QueueTypes
    <3>3. CASE After(head) # tail
      BY <1>1, <3>1, <3>3 DEF StoreByte, QueueTypes
    <3> QED
      BY <3>2, <3>3
  <2> QED
    BY <1>1, <2>1 DEF StoreByte, link, bridge, device, bounds,
       LinkTypes, ParserTypes, BridgeTypes, DeviceTypes, CentralTypes
<1>2. CASE Publish
  <2>1. QueueTypes'
    <3>1. /\ stored /\ head' = After(head) /\ unstored' = Tail(unstored) /\ stored' = FALSE
          /\ UNCHANGED <<ring, tail>>
      BY <1>2 DEF Publish
    <3>2. After(head) \in 0..RingSize-1 /\ Tail(unstored) \in Seq(Byte)
      BY <3>1, AfterIsPlace DEF QueueTypes
    <3> QED
      BY <3>1, <3>2 DEF QueueTypes
  <2> QED
    BY <1>2, <2>1 DEF Publish, link, bridge, device, seen, bounds,
       LinkTypes, ParserTypes, BridgeTypes, DeviceTypes, CentralTypes
<1>3. CASE Connect \/ MtuExchanged
  <2>1. LinkTypes' /\ UNCHANGED <<queue, bridge, device, central, seen>>
    BY <1>3 DEF Connect, MtuExchanged, LinkTypes, bounds
  <2> QED
    BY <2>1 DEF queue, bridge, device, seen, QueueTypes, ParserTypes, BridgeTypes, DeviceTypes, CentralTypes
<1>4. CASE Disconnect
  <2>1. LinkTypes' /\ CentralTypes'
    <3>1. OutOfFrame \in Parsers
      BY OutOfFrameIs
    <3> QED
      BY <1>4, <3>1 DEF Disconnect, LinkTypes, CentralTypes, bounds, None
  <2> QED
    BY <1>4, <2>1 DEF Disconnect, queue, bridge, device,
       QueueTypes, ParserTypes, BridgeTypes, DeviceTypes
<1>5. CASE Subscribe
  <2>1. LinkTypes' /\ CentralTypes'
    BY <1>5 DEF Subscribe, LinkTypes, CentralTypes, seen, bounds
  <2> QED
    BY <1>5, <2>1 DEF Subscribe, queue, bridge, device,
       QueueTypes, ParserTypes, BridgeTypes, DeviceTypes
<1>6. CASE Write
  <2> DEFINE left == IF central.unsent = <<>> THEN Encoded(Script[begun + 1])
                     ELSE central.unsent
             n == Smaller(WriteMax, Len(left))
  <2>1. /\ IF central.unsent = <<>>
           THEN begun < Len(Script) /\ begun' = begun + 1
           ELSE begun' = begun
        /\ unstored' = SubSeq(left, 1, n) /\ unstored = <<>>
        /\ central' = [central EXCEPT !.unsent = SubSeq(left, n + 1, Len(left))]
        /\ UNCHANGED <<ring, head, tail, stored, link, bridge, device, bounds>>
    BY <1>6 DEF Write
  <2>2. left \in Seq(Byte)
    <3>1. CASE central.unsent = <<>>
      <4>1. begun + 1 \in 1..Len(Script)
        BY <2>1, <3>1, FrameAssumption DEF CentralTypes
      <4>2. Script \in Seq(Frames)
        BY FrameAssumption DEF Frames, Byte
      <4>3. Script[begun + 1] \in Frames
        BY <4>1, <4>2
      <4> QED
        BY <3>1, <4>3, EncodedIs
    <3>2. CASE central.unsent # <<>>
      BY <3>2 DEF CentralTypes
    <3> QED
      BY <3>1, <3>2
  <2> HIDE DEF left
  <2>3. n \in 0..Len(left)
    BY <2>2, NotifyAssumption DEF Smaller
  <2> HIDE DEF n
  <2>4. SubSeq(left, 1, n) \in Seq(Byte) /\ SubSeq(left, n + 1, Len(left)) \in Seq(Byte)
    BY <2>2, <2>3
  <2>5. QueueTypes'
    BY <2>1, <2>4 DEF QueueTypes
  <2>6. CentralTypes'
    <3>1. begun' \in 0..Len(Script)
      BY <2>1, FrameAssumption DEF CentralTypes
    <3> QED
      BY <2>1, <2>4, <3>1 DEF CentralTypes
  <2> QED
    BY <2>1, <2>5, <2>6 DEF link, bridge, device, bounds,
       LinkTypes, ParserTypes, BridgeTypes, DeviceTypes
<1> QED
  BY <1>1, <1>2, <1>3, <1>4, <1>5, <1>6 DEF NimbleTask

LEMMA BridgeStep ==
  ASSUME TypeInv, BridgeTask
  PROVE  TypeInv'
<1> USE DEF TypeInv
<1>1. CASE TestReady
  BY <1>1 DEF TestReady, queue, link, device, seen, bounds,
     QueueTypes, LinkTypes, ParserTypes, BridgeTypes, DeviceTypes, CentralTypes
<1>2. CASE ClearReady
  <2>1. <<IndicateReady>> \in Seq(Frames)
    <3>1. 1 \in Byte /\ READY \in Byte
      BY DEF READY, Byte
    <3>2. <<1>> \in Seq(Byte)
      BY <3>1, ShortSequences
    <3>3. IndicateReady \in Frames
      BY <3>1, <3>2, FrameType DEF IndicateReady
    <3> QED
      BY <3>3, ShortSequences
  <2>2. /\ outbox' = <<IndicateReady>> /\ pc' = "send" /\ pending' = FALSE
        /\ UNCHANGED <<queue, conn, notify, conns, byte, parser, out, chunk, device,
                       central, begun>>
    BY <1>2 DEF ClearReady, seen, bounds
  <2> HIDE DEF IndicateReady
  <2> QED
    BY <2>1, <2>2 DEF queue, device,
       QueueTypes, LinkTypes, ParserTypes, BridgeTypes, DeviceTypes, CentralTypes
<1>3. CASE Drain
  BY <1>3 DEF Drain, queue, link, device, seen, bounds,
     QueueTypes, LinkTypes, ParserTypes, BridgeTypes, DeviceTypes, CentralTypes
<1>4. CASE Consume
  <2>1. QueueTypes' /\ LinkTypes' /\ CentralTypes'
    BY <1>4, AfterIsPlace DEF Consume, link, bounds, QueueTypes, LinkTypes, CentralTypes
  <2>2. ParserTypes'
    <3>1. parser' = AfterByte(parser, byte, FrameMax) /\ byte' = byte
      BY <1>4 DEF Consume
    <3> QED
      BY <3>1, AfterByteType, FrameAssumption DEF ParserTypes
  <2>3. BridgeTypes' /\ DeviceTypes'
    <3>1. CASE EndsFrame(parser, byte)
      <4>1. FrameOf(parser) \in Frames
        BY DEF FrameOf, Frames, ParserTypes, Parsers
      <4>2. PICK o \in Handled(FrameOf(parser)) :
              /\ cfg' = o.cfg /\ radio' = o.radio /\ outbox' = o.replies
              /\ pc' = IF o.replies = <<>> THEN "drain" ELSE "send"
        BY <1>4, <3>1 DEF Consume
      <4>3. OutcomeType(o)
        BY <4>1, <4>2, HandledType
      <4> QED
        BY <1>4, <4>2, <4>3 DEF Consume, BridgeTypes, DeviceTypes, OutcomeType
    <3>2. CASE ~EndsFrame(parser, byte)
      BY <1>4, <3>2 DEF Consume, device, BridgeTypes, DeviceTypes
    <3> QED
      BY <3>1, <3>2
  <2> QED
    BY <2>1, <2>2, <2>3
<1>5. CASE SendFrame
  <2>1. BridgeTypes'
    <3>1. CASE outbox = <<>>
      BY <1>5, <3>1 DEF SendFrame, BridgeTypes
    <3>2. CASE outbox # <<>>
      <4>1. Head(outbox) \in Frames /\ Tail(outbox) \in Seq(Frames)
        BY <3>2 DEF BridgeTypes
      <4>2. Encoded(Head(outbox)) \in Seq(Byte)
        BY <4>1, EncodedIs
      <4> QED
        BY <1>5, <3>2, <4>1, <4>2 DEF SendFrame, BridgeTypes
    <3> QED
      BY <3>1, <3>2
  <2> QED
    BY <1>5, <2>1 DEF SendFrame, queue, link, device, bounds,
       QueueTypes, LinkTypes, ParserTypes, DeviceTypes, CentralTypes
<1>6. CASE Cut
  <2>1. BridgeTypes'
    BY <1>6, NotifyAssumption DEF Cut, Smaller, BridgeTypes, LinkTypes
  <2> QED
    BY <1>6, <2>1 DEF Cut, queue, link, device, seen, bounds,
       QueueTypes, LinkTypes, ParserTypes, DeviceTypes, CentralTypes
<1>7. CASE Notify
  <2>1. out' = <<>> \/ out' = SubSeq(out, chunk + 1, Len(out))
    BY <1>7 DEF Notify, Notified, Refused
  <2>2. BridgeTypes'
    <3>1. out' \in Seq(Byte)
      <4>1. out \in Seq(Byte) /\ chunk \in Nat
        BY DEF BridgeTypes
      <4>2. SubSeq(out, chunk + 1, Len(out)) \in Seq(Byte)
        BY <4>1
      <4>3. <<>> \in Seq(Byte)
        BY ShortSequences
      <4> QED
        BY <2>1, <4>2, <4>3
    <3> QED
      BY <1>7, <3>1 DEF Notify, BridgeTypes
  <2>3. UNCHANGED central \/ \E q \in Parsers : central' = [central EXCEPT !.parser = q]
    <3> DEFINE bytes == SubSeq(out, 1, Smaller(chunk, notify))
    <3>1. bytes \in Seq(Byte)
      <4>1. out \in Seq(Byte) /\ Smaller(chunk, notify) \in 0..Len(out)
        BY <1>7, NotifyAssumption DEF BridgeTypes, LinkTypes, Smaller, Notify
      <4> QED
        BY <4>1
    <3> HIDE DEF bytes
    <3>2. Taken(bytes).q \in Parsers
      BY <3>1, TakenType DEF CentralTypes
    <3>3. UNCHANGED central \/ central' = [central EXCEPT !.parser = Taken(bytes).q]
      BY <1>7, Zenon DEF Notify, Notified, Refused, Deliver, bytes
    <3> QED
      BY <3>2, <3>3
  <2>4. CentralTypes'
    BY <1>7, <2>3 DEF Notify, CentralTypes
  <2> QED
    BY <1>7, <2>2, <2>4 DEF Notify, queue, link, device,
       QueueTypes, LinkTypes, ParserTypes, DeviceTypes
<1> QED
  BY <1>1, <1>2, <1>3, <1>4, <1>5, <1>6, <1>7 DEF BridgeTask

LEMMA TypeStart == Init => TypeInv
<1> SUFFICES ASSUME Init PROVE TypeInv
  OBVIOUS
<1>1. QueueTypes /\ LinkTypes
  BY RingAssumption DEF Init, QueueTypes, LinkTypes, Byte, None
<1>2. ParserTypes /\ BridgeTypes
  BY FrameAssumption
     DEF Init, ParserTypes, BridgeTypes, OutOfFrame, Parsers, Byte, CMD_UNKNOWN
<1>3. DeviceTypes
  <2>1. /\ <<54, 137, 202, 192>> \in Seq(Byte) /\ <<0, 1, 232, 72>> \in Seq(Byte)
        /\ <<14>> \in Seq(Byte) /\ <<9>> \in Seq(Byte) /\ <<7>> \in Seq(Byte)
        /\ <<1>> \in Seq(Byte)
    BY DEF Byte
  <2>2. Defaults \in [1..6 -> Seq(Byte)]
    <3>1. DOMAIN Defaults = 1..6
      BY DEF Defaults
    <3>2. /\ Defaults[1] = <<54, 137, 202, 192>> /\ Defaults[2] = <<0, 1, 232, 72>>
          /\ Defaults[3] = <<14>> /\ Defaults[4] = <<9>> /\ Defaults[5] = <<7>>
          /\ Defaults[6] = <<1>>
      BY DEF Defaults
    <3>3. Defaults = [i \in 1..6 |-> Defaults[i]]
      BY DEF Defaults
    <3>4. ASSUME NEW i \in 1..6
          PROVE  Defaults[i] \in Seq(Byte)
      <4>1. i = 1 \/ i = 2 \/ i = 3 \/ i = 4 \/ i = 5 \/ i = 6
        OBVIOUS
      <4>2. CASE i = 1
        BY <2>1, <3>2, <4>2
      <4>3. CASE i = 2
        BY <2>1, <3>2, <4>3
      <4>4. CASE i = 3
        BY <2>1, <3>2, <4>4
      <4>5. CASE i = 4
        BY <2>1, <3>2, <4>5
      <4>6. CASE i = 5
        BY <2>1, <3>2, <4>6
      <4>7. CASE i = 6
        BY <2>1, <3>2, <4>7
      <4> QED
        BY <4>1, <4>2, <4>3, <4>4, <4>5, <4>6, <4>7
    <3> HIDE DEF Defaults
    <3> QED
      BY <3>1, <3>3, <3>4
  <2> HIDE DEF Defaults
  <2> QED
    BY <2>2 DEF Init, DeviceTypes
<1>4. CentralTypes
  BY FrameAssumption, OutOfFrameIs DEF Init, CentralTypes
<1> QED
  BY <1>1, <1>2, <1>3, <1>4 DEF TypeInv

LEMMA TypeStep == TypeInv /\ [Next]_vars => TypeInv'
<1>1. ASSUME TypeInv, UNCHANGED vars PROVE TypeInv'
  BY <1>1 DEF TypeInv, QueueTypes, LinkTypes, ParserTypes, BridgeTypes, DeviceTypes,
     CentralTypes, vars, queue, link, bridge, device, seen, bounds
<1> QED
  BY <1>1, NimbleStep, BridgeStep DEF Next

\* TypeCorrect: whatever centrals write and whenever they come and go, no payload
\* is longer than frame_buf, head and tail stay places of the ring (run(),
\* nus_access_cb()), and every variable has its type.
THEOREM TypeCorrect == Spec => []TypeOK
<1>1. TypeInv => TypeOK
  BY DEF TypeInv, QueueTypes, LinkTypes, ParserTypes, BridgeTypes, DeviceTypes,
     CentralTypes, TypeOK
<1> QED
  BY TypeStart, TypeStep, <1>1, PTL DEF Spec

---------------------------------------------------------------------------
(* What a central decodes.  An answer is short, so that after the MTU      *)
(* exchange it is one notification; before it the notifications are short  *)
(* and any connection takes them whole.  A central reads a frame from its  *)
(* beginning or nothing of it.                                             *)

LEMMA EncodedShort ==
  ASSUME NEW g \in Frames
  PROVE  Len(Encoded(g)) <= 3 + 2 * Len(g.payload)
<1> DEFINE p == g.payload
           N == Len(p)
           L == Starts(g)
           A == {n \in Nat : n <= N => L[n] <= 2 + 2 * n}
<1>1. N \in Nat /\ \A n \in 1..N : p[n] \in Byte
  BY PayloadIs
<1>2. /\ L \in [0..N -> Nat] /\ L[0] = 2 /\ Len(Encoded(g)) = L[N] + 1
      /\ \A n \in 1..N : L[n] = L[n - 1] + Len(Escaped(p[n]))
  BY StartsAre DEF Layout
<1> HIDE DEF N, p, L
<1>3. 0 \in A
  BY <1>2
<1>4. ASSUME NEW n \in A PROVE n + 1 \in A
  <2>1. SUFFICES ASSUME n + 1 <= N PROVE L[n + 1] <= 2 + 2 * (n + 1)
    OBVIOUS
  <2>2. n \in Nat /\ n + 1 \in 1..N /\ (n + 1) - 1 = n /\ n \in 0..N
    BY <1>1, <2>1
  <2> DEFINE l == Len(Escaped(p[n + 1]))
  <2>3. l \in {1, 2}
    <3>1. p[n + 1] \in Byte
      BY <1>1, <2>2
    <3> QED
      BY <3>1, EscapedIs
  <2>4. L[n + 1] = L[(n + 1) - 1] + l
    BY <1>2, <2>2
  <2> HIDE DEF l
  <2>5. L[n + 1] = L[n] + l /\ L[n] \in Nat /\ L[n] <= 2 + 2 * n
    BY <1>2, <2>2, <2>1, <2>4
  <2> QED
    BY <2>2, <2>3, <2>5
<1>5. A \in SUBSET Nat
  OBVIOUS
<1>6. N \in A
  <2> HIDE DEF A
  <2>1. A = Nat
    BY <1>3, <1>4, <1>5, NumberByNumber
  <2> QED
    BY <1>1, <2>1
<1> DEFINE m == L[N]
<1>7. m \in Nat /\ m <= 2 + 2 * N
  BY <1>1, <1>2, <1>6
<1>8. Len(Encoded(g)) = m + 1
  BY <1>2
<1> HIDE DEF m
<1>9. Len(Encoded(g)) <= 3 + 2 * N
  BY <1>1, <1>7, <1>8
<1> QED
  BY <1>9 DEF N, p

\* An answer: a frame of at most four bytes.
Answer(f) == Commanded(f) /\ Len(f.payload) <= 4
Answers(s) == \A i \in 1..Len(s) : Answer(s[i])
Brief(c) == c \in [1..6 -> Seq(Byte)] /\ \A p \in 1..6 : Len(c[p]) <= 4

LEMMA FrameAnswers ==
  ASSUME NEW c \in Byte, c \notin {192, 254}, NEW p \in Seq(Byte), Len(p) <= 4
  PROVE  Answer(Frame(c, p))
<1>1. Frame(c, p) \in Frames /\ Frame(c, p).cmd = c /\ Frame(c, p).payload = p
  BY FrameType DEF Frame
<1> QED
  BY <1>1 DEF Answer, Commanded, FEND, CMD_UNKNOWN

LEMMA SmallFrameAnswers ==
  ASSUME NEW c \in Byte, c \notin {192, 254}, NEW b \in Byte
  PROVE  Answer(Frame(c, <<b>>)) /\ Answers(<<Frame(c, <<b>>)>>)
<1> DEFINE f == Frame(c, <<b>>)
<1>1. <<b>> \in Seq(Byte) /\ Len(<<b>>) <= 4
  OBVIOUS
<1>2. Answer(f)
  BY <1>1, FrameAnswers
<1> HIDE DEF f
<1>3. Answers(<<f>>)
  BY <1>2 DEF Answers
<1> QED
  BY <1>2, <1>3 DEF f

LEMMA ReadyAnswers == IndicateReady \in Frames /\ Answers(<<IndicateReady>>) /\ Answer(IndicateReady)
<1>1. READY \in Byte /\ READY \notin {192, 254} /\ 1 \in Byte
  BY DEF READY, Byte
<1>2. Answer(Frame(READY, <<1>>)) /\ Answers(<<Frame(READY, <<1>>)>>)
  BY <1>1, SmallFrameAnswers
<1> QED
  BY <1>2 DEF IndicateReady, Answer, Commanded

LEMMA HandledAnswers ==
  ASSUME Brief(cfg), NEW f \in Frames, NEW o \in Handled(f)
  PROVE  Brief(o.cfg) /\ Answers(o.replies)
<1>1. ASSUME NEW replies, Answers(replies), o = Answered(replies)
      PROVE  Brief(o.cfg) /\ Answers(o.replies)
  BY <1>1 DEF Answered, Outcome
<1>2. Answers(<<>>)
  BY DEF Answers
<1>3. CASE o \in SendRaw(f.payload)
  <2>1. CASE o = Answered(<<>>)
    BY <1>1, <1>2, <2>1
  <2>2. ASSUME NEW r, o = Outcome(cfg, r, <<>>)
        PROVE  Brief(o.cfg) /\ Answers(o.replies)
    BY <1>2, <2>2 DEF Outcome
  <2> QED
    BY <1>3, <2>1, <2>2, Zenon DEF SendRaw
<1>4. CASE f.cmd \in 1..6 /\ o = Answered(<<Frame(f.cmd, cfg[f.cmd])>>)
  <2> DEFINE g == Frame(f.cmd, cfg[f.cmd])
  <2>1. Answer(g)
    <3>1. f.cmd \in Byte /\ f.cmd \notin {192, 254} /\ cfg[f.cmd] \in Seq(Byte) /\ Len(cfg[f.cmd]) <= 4
      BY <1>4 DEF Brief, Byte
    <3> QED
      BY <3>1, FrameAnswers
  <2> HIDE DEF g
  <2>2. Answers(<<g>>)
    BY <2>1 DEF Answers
  <2> QED
    BY <1>1, <1>4, <2>2 DEF g
<1>5. CASE f.cmd \in 1..6 /\ Len(f.payload) = Width[f.cmd] /\ o \in Set(f)
  <2> DEFINE v == IF f.cmd = RADIO_STATE /\ f.payload # <<1>> THEN <<0>> ELSE f.payload
             on == v = <<1>>
             r == IF f.cmd # RADIO_STATE \/ on = radio.on THEN radio
                  ELSE [on |-> on, mode |-> IF on THEN "rx" ELSE "standby"]
             taken == [cfg EXCEPT ![f.cmd] = v]
             c == f.cmd
  <2>1. c \in Byte /\ c \notin {192, 254} /\ cfg[c] \in Seq(Byte) /\ Len(cfg[c]) <= 4
    BY <1>5 DEF Brief, Byte
  <2>2. v \in Seq(Byte) /\ Len(v) <= 4
    <3>1. f.payload \in Seq(Byte) /\ Len(f.payload) <= 4
      BY <1>5 DEF Frames, Width
    <3>2. <<0>> \in Seq(Byte) /\ Len(<<0>>) <= 4
      BY DEF Byte
    <3> QED
      BY <3>1, <3>2
  <2>3. Brief(taken)
    <3> HIDE DEF v
    <3> QED
      BY <1>5, <2>2 DEF Brief
  <2>4. Answers(<<Frame(c, v)>>)
    <3> DEFINE g == Frame(c, v)
    <3>1. Answer(g)
      BY <2>1, <2>2, FrameAnswers
    <3> HIDE DEF g
    <3>2. Answers(<<g>>)
      BY <3>1 DEF Answers
    <3> QED
      BY <3>2 DEF g
  <2>5. Answers(<<Frame(ERROR, <<1>>), Frame(c, cfg[c])>>)
    <3> DEFINE e == Frame(ERROR, <<1>>)
               g == Frame(c, cfg[c])
    <3>1. Answer(e)
      <4>1. ERROR \in Byte /\ ERROR \notin {192, 254} /\ 1 \in Byte
        BY DEF ERROR, Byte
      <4> QED
        BY <4>1, SmallFrameAnswers
    <3>2. Answer(g)
      BY <2>1, FrameAnswers
    <3> HIDE DEF e, g
    <3>3. Answers(<<e, g>>)
      BY <3>1, <3>2 DEF Answers
    <3> QED
      BY <3>3 DEF e, g
  <2>6. o \in {Outcome(taken, r, <<Frame(c, v)>>)}
           \cup {Answered(<<Frame(ERROR, <<1>>), Frame(c, cfg[c])>>)}
    BY <1>5, Zenon DEF Set
  <2>7. CASE o = Outcome(taken, r, <<Frame(c, v)>>)
    <3> HIDE DEF taken, r, v, c
    <3> QED
      BY <2>3, <2>4, <2>7 DEF Outcome
  <2>8. CASE o = Answered(<<Frame(ERROR, <<1>>), Frame(c, cfg[c])>>)
    BY <1>1, <2>5, <2>8
  <2> QED
    BY <2>6, <2>7, <2>8
<1>6. CASE o = Answered(<<>>)
  BY <1>1, <1>2, <1>6
<1>7. ASSUME NEW c \in Byte, c \notin {192, 254}, NEW b \in Byte, o = Answered(<<Frame(c, <<b>>)>>)
      PROVE  Brief(o.cfg) /\ Answers(o.replies)
  BY <1>1, <1>7, SmallFrameAnswers
<1>8. CASE \E r \in Randoms : o = Answered(<<Frame(RANDOM, <<r>>)>>)
  <2>1. PICK r \in Randoms : o = Answered(<<Frame(RANDOM, <<r>>)>>)
    BY <1>8
  <2>2. r \in Byte /\ RANDOM \in Byte /\ RANDOM \notin {192, 254}
    BY FrameAssumption DEF Byte, RANDOM
  <2> QED
    BY <1>7, <2>1, <2>2
<1>9. CASE o = Answered(<<Frame(80, <<1, 85>>)>>)
  <2> DEFINE f2 == Frame(80, <<1, 85>>)
  <2>1. Answer(f2)
    <3> DEFINE p == <<1, 85>>
               c == 80
    <3>1. c \in Byte /\ c \notin {192, 254} /\ p \in Seq(Byte) /\ Len(p) <= 4
      BY DEF Byte
    <3> HIDE DEF p, c
    <3>2. Answer(Frame(c, p))
      BY <3>1, FrameAnswers
    <3> QED
      BY <3>2 DEF p, c
  <2> HIDE DEF f2
  <2>2. Answers(<<f2>>)
    BY <2>1 DEF Answers
  <2> QED
    BY <1>1, <1>9, <2>2 DEF f2
<1>10. CASE \/ o = Answered(<<Frame(DETECT, <<70>>)>>)
            \/ o = Answered(<<IndicateReady>>)
            \/ o = Answered(<<Frame(72, <<128>>)>>)
            \/ o = Answered(<<Frame(73, <<129>>)>>)
            \/ o = Answered(<<Frame(71, <<58>>)>>)
  <2>1. /\ DETECT \in Byte /\ DETECT \notin {192, 254}
        /\ 72 \in Byte /\ 73 \in Byte /\ 71 \in Byte
        /\ 72 \notin {192, 254} /\ 73 \notin {192, 254} /\ 71 \notin {192, 254}
    BY DEF DETECT, Byte
  <2>2. 70 \in Byte /\ 128 \in Byte /\ 129 \in Byte /\ 58 \in Byte
    BY DEF Byte
  <2>4. CASE o = Answered(<<Frame(DETECT, <<70>>)>>)
    BY <1>7, <2>1, <2>2, <2>4
  <2>5. CASE o = Answered(<<IndicateReady>>)
    BY <1>1, <2>5, ReadyAnswers
  <2>7. CASE o = Answered(<<Frame(72, <<128>>)>>)
    BY <1>7, <2>1, <2>2, <2>7
  <2>8. CASE o = Answered(<<Frame(73, <<129>>)>>)
    BY <1>7, <2>1, <2>2, <2>8
  <2>9. CASE o = Answered(<<Frame(71, <<58>>)>>)
    BY <1>7, <2>1, <2>2, <2>9
  <2> QED
    BY <1>10, <2>4, <2>5, <2>7, <2>8, <2>9
<1> QED
  <2>1. DOMAIN Width = 1..6
    BY DEF Width
  <2>2. \/ o \in SendRaw(f.payload)
        \/ f.cmd \in 1..6 /\ Len(f.payload) = Width[f.cmd] /\ o \in Set(f)
        \/ f.cmd \in 1..6 /\ o = Answered(<<Frame(f.cmd, cfg[f.cmd])>>)
        \/ o = Answered(<<>>)
        \/ \E r \in Randoms : o = Answered(<<Frame(RANDOM, <<r>>)>>)
        \/ o = Answered(<<Frame(DETECT, <<70>>)>>)
        \/ o = Answered(<<IndicateReady>>)
        \/ o = Answered(<<Frame(80, <<1, 85>>)>>)
        \/ o = Answered(<<Frame(72, <<128>>)>>)
        \/ o = Answered(<<Frame(73, <<129>>)>>)
        \/ o = Answered(<<Frame(71, <<58>>)>>)
    BY <2>1 DEF Handled
  <2> QED
    BY <1>3, <1>4, <1>5, <1>6, <1>8, <1>9, <1>10, <2>2

\* What is left of the present frame, which the central has in step or never will.
OutIs(g, k) ==
    /\ Answer(g) /\ k \in Nat /\ k <= Len(Encoded(g))
    /\ out = SubSeq(Encoded(g), k + 1, Len(Encoded(g)))

AnswersInv ==
    /\ Brief(cfg) /\ Answers(outbox)
    /\ ~central.subscribed => central.parser = OutOfFrame
    /\ Legible(central.parser, sent)
    /\ \A f \in decoded : BeginsOneOf(f, sent)
    /\ out # <<>> => \E g \in sent : \E k \in Nat : OutIs(g, k) /\ Tracks(central.parser, k, g)
    /\ pc = "notify" => out # <<>> /\ (chunk <= NotifyMin \/ chunk = Len(out))

\* A central that has read nothing of the frame is never too early for the rest.
LEMMA LateTracks ==
  ASSUME NEW g, Commanded(g), NEW k \in Nat, k <= Len(Encoded(g)),
         NEW q \in Parsers, ~q.inFrame
  PROVE  Tracks(q, k, g)
<1> DEFINE M == Room(g)
<1>1. M \in Nat
  BY PayloadIs DEF Commanded, Room
<1> HIDE DEF M
<1>2. Follows(q, 0, g, M)
  BY DEF Follows
<1>3. Legible(q, {g})
  BY DEF Legible
<1>4. 0 + k <= Len(Encoded(g))
  OBVIOUS
<1>5. PICK r : r \in [0..k -> Parsers] /\ \A i \in 0..k : Follows(r[i], 0 + i, g, M)
  <2> DEFINE S == {g}
             z == 0
  <2>1. Legible(q, S) /\ g \in S /\ z \in Nat /\ Follows(q, z, g, M) /\ z + k <= Len(Encoded(g))
    BY <1>2, <1>3
  <2>2. z = 0
    OBVIOUS
  <2> HIDE DEF S, z
  <2>3. PICK r : Run(r, q, z, k, g, M, S)
    BY <1>1, <2>1, Reads
  <2> QED
    BY <2>2, <2>3 DEF Run
<1>6. k \in 0..k /\ 0 + k = k
  OBVIOUS
<1>7. r[k] \in Parsers /\ Follows(r[k], k, g, M)
  BY <1>5, <1>6
<1>8. CASE k = 0
  BY <1>2, <1>8 DEF Tracks, M
<1>9. CASE k > 0
  BY <1>7, <1>9 DEF Tracks, M
<1> QED
  BY <1>8, <1>9

LEMMA AnswersStart == Init => AnswersInv
<1> SUFFICES ASSUME Init PROVE AnswersInv
  OBVIOUS
<1>1. Brief(cfg)
  <2>1. cfg \in [1..6 -> Seq(Byte)]
    BY TypeStart DEF TypeInv, DeviceTypes
  <2>2. \A p \in 1..6 : Len(cfg[p]) <= 4
    <3>1. /\ cfg[1] = <<54, 137, 202, 192>> /\ cfg[2] = <<0, 1, 232, 72>>
          /\ cfg[3] = <<14>> /\ cfg[4] = <<9>> /\ cfg[5] = <<7>> /\ cfg[6] = <<1>>
      BY DEF Init, Defaults
    <3>2. /\ Len(cfg[1]) = 4 /\ Len(cfg[2]) = 4 /\ Len(cfg[3]) = 1
          /\ Len(cfg[4]) = 1 /\ Len(cfg[5]) = 1 /\ Len(cfg[6]) = 1
      BY <3>1
    <3> TAKE p \in 1..6
    <3>3. p = 1 \/ p = 2 \/ p = 3 \/ p = 4 \/ p = 5 \/ p = 6
      OBVIOUS
    <3> DEFINE l == Len(cfg[p])
    <3>4. l \in {1, 4}
      BY <3>2, <3>3, Zenon
    <3> HIDE DEF l
    <3>5. l <= 4
      BY <3>4
    <3> QED
      BY <3>5 DEF l
  <2> QED
    BY <2>1, <2>2 DEF Brief
<1>2. Answers(outbox)
  BY DEF Init, Answers
<1>3. Legible(central.parser, sent)
  BY OutOfFrameIs DEF Init, Legible
<1>4. /\ ~central.subscribed => central.parser = OutOfFrame
      /\ decoded = {} /\ out = <<>> /\ pc # "notify"
  BY DEF Init
<1> QED
  BY <1>1, <1>2, <1>3, <1>4 DEF AnswersInv

\* Only sending touches the central's parser or what is sent to it.
LEMMA AnswersCarryOn ==
  ASSUME TypeInv, AnswersInv, sent \subseteq sent', decoded' = decoded,
         Brief(cfg)', Answers(outbox)', out' = out, chunk' = chunk, pc' # "notify" \/ pc' = pc,
         \/ UNCHANGED central
         \/ /\ central'.parser = central.parser
            /\ central.subscribed => central'.subscribed
         \/ central'.parser = OutOfFrame
  PROVE  AnswersInv'
<1>1. central'.parser = central.parser \/ central'.parser = OutOfFrame
  OBVIOUS
<1>2. (~central.subscribed => central.parser = OutOfFrame)'
  BY DEF AnswersInv
<1>3. Legible(central.parser, sent)'
  BY <1>1, LegibleInMore, OutOfFrameIs DEF AnswersInv, Legible
<1>4. \A f \in decoded : BeginsOneOf(f, sent')
  BY DEF AnswersInv, BeginsOneOf
<1>5. ASSUME out # <<>>
      PROVE  \E g \in sent : \E k \in Nat : OutIs(g, k) /\ Tracks(central'.parser, k, g)
  <2>1. PICK g \in sent, k \in Nat : OutIs(g, k) /\ Tracks(central.parser, k, g)
    BY <1>5 DEF AnswersInv
  <2>2. Commanded(g) /\ k <= Len(Encoded(g))
    BY <2>1 DEF OutIs, Answer
  <2>3. Tracks(OutOfFrame, k, g)
    BY <2>2, OutOfFrameIs, LateTracks
  <2> QED
    BY <1>1, <2>1, <2>3
<1>6. \A g, k : OutIs(g, k) => OutIs(g, k)'
  BY DEF OutIs
<1>7. (out # <<>> => \E g \in sent : \E k \in Nat : OutIs(g, k) /\ Tracks(central.parser, k, g))'
  <2>1. SUFFICES ASSUME out' # <<>>
                 PROVE  \E g \in sent' : \E k \in Nat : OutIs(g, k)' /\ Tracks(central'.parser, k, g)
    BY DEF Tracks
  <2>2. PICK g \in sent, k \in Nat : OutIs(g, k) /\ Tracks(central'.parser, k, g)
    BY <1>5, <2>1
  <2> QED
    BY <1>6, <2>2
<1>8. (pc = "notify" => out # <<>> /\ (chunk <= NotifyMin \/ chunk = Len(out)))'
  BY DEF AnswersInv
<1> QED
  BY <1>2, <1>3, <1>4, <1>7, <1>8 DEF AnswersInv

LEMMA AnswersNimble ==
  ASSUME TypeInv, AnswersInv,
         NimbleTask \/ Connect \/ Disconnect \/ MtuExchanged \/ Subscribe \/ Write
  PROVE  AnswersInv'
<1> USE DEF bridge, device, seen
<1>1. /\ sent' = sent /\ decoded' = decoded /\ out' = out /\ chunk' = chunk /\ pc' = pc
      /\ cfg' = cfg /\ outbox' = outbox
  BY Zenon DEF NimbleTask, StoreByte, Publish, Connect, Disconnect, MtuExchanged, Subscribe, Write
<1>2. Brief(cfg)' /\ Answers(outbox)'
  BY <1>1 DEF AnswersInv
<1>3. \/ UNCHANGED central
      \/ /\ central'.parser = central.parser
         /\ central.subscribed => central'.subscribed
      \/ central'.parser = OutOfFrame
  <2>1. CASE NimbleTask \/ Connect \/ MtuExchanged
    BY <2>1, Zenon DEF NimbleTask, StoreByte, Publish, Connect, MtuExchanged
  <2>2. CASE Disconnect
    BY <2>2 DEF Disconnect
  <2>3. CASE Subscribe
    <3>1. central' = [central EXCEPT !.subscribed = TRUE]
      BY <2>3 DEF Subscribe
    <3> QED
      BY <3>1 DEF TypeInv, CentralTypes
  <2>4. CASE Write
    <3>1. \E s : central' = [central EXCEPT !.unsent = s]
      BY <2>4, Zenon DEF Write
    <3> QED
      BY <3>1 DEF TypeInv, CentralTypes
  <2> QED
    BY <2>1, <2>2, <2>3, <2>4
<1> QED
  BY <1>1, <1>2, <1>3, AnswersCarryOn

LEMMA AnswersNotify ==
  ASSUME NotifyMax >= 11, TypeInv, AnswersInv, Notify
  PROVE  AnswersInv'
<1>1. /\ pc = "notify" /\ pc' = "cut" /\ cfg' = cfg /\ outbox' = outbox /\ sent' = sent
      /\ Notified \/ Refused
  BY DEF Notify, device
<1>2. Brief(cfg)' /\ Answers(outbox)' /\ pc' # "notify"
  BY <1>1 DEF AnswersInv
<1>3. PICK g \in sent, k \in Nat : OutIs(g, k) /\ Tracks(central.parser, k, g)
  BY <1>1 DEF AnswersInv
<1>17. PICK m : m = Smaller(chunk, notify)
  OBVIOUS
<1> DEFINE e == Encoded(g)
           bytes == SubSeq(out, 1, m)
           t == Taken(bytes)
<1>4. /\ Commanded(g) /\ g \in Frames /\ k <= Len(e) /\ out = SubSeq(e, k + 1, Len(e))
      /\ e \in Seq(Byte) /\ Len(e) \in Nat
  BY <1>3, EncodedIs DEF OutIs, Answer, Commanded
<1> HIDE DEF e
<1>5. Len(out) = Len(e) - k /\ \A i \in 1..Len(out) : out[i] = e[k + i]
  BY <1>4
<1>6. /\ chunk \in Nat /\ chunk <= Len(out) /\ notify \in {NotifyMin, NotifyMax}
      /\ out \in Seq(Byte) /\ Len(out) \in Nat /\ central.parser \in Parsers
  BY <1>1 DEF TypeInv, BridgeTypes, LinkTypes, CentralTypes
<1>7. m \in 0..Len(out) /\ (m = chunk \/ chunk = Len(out))
  BY <1>1, <1>6, <1>17, NotifyAssumption DEF Smaller, AnswersInv
<1>8. bytes \in Seq(Byte) /\ Len(bytes) = m /\ \A i \in 1..m : bytes[i] = out[i]
  BY <1>6, <1>7
<1> HIDE DEF bytes
<1>9. /\ t.q \in Parsers /\ Tracks(t.q, k + m, g) /\ Legible(t.q, sent)
      /\ \A f \in t.got : BeginsOneOf(f, sent)
  <2>1. k + m <= Len(e)
    BY <1>4, <1>5, <1>7
  <2>2. \A i \in 1..m : i \in 1..Len(out) /\ bytes[i] = out[i]
    BY <1>6, <1>7, <1>8
  <2>3. \A i \in 1..m : bytes[i] = e[k + i]
    BY <1>5, <2>2
  <2>4. PieceOf(bytes, k, g)
    BY <1>8, <2>1, <2>3 DEF PieceOf, e
  <2>5. Legible(central.parser, sent)
    BY DEF AnswersInv
  <2>6. Heard(bytes, k, g, sent)
    BY <1>3, <1>4, <1>6, <2>4, <2>5, Hears
  <2> QED
    BY <1>8, <2>6, Zenon DEF Heard
<1> HIDE DEF t
<1>10. ASSUME Refused
       PROVE  /\ out' = <<>> /\ UNCHANGED <<central, decoded>>
  BY <1>10 DEF Refused
<1>11. ASSUME Notified
       PROVE  /\ out' = SubSeq(out, chunk + 1, Len(out))
              /\ IF central.subscribed
                 THEN central'.parser = t.q /\ central'.subscribed = central.subscribed
                        /\ decoded' = decoded \cup t.got
                 ELSE UNCHANGED <<central, decoded>>
  <2>1. Deliver(bytes) /\ out' = SubSeq(out, chunk + 1, Len(out))
    BY <1>11, <1>17 DEF Notified, bytes
  <2>2. central.subscribed => central' = [central EXCEPT !.parser = t.q] /\ decoded' = decoded \cup t.got
    BY <2>1, Zenon DEF Deliver, t
  <2>3. ~central.subscribed => UNCHANGED <<central, decoded>>
    BY <2>1, Zenon DEF Deliver
  <2>4. central' = [central EXCEPT !.parser = t.q] =>
          central'.parser = t.q /\ central'.subscribed = central.subscribed
    BY DEF TypeInv, CentralTypes
  <2> QED
    BY <2>1, <2>2, <2>3, <2>4
<1>12. (~central.subscribed => central.parser = OutOfFrame)'
  BY <1>1, <1>10, <1>11 DEF AnswersInv
<1>13. Legible(central.parser, sent)'
  BY <1>1, <1>9, <1>10, <1>11 DEF AnswersInv
<1>14. (\A f \in decoded : BeginsOneOf(f, sent))'
  BY <1>1, <1>9, <1>10, <1>11 DEF AnswersInv
<1>15. ASSUME out' # <<>>
       PROVE  OutIs(g, k + m)' /\ Tracks(central'.parser, k + m, g)
  <2>1. Notified
    BY <1>1, <1>10, <1>15
  <2>2. out' = SubSeq(out, chunk + 1, Len(out))
    BY <1>11, <2>1
  <2>3. chunk # Len(out)
    BY <1>6, <1>15, <2>2
  <2>4. m = chunk
    BY <1>7, <2>3
  <2>5. out' = SubSeq(e, (k + m) + 1, Len(e)) /\ k + m \in Nat /\ k + m <= Len(e)
    BY <1>4, <1>5, <1>6, <1>7, <2>2, <2>4
  <2>6. Tracks(central'.parser, k + m, g)
    <3>1. CASE central.subscribed
      BY <1>9, <1>11, <2>1, <3>1
    <3>2. CASE ~central.subscribed
      <4>1. central'.parser = OutOfFrame
        BY <1>11, <2>1, <3>2 DEF AnswersInv
      <4> DEFINE j == k + m
      <4>2. j \in Nat /\ j <= Len(Encoded(g))
        BY <2>5 DEF e
      <4> HIDE DEF j
      <4>3. Tracks(OutOfFrame, j, g)
        BY <1>4, <4>2, OutOfFrameIs, LateTracks
      <4> QED
        BY <4>1, <4>3 DEF j
    <3> QED
      BY <3>1, <3>2
  <2>7. Answer(g)
    BY <1>3 DEF OutIs
  <2> DEFINE j == k + m
  <2>8. out' = SubSeq(e, j + 1, Len(e)) /\ j \in Nat /\ j <= Len(e)
    BY <2>5
  <2> HIDE DEF j
  <2>9. OutIs(g, j)'
    BY <2>7, <2>8 DEF OutIs, e
  <2> QED
    BY <2>6, <2>9 DEF j
<1>16. (out # <<>> => \E f \in sent : \E j \in Nat : OutIs(f, j) /\ Tracks(central.parser, j, f))'
  <2>1. SUFFICES ASSUME out' # <<>>
                 PROVE  \E f \in sent' : \E j \in Nat : OutIs(f, j)' /\ Tracks(central'.parser, j, f)
    BY DEF Tracks
  <2>2. OutIs(g, k + m)' /\ Tracks(central'.parser, k + m, g) /\ g \in sent'
    BY <1>1, <1>15, <2>1
  <2>3. k + m \in Nat
    BY <1>6, <1>7
  <2> QED
    BY <2>2, <2>3, Zenon
<1> QED
  BY <1>2, <1>12, <1>13, <1>14, <1>16 DEF AnswersInv

LEMMA AnswersBridge ==
  ASSUME TypeInv, AnswersInv, TestReady \/ ClearReady \/ Drain \/ Consume
  PROVE  AnswersInv'
<1> USE DEF device, seen
<1>1. /\ sent' = sent /\ decoded' = decoded /\ out' = out /\ chunk' = chunk
      /\ central' = central /\ pc' # "notify"
  BY DEF TestReady, ClearReady, Drain, Consume
<1>2. Brief(cfg)' /\ Answers(outbox)'
  <2>1. CASE TestReady \/ Drain
    BY <2>1 DEF TestReady, Drain, AnswersInv
  <2>2. CASE ClearReady
    BY <2>2, ReadyAnswers DEF ClearReady, AnswersInv
  <2>3. CASE Consume
    <3>1. CASE EndsFrame(parser, byte)
      <4>1. FrameOf(parser) \in Frames
        BY FrameOfIs DEF TypeInv, ParserTypes
      <4>2. PICK o \in Handled(FrameOf(parser)) : cfg' = o.cfg /\ outbox' = o.replies
        BY <2>3, <3>1 DEF Consume
      <4>3. Brief(o.cfg) /\ Answers(o.replies)
        BY <4>1, <4>2, HandledAnswers DEF AnswersInv
      <4> QED
        BY <4>2, <4>3
    <3>2. CASE ~EndsFrame(parser, byte)
      BY <2>3, <3>2 DEF Consume, AnswersInv
    <3> QED
      BY <3>1, <3>2
  <2> QED
    BY <2>1, <2>2, <2>3
<1> QED
  BY <1>1, <1>2, AnswersCarryOn

\* A frame is sent from its beginning.
LEMMA AnswersSend ==
  ASSUME TypeInv, AnswersInv, SendFrame
  PROVE  AnswersInv'
<1>1. CASE outbox = <<>>
  <2>1. /\ sent' = sent /\ decoded' = decoded /\ out' = out /\ chunk' = chunk
        /\ central' = central /\ pc' # "notify" /\ cfg' = cfg /\ outbox' = outbox
    BY <1>1 DEF SendFrame, device
  <2>2. Brief(cfg)' /\ Answers(outbox)'
    BY <2>1 DEF AnswersInv
  <2> QED
    BY <2>1, <2>2, AnswersCarryOn
<1>2. CASE outbox # <<>>
  <2>0. PICK f : f = Head(outbox)
    OBVIOUS
  <2>1. /\ outbox' = Tail(outbox) /\ decoded' = decoded /\ chunk' = chunk
        /\ central' = central /\ cfg' = cfg
        /\ IF conn = None THEN UNCHANGED <<pc, out, sent>>
           ELSE pc' = "cut" /\ out' = Encoded(f) /\ sent' = sent \cup {f}
        /\ pc = "send"
    BY <1>2, <2>0 DEF SendFrame, device
  <2>2. Answer(f) /\ Answers(Tail(outbox))
    <3>1. outbox \in Seq(Frames) /\ Len(outbox) \in Nat /\ Len(outbox) >= 1
      BY <1>2 DEF TypeInv, BridgeTypes
    <3>2. f = outbox[1] /\ 1 \in 1..Len(outbox)
      BY <2>0, <3>1
    <3>3. Len(Tail(outbox)) = Len(outbox) - 1
          /\ \A i \in 1..Len(Tail(outbox)) : Tail(outbox)[i] = outbox[i + 1]
                                              /\ i + 1 \in 1..Len(outbox)
      BY <3>1
    <3> QED
      BY <3>2, <3>3 DEF AnswersInv, Answers
  <2>3. Brief(cfg)' /\ Answers(outbox)'
    BY <2>1, <2>2 DEF AnswersInv
  <2>4. CASE conn = None
    <3>1. sent' = sent /\ out' = out /\ pc' # "notify"
      BY <2>1, <2>4
    <3> QED
      BY <2>1, <2>3, <3>1, AnswersCarryOn
  <2>5. CASE conn # None
    <3>1. pc' = "cut" /\ out' = Encoded(f) /\ sent' = sent \cup {f}
      BY <2>1, <2>5
    <3>2. PICK k : k = 0
      OBVIOUS
    <3>3. k \in Nat /\ Tracks(central.parser, k, f)
      BY <3>2 DEF Tracks, Follows, TypeInv, CentralTypes
    <3>4. OutIs(f, k)'
      <4>1. f \in Frames /\ Encoded(f) \in Seq(Byte) /\ Len(Encoded(f)) \in Nat
        BY <2>2, EncodedIs DEF Answer, Commanded
      <4>2. Encoded(f) = SubSeq(Encoded(f), k + 1, Len(Encoded(f))) /\ k <= Len(Encoded(f))
        BY <3>2, <4>1
      <4>3. out' = SubSeq(Encoded(f), k + 1, Len(Encoded(f)))
        BY <3>1, <4>2
      <4> QED
        BY <2>2, <3>3, <4>2, <4>3 DEF OutIs
    <3>9. f \in sent' /\ OutIs(f, k)' /\ Tracks(central'.parser, k, f)
      BY <2>1, <3>1, <3>3, <3>4
    <3>5. (out # <<>> => \E g \in sent : \E j \in Nat : OutIs(g, j) /\ Tracks(central.parser, j, g))'
      <4>1. SUFFICES ASSUME out' # <<>>
                     PROVE  \E g \in sent' : \E j \in Nat : OutIs(g, j)' /\ Tracks(central'.parser, j, g)
        BY DEF Tracks
      <4> QED
        BY <3>3, <3>9, Zenon
    <3>6. Legible(central.parser, sent)'
      BY <2>1, <3>1, LegibleInMore DEF AnswersInv
    <3>7. (\A h \in decoded : BeginsOneOf(h, sent))'
      BY <2>1, <3>1 DEF AnswersInv, BeginsOneOf
    <3>8. (~central.subscribed => central.parser = OutOfFrame)'
      BY <2>1 DEF AnswersInv
    <3> QED
      BY <2>3, <3>1, <3>5, <3>6, <3>7, <3>8 DEF AnswersInv
  <2> QED
    BY <2>4, <2>5
<1> QED
  BY <1>1, <1>2

\* A cut is a whole answer, or no more than the shortest notification.
LEMMA AnswersCut ==
  ASSUME NotifyMax >= 11, TypeInv, AnswersInv, Cut
  PROVE  AnswersInv'
<1>1. /\ sent' = sent /\ decoded' = decoded /\ out' = out /\ central' = central
      /\ cfg' = cfg /\ outbox' = outbox
      /\ IF out = <<>> THEN pc' = "send" ELSE chunk' = Smaller(Len(out), notify)
  BY DEF Cut, device, seen
<1>2. ASSUME out # <<>>
      PROVE  Smaller(Len(out), notify) <= NotifyMin \/ Smaller(Len(out), notify) = Len(out)
  <2>1. PICK g \in sent, k \in Nat : OutIs(g, k)
    BY <1>2 DEF AnswersInv
  <2>2. /\ g \in Frames /\ Len(g.payload) \in Nat /\ Len(g.payload) <= 4
        /\ k <= Len(Encoded(g)) /\ out = SubSeq(Encoded(g), k + 1, Len(Encoded(g)))
    BY <2>1, PayloadIs DEF OutIs, Answer, Commanded
  <2>3. Encoded(g) \in Seq(Byte) /\ Len(Encoded(g)) \in Nat
        /\ Len(Encoded(g)) <= 3 + 2 * Len(g.payload)
    BY <2>2, EncodedIs, EncodedShort
  <2>4. Len(out) = Len(Encoded(g)) - k
    BY <2>2, <2>3
  <2>5. Len(out) \in Nat /\ Len(out) <= 11
    BY <2>2, <2>3, <2>4
  <2>6. notify \in {NotifyMin, NotifyMax}
    BY DEF TypeInv, LinkTypes
  <2> QED
    BY <2>5, <2>6, NotifyAssumption DEF Smaller
<1>3. (pc = "notify" => out # <<>> /\ (chunk <= NotifyMin \/ chunk = Len(out)))'
  BY <1>1, <1>2
<1>4. (out # <<>> => \E g \in sent : \E k \in Nat : OutIs(g, k) /\ Tracks(central.parser, k, g))'
  <2>1. \A g, k : OutIs(g, k) => OutIs(g, k)'
    BY <1>1 DEF OutIs
  <2>2. out' # <<>> => \E g \in sent' : \E k \in Nat : OutIs(g, k)' /\ Tracks(central'.parser, k, g)
    BY <1>1, <2>1 DEF AnswersInv
  <2> QED
    BY <2>2 DEF Tracks
<1>5. Brief(cfg)' /\ Answers(outbox)'
  BY <1>1 DEF AnswersInv
<1>6. /\ (~central.subscribed => central.parser = OutOfFrame)'
      /\ Legible(central.parser, sent)'
      /\ (\A f \in decoded : BeginsOneOf(f, sent))'
  BY <1>1 DEF AnswersInv
<1> QED
  BY <1>3, <1>4, <1>5, <1>6 DEF AnswersInv

LEMMA AnswersStep ==
  ASSUME NotifyMax >= 11, TypeInv, AnswersInv, [Next]_vars
  PROVE  AnswersInv'
<1>1. CASE Next
  BY <1>1, AnswersNimble, AnswersBridge, AnswersSend, AnswersCut, AnswersNotify
     DEF Next, BridgeTask
<1>2. CASE UNCHANGED vars
  <2>1. /\ sent' = sent /\ decoded' = decoded /\ out' = out /\ chunk' = chunk /\ pc' = pc
        /\ cfg' = cfg /\ outbox' = outbox /\ central' = central
    BY <1>2 DEF vars, bridge, device, seen
  <2>2. Brief(cfg)' /\ Answers(outbox)'
    BY <2>1 DEF AnswersInv
  <2> QED
    BY <2>1, <2>2, AnswersCarryOn
<1> QED
  BY <1>1, <1>2

\* AnswersIntactHolds: whatever centrals come and go while the KISS core answers,
\* what one of them decodes was sent, or begins something that was, as long as an
\* answer fits into one notification after the MTU exchange (244 bytes; the longest
\* is 11 when every byte of it is escaped).  A cut of the longer size sent after the
\* size went back to NotifyMin would lose bytes in the middle (ble_tx_sink()).
THEOREM AnswersIntactHolds ==
  ASSUME NotifyMax >= 11
  PROVE  Spec => []AnswersIntact
<1>1. TypeInv /\ [Next]_vars => TypeInv'
  BY TypeStep
<1>2. TypeInv /\ AnswersInv /\ [Next]_vars => AnswersInv'
  BY AnswersStep
<1>3. AnswersInv => AnswersIntact
  BY DEF AnswersInv, AnswersIntact
<1> QED
  BY TypeStart, AnswersStart, <1>1, <1>2, <1>3, PTL DEF Spec

---------------------------------------------------------------------------
(* READY.  A central that subscribed and was not told yet is being told:   *)
(* what is left of the frame is what its parser waits for.                 *)

\* The rest of READY, after k bytes that the central has read.
Telling(k) ==
    LET e == Encoded(IndicateReady)
    IN  /\ k < Len(e) /\ out = SubSeq(e, k + 1, Len(e))
        /\ Follows(central.parser, k, IndicateReady, Room(IndicateReady))
        /\ pc = "notify" => 1 <= chunk /\ chunk <= notify /\ chunk <= Len(out)

Untold == central.subscribed /\ ~pending /\ fails = 0 /\ ~ready

BeingTold ==
    \/ pc = "send" /\ outbox = <<IndicateReady>>
    \/ pc \in {"cut", "notify"} /\ \E k \in Nat : Telling(k)

ReadyInv ==
    /\ central.subscribed => conn # None
    /\ fails \in Nat
    /\ Untold => BeingTold

LEMMA AllLegible ==
  ASSUME NEW q \in Parsers
  PROVE  Legible(q, Frames)
<1> DEFINE f == FrameOf(q)
<1>1. f \in Frames
  BY FrameOfIs
<1>2. f.payload \in Seq(Byte)
  BY <1>1 DEF Frames
<1> HIDE DEF f
<1>3. IsPrefix(f.payload, f.payload)
  BY <1>2 DEF IsPrefix
<1>4. BeginsOneOf(f, Frames)
  BY <1>1, <1>3 DEF BeginsOneOf
<1> QED
  BY <1>4 DEF Legible, f

LEMMA ReadyIs ==
  /\ Commanded(IndicateReady) /\ IndicateReady \in Frames
  /\ Encoded(IndicateReady) \in Seq(Byte) /\ Len(Encoded(IndicateReady)) \in Nat
  /\ Len(Encoded(IndicateReady)) >= 3
BY ReadyAnswers, EncodedIs DEF Answer

\* NimBLE and the central: a subscription asks for READY, a disconnection ends it,
\* and while there is one a notification can only get longer.
LEMMA ReadyNimble ==
  ASSUME TypeInv, ReadyInv,
         NimbleTask \/ Connect \/ Disconnect \/ MtuExchanged \/ Subscribe \/ Write
  PROVE  ReadyInv'
<1> USE DEF bridge, device, seen, bounds, link
<1>1. /\ out' = out /\ chunk' = chunk /\ pc' = pc /\ outbox' = outbox /\ fails' = fails
  BY Zenon DEF NimbleTask, StoreByte, Publish, Connect, Disconnect, MtuExchanged, Subscribe, Write
<1>2. ASSUME /\ central'.subscribed => central.subscribed /\ central'.parser = central.parser
             /\ pending' = pending /\ ready' = ready
             /\ central.subscribed => conn' = conn /\ (notify' = notify \/ notify' = NotifyMax)
      PROVE  ReadyInv'
  <2>1. (central.subscribed => conn # None)'
    BY <1>2 DEF ReadyInv
  <2>2. ASSUME Untold' PROVE BeingTold'
    <3>1. central'.subscribed /\ Untold
      BY <1>1, <1>2, <2>2 DEF Untold
    <3>2. CASE pc = "send" /\ outbox = <<IndicateReady>>
      BY <1>1, <3>2 DEF BeingTold
    <3>3. CASE pc \in {"cut", "notify"} /\ \E k \in Nat : Telling(k)
      <4>1. PICK k \in Nat : Telling(k)
        BY <3>3
      <4>2. chunk \in Nat /\ notify \in Nat /\ (chunk <= notify => chunk <= notify')
        BY <1>2, <3>1, NotifyAssumption DEF TypeInv, BridgeTypes, LinkTypes
      <4>3. Telling(k)'
        BY <1>1, <1>2, <3>1, <4>1, <4>2 DEF Telling
      <4> QED
        BY <1>1, <3>3, <4>3, Zenon DEF BeingTold
    <3> QED
      BY <3>1, <3>2, <3>3 DEF ReadyInv, BeingTold
  <2> QED
    BY <1>1, <2>1, <2>2 DEF ReadyInv
<1>3. CASE NimbleTask
  BY <1>2, <1>3, Zenon DEF NimbleTask, StoreByte, Publish
<1>4. CASE MtuExchanged
  BY <1>2, <1>4, Zenon DEF MtuExchanged
<1>5. CASE Connect
  BY <1>2, <1>5 DEF Connect, ReadyInv
<1>6. CASE Disconnect
  <2>1. ~central'.subscribed /\ ~Untold'
    BY <1>6 DEF Disconnect, Untold
  <2> QED
    BY <1>1, <2>1 DEF ReadyInv
<1>7. CASE Subscribe
  <2>1. conn' = conn /\ conn # None /\ ~Untold'
    BY <1>7 DEF Subscribe, Untold
  <2> QED
    BY <1>1, <2>1 DEF ReadyInv
<1>8. CASE Write
  <2>1. \E s : central' = [central EXCEPT !.unsent = s]
    BY <1>8, Zenon DEF Write
  <2>2. central'.subscribed = central.subscribed /\ central'.parser = central.parser
    BY <2>1 DEF TypeInv, CentralTypes
  <2>3. UNCHANGED <<link, ready>>
    BY <1>8 DEF Write
  <2> QED
    BY <1>2, <2>2, <2>3, Zenon
<1> QED
  BY <1>3, <1>4, <1>5, <1>6, <1>7, <1>8

\* The bridge task, but for the notification.
LEMMA ReadyBridge ==
  ASSUME TypeInv, ReadyInv, TestReady \/ ClearReady \/ Drain \/ Consume \/ SendFrame \/ Cut
  PROVE  ReadyInv'
<1> USE DEF link, seen, bounds
<1>1. /\ central' = central /\ conn' = conn /\ notify' = notify /\ fails' = fails /\ ready' = ready
      /\ ClearReady \/ pending' = pending
  BY DEF TestReady, ClearReady, Drain, Consume, SendFrame, Cut
<1>2. (central.subscribed => conn # None)' /\ fails' \in Nat
  BY <1>1 DEF ReadyInv
<1>3. CASE ClearReady
  <2>1. BeingTold'
    BY <1>3 DEF ClearReady, BeingTold
  <2> QED
    BY <1>2, <2>1 DEF ReadyInv
<1>4. CASE TestReady \/ Drain \/ Consume
  <2>1. ~BeingTold /\ pending' = pending
    BY <1>4 DEF TestReady, Drain, Consume, BeingTold
  <2>2. ~Untold'
    BY <1>1, <2>1 DEF ReadyInv, Untold
  <2> QED
    BY <1>2, <2>2 DEF ReadyInv
<1>5. CASE SendFrame
  <2>1. SUFFICES ASSUME Untold' PROVE BeingTold'
    BY <1>2 DEF ReadyInv
  <2>2. Untold /\ pc = "send" /\ pending' = pending
    BY <1>1, <1>5, <2>1 DEF Untold, SendFrame
  <2>3. outbox = <<IndicateReady>> /\ conn # None
    BY <2>2 DEF ReadyInv, BeingTold, Untold
  <2>4. outbox # <<>> /\ Head(outbox) = IndicateReady
    BY <2>3
  <2>5. pc' = "cut" /\ out' = Encoded(IndicateReady)
    BY <1>5, <2>3, <2>4 DEF SendFrame
  <2>6. PICK k : k = 0
    OBVIOUS
  <2>7. k \in Nat /\ Telling(k)'
    <3> DEFINE e == Encoded(IndicateReady)
    <3>1. e \in Seq(Byte) /\ Len(e) \in Nat /\ Len(e) >= 3
      BY ReadyIs
    <3>2. out' = e /\ pc' # "notify"
      BY <2>5
    <3>3. Follows(central', k, IndicateReady, Room(IndicateReady))
          /\ Follows(central'.parser, k, IndicateReady, Room(IndicateReady))
      BY <2>6, Zenon DEF Follows
    <3> HIDE DEF e
    <3>4. k \in Nat /\ k < Len(e) /\ e = SubSeq(e, k + 1, Len(e))
      BY <2>6, <3>1
    <3> QED
      BY <3>2, <3>3, <3>4, Zenon DEF Telling, e
  <2> QED
    BY <2>5, <2>7, Zenon DEF BeingTold
<1>6. CASE Cut
  <2>1. SUFFICES ASSUME Untold' PROVE BeingTold'
    BY <1>2 DEF ReadyInv
  <2>2. Untold /\ pc = "cut" /\ out' = out
    BY <1>1, <1>6, <2>1 DEF Untold, Cut
  <2>3. PICK k \in Nat : Telling(k)
    BY <2>2 DEF ReadyInv, BeingTold
  <2> DEFINE e == Encoded(IndicateReady)
  <2>4. /\ e \in Seq(Byte) /\ Len(e) \in Nat /\ k < Len(e) /\ out = SubSeq(e, k + 1, Len(e))
        /\ Follows(central.parser, k, IndicateReady, Room(IndicateReady))
    BY <2>3, ReadyIs DEF Telling
  <2> HIDE DEF e
  <2>5. Len(out) \in Nat /\ Len(out) >= 1 /\ out # <<>>
    <3>1. Len(out) = Len(e) - k
      BY <2>4
    <3>2. Len(out) >= 1
      BY <2>4, <3>1
    <3>3. out = <<>> => Len(out) = 0
      OBVIOUS
    <3>4. Len(out) \in Nat
      BY <2>4, <3>1
    <3> QED
      BY <3>2, <3>3, <3>4
  <2>6. pc' = "notify" /\ chunk' = Smaller(Len(out), notify)
    BY <1>6, <2>5 DEF Cut
  <2>7. 1 <= chunk' /\ chunk' <= notify /\ chunk' <= Len(out)
    BY <2>5, <2>6, NotifyAssumption DEF Smaller, TypeInv, LinkTypes
  <2>8. Telling(k)'
    BY <1>1, <2>2, <2>4, <2>7, Zenon DEF Telling, e
  <2> QED
    BY <2>6, <2>8, Zenon DEF BeingTold
<1> QED
  BY <1>3, <1>4, <1>5, <1>6

LEMMA ReadyNotify ==
  ASSUME TypeInv, ReadyInv, Notify
  PROVE  ReadyInv'
<1>1. /\ pc = "notify" /\ pc' = "cut" /\ conn' = conn /\ notify' = notify /\ pending' = pending
      /\ Notified \/ Refused
  BY DEF Notify, link
<1> DEFINE m == Smaller(chunk, notify)
           bytes == SubSeq(out, 1, m)
           t == Taken(bytes)
<1>2. ASSUME Refused
      PROVE  /\ UNCHANGED central
             /\ \/ conn = None /\ fails' = fails
                \/ conn # None /\ fails' = fails + 1
  BY <1>2, Zenon DEF Refused
<1>3. ASSUME Notified
      PROVE  /\ conn # None /\ fails' = fails /\ out' = SubSeq(out, chunk + 1, Len(out))
             /\ central'.subscribed = central.subscribed
             /\ central.subscribed =>
                  /\ central'.parser = t.q
                  /\ ready' = (ready \/ IndicateReady \in t.got)
             /\ ~central.subscribed => central' = central
  <2>1. /\ Deliver(bytes) /\ out' = SubSeq(out, chunk + 1, Len(out))
        /\ conn # None /\ fails' = fails
    BY <1>3 DEF Notified
  <2> HIDE DEF bytes
  <2>2. central.subscribed => /\ central' = [central EXCEPT !.parser = t.q]
                              /\ ready' = (ready \/ IndicateReady \in t.got)
    BY <2>1, Zenon DEF Deliver
  <2>3. ~central.subscribed => central' = central
    BY <2>1, Zenon DEF Deliver
  <2> HIDE DEF t
  <2>4. central' = [central EXCEPT !.parser = t.q] =>
          central'.parser = t.q /\ central'.subscribed = central.subscribed
    BY DEF TypeInv, CentralTypes
  <2> QED
    BY <2>1, <2>2, <2>3, <2>4, Zenon
<1> HIDE DEF t, bytes, m
<1>4. (central.subscribed => conn # None)'
  BY <1>1, <1>2, <1>3 DEF ReadyInv
<1>5. fails' \in Nat
  BY <1>1, <1>2, <1>3 DEF ReadyInv
<1>6. ASSUME Untold' PROVE BeingTold'
  <2>1. central'.subscribed /\ ~pending /\ fails' = 0 /\ ~ready'
    BY <1>1, <1>6 DEF Untold
  <2>2. conn # None /\ fails \in Nat
    BY <1>1, <1>4, <2>1 DEF ReadyInv
  <2>3. Notified
    BY <1>1, <1>2, <2>1, <2>2
  <2>4. /\ central.subscribed /\ fails = 0 /\ ~ready /\ IndicateReady \notin t.got
        /\ central'.parser = t.q /\ out' = SubSeq(out, chunk + 1, Len(out))
    BY <1>3, <2>1, <2>3
  <2>5. PICK k \in Nat : Telling(k)
    BY <1>1, <2>1, <2>4 DEF ReadyInv, Untold, BeingTold
  <2> DEFINE e == Encoded(IndicateReady)
  <2>6. /\ e \in Seq(Byte) /\ Len(e) \in Nat /\ k < Len(e) /\ out = SubSeq(e, k + 1, Len(e))
        /\ Follows(central.parser, k, IndicateReady, Room(IndicateReady))
        /\ 1 <= chunk /\ chunk <= notify /\ chunk <= Len(out)
    BY <1>1, <2>5, ReadyIs DEF Telling
  <2> HIDE DEF e
  <2>7. /\ chunk \in Nat /\ notify \in Nat /\ central.parser \in Parsers
    BY NotifyAssumption DEF TypeInv, BridgeTypes, LinkTypes, CentralTypes
  <2>8. m = chunk
    BY <2>6, <2>7 DEF m, Smaller
  <2>9. Len(out) = Len(e) - k /\ \A i \in 1..Len(out) : out[i] = e[k + i]
    BY <2>6
  <2>10. out \in Seq(Byte) /\ Len(out) \in Nat
    BY <2>6
  <2>11. bytes \in Seq(Byte) /\ Len(bytes) = chunk /\ \A i \in 1..chunk : bytes[i] = out[i]
    BY <2>6, <2>7, <2>8, <2>10 DEF bytes
  <2>12. PieceOf(bytes, k, IndicateReady)
    <3>1. k + chunk <= Len(e)
      BY <2>6, <2>7, <2>9
    <3>2. \A i \in 1..chunk : i \in 1..Len(out)
      BY <2>6, <2>7, <2>10
    <3>3. \A i \in 1..chunk : bytes[i] = e[k + i]
      BY <2>9, <2>11, <3>2
    <3> QED
      BY <2>11, <3>1, <3>3 DEF PieceOf, e
  <2>13. Heard(bytes, k, IndicateReady, Frames)
    <3>1. Legible(central.parser, Frames)
      BY <2>7, AllLegible
    <3>2. Tracks(central.parser, k, IndicateReady)
      BY <2>6, <2>7 DEF Tracks
    <3> QED
      BY <2>7, <2>12, <3>1, <3>2, ReadyIs, Hears
  <2>14. /\ Follows(t.q, k + chunk, IndicateReady, Room(IndicateReady))
         /\ chunk > 0 /\ k + chunk = Len(e) => IndicateReady \in t.got
    BY <2>6, <2>11, <2>13, Zenon DEF Heard, t, e
  <2>15. PICK j : j = k + chunk
    OBVIOUS
  <2>16. j \in Nat /\ j < Len(e)
    <3>1. ~(chunk > 0 /\ k + chunk = Len(e))
      BY <2>4, <2>14, Zenon
    <3> QED
      BY <2>6, <2>7, <2>9, <2>15, <3>1
  <2>17. out' = SubSeq(e, j + 1, Len(e))
    BY <2>4, <2>6, <2>7, <2>9, <2>15, <2>16
  <2>18. Telling(j)'
    BY <1>1, <2>4, <2>14, <2>15, <2>16, <2>17, Zenon DEF Telling, e
  <2> QED
    BY <1>1, <2>16, <2>18, Zenon DEF BeingTold
<1> QED
  BY <1>4, <1>5, <1>6 DEF ReadyInv

LEMMA ReadyStep == TypeInv /\ ReadyInv /\ [Next]_vars => ReadyInv'
<1> SUFFICES ASSUME TypeInv, ReadyInv, [Next]_vars PROVE ReadyInv'
  OBVIOUS
<1>1. CASE Next
  BY <1>1, ReadyNimble, ReadyBridge, ReadyNotify DEF Next, BridgeTask
<1>2. CASE UNCHANGED vars
  <2>1. /\ UNCHANGED <<out, chunk, pc, outbox, central, conn, notify, pending, fails, ready>>
    BY <1>2 DEF vars, bridge, seen, link, bounds
  <2>2. \A k : Telling(k)' <=> Telling(k)
    BY <2>1 DEF Telling
  <2>3. Untold' = Untold
    BY <2>1 DEF Untold
  <2>4. BeingTold' <=> BeingTold
    BY <2>1, <2>2 DEF BeingTold
  <2> QED
    BY <2>1, <2>3, <2>4 DEF ReadyInv
<1> QED
  BY <1>1, <1>2

\* SubscriberIsReadyHolds: READY reaches every central that subscribed, however
\* connections, subscriptions and MTU exchanges fall between the steps of run() that
\* send it, unless NimBLE refuses a notification.
THEOREM SubscriberIsReadyHolds == Spec => []SubscriberIsReady
<1>1. Init => ReadyInv
  BY DEF Init, ReadyInv, Untold
<1>2. ReadyInv => SubscriberIsReady
  BY DEF ReadyInv, SubscriberIsReady, Untold, BeingTold
<1> QED
  BY TypeStart, TypeStep, <1>1, <1>2, ReadyStep, PTL DEF Spec

---------------------------------------------------------------------------
(* The commands.  The bytes that the parser has yet to take are those in   *)
(* the ring and those the NimBLE task has yet to store; what it will hold  *)
(* after each of them is legible, and what the central has yet to write    *)
(* goes on where they end.                                                 *)

Begun == {Script[i] : i \in 1..begun}

\* The slot i places after t.
Slot(t, i) == IF t + i < RingSize THEN t + i ELSE t + i - RingSize

\* The first n bytes of w are published, the others are yet to be stored.
Queued(w, n) ==
    /\ n <= Len(w) /\ n < RingSize /\ head = Slot(tail, n)
    /\ \A i \in 1..n : ring[Slot(tail, i - 1)] = w[i]
    /\ unstored = SubSeq(w, n + 1, Len(w))
    /\ stored => n < Len(w) /\ ring[head] = w[n + 1]

\* What a parser holds after each byte of w.
Parses(r, q, w, S) ==
    /\ r \in [0..Len(w) -> Parsers] /\ r[0] = q
    /\ \A i \in 1..Len(w) : r[i] = AfterByte(r[i - 1], w[i], FrameMax)
    /\ \A i \in 0..Len(w) : Legible(r[i], S)

\* Parser q, at the end of them, waits for what the central has yet to write.
Resumes(q) ==
    central.unsent # <<>> =>
      /\ begun >= 1
      /\ \E k \in Nat :
           LET e == Encoded(Script[begun])
           IN  /\ k <= Len(e) /\ central.unsent = SubSeq(e, k + 1, Len(e))
               /\ Follows(q, k, Script[begun], FrameMax)

Coming(w, n, r) ==
    Queued(w, n) /\ Parses(r, parser, w, Begun) /\ Resumes(r[Len(w)])

CommandsInv ==
    ~dropped =>
      /\ \A f \in executed : BeginsOneOf(f, Begun)
      /\ \E w \in Seq(Byte) : \E n \in Nat : \E r : Coming(w, n, r)

LEMMA SlotIs ==
  ASSUME NEW t \in 0..RingSize-1
  PROVE  /\ Slot(t, 0) = t
         /\ \A i \in Nat : i < RingSize => Slot(t, i) \in 0..RingSize-1
         /\ \A i \in Nat : i + 1 < RingSize =>
              After(Slot(t, i)) = Slot(t, i + 1) /\ Slot(After(t), i) = Slot(t, i + 1)
         /\ \A i, j \in Nat : i < RingSize /\ j < RingSize /\ i # j => Slot(t, i) # Slot(t, j)
<1>1. RingSize \in Nat /\ RingSize > 1
  BY RingAssumption
<1>2. Slot(t, 0) = t /\ \A i \in Nat : i < RingSize => Slot(t, i) \in 0..RingSize-1
  BY <1>1 DEF Slot
<1>3. \A i, j \in Nat : i < RingSize /\ j < RingSize /\ i # j => Slot(t, i) # Slot(t, j)
  BY <1>1 DEF Slot
<1>4. ASSUME NEW i \in Nat, i + 1 < RingSize
      PROVE  After(Slot(t, i)) = Slot(t, i + 1) /\ Slot(After(t), i) = Slot(t, i + 1)
  <2>1. i < RingSize /\ Slot(t, i) \in 0..RingSize-1
    BY <1>1, <1>2, <1>4
  <2>2. After(Slot(t, i)) = IF Slot(t, i) = RingSize-1 THEN 0 ELSE Slot(t, i) + 1
    BY <2>1, AfterIsNext
  <2>3. After(t) = IF t = RingSize-1 THEN 0 ELSE t + 1
    BY AfterIsNext
  <2> QED
    BY <1>1, <1>4, <2>2, <2>3 DEF Slot
<1> QED
  BY <1>2, <1>3, <1>4

LEMMA ScriptIs ==
  ASSUME NEW i \in 1..Len(Script)
  PROVE  Commanded(Script[i])
<1>1. Script \in Seq(Frames)
  BY FrameAssumption DEF Frames, Byte
<1>2. Script[i] \in Frames /\ i \in DOMAIN Script
  BY <1>1
<1> QED
  BY <1>2, CommandAssumption DEF Commanded

LEMMA CommandsStart == Init => CommandsInv
<1> SUFFICES ASSUME Init PROVE CommandsInv
  OBVIOUS
<1> DEFINE w == <<>>
           r == [i \in 0..0 |-> OutOfFrame]
<1>1. w \in Seq(Byte) /\ Len(w) = 0
  OBVIOUS
<1>2. PICK n : n = 0
  OBVIOUS
<1>3. Queued(w, n)
  <2>1. SubSeq(w, n + 1, Len(w)) = <<>>
    BY <1>2
  <2>2. Slot(0, n) = 0
    BY <1>2, RingAssumption DEF Slot
  <2> QED
    BY <1>1, <1>2, <2>1, <2>2, RingAssumption DEF Queued, Init
<1>4. Parses(r, parser, w, Begun)
  BY <1>1, OutOfFrameIs DEF Parses, Init, Legible
<1>5. Resumes(r[Len(w)])
  BY DEF Resumes, Init
<1>6. \A f \in executed : BeginsOneOf(f, Begun)
  BY DEF Init
<1> HIDE DEF w, r
<1>7. n \in Nat /\ Coming(w, n, r)
  BY <1>2, <1>3, <1>4, <1>5 DEF Coming
<1> QED
  BY <1>1, <1>6, <1>7, Zenon DEF CommandsInv

\* What leaves ring, parser and the central's writing alone.
LEMMA CommandsCarryOn ==
  ASSUME CommandsInv, UNCHANGED <<queue, parser, begun, executed, dropped>>,
         central'.unsent = central.unsent \/ central'.unsent = <<>>
  PROVE  CommandsInv'
<1>1. SUFFICES ASSUME ~dropped'
               PROVE  /\ (\A f \in executed : BeginsOneOf(f, Begun))'
                      /\ (\E w \in Seq(Byte) : \E n \in Nat : \E r : Coming(w, n, r))'
  BY DEF CommandsInv
<1>21. PICK w \in Seq(Byte), n \in Nat : \E r : Coming(w, n, r)
  BY <1>1 DEF CommandsInv
<1>2. PICK r : Coming(w, n, r)
  BY <1>21
<1>3. Begun' = Begun
  BY DEF Begun
<1>4. (\A f \in executed : BeginsOneOf(f, Begun))'
  BY <1>1, <1>3 DEF CommandsInv
<1>5. Queued(w, n)'
  BY <1>2 DEF Coming, Queued, queue
<1>6. Parses(r, parser, w, Begun)'
  BY <1>2, <1>3 DEF Coming, Parses
<1>7. Resumes(r[Len(w)])'
  BY <1>2 DEF Coming, Resumes
<1>8. Coming(w, n, r)'
  BY <1>5, <1>6, <1>7 DEF Coming
<1> QED
  BY <1>4, <1>8, Zenon DEF Coming

\* A byte goes into the slot at the head, which is none of the published ones.
LEMMA CommandsStore ==
  ASSUME TypeInv, SlotsInv, CommandsInv, StoreByte
  PROVE  CommandsInv'
<1> SUFFICES ASSUME ~dropped' PROVE CommandsInv'
  BY DEF CommandsInv
<1>1. /\ ~dropped /\ ~stored /\ unstored # <<>>
      /\ ring' = [ring EXCEPT ![head] = Head(unstored)]
      /\ stored' = TRUE /\ unstored' = unstored
      /\ UNCHANGED <<head, tail, parser, central, begun, executed>>
  BY DEF StoreByte, bridge
<1>21. PICK w \in Seq(Byte), n \in Nat : \E r : Coming(w, n, r)
  BY <1>1 DEF CommandsInv
<1>2. PICK r : Coming(w, n, r)
  BY <1>21
<1>3. /\ n <= Len(w) /\ n < RingSize /\ head = Slot(tail, n) /\ Len(w) \in Nat
      /\ unstored = SubSeq(w, n + 1, Len(w))
      /\ \A i \in 1..n : ring[Slot(tail, i - 1)] = w[i]
  BY <1>2 DEF Coming, Queued
<1>4. n < Len(w) /\ Head(unstored) = w[n + 1]
  <2>1. n # Len(w)
    BY <1>1, <1>3
  <2>2. Len(unstored) = Len(w) - n /\ unstored[1] = w[n + 1]
    BY <1>3, <2>1
  <2> QED
    BY <1>3, <2>1, <2>2
<1>5. head \in DOMAIN ring /\ tail \in 0..RingSize-1
  BY DEF SlotsInv, Places
<1>6. ring'[head] = w[n + 1]
  BY <1>1, <1>4, <1>5
<1>7. ASSUME NEW i \in 1..n
      PROVE  ring'[Slot(tail, i - 1)] = w[i]
  <2>1. i - 1 \in Nat /\ i - 1 < RingSize /\ i - 1 # n
    BY <1>3, RingAssumption
  <2>2. Slot(tail, i - 1) # head
    BY <1>3, <1>5, <2>1, SlotIs
  <2>3. ring'[Slot(tail, i - 1)] = ring[Slot(tail, i - 1)]
    <3>1. Slot(tail, i - 1) \in DOMAIN ring
      BY <1>5, <2>1, SlotIs DEF SlotsInv, Places
    <3> QED
      BY <1>1, <2>2, <3>1
  <2> QED
    BY <1>3, <2>3
<1>8. Queued(w, n)'
  BY <1>1, <1>3, <1>4, <1>6, <1>7 DEF Queued
<1>9. Begun' = Begun
  BY <1>1 DEF Begun
<1>10. Coming(w, n, r)'
  BY <1>1, <1>2, <1>8, <1>9 DEF Coming, Parses, Resumes
<1>11. (\A f \in executed : BeginsOneOf(f, Begun))'
  BY <1>1, <1>9 DEF CommandsInv
<1> QED
  BY <1>10, <1>11, Zenon DEF CommandsInv

\* The head moves over it.
LEMMA CommandsPublish ==
  ASSUME TypeInv, SlotsInv, CommandsInv, Publish
  PROVE  CommandsInv'
<1> SUFFICES ASSUME ~dropped' PROVE CommandsInv'
  BY DEF CommandsInv
<1>1. /\ ~dropped /\ stored /\ head' = After(head)
      /\ unstored' = Tail(unstored) /\ stored' = FALSE
      /\ UNCHANGED <<ring, tail, parser, central, begun, executed>>
  BY DEF Publish, bridge, seen
<1>21. PICK w \in Seq(Byte), n \in Nat : \E r : Coming(w, n, r)
  BY <1>1 DEF CommandsInv
<1>2. PICK r : Coming(w, n, r)
  BY <1>21
<1>3. /\ n < RingSize /\ head = Slot(tail, n) /\ Len(w) \in Nat
      /\ unstored = SubSeq(w, n + 1, Len(w))
      /\ n < Len(w) /\ ring[head] = w[n + 1]
      /\ \A i \in 1..n : ring[Slot(tail, i - 1)] = w[i]
  BY <1>1, <1>2 DEF Coming, Queued
<1>4. PICK m : m = n + 1
  OBVIOUS
<1>5. tail \in 0..RingSize-1 /\ After(head) # tail
  BY <1>1 DEF SlotsInv, Places, SlotsAreStable
<1>6. m < RingSize
  <2>1. SUFFICES ASSUME n = RingSize - 1 PROVE FALSE
    BY <1>3, <1>4, RingAssumption
  <2>2. head \in 0..RingSize-1
    BY DEF SlotsInv, Places
  <2>3. head = IF tail = 0 THEN RingSize - 1 ELSE tail - 1
    BY <1>3, <1>5, <2>1, RingAssumption DEF Slot
  <2>4. After(head) = tail
    BY <1>5, <2>2, <2>3, AfterIsNext, RingAssumption
  <2> QED
    BY <1>5, <2>4
<1>7. head' = Slot(tail, m)
  BY <1>1, <1>3, <1>4, <1>5, <1>6, SlotIs
<1>8. unstored' = SubSeq(w, m + 1, Len(w))
  <2>1. Tail(SubSeq(w, n + 1, Len(w))) = SubSeq(w, (n + 1) + 1, Len(w))
    BY <1>3
  <2> QED
    BY <1>1, <1>3, <1>4, <2>1
<1>9. ASSUME NEW i \in 1..m
      PROVE  ring'[Slot(tail, i - 1)] = w[i]
  <2>1. CASE i = m
    <3>1. i - 1 = n
      BY <1>4, <2>1
    <3> QED
      BY <1>1, <1>3, <1>4, <2>1, <3>1
  <2>2. CASE i # m
    <3>1. i \in 1..n
      BY <1>4, <2>2
    <3> QED
      BY <1>1, <1>3, <3>1
  <2> QED
    BY <2>1, <2>2
<1>10. m \in Nat /\ m <= Len(w)
  BY <1>3, <1>4
<1>11. Queued(w, m)'
  BY <1>1, <1>6, <1>7, <1>8, <1>9, <1>10 DEF Queued
<1>12. Begun' = Begun
  BY <1>1 DEF Begun
<1>13. Coming(w, m, r)'
  BY <1>1, <1>2, <1>11, <1>12 DEF Coming, Parses, Resumes
<1>14. (\A f \in executed : BeginsOneOf(f, Begun))'
  BY <1>1, <1>12 DEF CommandsInv
<1> QED
  BY <1>10, <1>13, <1>14, Zenon DEF CommandsInv

\* A parser that has read w reads more of the frame of g.
LEMMA ReadsOn ==
  ASSUME NEW w \in Seq(Byte), NEW q \in Parsers, NEW S, NEW r, Parses(r, q, w, S),
         NEW T, S \subseteq T, NEW g, Commanded(g), g \in T,
         NEW k \in Nat, Follows(r[Len(w)], k, g, FrameMax),
         NEW s, PieceOf(s, k, g)
  PROVE  \E r2 : /\ Parses(r2, q, w \o s, T)
                 /\ Follows(r2[Len(w \o s)], k + Len(s), g, FrameMax)
<1> DEFINE N == Len(w)
           m == Len(s)
           x == w \o s
           M == FrameMax
<1>1. /\ N \in Nat /\ s \in Seq(Byte) /\ m \in Nat /\ k + m <= Len(Encoded(g))
      /\ \A i \in 1..m : s[i] = Encoded(g)[k + i]
      /\ M \in Nat
  BY FrameAssumption DEF PieceOf
<1>2. /\ x \in Seq(Byte) /\ Len(x) = N + m
      /\ \A i \in 1..N : x[i] = w[i]
      /\ \A i \in 1..m : x[N + i] = s[i]
  BY <1>1, CatIs
<1>3. /\ r \in [0..N -> Parsers] /\ r[0] = q
      /\ \A i \in 1..N : r[i] = AfterByte(r[i - 1], w[i], M)
      /\ \A i \in 0..N : Legible(r[i], S)
  BY DEF Parses
<1> HIDE DEF N, m, x, M
<1>4. N \in 0..N /\ r[N] \in Parsers /\ Follows(r[N], k, g, M) /\ Legible(r[N], T)
  <2>1. N \in 0..N
    BY <1>1
  <2>2. r[N] \in Parsers /\ Follows(r[N], k, g, M) /\ Legible(r[N], S)
    BY <1>3, <2>1 DEF N, M
  <2> QED
    BY <2>1, <2>2, LegibleInMore
<1>5. PICK u : Run(u, r[N], k, m, g, M, T)
  BY <1>1, <1>4, Reads
<1>6. /\ u \in [0..m -> Parsers] /\ u[0] = r[N]
      /\ \A i \in 1..m : u[i] = AfterByte(u[i - 1], Encoded(g)[k + i], M)
      /\ \A i \in 0..m : Follows(u[i], k + i, g, M) /\ Legible(u[i], T)
  BY <1>5 DEF Run
<1> DEFINE r2 == [i \in 0..N+m |-> IF i <= N THEN r[i] ELSE u[i - N]]
<1>7. \A i \in 0..N+m : /\ i <= N => i \in 0..N
                        /\ i > N => i - N \in 1..m /\ i - N \in 0..m
                        /\ i = N + m /\ i <= N => m = 0
  BY <1>1
<1>8. ASSUME NEW i \in 0..N+m
      PROVE  r2[i] \in Parsers /\ Legible(r2[i], T)
  <2>1. CASE i <= N
    <3>1. r2[i] = r[i] /\ i \in 0..N
      BY <1>7, <2>1
    <3> QED
      BY <1>3, <3>1, LegibleInMore
  <2>2. CASE i > N
    <3>1. r2[i] = u[i - N] /\ i - N \in 0..m
      BY <1>1, <1>7, <2>2
    <3> QED
      BY <1>6, <3>1
  <2> QED
    BY <1>1, <2>1, <2>2
<1>9. ASSUME NEW i \in 1..N+m
      PROVE  r2[i] = AfterByte(r2[i - 1], x[i], M)
  <2>1. i \in 0..N+m /\ i - 1 \in 0..N+m
    BY <1>1
  <2>2. CASE i <= N
    <3>1. i \in 1..N /\ r2[i] = r[i] /\ r2[i - 1] = r[i - 1]
      BY <1>1, <2>1, <2>2
    <3> QED
      BY <1>2, <1>3, <3>1
  <2>3. CASE i > N
    <3> DEFINE j == i - N
    <3>1. j \in 1..m /\ N + j = i /\ r2[i] = u[j]
      BY <1>1, <1>7, <2>1, <2>3
    <3>2. r2[i - 1] = u[j - 1]
      <4>1. CASE j = 1
        <5>1. i - 1 = N /\ j - 1 = 0
          BY <1>1, <4>1
        <5>2. r2[N] = r[N]
          BY <1>1
        <5> QED
          BY <1>6, <5>1, <5>2
      <4>2. CASE j # 1
        <5>1. i - 1 > N /\ (i - 1) - N = j - 1
          BY <1>1, <2>3, <3>1, <4>2
        <5> QED
          BY <1>1, <2>1, <5>1
      <4> QED
        BY <4>1, <4>2
    <3>3. x[i] = s[j] /\ s[j] = Encoded(g)[k + j]
      BY <1>1, <1>2, <3>1
    <3> HIDE DEF r2, j
    <3>4. u[j] = AfterByte(u[j - 1], Encoded(g)[k + j], M)
      BY <1>6, <3>1
    <3> QED
      BY <3>1, <3>2, <3>3, <3>4
  <2> QED
    BY <1>1, <2>2, <2>3
<1>10. r2 \in [0..N+m -> Parsers] /\ r2[0] = q
  <2>1. r2[0] = r[0]
    BY <1>1
  <2>2. r2 = [i \in 0..N+m |-> r2[i]]
    OBVIOUS
  <2> HIDE DEF r2
  <2> QED
    BY <1>3, <1>8, <2>1, <2>2
<1>11. Follows(r2[N + m], k + m, g, M)
  <2>1. r2[N + m] = u[m]
    <3>1. CASE m = 0
      <4>1. N + m = N /\ r2[N] = r[N]
        BY <1>1, <3>1
      <4> QED
        BY <1>6, <3>1, <4>1
    <3>2. CASE m # 0
      BY <1>1, <3>2
    <3> QED
      BY <3>1, <3>2
  <2>2. m \in 0..m
    BY <1>1
  <2> QED
    BY <1>6, <2>1, <2>2
<1> HIDE DEF r2
<1>12. Parses(r2, q, x, T)
  BY <1>2, <1>8, <1>9, <1>10 DEF Parses, M
<1> QED
  BY <1>2, <1>11, <1>12, Zenon DEF x, m, M

\* A write goes on where the last one ended, or begins a frame.
LEMMA CommandsWrite ==
  ASSUME TypeInv, SlotsInv, CommandsInv, Write
  PROVE  CommandsInv'
<1> SUFFICES ASSUME ~dropped' PROVE CommandsInv'
  BY DEF CommandsInv
<1>0. PICK left \in Seq(Byte) :
        left = IF central.unsent = <<>> THEN Encoded(Script[begun + 1]) ELSE central.unsent
  <2>1. central.unsent = <<>> => begun + 1 \in 1..Len(Script)
    BY FrameAssumption DEF Write, TypeInv, CentralTypes
  <2>2. central.unsent = <<>> => Encoded(Script[begun + 1]) \in Seq(Byte)
    <3> DEFINE i == begun + 1
    <3> HIDE DEF i
    <3>1. i \in 1..Len(Script) => Encoded(Script[i]) \in Seq(Byte)
      BY ScriptIs, EncodedIs DEF Commanded
    <3> QED
      BY <2>1, <3>1 DEF i
  <2>3. central.unsent \in Seq(Byte)
    BY DEF TypeInv, CentralTypes
  <2>4. PICK left : left = IF central.unsent = <<>> THEN Encoded(Script[begun + 1]) ELSE central.unsent
    OBVIOUS
  <2>5. left \in Seq(Byte)
    BY <2>2, <2>3, <2>4
  <2> QED
    BY <2>4, <2>5
<1>20. PICK l : l = Smaller(WriteMax, Len(left))
  OBVIOUS
<1>1. /\ ~dropped /\ unstored = <<>>
      /\ IF central.unsent = <<>>
         THEN begun < Len(Script) /\ begun' = begun + 1
         ELSE begun' = begun
      /\ unstored' = SubSeq(left, 1, l)
      /\ central' = [central EXCEPT !.unsent = SubSeq(left, l + 1, Len(left))]
      /\ UNCHANGED <<ring, head, tail, stored, parser, executed>>
  BY <1>0, <1>20, Zenon DEF Write, bridge
<1>21. PICK w \in Seq(Byte), n \in Nat : \E r : Coming(w, n, r)
  BY <1>1 DEF CommandsInv
<1>2. PICK r : Coming(w, n, r)
  BY <1>21
<1>3. /\ n = Len(w) /\ n < RingSize /\ head = Slot(tail, n) /\ ~stored
      /\ \A i \in 1..n : ring[Slot(tail, i - 1)] = w[i]
  <2>1. /\ n <= Len(w) /\ n < RingSize /\ head = Slot(tail, n) /\ Len(w) \in Nat
        /\ SubSeq(w, n + 1, Len(w)) = <<>>
        /\ \A i \in 1..n : ring[Slot(tail, i - 1)] = w[i]
        /\ stored => n < Len(w)
    BY <1>1, <1>2 DEF Coming, Queued
  <2>2. n = Len(w)
    <3>1. n < Len(w) => Len(SubSeq(w, n + 1, Len(w))) = Len(w) - n
      BY <2>1
    <3>2. Len(SubSeq(w, n + 1, Len(w))) = 0
      <4>1. Len(<<>>) = 0
        OBVIOUS
      <4> QED
        BY <2>1, <4>1, Zenon
    <3> QED
      BY <2>1, <3>1, <3>2
  <2> QED
    BY <2>1, <2>2
<1>4. /\ begun \in Nat /\ begun' \in 1..Len(Script) /\ Begun \subseteq Begun'
      /\ Script[begun'] \in Begun'
  <2>1. begun \in Nat /\ begun <= Len(Script) /\ Len(Script) \in Nat
    BY FrameAssumption DEF TypeInv, CentralTypes
  <2>2. central.unsent # <<>> => begun >= 1
    BY <1>2 DEF Coming, Resumes
  <2>3. begun' \in 1..Len(Script) /\ begun <= begun'
    BY <1>1, <2>1, <2>2
  <2> QED
    BY <2>1, <2>3 DEF Begun
<1>5. PICK g : g = Script[begun']
  OBVIOUS
<1>6. Commanded(g) /\ g \in Begun' /\ Encoded(g) \in Seq(Byte) /\ Len(Encoded(g)) \in Nat
  <2>1. PICK i : i = begun'
    OBVIOUS
  <2>2. Commanded(Script[i])
    BY <1>4, <2>1, ScriptIs
  <2> QED
    BY <1>4, <1>5, <2>1, <2>2, EncodedIs DEF Commanded
<1> DEFINE e == Encoded(g)
<1>7. PICK k \in Nat : /\ k <= Len(e) /\ left = SubSeq(e, k + 1, Len(e))
                       /\ Follows(r[Len(w)], k, g, FrameMax)
  <2>1. CASE central.unsent = <<>>
    <3>1. left = e
      BY <1>0, <1>1, <1>5, <2>1
    <3>2. PICK k : k = 0
      OBVIOUS
    <3>3. Follows(r[Len(w)], k, g, FrameMax)
      BY <3>2, Zenon DEF Follows
    <3>4. k \in Nat /\ k <= Len(e) /\ e = SubSeq(e, k + 1, Len(e))
      <4> HIDE DEF e
      <4> QED
        BY <1>6, <3>2 DEF e
    <3> QED
      BY <3>1, <3>3, <3>4
  <2>2. CASE central.unsent # <<>>
    BY <1>0, <1>1, <1>2, <1>5, <2>2 DEF Coming, Resumes
  <2> QED
    BY <2>1, <2>2
<1> HIDE DEF e
<1>8. Len(left) = Len(e) - k /\ \A i \in 1..Len(left) : left[i] = e[k + i]
  BY <1>6, <1>7 DEF e
<1>9. l \in 0..Len(left)
  BY <1>20, NotifyAssumption DEF Smaller
<1>10. PICK s : s = SubSeq(left, 1, l)
  OBVIOUS
<1>11. s \in Seq(Byte) /\ Len(s) = l /\ \A i \in 1..l : s[i] = left[i]
  BY <1>9, <1>10
<1>12. PieceOf(s, k, g)
  <2>1. k + l <= Len(e)
    BY <1>6, <1>8, <1>9 DEF e
  <2>2. \A i \in 1..l : i \in 1..Len(left)
    BY <1>9
  <2>3. \A i \in 1..l : s[i] = e[k + i]
    BY <1>8, <1>11, <2>2
  <2> QED
    BY <1>11, <2>1, <2>3 DEF PieceOf, e
<1>13. PICK r2 : /\ Parses(r2, parser, w \o s, Begun')
                 /\ Follows(r2[Len(w \o s)], k + Len(s), g, FrameMax)
  <2>1. Parses(r, parser, w, Begun) /\ parser \in Parsers
    BY <1>2 DEF Coming, TypeInv, ParserTypes
  <2> QED
    BY <1>4, <1>6, <1>7, <1>12, <2>1, ReadsOn
<1>14. PICK x : x = w \o s
  OBVIOUS
<1>15. /\ x \in Seq(Byte) /\ Len(x) = n + l /\ Len(w) = n
       /\ \A i \in 1..n : x[i] = w[i]
       /\ \A i \in 1..l : x[n + i] = s[i]
  BY <1>3, <1>11, <1>14, CatIs
<1>16. Queued(x, n)'
  <2>1. unstored' = SubSeq(x, n + 1, Len(x))
    <3>1. SubSeq(x, n + 1, n + l) \in Seq(Byte) /\ Len(SubSeq(x, n + 1, n + l)) = l
          /\ \A i \in 1..l : SubSeq(x, n + 1, n + l)[i] = x[n + i]
      BY <1>9, <1>15
    <3>2. SubSeq(x, n + 1, n + l) = s
      <4> DEFINE y == SubSeq(x, n + 1, n + l)
      <4>1. y \in Seq(Byte) /\ Len(y) = Len(s) /\ \A i \in 1..Len(s) : y[i] = s[i]
        BY <1>11, <1>15, <3>1
      <4> HIDE DEF y
      <4>2. y = s
        BY <1>11, <4>1
      <4> QED
        BY <4>2 DEF y
    <3> QED
      BY <1>1, <1>10, <1>15, <3>2
  <2>2. n <= Len(x)
    BY <1>9, <1>15
  <2>3. /\ n < RingSize /\ head' = Slot(tail', n) /\ ~stored'
        /\ \A i \in 1..n : ring'[Slot(tail', i - 1)] = x[i]
    BY <1>1, <1>3, <1>15
  <2> QED
    BY <2>1, <2>2, <2>3, Zenon DEF Queued
<1>17. Resumes(r2[Len(x)])'
  <2>1. central'.unsent = SubSeq(left, l + 1, Len(left))
    BY <1>1 DEF TypeInv, CentralTypes
  <2>2. PICK j : j = k + l
    OBVIOUS
  <2>3. j \in Nat /\ j <= Len(e) /\ central'.unsent = SubSeq(e, j + 1, Len(e))
    BY <1>6, <1>7, <1>8, <1>9, <2>1, <2>2 DEF e
  <2>4. Follows(r2[Len(x)], j, g, FrameMax)
    BY <1>11, <1>13, <1>14, <2>2
  <2>5. begun' >= 1
    BY <1>4
  <2>6. \E i \in Nat : /\ i <= Len(Encoded(Script[begun']))
                       /\ central'.unsent = SubSeq(Encoded(Script[begun']), i + 1, Len(Encoded(Script[begun'])))
                       /\ Follows(r2[Len(x)], i, Script[begun'], FrameMax)
    BY <1>5, <2>3, <2>4, Zenon DEF e
  <2> QED
    BY <2>5, <2>6 DEF Resumes
<1>18. Coming(x, n, r2)'
  BY <1>1, <1>13, <1>14, <1>16, <1>17 DEF Coming, Parses
<1>19. (\A f \in executed : BeginsOneOf(f, Begun))'
  BY <1>1, <1>4 DEF CommandsInv, BeginsOneOf
<1> QED
  BY <1>15, <1>18, <1>19, Zenon DEF CommandsInv

\* The bridge task takes the first byte; a frame it then has is one it may have.
LEMMA CommandsConsume ==
  ASSUME TypeInv, SlotsInv, CommandsInv, Consume
  PROVE  CommandsInv'
<1> SUFFICES ASSUME ~dropped' PROVE CommandsInv'
  BY DEF CommandsInv
<1>1. /\ ~dropped /\ tail # head /\ byte = ring[tail]
      /\ tail' = After(tail) /\ parser' = AfterByte(parser, byte, FrameMax)
      /\ executed' = IF EndsFrame(parser, byte) THEN executed \cup {FrameOf(parser)} ELSE executed
      /\ UNCHANGED <<ring, head, unstored, stored, central, begun>>
  BY DEF Consume, SlotsInv, SlotsAreStable
<1>21. PICK w \in Seq(Byte), n \in Nat : \E r : Coming(w, n, r)
  BY <1>1 DEF CommandsInv
<1>2. PICK r : Coming(w, n, r)
  BY <1>21
<1>3. /\ n <= Len(w) /\ n < RingSize /\ head = Slot(tail, n) /\ Len(w) \in Nat
      /\ \A i \in 1..n : ring[Slot(tail, i - 1)] = w[i]
      /\ unstored = SubSeq(w, n + 1, Len(w))
      /\ stored => n < Len(w) /\ ring[head] = w[n + 1]
  BY <1>2 DEF Coming, Queued
<1>4. /\ r \in [0..Len(w) -> Parsers] /\ r[0] = parser
      /\ \A i \in 1..Len(w) : r[i] = AfterByte(r[i - 1], w[i], FrameMax)
      /\ \A i \in 0..Len(w) : Legible(r[i], Begun)
  BY <1>2 DEF Coming, Parses
<1>5. tail \in 0..RingSize-1 /\ n > 0
  <2>1. tail \in 0..RingSize-1
    BY DEF SlotsInv, Places
  <2>2. n # 0
    BY <1>1, <1>3, <2>1, SlotIs
  <2> QED
    BY <2>1, <2>2
<1>6. byte = w[1]
  <2>1. 1 \in 1..n /\ 1 - 1 = 0
    BY <1>5
  <2>2. ring[Slot(tail, 1 - 1)] = w[1]
    BY <1>3, <2>1
  <2> QED
    BY <1>1, <1>5, <2>1, <2>2, SlotIs
<1>7. PICK x, m : x = Tail(w) /\ m = n - 1
  OBVIOUS
<1>8. /\ x \in Seq(Byte) /\ Len(x) = Len(w) - 1 /\ Len(x) \in Nat
      /\ \A i \in 1..Len(x) : x[i] = w[i + 1]
      /\ m \in Nat /\ m + 1 = n
  <2>1. w # <<>>
    BY <1>3, <1>5
  <2> QED
    BY <1>3, <1>5, <1>7, <2>1
<1>9. Queued(x, m)'
  <2>1. m <= Len(x) /\ m < RingSize /\ m + 1 < RingSize
    BY <1>3, <1>8, RingAssumption
  <2>2. head' = Slot(tail', m)
    BY <1>1, <1>3, <1>5, <1>8, <2>1, SlotIs
  <2>3. ASSUME NEW i \in 1..m
        PROVE  ring'[Slot(tail', i - 1)] = x[i]
    <3> DEFINE j == i - 1
    <3>1. j \in Nat /\ j + 1 < RingSize /\ j + 1 = i /\ (i + 1) - 1 = i
      BY <1>8, <2>1, RingAssumption
    <3>2. Slot(tail', j) = Slot(tail, j + 1)
      BY <1>1, <1>5, <3>1, SlotIs
    <3>3. i + 1 \in 1..n /\ i \in 1..Len(x)
      BY <1>3, <1>8
    <3>4. ring[Slot(tail, (i + 1) - 1)] = w[i + 1]
      BY <1>3, <3>3
    <3> QED
      BY <1>1, <1>8, <3>1, <3>2, <3>3, <3>4
  <2>4. unstored' = SubSeq(x, m + 1, Len(x))
    <3>1. SubSeq(Tail(w), m + 1, Len(w) - 1) = SubSeq(w, m + 2, Len(w))
      BY <1>3, <1>5, <1>8
    <3>2. m + 2 = n + 1
      BY <1>8
    <3> QED
      BY <1>1, <1>3, <1>7, <1>8, <3>1, <3>2
  <2>5. stored' => m < Len(x) /\ ring'[head'] = x[m + 1]
    <3>1. SUFFICES ASSUME stored PROVE m < Len(x) /\ ring[head] = x[m + 1]
      BY <1>1
    <3>2. n < Len(w) /\ ring[head] = w[n + 1]
      BY <1>3, <3>1
    <3>3. m < Len(x) /\ m + 1 \in 1..Len(x) /\ (m + 1) + 1 = n + 1
      BY <1>3, <1>8, <3>2
    <3>4. x[m + 1] = w[(m + 1) + 1]
      BY <1>8, <3>3
    <3> QED
      BY <3>2, <3>3, <3>4
  <2> QED
    BY <2>1, <2>2, <2>3, <2>4, <2>5 DEF Queued
<1>10. PICK r2 : r2 = [i \in 0..Len(x) |-> r[i + 1]]
  OBVIOUS
<1>11. Begun' = Begun
  BY <1>1 DEF Begun
<1>12. Parses(r2, parser, x, Begun)'
  <2>1. \A i \in 0..Len(x) : i + 1 \in 1..Len(w) /\ i + 1 \in 0..Len(w) /\ r2[i] = r[i + 1]
    BY <1>8, <1>10
  <2>2. r2 \in [0..Len(x) -> Parsers]
    BY <1>4, <1>10, <2>1
  <2>3. r2[0] = parser'
    <3>1. 0 \in 0..Len(x) /\ 0 + 1 = 1 /\ 1 \in 1..Len(w) /\ 1 - 1 = 0
      BY <1>8
    <3>2. r[1] = AfterByte(r[1 - 1], w[1], FrameMax)
      BY <1>4, <3>1
    <3>3. r[1] = AfterByte(parser, byte, FrameMax)
      BY <1>4, <1>6, <3>1, <3>2
    <3> QED
      BY <1>1, <2>1, <3>1, <3>3
  <2>4. ASSUME NEW i \in 1..Len(x)
        PROVE  r2[i] = AfterByte(r2[i - 1], x[i], FrameMax)
    <3> DEFINE j == i - 1
    <3>1. /\ i \in 0..Len(x) /\ j \in 0..Len(x) /\ j + 1 = i /\ i + 1 \in 1..Len(w)
          /\ (i + 1) - 1 = i
      BY <1>8
    <3>2. r2[i] = r[i + 1] /\ r2[j] = r[j + 1] /\ x[i] = w[i + 1]
      BY <1>8, <2>1, <3>1
    <3>3. r[i + 1] = AfterByte(r[(i + 1) - 1], w[i + 1], FrameMax)
      BY <1>4, <3>1
    <3> QED
      BY <3>1, <3>2, <3>3
  <2>5. \A i \in 0..Len(x) : Legible(r2[i], Begun)
    BY <1>4, <2>1
  <2> QED
    BY <1>11, <2>2, <2>3, <2>4, <2>5 DEF Parses
<1>13. Resumes(r2[Len(x)])'
  <2>1. r2[Len(x)] = r[Len(w)]
    <3>1. Len(x) \in 0..Len(x) /\ Len(x) + 1 = Len(w)
      BY <1>3, <1>8
    <3> QED
      BY <1>10, <3>1
  <2>2. Resumes(r[Len(w)])
    BY <1>2 DEF Coming
  <2>3. Resumes(r[Len(w)])'
    BY <1>1, <2>2 DEF Resumes
  <2>4. PICK y : y = r[Len(w)]
    OBVIOUS
  <2>5. Resumes(y)'
    BY <1>1, <2>2, <2>4 DEF Resumes
  <2> QED
    BY <2>1, <2>4, <2>5
<1>14. Coming(x, m, r2)'
  BY <1>9, <1>12, <1>13 DEF Coming
<1>15. (\A f \in executed : BeginsOneOf(f, Begun))'
  <2>1. EndsFrame(parser, byte) => BeginsOneOf(FrameOf(parser), Begun)
    <3>1. 0 \in 0..Len(w)
      BY <1>3
    <3>2. Legible(parser, Begun)
      BY <1>4, <3>1
    <3> QED
      BY <3>2 DEF EndsFrame, Legible
  <2>2. \A f \in executed : BeginsOneOf(f, Begun)
    BY <1>1 DEF CommandsInv
  <2>3. \A f \in executed' : BeginsOneOf(f, Begun)
    BY <1>1, <2>1, <2>2
  <2> QED
    BY <1>11, <2>3
<1> QED
  BY <1>8, <1>14, <1>15, Zenon DEF CommandsInv

LEMMA CommandsStep == TypeInv /\ SlotsInv /\ CommandsInv /\ [Next]_vars => CommandsInv'
<1> SUFFICES ASSUME TypeInv, SlotsInv, CommandsInv, [Next]_vars PROVE CommandsInv'
  OBVIOUS
<1> USE DEF queue, bridge, seen
<1>1. CASE StoreByte \/ Publish \/ Write \/ Consume
  BY <1>1, CommandsStore, CommandsPublish, CommandsWrite, CommandsConsume
<1>2. CASE Connect \/ MtuExchanged \/ TestReady \/ ClearReady \/ Drain \/ SendFrame \/ Cut
  <2>1. UNCHANGED <<queue, parser, begun, executed, dropped, central>>
    BY <1>2, Zenon DEF Connect, MtuExchanged, TestReady, ClearReady, Drain, SendFrame, Cut
  <2> QED
    BY <2>1, CommandsCarryOn
<1>3. CASE Disconnect
  <2>1. UNCHANGED <<queue, parser, begun, executed, dropped>> /\ central'.unsent = <<>>
    BY <1>3 DEF Disconnect
  <2> QED
    BY <2>1, CommandsCarryOn
<1>4. CASE Subscribe
  <2>1. UNCHANGED <<queue, parser, begun, executed, dropped>> /\ central'.unsent = central.unsent
    BY <1>4 DEF Subscribe, TypeInv, CentralTypes
  <2> QED
    BY <2>1, CommandsCarryOn
<1>5. CASE Notify
  <2>1. UNCHANGED <<queue, parser, begun, executed, dropped>>
    BY <1>5 DEF Notify
  <2>2. central'.unsent = central.unsent
    <3>1. UNCHANGED central \/ \E q : central' = [central EXCEPT !.parser = q]
      BY <1>5, Zenon DEF Notify, Notified, Refused, Deliver
    <3> QED
      BY <3>1 DEF TypeInv, CentralTypes
  <2> QED
    BY <2>1, <2>2, CommandsCarryOn
<1>6. CASE UNCHANGED vars
  <2>1. UNCHANGED <<queue, parser, begun, executed, dropped, central>>
    BY <1>6, Zenon DEF vars
  <2> QED
    BY <2>1, CommandsCarryOn
<1> QED
  BY <1>1, <1>2, <1>3, <1>4, <1>5, <1>6 DEF Next, NimbleTask, BridgeTask

\* CommandsIntactHolds: whatever centrals write and wherever they leave off, and
\* however the two tasks take turns at the ring, a command that is run was written,
\* or begins one that was, until the ring drops bytes.
THEOREM CommandsIntactHolds == Spec => []CommandsIntact
<1>1. Init => SlotsInv
  BY RingAssumption DEF Init, SlotsInv, Places, SlotsAreStable
<1>2. CommandsInv => CommandsIntact
  BY DEF CommandsInv, CommandsIntact, Begun
<1> QED
  BY TypeStart, TypeStep, SlotsStep, CommandsStart, CommandsStep, <1>1, <1>2, PTL DEF Spec
===============================================================================
