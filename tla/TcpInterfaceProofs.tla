-------------------------- MODULE TcpInterfaceProofs --------------------------
(***************************************************************************)
(* Proofs about TcpInterface, for any pool of sockets, any packets, any    *)
(* capacities, any number of tasks, breaks and failed attempts: of the     *)
(* types in every behaviour, of the rest in those in which the tasks'      *)
(* calls do not overlap.                                                   *)
(* The sockets: every socket held is _sock, try_connect() is entered only  *)
(* when _sock is none, and every way out of it or of a connection goes     *)
(* through close().                                                        *)
(* The channel: what is still to be handed up is what the parser makes of  *)
(* the bytes in the task's hand and in the socket.  A byte that is parsed  *)
(* leaves it, or takes its first packet; a stream that loses its end loses *)
(* packets from some byte on; a frame written adds its packet at the end.  *)
(***************************************************************************)
EXTENDS TcpInterface, FiniteSetTheorems, WellFoundedInduction, TLAPS


\* The types the argument needs.
SocketTypes ==
  /\ sock \in Sockets \cup {None}
  /\ connected \in BOOLEAN
  /\ down \subseteq Tasks
  /\ pc \in [Tasks -> {"idle", "select", "recv", "byte", "handing"}]
  /\ conn \in [Sockets -> {"free", "connecting", "up", "gone"}]

\* Every socket held is _sock.
Held == \A c \in Sockets : conn[c] # "free" => c = sock

\* What _sock is at each place a task can be.
Placed ==
  /\ \A t \in Tasks : pc[t] = "select" =>
       /\ sock # None /\ conn[sock] = "connecting"
       /\ ~connected /\ down = {}
  /\ ~connected /\ (\A t \in Tasks : pc[t] # "select") => sock = None /\ down = {}
  /\ connected /\ down = {} => sock # None /\ conn[sock] \in {"up", "gone"}
  /\ down # {} => sock # None /\ conn[sock] = "free" /\ connected
  /\ \A t \in down : pc[t] \in {"idle", "handing"}

SocketInv == SocketTypes /\ Held /\ Placed

LEMMA NoneIsNoSocket == None \notin Sockets
  BY MaxSocketsAssumption DEF None, Sockets

LEMMA SocketInvInit == Init => SocketInv
  BY DEF Init, SocketInv, SocketTypes, Held, Placed, None, Sockets

\* disconnect() as RecvFails and SendFails begin it: close() or nothing to close.
LEMMA DisconnectKeeps ==
  ASSUME SocketInv, NEW t \in Tasks, InTurn(t),
         pc[t] # "select", t \notin down, Disconnect(t), sock' = sock,
         NEW place \in {"idle", "handing"}, pc' = [pc EXCEPT ![t] = place]
  PROVE  SocketInv'
<1> USE NoneIsNoSocket DEF SocketInv, SocketTypes, Held, Placed
<1>1. down = {} /\ \A u \in Tasks : u # t => pc[u] = "idle"
  BY DEF InTurn, Inside
<1>2. CASE sock = None
  BY <1>1, <1>2 DEF Disconnect, net
<1>3. CASE sock # None
  <2>1. conn[sock] # "connecting" /\ connected
    BY <1>1, <1>3
  <2> QED
    BY <1>1, <1>3, <2>1 DEF Disconnect, Close
<1> QED
  BY <1>2, <1>3

LEMMA SocketInvTakes ==
  ASSUME SocketInv, NEW p \in Tasks, InTurn(p), Takes(p)
  PROVE  SocketInv'
<1> USE NoneIsNoSocket
<1> USE DEF SocketInv, SocketTypes, Held, Placed
<1>0. /\ \A u \in Tasks : u # p => pc[u] = "idle" /\ u \notin down
      /\ p \notin down => down = {}
  BY DEF InTurn, Inside
<1>1. CASE ConnectRefused(p)
  BY <1>0, <1>1 DEF ConnectRefused, CallsConnect, task, net
<1>2. CASE ConnectBegins(p)
  <2>1. pc[p] = "idle" /\ ~connected /\ p \notin down
    BY <1>2 DEF ConnectBegins, CallsConnect
  <2>2. sock = None /\ down = {} /\ \A c \in Sockets : conn[c] = "free"
    BY <1>0, <2>1
  <2>3. PICK c \in Free : sock' = c /\ conn' = [conn EXCEPT ![c] = "connecting"]
    BY <1>2 DEF ConnectBegins
  <2> QED
    BY <1>0, <1>2, <2>1, <2>2, <2>3 DEF ConnectBegins, GoTo, Free
<1>3. CASE Connected(p)
  BY <1>0, <1>3 DEF Connected, GoTo
<1>4. CASE ConnectFails(p)
  BY <1>0, <1>4 DEF ConnectFails, Close, GoTo, net
<1>5. CASE LoopBegins(p)
  BY <1>0, <1>5 DEF LoopBegins, GoTo, object, net
<1>6. CASE RecvByte(p)
  BY <1>0, <1>6 DEF RecvByte, GoTo, object
<1>7. CASE RecvTimesOut(p)
  BY <1>0, <1>7 DEF RecvTimesOut, GoTo, object, net
<1>8. CASE RecvFails(p)
  <2>1. pc[p] = "recv" /\ Disconnect(p) /\ sock' = sock /\ pc' = [pc EXCEPT ![p] = "idle"]
    BY <1>8 DEF RecvFails, GoTo
  <2> QED
    BY <2>1, DisconnectKeeps
<1>9. CASE ParseByte(p)
  BY <1>0, <1>9 DEF ParseByte, GoTo, net
<1>10. CASE HandUp(p)
  BY <1>0, <1>10 DEF HandUp, GoTo, object, net
<1>11. CASE HandedUp(p)
  BY <1>0, <1>11 DEF HandedUp, GoTo, net
<1>12. CASE SendFails(p)
  <2>1. pc[p] \in {"idle", "handing"} /\ p \notin down /\ Disconnect(p)
        /\ sock' = sock /\ pc' = [pc EXCEPT ![p] = pc[p]]
    BY <1>12 DEF SendFails
  <2> QED
    BY <2>1, DisconnectKeeps
<1>13. CASE DropSocket(p)
  <2>1. down = {p} /\ \A c \in Sockets : conn[c] = "free"
    BY <1>0, <1>13 DEF DropSocket
  <2> QED
    BY <1>0, <1>13, <2>1 DEF DropSocket, net
<1> QED
  BY <1>1, <1>2, <1>3, <1>4, <1>5, <1>6, <1>7, <1>8, <1>9, <1>10, <1>11, <1>12,
     <1>13 DEF Takes, Polls

LEMMA SocketInvStep ==
  ASSUME SocketInv, [NextInTurn]_vars
  PROVE  SocketInv'
<1> USE NoneIsNoSocket
<1> USE DEF SocketInv, SocketTypes, Held, Placed
<1>1. CASE RetryDue
  BY <1>1 DEF RetryDue, task, net
<1>2. ASSUME NEW c \in Sockets, Breaks(c) PROVE SocketInv'
  BY <1>2 DEF Breaks, object, task
<1>3. ASSUME NEW c \in Sockets, NEW p \in Packets, PeerWrites(c, p) PROVE SocketInv'
  BY <1>3 DEF PeerWrites, object, task
<1>4. CASE UNCHANGED vars
  BY <1>4 DEF vars, object, task, net
<1> QED
  BY <1>1, <1>2, <1>3, <1>4, SocketInvTakes DEF NextInTurn, Outside

\* OwnsItsSocketHolds: as long as the calls of the tasks do not overlap, the
\* interface never forgets a socket of the pool, however often connections and
\* attempts fail and whichever tasks poll and send, and is connected only on a
\* socket that got through.
THEOREM OwnsItsSocketHolds == SpecInTurn => []OwnsItsSocket
<1>1. SocketInv /\ [NextInTurn]_vars => SocketInv'
  BY SocketInvStep
<1>2. SocketInv => OwnsItsSocket
  BY DEF SocketInv, Held, Placed, OwnsItsSocket, Free
<1> QED
  BY SocketInvInit, <1>1, <1>2, PTL DEF SpecInTurn

-----------------------------------------------------------------------------
(* The parts of the types.                                                 *)

LEMMA FlipType == \A b \in Byte : Flip(b) \in Byte
BY DEF Flip, Byte

LEMMA StoredType ==
  ASSUME NEW q \in Parsers, NEW b \in Byte, Len(q.rx) <= RxCap
  PROVE  Stored(q, b) \in Parsers /\ Len(Stored(q, b).rx) <= RxCap
<1> DEFINE c == IF q.escape THEN Flip(b) ELSE b
           rx == IF Len(q.rx) < RxCap THEN Append(q.rx, c) ELSE q.rx
<1>1. c \in Byte
  BY FlipType
<1>2. q.rx \in Seq(Byte)
  BY DEF Parsers
<1>3. rx \in Seq(Byte) /\ Len(rx) <= RxCap
  BY <1>1, <1>2, CapAssumption
<1>4. Stored(q, b) = [q EXCEPT !.escape = FALSE, !.rx = rx]
  BY Zenon DEF Stored
<1> HIDE DEF rx
<1> QED
  BY <1>3, <1>4 DEF Parsers

LEMMA AfterByteType ==
  ASSUME NEW q \in Parsers, NEW b \in Byte, Len(q.rx) <= RxCap
  PROVE  AfterByte(q, b) \in Parsers /\ Len(AfterByte(q, b).rx) <= RxCap
<1>1. AtFlag \in Parsers /\ Len(AtFlag.rx) <= RxCap
  BY CapAssumption DEF AtFlag, Parsers
<1>2. [q EXCEPT !.escape = TRUE] \in Parsers /\ [q EXCEPT !.escape = TRUE].rx = q.rx
  BY DEF Parsers
<1> QED
  BY <1>1, <1>2, StoredType DEF AfterByte

LEMMA CloseType ==
  ASSUME TypeOK, NEW c \in Sockets, Close(c)
  PROVE  /\ conn' \in [Sockets -> {"free", "connecting", "up", "gone"}]
         /\ pipe' \in [Sockets -> Seq(Byte)]
BY DEF TypeOK, Close

LEMMA DisconnectType ==
  ASSUME TypeOK, NEW t \in Tasks, Disconnect(t)
  PROVE  /\ connected' \in BOOLEAN
         /\ down' \subseteq Tasks
         /\ conn' \in [Sockets -> {"free", "connecting", "up", "gone"}]
         /\ pipe' \in [Sockets -> Seq(Byte)]
<1>1. CASE sock = None
  BY <1>1 DEF Disconnect, TypeOK, net
<1>2. CASE sock # None
  BY <1>2, CloseType DEF Disconnect, TypeOK
<1> QED
  BY <1>1, <1>2

LEMMA GoToType ==
  ASSUME TypeOK, NEW t \in Tasks, GoTo(t, "idle") \/ GoTo(t, "select")
           \/ GoTo(t, "recv") \/ GoTo(t, "byte") \/ GoTo(t, "handing")
  PROVE  pc' \in [Tasks -> {"idle", "select", "recv", "byte", "handing"}]
BY DEF TypeOK, GoTo

-----------------------------------------------------------------------------
(* What a recursive function computes, number by number: a set that holds  *)
(* 0 and the successor of each of its elements is Nat, for otherwise one   *)
(* number outside it is the least.                                         *)

LEMMA LeastNumber ==
  ASSUME NEW A \in SUBSET Nat, A # {}
  PROVE  \E m \in A : \A k \in A : m <= k
<1> DEFINE T == {0..n : n \in A}
           R == StrictSubsetOrdering(Nat)
<1>1. T # {} /\ T \subseteq FiniteSubsetsOf(Nat)
  <2>1. \A n \in A : 0..n \in SUBSET Nat /\ IsFiniteSet(0..n)
    BY FS_Interval
  <2> QED
    BY <2>1 DEF FiniteSubsetsOf
<1>2. IsWellFoundedOn(R, FiniteSubsetsOf(Nat))
  BY FS_StrictSubsetOrderingWellFounded
<1>3. PICK x \in T : \A y \in T : <<y, x>> \notin R
  <2> HIDE DEF R, T
  <2> QED
    BY <1>1, <1>2, WFMin
<1>4. PICK m \in A : x = 0..m
  OBVIOUS
<1>5. ASSUME NEW k \in A, k < m
      PROVE  FALSE
  <2>1. 0..k \in T /\ 0..k \subseteq 0..m /\ m \in 0..m /\ m \notin 0..k
    BY <1>5
  <2>2. <<0..k, x>> \in R
    BY <1>4, <2>1 DEF StrictSubsetOrdering
  <2> QED
    BY <1>3, <2>1, <2>2
<1> QED
  BY <1>5

LEMMA NumberByNumber ==
  ASSUME NEW A \in SUBSET Nat, 0 \in A, \A n \in A : n + 1 \in A
  PROVE  A = Nat
<1> DEFINE B == Nat \ A
<1>1. SUFFICES ASSUME B # {} PROVE FALSE
  OBVIOUS
<1>2. PICK m \in B : \A k \in B : m <= k
  <2>1. B \in SUBSET Nat
    OBVIOUS
  <2> HIDE DEF B
  <2> QED
    BY <1>1, <2>1, LeastNumber
<1>3. m # 0 /\ m - 1 \in Nat /\ m - 1 \notin B
  BY <1>2
<1> QED
  BY <1>3

\* The values from v0 on that step gives.
Steps(f, V, v0, N, step) ==
    /\ f \in [0..N -> V] /\ f[0] = v0
    /\ \A i \in 1..N : f[i] = step[i][f[i - 1]]

LEMMA StepsExist ==
  ASSUME NEW V, NEW v0 \in V, NEW N \in Nat, NEW step \in [1..N -> [V -> V]]
  PROVE  \E f : Steps(f, V, v0, N, step)
<1> DEFINE Upto(f, n) == /\ f \in [0..n -> V] /\ f[0] = v0
                         /\ \A i \in 1..n : f[i] = step[i][f[i - 1]]
           A == {n \in Nat : n <= N => \E f : Upto(f, n)}
<1>1. 0 \in A
  <2>1. Upto([i \in 0..0 |-> v0], 0)
    OBVIOUS
  <2> QED
    BY <2>1
<1>2. ASSUME NEW n \in A
      PROVE  n + 1 \in A
  <2>1. SUFFICES ASSUME n + 1 <= N PROVE \E f : Upto(f, n + 1)
    OBVIOUS
  <2>2. PICK f : Upto(f, n)
    BY <2>1
  <2> DEFINE g == [i \in 0..n+1 |-> IF i = n + 1 THEN step[n + 1][f[n]] ELSE f[i]]
  <2>3. f[n] \in V /\ n + 1 \in 1..N /\ step[n + 1][f[n]] \in V
    <3>1. f[n] \in V /\ n + 1 \in 1..N
      BY <2>1, <2>2
    <3> QED
      BY <3>1
  <2>4. g \in [0..n+1 -> V] /\ g[0] = v0
    BY <2>2, <2>3
  <2>5. ASSUME NEW i \in 1..n+1
        PROVE  g[i] = step[i][g[i - 1]]
    <3>1. CASE i = n + 1
      <4>1. g[i - 1] = f[n]
        BY <3>1
      <4> QED
        BY <3>1, <4>1
    <3>2. CASE i # n + 1
      <4>1. i \in 1..n /\ g[i] = f[i] /\ g[i - 1] = f[i - 1]
        BY <3>2
      <4> QED
        BY <2>2, <4>1
    <3> QED
      BY <3>1, <3>2
  <2>6. Upto(g, n + 1)
    BY <2>4, <2>5
  <2> QED
    BY <2>6
<1>3. N \in A
  <2> HIDE DEF Upto
  <2>1. A \in SUBSET Nat
    OBVIOUS
  <2> HIDE DEF A
  <2>2. A = Nat
    BY <1>1, <1>2, <2>1, NumberByNumber
  <2> QED
    BY <2>2
<1> QED
  BY <1>3 DEF Steps

-----------------------------------------------------------------------------
(* The parser over a string of bytes. *)

\* The parsers the interface can have, and what they come to.
Holding == {q \in Parsers : Len(q.rx) <= RxCap}
Runs == [parser : Holding, up : Seq(Seq(Byte))]
Fresh(q) == [parser |-> q, up |-> <<>>]

Reads(r, b) ==
  [parser |-> AfterByte(r.parser, b),
   up |-> IF EndsFrame(r.parser, b) THEN Append(r.up, r.parser.rx) ELSE r.up]

\* f is the run of q over s, byte by byte.
Ran(f, q, s) ==
  /\ f \in [0..Len(s) -> Runs] /\ f[0] = Fresh(q)
  /\ \A i \in 1..Len(s) : f[i] = Reads(f[i - 1], s[i])

LEMMA FreshType == \A q \in Holding : Fresh(q) \in Runs
BY DEF Fresh, Runs

LEMMA ReadsType ==
  ASSUME NEW r \in Runs, NEW b \in Byte
  PROVE  Reads(r, b) \in Runs
<1>1. r.parser \in Holding /\ r.up \in Seq(Seq(Byte))
  BY DEF Runs
<1>2. AfterByte(r.parser, b) \in Holding
  BY <1>1, AfterByteType DEF Holding
<1>3. r.parser.rx \in Seq(Byte)
  BY <1>1 DEF Holding, Parsers
<1>4. Append(r.up, r.parser.rx) \in Seq(Seq(Byte))
  BY <1>1, <1>3
<1> QED
  BY <1>1, <1>2, <1>4, Zenon DEF Reads, Runs

LEMMA SameSteps ==
  ASSUME NEW f, NEW g, NEW N \in Nat, f[0] = g[0],
         \A i \in 1..N : f[i - 1] = g[i - 1] => f[i] = g[i]
  PROVE  \A i \in 0..N : f[i] = g[i]
<1> DEFINE A == {n \in Nat : n <= N => f[n] = g[n]}
<1>1. 0 \in A
  OBVIOUS
<1>2. ASSUME NEW n \in A
      PROVE  n + 1 \in A
  <2>1. SUFFICES ASSUME n + 1 <= N PROVE f[n + 1] = g[n + 1]
    OBVIOUS
  <2>2. n + 1 \in 1..N /\ (n + 1) - 1 = n /\ f[n] = g[n]
    BY <2>1
  <2> QED
    BY <2>2
<1>3. A = Nat
  <2>1. A \in SUBSET Nat
    OBVIOUS
  <2> HIDE DEF A
  <2> QED
    BY <1>1, <1>2, <2>1, NumberByNumber
<1> QED
  BY <1>3

LEMMA RunIs ==
  ASSUME NEW q \in Holding, NEW s \in Seq(Byte)
  PROVE  \E f : Ran(f, q, s) /\ f[Len(s)] = Run(q, s)
<1> DEFINE N == Len(s)
           Eq(h) == h = [i \in 0..N |-> IF i = 0 THEN Fresh(q) ELSE AfterRun(s[i])[h[i - 1]]]
           h == CHOOSE g : Eq(g)
           step == [i \in 1..N |-> [r \in Runs |-> Reads(r, s[i])]]
<1>1. N \in Nat /\ \A i \in 1..N : s[i] \in Byte
  OBVIOUS
<1>2. Run(q, s) = h[N]
  BY Zenon DEF Run, Fresh
<1>3. PICK f : Steps(f, Runs, Fresh(q), N, step)
  <2>1. step \in [1..N -> [Runs -> Runs]]
    BY <1>1, ReadsType
  <2>2. Fresh(q) \in Runs
    BY FreshType
  <2> HIDE DEF step
  <2> QED
    BY <1>1, <2>1, <2>2, StepsExist
<1>4. f \in [0..N -> Runs] /\ f[0] = Fresh(q) /\ \A i \in 1..N : f[i] = Reads(f[i - 1], s[i])
  <2>1. f \in [0..N -> Runs] /\ f[0] = Fresh(q) /\ \A i \in 1..N : f[i] = step[i][f[i - 1]]
    BY <1>3 DEF Steps
  <2>2. \A i \in 1..N : i - 1 \in 0..N /\ f[i - 1] \in Runs
    BY <1>1, <2>1
  <2>3. \A i \in 1..N, r \in Runs : step[i][r] = Reads(r, s[i])
    OBVIOUS
  <2> HIDE DEF step
  <2> QED
    BY <2>1, <2>2, <2>3
<1> HIDE DEF step
<1>10. \A i \in 1..N : AfterRun(s[i])[f[i - 1]] = Reads(f[i - 1], s[i])
  <2>1. \A i \in 1..N : f[i - 1] \in Runs
    BY <1>1, <1>4
  <2>2. \A b, r : r \in Runs => AfterRun(b)[r] = Reads(r, b)
    BY DEF Runs, Holding, AfterRun, Reads
  <2> QED
    BY <2>1, <2>2, Zenon
<1>5. Eq(f)
  <2> DEFINE B(i) == IF i = 0 THEN Fresh(q) ELSE AfterRun(s[i])[f[i - 1]]
  <2>1. \A i \in 0..N : f[i] = B(i)
    <3>1. \A i \in 0..N : i # 0 => i \in 1..N
      BY <1>1
    <3> QED
      BY <1>4, <1>10, <3>1, Zenon
  <2> HIDE DEF B
  <2>2. f = [i \in 0..N |-> B(i)]
    BY <1>4, <2>1, Zenon
  <2> QED
    BY <2>2 DEF B
<1>6. Eq(h)
  BY <1>5, Zenon
<1> HIDE DEF h
<1>7. \A i \in 0..N : h[i] = IF i = 0 THEN Fresh(q) ELSE AfterRun(s[i])[h[i - 1]]
  BY <1>6
<1> HIDE DEF Eq
<1>8. \A i \in 0..N : f[i] = h[i]
  <2>1. f[0] = h[0]
    BY <1>1, <1>4, <1>7
  <2>2. \A i \in 1..N : f[i - 1] = h[i - 1] => f[i] = h[i]
    <3>1. \A i \in 1..N : i \in 0..N /\ i # 0
      BY <1>1
    <3> QED
      BY <1>4, <1>7, <1>10, <3>1, Zenon
  <2> QED
    BY <1>1, <2>1, <2>2, SameSteps
<1>9. Ran(f, q, s) /\ f[N] = h[N]
  BY <1>1, <1>4, <1>8 DEF Ran
<1> QED
  BY <1>2, <1>9, Zenon

LEMMA RunType ==
  ASSUME NEW q \in Holding, NEW s \in Seq(Byte)
  PROVE  /\ Run(q, s) \in Runs
         /\ Run(q, s).parser \in Holding /\ Run(q, s).up \in Seq(Seq(Byte))
<1>1. PICK f : Ran(f, q, s) /\ f[Len(s)] = Run(q, s)
  BY RunIs
<1>2. Run(q, s) \in Runs
  BY <1>1 DEF Ran
<1> QED
  BY <1>2 DEF Runs

LEMMA RunEmpty ==
  ASSUME NEW q \in Holding
  PROVE  Run(q, <<>>) = Fresh(q)
<1>1. <<>> \in Seq(Byte) /\ Len(<<>>) = 0
  OBVIOUS
<1>2. PICK f : Ran(f, q, <<>>) /\ f[Len(<<>>)] = Run(q, <<>>)
  BY <1>1, RunIs
<1> QED
  BY <1>1, <1>2 DEF Ran

LEMMA RunAppend ==
  ASSUME NEW q \in Holding, NEW s \in Seq(Byte), NEW b \in Byte
  PROVE  Run(q, Append(s, b)) = Reads(Run(q, s), b)
<1> DEFINE N == Len(s)
           t == Append(s, b)
<1>1. /\ N \in Nat /\ t \in Seq(Byte) /\ Len(t) = N + 1
      /\ \A i \in 1..N : t[i] = s[i]
      /\ t[N + 1] = b
  OBVIOUS
<1> HIDE DEF t
<1>2. PICK f : Ran(f, q, s) /\ f[N] = Run(q, s)
  BY RunIs
<1>3. PICK g : Ran(g, q, t) /\ g[N + 1] = Run(q, t)
  BY <1>1, RunIs
<1>4. f[0] = g[0] /\ \A i \in 1..N : f[i - 1] = g[i - 1] => f[i] = g[i]
  <2>1. \A i \in 1..N : i \in 1..Len(t)
    BY <1>1
  <2> QED
    BY <1>1, <1>2, <1>3, <2>1, Zenon DEF Ran
<1>5. f[N] = g[N]
  <2>1. \A i \in 0..N : f[i] = g[i]
    BY <1>1, <1>4, SameSteps
  <2> QED
    BY <1>1, <2>1
<1>6. g[N + 1] = Reads(g[N], b)
  <2>1. N + 1 \in 1..Len(t) /\ (N + 1) - 1 = N
    BY <1>1
  <2>2. g[N + 1] = Reads(g[(N + 1) - 1], t[N + 1])
    BY <1>3, <2>1, Zenon DEF Ran
  <2> QED
    BY <1>1, <2>1, <2>2
<1> QED
  BY <1>2, <1>3, <1>5, <1>6 DEF t

LEMMA LastOf ==
  ASSUME NEW V, NEW s \in Seq(V), NEW n \in Nat, Len(s) = n + 1
  PROVE  /\ SubSeq(s, 1, n) \in Seq(V) /\ Len(SubSeq(s, 1, n)) = n
         /\ s[n + 1] \in V /\ s = Append(SubSeq(s, 1, n), s[n + 1])
<1> DEFINE t == SubSeq(s, 1, n)
<1>1. t \in Seq(V) /\ Len(t) = n /\ \A i \in 1..n : t[i] = s[i]
  OBVIOUS
<1>2. s[n + 1] \in V
  OBVIOUS
<1> HIDE DEF t
<1> DEFINE u == Append(t, s[n + 1])
<1>3. u \in Seq(V) /\ Len(u) = n + 1 /\ u[n + 1] = s[n + 1] /\ \A i \in 1..n : u[i] = t[i]
  BY <1>1, <1>2
<1> HIDE DEF u
<1>4. \A i \in 1..n + 1 : i \in 1..n \/ i = n + 1
  OBVIOUS
<1>5. \A i \in 1..n + 1 : u[i] = s[i]
  BY <1>1, <1>3, <1>4, Zenon
<1>6. u = s
  BY <1>3, <1>5
<1> QED
  BY <1>1, <1>2, <1>6 DEF t, u

\* Strings of bytes, one byte longer at a time.
LEMMA ByteByByte ==
  ASSUME NEW S, S \in SUBSET Seq(Byte), <<>> \in S,
         \A s \in S, b \in Byte : Append(s, b) \in S
  PROVE  S = Seq(Byte)
<1> DEFINE A == {n \in Nat : \A s \in Seq(Byte) : Len(s) = n => s \in S}
<1>1. 0 \in A
  OBVIOUS
<1>2. ASSUME NEW n \in A
      PROVE  n + 1 \in A
  <2>1. SUFFICES ASSUME NEW s \in Seq(Byte), Len(s) = n + 1 PROVE s \in S
    OBVIOUS
  <2> DEFINE t == SubSeq(s, 1, n)
  <2>2. t \in Seq(Byte) /\ Len(t) = n /\ s[n + 1] \in Byte /\ s = Append(t, s[n + 1])
    BY <2>1, LastOf
  <2>3. t \in S
    BY <2>2
  <2> HIDE DEF t
  <2> QED
    BY <2>2, <2>3
<1>3. A = Nat
  <2>1. A \in SUBSET Nat
    OBVIOUS
  <2> HIDE DEF A
  <2> QED
    BY <1>1, <1>2, <2>1, NumberByNumber
<1>4. \A s \in Seq(Byte) : Len(s) \in Nat
  OBVIOUS
<1>5. \A s \in Seq(Byte) : s \in S
  BY <1>3, <1>4
<1> QED
  BY <1>5, Zenon

LEMMA AppendConcat ==
  ASSUME NEW V
  PROVE  /\ \A x, y \in Seq(V), z \in V : Append(x \o y, z) = x \o Append(y, z)
         /\ \A x \in Seq(V), z \in V : Append(x, z) = x \o <<z>>
         /\ \A x \in Seq(V) : x \o <<>> = x
         /\ \A x, y \in Seq(V) : x \o y \in Seq(V)
OBVIOUS

LEMMA ConcatThree == \A x, y, z \in Seq(Seq(Byte)) : x \o (y \o z) = (x \o y) \o z
OBVIOUS

LEMMA FieldsOf == \A p, u : [parser |-> p, up |-> u].parser = p /\ [parser |-> p, up |-> u].up = u
OBVIOUS

LEMMA RunConcat ==
  ASSUME NEW q \in Holding, NEW s \in Seq(Byte), NEW t \in Seq(Byte)
  PROVE  /\ Run(q, s \o t).parser = Run(Run(q, s).parser, t).parser
         /\ Run(q, s \o t).up = Run(q, s).up \o Run(Run(q, s).parser, t).up
<1> DEFINE r == Run(q, s)
           Joined(u) == [parser |-> u.parser, up |-> r.up \o u.up]
           S == {u \in Seq(Byte) : Run(q, s \o u) = Joined(Run(r.parser, u))}
<1>1. r \in Runs /\ r.parser \in Holding /\ r.up \in Seq(Seq(Byte))
  BY RunType
<1> HIDE DEF r
<1>2. <<>> \in S
  <2>1. Run(r.parser, <<>>) = [parser |-> r.parser, up |-> <<>>]
    BY <1>1, RunEmpty DEF Fresh
  <2>2. s \o <<>> = s /\ r.up \o <<>> = r.up
    BY <1>1
  <2>3. r = [parser |-> r.parser, up |-> r.up]
    BY <1>1 DEF Runs
  <2>4. Joined(Run(r.parser, <<>>)) = r
    <3>1. Run(r.parser, <<>>).parser = r.parser /\ Run(r.parser, <<>>).up = <<>>
      BY <2>1, FieldsOf, Zenon
    <3>2. Joined(Run(r.parser, <<>>)) = [parser |-> r.parser, up |-> r.up]
      BY <2>2, <3>1, Zenon
    <3> QED
      BY <2>3, <3>2, Zenon
  <2>5. <<>> \in Seq(Byte)
    OBVIOUS
  <2> QED
    BY <2>2, <2>4, <2>5, Zenon DEF r
<1>3. ASSUME NEW u \in S, NEW b \in Byte
      PROVE  Append(u, b) \in S
  <2>1. u \in Seq(Byte) /\ Run(q, s \o u) = Joined(Run(r.parser, u))
    OBVIOUS
  <2> DEFINE v == Run(r.parser, u)
  <2>2. v \in Runs /\ v.parser \in Holding /\ v.up \in Seq(Seq(Byte))
    BY <1>1, <2>1, RunType
  <2>3. Run(r.parser, Append(u, b)) = Reads(v, b)
    BY <1>1, <2>1, RunAppend
  <2>4. Append(s \o u, b) = s \o Append(u, b) /\ s \o u \in Seq(Byte)
    <3>1. /\ \A x, y \in Seq(Byte), z \in Byte : Append(x \o y, z) = x \o Append(y, z)
          /\ \A x, y \in Seq(Byte) : x \o y \in Seq(Byte)
      BY AppendConcat
    <3> QED
      BY <2>1, <3>1, Zenon
  <2>5. Run(q, s \o Append(u, b)) = Reads(Joined(v), b)
    BY <2>1, <2>4, RunAppend
  <2> HIDE DEF v
  <2>6. Reads(Joined(v), b) = Joined(Reads(v, b))
    <3>1. v.parser.rx \in Seq(Byte)
      BY <2>2 DEF Holding, Parsers
    <3>2. Append(r.up \o v.up, v.parser.rx) = r.up \o Append(v.up, v.parser.rx)
      <4>1. \A x, y \in Seq(Seq(Byte)), z \in Seq(Byte) : Append(x \o y, z) = x \o Append(y, z)
        BY AppendConcat
      <4> QED
        BY <1>1, <2>2, <3>1, <4>1, Zenon
    <3> QED
      BY <3>2, Zenon DEF Reads
  <2>7. Append(u, b) \in Seq(Byte)
    BY <2>1
  <2> QED
    BY <2>3, <2>5, <2>6, <2>7
<1>4. t \in S
  <2>1. S \in SUBSET Seq(Byte)
    OBVIOUS
  <2> HIDE DEF S
  <2> QED
    BY <1>2, <1>3, <2>1, ByteByByte
<1> DEFINE v == Run(r.parser, t)
<1>5. Run(q, s \o t) = [parser |-> v.parser, up |-> r.up \o v.up]
  BY <1>4
<1>6. Run(q, s \o t).parser = v.parser /\ Run(q, s \o t).up = r.up \o v.up
  <2> HIDE DEF v
  <2> QED
    BY <1>5, FieldsOf, Zenon
<1> QED
  BY <1>6, Zenon DEF r, v

-----------------------------------------------------------------------------
(* What is still to be handed up. *)

\* What a parser hands up when a flag comes.
AtOnce(q) == IF EndsFrame(q, FLAG) THEN <<q.rx>> ELSE <<>>

LEMMA FlagIsByte == FLAG \in Byte
BY DEF FLAG, Byte

LEMMA FlagRun ==
  ASSUME NEW r \in Runs
  PROVE  Reads(r, FLAG) = [parser |-> AtFlag, up |-> r.up \o AtOnce(r.parser)]
<1>1. r.up \in Seq(Seq(Byte)) /\ r.parser.rx \in Seq(Byte)
  BY DEF Runs, Holding, Parsers
<1>2. Append(r.up, r.parser.rx) = r.up \o <<r.parser.rx>> /\ r.up \o <<>> = r.up
  <2>1. /\ \A x \in Seq(Seq(Byte)), z \in Seq(Byte) : Append(x, z) = x \o <<z>>
        /\ \A x \in Seq(Seq(Byte)) : x \o <<>> = x
    BY AppendConcat
  <2> QED
    BY <1>1, <2>1, Zenon
<1>3. AfterByte(r.parser, FLAG) = AtFlag
  BY Zenon DEF AfterByte
<1>4. (IF EndsFrame(r.parser, FLAG) THEN Append(r.up, r.parser.rx) ELSE r.up)
        = r.up \o AtOnce(r.parser)
  <2>1. CASE EndsFrame(r.parser, FLAG)
    BY <1>2, <2>1, Zenon DEF AtOnce
  <2>2. CASE ~EndsFrame(r.parser, FLAG)
    BY <1>2, <2>2, Zenon DEF AtOnce
  <2> QED
    BY <2>1, <2>2
<1> QED
  BY <1>3, <1>4, Zenon DEF Reads

LEMMA UnparsedIs ==
  ASSUME NEW q \in Holding, NEW s \in Seq(Byte)
  PROVE  /\ Unparsed(q, s) = Run(q, s).up \o AtOnce(Run(q, s).parser)
         /\ Unparsed(q, s) \in Seq(Seq(Byte))
<1>1. Run(q, s) \in Runs
  BY RunType
<1>2. Run(q, Append(s, FLAG)) = Reads(Run(q, s), FLAG)
  BY FlagIsByte, RunAppend
<1>3. Run(q, Append(s, FLAG)).up \in Seq(Seq(Byte))
  <2>1. Append(s, FLAG) \in Seq(Byte)
    BY FlagIsByte
  <2> QED
    BY <2>1, RunType
<1>4. Reads(Run(q, s), FLAG).up = Run(q, s).up \o AtOnce(Run(q, s).parser)
  <2>1. Reads(Run(q, s), FLAG) = [parser |-> AtFlag, up |-> Run(q, s).up \o AtOnce(Run(q, s).parser)]
    BY <1>1, FlagRun
  <2> QED
    BY <2>1, FieldsOf, Zenon
<1> QED
  BY <1>2, <1>3, <1>4, Zenon DEF Unparsed

LEMMA UnparsedConcat ==
  ASSUME NEW q \in Holding, NEW s \in Seq(Byte), NEW t \in Seq(Byte)
  PROVE  Unparsed(q, s \o t) = Run(q, s).up \o Unparsed(Run(q, s).parser, t)
<1>1. Append(s \o t, FLAG) = s \o Append(t, FLAG) /\ Append(t, FLAG) \in Seq(Byte)
  BY FlagIsByte
<1>2. Run(q, s \o Append(t, FLAG)).up = Run(q, s).up \o Run(Run(q, s).parser, Append(t, FLAG)).up
  BY <1>1, RunConcat
<1> QED
  BY <1>1, <1>2 DEF Unparsed

\* One byte of what is to come is parsed.
LEMMA UnparsedHead ==
  ASSUME NEW q \in Holding, NEW b \in Byte, NEW t \in Seq(Byte)
  PROVE  Unparsed(q, <<b>> \o t) =
           (IF EndsFrame(q, b) THEN <<q.rx>> ELSE <<>>) \o Unparsed(AfterByte(q, b), t)
<1>1. <<>> \in Seq(Byte) /\ <<b>> \in Seq(Byte) /\ Append(<<>>, b) = <<b>>
  OBVIOUS
<1>2. Run(q, <<b>>) = Reads(Fresh(q), b)
  BY <1>1, RunAppend, RunEmpty
<1>3. q.rx \in Seq(Byte)
  BY DEF Holding, Parsers
<1>4. Append(<<>>, q.rx) = <<q.rx>>
  OBVIOUS
<1>5. /\ Run(q, <<b>>).parser = AfterByte(q, b)
      /\ Run(q, <<b>>).up = IF EndsFrame(q, b) THEN <<q.rx>> ELSE <<>>
  BY <1>2, <1>4 DEF Reads, Fresh
<1>6. Unparsed(q, <<b>> \o t) = Run(q, <<b>>).up \o Unparsed(Run(q, <<b>>).parser, t)
  BY <1>1, UnparsedConcat
<1> QED
  BY <1>5, <1>6

-----------------------------------------------------------------------------
(* A string of bytes that loses its end.                                   *)

\* x begins as p does.
Starts(x, p) == Len(p) <= Len(x) /\ \A i \in 1..Len(p) : x[i] = p[i]

LEMMA AfterByteStarts ==
  ASSUME NEW q \in Holding, NEW b \in Byte, b # FLAG
  PROVE  /\ AfterByte(q, b).inFrame = q.inFrame
         /\ Starts(AfterByte(q, b).rx, q.rx)
<1>1. q.rx \in Seq(Byte) /\ q \in Parsers
  BY DEF Holding, Parsers
<1>2. Starts(q.rx, q.rx) /\ \A c : Starts(Append(q.rx, c), q.rx)
  BY <1>1 DEF Starts
<1>3. CASE ~q.inFrame
  <2>1. AfterByte(q, b) = q
    BY <1>3, Zenon DEF AfterByte
  <2> QED
    BY <1>2, <2>1
<1>4. CASE q.inFrame /\ b = ESC
  <2>1. AfterByte(q, b) = [q EXCEPT !.escape = TRUE]
    BY <1>4, Zenon DEF AfterByte
  <2>2. AfterByte(q, b).inFrame = q.inFrame /\ AfterByte(q, b).rx = q.rx
    BY <1>1, <2>1 DEF Parsers
  <2> QED
    BY <1>2, <2>2
<1>5. CASE q.inFrame /\ b # ESC
  <2> DEFINE c == IF q.escape THEN Flip(b) ELSE b
             rx == IF Len(q.rx) < RxCap THEN Append(q.rx, c) ELSE q.rx
  <2>1. AfterByte(q, b) = Stored(q, b)
    BY <1>5, Zenon DEF AfterByte
  <2>2. Stored(q, b) = [q EXCEPT !.escape = FALSE, !.rx = rx]
    BY Zenon DEF Stored
  <2>3. Starts(rx, q.rx)
    BY <1>2
  <2> HIDE DEF rx
  <2>4. Stored(q, b).inFrame = q.inFrame /\ Stored(q, b).rx = rx
    BY <1>1, <2>2 DEF Parsers
  <2> QED
    BY <2>1, <2>3, <2>4
<1> QED
  BY <1>3, <1>4, <1>5

LEMMA StartsOn ==
  ASSUME NEW x \in Seq(Byte), NEW y \in Seq(Byte), NEW z \in Seq(Byte),
         Starts(y, x), Starts(z, y)
  PROVE  Starts(z, x)
<1>1. Len(x) \in Nat /\ Len(y) \in Nat /\ Len(z) \in Nat /\ Len(x) <= Len(y) /\ Len(y) <= Len(z)
  BY DEF Starts
<1>2. \A i \in 1..Len(x) : i \in 1..Len(y)
  BY <1>1
<1>3. Len(x) <= Len(z)
  BY <1>1
<1> QED
  BY <1>2, <1>3, Zenon DEF Starts

LEMMA FirstOf ==
  ASSUME NEW V, NEW x \in Seq(V), x # <<>>, NEW z \in V
  PROVE  x[1] = Append(x, z)[1] /\ Append(x, z) # <<>>
OBVIOUS

\* What a parser in a frame holds is the beginning of what it hands up next.
LEMMA Grows ==
  ASSUME NEW q \in Holding, EndsFrame(q, FLAG), NEW s \in Seq(Byte)
  PROVE  LET r == Run(q, s)
         IN  \/ r.up = <<>> /\ EndsFrame(r.parser, FLAG) /\ Starts(r.parser.rx, q.rx)
             \/ r.up # <<>> /\ Starts(r.up[1], q.rx)
<1> DEFINE Well(r) == \/ r.up = <<>> /\ EndsFrame(r.parser, FLAG) /\ Starts(r.parser.rx, q.rx)
                      \/ r.up # <<>> /\ Starts(r.up[1], q.rx)
           S == {u \in Seq(Byte) : Well(Run(q, u))}
<1>1. q.rx \in Seq(Byte) /\ q.rx # <<>> /\ Starts(q.rx, q.rx)
  BY DEF Holding, Parsers, Starts, EndsFrame
<1>2. <<>> \in S
  <2>1. Run(q, <<>>).parser = q /\ Run(q, <<>>).up = <<>>
    BY RunEmpty, FieldsOf DEF Fresh
  <2>2. Well(Run(q, <<>>))
    BY <1>1, <2>1, Zenon
  <2>3. <<>> \in Seq(Byte)
    OBVIOUS
  <2> QED
    BY <2>2, <2>3, Zenon
<1>3. ASSUME NEW u \in S, NEW b \in Byte
      PROVE  Append(u, b) \in S
  <2>1. u \in Seq(Byte) /\ Well(Run(q, u)) /\ Append(u, b) \in Seq(Byte)
    <3>1. u \in Seq(Byte)
      OBVIOUS
    <3> QED
      BY <3>1
  <2> DEFINE r == Run(q, u)
  <2>2. r \in Runs /\ r.parser \in Holding /\ r.up \in Seq(Seq(Byte))
    BY <2>1, RunType
  <2>3. Run(q, Append(u, b)) = Reads(r, b)
    BY <2>1, RunAppend
  <2> HIDE DEF r
  <2>4. r.parser.rx \in Seq(Byte)
    BY <2>2 DEF Holding, Parsers
  <2>5. /\ Reads(r, b).parser = AfterByte(r.parser, b)
        /\ EndsFrame(r.parser, b) => Reads(r, b).up = Append(r.up, r.parser.rx)
        /\ ~EndsFrame(r.parser, b) => Reads(r, b).up = r.up
    BY Zenon, FieldsOf DEF Reads
  <2>6. Well(Reads(r, b))
    <3>1. CASE r.up # <<>>
      <4>1. r.up[1] = Append(r.up, r.parser.rx)[1] /\ Append(r.up, r.parser.rx) # <<>>
        BY <2>2, <2>4, <3>1, FirstOf
      <4>2. Starts(r.up[1], q.rx)
        BY <2>1, <3>1, Zenon DEF r
      <4> QED
        BY <2>5, <3>1, <4>1, <4>2, Zenon
    <3>2. CASE r.up = <<>> /\ b = FLAG
      <4>1. EndsFrame(r.parser, FLAG) /\ Starts(r.parser.rx, q.rx)
        BY <2>1, <3>2, Zenon DEF r
      <4>2. Reads(r, b).up = <<r.parser.rx>>
        BY <2>5, <3>2, <4>1
      <4>3. <<r.parser.rx>> # <<>> /\ <<r.parser.rx>>[1] = r.parser.rx
        OBVIOUS
      <4> QED
        BY <4>1, <4>2, <4>3, Zenon
    <3>3. CASE r.up = <<>> /\ b # FLAG
      <4>1. r.parser.inFrame /\ r.parser.rx # <<>> /\ Starts(r.parser.rx, q.rx)
        BY <2>1, <3>3, Zenon DEF r, EndsFrame
      <4>2. Reads(r, b).up = <<>>
        BY <2>5, <3>3, Zenon DEF EndsFrame
      <4> DEFINE p == AfterByte(r.parser, b)
      <4>3. p \in Holding /\ p.inFrame = r.parser.inFrame /\ Starts(p.rx, r.parser.rx)
        <5>1. p \in Holding
          BY <2>2, AfterByteType DEF Holding
        <5> QED
          BY <2>2, <3>3, <5>1, AfterByteStarts
      <4> HIDE DEF p
      <4>4. p.rx \in Seq(Byte)
        BY <4>3 DEF Holding, Parsers
      <4>5. Starts(p.rx, q.rx)
        BY <1>1, <2>4, <4>1, <4>3, <4>4, StartsOn
      <4>6. p.rx # <<>>
        BY <1>1, <4>4, <4>5 DEF Starts
      <4>7. EndsFrame(p, FLAG)
        BY <4>1, <4>3, <4>6, Zenon DEF EndsFrame
      <4> QED
        BY <2>5, <4>2, <4>5, <4>7, Zenon DEF p
    <3> QED
      BY <3>1, <3>2, <3>3
  <2> QED
    BY <2>1, <2>3, <2>6, Zenon
<1>4. s \in S
  <2>1. S \in SUBSET Seq(Byte)
    OBVIOUS
  <2> HIDE DEF S
  <2> QED
    BY <1>2, <1>3, <2>1, ByteByByte
<1> QED
  BY <1>4

LEMMA UnparsedStarts ==
  ASSUME NEW q \in Holding, EndsFrame(q, FLAG), NEW s \in Seq(Byte)
  PROVE  Unparsed(q, s) # <<>> /\ Starts(Unparsed(q, s)[1], q.rx)
<1> DEFINE t == Append(s, FLAG)
           r == Run(q, t)
<1>1. t \in Seq(Byte)
  BY FlagIsByte
<1>2. r.parser = AtFlag
  <2>1. r = Reads(Run(q, s), FLAG)
    BY FlagIsByte, RunAppend
  <2>2. Run(q, s) \in Runs
    BY RunType
  <2>3. Reads(Run(q, s), FLAG) =
          [parser |-> AtFlag, up |-> Run(q, s).up \o AtOnce(Run(q, s).parser)]
    BY <2>2, FlagRun
  <2> QED
    BY <2>1, <2>3, FieldsOf, Zenon
<1>3. ~EndsFrame(AtFlag, FLAG)
  BY DEF EndsFrame, AtFlag
<1> HIDE DEF t
<1>4. \/ r.up = <<>> /\ EndsFrame(r.parser, FLAG) /\ Starts(r.parser.rx, q.rx)
      \/ r.up # <<>> /\ Starts(r.up[1], q.rx)
  BY <1>1, Grows
<1> QED
  BY <1>2, <1>3, <1>4, Zenon DEF Unparsed, t

LEMMA CutBefore ==
  ASSUME NEW x \in Seq(Seq(Byte)), NEW y \in Seq(Seq(Byte))
  PROVE  x \in Channel!Cuts(x \o y)
<1>1. SubSeq(x \o y, 1, Len(x)) = x /\ Len(x) \in 0..Len(x \o y)
  OBVIOUS
<1> QED
  BY <1>1, Zenon DEF Channel!Cuts

LEMMA CutInside ==
  ASSUME NEW x \in Seq(Seq(Byte)), NEW y \in Seq(Seq(Byte)), y # <<>>,
         NEW c \in Seq(Byte), c # <<>>, Starts(y[1], c)
  PROVE  x \o <<c>> \in Channel!Cuts(x \o y)
<1> DEFINE n == Len(x) + 1
           k == Len(c)
           z == x \o y
<1>1. /\ n \in 1..Len(z) /\ z[n] = y[1]
      /\ SubSeq(z, 1, n - 1) = x
  OBVIOUS
<1>2. y[1] \in Seq(Byte)
  OBVIOUS
<1>3. k \in 1..Len(y[1]) /\ SubSeq(y[1], 1, k) = c
  BY <1>2 DEF Starts
<1>4. Append(x, c) = x \o <<c>>
  OBVIOUS
<1> HIDE DEF n, k, z
<1>5. Append(SubSeq(z, 1, n - 1), SubSeq(z[n], 1, k)) = x \o <<c>> /\ k \in 1..Len(z[n])
  BY <1>1, <1>3, <1>4, Zenon
<1> DEFINE T(m) == {Append(SubSeq(z, 1, m - 1), SubSeq(z[m], 1, j)) : j \in 1..Len(z[m])}
<1>6. x \o <<c>> \in T(n)
  BY <1>5, Zenon
<1> HIDE DEF T
<1>7. x \o <<c>> \in UNION {T(m) : m \in 1..Len(z)}
  BY <1>1, <1>6, Zenon
<1>8. UNION {T(m) : m \in 1..Len(z)} \subseteq Channel!Cuts(z)
  BY Zenon DEF Channel!Cuts, T
<1> QED
  BY <1>7, <1>8, Zenon DEF z

LEMMA ConcatAt ==
  ASSUME NEW V, NEW x \in Seq(V), NEW y \in Seq(V)
  PROVE  /\ x \o y \in Seq(V) /\ Len(x \o y) = Len(x) + Len(y)
         /\ \A i \in 1..Len(x) + Len(y) :
              (x \o y)[i] = IF i <= Len(x) THEN x[i] ELSE y[i - Len(x)]
OBVIOUS

LEMMA Halves ==
  ASSUME NEW V, NEW s \in Seq(V), NEW n \in 0..Len(s)
  PROVE  /\ SubSeq(s, 1, n) \in Seq(V) /\ SubSeq(s, n + 1, Len(s)) \in Seq(V)
         /\ s = SubSeq(s, 1, n) \o SubSeq(s, n + 1, Len(s))
<1> DEFINE a == SubSeq(s, 1, n)
           t == SubSeq(s, n + 1, Len(s))
           u == a \o t
<1>1. a \in Seq(V) /\ Len(a) = n /\ \A i \in 1..n : a[i] = s[i]
  OBVIOUS
<1>2. t \in Seq(V) /\ Len(t) = Len(s) - n /\ \A i \in 1..Len(s) - n : t[i] = s[n + i]
  OBVIOUS
<1> HIDE DEF a, t
<1>3. /\ u \in Seq(V) /\ Len(u) = Len(s)
      /\ \A i \in 1..Len(s) : u[i] = IF i <= n THEN a[i] ELSE t[i - n]
  <2>1. /\ u \in Seq(V) /\ Len(u) = Len(a) + Len(t)
        /\ \A i \in 1..Len(a) + Len(t) : u[i] = IF i <= Len(a) THEN a[i] ELSE t[i - Len(a)]
    BY <1>1, <1>2, ConcatAt
  <2> HIDE DEF u
  <2>2. Len(a) = n /\ Len(a) + Len(t) = Len(s)
    BY <1>1, <1>2
  <2> QED
    BY <2>1, <2>2, Zenon
<1> HIDE DEF u
<1>4. ASSUME NEW i \in 1..Len(s)
      PROVE  u[i] = s[i]
  <2>1. CASE i <= n
    <3>1. i \in 1..n
      BY <2>1
    <3> QED
      BY <1>1, <1>3, <2>1, <3>1, Zenon
  <2>2. CASE i > n
    <3>1. i - n \in 1..Len(s) - n /\ n + (i - n) = i
      BY <2>2
    <3>2. u[i] = t[i - n]
      BY <1>3, <2>2
    <3>3. t[i - n] = s[n + (i - n)]
      BY <1>2, <3>1
    <3> QED
      BY <3>1, <3>2, <3>3
  <2>3. i <= n \/ i > n
    OBVIOUS
  <2> QED
    BY <2>1, <2>2, <2>3, Zenon
<1>5. u = s
  BY <1>3, <1>4
<1> QED
  BY <1>1, <1>2, <1>5 DEF u, a, t

LEMMA CutBehind ==
  ASSUME NEW V, NEW a \in Seq(V), NEW s \in Seq(V), NEW n \in 0..Len(s)
  PROVE  SubSeq(a \o s, 1, Len(a) + n) = a \o SubSeq(s, 1, n)
<1> DEFINE x == SubSeq(a \o s, 1, Len(a) + n)
           t == SubSeq(s, 1, n)
           y == a \o t
<1>1. /\ a \o s \in Seq(V) /\ Len(a) + n \in Nat /\ Len(a) + n <= Len(a \o s)
      /\ \A i \in 1..Len(a) + n : (a \o s)[i] = IF i <= Len(a) THEN a[i] ELSE s[i - Len(a)]
  OBVIOUS
<1>2. x \in Seq(V) /\ Len(x) = Len(a) + n /\ \A i \in 1..Len(a) + n : x[i] = (a \o s)[i]
  BY <1>1
<1>3. t \in Seq(V) /\ Len(t) = n /\ \A i \in 1..n : t[i] = s[i]
  OBVIOUS
<1> HIDE DEF x, t
<1>4. y \in Seq(V) /\ Len(y) = Len(a) + n
      /\ \A i \in 1..Len(a) + n : y[i] = IF i <= Len(a) THEN a[i] ELSE t[i - Len(a)]
  <2>1. /\ y \in Seq(V) /\ Len(y) = Len(a) + Len(t)
        /\ \A i \in 1..Len(a) + Len(t) : y[i] = IF i <= Len(a) THEN a[i] ELSE t[i - Len(a)]
    BY <1>3, ConcatAt
  <2> QED
    BY <1>3, <2>1
<1> HIDE DEF y
<1>5. \A i \in 1..Len(a) + n : ~(i <= Len(a)) => i - Len(a) \in 1..n
  OBVIOUS
<1>6. \A i \in 1..Len(a) + n : x[i] = y[i]
  BY <1>1, <1>2, <1>3, <1>4, <1>5, Zenon
<1>7. x = y
  BY <1>2, <1>4, <1>6
<1> QED
  BY <1>7 DEF x, y, t

\* Bytes that lose their end are packets that are cut.
LEMMA UnparsedCut ==
  ASSUME NEW q \in Holding, NEW s \in Seq(Byte), NEW n \in 0..Len(s)
  PROVE  Unparsed(q, SubSeq(s, 1, n)) \in Channel!Cuts(Unparsed(q, s))
<1> DEFINE a == SubSeq(s, 1, n)
           t == SubSeq(s, n + 1, Len(s))
           r == Run(q, a)
           rest == Unparsed(r.parser, t)
<1>1. a \in Seq(Byte) /\ t \in Seq(Byte) /\ s = a \o t
  BY Halves
<1> HIDE DEF a, t
<1>2. r.parser \in Holding /\ r.up \in Seq(Seq(Byte))
  BY <1>1, RunType
<1>3. Unparsed(q, s) = r.up \o rest /\ rest \in Seq(Seq(Byte))
  BY <1>1, <1>2, UnparsedConcat, UnparsedIs
<1>4. Unparsed(q, a) = r.up \o AtOnce(r.parser)
  BY <1>1, UnparsedIs
<1> HIDE DEF r
<1>5. CASE EndsFrame(r.parser, FLAG)
  <2>1. r.parser.rx \in Seq(Byte) /\ r.parser.rx # <<>>
    BY <1>2, <1>5 DEF Holding, Parsers, EndsFrame
  <2>2. rest # <<>> /\ Starts(rest[1], r.parser.rx)
    BY <1>1, <1>2, <1>5, UnparsedStarts
  <2> HIDE DEF rest
  <2>3. r.up \o <<r.parser.rx>> \in Channel!Cuts(r.up \o rest)
    BY <1>2, <1>3, <2>1, <2>2, CutInside
  <2>4. AtOnce(r.parser) = <<r.parser.rx>>
    BY <1>5, Zenon DEF AtOnce
  <2> QED
    BY <1>3, <1>4, <2>3, <2>4, Zenon DEF a
<1>6. CASE ~EndsFrame(r.parser, FLAG)
  <2> HIDE DEF rest
  <2>1. r.up \in Channel!Cuts(r.up \o rest)
    BY <1>2, <1>3, CutBefore
  <2>2. r.up \o <<>> = r.up
    <3>1. \A x \in Seq(Seq(Byte)) : x \o <<>> = x
      BY AppendConcat
    <3> QED
      BY <1>2, <3>1, Zenon
  <2>3. AtOnce(r.parser) = <<>>
    BY <1>6, Zenon DEF AtOnce
  <2> QED
    BY <1>3, <1>4, <2>1, <2>2, <2>3, Zenon DEF a
<1> QED
  BY <1>5, <1>6

-----------------------------------------------------------------------------
(* A frame.                                                                *)

\* buf of send_outgoing(), byte by byte of the data.
Buffered(f, d) ==
  /\ f \in [0..Len(d) -> Seq(Byte)] /\ f[0] = <<FLAG>>
  /\ \A i \in 1..Len(d) :
       f[i] = IF Len(f[i - 1]) + 2 < TxCap THEN f[i - 1] \o Escaped(d[i]) ELSE f[i - 1]

LEMMA EscapedType ==
  ASSUME NEW b \in Byte
  PROVE  /\ Escaped(b) \in Seq(Byte) /\ Len(Escaped(b)) \in 1..2
         /\ \/ b \notin {FLAG, ESC} /\ Escaped(b) = <<b>>
            \/ /\ Escaped(b) = <<ESC, Flip(b)>> /\ ESC \in Byte /\ ESC # FLAG
               /\ Flip(b) \in Byte /\ Flip(b) \notin {FLAG, ESC} /\ Flip(Flip(b)) = b
<1>1. FLAG = 126 /\ ESC = 125 /\ ESC \in Byte
  BY DEF FLAG, ESC, Byte
<1>2. \A x, y \in Byte : /\ <<x>> \in Seq(Byte) /\ Len(<<x>>) \in 1..2
                        /\ <<x, y>> \in Seq(Byte) /\ Len(<<x, y>>) \in 1..2
  OBVIOUS
<1>3. CASE b \in {FLAG, ESC}
  <2>1. Escaped(b) = <<ESC, Flip(b)>>
    BY <1>3, Zenon DEF Escaped
  <2>2. Flip(b) \in Byte /\ Flip(b) \notin {FLAG, ESC} /\ Flip(Flip(b)) = b
    BY <1>1, <1>3 DEF Flip, Byte
  <2> QED
    BY <1>1, <1>2, <2>1, <2>2
<1>4. CASE b \notin {FLAG, ESC}
  <2>1. Escaped(b) = <<b>>
    BY <1>4, Zenon DEF Escaped
  <2> QED
    BY <1>2, <1>4, <2>1
<1> QED
  BY <1>3, <1>4

LEMMA EncodedIs ==
  ASSUME NEW d \in Seq(Byte)
  PROVE  \E f : Buffered(f, d) /\ Encoded(d) = Append(f[Len(d)], FLAG)
<1> DEFINE N == Len(d)
           More(x, i) == IF Len(x) + 2 < TxCap THEN x \o Escaped(d[i]) ELSE x
           Eq(h) == h = [n \in 0..N |-> IF n = 0 THEN <<FLAG>> ELSE More(h[n - 1], n)]
           h == CHOOSE g : Eq(g)
           step == [i \in 1..N |-> [x \in Seq(Byte) |-> More(x, i)]]
<1>1. N \in Nat /\ \A i \in 1..N : d[i] \in Byte
  OBVIOUS
<1>2. Encoded(d) = Append(h[N], FLAG)
  BY Zenon DEF Encoded
<1>3. \A i \in 1..N, x \in Seq(Byte) : More(x, i) \in Seq(Byte)
  BY <1>1, EscapedType
<1>4. PICK f : Steps(f, Seq(Byte), <<FLAG>>, N, step)
  <2>1. step \in [1..N -> [Seq(Byte) -> Seq(Byte)]]
    BY <1>3
  <2>2. <<FLAG>> \in Seq(Byte)
    BY FlagIsByte
  <2> HIDE DEF step
  <2> QED
    BY <1>1, <2>1, <2>2, StepsExist
<1>5. f \in [0..N -> Seq(Byte)] /\ f[0] = <<FLAG>> /\ \A i \in 1..N : f[i] = More(f[i - 1], i)
  <2>1. f \in [0..N -> Seq(Byte)] /\ f[0] = <<FLAG>> /\ \A i \in 1..N : f[i] = step[i][f[i - 1]]
    BY <1>4 DEF Steps
  <2>2. \A i \in 1..N : f[i - 1] \in Seq(Byte)
    <3>1. \A i \in 1..N : i - 1 \in 0..N
      BY <1>1
    <3>2. f \in [0..N -> Seq(Byte)]
      BY <2>1
    <3> HIDE DEF step, N
    <3> QED
      BY <3>1, <3>2
  <2> HIDE DEF More
  <2>3. \A i \in 1..N, x \in Seq(Byte) : step[i][x] = More(x, i)
    OBVIOUS
  <2> HIDE DEF step
  <2> QED
    BY <2>1, <2>2, <2>3
<1>6. Buffered(f, d)
  BY <1>5, Zenon DEF Buffered
<1> HIDE DEF step, More
<1>7. Eq(f)
  <2> DEFINE B(n) == IF n = 0 THEN <<FLAG>> ELSE More(f[n - 1], n)
  <2>1. \A n \in 0..N : f[n] = B(n)
    <3>1. \A n \in 0..N : n # 0 => n \in 1..N
      BY <1>1
    <3> QED
      BY <1>5, <3>1, Zenon
  <2> HIDE DEF B
  <2>2. f = [n \in 0..N |-> B(n)]
    BY <1>5, <2>1, Zenon
  <2> QED
    BY <2>2 DEF B
<1>8. Eq(h)
  BY <1>7, Zenon
<1> HIDE DEF h
<1>9. \A n \in 0..N : h[n] = IF n = 0 THEN <<FLAG>> ELSE More(h[n - 1], n)
  BY <1>8
<1> HIDE DEF Eq
<1>10. \A n \in 0..N : f[n] = h[n]
  <2>1. f[0] = h[0]
    BY <1>1, <1>5, <1>9
  <2>2. \A i \in 1..N : f[i - 1] = h[i - 1] => f[i] = h[i]
    <3>1. \A i \in 1..N : i \in 0..N /\ i # 0
      BY <1>1
    <3> QED
      BY <1>5, <1>9, <3>1, Zenon
  <2> QED
    BY <1>1, <2>1, <2>2, SameSteps
<1>11. Encoded(d) = Append(f[N], FLAG)
  BY <1>1, <1>2, <1>10
<1> QED
  BY <1>6, <1>11, Zenon

LEMMA EncodedType == \A d \in Seq(Byte) : Encoded(d) \in Seq(Byte)
<1> TAKE d \in Seq(Byte)
<1>1. PICK f : Buffered(f, d) /\ Encoded(d) = Append(f[Len(d)], FLAG)
  BY EncodedIs
<1>2. f[Len(d)] \in Seq(Byte)
  BY <1>1 DEF Buffered
<1> QED
  BY <1>1, <1>2, FlagIsByte

\* The parser in a frame of which it holds x.
Kept(x) == [inFrame |-> TRUE, escape |-> FALSE, rx |-> x]

\* What _rx_buf holds of the first n bytes of d.
First(d, n) == SubSeq(d, 1, IF n <= RxCap THEN n ELSE RxCap)

LEMMA FirstIs ==
  ASSUME NEW d \in Seq(Byte), NEW n \in 0..Len(d)
  PROVE  /\ First(d, n) \in Seq(Byte)
         /\ n <= RxCap => Len(First(d, n)) = n
         /\ n > RxCap => Len(First(d, n)) = RxCap
<1>1. CASE n <= RxCap
  BY <1>1, CapAssumption DEF First
<1>2. CASE n > RxCap
  BY <1>2, CapAssumption DEF First
<1> QED
  BY <1>1, <1>2, CapAssumption

LEMMA FirstNext ==
  ASSUME NEW d \in Seq(Byte), NEW n \in Nat, n + 1 <= Len(d)
  PROVE  First(d, n + 1) = IF Len(First(d, n)) < RxCap THEN Append(First(d, n), d[n + 1])
                           ELSE First(d, n)
<1>1. n \in 0..Len(d)
  OBVIOUS
<1>2. CASE n < RxCap
  <2>1. First(d, n) = SubSeq(d, 1, n) /\ First(d, n + 1) = SubSeq(d, 1, n + 1)
    BY <1>2, CapAssumption DEF First
  <2>2. SubSeq(d, 1, n + 1) = Append(SubSeq(d, 1, n), d[n + 1])
    <3> DEFINE e == SubSeq(d, 1, n + 1)
    <3>1. e \in Seq(Byte) /\ Len(e) = n + 1 /\ e[n + 1] = d[n + 1] /\ SubSeq(e, 1, n) = SubSeq(d, 1, n)
      OBVIOUS
    <3> HIDE DEF e
    <3>2. e = Append(SubSeq(e, 1, n), e[n + 1])
      BY <3>1, LastOf
    <3> QED
      BY <3>1, <3>2 DEF e
  <2>3. Len(First(d, n)) = n
    BY <1>1, <1>2, FirstIs, CapAssumption
  <2> QED
    BY <1>2, <2>1, <2>2, <2>3
<1>3. CASE ~(n < RxCap)
  <2>1. First(d, n) = SubSeq(d, 1, RxCap) /\ First(d, n + 1) = SubSeq(d, 1, RxCap)
    BY <1>3, CapAssumption DEF First
  <2>2. Len(First(d, n)) = RxCap
    BY <1>1, <1>3, FirstIs, CapAssumption
  <2>3. ~(Len(First(d, n)) < RxCap)
    BY <2>2, CapAssumption
  <2> QED
    BY <2>1, <2>3
<1> QED
  BY <1>2, <1>3

LEMMA KeptType ==
  ASSUME NEW x \in Seq(Byte), Len(x) <= RxCap
  PROVE  Kept(x) \in Holding
BY DEF Kept, Holding, Parsers

LEMMA ParserIs ==
  ASSUME NEW q \in Parsers
  PROVE  q = [inFrame |-> q.inFrame, escape |-> q.escape, rx |-> q.rx]
BY DEF Parsers

LEMMA StoredIs ==
  ASSUME NEW q \in Holding, q.inFrame, NEW b \in Byte
  PROVE  Stored(q, b) = Kept(IF Len(q.rx) < RxCap THEN Append(q.rx, IF q.escape THEN Flip(b) ELSE b)
                             ELSE q.rx)
<1> DEFINE c == IF q.escape THEN Flip(b) ELSE b
           y == IF Len(q.rx) < RxCap THEN Append(q.rx, c) ELSE q.rx
           p == [q EXCEPT !.escape = FALSE, !.rx = y]
<1>1. q \in Parsers /\ q.rx \in Seq(Byte) /\ c \in Byte
  BY FlipType DEF Holding, Parsers
<1> HIDE DEF c
<1>2. Stored(q, b) = p
  BY Zenon DEF Stored, c
<1>3. y \in Seq(Byte)
  BY <1>1
<1> HIDE DEF y
<1>4. p \in Parsers /\ p.inFrame = TRUE /\ p.escape = FALSE /\ p.rx = y
  BY <1>1, <1>3 DEF Parsers
<1> HIDE DEF p
<1>5. p = Kept(y)
  BY <1>4, ParserIs, Zenon DEF Kept
<1> QED
  BY <1>2, <1>5, Zenon DEF y, c

LEMMA ReadsIs ==
  ASSUME NEW p, NEW u, NEW b, ~EndsFrame(p, b)
  PROVE  Reads([parser |-> p, up |-> u], b) = [parser |-> AfterByte(p, b), up |-> u]
<1> DEFINE r == [parser |-> p, up |-> u]
<1>1. r.parser = p /\ r.up = u
  OBVIOUS
<1> HIDE DEF r
<1> QED
  BY <1>1, Zenon DEF Reads, r

\* The bytes that stand for one of the data, in a frame.
LEMMA EscapedRun ==
  ASSUME NEW x \in Seq(Byte), Len(x) <= RxCap, NEW b \in Byte
  PROVE  /\ Run(Kept(x), Escaped(b)).parser = Kept(IF Len(x) < RxCap THEN Append(x, b) ELSE x)
         /\ Run(Kept(x), Escaped(b)).up = <<>>
<1> DEFINE y == IF Len(x) < RxCap THEN Append(x, b) ELSE x
           half == [Kept(x) EXCEPT !.escape = TRUE]
<1>1. Kept(x) \in Holding /\ Kept(x).inFrame /\ ~Kept(x).escape /\ Kept(x).rx = x
  BY KeptType DEF Kept
<1>2. half.inFrame /\ half.escape /\ half.rx = x
  BY DEF Kept
<1>3. /\ Stored(Kept(x), b) = Kept(y)
      /\ \A c \in Byte : Flip(c) = b => Stored(half, c) = Kept(y)
  <2>1. half \in Holding
    BY <1>1, <1>2 DEF Holding, Parsers
  <2> HIDE DEF half
  <2>2. Stored(Kept(x), b) = Kept(IF Len(x) < RxCap THEN Append(x, b) ELSE x)
    BY <1>1, StoredIs
  <2>3. \A c \in Byte : Stored(half, c) = Kept(IF Len(x) < RxCap THEN Append(x, Flip(c)) ELSE x)
    BY <1>2, <2>1, StoredIs
  <2> QED
    BY <2>2, <2>3
<1> HIDE DEF half, y
<1>4. Run(Kept(x), <<>>) = Fresh(Kept(x)) /\ <<>> \in Seq(Byte)
  BY <1>1, RunEmpty
<1>5. CASE b \notin {FLAG, ESC} /\ Escaped(b) = <<b>>
  <2>1. <<b>> = Append(<<>>, b)
    OBVIOUS
  <2>2. Run(Kept(x), <<b>>) = Reads(Fresh(Kept(x)), b)
    <3>1. Run(Kept(x), Append(<<>>, b)) = Reads(Run(Kept(x), <<>>), b)
      BY <1>1, <1>4, RunAppend
    <3> QED
      BY <1>4, <2>1, <3>1, Zenon
  <2>3. AfterByte(Kept(x), b) = Stored(Kept(x), b) /\ ~EndsFrame(Kept(x), b)
    BY <1>1, <1>5, Zenon DEF AfterByte, EndsFrame
  <2>4. Reads(Fresh(Kept(x)), b) = [parser |-> Kept(y), up |-> <<>>]
    BY <1>3, <2>3, ReadsIs DEF Fresh
  <2>9. Run(Kept(x), Escaped(b)) = [parser |-> Kept(y), up |-> <<>>]
    BY <1>5, <2>2, <2>4
  <2> QED
    BY <2>9, FieldsOf, Zenon DEF y
<1>6. CASE /\ Escaped(b) = <<ESC, Flip(b)>> /\ ESC \in Byte /\ ESC # FLAG
           /\ Flip(b) \in Byte /\ Flip(b) \notin {FLAG, ESC} /\ Flip(Flip(b)) = b
  <2>1. <<ESC>> = Append(<<>>, ESC) /\ <<ESC, Flip(b)>> = Append(<<ESC>>, Flip(b))
        /\ <<ESC>> \in Seq(Byte)
    <3>1. \A z, w : <<z>> = Append(<<>>, z) /\ <<z, w>> = Append(<<z>>, w)
      OBVIOUS
    <3>2. ESC \in Byte
      BY <1>6
    <3>3. <<ESC>> \in Seq(Byte)
      BY <3>2
    <3> QED
      BY <3>1, <3>3, Zenon
  <2>2. Run(Kept(x), <<ESC>>) = Reads(Fresh(Kept(x)), ESC)
    <3>1. ESC \in Byte
      BY <1>6
    <3>2. Run(Kept(x), Append(<<>>, ESC)) = Reads(Run(Kept(x), <<>>), ESC)
      BY <1>1, <1>4, <3>1, RunAppend
    <3> QED
      BY <1>4, <2>1, <3>2, Zenon
  <2>3. AfterByte(Kept(x), ESC) = half /\ ~EndsFrame(Kept(x), ESC)
    BY <1>1, <1>6, Zenon DEF AfterByte, EndsFrame, half
  <2>4. Reads(Fresh(Kept(x)), ESC) = [parser |-> half, up |-> <<>>]
    BY <2>3, ReadsIs, Zenon DEF Fresh
  <2>5. Run(Kept(x), <<ESC, Flip(b)>>) = Reads([parser |-> half, up |-> <<>>], Flip(b))
    <3>1. Run(Kept(x), Append(<<ESC>>, Flip(b))) = Reads(Run(Kept(x), <<ESC>>), Flip(b))
      BY <1>1, <1>6, <2>1, RunAppend
    <3> QED
      BY <2>1, <2>2, <2>4, <3>1, Zenon
  <2>6. AfterByte(half, Flip(b)) = Stored(half, Flip(b)) /\ ~EndsFrame(half, Flip(b))
    BY <1>2, <1>6, Zenon DEF AfterByte, EndsFrame
  <2>7. Stored(half, Flip(b)) = Kept(y)
    BY <1>3, <1>6, Zenon
  <2>8. Reads([parser |-> half, up |-> <<>>], Flip(b)) = [parser |-> Kept(y), up |-> <<>>]
    BY <2>6, <2>7, ReadsIs
  <2>9. Run(Kept(x), Escaped(b)) = [parser |-> Kept(y), up |-> <<>>]
    BY <1>6, <2>5, <2>8
  <2> QED
    BY <2>9, FieldsOf, Zenon DEF y
<1> QED
  BY <1>5, <1>6, EscapedType, Zenon

\* After n bytes of the data, whatever stood before the frame.
LEMMA BufferRun ==
  ASSUME NEW q \in Holding, NEW d \in Seq(Byte), NEW f, Buffered(f, d), TxCap >= 2 * RxCap + 2
  PROVE  \A n \in 0..Len(d) :
           /\ Len(f[n]) <= 2 * n + 1
           /\ Run(q, f[n]).parser = Kept(First(d, n))
           /\ Run(q, f[n]).up = AtOnce(q)
<1> DEFINE N == Len(d)
           Good(n) == /\ Len(f[n]) <= 2 * n + 1
                      /\ Run(q, f[n]).parser = Kept(First(d, n))
                      /\ Run(q, f[n]).up = AtOnce(q)
           A == {n \in Nat : n <= N => Good(n)}
<1>1. /\ N \in Nat /\ f \in [0..N -> Seq(Byte)] /\ f[0] = <<FLAG>>
      /\ \A n \in Nat : n + 1 <= N => n + 1 \in 1..N /\ (n + 1) - 1 = n
      /\ \A i \in 1..N : d[i] \in Byte
      /\ \A i \in 1..N : f[i] = IF Len(f[i - 1]) + 2 < TxCap
                                THEN f[i - 1] \o Escaped(d[i]) ELSE f[i - 1]
  BY DEF Buffered
<1>2. 0 \in A
  <2>1. <<FLAG>> = Append(<<>>, FLAG) /\ <<>> \in Seq(Byte) /\ Len(<<FLAG>>) = 1
    OBVIOUS
  <2>2. Run(q, <<FLAG>>) = Reads(Fresh(q), FLAG)
    BY <2>1, FlagIsByte, RunEmpty, RunAppend
  <2>3. Reads(Fresh(q), FLAG) = [parser |-> AtFlag, up |-> Fresh(q).up \o AtOnce(Fresh(q).parser)]
    BY FreshType, FlagRun
  <2>4. Fresh(q).up = <<>> /\ Fresh(q).parser = q
    BY FieldsOf, Zenon DEF Fresh
  <2>5. <<>> \o AtOnce(q) = AtOnce(q)
    <3>1. q.rx \in Seq(Byte)
      BY DEF Holding, Parsers
    <3>2. AtOnce(q) \in Seq(Seq(Byte))
      BY <3>1 DEF AtOnce
    <3> QED
      BY <3>2
  <2>6. AtFlag = Kept(First(d, 0))
    <3>1. First(d, 0) = <<>>
      BY CapAssumption DEF First
    <3> QED
      BY <3>1, Zenon DEF AtFlag, Kept
  <2>7. Run(q, f[0]).parser = Kept(First(d, 0)) /\ Run(q, f[0]).up = AtOnce(q)
    <3>1. Run(q, f[0]) = [parser |-> AtFlag, up |-> AtOnce(q)]
      BY <1>1, <2>2, <2>3, <2>4, <2>5, Zenon
    <3> QED
      BY <2>6, <3>1, FieldsOf, Zenon
  <2>8. Len(f[0]) <= 2 * 0 + 1
    BY <1>1, <2>1
  <2> QED
    BY <2>7, <2>8
<1>3. ASSUME NEW n \in A
      PROVE  n + 1 \in A
  <2>1. SUFFICES ASSUME n + 1 <= N PROVE Good(n + 1)
    OBVIOUS
  <2>2. n \in Nat /\ n \in 0..N /\ Good(n)
    BY <1>1, <2>1
  <2> DEFINE b == d[n + 1]
             x == First(d, n)
  <2>3. b \in Byte /\ f[n] \in Seq(Byte)
    BY <1>1, <2>1, <2>2
  <2>4. f[n + 1] = IF Len(f[n]) + 2 < TxCap THEN f[n] \o Escaped(b) ELSE f[n]
    <3>1. n + 1 \in 1..N /\ (n + 1) - 1 = n
      BY <1>1, <2>1, <2>2
    <3>2. f[n + 1] = IF Len(f[(n + 1) - 1]) + 2 < TxCap
                     THEN f[(n + 1) - 1] \o Escaped(d[n + 1]) ELSE f[(n + 1) - 1]
      BY <1>1, <3>1, Zenon
    <3> QED
      BY <3>1, <3>2
  <2>5. x \in Seq(Byte) /\ Len(x) <= RxCap
    BY <2>2, FirstIs, CapAssumption
  <2>6. First(d, n + 1) = IF Len(x) < RxCap THEN Append(x, b) ELSE x
    BY <2>1, <2>2, FirstNext
  <2>7. CASE Len(f[n]) + 2 < TxCap
    <3>1. Escaped(b) \in Seq(Byte) /\ Len(Escaped(b)) \in 1..2
      BY <2>3, EscapedType
    <3>2. Len(f[n] \o Escaped(b)) <= 2 * (n + 1) + 1
      <4>1. Len(f[n] \o Escaped(b)) = Len(f[n]) + Len(Escaped(b)) /\ Len(f[n]) \in Nat
        <5>1. \A u, v \in Seq(Byte) : Len(u \o v) = Len(u) + Len(v) /\ Len(u) \in Nat
          OBVIOUS
        <5> QED
          BY <2>3, <3>1, <5>1, Zenon
      <4> DEFINE k == Len(Escaped(b))
      <4>2. k \in 1..2
        BY <3>1
      <4>3. Len(f[n]) <= 2 * n + 1
        BY <2>2
      <4> HIDE DEF k, b
      <4>4. Len(f[n]) + k <= 2 * (n + 1) + 1
        BY <2>2, <4>1, <4>2, <4>3
      <4> QED
        BY <4>1, <4>4, Zenon DEF k
    <3>3. /\ Run(q, f[n] \o Escaped(b)).parser = Run(Run(q, f[n]).parser, Escaped(b)).parser
          /\ Run(q, f[n] \o Escaped(b)).up
               = Run(q, f[n]).up \o Run(Run(q, f[n]).parser, Escaped(b)).up
      BY <2>3, <3>1, RunConcat
    <3>4. /\ Run(Kept(x), Escaped(b)).parser = Kept(First(d, n + 1))
          /\ Run(Kept(x), Escaped(b)).up = <<>>
      BY <2>3, <2>5, <2>6, EscapedRun
    <3>5. AtOnce(q) \o <<>> = AtOnce(q)
      <4>1. q.rx \in Seq(Byte)
        BY DEF Holding, Parsers
      <4>2. AtOnce(q) \in Seq(Seq(Byte))
        BY <4>1 DEF AtOnce
      <4> QED
        BY <4>2
    <3>6. f[n + 1] = f[n] \o Escaped(b)
      BY <2>4, <2>7
    <3> QED
      BY <2>2, <3>2, <3>3, <3>4, <3>5, <3>6, Zenon
  <2>8. CASE ~(Len(f[n]) + 2 < TxCap)
    <3>1. n >= RxCap
      BY <2>2, <2>3, <2>8, CapAssumption
    <3>2. ~(Len(x) < RxCap)
      BY <2>2, <3>1, FirstIs, CapAssumption
    <3>3. First(d, n + 1) = x /\ f[n + 1] = f[n]
      BY <2>4, <2>6, <2>8, <3>2
    <3>4. Len(f[n + 1]) <= 2 * (n + 1) + 1
      BY <2>2, <2>3, <3>3
    <3> QED
      BY <2>2, <3>3, <3>4, Zenon
  <2> QED
    BY <2>7, <2>8
<1>4. A = Nat
  <2>1. A \in SUBSET Nat
    OBVIOUS
  <2> HIDE DEF A
  <2> QED
    BY <1>2, <1>3, <2>1, NumberByNumber
<1> HIDE DEF Good
<1>5. \A n \in 0..N : Good(n)
  BY <1>1, <1>4
<1> QED
  BY <1>5 DEF Good

\* A whole frame, behind whatever the parser held.
LEMMA UnparsedFrame ==
  ASSUME NEW q \in Holding, NEW d \in Seq(Byte), TxCap >= 2 * RxCap + 2
  PROVE  Unparsed(q, Encoded(d)) = AtOnce(q) \o AtOnce(Kept(Channel!Clipped(d)))
<1> DEFINE N == Len(d)
           c == Channel!Clipped(d)
<1>1. PICK f : Buffered(f, d) /\ Encoded(d) = Append(f[N], FLAG)
  BY EncodedIs
<1>2. f[N] \in Seq(Byte) /\ N \in 0..Len(d)
  BY <1>1 DEF Buffered
<1>3. Run(q, f[N]).parser = Kept(First(d, N)) /\ Run(q, f[N]).up = AtOnce(q)
  <2>1. \A n \in 0..Len(d) : /\ Run(q, f[n]).parser = Kept(First(d, n))
                             /\ Run(q, f[n]).up = AtOnce(q)
    BY <1>1, BufferRun
  <2> QED
    BY <1>2, <2>1, Zenon
<1>4. First(d, N) = c
  <2>1. CASE N <= RxCap
    <3>1. SubSeq(d, 1, N) = d
      OBVIOUS
    <3>2. ~(N > RxCap)
      BY <2>1, CapAssumption
    <3> QED
      BY <2>1, <3>1, <3>2 DEF First, Channel!Clipped
  <2>2. CASE ~(N <= RxCap)
    <3>1. N > RxCap
      BY <2>2, CapAssumption
    <3> QED
      BY <2>2, <3>1 DEF First, Channel!Clipped
  <2> QED
    BY <2>1, <2>2
<1> HIDE DEF c
<1> DEFINE s == Append(f[N], FLAG)
<1>5. Run(q, s) = [parser |-> AtFlag, up |-> AtOnce(q) \o AtOnce(Kept(c))]
  <2>1. Run(q, s) = Reads(Run(q, f[N]), FLAG)
    BY <1>2, FlagIsByte, RunAppend
  <2>2. Run(q, f[N]) \in Runs
    BY <1>2, RunType
  <2>3. Reads(Run(q, f[N]), FLAG)
          = [parser |-> AtFlag, up |-> Run(q, f[N]).up \o AtOnce(Run(q, f[N]).parser)]
    BY <2>2, FlagRun
  <2> QED
    BY <1>3, <1>4, <2>1, <2>3, Zenon
<1>6. s \in Seq(Byte)
  BY <1>2, FlagIsByte
<1>7. Unparsed(q, s) = Run(q, s).up \o AtOnce(Run(q, s).parser) /\ Unparsed(q, s) \in Seq(Seq(Byte))
      /\ Run(q, s).up \in Seq(Seq(Byte))
  BY <1>6, UnparsedIs, RunType
<1>8. Run(q, s).parser = AtFlag /\ Run(q, s).up = AtOnce(q) \o AtOnce(Kept(c))
  BY <1>5, FieldsOf, Zenon
<1>9. AtOnce(AtFlag) = <<>>
  BY DEF AtOnce, AtFlag, EndsFrame
<1>10. Run(q, s).up \o <<>> = Run(q, s).up
  <2>1. \A x \in Seq(Seq(Byte)) : x \o <<>> = x
    BY AppendConcat
  <2> QED
    BY <1>7, <2>1, Zenon
<1> QED
  BY <1>1, <1>7, <1>8, <1>9, <1>10, Zenon DEF c

LEMMA AtOnceType == \A q \in Holding : AtOnce(q) \in Seq(Seq(Byte))
<1> TAKE q \in Holding
<1>1. q.rx \in Seq(Byte)
  BY DEF Holding, Parsers
<1> QED
  BY <1>1 DEF AtOnce

\* A packet written behind what is still to come is one more packet to come, if
\* there is anything in it.
LEMMA UnparsedWrite ==
  ASSUME NEW q \in Holding, NEW s \in Seq(Byte), NEW d \in Seq(Byte), TxCap >= 2 * RxCap + 2
  PROVE  Unparsed(q, s \o Encoded(d))
           = IF Channel!Clipped(d) = <<>> THEN Unparsed(q, s)
             ELSE Append(Unparsed(q, s), Channel!Clipped(d))
<1> DEFINE r == Run(q, s)
           c == Channel!Clipped(d)
           u == Unparsed(q, s)
<1>1. r.parser \in Holding /\ r.up \in Seq(Seq(Byte))
  BY RunType
<1>2. Encoded(d) \in Seq(Byte)
  BY EncodedType
<1>3. c \in Seq(Byte) /\ Len(c) <= RxCap
  BY CapAssumption DEF Channel!Clipped
<1>4. u = r.up \o AtOnce(r.parser) /\ u \in Seq(Seq(Byte))
  BY UnparsedIs
<1>5. Unparsed(q, s \o Encoded(d)) = r.up \o Unparsed(r.parser, Encoded(d))
  BY <1>2, UnparsedConcat
<1>6. Unparsed(r.parser, Encoded(d)) = AtOnce(r.parser) \o AtOnce(Kept(c))
  BY <1>1, UnparsedFrame
<1> HIDE DEF r, c, u
<1>7. AtOnce(r.parser) \in Seq(Seq(Byte)) /\ AtOnce(Kept(c)) \in Seq(Seq(Byte))
  BY <1>1, <1>3, AtOnceType, KeptType
<1>8. r.up \o (AtOnce(r.parser) \o AtOnce(Kept(c))) = u \o AtOnce(Kept(c))
  <2>1. r.up \o (AtOnce(r.parser) \o AtOnce(Kept(c)))
          = (r.up \o AtOnce(r.parser)) \o AtOnce(Kept(c))
    BY <1>1, <1>7, ConcatThree, Zenon
  <2> QED
    BY <1>4, <2>1, Zenon
<1>9. Unparsed(q, s \o Encoded(d)) = u \o AtOnce(Kept(c))
  BY <1>5, <1>6, <1>8, Zenon
<1>10. AtOnce(Kept(c)) = IF c = <<>> THEN <<>> ELSE <<c>>
  BY DEF AtOnce, EndsFrame, Kept
<1>11. u \o <<>> = u /\ u \o <<c>> = Append(u, c)
  <2>1. /\ \A x \in Seq(Seq(Byte)), z \in Seq(Byte) : Append(x, z) = x \o <<z>>
        /\ \A x \in Seq(Seq(Byte)) : x \o <<>> = x
    BY AppendConcat
  <2> QED
    BY <1>3, <1>4, <2>1, Zenon
<1>12. u \o AtOnce(Kept(c)) = IF c = <<>> THEN u ELSE Append(u, c)
  <2>1. CASE c = <<>>
    BY <1>10, <1>11, <2>1, Zenon
  <2>2. CASE c # <<>>
    BY <1>10, <1>11, <2>2, Zenon
  <2> QED
    BY <2>1, <2>2
<1> QED
  BY <1>9, <1>12, Zenon DEF c, u

-----------------------------------------------------------------------------
(* The types, however many tasks poll and send.                            *)

LEMMA TypeStep == TypeOK /\ [Next]_vars => TypeOK'
<1> SUFFICES ASSUME TypeOK, [Next]_vars PROVE TypeOK'
  OBVIOUS
<1> USE PollersAssumption, NoneIsNoSocket, GoToType
<1>1. ASSUME NEW p \in Pollers, ConnectRefused(p) PROVE TypeOK'
  BY <1>1 DEF TypeOK, ConnectRefused, task, net
<1>2. ASSUME NEW p \in Pollers, ConnectBegins(p) PROVE TypeOK'
  BY <1>2 DEF TypeOK, ConnectBegins, Free
<1>3. ASSUME NEW p \in Pollers, Connected(p) PROVE TypeOK'
  BY <1>3 DEF TypeOK, Connected
<1>4. ASSUME NEW p \in Pollers, ConnectFails(p) PROVE TypeOK'
  <2>1. /\ conn' \in [Sockets -> {"free", "connecting", "up", "gone"}]
        /\ pipe' \in [Sockets -> Seq(Byte)]
    BY <1>4, CloseType DEF TypeOK, ConnectFails, net
  <2> QED
    BY <1>4, <2>1 DEF TypeOK, ConnectFails
<1>5. ASSUME NEW p \in Pollers, LoopBegins(p) \/ RecvTimesOut(p) PROVE TypeOK'
  BY <1>5 DEF TypeOK, LoopBegins, RecvTimesOut, object, net
<1>6. ASSUME NEW p \in Pollers, RecvByte(p) PROVE TypeOK'
  <2>1. sock \in Sockets /\ pipe[sock] \in Seq(Byte) /\ pipe[sock] # <<>>
    BY <1>6 DEF TypeOK, RecvByte, Readable
  <2>2. Head(pipe[sock]) \in Byte /\ Tail(pipe[sock]) \in Seq(Byte)
    BY <2>1
  <2> QED
    BY <1>6, <2>1, <2>2 DEF TypeOK, RecvByte, object
<1>7. ASSUME NEW p \in Pollers, RecvFails(p) PROVE TypeOK'
  BY <1>7, DisconnectType DEF TypeOK, RecvFails
<1>8. ASSUME NEW p \in Pollers, ParseByte(p) PROVE TypeOK'
  <2>1. parser' = AfterByte(parser, byte[p]) /\ byte[p] \in Byte
    BY <1>8 DEF TypeOK, ParseByte
  <2>2. parser' \in Parsers /\ Len(parser'.rx) <= RxCap
    BY <2>1, AfterByteType DEF TypeOK
  <2> QED
    BY <1>8, <2>2 DEF TypeOK, ParseByte, net
<1>9. ASSUME NEW p \in Pollers, HandUp(p) PROVE TypeOK'
  BY <1>9 DEF TypeOK, HandUp, object, net
<1>10. ASSUME NEW p \in Pollers, HandedUp(p) PROVE TypeOK'
  BY <1>10, CapAssumption DEF TypeOK, HandedUp, AtFlag, Parsers, net
<1>11. ASSUME NEW t \in Tasks, SendFails(t) PROVE TypeOK'
  BY <1>11, DisconnectType DEF TypeOK, SendFails
<1>12. ASSUME NEW t \in Tasks, DropSocket(t) PROVE TypeOK'
  BY <1>12 DEF TypeOK, DropSocket, net
<1>13. CASE RetryDue
  BY <1>13 DEF TypeOK, RetryDue, task, net
<1>14. ASSUME NEW c \in Sockets, Breaks(c) PROVE TypeOK'
  <2>1. PICK n \in 0..Len(pipe[c]) : pipe' = [pipe EXCEPT ![c] = SubSeq(@, 1, n)]
    BY <1>14 DEF Breaks
  <2>2. SubSeq(pipe[c], 1, n) \in Seq(Byte)
    BY <2>1 DEF TypeOK
  <2> QED
    BY <1>14, <2>1, <2>2 DEF TypeOK, Breaks, object, task
<1>15. ASSUME NEW c \in Sockets, NEW p \in Packets, PeerWrites(c, p) PROVE TypeOK'
  <2>1. pipe[c] \o Encoded(p) \in Seq(Byte)
    BY PacketsAssumption, EncodedType DEF TypeOK
  <2> QED
    BY <1>15, <2>1 DEF TypeOK, PeerWrites, object, task
<1>16. CASE UNCHANGED vars
  BY <1>16 DEF TypeOK, vars, object, task, net
<1> QED
  BY <1>1, <1>2, <1>3, <1>4, <1>5, <1>6, <1>7, <1>8, <1>9, <1>10, <1>11, <1>12,
     <1>13, <1>14, <1>15, <1>16 DEF Next, Outside, Takes, Polls

LEMMA TypeInit == Init => TypeOK
<1>1. ASSUME Init
      PROVE  parser \in Parsers /\ Len(parser.rx) <= RxCap
  BY <1>1, CapAssumption DEF Init, Parsers
<1>2. ASSUME Init
      PROVE  pipe \in [Sockets -> Seq(Byte)] /\ byte \in [Pollers -> Byte]
  BY <1>2 DEF Init, Byte
<1> QED
  BY <1>1, <1>2 DEF Init, TypeOK

\* TypeCorrect: whatever the upstream node sends and however the connections
\* break, no more bytes than fit are in _rx_buf (loop()), and every variable has
\* its type; any number of tasks may poll.
THEOREM TypeCorrect == Spec => []TypeOK
BY TypeInit, TypeStep, PTL DEF Spec

-----------------------------------------------------------------------------
(* The steps of the interface are steps of the channel.                    *)

\* A socket that nobody has, or that is closed, has nothing left to receive.
Emptied == \A c \in Sockets : conn[c] = "free" => pipe[c] = <<>>

ChannelInv == TypeOK /\ SocketInv /\ Emptied

LEMMA TransitIs ==
  /\ Transit = Unparsed(Holder, InHand \o InPipe)
  /\ Transit' = Unparsed(Holder', InHand' \o InPipe')
BY Zenon DEF Transit

LEMMA EmptiedClose ==
  ASSUME TypeOK, Emptied, NEW c \in Sockets, Close(c)
  PROVE  Emptied'
BY DEF TypeOK, Emptied, Close

LEMMA EmptiedStep == TypeOK /\ Emptied /\ [Next]_vars => Emptied'
<1> SUFFICES ASSUME TypeOK, Emptied, [Next]_vars PROVE Emptied'
  OBVIOUS
<1> USE NoneIsNoSocket
<1>0. conn' = conn /\ pipe' = pipe => Emptied'
  BY DEF Emptied
<1>1. ASSUME NEW p \in Pollers, ConnectRefused(p) PROVE Emptied'
  BY <1>0, <1>1 DEF ConnectRefused, task, net
<1>2. ASSUME NEW p \in Pollers, ConnectBegins(p) PROVE Emptied'
  BY <1>2 DEF Emptied, TypeOK, ConnectBegins, Free
<1>3. ASSUME NEW p \in Pollers, Connected(p) PROVE Emptied'
  BY <1>3 DEF Emptied, TypeOK, Connected
<1>4. ASSUME NEW p \in Pollers, ConnectFails(p) PROVE Emptied'
  <2>1. sock # None => sock \in Sockets
    BY DEF TypeOK
  <2> QED
    BY <1>0, <1>4, <2>1, EmptiedClose DEF ConnectFails, net
<1>5. ASSUME NEW p \in Pollers, LoopBegins(p) \/ RecvTimesOut(p) PROVE Emptied'
  BY <1>0, <1>5 DEF LoopBegins, RecvTimesOut, net
<1>6. ASSUME NEW p \in Pollers, RecvByte(p) PROVE Emptied'
  <2>1. sock \in Sockets /\ pipe[sock] # <<>> /\ conn[sock] # "free"
    BY <1>6 DEF TypeOK, Emptied, RecvByte, Readable
  <2> QED
    BY <1>6, <2>1 DEF Emptied, TypeOK, RecvByte
<1>7. ASSUME NEW t \in Tasks, Disconnect(t) PROVE Emptied'
  <2>1. sock # None => sock \in Sockets
    BY DEF TypeOK
  <2> QED
    BY <1>0, <1>7, <2>1, EmptiedClose DEF Disconnect, net
<1>8. ASSUME NEW p \in Pollers, RecvFails(p) PROVE Emptied'
  BY <1>7, <1>8, PollersAssumption DEF RecvFails
<1>9. ASSUME NEW p \in Pollers, ParseByte(p) \/ HandUp(p) \/ HandedUp(p) PROVE Emptied'
  BY <1>0, <1>9 DEF ParseByte, HandUp, HandedUp, net
<1>10. ASSUME NEW t \in Tasks, SendFails(t) PROVE Emptied'
  BY <1>7, <1>10 DEF SendFails
<1>11. ASSUME NEW t \in Tasks, DropSocket(t) PROVE Emptied'
  BY <1>0, <1>11 DEF DropSocket, net
<1>12. CASE RetryDue
  BY <1>0, <1>12 DEF RetryDue, task, net
<1>13. ASSUME NEW c \in Sockets, Breaks(c) PROVE Emptied'
  BY <1>13 DEF Emptied, TypeOK, Breaks
<1>14. ASSUME NEW c \in Sockets, NEW p \in Packets, PeerWrites(c, p) PROVE Emptied'
  BY <1>14 DEF Emptied, TypeOK, PeerWrites
<1>15. CASE UNCHANGED vars
  BY <1>0, <1>15 DEF vars, net
<1> QED
  BY <1>1, <1>2, <1>3, <1>4, <1>5, <1>6, <1>8, <1>9, <1>10, <1>11, <1>12, <1>13, <1>14, <1>15
     DEF Next, Outside, Takes, Polls

\* What is in hand when one poller is at a place of loop(), and when it goes to one.
LEMMA PartsOf ==
  ASSUME NEW p \in Pollers, InTurn(p)
  PROVE  /\ Holder = IF pc[p] = "handing" THEN AtFlag ELSE parser
         /\ InHand = IF pc[p] = "byte" THEN <<byte[p]>> ELSE <<>>
<1>1. \A q \in Pollers : q # p => pc[q] = "idle"
  BY PollersAssumption DEF InTurn, Inside
<1>2. Holder = IF pc[p] = "handing" THEN AtFlag ELSE parser
  BY <1>1 DEF Holder, AtPlace
<1>3. CASE pc[p] = "byte"
  <2>1. AtPlace("byte") = {p}
    BY <1>1, <1>3 DEF AtPlace
  <2>2. AtPlace("byte") # {} /\ (CHOOSE q \in AtPlace("byte") : TRUE) = p
    BY <2>1
  <2> QED
    BY <1>2, <1>3, <2>2 DEF InHand
<1>4. CASE pc[p] # "byte"
  BY <1>1, <1>2, <1>4 DEF InHand, AtPlace
<1> QED
  BY <1>3, <1>4

LEMMA PartsAt ==
  ASSUME TypeOK, NEW p \in Pollers, InTurn(p), NEW place, GoTo(p, place)
  PROVE  /\ Holder' = IF place = "handing" THEN AtFlag ELSE parser'
         /\ InHand' = IF place = "byte" THEN <<byte'[p]>> ELSE <<>>
<1>1. pc'[p] = place /\ \A q \in Pollers : q # p => pc'[q] = "idle"
  BY PollersAssumption DEF InTurn, Inside, GoTo, TypeOK
<1>2. Holder' = IF place = "handing" THEN AtFlag ELSE parser'
  BY <1>1 DEF Holder, AtPlace
<1>3. CASE place = "byte"
  <2>1. AtPlace("byte")' = {p}
    BY <1>1, <1>3 DEF AtPlace
  <2>2. AtPlace("byte")' # {} /\ (CHOOSE q \in AtPlace("byte") : TRUE)' = p
    BY <2>1
  <2> QED
    BY <1>2, <1>3, <2>2 DEF InHand
<1>4. CASE place # "byte"
  BY <1>1, <1>2, <1>4 DEF InHand, AtPlace
<1> QED
  BY <1>3, <1>4

LEMMA PartTypes ==
  ASSUME TypeOK
  PROVE  Holder \in Holding /\ InHand \in Seq(Byte) /\ InPipe \in Seq(Byte)
<1>1. AtFlag \in Holding
  BY CapAssumption DEF Holding, AtFlag, Parsers
<1>2. Holder \in Holding
  BY <1>1 DEF TypeOK, Holder, Holding
<1>3. InHand \in Seq(Byte)
  <2>1. \A q \in Pollers : byte[q] \in Byte /\ <<byte[q]>> \in Seq(Byte)
    BY DEF TypeOK
  <2>2. AtPlace("byte") # {} => (CHOOSE q \in AtPlace("byte") : TRUE) \in Pollers
    BY DEF AtPlace
  <2>3. <<>> \in Seq(Byte)
    OBVIOUS
  <2> QED
    BY <2>1, <2>2, <2>3, Zenon DEF InHand
<1>4. InPipe \in Seq(Byte)
  BY DEF TypeOK, InPipe
<1> QED
  BY <1>2, <1>3, <1>4

\* Nothing that is to come changes.
LEMMA ChannelStays ==
  ASSUME UNCHANGED <<Holder, InHand, InPipe, handed>>
  PROVE  UNCHANGED <<Transit, handed>>
BY TransitIs

\* The socket loses the end of what it has.
LEMMA ChannelBreaks ==
  ASSUME TypeOK, NEW n \in 0..Len(InPipe), InPipe' = SubSeq(InPipe, 1, n),
         UNCHANGED <<Holder, InHand, handed>>
  PROVE  Channel!Break
<1> DEFINE s == InHand \o InPipe
           k == Len(InHand) + n
<1>1. Holder \in Holding /\ InHand \in Seq(Byte) /\ InPipe \in Seq(Byte)
  BY PartTypes
<1>2. s \in Seq(Byte) /\ k \in 0..Len(s)
  BY <1>1
<1>3. SubSeq(s, 1, k) = InHand \o SubSeq(InPipe, 1, n)
  BY <1>1, CutBehind
<1> HIDE DEF s, k
<1>4. Unparsed(Holder, SubSeq(s, 1, k)) \in Channel!Cuts(Unparsed(Holder, s))
  BY <1>1, <1>2, UnparsedCut
<1>5. Transit = Unparsed(Holder, s)
  BY TransitIs DEF s
<1>6. Transit' = Unparsed(Holder, SubSeq(s, 1, k))
  BY <1>3, TransitIs
<1> QED
  BY <1>4, <1>5, <1>6, Zenon DEF Channel!Break

LEMMA BytesJoin ==
  /\ \A x, y, z \in Seq(Byte) : (x \o y) \o z = x \o (y \o z)
  /\ \A x \in Seq(Byte) : <<>> \o x = x /\ x \o <<>> = x
  /\ \A x \in Seq(Byte) : x # <<>> => <<Head(x)>> \o Tail(x) = x
  /\ \A x, y \in Seq(Byte) : x \o y \in Seq(Byte)
  /\ \A x \in Seq(Byte) : x # <<>> => Head(x) \in Byte /\ Tail(x) \in Seq(Byte)
OBVIOUS

LEMMA FramesJoin ==
  /\ \A x \in Seq(Seq(Byte)) : <<>> \o x = x
  /\ \A x \in Seq(Seq(Byte)), z \in Seq(Byte) :
       <<z>> \o x # <<>> /\ Head(<<z>> \o x) = z /\ Tail(<<z>> \o x) = x
OBVIOUS

\* close(), by whichever task.
LEMMA ChannelCloses ==
  ASSUME TypeOK, sock \in Sockets, Close(sock), sock' \in {sock, None},
         UNCHANGED <<Holder, InHand, handed>>
  PROVE  Channel!Break
<1>1. sock # None
  BY NoneIsNoSocket
<1>2. InPipe' = <<>>
  BY <1>1 DEF InPipe, Close, TypeOK
<1>3. InPipe \in Seq(Byte)
  BY PartTypes
<1>4. 0 \in 0..Len(InPipe) /\ SubSeq(InPipe, 1, 0) = <<>>
  BY <1>3
<1>5. InPipe' = SubSeq(InPipe, 1, 0)
  BY <1>2, <1>4, Zenon
<1> QED
  BY <1>4, <1>5, ChannelBreaks

\* A step that takes another place with nothing in hand, and leaves the parser.
LEMMA PlaceStays ==
  ASSUME TypeOK, NEW p \in Pollers, InTurn(p), parser' = parser,
         pc[p] \in {"idle", "select", "recv"},
         NEW place \in {"idle", "select", "recv"}, GoTo(p, place)
  PROVE  UNCHANGED <<Holder, InHand>>
<1>1. Holder = parser /\ InHand = <<>>
  BY PartsOf
<1>2. Holder' = parser' /\ InHand' = <<>>
  BY PartsAt
<1> QED
  BY <1>1, <1>2

LEMMA TasksStay ==
  ASSUME UNCHANGED <<parser, pc, byte>>
  PROVE  UNCHANGED <<Holder, InHand>>
BY DEF Holder, InHand, AtPlace

LEMMA PipeStays ==
  ASSUME UNCHANGED <<sock, pipe>>
  PROVE  UNCHANGED InPipe
BY DEF InPipe

ChannelStep == [Channel!Next]_<<Transit, handed>>

LEMMA StayIsStep ==
  ASSUME UNCHANGED <<Holder, InHand, InPipe, handed>>
  PROVE  ChannelStep
BY ChannelStays, Zenon DEF ChannelStep

LEMMA BreakIsStep ==
  ASSUME Channel!Break
  PROVE  ChannelStep
BY Zenon DEF ChannelStep, Channel!Next

\* try_connect().
LEMMA ConnectSteps ==
  ASSUME ChannelInv, NEW p \in Pollers, InTurn(p),
         ConnectRefused(p) \/ ConnectBegins(p) \/ Connected(p) \/ ConnectFails(p)
  PROVE  ChannelStep
<1> USE DEF ChannelInv
<1>0. CallsConnect(p) => sock = None
  <2>1. \A t \in Tasks : t # p => pc[t] = "idle"
    BY DEF InTurn, Inside
  <2> QED
    BY <2>1 DEF CallsConnect, SocketInv, Placed
<1>1. CASE ConnectRefused(p)
  <2>1. sock = None
    BY <1>0, <1>1 DEF ConnectRefused
  <2>2. sock' = None
    BY <1>1, <2>1 DEF ConnectRefused
  <2>3. UNCHANGED <<Holder, InHand>>
    BY <1>1, TasksStay DEF ConnectRefused, task
  <2>4. UNCHANGED <<InPipe, handed>>
    BY <1>1, <2>1, <2>2 DEF ConnectRefused, InPipe
  <2> QED
    BY <2>3, <2>4, StayIsStep
<1>2. CASE ConnectBegins(p)
  <2>1. sock = None
    BY <1>0, <1>2 DEF ConnectBegins
  <2>2. PICK c \in Free : sock' = c
    BY <1>2 DEF ConnectBegins
  <2>3. InPipe = <<>> /\ InPipe' = <<>>
    BY <1>2, <2>1, <2>2, NoneIsNoSocket DEF ConnectBegins, InPipe, Free, Emptied
  <2>4. UNCHANGED <<Holder, InHand>>
    BY <1>2, PlaceStays DEF ConnectBegins, CallsConnect
  <2>5. UNCHANGED handed
    BY <1>2 DEF ConnectBegins
  <2> QED
    BY <2>3, <2>4, <2>5, StayIsStep
<1>3. CASE Connected(p)
  <2>1. UNCHANGED <<Holder, InHand>>
    BY <1>3, PlaceStays DEF Connected
  <2>2. UNCHANGED <<InPipe, handed>>
    BY <1>3, PipeStays DEF Connected
  <2> QED
    BY <2>1, <2>2, StayIsStep
<1>4. CASE ConnectFails(p)
  <2>1. UNCHANGED <<Holder, InHand, handed>>
    BY <1>4, PlaceStays DEF ConnectFails
  <2>2. sock' = None
    BY <1>4 DEF ConnectFails
  <2>3. CASE sock = None
    <3>1. UNCHANGED InPipe
      BY <2>2, <2>3 DEF InPipe
    <3> QED
      BY <2>1, <3>1, StayIsStep
  <2>4. CASE sock # None
    <3>1. sock \in Sockets /\ Close(sock)
      BY <1>4, <2>4 DEF ConnectFails, TypeOK
    <3> QED
      BY <2>1, <2>2, <3>1, ChannelCloses, BreakIsStep
  <2> QED
    BY <2>3, <2>4
<1> QED
  BY <1>1, <1>2, <1>3, <1>4

\* disconnect().
LEMMA DisconnectSteps ==
  ASSUME ChannelInv, NEW t \in Tasks, InTurn(t),
         (t \in Pollers /\ RecvFails(t)) \/ SendFails(t) \/ DropSocket(t)
  PROVE  ChannelStep
<1> USE DEF ChannelInv
<1>1. ASSUME Disconnect(t), sock' = sock, UNCHANGED <<Holder, InHand, handed>>
      PROVE  ChannelStep
  <2>1. CASE sock = None
    <3>1. UNCHANGED InPipe
      BY <1>1, <2>1 DEF InPipe
    <3> QED
      BY <1>1, <3>1, StayIsStep
  <2>2. CASE sock # None
    <3>1. sock \in Sockets /\ Close(sock)
      BY <1>1, <2>2 DEF Disconnect, TypeOK
    <3> QED
      BY <1>1, <3>1, ChannelCloses, BreakIsStep
  <2> QED
    BY <2>1, <2>2
<1>2. ASSUME t \in Pollers, RecvFails(t) PROVE ChannelStep
  <2>1. UNCHANGED <<Holder, InHand>>
    BY <1>2, PlaceStays DEF RecvFails
  <2>2. Disconnect(t) /\ sock' = sock /\ handed' = handed
    BY <1>2 DEF RecvFails
  <2> QED
    BY <1>1, <2>1, <2>2
<1>3. CASE SendFails(t)
  <2>1. UNCHANGED <<Holder, InHand>>
    BY <1>3, TasksStay DEF SendFails
  <2>2. Disconnect(t) /\ sock' = sock /\ handed' = handed
    BY <1>3 DEF SendFails
  <2> QED
    BY <1>1, <2>1, <2>2
<1>4. CASE DropSocket(t)
  <2>1. UNCHANGED <<Holder, InHand>>
    BY <1>4, TasksStay DEF DropSocket
  <2>2. sock \in Sockets /\ conn[sock] = "free"
    BY <1>4 DEF DropSocket, SocketInv, Placed, TypeOK
  <2>3. InPipe = <<>> /\ InPipe' = <<>> /\ handed' = handed
    BY <1>4, <2>2 DEF DropSocket, InPipe, Emptied
  <2> QED
    BY <2>1, <2>3, StayIsStep
<1> QED
  BY <1>2, <1>3, <1>4

\* loop() around the parser: nothing is parsed.
LEMMA LoopStays ==
  ASSUME ChannelInv, NEW p \in Pollers, InTurn(p),
         LoopBegins(p) \/ RecvTimesOut(p) \/ HandedUp(p)
  PROVE  ChannelStep
<1> USE DEF ChannelInv
<1>1. CASE LoopBegins(p) \/ RecvTimesOut(p)
  <2>1. UNCHANGED <<Holder, InHand>>
    BY <1>1, PlaceStays DEF LoopBegins, RecvTimesOut, object
  <2>2. UNCHANGED <<InPipe, handed>>
    BY <1>1, PipeStays DEF LoopBegins, RecvTimesOut, object, net
  <2> QED
    BY <2>1, <2>2, StayIsStep
<1>2. CASE HandedUp(p)
  <2>1. Holder = AtFlag /\ InHand = <<>>
    BY <1>2, PartsOf DEF HandedUp
  <2>2. Holder' = AtFlag /\ InHand' = <<>>
    BY <1>2, PartsAt DEF HandedUp
  <2>3. UNCHANGED <<InPipe, handed>>
    BY <1>2, PipeStays DEF HandedUp, net
  <2> QED
    BY <2>1, <2>2, <2>3, StayIsStep
<1> QED
  BY <1>1, <1>2

\* recv() moves a byte from the socket to the task's hand.
LEMMA RecvSteps ==
  ASSUME ChannelInv, NEW p \in Pollers, InTurn(p), RecvByte(p)
  PROVE  ChannelStep
<1> USE DEF ChannelInv
<1>1. sock \in Sockets /\ sock # None /\ pipe[sock] \in Seq(Byte) /\ pipe[sock] # <<>>
  BY DEF RecvByte, Readable, TypeOK
<1>2. Holder' = Holder /\ InHand = <<>> /\ InHand' = <<Head(pipe[sock])>>
  <2>1. Holder = parser /\ InHand = <<>>
    BY PartsOf DEF RecvByte
  <2>2. Holder' = parser' /\ InHand' = <<byte'[p]>>
    BY PartsAt DEF RecvByte
  <2>3. parser' = parser /\ byte'[p] = Head(pipe[sock])
    BY DEF RecvByte, TypeOK, object
  <2> QED
    BY <2>1, <2>2, <2>3
<1>3. InPipe = pipe[sock] /\ InPipe' = Tail(pipe[sock])
  BY <1>1 DEF RecvByte, InPipe, TypeOK, object
<1>4. InHand \o InPipe = pipe[sock] /\ InHand' \o InPipe' = pipe[sock]
  BY <1>1, <1>2, <1>3, BytesJoin, Zenon
<1>5. Transit' = Transit
  BY <1>2, <1>4, TransitIs, Zenon
<1>6. handed' = handed
  BY DEF RecvByte
<1> QED
  BY <1>5, <1>6 DEF ChannelStep

\* A byte of the stream goes through the parser.
LEMMA ParseSteps ==
  ASSUME ChannelInv, NEW p \in Pollers, InTurn(p), ParseByte(p) \/ HandUp(p)
  PROVE  ChannelStep
<1> USE DEF ChannelInv
<1> DEFINE b == byte[p]
           u == Unparsed(AfterByte(parser, b), InPipe)
<1>1. b \in Byte /\ parser \in Holding /\ InPipe \in Seq(Byte) /\ pc[p] = "byte"
  BY PartTypes DEF TypeOK, Holding, ParseByte, HandUp
<1>2. Transit = Unparsed(parser, <<b>> \o InPipe)
  <2>1. Holder = parser /\ InHand = <<b>>
    BY <1>1, PartsOf
  <2> QED
    BY <2>1, TransitIs, Zenon
<1>3. Unparsed(parser, <<b>> \o InPipe) = (IF EndsFrame(parser, b) THEN <<parser.rx>> ELSE <<>>) \o u
  BY <1>1, UnparsedHead
<1>4. u \in Seq(Seq(Byte)) /\ parser.rx \in Seq(Byte)
  <2>1. AfterByte(parser, b) \in Holding
    BY <1>1, AfterByteType DEF Holding
  <2> QED
    BY <1>1, <2>1, UnparsedIs DEF Holding, Parsers
<1>5. InPipe' = InPipe /\ InHand' = <<>>
  <2>1. GoTo(p, "recv") \/ GoTo(p, "handing")
    BY DEF ParseByte, HandUp
  <2>2. InHand' = <<>>
    BY <2>1, PartsAt
  <2>3. InPipe' = InPipe
    BY PipeStays DEF ParseByte, HandUp, object, net
  <2> QED
    BY <2>2, <2>3
<1>6. Transit' = Unparsed(Holder', InPipe)
  BY <1>1, <1>5, TransitIs, BytesJoin, Zenon
<1> HIDE DEF u
<1>7. CASE ParseByte(p)
  <2>1. Holder' = AfterByte(parser, b) /\ ~EndsFrame(parser, b) /\ handed' = handed
    BY <1>7, PartsAt DEF ParseByte
  <2>2. Transit' = u
    BY <1>6, <2>1, Zenon DEF u
  <2>3. Transit = u
    BY <1>2, <1>3, <1>4, <2>1, FramesJoin, Zenon
  <2> QED
    BY <2>1, <2>2, <2>3 DEF ChannelStep
<1>8. CASE HandUp(p)
  <2>1. EndsFrame(parser, b) /\ handed' = Append(handed, parser.rx)
    BY <1>8 DEF HandUp
  <2>2. Holder' = AtFlag
    BY <1>8, PartsAt DEF HandUp
  <2>3. AfterByte(parser, b) = AtFlag
    BY <2>1, Zenon DEF AfterByte, EndsFrame
  <2>4. Transit' = u
    BY <1>6, <2>2, <2>3, Zenon DEF u
  <2>5. Transit = <<parser.rx>> \o u
    BY <1>2, <1>3, <2>1, Zenon
  <2>6. Transit # <<>> /\ Head(Transit) = parser.rx /\ Tail(Transit) = u
    BY <1>4, <2>5, FramesJoin, Zenon
  <2>7. Channel!HandUp
    BY <2>1, <2>4, <2>6, Zenon DEF Channel!HandUp
  <2> QED
    BY <2>7, Zenon DEF ChannelStep, Channel!Next
<1> QED
  BY <1>7, <1>8

\* The buffer of send_outgoing() takes the frame of as many bytes as _rx_buf.
FrameFits == TxCap >= 2 * RxCap + 2

\* The upstream node writes a packet, and the network breaks the connection.
LEMMA PeerSteps ==
  ASSUME FrameFits, ChannelInv, NEW c \in Sockets,
         Breaks(c) \/ \E d \in Packets : PeerWrites(c, d)
  PROVE  ChannelStep
<1> USE DEF ChannelInv
<1>1. c = sock /\ c # None /\ conn[c] = "up"
  BY NoneIsNoSocket DEF Breaks, PeerWrites, SocketInv, Held
<1>2. Holder \in Holding /\ InHand \in Seq(Byte) /\ InPipe \in Seq(Byte) /\ InPipe = pipe[c]
  BY <1>1, PartTypes DEF InPipe
<1>3. UNCHANGED <<Holder, InHand, handed>>
  <2>1. UNCHANGED <<parser, pc, byte, handed>>
    BY DEF Breaks, PeerWrites, object, task
  <2> QED
    BY <2>1, TasksStay
<1>4. CASE Breaks(c)
  <2>1. PICK n \in 0..Len(pipe[c]) : pipe' = [pipe EXCEPT ![c] = SubSeq(@, 1, n)]
    BY <1>4 DEF Breaks
  <2>2. sock' = sock
    BY <1>4 DEF Breaks, object
  <2>3. InPipe' = SubSeq(InPipe, 1, n)
    BY <1>1, <1>2, <2>1, <2>2 DEF InPipe, TypeOK
  <2>4. n \in 0..Len(InPipe)
    BY <1>2, <2>1
  <2> QED
    BY <1>3, <2>3, <2>4, ChannelBreaks, BreakIsStep
<1>5. ASSUME NEW d \in Packets, PeerWrites(c, d)
      PROVE  ChannelStep
  <2>1. d \in Seq(Byte) /\ Encoded(d) \in Seq(Byte)
    BY PacketsAssumption, EncodedType
  <2>2. InPipe' = InPipe \o Encoded(d)
    BY <1>1, <1>2, <1>5 DEF PeerWrites, InPipe, TypeOK, object
  <2> DEFINE s == InHand \o InPipe
             k == Channel!Clipped(d)
  <2>3. InHand' \o InPipe' = s \o Encoded(d) /\ s \in Seq(Byte)
    <3>1. (InHand \o InPipe) \o Encoded(d) = InHand \o (InPipe \o Encoded(d))
      <4>1. \A x, y, z \in Seq(Byte) : (x \o y) \o z = x \o (y \o z)
        BY BytesJoin
      <4> QED
        BY <1>2, <2>1, <4>1, Zenon
    <3>2. InHand \o InPipe \in Seq(Byte)
      BY <1>2, BytesJoin, Zenon
    <3>3. InHand' = InHand
      BY <1>3
    <3> QED
      BY <2>2, <3>1, <3>2, <3>3, Zenon
  <2>4. Transit = Unparsed(Holder, s) /\ Transit' = Unparsed(Holder, s \o Encoded(d))
    BY <1>3, <2>3, TransitIs, Zenon
  <2> HIDE DEF s
  <2>5. Transit' = IF k = <<>> THEN Transit ELSE Append(Transit, k)
    <3>1. Unparsed(Holder, s \o Encoded(d))
            = IF Channel!Clipped(d) = <<>> THEN Unparsed(Holder, s)
              ELSE Append(Unparsed(Holder, s), Channel!Clipped(d))
      BY <1>2, <2>1, <2>3, UnparsedWrite DEF FrameFits
    <3> QED
      BY <2>4, <3>1, Zenon
  <2> HIDE DEF k
  <2>6. CASE k = <<>>
    BY <1>3, <2>5, <2>6 DEF ChannelStep
  <2>7. CASE k # <<>>
    <3>1. Transit' = Append(Transit, Channel!Clipped(d)) /\ handed' = handed
      BY <1>3, <2>5, <2>7 DEF k
    <3>2. Channel!Write
      BY <3>1, Zenon DEF Channel!Write
    <3> QED
      BY <3>2, Zenon DEF ChannelStep, Channel!Next
  <2> QED
    BY <2>6, <2>7
<1> QED
  BY <1>4, <1>5

LEMMA ChannelSteps ==
  ASSUME FrameFits, ChannelInv, [NextInTurn]_vars
  PROVE  ChannelStep
<1>1. ASSUME NEW t \in Tasks, InTurn(t), Takes(t) PROVE ChannelStep
  BY <1>1, ConnectSteps, LoopStays, RecvSteps, ParseSteps, DisconnectSteps DEF Takes, Polls
<1>2. CASE RetryDue
  <2>1. UNCHANGED <<Holder, InHand>>
    BY <1>2, TasksStay DEF RetryDue, task
  <2>2. UNCHANGED <<InPipe, handed>>
    BY <1>2, PipeStays DEF RetryDue, net
  <2> QED
    BY <2>1, <2>2, StayIsStep
<1>3. ASSUME NEW c \in Sockets, Breaks(c) \/ \E d \in Packets : PeerWrites(c, d) PROVE ChannelStep
  BY <1>3, PeerSteps
<1>4. CASE UNCHANGED vars
  <2>1. UNCHANGED <<Holder, InHand>>
    BY <1>4, TasksStay DEF vars, object, task
  <2>2. UNCHANGED <<InPipe, handed>>
    BY <1>4, PipeStays DEF vars, object, net
  <2> QED
    BY <2>1, <2>2, StayIsStep
<1> QED
  BY <1>1, <1>2, <1>3, <1>4 DEF NextInTurn, Outside

LEMMA ChannelInit ==
  ASSUME Init
  PROVE  Channel!Init
<1> DEFINE q == [inFrame |-> FALSE, escape |-> FALSE, rx |-> <<>>]
<1>1. q \in Holding /\ <<>> \in Seq(Byte)
  BY CapAssumption DEF Holding, Parsers
<1>2. Holder = q /\ InHand = <<>> /\ InPipe = <<>> /\ handed = <<>>
  <2>1. AtPlace("handing") = {} /\ AtPlace("byte") = {}
    BY PollersAssumption DEF Init, AtPlace
  <2> QED
    BY <2>1 DEF Init, Holder, InHand, InPipe
<1>3. EndsFrame(q, FLAG) = FALSE
  BY DEF EndsFrame
<1> HIDE DEF q
<1>4. Transit = Unparsed(q, <<>>)
  BY <1>1, <1>2, TransitIs, BytesJoin, Zenon
<1>5. Unparsed(q, <<>>) = <<>>
  <2>1. Run(q, <<>>).up = <<>> /\ Run(q, <<>>).parser = q
    <3>1. Run(q, <<>>) = [parser |-> q, up |-> <<>>]
      BY <1>1, RunEmpty DEF Fresh
    <3> QED
      BY <3>1, FieldsOf, Zenon
  <2>2. Unparsed(q, <<>>) = Run(q, <<>>).up \o AtOnce(Run(q, <<>>).parser)
    BY <1>1, UnparsedIs
  <2>3. AtOnce(q) = <<>>
    BY <1>3, Zenon DEF AtOnce
  <2>4. <<>> \o <<>> = <<>>
    OBVIOUS
  <2> QED
    BY <2>1, <2>2, <2>3, <2>4, Zenon
<1> QED
  BY <1>2, <1>4, <1>5, Zenon DEF Channel!Init

LEMMA ChannelInvInit == Init => ChannelInv
<1>1. Init => Emptied
  BY DEF Init, Emptied
<1> QED
  BY <1>1, SocketInvInit, TypeInit DEF ChannelInv

LEMMA ChannelInvStep ==
  ASSUME ChannelInv, [NextInTurn]_vars
  PROVE  ChannelInv'
<1>1. [Next]_vars
  BY Zenon DEF NextInTurn, Next
<1> QED
  BY <1>1, TypeStep, SocketInvStep, EmptiedStep DEF ChannelInv

\* ImplementsChannelHolds: as long as the calls of the tasks do not overlap the
\* interface is a channel of whole packets in order, whichever task polls, whatever
\* bytes the packets hold, however the connections break and wherever disconnect()
\* finds the parser, given that the buffer of send_outgoing() takes the frame of as
\* many bytes as _rx_buf (1400 and 600).
THEOREM ImplementsChannelHolds ==
  ASSUME TxCap >= 2 * RxCap + 2
  PROVE  SpecInTurn => ImplementsChannel
<1>1. FrameFits
  BY DEF FrameFits
<1>2. Init => Channel!Init
  BY ChannelInit
<1>3. ChannelInv /\ [NextInTurn]_vars => ChannelInv'
  BY ChannelInvStep
<1>4. ChannelInv /\ [NextInTurn]_vars => [Channel!Next]_<<Transit, handed>>
  BY <1>1, ChannelSteps DEF ChannelStep
<1> QED
  BY ChannelInvInit, <1>2, <1>3, <1>4, PTL DEF SpecInTurn, ImplementsChannel, Channel!Spec

-----------------------------------------------------------------------------
(* What every frame of the channel is.                                     *)

\* Packets and beginnings of packets.
Intact(frames) ==
  /\ frames \in Seq(Seq(Byte))
  /\ \A i \in 1..Len(frames) : \E d \in Packets : IsPrefix(frames[i], d)

LEMMA PrefixOfPrefix ==
  ASSUME NEW x \in Seq(Byte), NEW d \in Seq(Byte), IsPrefix(x, d), NEW k \in 0..Len(x)
  PROVE  SubSeq(x, 1, k) \in Seq(Byte) /\ IsPrefix(SubSeq(x, 1, k), d)
<1>1. /\ Len(x) <= Len(d)
      /\ \A i \in 1..Len(x) : x[i] = d[i]
  BY DEF IsPrefix
<1> DEFINE y == SubSeq(x, 1, k)
           z == SubSeq(d, 1, k)
<1>2. y \in Seq(Byte) /\ Len(y) = k /\ SubSeq(y, 1, k) = y /\ \A i \in 1..k : y[i] = x[i]
  OBVIOUS
<1>3. z \in Seq(Byte) /\ Len(z) = k /\ \A i \in 1..k : z[i] = d[i]
  BY <1>1
<1> HIDE DEF y, z
<1>4. \A i \in 1..k : i \in 1..Len(x)
  OBVIOUS
<1>5. y = z
  <2>1. \A i \in 1..k : y[i] = z[i]
    BY <1>1, <1>2, <1>3, <1>4, Zenon
  <2>2. y \in Seq(Byte) /\ Len(y) = k /\ z \in Seq(Byte) /\ Len(z) = k
    BY <1>2, <1>3
  <2> QED
    BY <2>1, <2>2
<1>6. k <= Len(d)
  BY <1>1
<1> QED
  BY <1>2, <1>5, <1>6 DEF IsPrefix, y, z

LEMMA ClippedIsPrefix ==
  ASSUME NEW d \in Packets
  PROVE  Channel!Clipped(d) \in Seq(Byte) /\ IsPrefix(Channel!Clipped(d), d)
<1>1. d \in Seq(Byte) /\ IsPrefix(d, d)
  BY PacketsAssumption DEF IsPrefix
<1>2. CASE Len(d) > RxCap
  <2>1. RxCap \in 0..Len(d) /\ Channel!Clipped(d) = SubSeq(d, 1, RxCap)
    BY <1>1, <1>2, CapAssumption DEF Channel!Clipped
  <2> QED
    BY <1>1, <2>1, PrefixOfPrefix
<1>3. CASE ~(Len(d) > RxCap)
  BY <1>1, <1>3 DEF Channel!Clipped
<1> QED
  BY <1>2, <1>3

LEMMA IntactAppend ==
  ASSUME NEW s, Intact(s), NEW x \in Seq(Byte), NEW d \in Packets, IsPrefix(x, d)
  PROVE  Intact(Append(s, x))
<1>1. s \in Seq(Seq(Byte))
  BY DEF Intact
<1> DEFINE t == Append(s, x)
<1>2. /\ t \in Seq(Seq(Byte)) /\ Len(t) = Len(s) + 1 /\ t[Len(s) + 1] = x
      /\ \A i \in 1..Len(s) : t[i] = s[i]
      /\ \A i \in 1..Len(s) + 1 : i \in 1..Len(s) \/ i = Len(s) + 1
  BY <1>1
<1> HIDE DEF t
<1>3. ASSUME NEW i \in 1..Len(t)
      PROVE  \E e \in Packets : IsPrefix(t[i], e)
  BY <1>2, Zenon DEF Intact
<1> QED
  BY <1>2, <1>3, Zenon DEF Intact, t

LEMMA IntactTail ==
  ASSUME NEW s, Intact(s), s # <<>>
  PROVE  /\ Intact(Tail(s)) /\ Head(s) \in Seq(Byte)
         /\ \E d \in Packets : IsPrefix(Head(s), d)
<1>1. s \in Seq(Seq(Byte))
  BY DEF Intact
<1> DEFINE t == Tail(s)
<1>2. /\ t \in Seq(Seq(Byte)) /\ \A i \in 1..Len(t) : t[i] = s[i + 1] /\ i + 1 \in 1..Len(s)
      /\ Head(s) = s[1] /\ 1 \in 1..Len(s) /\ s[1] \in Seq(Byte)
  BY <1>1
<1> HIDE DEF t
<1> QED
  BY <1>2, Zenon DEF Intact, t

LEMMA IntactFirst ==
  ASSUME NEW s, Intact(s), NEW n \in 0..Len(s)
  PROVE  Intact(SubSeq(s, 1, n))
<1>1. s \in Seq(Seq(Byte))
  BY DEF Intact
<1> DEFINE t == SubSeq(s, 1, n)
<1>2. t \in Seq(Seq(Byte)) /\ \A i \in 1..Len(t) : t[i] = s[i] /\ i \in 1..Len(s)
  BY <1>1
<1> HIDE DEF t
<1> QED
  BY <1>2, Zenon DEF Intact, t

LEMMA IntactCuts ==
  ASSUME NEW s, Intact(s), NEW t \in Channel!Cuts(s)
  PROVE  Intact(t)
<1>1. ASSUME NEW n \in 0..Len(s), t = SubSeq(s, 1, n)
      PROVE  Intact(t)
  BY <1>1, IntactFirst
<1>2. ASSUME NEW n \in 1..Len(s), NEW k \in 1..Len(s[n]),
             t = Append(SubSeq(s, 1, n - 1), SubSeq(s[n], 1, k))
      PROVE  Intact(t)
  <2>1. s[n] \in Seq(Byte) /\ n - 1 \in 0..Len(s)
    BY DEF Intact
  <2>2. PICK d \in Packets : IsPrefix(s[n], d)
    BY DEF Intact
  <2>3. d \in Seq(Byte) /\ k \in 0..Len(s[n])
    BY PacketsAssumption
  <2>4. SubSeq(s[n], 1, k) \in Seq(Byte) /\ IsPrefix(SubSeq(s[n], 1, k), d)
    BY <2>1, <2>2, <2>3, PrefixOfPrefix
  <2>5. Intact(SubSeq(s, 1, n - 1))
    BY <2>1, IntactFirst
  <2> QED
    BY <1>2, <2>4, <2>5, IntactAppend
<1> QED
  BY <1>1, <1>2, Zenon DEF Channel!Cuts

LEMMA IntactSteps ==
  ASSUME ChannelStep, Intact(Transit), Intact(handed)
  PROVE  Intact(Transit)' /\ Intact(handed)'
<1>1. CASE Channel!Write
  <2>1. PICK d \in Packets : Transit' = Append(Transit, Channel!Clipped(d))
    BY <1>1 DEF Channel!Write
  <2>2. Channel!Clipped(d) \in Seq(Byte) /\ IsPrefix(Channel!Clipped(d), d)
    BY ClippedIsPrefix
  <2>3. Intact(Append(Transit, Channel!Clipped(d)))
    BY <2>2, IntactAppend
  <2>4. handed' = handed
    BY <1>1 DEF Channel!Write
  <2> QED
    BY <2>1, <2>3, <2>4, Zenon DEF Intact
<1>2. CASE Channel!HandUp
  <2>1. Transit # <<>> /\ handed' = Append(handed, Head(Transit)) /\ Transit' = Tail(Transit)
    BY <1>2, Zenon DEF Channel!HandUp
  <2>2. Intact(Tail(Transit)) /\ Head(Transit) \in Seq(Byte)
        /\ \E d \in Packets : IsPrefix(Head(Transit), d)
    BY <2>1, IntactTail
  <2>3. Intact(Append(handed, Head(Transit)))
    BY <2>2, IntactAppend
  <2> QED
    BY <2>1, <2>2, <2>3, Zenon DEF Intact
<1>3. CASE Channel!Break
  <2>1. Transit' \in Channel!Cuts(Transit) /\ handed' = handed
    BY <1>3, Zenon DEF Channel!Break
  <2>2. Intact(Transit')
    BY <2>1, IntactCuts
  <2> QED
    BY <2>1, <2>2, Zenon DEF Intact
<1>4. CASE UNCHANGED <<Transit, handed>>
  BY <1>4, Zenon DEF Intact
<1> QED
  BY <1>1, <1>2, <1>3, <1>4, Zenon DEF ChannelStep, Channel!Next

\* FramesIntactHolds: what loop() hands up is then a packet the upstream node
\* sent or the beginning of one; never two packets joined, nor bytes of a frame
\* that was torn behind a reconnection.  (When calls overlap it need not be.)
THEOREM FramesIntactHolds ==
  ASSUME TxCap >= 2 * RxCap + 2
  PROVE  SpecInTurn => []FramesIntact
<1>1. FrameFits
  BY DEF FrameFits
<1> DEFINE Inv == ChannelInv /\ Intact(Transit) /\ Intact(handed)
<1>2. Init => Inv
  <2>1. Init => Transit = <<>> /\ handed = <<>>
    BY ChannelInit, Zenon DEF Channel!Init
  <2>2. Intact(<<>>)
    BY DEF Intact
  <2> QED
    BY <2>1, <2>2, ChannelInvInit, Zenon
<1>3. Inv /\ [NextInTurn]_vars => Inv'
  <2> SUFFICES ASSUME Inv, [NextInTurn]_vars PROVE Inv'
    OBVIOUS
  <2>1. ChannelInv'
    BY ChannelInvStep
  <2>2. Intact(Transit)' /\ Intact(handed)'
    BY <1>1, ChannelSteps, IntactSteps
  <2> QED
    BY <2>1, <2>2
<1>4. Inv => FramesIntact
  BY DEF Intact, FramesIntact
<1> QED
  BY <1>2, <1>3, <1>4, PTL DEF SpecInTurn
=============================================================================
