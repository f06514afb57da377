----------------------------- MODULE TcpInterface -----------------------------
(* The interface to an upstream Reticulum node over TCP                        *)
(* (firmware/heltec_v3/main/tcp_interface.cpp): one socket, reconnection, and  *)
(* a byte-by-byte HDLC parser.  Tasks share the object and it has no lock: a   *)
(* task that polls runs loop(), any task that sends may find the connection    *)
(* broken and run disconnect().  A step is what one task does between two      *)
(* calls into lwIP, where another task may run.                                *)
EXTENDS Naturals, Sequences, SequencesExt

CONSTANTS
    Tasks,          \* the tasks that call send_outgoing()
    Pollers,        \* those of them that call loop()
    MaxSockets,     \* sockets of the lwIP pool (CONFIG_LWIP_MAX_SOCKETS)
    Packets,        \* packets the upstream node sends, sequences of bytes
    RxCap,          \* bytes of _rx_buf (600)
    TxCap,          \* bytes of send_outgoing()'s buffer (1400)
    MaxWrites,      \* bound: packets the upstream node sends
    MaxBreaks,      \* bound: connections the network breaks
    MaxFails        \* bound: connection attempts that fail

ASSUME PollersAssumption == Pollers \subseteq Tasks
ASSUME MaxSocketsAssumption == MaxSockets \in Nat \ {0}
ASSUME CapAssumption == RxCap \in Nat /\ TxCap \in Nat

Sockets == 1..MaxSockets
None == 0           \* _sock = -1

VARIABLES
    sock,           \* _sock
    connected,      \* _connected
    backoff,        \* now < _reconnect_at
    parser,         \* _in_frame, _escape and the bytes of _rx_buf
    pc,             \* where each task is in loop()
    byte,           \* each poller's local of that name
    down,           \* tasks between the two halves of disconnect()
    conn,           \* each socket of the pool
    pipe,           \* bytes each socket has yet to receive
    handed,         \* what handle_incoming() was given
    writes, breaks, fails

object == <<sock, connected, backoff, parser>>
task == <<pc, byte, down>>
net == <<conn, pipe>>
bounds == <<writes, breaks, fails>>
vars == <<object, task, net, handed, bounds>>

-----------------------------------------------------------------------------
(* The framing. *)

Byte == 0..255
ASSUME PacketsAssumption == Packets \subseteq Seq(Byte)

FLAG == 126
ESC == 125

\* b ^ 0x20
Flip(b) == IF (b \div 32) % 2 = 1 THEN b - 32 ELSE b + 32

Escaped(b) == IF b \in {FLAG, ESC} THEN <<ESC, Flip(b)>> ELSE <<b>>

\* The frame send_outgoing() writes for data.  The upstream node writes the same.
Encoded(data) ==
    LET buf[n \in 0..Len(data)] ==
            IF n = 0 THEN <<FLAG>>
            ELSE LET before == buf[n - 1]
                 IN  IF Len(before) + 2 < TxCap
                     THEN before \o Escaped(data[n]) ELSE before
    IN  Append(buf[Len(data)], FLAG)

Parsers == [inFrame : BOOLEAN, escape : BOOLEAN, rx : Seq(Byte)]

AtFlag == [inFrame |-> TRUE, escape |-> FALSE, rx |-> <<>>]

Stored(q, b) ==
    [q EXCEPT !.escape = FALSE,
              !.rx = IF Len(@) < RxCap
                     THEN Append(@, IF q.escape THEN Flip(b) ELSE b)
                     ELSE @]

\* Mutant: A flag leaves _escape as the torn frame left it.
AfterByte_KeepsEscape(q, b) ==
    IF b = FLAG THEN [AtFlag EXCEPT !.escape = q.escape]
    ELSE IF ~q.inFrame THEN q
    ELSE IF b = ESC THEN [q EXCEPT !.escape = TRUE]
    ELSE Stored(q, b)

\* The parser after byte b.
AfterByte(q, b) ==
    IF b = FLAG THEN AtFlag
    ELSE IF ~q.inFrame THEN q
    ELSE IF b = ESC THEN [q EXCEPT !.escape = TRUE]
    ELSE Stored(q, b)

\* Byte b ends a frame that goes up.
EndsFrame(q, b) == b = FLAG /\ q.inFrame /\ q.rx # <<>>

-----------------------------------------------------------------------------
Init ==
    /\ sock = None /\ connected = FALSE /\ backoff = FALSE
    /\ parser = [inFrame |-> FALSE, escape |-> FALSE, rx |-> <<>>]
    /\ pc = [t \in Tasks |-> "idle"]
    /\ byte = [p \in Pollers |-> 0]
    /\ down = {}
    /\ conn = [c \in Sockets |-> "free"] /\ pipe = [c \in Sockets |-> <<>>]
    /\ handed = <<>>
    /\ writes = 0 /\ breaks = 0 /\ fails = 0

Free == {c \in Sockets : conn[c] = "free"}

GoTo(t, place) == pc' = [pc EXCEPT ![t] = place]

\* close(_sock)
Close(c) ==
    /\ conn' = [conn EXCEPT ![c] = "free"]
    /\ pipe' = [pipe EXCEPT ![c] = <<>>]

\* disconnect() up to the return of close(); its assignments are DropSocket.
Disconnect(t) ==
    IF sock = None
    THEN /\ connected' = FALSE
         /\ UNCHANGED <<net, down>>
    ELSE /\ Close(sock)
         /\ down' = down \cup {t}
         /\ UNCHANGED connected

DropSocket(t) ==
    /\ t \in down
    /\ down' = down \ {t}
    /\ sock' = None /\ connected' = FALSE
    /\ UNCHANGED <<backoff, parser, pc, byte, net, handed, bounds>>

RetryDue ==
    /\ backoff
    /\ backoff' = FALSE
    /\ UNCHANGED <<sock, connected, parser, task, net, handed, bounds>>

-----------------------------------------------------------------------------
(* try_connect(), called from loop() while not connected. *)

CallsConnect(p) == pc[p] = "idle" /\ p \notin down /\ ~connected /\ ~backoff

\* The name does not resolve, connect() is refused at once, or the pool is empty.
ConnectRefused(p) ==
    /\ CallsConnect(p)
    /\ fails < MaxFails \/ Free = {}
    /\ fails' = IF Free = {} THEN fails ELSE fails + 1
    /\ backoff' = TRUE
    /\ sock' = IF Free = {} THEN None ELSE sock
    /\ UNCHANGED <<connected, parser, task, net, handed, writes, breaks>>

\* socket() takes a free socket of the pool, and connect() begins.
ConnectBegins(p) ==
    /\ CallsConnect(p)
    /\ \E c \in Free :
         /\ sock' = c
         /\ conn' = [conn EXCEPT ![c] = "connecting"]
    /\ GoTo(p, "select")
    /\ UNCHANGED <<connected, backoff, parser, byte, down, pipe, handed, bounds>>

Connected(p) ==
    /\ pc[p] = "select"
    /\ sock # None
    /\ conn' = [conn EXCEPT ![sock] = IF @ = "connecting" THEN "up" ELSE @]
    /\ connected' = TRUE
    /\ GoTo(p, "idle")
    /\ UNCHANGED <<sock, backoff, parser, byte, down, pipe, handed, bounds>>

\* Mutant: A failed select() returns without close().
ConnectFails_Leaks(p) ==
    /\ pc[p] = "select"
    /\ fails < MaxFails \/ sock = None
    /\ fails' = IF sock = None THEN fails ELSE fails + 1
    /\ sock' = None
    /\ backoff' = TRUE
    /\ GoTo(p, "idle")
    /\ UNCHANGED <<connected, parser, byte, down, net, handed, writes, breaks>>

ConnectFails(p) ==
    /\ pc[p] = "select"
    /\ fails < MaxFails \/ sock = None
    /\ fails' = IF sock = None THEN fails ELSE fails + 1
    /\ IF sock = None THEN UNCHANGED net ELSE Close(sock)
    /\ sock' = None
    /\ backoff' = TRUE
    /\ GoTo(p, "idle")
    /\ UNCHANGED <<connected, parser, byte, down, handed, writes, breaks>>

-----------------------------------------------------------------------------
(* loop() while connected. *)

LoopBegins(p) ==
    /\ pc[p] = "idle" /\ p \notin down /\ connected
    /\ GoTo(p, "recv")
    /\ UNCHANGED <<object, byte, down, net, handed, bounds>>

Readable == sock # None /\ pipe[sock] # <<>>
Quiet == sock # None /\ pipe[sock] = <<>> /\ conn[sock] \in {"connecting", "up"}

RecvByte(p) ==
    /\ pc[p] = "recv" /\ Readable
    /\ byte' = [byte EXCEPT ![p] = Head(pipe[sock])]
    /\ pipe' = [pipe EXCEPT ![sock] = Tail(@)]
    /\ GoTo(p, "byte")
    /\ UNCHANGED <<object, down, conn, handed, bounds>>

\* The 10 ms receive timeout: EAGAIN.
RecvTimesOut(p) ==
    /\ pc[p] = "recv" /\ Quiet
    /\ GoTo(p, "idle")
    /\ UNCHANGED <<object, byte, down, net, handed, bounds>>

\* Mutant: recv() returning 0 is taken for a timeout.
RecvFails_Ignored(p) ==
    /\ pc[p] = "recv" /\ ~Readable /\ ~Quiet
    /\ GoTo(p, "idle")
    /\ UNCHANGED <<object, byte, down, net, handed, bounds>>

\* The upstream node closed, or the socket is gone.
RecvFails(p) ==
    /\ pc[p] = "recv" /\ ~Readable /\ ~Quiet
    /\ Disconnect(p)
    /\ GoTo(p, "idle")
    /\ UNCHANGED <<sock, backoff, parser, byte, handed, bounds>>

ParseByte(p) ==
    /\ pc[p] = "byte"
    /\ ~EndsFrame(parser, byte[p])
    /\ parser' = AfterByte(parser, byte[p])
    /\ GoTo(p, "recv")
    /\ UNCHANGED <<sock, connected, backoff, byte, down, net, handed, bounds>>

\* handle_incoming(); the parser is reset when it returns.
HandUp(p) ==
    /\ pc[p] = "byte"
    /\ EndsFrame(parser, byte[p])
    /\ handed' = Append(handed, parser.rx)
    /\ GoTo(p, "handing")
    /\ UNCHANGED <<object, byte, down, net, bounds>>

HandedUp(p) ==
    /\ pc[p] = "handing" /\ p \notin down
    /\ parser' = AtFlag
    /\ GoTo(p, "recv")
    /\ UNCHANGED <<sock, connected, backoff, byte, down, net, handed, bounds>>

-----------------------------------------------------------------------------
(* send_outgoing() from any task, a poller's own from inside handle_incoming(). *)
(* A send that succeeds changes nothing here.                                   *)

SendFails(t) ==
    /\ pc[t] \in {"idle", "handing"} /\ t \notin down
    /\ connected /\ sock # None
    /\ conn[sock] \in {"gone", "free"}
    /\ Disconnect(t)
    /\ UNCHANGED <<sock, backoff, parser, pc, byte, handed, bounds>>

-----------------------------------------------------------------------------
(* The upstream node and the network. *)

PeerWrites(c, p) ==
    /\ writes < MaxWrites /\ conn[c] = "up"
    /\ pipe' = [pipe EXCEPT ![c] = @ \o Encoded(p)]
    /\ writes' = writes + 1
    /\ UNCHANGED <<object, task, conn, handed, breaks, fails>>

\* The connection breaks; some of what was written still arrives.
Breaks(c) ==
    /\ breaks < MaxBreaks /\ conn[c] = "up"
    /\ \E n \in 0..Len(pipe[c]) : pipe' = [pipe EXCEPT ![c] = SubSeq(@, 1, n)]
    /\ conn' = [conn EXCEPT ![c] = "gone"]
    /\ breaks' = breaks + 1
    /\ UNCHANGED <<object, task, handed, writes, fails>>

-----------------------------------------------------------------------------
Polls(p) ==
    \/ ConnectRefused(p) \/ ConnectBegins(p) \/ Connected(p) \/ ConnectFails(p)
    \/ LoopBegins(p) \/ RecvByte(p) \/ RecvTimesOut(p) \/ RecvFails(p)
    \/ ParseByte(p) \/ HandUp(p) \/ HandedUp(p)

Takes(t) == (t \in Pollers /\ Polls(t)) \/ SendFails(t) \/ DropSocket(t)

Outside ==
    \/ RetryDue
    \/ \E c \in Sockets : Breaks(c) \/ \E p \in Packets : PeerWrites(c, p)

Next == Outside \/ \E t \in Tasks : Takes(t)

Spec == Init /\ [][Next]_vars

(* The behaviours in which the tasks' calls of loop() and send_outgoing() do    *)
(* not overlap.  Nothing in the code enforces it.                               *)
Inside(t) == pc[t] # "idle" \/ t \in down
InTurn(t) == \A u \in Tasks \ {t} : ~Inside(u)

NextInTurn == Outside \/ \E t \in Tasks : InTurn(t) /\ Takes(t)

SpecInTurn == Init /\ [][NextInTurn]_vars

(* Every poller comes round again, run_once() every tick and the main loop      *)
(* every second; a task inside disconnect() goes on; time passes.               *)
FairInTurn ==
    /\ SpecInTurn
    /\ \A p \in Pollers : WF_vars(InTurn(p) /\ Polls(p))
    /\ \A t \in Tasks : WF_vars(InTurn(t) /\ DropSocket(t))
    /\ WF_vars(RetryDue)

-----------------------------------------------------------------------------
TypeOK ==
    /\ sock \in Sockets \cup {None}
    /\ connected \in BOOLEAN /\ backoff \in BOOLEAN
    /\ parser \in Parsers /\ Len(parser.rx) <= RxCap
    /\ pc \in [Tasks -> {"idle", "select", "recv", "byte", "handing"}]
    /\ byte \in [Pollers -> Byte]
    /\ down \subseteq Tasks
    /\ conn \in [Sockets -> {"free", "connecting", "up", "gone"}]
    /\ pipe \in [Sockets -> Seq(Byte)]

(* No socket of the pool is held that the interface has forgotten, whatever     *)
(* way a connection attempt or a connection ended, and an interface that says   *)
(* it is connected has a socket that got through.                               *)
OwnsItsSocket ==
    /\ Sockets \ Free \subseteq {sock}
    /\ connected /\ down = {} => sock # None /\ conn[sock] \in {"up", "gone"}

(* Every frame handed up is a packet the upstream node sent, or the beginning   *)
(* of one that a broken connection cut short.                                   *)
FramesIntact ==
    \A i \in 1..Len(handed) : \E p \in Packets : IsPrefix(handed[i], p)

(* What byte b makes of a parser and of the packets it has handed up. *)
AfterRun(b) ==
    [r \in [parser : Parsers, up : Seq(Seq(Byte))] |->
        [parser |-> AfterByte(r.parser, b),
         up |-> IF EndsFrame(r.parser, b) THEN Append(r.up, r.parser.rx) ELSE r.up]]

(* The parser after bytes, and what it handed up of them. *)
Run(q, bytes) ==
    LET run[i \in 0..Len(bytes)] ==
            IF i = 0 THEN [parser |-> q, up |-> <<>>] ELSE AfterRun(bytes[i])[run[i - 1]]
    IN  run[Len(bytes)]

(* While one parser sees them all: the packets in bytes, the last as far as it  *)
(* goes.                                                                        *)
Unparsed(q, bytes) == Run(q, Append(bytes, FLAG)).up

\* The pollers at a place of loop().
AtPlace(place) == {p \in Pollers : pc[p] = place}

\* The parser that goes on with what is to come; the byte a poller has in hand;
\* what is still in the socket.
Holder == IF AtPlace("handing") # {} THEN AtFlag ELSE parser
InHand == IF AtPlace("byte") # {} THEN <<byte[CHOOSE p \in AtPlace("byte") : TRUE]>> ELSE <<>>
InPipe == IF sock = None THEN <<>> ELSE pipe[sock]

Transit == Unparsed(Holder, InHand \o InPipe)

Channel == INSTANCE FrameChannel WITH transit <- Transit, Room <- RxCap

(* When calls do not overlap the interface is a channel of whole packets in     *)
(* order, through escaping, torn streams and reconnections, whichever task      *)
(* polls: what the parser held when a connection broke is handed up at most     *)
(* once, as the beginning it is, and never joined to the bytes of the next      *)
(* connection.                                                                  *)
ImplementsChannel == Channel!Spec

(* The interface is again and again on a live connection with nothing left to   *)
(* read: it notices that a connection ended and connects anew.                  *)
StreamIsDrained ==
    []<>(connected /\ sock # None /\ conn[sock] = "up" /\ pipe[sock] = <<>>)
=============================================================================
