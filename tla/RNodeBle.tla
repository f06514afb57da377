------------------------------- MODULE RNodeBle -------------------------------
(* RNode mode over Bluetooth LE: the KISS core                                 *)
(* (firmware/heltec_v3/main/rnode_bridge.cpp) and its BLE transport            *)
(* (rnode_ble_bridge.cpp).  The NimBLE task handles connections and puts the   *)
(* bytes a central writes into a ring; the bridge task parses them, runs the   *)
(* commands and cuts its answers into notifications.  Nothing is locked: a     *)
(* step is what a task does between two accesses to what they share.           *)
EXTENDS Naturals, Sequences, SequencesExt

CONSTANTS
    RingSize,       \* RX_RING_SIZE (2048); the ring holds one byte less
    FrameMax,       \* FRAME_MAX (600)
    NotifyMin,      \* bytes of a notification before the MTU exchange (20)
    NotifyMax,      \* and after it (244)
    WriteMax,       \* bytes of a central's write
    Script,         \* bound: the frames the centrals send, [cmd, payload]
    Randoms,        \* bytes esp_random() gives
    MaxConns,       \* bound: connections
    MaxFails        \* bound: notifications NimBLE refuses

ASSUME RingAssumption == RingSize \in Nat /\ RingSize > 1
ASSUME NotifyAssumption ==
    /\ NotifyMin \in Nat \ {0} /\ NotifyMax \in Nat /\ NotifyMin <= NotifyMax
    /\ WriteMax \in Nat \ {0}
ASSUME FrameAssumption ==
    /\ FrameMax \in Nat
    /\ Script \in Seq([cmd : 0..255, payload : Seq(0..255)])
    /\ Randoms \subseteq 0..255

VARIABLES
    ring, head, tail,   \* g_rx_ring, g_rx_head, g_rx_tail
    unstored,           \* what the NimBLE task has yet to put into the ring
    stored,             \* its first byte is in its slot, the head not advanced
    conn,               \* g_conn_handle, numbered by connection; None if none
    notify,             \* g_notify_mtu
    pending,            \* g_pending_ready
    pc, byte,           \* where the bridge task is, and its local b
    parser,             \* in_frame, escape, current_cmd and frame_buf
    outbox, out, chunk, \* replies to send, bytes left of the present one, cut
    cfg,                \* g_cfg
    radio,              \* _radio_on and the mode of the SX1262
    central,            \* the central: bytes to write, subscription, its parser
    begun, executed,    \* history: frames of Script begun, frames handled
    sent, decoded,      \* history: frames sent to centrals, frames they decoded
    ready,              \* history: READY decoded since the subscription
    dropped,            \* history: the ring was full
    fails, conns

queue == <<ring, head, tail, unstored, stored>>
link == <<conn, notify, pending>>
bridge == <<pc, byte, parser, outbox, out, chunk>>
device == <<cfg, radio>>
seen == <<begun, executed, sent, decoded, ready, dropped>>
bounds == <<fails, conns>>
vars == <<queue, link, bridge, device, central, seen, bounds>>

None == 0

-----------------------------------------------------------------------------
(* The framing, the same in both directions. *)

Byte == 0..255
FEND == 192
FESC == 219
TFEND == 220
TFESC == 221
CMD_UNKNOWN == 254

\* A parser takes neither for a command.
ASSUME CommandAssumption ==
    \A i \in DOMAIN Script : Script[i].cmd \notin {FEND, CMD_UNKNOWN}

\* Mutant: Only FEND is escaped.
Escaped_OnlyFend(b) == IF b = FEND THEN <<FESC, TFEND>> ELSE <<b>>

Escaped(b) ==
    CASE b = FEND -> <<FESC, TFEND>> [] b = FESC -> <<FESC, TFESC>> [] OTHER -> <<b>>

Encoded(f) ==
    <<FEND, f.cmd>> \o FlattenSeq([i \in DOMAIN f.payload |-> Escaped(f.payload[i])])
      \o <<FEND>>

OutOfFrame == [inFrame |-> FALSE, escape |-> FALSE, cmd |-> CMD_UNKNOWN, rx |-> <<>>]
AtFend == [OutOfFrame EXCEPT !.inFrame = TRUE]

Unescaped(q, b) ==
    CASE q.escape /\ b = TFEND -> FEND [] q.escape /\ b = TFESC -> FESC [] OTHER -> b

Stored(q, b, max) ==
    [q EXCEPT !.escape = FALSE,
              !.rx = IF Len(@) < max THEN Append(@, Unescaped(q, b)) ELSE @]

\* The parser, which has room for max bytes of payload, after byte b; the first
\* byte of a frame is its command.
AfterByte(q, b, max) ==
    CASE b = FEND -> AtFend
      [] b # FEND /\ ~q.inFrame -> q
      [] b # FEND /\ q.inFrame /\ q.cmd = CMD_UNKNOWN -> [q EXCEPT !.cmd = b]
      [] b = FESC /\ q.inFrame /\ q.cmd # CMD_UNKNOWN -> [q EXCEPT !.escape = TRUE]
      [] OTHER -> Stored(q, b, max)

EndsFrame(q, b) == b = FEND /\ q.inFrame /\ q.cmd # CMD_UNKNOWN
FrameOf(q) == [cmd |-> q.cmd, payload |-> q.rx]

-----------------------------------------------------------------------------
(* The commands. *)

DATA == 0
FREQUENCY == 1
RADIO_STATE == 6
DETECT == 8
READY == 15
RANDOM == 64
ERROR == 144

\* The bytes of each parameter's value, and what a host asks for it with.
Width == [c \in 1..6 |-> IF c \in {1, 2} THEN 4 ELSE 1]
IsQuery(f) == f.payload \in {<<0, 0, 0, 0>>, <<255>>}

\* What attach() finds: 915 MHz, 125 kHz, 14 dBm, SF 9, CR 7, on.
Defaults ==
    <<<<54, 137, 202, 192>>, <<0, 1, 232, 72>>, <<14>>, <<9>>, <<7>>, <<1>>>>

Frame(c, p) == [cmd |-> c, payload |-> p]
IndicateReady == Frame(READY, <<1>>)

\* What handling a frame leaves: settings, radio, and the frames it sends.
Outcome(c, r, replies) == [cfg |-> c, radio |-> r, replies |-> replies]
Answered(replies) == Outcome(cfg, radio, replies)

\* Mutant: _radio_on is not looked at.
SendRaw_Always(p) ==
    {Answered(<<>>)} \cup
    IF p = <<>> THEN {}
    ELSE {Outcome(cfg, [radio EXCEPT !.mode = m], <<>>) : m \in {"rx", "standby"}}

\* LoraInterface::send_raw(): standby, transmit, and startReceive may fail.
SendRaw(p) ==
    IF p = <<>> \/ ~radio.on THEN {Answered(<<>>)}
    ELSE {Outcome(cfg, [radio EXCEPT !.mode = m], <<>>) : m \in {"rx", "standby"}}

\* set_radio_online() and the settings: RadioLib takes the value or not.
Set(f) ==
    LET v == IF f.cmd = RADIO_STATE /\ f.payload # <<1>> THEN <<0>> ELSE f.payload
        on == v = <<1>>
        old == Frame(f.cmd, cfg[f.cmd])
        taken == [cfg EXCEPT ![f.cmd] = v]
    IN  {Outcome(taken,
                 IF f.cmd # RADIO_STATE \/ on = radio.on THEN radio
                 ELSE [on |-> on, mode |-> IF on THEN "rx" ELSE "standby"],
                 <<Frame(f.cmd, v)>>)}
        \cup IF f.cmd = RADIO_STATE /\ on = radio.on THEN {}
             ELSE {Answered(<<Frame(ERROR, <<1>>), old>>)}

\* handle_frame()
Handled(f) ==
    CASE f.cmd = DATA -> SendRaw(f.payload)
      [] f.cmd \in DOMAIN Width ->
           IF Len(f.payload) # Width[f.cmd] THEN {Answered(<<>>)}
           ELSE IF IsQuery(f) THEN {Answered(<<Frame(f.cmd, cfg[f.cmd])>>)}
           ELSE Set(f)
      [] f.cmd = DETECT ->
           {Answered(IF f.payload = <<115>> THEN <<Frame(DETECT, <<70>>)>> ELSE <<>>)}
      [] f.cmd = READY -> {Answered(<<IndicateReady>>)}
      [] f.cmd = 80 -> {Answered(<<Frame(80, <<1, 85>>)>>)}    \* CMD_FW_VERSION
      [] f.cmd = 72 -> {Answered(<<Frame(72, <<128>>)>>)}      \* CMD_PLATFORM
      [] f.cmd = 73 -> {Answered(<<Frame(73, <<129>>)>>)}      \* CMD_MCU
      [] f.cmd = 71 -> {Answered(<<Frame(71, <<58>>)>>)}       \* CMD_BOARD
      [] f.cmd = RANDOM -> {Answered(<<Frame(RANDOM, <<r>>)>>) : r \in Randoms}
      [] OTHER -> {Answered(<<>>)}

-----------------------------------------------------------------------------
Init ==
    /\ ring = [i \in 0..RingSize-1 |-> 0] /\ head = 0 /\ tail = 0
    /\ unstored = <<>> /\ stored = FALSE
    /\ conn = None /\ notify = NotifyMin /\ pending = FALSE
    /\ pc = "loop" /\ byte = 0 /\ parser = OutOfFrame
    /\ outbox = <<>> /\ out = <<>> /\ chunk = 0
    /\ cfg = Defaults /\ radio = [on |-> TRUE, mode |-> "rx"]
    /\ central = [unsent |-> <<>>, subscribed |-> FALSE, parser |-> OutOfFrame]
    /\ begun = 0 /\ executed = {} /\ sent = {} /\ decoded = {}
    /\ ready = FALSE /\ dropped = FALSE
    /\ fails = 0 /\ conns = 0

After(i) == (i + 1) % RingSize

-----------------------------------------------------------------------------
(* The NimBLE task: nus_access_cb(), which queues the bytes of one write. *)

\* Mutant: The ring is never full.
StoreByte_Overwrites ==
    /\ unstored # <<>> /\ ~stored
    /\ ring' = [ring EXCEPT ![head] = Head(unstored)]
    /\ stored' = TRUE
    /\ UNCHANGED <<head, tail, unstored, dropped, link, bridge, device, central,
                   begun, executed, sent, decoded, ready, bounds>>

\* A full ring drops the rest of the write.
StoreByte ==
    /\ unstored # <<>> /\ ~stored
    /\ IF After(head) = tail
       THEN /\ unstored' = <<>> /\ dropped' = TRUE
            /\ UNCHANGED <<ring, stored>>
       ELSE /\ ring' = [ring EXCEPT ![head] = Head(unstored)]
            /\ stored' = TRUE
            /\ UNCHANGED <<unstored, dropped>>
    /\ UNCHANGED <<head, tail, link, bridge, device, central,
                   begun, executed, sent, decoded, ready, bounds>>

Publish ==
    /\ stored
    /\ head' = After(head)
    /\ unstored' = Tail(unstored) /\ stored' = FALSE
    /\ UNCHANGED <<ring, tail, link, bridge, device, central, seen, bounds>>

(* The NimBLE task: gap_event_cb(), between two writes. *)

Connect ==
    /\ unstored = <<>> /\ conn = None /\ conns < MaxConns
    /\ conns' = conns + 1 /\ conn' = conns + 1
    /\ notify' = NotifyMin
    /\ UNCHANGED <<queue, pending, bridge, device, central, seen, fails>>

\* The ring, the parser and g_pending_ready stay as they are.
Disconnect ==
    /\ unstored = <<>> /\ conn # None
    /\ conn' = None /\ notify' = NotifyMin
    /\ central' = [unsent |-> <<>>, subscribed |-> FALSE, parser |-> OutOfFrame]
    /\ ready' = FALSE
    /\ UNCHANGED <<queue, pending, bridge, device,
                   begun, executed, sent, decoded, dropped, bounds>>

MtuExchanged ==
    /\ unstored = <<>> /\ conn # None /\ notify # NotifyMax
    /\ notify' = NotifyMax
    /\ UNCHANGED <<queue, conn, pending, bridge, device, central, seen, bounds>>

Subscribe ==
    /\ unstored = <<>> /\ conn # None /\ ~central.subscribed
    /\ central' = [central EXCEPT !.subscribed = TRUE]
    /\ pending' = TRUE
    /\ UNCHANGED <<queue, conn, notify, bridge, device, seen, bounds>>

(* The central. *)

Smaller(m, n) == IF m < n THEN m ELSE n

\* The first bytes of a frame, or the next ones.
Write ==
    /\ conn # None /\ unstored = <<>>
    /\ IF central.unsent = <<>>
       THEN begun < Len(Script) /\ begun' = begun + 1
       ELSE UNCHANGED begun
    /\ LET left == IF central.unsent = <<>> THEN Encoded(Script[begun + 1])
                   ELSE central.unsent
           n == Smaller(WriteMax, Len(left))
       IN  /\ unstored' = SubSeq(left, 1, n)
           /\ central' = [central EXCEPT !.unsent = SubSeq(left, n + 1, Len(left))]
    /\ UNCHANGED <<ring, head, tail, stored, link, bridge, device,
                   executed, sent, decoded, ready, dropped, bounds>>

-----------------------------------------------------------------------------
(* The bridge task: the loop of run(). *)

TestReady ==
    /\ pc = "loop"
    /\ pc' = IF pending /\ conn # None THEN "clear" ELSE "drain"
    /\ UNCHANGED <<queue, link, byte, parser, outbox, out, chunk, device, central,
                   seen, bounds>>

ClearReady ==
    /\ pc = "clear"
    /\ pending' = FALSE
    /\ outbox' = <<IndicateReady>> /\ pc' = "send"
    /\ UNCHANGED <<queue, conn, notify, byte, parser, out, chunk, device, central,
                   seen, bounds>>

\* poll_lora() calls LoraInterface::loop(), which does nothing.
Drain ==
    /\ pc = "drain"
    /\ IF tail = head
       THEN pc' = "loop" /\ UNCHANGED byte
       ELSE pc' = "consume" /\ byte' = ring[tail]
    /\ UNCHANGED <<queue, link, parser, outbox, out, chunk, device, central, seen, bounds>>

\* The tail moves on and feed_byte() takes the byte.
Consume ==
    /\ pc = "consume"
    /\ tail' = After(tail)
    /\ parser' = AfterByte(parser, byte, FrameMax)
    /\ IF EndsFrame(parser, byte)
       THEN \E o \in Handled(FrameOf(parser)) :
              /\ cfg' = o.cfg /\ radio' = o.radio /\ outbox' = o.replies
              /\ executed' = executed \cup {FrameOf(parser)}
              /\ pc' = IF o.replies = <<>> THEN "drain" ELSE "send"
       ELSE /\ pc' = "drain"
            /\ UNCHANGED <<device, outbox, executed>>
    /\ UNCHANGED <<ring, head, unstored, stored, link, byte, out, chunk, central,
                   begun, sent, decoded, ready, dropped, bounds>>

\* send_frame() and the first test of ble_tx_sink().
SendFrame ==
    /\ pc = "send"
    /\ IF outbox = <<>>
       THEN pc' = "drain" /\ UNCHANGED <<outbox, out, sent>>
       ELSE /\ outbox' = Tail(outbox)
            /\ IF conn = None
               THEN UNCHANGED <<pc, out, sent>>
               ELSE /\ pc' = "cut" /\ out' = Encoded(Head(outbox))
                    /\ sent' = sent \cup {Head(outbox)}
    /\ UNCHANGED <<queue, link, byte, parser, chunk, device, central,
                   begun, executed, decoded, ready, dropped, bounds>>

Cut ==
    /\ pc = "cut"
    /\ IF out = <<>>
       THEN pc' = "send" /\ UNCHANGED chunk
       ELSE pc' = "notify" /\ chunk' = Smaller(Len(out), notify)
    /\ UNCHANGED <<queue, link, byte, parser, outbox, out, device, central, seen, bounds>>

\* What a subscribed central, which has room for any answer, has parsed and
\* decoded after one byte more, and after some bytes.
TakenByte(s, b) ==
    [q |-> AfterByte(s.q, b, Len(s.q.rx) + 1),
     got |-> IF EndsFrame(s.q, b) THEN s.got \cup {FrameOf(s.q)} ELSE s.got]

Taken(bytes) ==
    LET taken[i \in 0..Len(bytes)] ==
          IF i = 0 THEN [q |-> central.parser, got |-> {}]
          ELSE TakenByte(taken[i - 1], bytes[i])
    IN  taken[Len(bytes)]

Deliver(bytes) ==
    IF central.subscribed
    THEN LET t == Taken(bytes)
         IN  /\ central' = [central EXCEPT !.parser = t.q]
             /\ decoded' = decoded \cup t.got
             /\ ready' = (ready \/ IndicateReady \in t.got)
    ELSE UNCHANGED <<central, decoded, ready>>

\* Mutant: The next notification begins with the last byte of this one.
Notified_Overlaps ==
    /\ conn # None
    /\ Deliver(SubSeq(out, 1, Smaller(chunk, notify)))
    /\ out' = SubSeq(out, IF chunk = Len(out) THEN chunk + 1 ELSE chunk, Len(out))
    /\ UNCHANGED fails

\* Mutant: The frame ends with its first notification.
Notified_Once ==
    /\ conn # None
    /\ Deliver(SubSeq(out, 1, Smaller(chunk, notify)))
    /\ out' = <<>>
    /\ UNCHANGED fails

\* ble_gattc_notify_custom() to whoever is connected now, cut to what it takes.
Notified ==
    /\ conn # None
    /\ Deliver(SubSeq(out, 1, Smaller(chunk, notify)))
    /\ out' = SubSeq(out, chunk + 1, Len(out))
    /\ UNCHANGED fails

\* There is no connection or no buffer: the rest of the frame is given up.
Refused ==
    /\ \/ conn = None /\ UNCHANGED fails
       \/ conn # None /\ fails < MaxFails /\ fails' = fails + 1
    /\ out' = <<>>
    /\ UNCHANGED <<central, decoded, ready>>

Notify ==
    /\ pc = "notify"
    /\ Notified \/ Refused
    /\ pc' = "cut"
    /\ UNCHANGED <<queue, link, byte, parser, outbox, chunk, device,
                   begun, executed, sent, dropped, conns>>

-----------------------------------------------------------------------------
NimbleTask == StoreByte \/ Publish

BridgeTask ==
    \/ TestReady \/ ClearReady \/ Drain \/ Consume
    \/ SendFrame \/ Cut \/ Notify

Next ==
    \/ NimbleTask \/ BridgeTask
    \/ Connect \/ Disconnect \/ MtuExchanged \/ Subscribe
    \/ Write

Spec == Init /\ [][Next]_vars

-----------------------------------------------------------------------------
(* Properties *)

Frames == [cmd : Byte, payload : Seq(Byte)]
Parsers == [inFrame : BOOLEAN, escape : BOOLEAN, cmd : Byte, rx : Seq(Byte)]

(* Every variable has its type; head and tail are places of the ring, and no    *)
(* payload is longer than frame_buf.                                            *)
TypeOK ==
    /\ ring \in [0..RingSize-1 -> Byte]
    /\ head \in 0..RingSize-1 /\ tail \in 0..RingSize-1
    /\ unstored \in Seq(Byte) /\ stored \in BOOLEAN
    /\ begun \in 0..Len(Script)
    /\ conn \in Nat /\ notify \in {NotifyMin, NotifyMax} /\ pending \in BOOLEAN
    /\ pc \in {"loop", "clear", "drain", "consume", "send", "cut", "notify"}
    /\ byte \in Byte
    /\ parser \in Parsers /\ Len(parser.rx) <= FrameMax
    /\ outbox \in Seq(Frames) /\ out \in Seq(Byte) /\ chunk \in Nat
    /\ cfg \in [1..6 -> Seq(Byte)]
    /\ radio \in [on : BOOLEAN, mode : {"rx", "standby"}]

\* A frame, or the beginning of one.
BeginsOneOf(f, S) == \E g \in S : f.cmd = g.cmd /\ IsPrefix(f.payload, g.payload)

(* The byte that run() has read is still in its slot when the tail moves on,    *)
(* and the slot that nus_access_cb() fills is free until the head moves on: the *)
(* two tasks share the ring without a lock.                                     *)
SlotsAreStable ==
    /\ pc = "consume" => tail # head /\ byte = ring[tail]
    /\ stored => After(head) # tail

(* Unless the ring was full, every command the bridge runs is one that some     *)
(* central sent, or the beginning of one that a disconnection cut short:        *)
(* nus_access_cb() and run() pass the bytes on in order over the unlocked ring, *)
(* and what the last central left in ring and parser is never joined to what    *)
(* the next one writes.                                                         *)
CommandsIntact ==
    ~dropped => \A f \in executed : BeginsOneOf(f, {Script[i] : i \in 1..begun})

(* Every frame a central decodes is one the KISS core sent, or the beginning of *)
(* one that was given up, although a frame is cut into notifications and the    *)
(* central may change between two of them (ble_tx_sink()).                      *)
AnswersIntact ==
    \A f \in decoded : BeginsOneOf(f, sent)

(* The host is told that the radio is on exactly when _radio_on is set, and a   *)
(* radio that was switched off stays in standby, whatever commands follow       *)
(* (handle_frame(), set_radio_online(), send_raw()).                            *)
RadioAsTold ==
    /\ cfg[RADIO_STATE] = <<1>> <=> radio.on
    /\ ~radio.on => radio.mode = "standby"

(* When the bridge comes round with nothing pending, a central that subscribed  *)
(* has been told CMD_READY, unless NimBLE refused a notification, although the  *)
(* request is handed from task to task in one flag, which a disconnection does  *)
(* not clear and a new subscription may set while READY is being sent           *)
(* (g_pending_ready).                                                           *)
SubscriberIsReady ==
    pc = "loop" /\ central.subscribed /\ ~pending /\ fails = 0 => ready
=============================================================================
