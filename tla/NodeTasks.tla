------------------------------- MODULE NodeTasks -------------------------------
(* The two tasks of the Heltec firmware in node mode and what they share: the  *)
(* recursive mutex of Transport, created by whoever first needs it, the LoRa   *)
(* transmit queue and the radio (firmware/heltec_v3/main/main.cpp,             *)
(* lora_interface.cpp, src/transport.cpp).  The main task announces, transmits *)
(* what is queued and reads the radio; the Reticulum task takes frames from    *)
(* TCP; either may end up in Transport and, from there, in the queue.          *)
EXTENDS Naturals

CONSTANTS
    QueueRoom,      \* items of g_tx_queue (8)
    MaxAnnounces,   \* bound: announces of the main task
    MaxTcpFrames,   \* bound: frames the Reticulum task takes from TCP
    MaxHeard        \* bound: frames the radio receives

ASSUME QueueRoomAssumption == QueueRoom \in Nat \ {0}

Tasks == {"main", "reticulum"}
Nobody == "nobody"
Mutexes == 1..2     \* as many as tasks that may create one

VARIABLES
    at,             \* where each task is
    job,            \* why it entered Transport
    mutex,          \* Transport::_mutex, 0 for nullptr
    made,           \* mutexes created
    mine,           \* the mutex each task's Lock refers to
    lock,           \* owner and depth of each mutex
    queued,         \* items in g_tx_queue
    pending,        \* g_packet_pending
    radio,          \* the mode of the SX1262
    refused,        \* the last command to it was a startReceive() it refused
    announces, tcpFrames, heard

locking == <<mutex, made, mine, lock>>
lora == <<queued, pending, radio, refused>>
bounds == <<announces, tcpFrames, heard>>
vars == <<at, job, locking, lora, bounds>>

Places == {"off", "boot", "idle", "mutex", "create", "take", "register", "inside",
           "snapshot", "send", "leave", "drain", "sent", "read", "rearm"}
Jobs == {"none", "register", "announce", "inbound"}

Init ==
    /\ at = [main |-> "boot", reticulum |-> "off"]
    /\ job = [t \in Tasks |-> "none"]
    /\ mutex = 0 /\ made = 0
    /\ mine = [t \in Tasks |-> 0]
    /\ lock = [m \in Mutexes |-> [owner |-> Nobody, depth |-> 0]]
    /\ queued = 0 /\ pending = FALSE /\ radio = "rx" /\ refused = FALSE
    /\ announces = 0 /\ tcpFrames = 0 /\ heard = 0

GoTo(t, place) == at' = [at EXCEPT ![t] = place]

Enters(t, why) ==
    /\ GoTo(t, "mutex")
    /\ job' = [job EXCEPT ![t] = why]

-----------------------------------------------------------------------------
(* Transport's lock. *)

\* mutex() finds the mutex, or finds none and goes on to create one.
GetMutex(t) ==
    /\ at[t] = "mutex"
    /\ mine' = [mine EXCEPT ![t] = mutex]
    /\ GoTo(t, IF mutex = 0 THEN "create" ELSE "take")
    /\ UNCHANGED <<job, mutex, made, lock, lora, bounds>>

CreateMutex(t) ==
    /\ at[t] = "create"
    /\ made' = made + 1
    /\ mutex' = made'
    /\ mine' = [mine EXCEPT ![t] = made']
    /\ GoTo(t, "take")
    /\ UNCHANGED <<job, lock, lora, bounds>>

Give(t) ==
    LET m == mine[t]
    IN  lock' = [lock EXCEPT ![m] =
                    IF @.depth = 1 THEN [owner |-> Nobody, depth |-> 0]
                    ELSE [owner |-> t, depth |-> @.depth - 1]]

Take(t) ==
    LET m == mine[t]
    IN  /\ at[t] = "take"
        /\ lock[m].owner \in {Nobody, t}
        /\ lock' = [lock EXCEPT ![m] = [owner |-> t, depth |-> @.depth + 1]]
        /\ GoTo(t, CASE job[t] = "register" -> "register"
                     [] job[t] = "announce" -> "snapshot"
                     [] job[t] = "inbound"  -> "inside")
        /\ UNCHANGED <<job, mutex, made, mine, lora, bounds>>

\* inbound() relays or answers: broadcast() locks again.
Broadcasts(t) ==
    /\ at[t] = "inside"
    /\ lock' = [lock EXCEPT ![mine[t]].depth = @ + 1]
    /\ GoTo(t, "snapshot")
    /\ UNCHANGED <<job, mutex, made, mine, lora, bounds>>

\* broadcast() has copied the interfaces and leaves its own lock.
Snapshot(t) ==
    /\ at[t] = "snapshot"
    /\ Give(t)
    /\ GoTo(t, "send")
    /\ UNCHANGED <<job, mutex, made, mine, lora, bounds>>

\* Where a task goes on when the call into Transport has returned.
Returns(t) == GoTo(t, IF t = "reticulum" THEN "idle"
                      ELSE IF job[t] = "announce" THEN "drain" ELSE "rearm")

Leave(t) ==
    /\ at[t] \in {"inside", "leave"}
    /\ Give(t)
    /\ Returns(t)
    /\ UNCHANGED <<job, mutex, made, mine, lora, bounds>>

-----------------------------------------------------------------------------
(* LoraInterface::send_outgoing(), from either task. *)

AfterSend(t) == IF job[t] = "inbound" THEN GoTo(t, "leave") ELSE Returns(t)

Enqueue(t) ==
    /\ at[t] = "send" /\ queued < QueueRoom
    /\ queued' = queued + 1
    /\ AfterSend(t)
    /\ UNCHANGED <<job, locking, pending, radio, refused, bounds>>

\* Mutant: send_outgoing() tries again until the packet fits.
WaitTimesOut_Retries(t) ==
    /\ at[t] = "send" /\ queued = QueueRoom
    /\ UNCHANGED vars

\* 100 ms have passed: the packet is dropped.
WaitTimesOut(t) ==
    /\ at[t] = "send" /\ queued = QueueRoom
    /\ AfterSend(t)
    /\ UNCHANGED <<job, locking, lora, bounds>>

-----------------------------------------------------------------------------
(* The main task. *)

\* Mutant: The Reticulum task is started before anything has been registered.
Boot_StartsFirst ==
    /\ at["main"] = "boot"
    /\ at' = [main |-> "mutex", reticulum |-> "idle"]
    /\ job' = [job EXCEPT !["main"] = "register"]
    /\ UNCHANGED <<locking, lora, bounds>>

\* app_main() registers the radio, which takes Transport's lock.
Boot ==
    /\ at["main"] = "boot"
    /\ Enters("main", "register")
    /\ UNCHANGED <<locking, lora, bounds>>

\* The rest of app_main(): the Reticulum task is spawned.
Registered ==
    /\ at["main"] = "register"
    /\ Give("main")
    /\ at' = [main |-> "idle", reticulum |-> "idle"]
    /\ UNCHANGED <<job, mutex, made, mine, lora, bounds>>

Announce ==
    /\ at["main"] = "idle" /\ announces < MaxAnnounces
    /\ announces' = announces + 1
    /\ Enters("main", "announce")
    /\ UNCHANGED <<locking, lora, tcpFrames, heard>>

\* A tick without an announce.
Poll ==
    /\ at["main"] = "idle"
    /\ GoTo("main", "drain")
    /\ UNCHANGED <<job, locking, lora, bounds>>

\* A command after which the radio may be in standby: standby(), or readData().
MayStandBy == radio' \in {radio, "standby"} /\ refused' = FALSE

\* startReceive(), of which poll() and drain_tx_queue() ignore the status: when it
\* is refused the radio does not listen, or only because it did before.
StartReceive ==
    \/ radio' = "rx" /\ refused' = FALSE
    \/ radio' \in {radio, "standby"} /\ refused' = TRUE

\* standby() and transmit(); the end of a transmission raises DIO1 as well.
Transmit ==
    /\ at["main"] = "drain" /\ queued > 0
    /\ queued' = queued - 1
    /\ MayStandBy
    /\ pending' \in {pending, TRUE}
    /\ GoTo("main", "sent")
    /\ UNCHANGED <<job, locking, bounds>>

Transmitted ==
    /\ at["main"] = "sent"
    /\ pending' = FALSE
    /\ StartReceive
    /\ GoTo("main", "drain")
    /\ UNCHANGED <<job, locking, queued, bounds>>

CheckRx ==
    /\ at["main"] = "drain" /\ queued = 0
    /\ pending' = FALSE
    /\ GoTo("main", IF pending THEN "read" ELSE "idle")
    /\ UNCHANGED <<job, locking, queued, radio, refused, bounds>>

\* The length is out of range.
BadLength ==
    /\ at["main"] = "read"
    /\ StartReceive
    /\ GoTo("main", "idle")
    /\ UNCHANGED <<job, locking, queued, pending, bounds>>

\* Mutant: A failed readData() returns without startReceive().
ReadFails_Returns ==
    /\ at["main"] = "read"
    /\ MayStandBy
    /\ GoTo("main", "idle")
    /\ UNCHANGED <<job, locking, queued, pending, bounds>>

\* readData() may leave the radio in standby, whether the frame is good or not.
ReadFails ==
    /\ at["main"] = "read"
    /\ MayStandBy
    /\ GoTo("main", "rearm")
    /\ UNCHANGED <<job, locking, queued, pending, bounds>>

ReadFrame ==
    /\ at["main"] = "read"
    /\ MayStandBy
    /\ Enters("main", "inbound")
    /\ UNCHANGED <<locking, queued, pending, bounds>>

Rearm ==
    /\ at["main"] = "rearm"
    /\ StartReceive
    /\ GoTo("main", "idle")
    /\ UNCHANGED <<job, locking, queued, pending, bounds>>

-----------------------------------------------------------------------------
(* The Reticulum task, and the radio. *)

\* run_once(): a frame from TCP.  The LoRa interface's loop() does nothing.
TcpFrame ==
    /\ at["reticulum"] = "idle" /\ tcpFrames < MaxTcpFrames
    /\ tcpFrames' = tcpFrames + 1
    /\ Enters("reticulum", "inbound")
    /\ UNCHANGED <<locking, lora, announces, heard>>

\* A frame is received and DIO1 raised.
Hear ==
    /\ radio = "rx" /\ heard < MaxHeard
    /\ heard' = heard + 1
    /\ pending' = TRUE
    /\ UNCHANGED <<at, job, locking, queued, radio, refused, announces, tcpFrames>>

-----------------------------------------------------------------------------
Calls(t) ==
    \/ GetMutex(t) \/ CreateMutex(t) \/ Take(t)
    \/ Broadcasts(t) \/ Snapshot(t) \/ Leave(t)
    \/ Enqueue(t) \/ WaitTimesOut(t)

MainTask ==
    \/ Calls("main")
    \/ Boot \/ Registered \/ Announce \/ Poll \/ Transmit \/ Transmitted
    \/ CheckRx \/ BadLength \/ ReadFails \/ ReadFrame \/ Rearm

ReticulumTask == Calls("reticulum") \/ TcpFrame

Next == MainTask \/ ReticulumTask \/ Hear

Spec == Init /\ [][Next]_vars

(* FreeRTOS runs every task that is ready, and time passes.                     *)
FairSpec == Spec /\ WF_vars(MainTask) /\ WF_vars(ReticulumTask)

-----------------------------------------------------------------------------
(* The types: one or two mutexes, taken twice at most, a queue that keeps to    *)
(* its room.                                                                    *)
TypeOK ==
    /\ at \in [Tasks -> Places] /\ job \in [Tasks -> Jobs]
    /\ mutex \in 0..2 /\ made \in 0..2 /\ mine \in [Tasks -> 0..2]
    /\ lock \in [Mutexes -> [owner : Tasks \cup {Nobody}, depth : 0..2]]
    /\ queued \in 0..QueueRoom /\ pending \in BOOLEAN
    /\ radio \in {"rx", "standby"} /\ refused \in BOOLEAN

Locked == {"register", "inside", "snapshot", "leave"}

(* Transport's tables are touched by one task at a time, although its mutex is  *)
(* created without synchronisation and broadcast() leaves a lock that inbound() *)
(* still needs.                                                                 *)
TransportIsExclusive ==
    \A t, u \in Tasks : at[t] \in Locked /\ at[u] \in Locked => t = u

(* Between two polls the radio listens, whichever way the last poll returned,   *)
(* unless the last thing poll() asked of it was to listen and it refused.       *)
RadioListens == at["main"] = "idle" => radio = "rx" \/ refused

(* The main task, the only one that empties the queue, comes round for ever,    *)
(* although it may wait for a lock whose holder waits for room in the queue.    *)
MainComesRound == []<>(at["main"] = "idle")
=============================================================================
