---------------------------- MODULE NodeTasksProofs ----------------------------
(***************************************************************************)
(* Proofs about the tasks.                                                 *)
(* NodeTasks: Transport's lock excludes, for any queue and any traffic.    *)
(* Registering the radio creates the one mutex before there is a second    *)
(* task, and its owner and depth are those of the one task that is at a    *)
(* place under the lock, twice in broadcast() inside inbound().            *)
(* ReticulumTask: one loop runs, for any number of callers and of loop     *)
(* tasks.  _running is a lock that exactly one claimant, a start past its  *)
(* exchange or a loop task that has not yet dropped it, holds; start hands *)
(* it to the task it spawns.                                               *)
(***************************************************************************)
EXTENDS NodeTasks, ReticulumTask, TLAPS

\* How many locks a task holds, by where it is.
Depth(t) ==
  CASE at[t] \in {"register", "inside", "leave"} -> 1
    [] at[t] = "snapshot" /\ job[t] = "announce" -> 1
    [] at[t] = "snapshot" /\ job[t] # "announce" -> 2
    [] at[t] = "send" /\ job[t] = "inbound"      -> 1
    [] OTHER                                     -> 0

Types ==
  /\ at \in [Tasks -> Places] /\ job \in [Tasks -> Jobs]
  /\ mine \in [Tasks -> 0..1]
  /\ lock \in [Mutexes -> [owner : Tasks \cup {Nobody}, depth : Nat]]

\* Before the radio is registered there is one task; afterwards one mutex.
Created ==
  /\ \/ mutex = 0 /\ made = 0 /\ at["main"] \in {"boot", "mutex", "create"}
     \/ mutex = 1 /\ made = 1 /\ at["main"] \notin {"boot", "create"}
  /\ at["main"] \in {"boot", "create", "register"} => at["reticulum"] = "off"
  /\ mutex = 0 => at["reticulum"] = "off"
  /\ at["main"] \in {"mutex", "take"} /\ job["main"] = "register"
       => at["reticulum"] = "off"
  /\ at["main"] = "create" => job["main"] = "register"
  /\ at["main"] = "mutex" /\ mutex = 0 => job["main"] = "register"
  /\ at["reticulum"] \notin {"boot", "create", "register"}
  /\ job["reticulum"] # "register"

\* Why a task is where it is, and that it uses the one mutex.
Placed ==
  \A t \in Tasks :
    /\ at[t] \in {"inside", "leave"} => job[t] = "inbound"
    /\ at[t] \in {"snapshot", "send"} => job[t] \in {"announce", "inbound"}
    /\ at[t] \in {"mutex", "create", "take"}
         => job[t] \in {"register", "announce", "inbound"}
    /\ at[t] = "register" => job[t] = "register"
    /\ at[t] = "take" \/ Depth(t) > 0 => mine[t] = 1

\* Owner and depth of the mutex are those of the task under the lock.
Owned ==
  /\ lock[1].owner = Nobody => lock[1].depth = 0
  /\ \A t \in Tasks : Depth(t) > 0 => lock[1].owner = t
  /\ \A t \in Tasks : lock[1].owner = t => Depth(t) > 0 /\ lock[1].depth = Depth(t)

LockInv == Types /\ Created /\ Placed /\ Owned

USE DEF Nobody, Tasks, Mutexes, Places, Jobs

LEMMA LockInvInit == Init => LockInv
  BY DEF Init, LockInv, Types, Created, Placed, Owned, Depth

LEMMA LockInvStep == LockInv /\ [Next]_vars => LockInv'
<1> SUFFICES ASSUME LockInv, [Next]_vars PROVE LockInv'
  OBVIOUS
<1> USE DEF LockInv, Types, Created, Placed, Owned, Depth, GoTo, Enters, Give,
            Returns, AfterSend, locking, lora, bounds
<1>1. ASSUME NEW t \in Tasks, GetMutex(t) PROVE LockInv'
  BY <1>1 DEF GetMutex
<1>2. ASSUME NEW t \in Tasks, CreateMutex(t) PROVE LockInv'
  BY <1>2 DEF CreateMutex
<1>3. ASSUME NEW t \in Tasks, Take(t) PROVE LockInv'
  <2>1. mine[t] = 1 /\ at[t] = "take" /\ Depth(t) = 0 /\ lock[1].owner # t
    BY <1>3 DEF Take
  <2>2. lock[1].owner = Nobody /\ lock[1].depth = 0
    BY <1>3, <2>1 DEF Take
  <2>3. lock' = [lock EXCEPT ![1] = [owner |-> t, depth |-> 1]]
    BY <1>3, <2>1, <2>2 DEF Take
  <2>4. CASE job[t] = "register"
    <3>1. at' = [at EXCEPT ![t] = "register"] /\ UNCHANGED <<job, mutex, made, mine>>
      BY <1>3, <2>4 DEF Take
    <3>2. t = "main" /\ at["reticulum"] = "off" /\ mutex = 1
      BY <2>1, <2>4
    <3>3. Created' /\ Placed' /\ Types'
      BY <2>1, <2>3, <2>4, <3>1, <3>2
    <3>4. Owned'
      BY <2>1, <2>2, <2>3, <2>4, <3>1, <3>2
    <3> QED
      BY <3>3, <3>4
  <2>5. CASE job[t] = "announce"
    BY <1>3, <2>1, <2>2, <2>3, <2>5 DEF Take
  <2>6. CASE job[t] = "inbound"
    BY <1>3, <2>1, <2>2, <2>3, <2>6 DEF Take
  <2> QED
    BY <2>1, <2>4, <2>5, <2>6
<1>4. ASSUME NEW t \in Tasks, Broadcasts(t) PROVE LockInv'
  BY <1>4 DEF Broadcasts
<1>5. ASSUME NEW t \in Tasks, Snapshot(t) PROVE LockInv'
  <2>1. mine[t] = 1 /\ at[t] = "snapshot" /\ lock[1].owner = t
    BY <1>5 DEF Snapshot
  <2>2. CASE job[t] = "announce"
    <3>1. lock' = [lock EXCEPT ![1] = [owner |-> Nobody, depth |-> 0]]
      BY <1>5, <2>1, <2>2 DEF Snapshot
    <3> QED
      BY <1>5, <2>1, <2>2, <3>1 DEF Snapshot
  <2>3. CASE job[t] = "inbound"
    <3>1. lock[1].depth = 2 /\ lock[1] \in [owner : Tasks \cup {Nobody}, depth : Nat]
      BY <2>1, <2>3
    <3>2. lock' = [lock EXCEPT ![1] = [owner |-> t, depth |-> 1]]
      BY <1>5, <2>1, <3>1 DEF Snapshot
    <3> QED
      BY <1>5, <2>1, <2>3, <3>1, <3>2 DEF Snapshot
  <2> QED
    BY <2>1, <2>2, <2>3
<1>6. ASSUME NEW t \in Tasks, Leave(t) PROVE LockInv'
  BY <1>6 DEF Leave
<1>7. ASSUME NEW t \in Tasks, Enqueue(t) PROVE LockInv'
  BY <1>7 DEF Enqueue
<1>8. ASSUME NEW t \in Tasks, WaitTimesOut(t) PROVE LockInv'
  BY <1>8 DEF WaitTimesOut
<1>9. CASE Boot
  BY <1>9 DEF Boot
<1>10. CASE Registered
  BY <1>10 DEF Registered
<1>11. CASE Announce
  BY <1>11 DEF Announce
<1>12. CASE Poll
  BY <1>12 DEF Poll
<1>13. CASE Transmit
  BY <1>13 DEF Transmit
<1>14. CASE Transmitted
  BY <1>14 DEF Transmitted
<1>15. CASE CheckRx
  BY <1>15 DEF CheckRx
<1>16. CASE BadLength
  BY <1>16 DEF BadLength
<1>17. CASE ReadFails
  BY <1>17 DEF ReadFails
<1>18. CASE ReadFrame
  BY <1>18 DEF ReadFrame
<1>19. CASE Rearm
  BY <1>19 DEF Rearm
<1>20. CASE TcpFrame
  BY <1>20 DEF TcpFrame
<1>21. CASE Hear
  BY <1>21 DEF Hear
<1>22. CASE UNCHANGED vars
  BY <1>22 DEF vars
<1> QED
  BY <1>1, <1>2, <1>3, <1>4, <1>5, <1>6, <1>7, <1>8, <1>9, <1>10, <1>11, <1>12,
     <1>13, <1>14, <1>15, <1>16, <1>17, <1>18, <1>19, <1>20, <1>21, <1>22
  DEF Next, MainTask, ReticulumTask, Calls

\* TransportIsExclusiveHolds: two tasks are never inside Transport at once.
THEOREM TransportIsExclusiveHolds == Spec => []TransportIsExclusive
<1>1. LockInv => TransportIsExclusive
  BY DEF LockInv, Types, Owned, Depth, TransportIsExclusive, Locked, Placed
<1> QED
  BY LockInvInit, LockInvStep, <1>1, PTL DEF Spec

\* The second mutex is never made, the queue has room, and a radio in standby is
\* about to be told to listen, or has just refused to.
Rest ==
  /\ lock[2] = [owner |-> Nobody, depth |-> 0]
  /\ queued \in 0..QueueRoom /\ pending \in BOOLEAN
  /\ radio \in {"rx", "standby"} /\ refused \in BOOLEAN
  /\ radio = "standby" => \/ refused
                          \/ at["main"] \in {"sent", "rearm"}
                          \/ /\ at["main"] \in {"mutex", "take", "inside", "snapshot",
                                                "send", "leave"}
                             /\ job["main"] = "inbound"

LEMMA RestInit == Init => Rest
<1> SUFFICES ASSUME Init PROVE Rest
  OBVIOUS
<1>1. lock[2] = [owner |-> Nobody, depth |-> 0]
  BY 2 \in Mutexes DEF Init
<1>2. queued \in 0..QueueRoom
  BY QueueRoomAssumption DEF Init
<1> QED
  BY <1>1, <1>2 DEF Init, Rest

LEMMA RestStep == LockInv /\ Rest /\ [Next]_vars => Rest'
<1> SUFFICES ASSUME LockInv, Rest, [Next]_vars PROVE Rest'
  OBVIOUS
<1> USE QueueRoomAssumption
    DEF LockInv, Types, Created, Placed, Rest, Depth, GoTo, Enters, Give, Returns,
        AfterSend, MayStandBy, StartReceive, locking, lora, bounds
<1>1. ASSUME NEW t \in Tasks, GetMutex(t) PROVE Rest'
  BY <1>1 DEF GetMutex
<1>2. ASSUME NEW t \in Tasks, CreateMutex(t) PROVE Rest'
  BY <1>2 DEF CreateMutex
<1>3. ASSUME NEW t \in Tasks, Take(t) PROVE Rest'
  BY <1>3 DEF Take
<1>4. ASSUME NEW t \in Tasks, Broadcasts(t) PROVE Rest'
  BY <1>4 DEF Broadcasts
<1>5. ASSUME NEW t \in Tasks, Snapshot(t) PROVE Rest'
  BY <1>5 DEF Snapshot
<1>6. ASSUME NEW t \in Tasks, Leave(t) PROVE Rest'
  BY <1>6 DEF Leave
<1>7. ASSUME NEW t \in Tasks, Enqueue(t) PROVE Rest'
  BY <1>7 DEF Enqueue
<1>8. ASSUME NEW t \in Tasks, WaitTimesOut(t) PROVE Rest'
  BY <1>8 DEF WaitTimesOut
<1>9. CASE Boot
  BY <1>9 DEF Boot
<1>10. CASE Registered
  BY <1>10 DEF Registered
<1>11. CASE Announce
  BY <1>11 DEF Announce
<1>12. CASE Poll
  BY <1>12 DEF Poll
<1>13. CASE Transmit
  <2>1. at' = [at EXCEPT !["main"] = "sent"] /\ UNCHANGED lock
    BY <1>13 DEF Transmit
  <2>2. queued' \in 0..QueueRoom
    BY <1>13 DEF Transmit
  <2>3. pending' \in BOOLEAN /\ radio' \in {"rx", "standby"} /\ refused' \in BOOLEAN
    BY <1>13 DEF Transmit
  <2> QED
    BY <2>1, <2>2, <2>3
<1>14. CASE Transmitted
  BY <1>14 DEF Transmitted
<1>15. CASE CheckRx
  BY <1>15 DEF CheckRx
<1>16. CASE BadLength
  BY <1>16 DEF BadLength
<1>17. CASE ReadFails
  BY <1>17 DEF ReadFails
<1>18. CASE ReadFrame
  BY <1>18 DEF ReadFrame
<1>19. CASE Rearm
  BY <1>19 DEF Rearm
<1>20. CASE TcpFrame
  BY <1>20 DEF TcpFrame
<1>21. CASE Hear
  BY <1>21 DEF Hear
<1>22. CASE UNCHANGED vars
  BY <1>22 DEF vars
<1> QED
  BY <1>1, <1>2, <1>3, <1>4, <1>5, <1>6, <1>7, <1>8, <1>9, <1>10, <1>11, <1>12,
     <1>13, <1>14, <1>15, <1>16, <1>17, <1>18, <1>19, <1>20, <1>21, <1>22
  DEF Next, MainTask, ReticulumTask, Calls

\* RadioListensHolds: whenever the main task is between two polls the radio is
\* receiving, or the last command it was given was a startReceive() it refused (its
\* status is ignored, lora_interface.cpp), for any traffic and whatever else fails.
THEOREM RadioListensHolds == Spec => []RadioListens
<1>1. LockInv /\ Rest => RadioListens
  BY DEF Rest, RadioListens
<1> QED
  BY LockInvInit, LockInvStep, RestInit, RestStep, <1>1, PTL DEF Spec

\* TypeCorrect: every variable keeps its type; the queue holds no more than it
\* has room for, and a lock is taken twice at most.
THEOREM TypeCorrect == Spec => []TypeOK
<1>1. LockInv /\ Rest => TypeOK
  BY DEF LockInv, Types, Created, Owned, Depth, Rest, TypeOK
<1> QED
  BY LockInvInit, LockInvStep, RestInit, RestStep, <1>1, PTL DEF Spec

-----------------------------------------------------------------------------
(* ReticulumTask *)

Claiming(c) == pc[c] \in {"clear", "spawn", "undo"}
Looping(t) == loop[t] \in InLoop

\* At most one claimant, of either kind, and running is set exactly for it.
Claim ==
  /\ \A c, d \in Callers : Claiming(c) /\ Claiming(d) => c = d
  /\ \A t, u \in Slots : Looping(t) /\ Looping(u) => t = u
  /\ \A c \in Callers, t \in Slots : ~(Claiming(c) /\ Looping(t))
  /\ running <=> (\E c \in Callers : Claiming(c)) \/ (\E t \in Slots : Looping(t))

ClaimInv == LoopTypeOK /\ Claim

\* LoopTypeCorrect: every step keeps every variable in its type.
THEOREM LoopTypeCorrect == LoopSpec => []LoopTypeOK
<1>1. LoopInit => LoopTypeOK
  BY DEF LoopInit, LoopTypeOK, CallerPc, LoopPc, Asked
<1>2. LoopTypeOK /\ [LoopNext]_loopVars => LoopTypeOK'
  <2> SUFFICES ASSUME LoopTypeOK, [LoopNext]_loopVars PROVE LoopTypeOK'
    OBVIOUS
  <2> USE DEF LoopTypeOK, CallerPc, LoopPc, Asked
  <2>1. ASSUME NEW c \in Callers, Start(c) PROVE LoopTypeOK'
    BY <2>1 DEF Start, Exchange
  <2>2. ASSUME NEW c \in Callers, ClearStop(c) PROVE LoopTypeOK'
    BY <2>2 DEF ClearStop, Cleared
  <2>3. ASSUME NEW c \in Callers, Spawn(c) PROVE LoopTypeOK'
    BY <2>3 DEF Spawn
  <2>4. ASSUME NEW c \in Callers, SpawnFails(c) PROVE LoopTypeOK'
    BY <2>4 DEF SpawnFails
  <2>5. ASSUME NEW c \in Callers, UndoStart(c) PROVE LoopTypeOK'
    BY <2>5 DEF UndoStart
  <2>6. ASSUME NEW c \in Callers, Stop(c) PROVE LoopTypeOK'
    BY <2>6 DEF Stop
  <2>7. ASSUME NEW t \in Slots, Test(t) PROVE LoopTypeOK'
    BY <2>7 DEF Test
  <2>8. ASSUME NEW t \in Slots, Step(t) PROVE LoopTypeOK'
    BY <2>8 DEF Step
  <2>9. ASSUME NEW t \in Slots, LeaveLoop(t) PROVE LoopTypeOK'
    BY <2>9 DEF LeaveLoop
  <2>10. ASSUME NEW t \in Slots, Return(t) PROVE LoopTypeOK'
    BY <2>10 DEF Return
  <2>11. CASE UNCHANGED loopVars
    BY <2>11 DEF loopVars
  <2> QED
    BY <2>1, <2>2, <2>3, <2>4, <2>5, <2>6, <2>7, <2>8, <2>9, <2>10, <2>11
       DEF LoopNext, StartStep, LoopStep
<1> QED
  BY <1>1, <1>2, PTL DEF LoopSpec

\* ClaimHolds: _running has at most one claimant, in every reachable state.
LEMMA ClaimHolds == LoopSpec => []ClaimInv
<1>1. LoopInit => ClaimInv
  BY DEF LoopInit, ClaimInv, LoopTypeOK, CallerPc, LoopPc, Asked, Claim, Claiming, Looping, InLoop
<1>2. LoopTypeOK /\ Claim /\ [LoopNext]_loopVars => Claim'
  <2> SUFFICES ASSUME LoopTypeOK, Claim, [LoopNext]_loopVars PROVE Claim'
    OBVIOUS
  <2> USE DEF LoopTypeOK, Claim, Claiming, Looping, InLoop
  <2>1. ASSUME NEW c \in Callers, Start(c) PROVE Claim'
    BY <2>1 DEF Start, Exchange
  <2>2. ASSUME NEW c \in Callers, ClearStop(c) PROVE Claim'
    BY <2>2 DEF ClearStop
  <2>3. ASSUME NEW c \in Callers, Spawn(c) PROVE Claim'
    BY <2>3 DEF Spawn
  <2>4. ASSUME NEW c \in Callers, SpawnFails(c) PROVE Claim'
    BY <2>4 DEF SpawnFails
  <2>5. ASSUME NEW c \in Callers, UndoStart(c) PROVE Claim'
    BY <2>5 DEF UndoStart
  <2>6. ASSUME NEW c \in Callers, Stop(c) PROVE Claim'
    BY <2>6 DEF Stop
  <2>7. ASSUME NEW t \in Slots, Test(t) PROVE Claim'
    BY <2>7 DEF Test
  <2>8. ASSUME NEW t \in Slots, Step(t) PROVE Claim'
    BY <2>8 DEF Step
  <2>9. ASSUME NEW t \in Slots, LeaveLoop(t) PROVE Claim'
    BY <2>9 DEF LeaveLoop
  <2>10. ASSUME NEW t \in Slots, Return(t) PROVE Claim'
    BY <2>10 DEF Return
  <2>11. CASE UNCHANGED loopVars
    BY <2>11 DEF loopVars
  <2> QED
    BY <2>1, <2>2, <2>3, <2>4, <2>5, <2>6, <2>7, <2>8, <2>9, <2>10, <2>11
       DEF LoopNext, StartStep, LoopStep
<1> QED
  BY <1>1, <1>2, LoopTypeCorrect, PTL DEF LoopSpec, ClaimInv

\* OneLoopHolds: two loop tasks never pump the interfaces at the same time.
THEOREM OneLoopHolds == LoopSpec => []OneLoop
<1>1. ClaimInv => OneLoop
  BY DEF ClaimInv, Claim, Looping, OneLoop
<1> QED
  BY <1>1, ClaimHolds, PTL

\* RunningIsOwnedHolds: _running is set exactly while somebody will clear it.
THEOREM RunningIsOwnedHolds == LoopSpec => []RunningIsOwned
<1>1. ClaimInv => RunningIsOwned
  BY DEF ClaimInv, Claim, Claiming, Looping, RunningIsOwned
<1> QED
  BY <1>1, ClaimHolds, PTL

\* StartedStaysUpHolds: a loop that was started and not stopped stays up.
THEOREM StartedStaysUpHolds == LoopSpec => []StartedStaysUp
<1>1. LoopInit => StartedStaysUp
  BY DEF LoopInit, StartedStaysUp
<1>2. ClaimInv /\ StartedStaysUp /\ [LoopNext]_loopVars => StartedStaysUp'
  <2> SUFFICES ASSUME ClaimInv, StartedStaysUp, [LoopNext]_loopVars PROVE StartedStaysUp'
    OBVIOUS
  <2> USE DEF ClaimInv, LoopTypeOK, Claim, Claiming, Looping, InLoop, StartedStaysUp
  <2>1. ASSUME NEW c \in Callers, Start(c) PROVE StartedStaysUp'
    BY <2>1 DEF Start, Exchange
  <2>2. ASSUME NEW c \in Callers, ClearStop(c) PROVE StartedStaysUp'
    BY <2>2 DEF ClearStop, Cleared
  <2>3. ASSUME NEW c \in Callers, Spawn(c) PROVE StartedStaysUp'
    BY <2>3 DEF Spawn
  <2>4. ASSUME NEW c \in Callers, SpawnFails(c) PROVE StartedStaysUp'
    BY <2>4 DEF SpawnFails
  <2>5. ASSUME NEW c \in Callers, UndoStart(c) PROVE StartedStaysUp'
    BY <2>5 DEF UndoStart
  <2>6. ASSUME NEW c \in Callers, Stop(c) PROVE StartedStaysUp'
    BY <2>6 DEF Stop
  <2>7. ASSUME NEW t \in Slots, Test(t) PROVE StartedStaysUp'
    BY <2>7 DEF Test, StopSeen
  <2>8. ASSUME NEW t \in Slots, Step(t) PROVE StartedStaysUp'
    BY <2>8 DEF Step
  <2>9. ASSUME NEW t \in Slots, LeaveLoop(t) PROVE StartedStaysUp'
    BY <2>9 DEF LeaveLoop
  <2>10. ASSUME NEW t \in Slots, Return(t) PROVE StartedStaysUp'
    BY <2>10 DEF Return
  <2>11. CASE UNCHANGED loopVars
    BY <2>11 DEF loopVars
  <2> QED
    BY <2>1, <2>2, <2>3, <2>4, <2>5, <2>6, <2>7, <2>8, <2>9, <2>10, <2>11
       DEF LoopNext, StartStep, LoopStep
<1> QED
  BY <1>1, <1>2, ClaimHolds, PTL DEF LoopSpec

=============================================================================
