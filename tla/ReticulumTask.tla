----------------------------- MODULE ReticulumTask -----------------------------
(***************************************************************************)
(* RNS::Reticulum (src/src/reticulum.cpp): start and stop of the           *)
(* background loop, called from any task, and the loop task itself.  The   *)
(* flags are std::atomic; each access is one step, the rest of a call runs *)
(* between them.  is_running() is a load of running.                       *)
(***************************************************************************)
EXTENDS Naturals

CONSTANTS
  Callers,  \* tasks that call start and stop
  Slots     \* loop tasks alive at a time, those about to return included

VARIABLES
  running,     \* _running
  stopreq,     \* _stop_requested
  pc,          \* [Callers -> where in start the caller is]
  loop,        \* [Slots -> where in task_entry the loop task is]
  owed,        \* history: a start has begun and nothing has stopped it since
  asked        \* history: was stop called on a loop that has not ended since?

loopVars == <<running, stopreq, pc, loop, owed, asked>>

\* start, after the exchange: clear the stop request, spawn, undo a failed spawn.
CallerPc == {"idle", "clear", "spawn", "undo"}

\* task_entry: test the request, run_once, sleep, drop _running, return.
LoopPc == {"free", "test", "run_once", "delay", "leave", "return"}

\* A raced stop came while another task was between start's exchange and its
\* clearing of the stop request, which forgets the stop.
Asked == {"no", "asked", "raced"}

InLoop == {"test", "run_once", "delay", "leave"}

----------------------------------------------------------------------------
(* Reticulum::start *)

Exchange_Unchecked(c) ==
  /\ running' = TRUE
  /\ pc' = [pc EXCEPT ![c] = "clear"]

\* _running.exchange(true): whoever finds it false goes on, the others return.
Exchange(c) ==
  IF running THEN UNCHANGED <<running, pc>>
  ELSE running' = TRUE /\ pc' = [pc EXCEPT ![c] = "clear"]

Start(c) ==
  /\ pc[c] = "idle"
  /\ Exchange(c)
  /\ UNCHANGED <<stopreq, loop, owed, asked>>

Cleared_Forgotten(c) == stopreq

Cleared(c) == FALSE

ClearStop(c) ==
  /\ pc[c] = "clear"
  /\ stopreq' = Cleared(c)
  /\ pc' = [pc EXCEPT ![c] = "spawn"]
  /\ owed' = TRUE
  /\ UNCHANGED <<running, loop, asked>>

Spawn(c) ==
  /\ pc[c] = "spawn"
  /\ \E t \in Slots :
       /\ loop[t] = "free"
       /\ loop' = [loop EXCEPT ![t] = "test"]
  /\ pc' = [pc EXCEPT ![c] = "idle"]
  /\ UNCHANGED <<running, stopreq, owed, asked>>

\* rt_hal_task_spawn returned a null pointer.
SpawnFails(c) ==
  /\ pc[c] = "spawn"
  /\ pc' = [pc EXCEPT ![c] = "undo"]
  /\ owed' = FALSE
  /\ UNCHANGED <<running, stopreq, loop, asked>>

UndoStart(c) ==
  /\ pc[c] = "undo"
  /\ running' = FALSE
  /\ pc' = [pc EXCEPT ![c] = "idle"]
  /\ asked' = "no"
  /\ UNCHANGED <<stopreq, loop, owed>>

----------------------------------------------------------------------------
(* Reticulum::stop *)

Stop(c) ==
  /\ pc[c] = "idle"
  /\ stopreq' = TRUE
  /\ owed' = FALSE
  /\ asked' = IF ~running THEN "no"
              ELSE IF \E d \in Callers : pc[d] = "clear" THEN "raced" ELSE "asked"
  /\ UNCHANGED <<running, pc, loop>>

----------------------------------------------------------------------------
(* The loop task *)

StopSeen_WhenNotRunning(t) == stopreq /\ ~running

\* The condition of the while loop.
StopSeen(t) == stopreq

Test(t) ==
  /\ loop[t] = "test"
  /\ loop' = [loop EXCEPT ![t] = IF StopSeen(t) THEN "leave" ELSE "run_once"]
  /\ UNCHANGED <<running, stopreq, pc, owed, asked>>

Step(t) ==
  /\ \/ loop[t] = "run_once" /\ loop' = [loop EXCEPT ![t] = "delay"]
     \/ loop[t] = "delay" /\ loop' = [loop EXCEPT ![t] = "test"]
  /\ UNCHANGED <<running, stopreq, pc, owed, asked>>

LeaveLoop(t) ==
  /\ loop[t] = "leave"
  /\ running' = FALSE
  /\ asked' = "no"
  /\ loop' = [loop EXCEPT ![t] = "return"]
  /\ UNCHANGED <<stopreq, pc, owed>>

\* The task function returns and the task is gone.  (A POSIX thread may do so; a
\* FreeRTOS task must not, see the README.)
Return(t) ==
  /\ loop[t] = "return"
  /\ loop' = [loop EXCEPT ![t] = "free"]
  /\ UNCHANGED <<running, stopreq, pc, owed, asked>>

----------------------------------------------------------------------------
LoopInit ==
  /\ running = FALSE /\ stopreq = FALSE
  /\ pc = [c \in Callers |-> "idle"]
  /\ loop = [t \in Slots |-> "free"]
  /\ owed = FALSE /\ asked = "no"

StartStep(c) == ClearStop(c) \/ Spawn(c) \/ SpawnFails(c) \/ UndoStart(c)
LoopStep(t) == Test(t) \/ Step(t) \/ LeaveLoop(t) \/ Return(t)

LoopNext ==
  \/ \E c \in Callers : Start(c) \/ StartStep(c) \/ Stop(c)
  \/ \E t \in Slots : LoopStep(t)

LoopSpec == LoopInit /\ [][LoopNext]_loopVars

\* The scheduler runs every task that is ready.
Fairness ==
  /\ \A c \in Callers : WF_loopVars(StartStep(c))
  /\ \A t \in Slots : WF_loopVars(LoopStep(t))

FairLoopSpec == LoopSpec /\ Fairness

----------------------------------------------------------------------------
(* Properties *)

\* LoopTypeOK: every variable has its type.
LoopTypeOK ==
  /\ running \in BOOLEAN /\ stopreq \in BOOLEAN
  /\ pc \in [Callers -> CallerPc]
  /\ loop \in [Slots -> LoopPc]
  /\ owed \in BOOLEAN /\ asked \in Asked

\* OneLoop: however starts, stops and failed spawns of several tasks mix, two
\* loop tasks never pump the interfaces at the same time (run_once walks
\* Transport::interfaces() without the lock, "single-threaded by design").
OneLoop ==
  \A t, u \in Slots : loop[t] \in InLoop /\ loop[u] \in InLoop => t = u

\* StartedStaysUp: from the moment a start clears the stop request until
\* somebody calls stop or the spawn fails, the loop runs or is about to, and no
\* stale request is there to end it.
StartedStaysUp ==
  owed => /\ ~stopreq
          /\ \/ \E c \in Callers : pc[c] = "spawn"
             \/ \E t \in Slots : loop[t] \in InLoop \ {"leave"}

\* RunningIsOwned: _running is set only while a start or a loop task is there
\* that will clear it, so no sequence of calls leaves start refusing for ever.
RunningIsOwned ==
  running <=> \/ \E c \in Callers : pc[c] \in {"clear", "spawn", "undo"}
              \/ \E t \in Slots : loop[t] \in InLoop

\* StopEndsLoop: reticulum.h says stop will "Signal the loop task to exit": a stop
\* on a running loop is followed by its end, whatever other starts and stops
\* come in between.  (A raced stop is not: start forgets it.)
StopEndsLoop == asked = "asked" ~> asked = "no"

=============================================================================
