------------------------ MODULE AutotradeSessionProofs ------------------------
(***************************************************************************)
(* What AutotradeSession promises for any number of tasks, entries, edits  *)
(* and restarts: its types, OneLoop, SessionConfig and StopIsDurable, and  *)
(* that it implements OrderPermits.                                        *)
(*                                                                         *)
(* They need each other.  That no old cycle brings an old configuration    *)
(* back rests on every cycle in flight having copied one that is as young  *)
(* as the session (CyclesAreOfTheSession), and this survives a start       *)
(* because the only loop alive is the one the start cancels (OneLoop).     *)
(* That a stop is durable rests on the snapshot never saying "running"     *)
(* after it, and nothing that is on its way there (OffOnDisk), although    *)
(* cycles and other handlers write it too: they put together what is in    *)
(* memory, and memory says "running" only if the session was switched on   *)
(* last (RunningIsOn).                                                     *)
(***************************************************************************)
EXTENDS AutotradeSession, TLAPS

InCycle(r) == r.pc \notin {"done", "asleep"}

CyclesAreOfTheSession == \A t \in Tasks : InCycle(task[t]) => task[t].cfg >= began

RunningIsOn == running => last = "on"

\* A stop that is on the disk is so for all that is on its way there.
OffOnDisk == last = "stopped" =>
    /\ saved.running = FALSE
    /\ \A w \in Savers : \A p \in drafts[w] : p.running = FALSE

LoopInv == OneLoop /\ CyclesAreOfTheSession

\* The save of a stop that is under way says "off".
OffUnderWay == last \in Savers => \A p \in drafts[last] : p.running = FALSE

OffInv == RunningIsOn /\ OffOnDisk /\ OffUnderWay

SessionInv == TypeOK /\ SessionConfig /\ began <= edits /\ LoopInv /\ OffInv

-----------------------------------------------------------------------------
(* Tasks and snapshots.                                                     *)

LEMMA Records == Done \in Loop /\ Asleep \in Loop /\ ~InCycle(Done) /\ ~InCycle(Asleep)
  BY DEF Done, Asleep, Fresh, Loop, NoConfig, InCycle

\* A cycle step changes the record of one live task.
LEMMA CycleTask ==
  ASSUME task \in [Tasks -> Loop], LoopInv,
         NEW t \in Tasks, Alive(t), NEW r \in Loop,
         task' = [task EXCEPT ![t] = r], cur' = cur, began' = began,
         InCycle(r) => r.cfg >= began
  PROVE  task' \in [Tasks -> Loop] /\ LoopInv'
  BY DEF LoopInv, OneLoop, CyclesAreOfTheSession, Alive

\* A loop created while none is alive is the only one, and is in no cycle.
LEMMA NewTask ==
  ASSUME NEW tasks \in [Tasks -> Loop], \A t \in Tasks : tasks[t].pc = "done",
         CreateTask(tasks)
  PROVE  task' \in [Tasks -> Loop] /\ cur' \in Tasks \cup {NoTask} /\ LoopInv'
<1>1. PICK t \in Tasks : task' = [tasks EXCEPT ![t] = Asleep] /\ cur' = t
  BY DEF CreateTask
<1>2. task' \in [Tasks -> Loop]
  BY <1>1, Records
<1>3. \A u \in Tasks : u # t => task'[u].pc = "done"
  BY <1>1
<1>4. task'[t] = Asleep
  BY <1>1
<1>5. OneLoop'
  BY <1>1, <1>3 DEF OneLoop, Alive
<1>6. CyclesAreOfTheSession'
  BY <1>3, <1>4, Records DEF CyclesAreOfTheSession, InCycle
<1> QED
  BY <1>1, <1>2, <1>5, <1>6 DEF LoopInv

\* No task is alive where the known one is done.
LEMMA NoneAlive ==
  ASSUME OneLoop, CurDone, NoTask \notin Tasks
  PROVE  \A t \in Tasks : task[t].pc = "done"
  BY DEF OneLoop, CurDone, Alive

\* No task is alive once the known one is cancelled.
LEMMA CancelledAll ==
  ASSUME task \in [Tasks -> Loop], cur \in Tasks \cup {NoTask}, OneLoop
  PROVE  Cancelled \in [Tasks -> Loop] /\ \A t \in Tasks : Cancelled[t].pc = "done"
<1>1. CASE CurDone
  BY <1>1, NoneAlive, SessionAssumption DEF Cancelled
<1>2. CASE ~CurDone
  <2>1. cur \in Tasks /\ Cancelled = [task EXCEPT ![cur] = Done]
    BY <1>2 DEF Cancelled, CurDone
  <2>2. Done \in Loop /\ Done.pc = "done"
    BY Records DEF Done, Fresh
  <2> QED
    BY <2>1, <2>2 DEF OneLoop, Alive
<1> QED
  BY <1>1, <1>2

LEMMA SaverFacts == "loop" \in Savers /\ "thread" \in Savers
  BY DEF Savers

LEMMA SnapshotFacts ==
  /\ Unreadable \in Snapshot /\ Unreadable.running = FALSE
  /\ NoDrafts \in [Savers -> SUBSET Snapshot]
  /\ \A w \in Savers : \A p \in NoDrafts[w] : p.running = FALSE
  BY DEF Unreadable, Snapshot, NoDrafts, NoConfig

LastValues == {"on", "stopping", "stopped", "failed", "unsaved"} \cup Savers

\* What is put together says what the memory says.
LEMMA Payloads ==
  ASSUME TypeOK, running' \in BOOLEAN, config' \in Nat
  PROVE  Payload \in Snapshot /\ Payload.running = running'
<1>1. saved.config \in Nat
  BY DEF TypeOK, Snapshot
<1> QED
  BY <1>1 DEF Payload, Snapshot

\* What a save leaves on the disk and on its way there.
LEMMA Saves ==
  ASSUME TypeOK, NEW w \in Savers, running' \in BOOLEAN, config' \in Nat,
         ForcedSave(w) \/ UNCHANGED disk
  PROVE  /\ saved' \in Snapshot /\ drafts' \in [Savers -> SUBSET Snapshot]
         /\ saved' = saved
         /\ \A v \in Savers : \A p \in drafts'[v] : p \in drafts[v] \/ p.running = running'
<1>0. saved \in Snapshot /\ drafts \in [Savers -> SUBSET Snapshot]
  BY DEF TypeOK
<1>1. CASE UNCHANGED disk
  BY <1>0, <1>1 DEF disk
<1>2. CASE ForcedSave(w)
  <2>1. Payload \in Snapshot /\ Payload.running = running'
    BY Payloads
  <2>2. saved' = saved /\ drafts' = [drafts EXCEPT ![w] = {Payload}]
    BY <1>2, Zenon DEF ForcedSave
  <2> HIDE DEF Payload
  <2> QED
    BY <1>0, <2>1, <2>2
<1> QED
  BY <1>1, <1>2

\* The disk keeps saying "off" whoever saves.
LEMMA OffStays ==
  ASSUME TypeOK, OffInv, NEW w \in Savers, running' \in BOOLEAN, config' \in Nat,
         ForcedSave(w) \/ UNCHANGED disk,
         running' => last' = "on", last' = "stopped" => last = "stopped",
         last' \in Savers => last' = last \/ (last' = w /\ ForcedSave(w))
  PROVE  OffInv'
<1>1. RunningIsOn'
  BY DEF RunningIsOn
<1>2. ASSUME last' = "stopped"
      PROVE  saved'.running = FALSE /\ \A v \in Savers : \A p \in drafts'[v] : p.running = FALSE
  <2>1. running' = FALSE
    BY <1>2
  <2>2. saved.running = FALSE /\ \A v \in Savers : \A p \in drafts[v] : p.running = FALSE
    BY <1>2 DEF OffInv, OffOnDisk
  <2> QED
    BY <2>1, <2>2, Saves
<1>3. ASSUME last' \in Savers PROVE \A p \in drafts'[last'] : p.running = FALSE
  <2>1. running' = FALSE
    BY <1>3 DEF Savers
  <2>2. CASE last' = last
    <3>1. \A p \in drafts[last] : p.running = FALSE
      BY <1>3, <2>2 DEF OffInv, OffUnderWay
    <3> QED
      BY <1>3, <2>1, <2>2, <3>1, Saves
  <2>3. CASE last' = w /\ ForcedSave(w)
    <3>1. drafts'[w] = {Payload}
      BY <2>3 DEF ForcedSave, TypeOK
    <3>2. Payload.running = running'
      BY Payloads
    <3> QED
      BY <2>1, <2>3, <3>1, <3>2
  <2> QED
    BY <1>3, <2>2, <2>3
<1> QED
  BY <1>1, <1>2, <1>3 DEF OffInv, OffOnDisk, OffUnderWay

-----------------------------------------------------------------------------
(* The handlers.                                                            *)

LEMMA InitInv == Init => SessionInv
<1> SUFFICES ASSUME Init PROVE SessionInv
  OBVIOUS
<1>1. task \in [Tasks -> Loop] /\ \A t \in Tasks : task[t].pc = "done"
  BY Records DEF Init, Done, Fresh
<1>2. TypeOK
  <2>1. qty \in Nat
    BY SessionAssumption DEF Init
  <2>2. saved \in Snapshot /\ drafts \in [Savers -> SUBSET Snapshot]
    BY SnapshotFacts DEF Init
  <2> QED
    BY <1>1, <2>1, <2>2 DEF Init, TypeOK, NoConfig, Defaults
<1>3. LoopInv
  BY <1>1 DEF LoopInv, OneLoop, CyclesAreOfTheSession, Alive, InCycle
<1>4. OffInv
  BY SnapshotFacts DEF Init, OffInv, RunningIsOn, OffOnDisk, OffUnderWay, Savers
<1> QED
  BY <1>2, <1>3, <1>4 DEF Init, SessionInv, SessionConfig, NoConfig, Defaults

\* Where a task is created only if the known one is done, or nothing happens to tasks.
LEMMA NewTaskIfDone ==
  ASSUME TypeOK, LoopInv, CurDone, CreateTask(task)
  PROVE  task' \in [Tasks -> Loop] /\ cur' \in Tasks \cup {NoTask} /\ LoopInv'
<1>1. \A t \in Tasks : task[t].pc = "done"
  BY NoneAlive, SessionAssumption DEF LoopInv
<1> QED
  BY <1>1, NewTask DEF TypeOK

LEMMA SameTasks ==
  ASSUME TypeOK, LoopInv, UNCHANGED taskVars, began' = began \/ began' = 0
  PROVE  task' \in [Tasks -> Loop] /\ cur' \in Tasks \cup {NoTask} /\ LoopInv'
<1>1. \A t \in Tasks : task[t].cfg \in Nat
  BY DEF TypeOK, Loop
<1>2. OneLoop'
  BY DEF OneLoop, LoopInv, taskVars, Alive
<1>3. CyclesAreOfTheSession'
  BY <1>1 DEF CyclesAreOfTheSession, LoopInv, taskVars
<1> QED
  BY <1>2, <1>3 DEF TypeOK, LoopInv, taskVars

LEMMA StartKeeps == SessionInv /\ Start => SessionInv'
<1> SUFFICES ASSUME SessionInv, Start PROVE SessionInv'
  OBVIOUS
<1>1. TypeOK /\ LoopInv /\ OffInv /\ OneLoop
  BY DEF SessionInv, LoopInv
<1>2. Cancelled \in [Tasks -> Loop] /\ \A t \in Tasks : Cancelled[t].pc = "done"
  BY <1>1, CancelledAll DEF TypeOK
<1>3. task' \in [Tasks -> Loop] /\ cur' \in Tasks \cup {NoTask} /\ LoopInv'
  BY <1>2, NewTask DEF Start
<1>4. edits' \in Nat /\ config' = edits' /\ began' = edits'
  BY <1>1 DEF Start, TypeOK
<1>5. flights' \in Nat
  BY <1>1 DEF Start, LeftBehind, TypeOK
<1>6. saved' \in Snapshot /\ drafts' \in [Savers -> SUBSET Snapshot]
  BY <1>1, <1>4, Saves, SaverFacts DEF Start, ThrottledSave
<1>7. OffInv'
  BY <1>1, <1>4, OffStays, SaverFacts DEF Start, ThrottledSave, Savers
<1>8. TypeOK'
  BY <1>1, <1>3, <1>4, <1>5, <1>6 DEF Start, TypeOK
<1> QED
  BY <1>3, <1>4, <1>7, <1>8 DEF SessionInv, SessionConfig

LEMMA StopOnLoopKeeps == SessionInv /\ StopOnLoop => SessionInv'
<1> SUFFICES ASSUME SessionInv, StopOnLoop PROVE SessionInv'
  OBVIOUS
<1>1. TypeOK /\ LoopInv /\ OffInv
  BY DEF SessionInv
<1>2. task' \in [Tasks -> Loop] /\ cur' \in Tasks \cup {NoTask} /\ LoopInv'
  <2>1. CASE manage' /\ CurDone
    BY <1>1, <2>1, NewTaskIfDone DEF StopOnLoop
  <2>2. CASE ~(manage' /\ CurDone)
    BY <1>1, <2>2, SameTasks DEF StopOnLoop
  <2> QED
    BY <2>1, <2>2
<1>3. ForcedSave("loop") /\ running' = FALSE /\ config' = config /\ config \in Nat
  BY <1>1 DEF StopOnLoop, TypeOK
<1>4. saved' \in Snapshot /\ drafts' \in [Savers -> SUBSET Snapshot]
  BY <1>1, <1>3, Saves, SaverFacts
<1>5. OffInv'
  <2>1. last' = "loop"
    BY DEF StopOnLoop
  <2> QED
    BY <1>1, <1>3, <2>1, OffStays, SaverFacts
<1>6. manage' \in BOOLEAN
  BY DEF StopOnLoop, SeesPositions
<1>7. TypeOK'
  <2>1. UNCHANGED <<config, edits, stopping, booting, qty, flights, restarts, began, late>>
        /\ last' = "loop"
    BY DEF StopOnLoop, exchangeVars
  <2> QED
    BY <1>1, <1>2, <1>3, <1>4, <1>6, <2>1, SaverFacts DEF TypeOK
<1> QED
  BY <1>2, <1>5, <1>7 DEF SessionInv, SessionConfig, StopOnLoop

LEMMA StopBeginsKeeps == SessionInv /\ StopBegins => SessionInv'
<1> SUFFICES ASSUME SessionInv, StopBegins PROVE SessionInv'
  OBVIOUS
<1>1. TypeOK /\ LoopInv
  BY DEF SessionInv
<1>2. LoopInv'
  BY <1>1, SameTasks DEF StopBegins
<1>3. OffInv'
  BY DEF StopBegins, OffInv, RunningIsOn, OffOnDisk, OffUnderWay, Savers
<1>4. TypeOK'
  BY <1>1 DEF StopBegins, TypeOK, taskVars, exchangeVars, disk
<1> QED
  BY <1>2, <1>3, <1>4 DEF SessionInv, SessionConfig, StopBegins

LEMMA StopEndsKeeps == SessionInv /\ StopEnds => SessionInv'
<1> SUFFICES ASSUME SessionInv, StopEnds PROVE SessionInv'
  OBVIOUS
<1>1. TypeOK /\ LoopInv /\ OffInv
  BY DEF SessionInv
<1>2. LoopInv'
  BY <1>1, SameTasks DEF StopEnds
<1>3. running' = running /\ config' = config /\ (ForcedSave("thread") \/ UNCHANGED disk)
  BY DEF StopEnds
<1>4. last' \in {last, "failed", "thread"} /\ (last' = last \/ last' = "failed" \/ ForcedSave("thread"))
  BY DEF StopEnds
<1>5. running' => last' = "on"
  BY <1>1, <1>3 DEF StopEnds, OffInv, RunningIsOn
<1>6. last' = "stopped" => last = "stopped"
  BY <1>4
<1>7. running' \in BOOLEAN /\ config' \in Nat
  BY <1>1, <1>3 DEF TypeOK
<1>8. OffInv'
  <2>1. last' \in Savers => last' = last \/ (last' = "thread" /\ ForcedSave("thread"))
    BY <1>4 DEF Savers
  <2> QED
    BY <1>1, <1>3, <1>5, <1>6, <1>7, <2>1, OffStays, SaverFacts
<1>9. saved' \in Snapshot /\ drafts' \in [Savers -> SUBSET Snapshot]
  BY <1>1, <1>3, <1>7, Saves, SaverFacts
<1>10. manage' \in BOOLEAN /\ stopping' = FALSE
  BY DEF StopEnds, SeesPositions
<1>11. TypeOK'
  <2>1. UNCHANGED <<edits, cur, task, booting, qty, flights, restarts, began, late>>
    BY DEF StopEnds, taskVars, exchangeVars
  <2>2. last' \in LastValues
    BY <1>1, <1>4, SaverFacts DEF TypeOK, LastValues
  <2> QED
    BY <1>1, <1>7, <1>9, <1>10, <2>1, <2>2 DEF TypeOK, LastValues
<1> QED
  BY <1>2, <1>8, <1>11 DEF SessionInv, SessionConfig, StopEnds

LEMMA ResetKeeps == SessionInv /\ Reset => SessionInv'
<1> SUFFICES ASSUME SessionInv, Reset PROVE SessionInv'
  OBVIOUS
<1>1. TypeOK /\ LoopInv /\ OffInv
  BY DEF SessionInv
<1>2. LoopInv'
  BY <1>1, SameTasks DEF Reset
<1>3. ForcedSave("thread") /\ running' = FALSE /\ config' \in Nat /\ began' = 0 /\ edits' = edits
  BY DEF Reset, NoConfig
<1>4. saved' \in Snapshot /\ drafts' \in [Savers -> SUBSET Snapshot]
  BY <1>1, <1>3, Saves, SaverFacts
<1>5. OffInv'
  <2>1. last' = "thread"
    BY DEF Reset
  <2> QED
    BY <1>1, <1>3, <2>1, OffStays, SaverFacts
<1>6. TypeOK'
  <2>1. UNCHANGED <<edits, taskVars, stopping, booting, exchangeVars, restarts, late>>
        /\ manage' = FALSE /\ last' = "thread"
    BY DEF Reset
  <2> QED
    BY <1>1, <1>3, <1>4, <2>1, SaverFacts DEF TypeOK, taskVars, exchangeVars
<1>7. config' >= began' /\ began' <= edits'
  BY <1>1, <1>3 DEF TypeOK
<1> QED
  BY <1>2, <1>5, <1>6, <1>7 DEF SessionInv, SessionConfig

LEMMA UpdateConfigKeeps == SessionInv /\ UpdateConfig => SessionInv'
<1> SUFFICES ASSUME SessionInv, UpdateConfig PROVE SessionInv'
  OBVIOUS
<1>1. TypeOK /\ LoopInv /\ OffInv
  BY DEF SessionInv
<1>2. LoopInv'
  BY <1>1, SameTasks DEF UpdateConfig, history
<1>3. ForcedSave("loop") /\ running' = running /\ config' = edits + 1 /\ edits' = edits + 1
  BY DEF UpdateConfig
<1>4. running' \in BOOLEAN /\ config' \in Nat
  BY <1>1, <1>3 DEF TypeOK
<1>5. saved' \in Snapshot /\ drafts' \in [Savers -> SUBSET Snapshot]
  BY <1>1, <1>3, <1>4, Saves, SaverFacts
<1>6. OffInv'
  <2>1. running' => last' = "on"
    BY <1>1, <1>3 DEF OffInv, RunningIsOn, UpdateConfig, history
  <2> QED
    BY <1>1, <1>3, <1>4, <2>1, OffStays, SaverFacts DEF UpdateConfig, history
<1>7. TypeOK'
  BY <1>1, <1>3, <1>4, <1>5 DEF UpdateConfig, TypeOK, taskVars, exchangeVars, history
<1> QED
  BY <1>1, <1>2, <1>3, <1>6, <1>7 DEF SessionInv, SessionConfig, UpdateConfig, TypeOK, history

LEMMA EnsureAliveKeeps == SessionInv /\ EnsureAlive => SessionInv'
<1> SUFFICES ASSUME SessionInv, EnsureAlive PROVE SessionInv'
  OBVIOUS
<1>1. task' \in [Tasks -> Loop] /\ cur' \in Tasks \cup {NoTask} /\ LoopInv'
  BY NewTaskIfDone DEF EnsureAlive, SessionInv
<1> QED
  BY <1>1 DEF EnsureAlive, SessionInv, TypeOK, SessionConfig, OffInv, RunningIsOn, OffOnDisk, OffUnderWay,
              sessionVars, exchangeVars, disk, history

-----------------------------------------------------------------------------
(* The cycle.  A step of it leaves "running" alone, so a save writes what the *)
(* session is, and its task moves on with a copy as young as the session.     *)

Moves(t, r) ==
    /\ Alive(t)
    /\ r \in Loop
    /\ InCycle(r) => r.cfg >= began
    /\ task' = [task EXCEPT ![t] = r]

Keeps ==
    /\ UNCHANGED <<cur, stopping, booting, restarts, last, began>> /\ late' \in Nat
    /\ running' = running /\ edits' = edits
    /\ manage' \in BOOLEAN
    /\ config' \in Nat /\ config' >= began
    /\ qty' \in Nat /\ flights' \in Nat
    /\ ThrottledSave

LEMMA CycleKeeps ==
  ASSUME SessionInv, NEW t \in Tasks, NEW r, Moves(t, r), Keeps
  PROVE  SessionInv'
<1>1. TypeOK /\ LoopInv /\ OffInv
  BY DEF SessionInv
<1>2. task' \in [Tasks -> Loop] /\ LoopInv'
  BY <1>1, CycleTask DEF Moves, Keeps, TypeOK
<1>3. running' \in BOOLEAN /\ config' \in Nat /\ ThrottledSave /\ last' = last
  BY <1>1 DEF Keeps, TypeOK
<1>4. saved' \in Snapshot /\ drafts' \in [Savers -> SUBSET Snapshot]
  BY <1>1, <1>3, Saves, SaverFacts DEF ThrottledSave
<1>5. OffInv'
  <2>1. running' => last' = "on"
    BY <1>1, <1>3 DEF Keeps, OffInv, RunningIsOn
  <2> QED
    BY <1>1, <1>3, <2>1, OffStays, SaverFacts DEF ThrottledSave
<1>6. TypeOK'
  BY <1>1, <1>2, <1>4 DEF Keeps, TypeOK
<1> QED
  BY <1>1, <1>2, <1>5, <1>6 DEF Keeps, SessionInv, SessionConfig

\* What is known of a task in a cycle, and of going to sleep and dying.
LEMMA InCycleFacts ==
  ASSUME SessionInv, NEW t \in Tasks, InCycle(task[t])
  PROVE  /\ Alive(t) /\ task[t].cfg \in Nat /\ task[t].cfg >= began
         /\ \A pc : pc \in {"guarding", "managing", "scanning", "checking",
                           "placing", "sent", "protecting"}
                => [task[t] EXCEPT !.pc = pc] \in Loop
  BY DEF SessionInv, TypeOK, LoopInv, CyclesAreOfTheSession, Loop, Alive, InCycle

LEMMA SleepMoves ==
  ASSUME NEW t \in Tasks, Alive(t), Sleep(t)
  PROVE  Moves(t, Asleep)
  BY Records DEF Moves, Sleep

\* To the next await, with the same locals.
LEMMA GotoMoves ==
  ASSUME SessionInv, NEW t \in Tasks, InCycle(task[t]),
         NEW pc \in {"guarding", "managing", "scanning", "checking",
                     "placing", "sent", "protecting"},
         Goto(t, pc)
  PROVE  Moves(t, [task[t] EXCEPT !.pc = pc])
<1>1. [task[t] EXCEPT !.pc = pc].cfg = task[t].cfg /\ Alive(t) /\ task[t].cfg >= began
      /\ [task[t] EXCEPT !.pc = pc] \in Loop
  BY InCycleFacts DEF SessionInv, TypeOK, Loop
<1>2. task' = [task EXCEPT ![t] = [task[t] EXCEPT !.pc = pc]]
  BY DEF Goto, SessionInv, TypeOK
<1> QED
  BY <1>1, <1>2 DEF Moves

LEMMA SessionFacts ==
  ASSUME SessionInv
  PROVE  /\ running \in BOOLEAN /\ manage \in BOOLEAN /\ config \in Nat /\ edits \in Nat
         /\ began \in Nat /\ config >= began /\ qty \in Nat /\ flights \in Nat
         /\ late \in Nat /\ task \in [Tasks -> Loop]
  BY DEF SessionInv, TypeOK, SessionConfig

LEMMA WakeKeeps ==
  ASSUME SessionInv, NEW t \in Tasks, Wake(t)
  PROVE  SessionInv'
<1> DEFINE r == IF Wanted
                THEN [pc |-> "guarding", cfg |-> config', entries |-> running, tries |-> 1]
                ELSE Done
<1>1. config' \in Nat /\ config' >= began
  BY SessionFacts DEF Wake, NoConfig, Defaults
<1>2. r \in Loop /\ (InCycle(r) => r.cfg >= began)
  BY <1>1, Records, SessionFacts DEF Loop
<1>3. Moves(t, r)
  BY <1>2 DEF Wake, At, Alive, Moves
<1>4. Keeps
  BY <1>1, SessionFacts DEF Wake, Keeps, RestUnchanged, history, ThrottledSave, exchangeVars
<1> QED
  BY <1>3, <1>4, CycleKeeps

LEMMA GuardianKeeps ==
  ASSUME SessionInv, NEW t \in Tasks, GuardianCloses(t) \/ GuardianHolds(t)
  PROVE  SessionInv'
<1>1. InCycle(task[t])
  BY DEF GuardianCloses, GuardianHolds, At, InCycle
<1>2. CASE GuardianCloses(t)
  <2>1. Moves(t, Asleep)
    BY <1>1, <1>2, InCycleFacts, SleepMoves DEF GuardianCloses
  <2>2. Keeps
    BY <1>2, SessionFacts DEF GuardianCloses, Keeps, RestUnchanged, history, ThrottledSave, sessionVars
  <2> QED
    BY <2>1, <2>2, CycleKeeps
<1>3. CASE GuardianHolds(t)
  <2>1. \E r : Moves(t, r)
    BY <1>1, <1>3, GotoMoves DEF GuardianHolds
  <2>2. Keeps
    BY <1>3, SessionFacts DEF GuardianHolds, Keeps, RestUnchanged, history, ThrottledSave, sessionVars, exchangeVars
  <2> QED
    BY <2>1, <2>2, CycleKeeps
<1> QED
  BY <1>2, <1>3

LEMMA ManageKeepsInv ==
  ASSUME SessionInv, NEW t \in Tasks, ManageKeeps(t) \/ ManageDrops(t)
  PROVE  SessionInv'
<1>1. InCycle(task[t]) /\ Sleep(t)
  BY DEF ManageKeeps, ManageDrops, At, InCycle
<1>2. Moves(t, Asleep)
  BY <1>1, InCycleFacts, SleepMoves
<1>3. Keeps
  BY SessionFacts DEF ManageKeeps, ManageDrops, Keeps, RestUnchanged, history, ThrottledSave, sessionVars,
                      exchangeVars
<1> QED
  BY <1>2, <1>3, CycleKeeps

\* The copy a cycle writes back is as young as the session.
LEMMA CopyBackIsYoung ==
  ASSUME SessionInv, NEW t \in Tasks, InCycle(task[t]), CopyBack(t)
  PROVE  /\ config' \in Nat /\ config' >= began
         /\ running' = running /\ edits' = edits /\ manage' \in BOOLEAN
  BY InCycleFacts, SessionFacts DEF CopyBack

LEMMA PickKeeps ==
  ASSUME SessionInv, NEW t \in Tasks, Skip(t) \/ Pick(t) \/ CheckFlat(t)
  PROVE  SessionInv'
<1>1. InCycle(task[t]) /\ CopyBack(t)
  BY DEF Skip, Pick, CheckFlat, At, InCycle
<1>2. \E r : Moves(t, r)
  BY <1>1, GotoMoves, SleepMoves, InCycleFacts DEF Skip, Pick, CheckFlat
<1>3. qty' \in Nat /\ flights' \in Nat /\ ThrottledSave /\ RestUnchanged
  BY SessionFacts DEF Skip, Pick, CheckFlat, ThrottledSave, exchangeVars
<1>4. Keeps
  BY <1>1, <1>3, CopyBackIsYoung, SessionFacts DEF Keeps, RestUnchanged, history
<1> QED
  BY <1>2, <1>4, CycleKeeps

LEMMA OrderKeeps ==
  ASSUME SessionInv, NEW t \in Tasks, Send(t) \/ Filled(t)
  PROVE  SessionInv'
<1>1. InCycle(task[t])
  BY DEF Send, Filled, At, InCycle
<1>2. \E r : Moves(t, r)
  BY <1>1, GotoMoves DEF Send, Filled
<1>3. qty' \in Nat /\ flights' \in Nat
  BY SessionFacts DEF Send, Filled, exchangeVars
<1>4. Keeps
  BY <1>3, SessionFacts DEF Send, Filled, Keeps, RestUnchanged, history, ThrottledSave, sessionVars
<1> QED
  BY <1>2, <1>4, CycleKeeps

LEMMA PlaceTimeoutKeeps ==
  ASSUME SessionInv, NEW t \in Tasks, PlaceTimeout(t)
  PROVE  SessionInv'
<1>1. InCycle(task[t])
  BY DEF PlaceTimeout, InCycle
<1>2. Keeps
  BY SessionFacts DEF PlaceTimeout, Keeps, RestUnchanged, history, ThrottledSave, sessionVars
<1>3. CASE Sleep(t)
  BY <1>1, <1>2, <1>3, InCycleFacts, SleepMoves, CycleKeeps
<1>4. CASE task' = [task EXCEPT ![t].pc = "placing", ![t].tries = 2]
  <2> DEFINE r == [task[t] EXCEPT !.pc = "placing", !.tries = 2]
  <2>1. r \in Loop /\ r.cfg = task[t].cfg
    BY SessionFacts DEF Loop
  <2>2. task' = [task EXCEPT ![t] = r]
    BY <1>4, SessionFacts
  <2>3. Moves(t, r)
    BY <1>1, <2>1, <2>2, InCycleFacts DEF Moves
  <2> QED
    BY <1>2, <2>3, CycleKeeps
<1> QED
  BY <1>3, <1>4 DEF PlaceTimeout

\* The configuration in the hand of a repair is that of the session, and stays so.
LEMMA RepairKeeps ==
  ASSUME SessionInv, NEW t \in Tasks, Refused(t) \/ Repairs(t)
  PROVE  SessionInv'
<1>1. InCycle(task[t])
  BY DEF Refused, Repairs, At, InCycle
<1>2. CASE Refused(t)
  <2> DEFINE r == [Fresh("repairing") EXCEPT !.cfg = config]
  <2>1. r \in Loop /\ r.cfg = config
    BY SessionFacts DEF Fresh, Loop
  <2>2. task' = [task EXCEPT ![t] = r]
    BY <1>2 DEF Refused
  <2>3. Moves(t, r)
    BY <1>1, <2>1, <2>2, InCycleFacts, SessionFacts DEF Moves
  <2>4. Keeps
    BY <1>2, SessionFacts DEF Refused, Keeps, RestUnchanged, history, ThrottledSave, sessionVars,
                              exchangeVars
  <2> QED
    BY <2>3, <2>4, CycleKeeps
<1>3. CASE Repairs(t)
  <2>1. Moves(t, Asleep)
    BY <1>1, <1>3, InCycleFacts, SleepMoves DEF Repairs
  <2>2. CopyBack(t) /\ ThrottledSave /\ RestUnchanged /\ UNCHANGED exchangeVars
    BY <1>3 DEF Repairs
  <2>3. Keeps
    BY <1>1, <2>2, CopyBackIsYoung, SessionFacts DEF Keeps, RestUnchanged, history, exchangeVars
  <2> QED
    BY <2>1, <2>3, CycleKeeps
<1> QED
  BY <1>2, <1>3

LEMMA EndKeeps ==
  ASSUME SessionInv, NEW t \in Tasks, Recorded(t) \/ Fail(t)
  PROVE  SessionInv'
<1>1. InCycle(task[t])
  BY DEF Recorded, Fail, At, InCycle
<1>2. Keeps
  <2>1. CASE Recorded(t)
    BY <2>1, SessionFacts DEF Recorded, Keeps, RestUnchanged, history, ThrottledSave, sessionVars, exchangeVars
  <2>2. CASE Fail(t)
    <3>1. config' \in Nat /\ config' >= began
      BY <2>2, SessionFacts DEF Fail, Repaired, NoConfig, Defaults
    <3> QED
      BY <2>2, <3>1, SessionFacts DEF Fail, Keeps, RestUnchanged, history, ThrottledSave, exchangeVars
  <2> QED
    BY <2>1, <2>2
<1>3. CASE Sleep(t)
  BY <1>1, <1>2, <1>3, InCycleFacts, SleepMoves, CycleKeeps
<1>4. CASE task' = [task EXCEPT ![t] = Done]
  BY <1>1, <1>2, <1>4, InCycleFacts, Records, CycleKeeps DEF Moves
<1> QED
  BY <1>3, <1>4 DEF Recorded, Fail

-----------------------------------------------------------------------------
(* The exchange and the process.                                            *)

LEMMA ExchangeKeeps == SessionInv /\ (Lands \/ ClosedOutside) => SessionInv'
<1> SUFFICES ASSUME SessionInv, Lands \/ ClosedOutside PROVE SessionInv'
  OBVIOUS
<1>1. /\ UNCHANGED <<sessionVars, taskVars, stopping, booting, disk, restarts, history>>
      /\ qty' \in Nat /\ flights' \in Nat
  BY SessionFacts DEF Lands, ClosedOutside
<1>2. LoopInv'
  BY <1>1, SameTasks DEF SessionInv, history
<1>3. OffInv'
  BY <1>1 DEF SessionInv, OffInv, RunningIsOn, OffOnDisk, OffUnderWay, sessionVars, disk, history
<1>4. TypeOK'
  BY <1>1 DEF SessionInv, TypeOK, sessionVars, taskVars, disk, history
<1> QED
  BY <1>1, <1>2, <1>3, <1>4 DEF SessionInv, SessionConfig, sessionVars, history

\* A new process has no tasks, is switched off, and has begun nothing.
LEMMA RestartKeeps == SessionInv /\ Restart => SessionInv'
<1> SUFFICES ASSUME SessionInv, Restart PROVE SessionInv'
  OBVIOUS
<1>1. TypeOK
  BY DEF SessionInv
<1>2. task' \in [Tasks -> Loop] /\ \A t \in Tasks : task'[t].pc = "done"
  BY Records DEF Restart, Done, Fresh
<1>3. LoopInv'
  BY <1>2 DEF LoopInv, OneLoop, CyclesAreOfTheSession, Alive, InCycle
<1>4. OffInv'
  BY SnapshotFacts DEF Restart, Savers, SessionInv, OffInv, RunningIsOn, OffOnDisk, OffUnderWay
<1>5. flights' \in Nat /\ restarts' \in Nat
  BY <1>1 DEF Restart, LeftBehind, TypeOK
<1>6. config' \in Nat /\ began' = 0
  BY <1>1 DEF Restart, TypeOK, Snapshot
<1>7. TypeOK'
  <2>1. UNCHANGED <<edits, saved, qty, late>> /\ cur' = NoTask /\ drafts' = NoDrafts
        /\ running' = FALSE /\ manage' = FALSE /\ stopping' = FALSE /\ booting' = TRUE
    BY DEF Restart
  <2>2. last' \in LastValues
    BY <1>1 DEF Restart, TypeOK, LastValues
  <2> QED
    BY <1>1, <1>2, <1>5, <1>6, <2>1, <2>2, SnapshotFacts DEF TypeOK, LastValues
<1> QED
  BY <1>1, <1>3, <1>4, <1>6, <1>7 DEF SessionInv, SessionConfig, Restart, TypeOK

\* A session is resumed only if the snapshot says "running", and takes its
\* configuration from there only if there is none yet: then nothing has begun.
LEMMA ResumeKeeps == SessionInv /\ Resume => SessionInv'
<1> SUFFICES ASSUME SessionInv, Resume PROVE SessionInv'
  OBVIOUS
<1>1. TypeOK /\ LoopInv /\ OffInv
  BY DEF SessionInv
<1>2. task' \in [Tasks -> Loop] /\ cur' \in Tasks \cup {NoTask} /\ LoopInv'
  <2>1. CASE CurDone /\ CreateTask(task)
    BY <1>1, <2>1, NewTaskIfDone
  <2>2. CASE UNCHANGED taskVars
    BY <1>1, <2>2, SameTasks DEF Resume
  <2> QED
    BY <2>1, <2>2 DEF Resume
<1>3. config' \in Nat /\ config' >= began
  BY SessionFacts, <1>1 DEF Resume, NoConfig, sessionVars, TypeOK, Snapshot
<1>4. OffInv'
  BY <1>1 DEF Resume, OffInv, RunningIsOn, OffOnDisk, OffUnderWay, Savers, sessionVars, disk
<1>5. TypeOK'
  <2>1. /\ UNCHANGED <<stopping, disk, exchangeVars, restarts, began>>
        /\ booting' = FALSE
    BY DEF Resume
  <2>2. \/ /\ running' = TRUE /\ last' = "on" /\ late' = 0
           /\ UNCHANGED <<manage, edits>>
        \/ UNCHANGED <<sessionVars, last, late>>
    <3> DEFINE cfg == IF config # NoConfig THEN config ELSE saved.config
    <3>1. \/ /\ ~running /\ saved.running /\ cfg # NoConfig
             /\ config' = cfg
             /\ running' = TRUE
             /\ IF CurDone THEN CreateTask(task) ELSE UNCHANGED taskVars
             /\ last' = "on" /\ late' = 0
             /\ UNCHANGED <<manage, edits>>
          \/ /\ running \/ ~saved.running \/ cfg = NoConfig
             /\ UNCHANGED <<sessionVars, taskVars, last, late>>
      BY DEF Resume
    <3> QED
      BY <3>1
  <2>3. /\ running' \in BOOLEAN /\ manage' \in BOOLEAN /\ stopping' \in BOOLEAN /\ booting' \in BOOLEAN
        /\ edits' \in Nat /\ last' \in LastValues
    BY <1>1, <2>1, <2>2 DEF TypeOK, sessionVars, LastValues
  <2>4. late' \in Nat
    BY <1>1, <2>2 DEF TypeOK
  <2>5. UNCHANGED <<saved, drafts, qty, flights, restarts, began>>
    BY <2>1 DEF exchangeVars, disk
  <2> QED
    BY <1>1, <1>2, <1>3, <2>3, <2>4, <2>5 DEF TypeOK, LastValues
<1>6. began' = began /\ edits' = edits
  BY DEF Resume, sessionVars
<1> QED
  BY <1>2, <1>3, <1>4, <1>5, <1>6 DEF SessionInv, SessionConfig

\* A write puts into place what some saver has put together, or nothing that anybody reads,
\* and makes a stop one that is on the disk only if nothing else is on its way there.
LEMMA WrittenKeeps ==
  ASSUME SessionInv, NEW w \in Savers, Written(w)
  PROVE  SessionInv'
<1>1. TypeOK /\ LoopInv /\ OffInv /\ saved \in Snapshot /\ drafts \in [Savers -> SUBSET Snapshot]
  BY DEF SessionInv, TypeOK
<1> DEFINE others == UNION {drafts[v] : v \in Savers \ {w}}
<1>2. /\ drafts' = [drafts EXCEPT ![w] = {}]
      /\ saved' \in {saved} \cup drafts[w] \cup others \cup {u \in {Unreadable} : others # {}}
      /\ last' = IF last # w THEN last
                 ELSE IF saved' \in drafts[w] /\ \A p \in others : ~p.running THEN "stopped"
                 ELSE "unsaved"
      /\ UNCHANGED <<sessionVars, taskVars, stopping, booting, exchangeVars, restarts,
                     began, late>>
  BY DEF Written
<1>3. saved' \in Snapshot /\ drafts' \in [Savers -> SUBSET Snapshot]
  <2>1. others \subseteq Snapshot
    BY <1>1
  <2> HIDE DEF others
  <2> QED
    BY <1>1, <1>2, <2>1, SnapshotFacts
<1>4. \A v \in Savers : drafts'[v] \subseteq drafts[v] /\ (v # w => drafts'[v] \subseteq others)
  BY <1>1, <1>2
<1>5. drafts'[w] = {}
  BY <1>1, <1>2
<1>6. last' \in {last, "stopped", "unsaved"}
  BY <1>2, Zenon
<1>7. running' = running /\ config' = config /\ edits' = edits
  BY <1>2 DEF sessionVars
<1>8. RunningIsOn'
  <2>1. running => last = "on"
    BY <1>1 DEF OffInv, RunningIsOn
  <2>2. "on" # w
    BY DEF Savers
  <2>3. last # w => last' = last
    BY <1>2, Zenon
  <2> QED
    BY <1>7, <2>1, <2>2, <2>3 DEF RunningIsOn
<1>9. ASSUME last # w PROVE OffInv'
  <2>1. last' = last
    BY <1>2, <1>9, Zenon
  <2>2. ASSUME last = "stopped"
        PROVE  saved'.running = FALSE /\ \A v \in Savers : \A p \in drafts'[v] : p.running = FALSE
    <3>1. saved.running = FALSE /\ \A v \in Savers : \A p \in drafts[v] : p.running = FALSE
      BY <1>1, <2>2 DEF OffInv, OffOnDisk
    <3>2. \A p \in others : p.running = FALSE
      BY <3>1
    <3>3. \A v \in Savers : \A p \in drafts'[v] : p.running = FALSE
      BY <1>4, <3>1
    <3>4. saved' \in {saved, Unreadable} \/ saved' \in drafts[w] \/ saved' \in others
      BY <1>2
    <3> HIDE DEF others
    <3> QED
      BY <3>1, <3>2, <3>3, <3>4, SnapshotFacts
  <2>3. OffUnderWay'
    <3>1. ASSUME last \in Savers PROVE \A p \in drafts'[last] : p.running = FALSE
      <4>1. drafts'[last] \subseteq drafts[last]
        BY <1>4, <3>1
      <4>2. \A p \in drafts[last] : p.running = FALSE
        BY <1>1, <3>1 DEF OffInv, OffUnderWay
      <4> QED
        BY <4>1, <4>2
    <3> QED
      BY <2>1, <3>1 DEF OffUnderWay
  <2> QED
    BY <1>8, <2>1, <2>2, <2>3 DEF OffInv, OffOnDisk
<1>10. ASSUME last = w PROVE OffInv'
  <2>1. \A p \in drafts[w] : p.running = FALSE
    BY <1>1, <1>10 DEF OffInv, OffUnderWay
  <2>2. ASSUME last' = "stopped"
        PROVE  saved'.running = FALSE /\ \A v \in Savers : \A p \in drafts'[v] : p.running = FALSE
    <3>1. saved' \in drafts[w] /\ \A p \in others : ~p.running
      <4> HIDE DEF others
      <4> QED
        BY <1>2, <1>10, <2>2
    <3>2. others \subseteq Snapshot
      BY <1>1
    <3>3. \A p \in others : p.running = FALSE
      <4> HIDE DEF others
      <4> QED
        BY <3>1, <3>2 DEF Snapshot
    <3> HIDE DEF others
    <3>4. ASSUME NEW v \in Savers PROVE \A p \in drafts'[v] : p.running = FALSE
      BY <1>4, <1>5, <3>3
    <3>5. saved'.running = FALSE
      BY <2>1, <3>1
    <3> QED
      BY <3>4, <3>5, Zenon
  <2>3. last' \in {"stopped", "unsaved"}
    BY <1>2, <1>10, Zenon
  <2>4. last' \notin Savers
    BY <2>3 DEF Savers
  <2> QED
    BY <1>8, <2>2, <2>4 DEF OffInv, OffOnDisk, OffUnderWay
<1>11. LoopInv'
  BY <1>1, <1>2, SameTasks
<1>12. TypeOK'
  <2>1. UNCHANGED <<running, manage, config, edits, cur, task, stopping, booting, qty, flights,
                    restarts, began, late>>
    BY <1>2 DEF sessionVars, taskVars, exchangeVars
  <2>2. last' \in LastValues
    BY <1>1, <1>6 DEF TypeOK, LastValues
  <2> QED
    BY <1>1, <1>3, <2>1, <2>2 DEF TypeOK, LastValues
<1>13. SessionConfig' /\ began' <= edits'
  BY <1>2, <1>7 DEF SessionInv, SessionConfig
<1> QED
  BY <1>9, <1>10, <1>11, <1>12, <1>13 DEF SessionInv

LEMMA StutterKeeps == SessionInv /\ UNCHANGED vars => SessionInv'
<1> SUFFICES ASSUME SessionInv, UNCHANGED vars PROVE SessionInv'
  OBVIOUS
<1>1. UNCHANGED <<sessionVars, taskVars, exchangeVars, history>>
      /\ UNCHANGED <<stopping, booting, disk, restarts>>
  BY DEF vars
<1>2. LoopInv'
  BY <1>1, SameTasks DEF SessionInv, history
<1>3. OffInv' /\ SessionConfig' /\ began' <= edits'
  BY <1>1 DEF SessionInv, OffInv, RunningIsOn, OffOnDisk, OffUnderWay, SessionConfig, sessionVars, disk, history
<1>4. TypeOK'
  BY <1>1 DEF SessionInv, TypeOK, sessionVars, taskVars, exchangeVars, disk, history
<1> QED
  BY <1>2, <1>3, <1>4 DEF SessionInv

-----------------------------------------------------------------------------
(* The theorems.                                                            *)

LEMMA NextKeeps == SessionInv /\ [Next]_vars => SessionInv'
<1> SUFFICES ASSUME SessionInv, [Next]_vars PROVE SessionInv'
  OBVIOUS
<1>1. CASE Handlers
  BY <1>1, StartKeeps, StopOnLoopKeeps, StopBeginsKeeps, StopEndsKeeps, ResetKeeps,
     UpdateConfigKeeps DEF Handlers
<1>2. CASE EnsureAlive
  BY <1>2, EnsureAliveKeeps
<1>3. ASSUME NEW t \in Tasks, CycleStep(t) PROVE SessionInv'
  BY <1>3, WakeKeeps, GuardianKeeps, ManageKeepsInv, PickKeeps, OrderKeeps,
     PlaceTimeoutKeeps, EndKeeps, RepairKeeps DEF CycleStep
<1>4. CASE Lands \/ ClosedOutside
  BY <1>4, ExchangeKeeps
<1>5. CASE Restart
  BY <1>5, RestartKeeps
<1>6. CASE Resume
  BY <1>6, ResumeKeeps
<1>7. CASE UNCHANGED vars
  BY <1>7, StutterKeeps
<1>8. CASE \E w \in Savers : Written(w)
  BY <1>8, WrittenKeeps
<1> QED
  BY <1>1, <1>2, <1>3, <1>4, <1>5, <1>6, <1>7, <1>8 DEF Next

LEMMA SessionInvariant == Spec => []SessionInv
  BY InitInv, NextKeeps, PTL DEF Spec

\* Every variable of the session keeps its type and no order is tried a third time.
THEOREM SessionTypes == Spec => []TypeOK
<1>1. SessionInv => TypeOK
  BY DEF SessionInv
<1> QED
  BY <1>1, SessionInvariant, PTL

\* However starts, stops, resumes, the watchdog and dying loops interleave, no two
\* loops trade side by side.
THEOREM OneLoopAlways == Spec => []OneLoop
<1>1. SessionInv => OneLoop
  BY DEF SessionInv, LoopInv
<1> QED
  BY <1>1, SessionInvariant, PTL

\* No cycle, whichever copy it writes back, brings the configuration of an earlier
\* session into a later one.
THEOREM ConfigOfTheSession == Spec => []SessionConfig
<1>1. SessionInv => SessionConfig
  BY DEF SessionInv
<1> QED
  BY <1>1, SessionInvariant, PTL

\* After a stop or a reset whose write went through, with nothing of the session before it
\* still on its way to the disk, no restart of the process resumes the session, whoever
\* writes the snapshot in between and whichever of these writes fail (state_ops.py:197).
THEOREM StopsAreDurable == Spec => StopIsDurable
<1>1. SessionInv /\ [Next]_vars => [SwitchedOnBy(Resume) => last # "stopped"]_vars
  <2>1. ASSUME SessionInv, SwitchedOnBy(Resume) PROVE last # "stopped"
    <3>1. saved.running
      BY <2>1 DEF SwitchedOnBy, Resume, sessionVars
    <3> QED
      BY <2>1, <3>1 DEF SessionInv, OffInv, OffOnDisk
  <2> QED
    BY <2>1
<1> QED
  BY <1>1, SessionInvariant, PTL DEF Spec, StopIsDurable

-----------------------------------------------------------------------------
(* The session implements OrderPermits.                                     *)

\* A cycle that looks for an entry may enter.
Entering == \A t \in Tasks : task[t].pc \in {"scanning", "checking"} => task[t].entries

NoneLate == running => late = 0

PermitInv == SessionInv /\ Entering /\ NoneLate

LEMMA PermitOfRecord ==
  ASSUME NEW r \in Loop
  PROVE  SendsLeft(r) \in 0 .. 2
<1>1. r.tries \in {1, 2}
  BY DEF Loop
<1> QED
  BY <1>1 DEF SendsLeft

LEMMA NoPermit == SendsLeft(Done) = 0 /\ SendsLeft(Asleep) = 0
  BY DEF SendsLeft, Done, Asleep, Fresh

LEMMA PermitRange ==
  ASSUME TypeOK
  PROVE  PermitsLeft \in 0 .. 2
<1>1. cur # NoTask => task[cur] \in Loop
  BY DEF TypeOK
<1> QED
  BY <1>1, PermitOfRecord DEF PermitsLeft

\* A loop that is created has no permit.
LEMMA CreatedHasNone ==
  ASSUME NEW tasks \in [Tasks -> Loop], CreateTask(tasks)
  PROVE  PermitsLeft' = 0
<1>1. PICK t \in Tasks : task' = [tasks EXCEPT ![t] = Asleep] /\ cur' = t
  BY DEF CreateTask
<1>2. cur' # NoTask /\ task'[cur'] = Asleep
  BY <1>1, SessionAssumption
<1> QED
  BY <1>2, NoPermit DEF PermitsLeft

\* The permit of the session is that of whichever task takes a step.
LEMMA PermitOfCycle ==
  ASSUME SessionInv, NEW t \in Tasks, Alive(t), cur' = cur
  PROVE  PermitsLeft = SendsLeft(task[t]) /\ PermitsLeft' = SendsLeft(task'[t])
<1>1. t = cur /\ cur # NoTask
  BY SessionAssumption DEF SessionInv, LoopInv, OneLoop
<1> QED
  BY <1>1 DEF PermitsLeft

\* Where no permit is given and no order is sent, a step switches on or off, or loses
\* some of the permit.
LEMMA Shrinks ==
  ASSUME PermitInv, PermitsLeft' \in 0 .. PermitsLeft,
         \/ running' = running /\ late' = late
         \/ running' = FALSE /\ late' = late
         \/ running' = TRUE /\ late' = 0
  PROVE  Permits!Next
<1>1. running \in BOOLEAN /\ NoneLate
  BY DEF PermitInv, SessionInv, TypeOK
<1>2. CASE running' = running /\ late' = late
  BY <1>2 DEF Permits!Next, Permits!Lose
<1>3. CASE running' = FALSE /\ late' = late
  BY <1>1, <1>3 DEF Permits!Next, Permits!Lose, Permits!SwitchOff
<1>4. CASE running' = TRUE /\ late' = 0
  BY <1>1, <1>4 DEF Permits!Next, Permits!Lose, Permits!SwitchOn, NoneLate
<1> QED
  BY <1>2, <1>3, <1>4

LEMMA HandlersShrink ==
  ASSUME PermitInv,
         \/ Handlers \/ EnsureAlive \/ Lands \/ ClosedOutside \/ Restart \/ Resume
         \/ \E w \in Savers : Written(w)
         \/ UNCHANGED vars
  PROVE  Permits!Next
<1>0. TypeOK /\ PermitsLeft \in 0 .. 2
  BY PermitRange DEF PermitInv, SessionInv
<1>1. UNCHANGED taskVars => PermitsLeft' = PermitsLeft
  BY DEF taskVars, PermitsLeft
<1>2. CreateTask(task) => PermitsLeft' = 0
  BY <1>0, CreatedHasNone DEF TypeOK
<1>3. ASSUME \/ PermitsLeft' = 0
             \/ PermitsLeft' = PermitsLeft
      PROVE  PermitsLeft' \in 0 .. PermitsLeft
  BY <1>0, <1>3
<1>4. ASSUME \/ UNCHANGED taskVars
             \/ CreateTask(task),
             \/ running' = running /\ late' = late
             \/ running' = FALSE /\ late' = late
             \/ running' = TRUE /\ late' = 0
      PROVE  Permits!Next
  <2>1. PermitsLeft' = 0 \/ PermitsLeft' = PermitsLeft
    BY <1>1, <1>2, <1>4
  <2>2. PermitsLeft' \in 0 .. PermitsLeft
    BY <1>3, <2>1, Zenon
  <2> QED
    BY <1>4, <2>2, Shrinks, Zenon
<1>5. CASE Start
  <2>1. Cancelled \in [Tasks -> Loop]
    BY CancelledAll DEF PermitInv, SessionInv, LoopInv, TypeOK
  <2>2. PermitsLeft' = 0 /\ running' = TRUE /\ late' = 0
    BY <1>5, <2>1, CreatedHasNone DEF Start
  <2> QED
    BY <1>3, <2>2, Shrinks, Zenon
<1>6. CASE StopOnLoop
  BY <1>4, <1>6, Zenon DEF StopOnLoop
<1>7. CASE StopBegins
  BY <1>4, <1>7, Zenon DEF StopBegins
<1>8. CASE StopEnds
  <2>1. UNCHANGED taskVars /\ running' = running /\ late' = late
    BY <1>8 DEF StopEnds
  <2> QED
    BY <1>4, <2>1, Zenon
<1>9. CASE Reset \/ UpdateConfig
  <2>1. UNCHANGED taskVars /\ (running' = FALSE \/ running' = running) /\ late' = late
    BY <1>9 DEF Reset, UpdateConfig, history
  <2> QED
    BY <1>4, <2>1, Zenon
<1>10. CASE EnsureAlive
  <2>1. CreateTask(task) /\ running' = running /\ late' = late
    BY <1>10 DEF EnsureAlive, sessionVars, history
  <2> QED
    BY <1>4, <2>1, Zenon
<1>11. CASE Lands \/ ClosedOutside \/ UNCHANGED vars
  <2>1. UNCHANGED taskVars /\ running' = running /\ late' = late
    BY <1>11 DEF Lands, ClosedOutside, vars, sessionVars, history
  <2> QED
    BY <1>4, <2>1, Zenon
<1>14. CASE \E w \in Savers : Written(w)
  <2>1. UNCHANGED taskVars /\ running' = running /\ late' = late
    BY <1>14 DEF Written, sessionVars
  <2> QED
    BY <1>4, <2>1, Zenon
<1>12. CASE Restart
  <2>1. PermitsLeft' = 0 /\ running' = FALSE /\ late' = late
    BY <1>12 DEF Restart, PermitsLeft
  <2> QED
    BY <1>3, <2>1, Shrinks, Zenon
<1>13. CASE Resume
  <2>1. \/ /\ UNCHANGED taskVars \/ CreateTask(task)
           /\ running' = TRUE /\ late' = 0
        \/ UNCHANGED <<sessionVars, taskVars, last, late>>
    BY <1>13, Zenon DEF Resume
  <2>2. CASE UNCHANGED <<sessionVars, taskVars, last, late>>
    <3>1. UNCHANGED taskVars /\ running' = running /\ late' = late
      BY <2>2 DEF sessionVars
    <3> QED
      BY <1>4, <3>1, Zenon
  <2> QED
    BY <1>4, <2>1, <2>2, Zenon
<1> QED
  BY <1>5, <1>6, <1>7, <1>8, <1>9, <1>10, <1>11, <1>12, <1>13, <1>14
     DEF Handlers

\* Only a cycle that begins while the session is on gets a permit.
LEMMA WakeIsPermitted ==
  ASSUME PermitInv, NEW t \in Tasks, Wake(t)
  PROVE  Permits!Next
<1>1. /\ task \in [Tasks -> Loop] /\ running \in BOOLEAN
      /\ Alive(t) /\ UNCHANGED <<cur, running, late>> /\ task[t].pc = "asleep"
  BY DEF PermitInv, SessionInv, TypeOK, Wake, At, Alive, RestUnchanged, history
<1>2. PermitsLeft = 0 /\ PermitsLeft' = SendsLeft(task'[t])
  BY <1>1, PermitOfCycle DEF PermitInv, SendsLeft
<1>3. CASE Wanted /\ running
  <2>1. task'[t] = [pc |-> "guarding", cfg |-> config', entries |-> running, tries |-> 1]
    BY <1>1, <1>3 DEF Wake
  <2>2. SendsLeft(task'[t]) = 2
    BY <1>3, <2>1 DEF SendsLeft
  <2> QED
    BY <1>1, <1>2, <1>3, <2>2 DEF Permits!Next, Permits!Grant, Permits!PerCycle
<1>4. CASE Wanted /\ ~running
  <2>1. task'[t] = [pc |-> "guarding", cfg |-> config', entries |-> running, tries |-> 1]
    BY <1>1, <1>4 DEF Wake
  <2>2. SendsLeft(task'[t]) = 0
    BY <1>4, <2>1 DEF SendsLeft
  <2> QED
    BY <1>1, <1>2, <2>2, Shrinks
<1>5. CASE ~Wanted
  <2>1. task'[t] = Done
    BY <1>1, <1>5 DEF Wake
  <2> QED
    BY <1>1, <1>2, <2>1, NoPermit, Shrinks
<1> QED
  BY <1>3, <1>4, <1>5

\* An order that is sent uses the permit up by one.
LEMMA SendIsPermitted ==
  ASSUME PermitInv, NEW t \in Tasks, Send(t)
  PROVE  Permits!Next
<1>1. task \in [Tasks -> Loop] /\ Alive(t) /\ UNCHANGED <<cur, running>> /\ task[t].pc = "placing"
  BY DEF PermitInv, SessionInv, TypeOK, Send, At, Alive, sessionVars
<1>2. task[t].tries \in {1, 2}
  BY <1>1 DEF Loop
<1>3. task'[t] = [task[t] EXCEPT !.pc = "sent"]
  BY <1>1 DEF Send, Goto
<1>4. task'[t].pc = "sent" /\ task'[t].tries = task[t].tries
  BY <1>1, <1>3 DEF Loop
<1>5. PermitsLeft = 3 - task[t].tries /\ PermitsLeft' = 2 - task[t].tries
  BY <1>1, <1>4, PermitOfCycle DEF PermitInv, SendsLeft
<1>6. late' = IF running THEN late ELSE late + 1
  BY DEF Send
<1> QED
  BY <1>1, <1>2, <1>5, <1>6 DEF Permits!Next, Permits!Order

\* Every other step of a cycle keeps the permit or loses of it.
LEMMA CycleShrinks ==
  ASSUME PermitInv, NEW t \in Tasks, CycleStep(t), ~Wake(t), ~Send(t)
  PROVE  Permits!Next
<1>1. task \in [Tasks -> Loop] /\ task[t] \in Loop /\ Entering
  BY DEF PermitInv, SessionInv, TypeOK
<1>2. InCycle(task[t]) /\ Alive(t)
  BY DEF CycleStep, GuardianCloses, GuardianHolds, ManageKeeps, ManageDrops, Skip, Pick,
         CheckFlat, Filled, PlaceTimeout, Recorded, Fail, Refused, Repairs, At, InCycle, Alive
<1>3. UNCHANGED <<cur, running, late>>
  BY DEF CycleStep, GuardianCloses, GuardianHolds, ManageKeeps, ManageDrops, Skip, Pick,
         CheckFlat, Filled, PlaceTimeout, Recorded, Fail, Refused, Repairs, CopyBack, RestUnchanged, sessionVars,
         history
<1>4. PermitsLeft = SendsLeft(task[t]) /\ PermitsLeft' = SendsLeft(task'[t])
  BY <1>2, <1>3, PermitOfCycle DEF PermitInv
<1>5. SendsLeft(task[t]) \in 0 .. 2 /\ task[t].tries \in {1, 2}
  BY <1>1, PermitOfRecord DEF Loop
<1>6. ASSUME Sleep(t) \/ task' = [task EXCEPT ![t] = Done] PROVE Permits!Next
  <2>1. task'[t] \in {Asleep, Done}
    BY <1>1, <1>6 DEF Sleep
  <2> QED
    BY <1>3, <1>4, <1>5, <2>1, NoPermit, Shrinks
<1>7. ASSUME NEW pc, Goto(t, pc)
      PROVE  task'[t].pc = pc /\ task'[t].entries = task[t].entries /\ task'[t].tries = task[t].tries
  BY <1>1, <1>7 DEF Goto, Loop
<1>8. CASE GuardianHolds(t)
  <2>1. task[t].pc = "guarding"
    BY <1>8 DEF GuardianHolds, At
  <2>2. CASE task[t].entries
    <3>1. task'[t].pc = "scanning" /\ task'[t].entries = task[t].entries
      BY <1>7, <1>8, <2>2 DEF GuardianHolds
    <3>2. SendsLeft(task'[t]) = SendsLeft(task[t])
      BY <2>1, <2>2, <3>1 DEF SendsLeft
    <3> QED
      BY <1>3, <1>4, <1>5, <3>2, Shrinks
  <2>3. CASE ~task[t].entries
    <3>1. task'[t].pc = "managing"
      BY <1>7, <1>8, <2>3 DEF GuardianHolds
    <3>2. SendsLeft(task'[t]) = 0
      BY <3>1 DEF SendsLeft
    <3> QED
      BY <1>3, <1>4, <1>5, <3>2, Shrinks
  <2> QED
    BY <2>2, <2>3
<1>9. CASE Pick(t) \/ CheckFlat(t)
  <2>1. task[t].pc \in {"scanning", "checking"} /\ task[t].entries
    BY <1>1, <1>9 DEF Pick, CheckFlat, At, Entering
  <2>2. task'[t].pc \in {"checking", "placing"} /\ task'[t].entries /\ task'[t].tries = task[t].tries
    BY <1>7, <1>9, <2>1 DEF Pick, CheckFlat
  <2>3. SendsLeft(task[t]) = 2 /\ SendsLeft(task'[t]) \in 0 .. 2
    BY <1>5, <2>1, <2>2 DEF SendsLeft
  <2> QED
    BY <1>3, <1>4, <2>3, Shrinks
<1>10. CASE Filled(t)
  <2>1. task[t].pc = "sent" /\ task'[t].pc = "protecting" /\ task'[t].tries = task[t].tries
    BY <1>7, <1>10 DEF Filled, At
  <2>2. SendsLeft(task'[t]) = SendsLeft(task[t])
    BY <2>1 DEF SendsLeft
  <2> QED
    BY <1>3, <1>4, <1>5, <2>2, Shrinks
<1>11. CASE /\ task[t].pc \in {"placing", "sent", "protecting"} /\ task[t].tries = 1
            /\ task' = [task EXCEPT ![t].pc = "placing", ![t].tries = 2]
  <2>1. task'[t].pc = "placing" /\ task'[t].tries = 2
    BY <1>1, <1>11 DEF Loop
  <2>2. SendsLeft(task'[t]) = 1 /\ SendsLeft(task[t]) >= 1
    BY <1>11, <2>1 DEF SendsLeft
  <2> QED
    BY <1>3, <1>4, <1>5, <2>2, Shrinks
<1>12. CASE Refused(t)
  <2>1. task'[t].pc = "repairing"
    BY <1>1, <1>12 DEF Refused, Fresh
  <2>2. SendsLeft(task'[t]) = 0
    BY <2>1 DEF SendsLeft
  <2> QED
    BY <1>3, <1>4, <1>5, <2>2, Shrinks
<1> QED
  BY <1>6, <1>8, <1>9, <1>10, <1>11, <1>12
     DEF CycleStep, GuardianCloses, ManageKeeps, ManageDrops, Skip, PlaceTimeout, Recorded, Fail,
         Repairs

LEMMA PermitInit == Init => PermitInv /\ Permits!Init
<1> SUFFICES ASSUME Init PROVE PermitInv /\ Permits!Init
  OBVIOUS
<1>1. \A t \in Tasks : task[t] = Done
  BY DEF Init
<1>2. Entering
  BY <1>1 DEF Entering, Done, Fresh
<1>3. PermitsLeft = 0
  BY DEF Init, PermitsLeft
<1> QED
  BY <1>2, <1>3, InitInv DEF Init, PermitInv, NoneLate, Permits!Init

LEMMA EnteringStays == PermitInv /\ [Next]_vars => Entering'
<1> SUFFICES ASSUME PermitInv, [Next]_vars PROVE Entering'
  OBVIOUS
<1>0. task \in [Tasks -> Loop] /\ Entering
  BY DEF PermitInv, SessionInv, TypeOK
<1>1. Asleep.pc = "asleep" /\ Done.pc = "done"
  BY DEF Asleep, Done, Fresh
<1>2. CASE UNCHANGED task
  BY <1>0, <1>2 DEF Entering
<1>3. ASSUME NEW tasks \in [Tasks -> Loop], \A t \in Tasks : tasks[t] \in {task[t], Done},
             CreateTask(tasks)
      PROVE  Entering'
  BY <1>0, <1>1, <1>3 DEF CreateTask, Entering
<1>4. ASSUME NEW t \in Tasks, NEW r, task' = [task EXCEPT ![t] = r],
             r.pc \notin {"scanning", "checking"}
      PROVE  Entering'
  BY <1>0, <1>4 DEF Entering
<1>5. ASSUME NEW t \in Tasks, CycleStep(t) PROVE Entering'
  <2>1. CASE Sleep(t) \/ task' = [task EXCEPT ![t] = Done]
    BY <1>1, <1>4, <2>1 DEF Sleep
  <2>2. ASSUME NEW pc, Goto(t, pc), pc \in {"scanning", "checking"} => task[t].entries
        PROVE  Entering'
    <3>1. task'[t].pc = pc /\ task'[t].entries = task[t].entries
      BY <1>0, <2>2 DEF Goto, Loop
    <3>2. \A u \in Tasks : u # t => task'[u] = task[u]
      BY <1>0, <2>2 DEF Goto
    <3> QED
      BY <1>0, <2>2, <3>1, <3>2 DEF Entering
  <2>3. CASE GuardianHolds(t)
    BY <2>2, <2>3 DEF GuardianHolds
  <2>4. CASE Pick(t)
    BY <1>0, <2>2, <2>4 DEF Pick, At, Entering
  <2>5. CASE CheckFlat(t) \/ Send(t) \/ Filled(t)
    BY <2>2, <2>5 DEF CheckFlat, Send, Filled
  <2>6. CASE task' = [task EXCEPT ![t].pc = "placing", ![t].tries = 2]
    <3>1. task' = [task EXCEPT ![t] = [task[t] EXCEPT !.pc = "placing", !.tries = 2]]
      BY <1>0, <2>6
    <3>2. [task[t] EXCEPT !.pc = "placing", !.tries = 2].pc = "placing"
      BY <1>0 DEF Loop
    <3> QED
      BY <1>4, <3>1, <3>2
  <2>7. CASE Wake(t)
    <3> DEFINE r == IF Wanted
                    THEN [pc |-> "guarding", cfg |-> config', entries |-> running, tries |-> 1]
                    ELSE Done
    <3>1. r.pc \in {"guarding", "done"}
      BY <1>1
    <3>2. task' = [task EXCEPT ![t] = r]
      BY <2>7, Zenon DEF Wake
    <3> HIDE DEF r
    <3> QED
      BY <1>4, <3>1, <3>2
  <2>8. CASE Refused(t)
    <3>1. task' = [task EXCEPT ![t] = [Fresh("repairing") EXCEPT !.cfg = config]]
      BY <2>8 DEF Refused
    <3>2. [Fresh("repairing") EXCEPT !.cfg = config].pc = "repairing"
      BY DEF Fresh
    <3> QED
      BY <1>4, <3>1, <3>2
  <2> QED
    BY <1>5, <2>1, <2>3, <2>4, <2>5, <2>6, <2>7, <2>8
       DEF CycleStep, GuardianCloses, ManageKeeps, ManageDrops, Skip, PlaceTimeout, Recorded, Fail,
           Repairs
<1>6. CASE Start
  <2>1. Cancelled \in [Tasks -> Loop] /\ \A t \in Tasks : Cancelled[t] \in {task[t], Done}
    BY <1>0, CancelledAll DEF PermitInv, SessionInv, LoopInv, TypeOK, Cancelled
  <2> QED
    BY <1>3, <1>6, <2>1 DEF Start
<1>7. CASE CreateTask(task)
  BY <1>0, <1>3, <1>7
<1>8. CASE Restart
  BY <1>1, <1>8 DEF Restart, Entering
<1> QED
  BY <1>2, <1>5, <1>6, <1>7, <1>8
     DEF Next, Handlers, StopOnLoop, StopBegins, StopEnds, Reset, UpdateConfig, EnsureAlive,
         Lands, ClosedOutside, Resume, Written, taskVars, vars

LEMMA NoneLateStays == PermitInv /\ Permits!Next => NoneLate'
  BY DEF PermitInv, NoneLate, Permits!Next, Permits!SwitchOn, Permits!SwitchOff,
         Permits!Grant, Permits!Order, Permits!Lose

LEMMA PermitStep == PermitInv /\ [Next]_vars => PermitInv' /\ Permits!Next
<1> SUFFICES ASSUME PermitInv, [Next]_vars PROVE PermitInv' /\ Permits!Next
  OBVIOUS
<1>1. ASSUME NEW t \in Tasks, CycleStep(t) PROVE Permits!Next
  BY <1>1, WakeIsPermitted, SendIsPermitted, CycleShrinks
<1>2. Permits!Next
  BY <1>1, HandlersShrink DEF Next
<1> QED
  BY <1>2, NextKeeps, EnteringStays, NoneLateStays DEF PermitInv

\* A stop is heeded at the head of a cycle only; for any number of tasks, retries, edits and
\* restarts the orders that are sent all the same are those of one permit.
THEOREM SessionImplementsPermits == Spec => OrdersArePermitted
<1>1. PermitInv /\ [Next]_vars => [Permits!Next]_<<running, PermitsLeft, late>>
  BY PermitStep
<1> QED
  BY <1>1, PermitInit, PermitStep, PTL DEF Spec, OrdersArePermitted, Permits!Spec

\* After a stop, a reset or a crash no more than two orders are sent before the session is
\* switched on again (main.py:7359).
THEOREM TwoAfterStop == Spec => [](~running => late + PermitsLeft <= 2)
<1> DEFINE Two == ~running => late + PermitsLeft <= 2
<1>1. Init => Two
  BY DEF Init, PermitsLeft
<1>2. PermitInv /\ Two /\ [Next]_vars => Two'
  <2>1. SUFFICES ASSUME PermitInv, Two, Permits!Next PROVE Two'
    BY PermitStep
  <2>2. PermitsLeft \in 0 .. 2 /\ late \in Nat /\ NoneLate /\ running \in BOOLEAN
    <3>1. TypeOK /\ NoneLate
      BY <2>1, Zenon DEF PermitInv, SessionInv
    <3> QED
      BY <3>1, PermitRange DEF TypeOK
  <2> QED
    BY <2>1, <2>2 DEF NoneLate, Permits!Next, Permits!SwitchOn, Permits!SwitchOff,
         Permits!Grant, Permits!Order, Permits!Lose
<1> QED
  BY <1>1, <1>2, PermitInit, PermitStep, PTL DEF Spec
=============================================================================
