--------------------------- MODULE AutotradeSession ---------------------------
(***************************************************************************)
(* The trading session of the bot and the task that runs it (main.py).     *)
(*                                                                         *)
(* A session is switched on by autotrade_start or, after a restart of the  *)
(* process, by _maybe_resume; autotrade_stop and autotrade_reset switch it *)
(* off.  The work is done by one coroutine, _autotrade_loop: a cycle copies *)
(* the configuration, lets the guardian manage the open positions, picks a *)
(* symbol, checks that it is flat and places an order.  A watchdog         *)
(* replaces a loop task that died.  Handlers and cycles interleave at      *)
(* every await; /autotrade/stop and /autotrade/reset are plain functions,  *)
(* which the web server runs in threads, so the stop is also cut in two    *)
(* where it asks the exchange for the positions, and a save of either      *)
(* overlaps with a save of the loop: what is written was put together      *)
(* earlier, both go through one ".tmp" file, and each may fail.            *)
(*                                                                         *)
(* Abstracted: one symbol, one side, and a position counted in entries.  A *)
(* configuration is the number of the edit that made it; a cycle that      *)
(* writes its own copy back brings that edit back.  Everything that may    *)
(* turn a candidate down is one action, Skip.                              *)
(***************************************************************************)
EXTENDS Integers

CONSTANTS
    Tasks,          \* names for the loop tasks that exist at a time
    NoTask,         \* None, where a task may be
    StopRoutes,     \* where a stop runs: "loop" (/bot/stop), "thread" (/autotrade/stop)
    MaxEdits,       \* bound: configurations ever made
    MaxPos,         \* bound: entries a position may hold
    MaxFlights,     \* bound: orders on their way that nobody waits for
    MaxRestarts     \* bound: restarts of the process

ASSUME SessionAssumption ==
    /\ NoTask \notin Tasks
    /\ StopRoutes \subseteq {"loop", "thread"}
    /\ {MaxPos, MaxFlights, MaxRestarts} \subseteq Nat
    /\ MaxEdits \in Nat \ {0}

VARIABLES
    running,    \* AUTO_TRADE["running"]
    manage,     \* AUTO_TRADE["manageOpenOnly"]
    config,     \* AUTO_TRADE["config"]: the edit it came from, or NoConfig
    edits,      \* the last edit ever made
    cur,        \* _AUTOTRADE_TASK
    task,       \* every loop task: where it awaits, and its locals
    stopping,   \* is a thread in autotrade_stop, asking for the positions?
    booting,    \* is _maybe_resume still to run?
    saved,      \* the snapshot: running and config
    drafts,     \* what each saver has put together and not written yet
    qty,        \* entries the position on the exchange holds
    flights,    \* orders sent by calls that were cancelled or gave up
    restarts,
    last,       \* history: what last switched the session on or off, and how its save went
    began,      \* history: the configuration of the last start, 0 after a reset or restart
    late        \* history: orders sent since the session was switched off

sessionVars == <<running, manage, config, edits>>
taskVars == <<cur, task>>
exchangeVars == <<qty, flights>>
disk == <<saved, drafts>>
history == <<last, began, late>>
vars == <<sessionVars, taskVars, stopping, booting, disk, exchangeVars, restarts, history>>

-----------------------------------------------------------------------------
NoConfig == 0
Defaults == 1   \* what apply_autotrade_defaults makes of no configuration, by nobody's edit

Loop == [pc: {"done", "asleep", "guarding", "managing", "scanning", "checking",
              "placing", "sent", "protecting", "repairing"},
         cfg: Nat, entries: BOOLEAN, tries: {1, 2}]

\* What a start makes of a snapshot that is not there or is not JSON.
Unreadable == [running |-> FALSE, config |-> NoConfig]

\* "asleep" is the await of the pause between two cycles, and a task not yet begun.
Fresh(pc) == [pc |-> pc, cfg |-> NoConfig, entries |-> FALSE, tries |-> 1]
Done == Fresh("done")
Asleep == Fresh("asleep")

Savers == {"loop", "thread"}
Snapshot == [running: BOOLEAN, config: Nat]
NoDrafts == [w \in Savers |-> {}]

\* A coroutine that saves holds the loop: until it has written, no other runs.
LoopFree == drafts["loop"] = {}

Alive(t) == task[t].pc # "done"
CurDone == cur # NoTask => ~Alive(cur)
Wanted == running \/ manage

\* Every variable has its type, and an order is tried at most twice.
TypeOK ==
    /\ running \in BOOLEAN /\ manage \in BOOLEAN
    /\ stopping \in BOOLEAN /\ booting \in BOOLEAN
    /\ config \in Nat /\ edits \in Nat /\ began \in Nat
    /\ qty \in Nat /\ flights \in Nat /\ restarts \in Nat /\ late \in Nat
    /\ cur \in Tasks \cup {NoTask}
    /\ task \in [Tasks -> Loop]
    /\ saved \in Snapshot /\ drafts \in [Savers -> SUBSET Snapshot]
    /\ last \in {"on", "stopping", "stopped", "failed", "unsaved"} \cup Savers

Init ==
    /\ running = FALSE /\ manage = FALSE
    /\ config = NoConfig /\ edits = Defaults
    /\ cur = NoTask
    /\ task = [t \in Tasks |-> Done]
    /\ stopping = FALSE /\ booting = FALSE
    /\ saved = Unreadable /\ drafts = NoDrafts
    /\ qty \in 0 .. MaxPos
    /\ flights = 0 /\ restarts = 0
    /\ last = "stopped" /\ began = 0 /\ late = 0

-----------------------------------------------------------------------------
(* The snapshot.  The first three are used after running' and config' are given. *)

\* persist_autotrade_snapshot up to json.dumps: no configuration leaves the one in the file.
Payload == [running |-> running',
            config |-> IF config' = NoConfig THEN saved.config ELSE config']

ForcedSave(w) ==
    /\ drafts' = [drafts EXCEPT ![w] = {Payload}]
    /\ UNCHANGED saved

\* Not forced, it writes only when the last write is 30 s old.
ThrottledSave == ForcedSave("loop") \/ UNCHANGED disk

\* The rest of it, as the saver w: the write, or a failure that is swallowed.  Where another
\* saver is at work on the same ".tmp", what gets into place may be his, or half of it.
Written(w) ==
    LET others == UNION {drafts[v] : v \in Savers \ {w}}
    IN  /\ drafts[w] # {}
        /\ drafts' = [drafts EXCEPT ![w] = {}]
        /\ saved' \in {saved} \cup drafts[w] \cup others
                     \cup {u \in {Unreadable} : others # {}}
        /\ last' = IF last # w THEN last
                   ELSE IF saved' \in drafts[w] /\ \A p \in others : ~p.running THEN "stopped"
                   ELSE "unsaved"
        /\ UNCHANGED <<sessionVars, taskVars, stopping, booting, exchangeVars, restarts,
                       began, late>>

\* asyncio.create_task(_autotrade_loop()), where the other tasks are given by tasks.
CreateTask(tasks) ==
    \E t \in Tasks :
        /\ tasks[t].pc = "done"
        /\ task' = [tasks EXCEPT ![t] = Asleep]
        /\ cur' = t

-----------------------------------------------------------------------------
(* The handlers.                                                            *)

\* Task.cancel(): the coroutine ends at its await.  An order its thread is
\* sending is on its way all the same.
Cancelled == IF CurDone THEN task ELSE [task EXCEPT ![cur] = Done]
LeftBehind == IF CurDone THEN flights ELSE IF task[cur].pc = "sent" THEN flights + 1 ELSE flights

\* Mutant of Start: the stale task is not cancelled.
StartBeside ==
    /\ LoopFree
    /\ edits < MaxEdits
    /\ edits' = edits + 1
    /\ config' = edits' /\ began' = edits'
    /\ running' = TRUE /\ manage' = FALSE
    /\ CreateTask(task)
    /\ ThrottledSave
    /\ last' = "on" /\ late' = 0
    /\ UNCHANGED <<stopping, booting, exchangeVars, restarts>>

\* autotrade_start, from the answer of the hand-over read on; what comes before
\* only reads.  A refused request changes nothing.
Start ==
    /\ LoopFree
    /\ edits < MaxEdits
    /\ edits' = edits + 1
    /\ config' = edits' /\ began' = edits'
    /\ running' = TRUE /\ manage' = FALSE
    /\ LeftBehind <= MaxFlights
    /\ flights' = LeftBehind
    /\ CreateTask(Cancelled)
    /\ ThrottledSave
    /\ last' = "on" /\ late' = 0
    /\ UNCHANGED <<stopping, booting, qty, restarts>>

\* _has_live_open_positions_sync: FALSE also when the request fails.
SeesPositions == {seen \in BOOLEAN : seen => qty > 0}

\* Mutant of StopOnLoop: the stop is saved like everything else, when 30 s are over.
StopThrottled ==
    /\ LoopFree
    /\ "loop" \in StopRoutes
    /\ running' = FALSE
    /\ manage' \in SeesPositions
    /\ IF manage' /\ CurDone THEN CreateTask(task) ELSE UNCHANGED taskVars
    /\ UNCHANGED <<config, edits>>
    /\ ThrottledSave
    /\ last' = IF drafts' = drafts THEN "stopped" ELSE "loop"
    /\ UNCHANGED <<stopping, booting, exchangeVars, restarts, began, late>>

\* autotrade_stop called from bot_stop: no await, so one step and its save.  A request with the
\* id of another session is ignored.
StopOnLoop ==
    /\ LoopFree
    /\ "loop" \in StopRoutes
    /\ running' = FALSE
    /\ manage' \in SeesPositions
    /\ IF manage' /\ CurDone THEN CreateTask(task) ELSE UNCHANGED taskVars
    /\ UNCHANGED <<config, edits>>
    /\ ForcedSave("loop")
    /\ last' = "loop"
    /\ UNCHANGED <<stopping, booting, exchangeVars, restarts, began, late>>

\* autotrade_stop in a thread, up to its request for the positions.
StopBegins ==
    /\ "thread" \in StopRoutes
    /\ ~stopping
    /\ stopping' = TRUE
    /\ running' = FALSE
    /\ last' = "stopping"
    /\ UNCHANGED <<manage, config, edits, taskVars, booting, disk, exchangeVars,
                   restarts, began, late>>

\* The rest of it.  A thread has no event loop: where a task is to be created,
\* create_task raises and the snapshot is not written.  (Bound: one thread saves at a time.)
StopEnds ==
    /\ stopping /\ drafts["thread"] = {}
    /\ stopping' = FALSE
    /\ manage' \in SeesPositions
    /\ UNCHANGED <<running, config, edits>>
    /\ \/ /\ manage' /\ CurDone
          /\ last' = IF last = "stopping" THEN "failed" ELSE last
          /\ UNCHANGED disk
       \/ /\ ~(manage' /\ CurDone)
          /\ last' = IF last = "stopping" THEN "thread" ELSE last
          /\ ForcedSave("thread")
    /\ UNCHANGED <<taskVars, booting, exchangeVars, restarts, began, late>>

\* autotrade_reset, in a thread; the loop task is left to end by itself.
Reset ==
    /\ drafts["thread"] = {}
    /\ running' = FALSE /\ manage' = FALSE /\ config' = NoConfig
    /\ UNCHANGED edits
    /\ ForcedSave("thread")
    /\ last' = "thread" /\ began' = 0
    /\ UNCHANGED <<taskVars, stopping, booting, exchangeVars, restarts, late>>

\* autotrade_update_config: saved at once, "config change must survive restart".
UpdateConfig ==
    /\ LoopFree
    /\ config # NoConfig
    /\ edits < MaxEdits
    /\ edits' = edits + 1
    /\ config' = edits'
    /\ UNCHANGED <<running, manage>>
    /\ ForcedSave("loop")
    /\ UNCHANGED <<taskVars, stopping, booting, exchangeVars, restarts, history>>

\* Mutant of EnsureAlive: it does not look whether the task is done.
EnsureAnother ==
    /\ LoopFree
    /\ Wanted
    /\ CreateTask(task)
    /\ UNCHANGED <<sessionVars, stopping, booting, disk, exchangeVars, restarts, history>>

\* Mutant of EnsureAlive: a stopped session that manages its positions is forgotten.
EnsureRunning ==
    /\ LoopFree
    /\ running
    /\ CurDone
    /\ CreateTask(task)
    /\ UNCHANGED <<sessionVars, stopping, booting, disk, exchangeVars, restarts, history>>

\* _ensure_autotrade_task_alive, by the watchdog and by autotrade_status.
EnsureAlive ==
    /\ LoopFree
    /\ Wanted
    /\ CurDone
    /\ CreateTask(task)
    /\ UNCHANGED <<sessionVars, stopping, booting, disk, exchangeVars, restarts, history>>

-----------------------------------------------------------------------------
(* One cycle of _autotrade_loop, in the task t.                             *)

At(t, pc) == LoopFree /\ task[t].pc = pc
Goto(t, pc) == task' = [task EXCEPT ![t].pc = pc]
Sleep(t) == task' = [task EXCEPT ![t] = Asleep]
RestUnchanged == UNCHANGED <<cur, stopping, booting, restarts, history>>

\* A cycle that tunes its copy of the configuration (another symbol, a scan instead of
\* the fixed symbol, a raised amount, another margin type) makes it the configuration.
CopyBack(t) ==
    /\ config' \in {config, task[t].cfg}
    /\ UNCHANGED <<running, manage, edits>>

\* Mutant of Wake: the loop is a plain "while True".
WakeAlways(t) ==
    /\ At(t, "asleep")
    /\ config' = IF config = NoConfig THEN Defaults ELSE config
    /\ task' = [task EXCEPT ![t] = [pc |-> "guarding", cfg |-> config',
                                    entries |-> running, tries |-> 1]]
    /\ UNCHANGED <<running, manage, edits, disk, exchangeVars>>
    /\ RestUnchanged

\* Mutant of Wake: whoever manages positions may enter too.
WakeEntering(t) ==
    /\ At(t, "asleep")
    /\ config' = IF Wanted /\ config = NoConfig THEN Defaults ELSE config
    /\ task' = [task EXCEPT ![t] = IF Wanted
                                   THEN [pc |-> "guarding", cfg |-> config',
                                         entries |-> Wanted, tries |-> 1]
                                   ELSE Done]
    /\ UNCHANGED <<running, manage, edits, disk, exchangeVars>>
    /\ RestUnchanged

\* The head of the loop: a cycle keeps its own copy of the configuration and of
\* "running" until its end.
Wake(t) ==
    /\ At(t, "asleep")
    /\ config' = IF Wanted /\ config = NoConfig THEN Defaults ELSE config
    /\ task' = [task EXCEPT ![t] = IF Wanted
                                   THEN [pc |-> "guarding", cfg |-> config',
                                         entries |-> running, tries |-> 1]
                                   ELSE Done]
    /\ UNCHANGED <<running, manage, edits, disk, exchangeVars>>
    /\ RestUnchanged

\* _manage_live_open_positions_once closes a position.
GuardianCloses(t) ==
    /\ At(t, "guarding")
    /\ qty > 0
    /\ qty' = 0
    /\ Sleep(t)
    /\ UNCHANGED <<sessionVars, flights>>
    /\ ForcedSave("loop")
    /\ RestUnchanged

GuardianHolds(t) ==
    /\ At(t, "guarding")
    /\ Goto(t, IF task[t].entries THEN "scanning" ELSE "managing")
    /\ UNCHANGED <<sessionVars, disk, exchangeVars>>
    /\ RestUnchanged

\* Positions are seen, perhaps in the 25 s old cache: keep managing.
ManageKeeps(t) ==
    /\ At(t, "managing")
    /\ Sleep(t)
    /\ UNCHANGED <<sessionVars, disk, exchangeVars>>
    /\ RestUnchanged

\* No position is seen, be it that there is none, that the cache is old or that
\* the request failed.
ManageDrops(t) ==
    /\ At(t, "managing")
    /\ manage' = FALSE
    /\ Sleep(t)
    /\ UNCHANGED <<running, config, edits, exchangeVars>>
    /\ ThrottledSave
    /\ RestUnchanged

\* A window or cooldown is closed, the scan picks nothing, a gate or the
\* pre-flight turns the candidate down.
Skip(t) ==
    /\ At(t, "scanning") \/ At(t, "checking")
    /\ CopyBack(t)
    /\ ThrottledSave
    /\ Sleep(t)
    /\ UNCHANGED exchangeVars
    /\ RestUnchanged

\* A symbol is picked.
Pick(t) ==
    /\ At(t, "scanning")
    /\ CopyBack(t)
    /\ ThrottledSave
    /\ Goto(t, "checking")
    /\ UNCHANGED exchangeVars
    /\ RestUnchanged

\* _position_side_state is asked anew and says FLAT; the last gates are passed.
CheckFlat(t) ==
    /\ At(t, "checking")
    /\ qty = 0
    /\ CopyBack(t)
    /\ Goto(t, "placing")
    /\ UNCHANGED <<disk, exchangeVars>>
    /\ RestUnchanged

\* place_futures_order comes to new_order, which a thread sends.
Send(t) ==
    /\ At(t, "placing")
    /\ Goto(t, "sent")
    /\ late' = IF running THEN late ELSE late + 1
    /\ UNCHANGED <<sessionVars, cur, stopping, booting, disk, exchangeVars, restarts,
                   last, began>>

\* The exchange fills it; TP and SL are next.
Filled(t) ==
    /\ At(t, "sent")
    /\ qty < MaxPos
    /\ qty' = qty + 1
    /\ Goto(t, "protecting")
    /\ UNCHANGED <<sessionVars, disk, flights>>
    /\ RestUnchanged

\* Mutant of PlaceTimeout: every timeout is answered by another try.
PlaceAgain(t) ==
    LET orphan == IF At(t, "sent") THEN 1 ELSE 0
    IN  /\ LoopFree
        /\ task[t].pc \in {"placing", "sent", "protecting"}
        /\ flights + orphan <= MaxFlights
        /\ flights' = flights + orphan
        /\ task' = [task EXCEPT ![t].pc = "placing", ![t].tries = @ + 1]
        /\ UNCHANGED <<sessionVars, qty, disk>>
        /\ RestUnchanged

\* wait_for gives up: the first time everything after the check is done again.
PlaceTimeout(t) ==
    LET orphan == IF At(t, "sent") THEN 1 ELSE 0
    IN  /\ LoopFree
        /\ task[t].pc \in {"placing", "sent", "protecting"}
        /\ flights + orphan <= MaxFlights
        /\ flights' = flights + orphan
        /\ UNCHANGED <<sessionVars, qty>>
        /\ \/ /\ task[t].tries = 1
              /\ task' = [task EXCEPT ![t].pc = "placing", ![t].tries = 2]
              /\ UNCHANGED disk
           \/ /\ task[t].tries = 2
              /\ Sleep(t)
              /\ ThrottledSave
        /\ RestUnchanged

\* The entry is recorded and the cycle is over.
Recorded(t) ==
    /\ At(t, "protecting")
    /\ Sleep(t)
    /\ UNCHANGED <<sessionVars, exchangeVars>>
    /\ ThrottledSave
    /\ RestUnchanged

\* An order that was too small, or margin that is short, changes the configuration that
\* is there; where a reset has left none, the first makes one.
Repaired(t) == IF config = NoConfig /\ task[t].pc \in {"placing", "sent"}
               THEN {NoConfig, Defaults} ELSE {config}

\* Something raises, an order is refused: the loop sleeps, or dies of a
\* programming error or of its fifteenth error in a row.
Fail(t) ==
    /\ LoopFree
    /\ task[t].pc \in {"guarding", "scanning", "checking", "placing", "sent", "protecting",
                      "repairing"}
    /\ UNCHANGED <<running, manage, edits, exchangeVars>>
    /\ \/ config' \in Repaired(t) /\ Sleep(t) /\ ThrottledSave
       \/ task' = [task EXCEPT ![t] = Done] /\ UNCHANGED <<config, disk>>
    /\ RestUnchanged

\* Two repairs ask the exchange first (the position, -4050; the filters of the symbol,
\* QTY_TOO_SMALL), with the configuration of now in hand.
Refused(t) ==
    /\ At(t, "placing") \/ At(t, "sent")
    /\ config # NoConfig
    /\ task' = [task EXCEPT ![t] = [Fresh("repairing") EXCEPT !.cfg = config]]
    /\ UNCHANGED <<sessionVars, disk, exchangeVars>>
    /\ RestUnchanged

\* With the answer that configuration is changed and made the configuration, whatever it
\* is by then.
Repairs(t) ==
    /\ At(t, "repairing")
    /\ CopyBack(t)
    /\ ThrottledSave
    /\ Sleep(t)
    /\ UNCHANGED exchangeVars
    /\ RestUnchanged

CycleStep(t) ==
    \/ Wake(t) \/ GuardianCloses(t) \/ GuardianHolds(t) \/ ManageKeeps(t)
    \/ ManageDrops(t) \/ Skip(t) \/ Pick(t) \/ CheckFlat(t) \/ Send(t) \/ Filled(t)
    \/ PlaceTimeout(t) \/ Recorded(t) \/ Fail(t) \/ Refused(t) \/ Repairs(t)

-----------------------------------------------------------------------------
(* The exchange and the process.                                            *)

\* An order nobody waits for is filled or refused.
Lands ==
    /\ flights > 0
    /\ flights' = flights - 1
    /\ qty' \in {qty, qty + 1} /\ qty' <= MaxPos
    /\ UNCHANGED <<sessionVars, taskVars, stopping, booting, disk, restarts, history>>

\* A TP or SL triggers, or the owner closes by hand.
ClosedOutside ==
    /\ qty > 0
    /\ qty' = 0
    /\ UNCHANGED <<sessionVars, taskVars, stopping, booting, disk, flights, restarts, history>>

\* The process dies; the next one loads the snapshot, which does not say whether
\* positions were being managed.
Restart ==
    /\ restarts < MaxRestarts
    /\ restarts' = restarts + 1
    /\ LeftBehind <= MaxFlights
    /\ flights' = LeftBehind
    /\ running' = FALSE /\ manage' = FALSE
    /\ config' = saved.config
    /\ cur' = NoTask /\ task' = [t \in Tasks |-> Done]
    /\ stopping' = FALSE /\ booting' = TRUE
    /\ drafts' = NoDrafts
    /\ last' = IF last \in Savers THEN "unsaved" ELSE last
    /\ began' = 0
    /\ UNCHANGED <<edits, saved, qty, late>>

\* _maybe_resume: a new session with the configuration that is there.
Resume ==
    /\ LoopFree
    /\ booting
    /\ booting' = FALSE
    /\ LET cfg == IF config # NoConfig THEN config ELSE saved.config
       IN
       \/ /\ ~running /\ saved.running /\ cfg # NoConfig
          /\ config' = cfg
          /\ running' = TRUE
          /\ IF CurDone THEN CreateTask(task) ELSE UNCHANGED taskVars
          /\ last' = "on" /\ late' = 0
          /\ UNCHANGED <<manage, edits>>
       \/ /\ running \/ ~saved.running \/ cfg = NoConfig
          /\ UNCHANGED <<sessionVars, taskVars, last, late>>
    /\ UNCHANGED <<stopping, disk, exchangeVars, restarts, began>>

Handlers == Start \/ StopOnLoop \/ StopBegins \/ StopEnds \/ Reset \/ UpdateConfig

Next ==
    \/ Handlers
    \/ EnsureAlive
    \/ \E t \in Tasks : CycleStep(t)
    \/ \E w \in Savers : Written(w)
    \/ Lands \/ ClosedOutside
    \/ Restart \/ Resume

Spec == Init /\ [][Next]_vars

(***************************************************************************)
(* Fairness.  Every request of a cycle has a timeout and every sleep ends, *)
(* so a live task that is ready comes to its turn, and so does the         *)
(* watchdog, a task that never ends and looks every 10 s: the event loop   *)
(* runs what is ready in the order in which it became ready, however often *)
(* it stands still for a save (strong).  A save of the loop ends.  Nothing *)
(* is promised of users, of the threads or of the exchange.                *)
(***************************************************************************)
Fairness ==
    /\ \A t \in Tasks : SF_vars(CycleStep(t))
    /\ SF_vars(EnsureAlive)
    /\ WF_vars(Written("loop"))

FairSpec == Spec /\ Fairness

-----------------------------------------------------------------------------
(* What the session promises.                                               *)

\* Start, stop, watchdog and resume each create tasks; whatever their order, no two
\* loops trade side by side, and the one that lives is the one the handlers know.
OneLoop == \A t \in Tasks : Alive(t) => t = cur

\* The configuration is never older than the one of the last start: no cycle of an
\* earlier session writes its copy back into a later one.
SessionConfig == config >= began

SwitchedOnBy(A) == A /\ ~running /\ running'

\* A stop or reset whose own write went through, with no payload of a session that was on
\* still on its way, stays a stop across a restart, however many others save after it and
\* whatever becomes of their writes.
StopIsDurable == [][SwitchedOnBy(Resume) => last # "stopped"]_vars

\* Orders that a loop task may still send before it looks at "running" again.
SendsLeft(r) ==
    IF r.pc \in {"guarding", "scanning", "checking"} /\ r.entries THEN 2
    ELSE IF r.pc = "placing" THEN 3 - r.tries
    ELSE IF r.pc \in {"sent", "protecting"} THEN 2 - r.tries
    ELSE 0

PermitsLeft == IF cur = NoTask THEN 0 ELSE SendsLeft(task[cur])

\* "running" is looked at at the head of a cycle only.  The orders sent all the same are
\* those of one cycle, two at most: the session implements OrderPermits.
Permits == INSTANCE OrderPermits WITH on <- running, left <- PermitsLeft
OrdersArePermitted == Permits!Spec

\* While the session runs or manages positions, a loop that died, or that ended
\* between the two halves of a stop, is replaced.
LoopRevived == Wanted ~> (~Wanted \/ \E t \in Tasks : Alive(t))

\* Once the session is off and manages nothing, the loop comes to its end.
LoopEnds == ~Wanted ~> (Wanted \/ \A t \in Tasks : ~Alive(t))
=============================================================================
