---------------------------- MODULE BotSupervision ----------------------------
(***************************************************************************)
(* Who keeps the bot running, and who keeps it stopped.                    *)
(*                                                                         *)
(* cmux (cmux_service.py) is a threaded server in front of the backend.    *)
(* What the operator wants of the bot it keeps in bot_desired.json; its    *)
(* watchdog thread revives a backend that does not answer and starts a bot *)
(* that should run and does not.  hermes_service.py starts and stops the   *)
(* backend's process and sends it the requests; the backend (main.py) has  *)
(* a snapshot of its own, from which it resumes.                           *)
(*                                                                         *)
(* Abstracted: of a configuration only whether it names a symbol, which is *)
(* what the watchdog asks of it.  Each kind of request is in flight once   *)
(* at a time; a request that the backend does not answer in time may still *)
(* be executed later.  Grace periods and retry gaps are choices.  The      *)
(* backend was launched by hermes_service, which has its pid on file.      *)
(***************************************************************************)
EXTENDS Naturals

CONSTANTS
    MaxRequests,    \* bound: requests of the operator
    MaxFaults       \* bound: crashes and hangs of a process

ASSUME SupervisionAssumption == {MaxRequests, MaxFaults} \subseteq Nat

VARIABLES
    want,       \* bot_desired.json
    proc,       \* the backend's process
    bot,        \* AUTO_TRADE["running"] in it
    snap,       \* "running" in its snapshot
    queue,      \* requests whose sender has given up, and that may still be executed
    at,         \* the two threads that call hermes_service.start(): where they are, what for
    stopper,    \* the thread of a /bot/stop
    editor,     \* the thread of a /bot/config
    adopts,     \* can netstat's output be matched (Windows), so that listeners are adopted?
    requests,
    faults,
    held        \* history: a stop has answered and nobody has asked for a start since

backendVars == <<proc, bot, snap, queue>>
vars == <<want, backendVars, at, stopper, editor, adopts, requests, faults, held>>

-----------------------------------------------------------------------------
Procs == {"down", "warming", "up", "hung"}
Threads == {"starter", "watch"}

\* hermes_service.start() is called for /service/start and /bot/start, to revive a
\* backend, and before a bot is resumed.
Goals == {"service", "bot", "revive", "resume"}

Wishes == [run : BOOLEAN, named : BOOLEAN]
Unwanted == [run |-> FALSE, named |-> FALSE]

Rest == [pc |-> "rest", goal |-> "service"]
NoStop == [pc |-> "idle", quiet |-> FALSE]
NoEdit == [pc |-> "idle", names |-> FALSE, old |-> Unwanted]

\* A /bot/stop after which only a new request may bring the bot back: nobody has
\* already decided to start it.
Quiet ==
    /\ ~ (at["starter"].pc # "rest" /\ at["starter"].goal = "bot")
    /\ ~ (at["watch"].pc # "rest" /\ at["watch"].goal = "resume" /\ at["watch"].pc # "reading")
    /\ editor.pc # "saving"
    /\ "start" \notin queue

\* What is forgotten when an operator asks for the bot to run.
Asked == held' = FALSE /\ stopper' = [stopper EXCEPT !.quiet = FALSE]
NotAsked == UNCHANGED <<held, stopper>>

CanRequest == requests < MaxRequests
Request == CanRequest /\ requests' = requests + 1

Init ==
    /\ want = Unwanted /\ proc = "down" /\ bot = FALSE /\ snap = FALSE /\ queue = {}
    /\ at = [p \in Threads |-> Rest] /\ stopper = NoStop /\ editor = NoEdit
    /\ adopts \in BOOLEAN /\ requests = 0 /\ faults = 0 /\ held = FALSE

-----------------------------------------------------------------------------
(* hermes_service.start()                                                   *)

\* A new process; the recorded one, should it live, is killed first.
Spawned == proc' = "warming" /\ bot' = FALSE /\ queue' = {} /\ UNCHANGED snap

\* Mutant of After: a revived backend is asked to start the bot at once.
AfterUnread(goal) == IF goal = "service" THEN Rest ELSE [pc |-> "asking", goal |-> goal]

\* What the thread does when the service is said to be there.  A revived backend is
\* asked nothing before bot_desired.json has been read.
After(goal) ==
    IF goal = "service" THEN Rest
    ELSE IF goal = "revive" THEN [pc |-> "reading", goal |-> "resume"]
    ELSE [pc |-> "asking", goal |-> goal]

\* A healthy backend will do; and so will whatever listens on the port.
StartFinds(p) ==
    /\ at[p].pc = "launching"
    /\ proc = "up" \/ (proc = "hung" /\ adopts)
    /\ at' = [at EXCEPT ![p] = After(@.goal)]
    /\ UNCHANGED <<want, backendVars, editor, adopts, requests, faults>> /\ NotAsked

StartSpawns(p) ==
    /\ at[p].pc = "launching"
    /\ proc # "up" /\ ~ (proc = "hung" /\ adopts)
    /\ Spawned
    /\ at' = [at EXCEPT ![p].pc = "waiting"]
    /\ UNCHANGED <<want, editor, adopts, requests, faults>> /\ NotAsked

\* Healthy, or still alive at the deadline; a process that has died is an error.
StartWaits(p) ==
    /\ at[p].pc = "waiting"
    /\ at' = [at EXCEPT ![p] = IF proc = "down" THEN Rest ELSE After(@.goal)]
    /\ UNCHANGED <<want, backendVars, editor, adopts, requests, faults>> /\ NotAsked

\* A save of the snapshot that the throttle may put off.
ThrottledSave == snap' = bot' \/ UNCHANGED snap

\* autotrade_start(): the session runs.
Accepted == proc = "up" /\ bot' = TRUE /\ ThrottledSave /\ UNCHANGED <<proc, queue>>

\* autotrade_stop(), though it may raise before it saves.
Halted == proc = "up" /\ bot' = FALSE /\ ThrottledSave /\ UNCHANGED <<proc, queue>>

\* A request that is refused, or finds no server, or waits in one that hangs.
Unheard(request) ==
    /\ queue' = queue \/ (proc = "hung" /\ queue' = queue \cup {request})
    /\ UNCHANGED <<proc, bot, snap>>

-----------------------------------------------------------------------------
(* /bot/start, /service/start                                               *)

StartBegins(goal) ==
    /\ at["starter"].pc = "rest" /\ Request
    /\ at' = [at EXCEPT !["starter"] = [pc |-> "launching", goal |-> goal]]
    /\ IF goal = "bot" THEN Asked ELSE NotAsked
    /\ UNCHANGED <<want, backendVars, editor, adopts, faults>>

StartAsks ==
    /\ at["starter"].pc = "asking" /\ Accepted
    /\ at' = [at EXCEPT !["starter"].pc = "saving"]
    /\ UNCHANGED <<want, editor, adopts, requests, faults>> /\ NotAsked

\* The backend refuses, does not answer in time, or is not there: nothing is saved.
StartUnanswered ==
    /\ at["starter"].pc = "asking"
    /\ Accepted \/ Unheard("start")
    /\ at' = [at EXCEPT !["starter"] = Rest]
    /\ UNCHANGED <<want, editor, adopts, requests, faults>> /\ NotAsked

StartSaves ==
    /\ at["starter"].pc = "saving"
    /\ \E named \in BOOLEAN : want' = [run |-> TRUE, named |-> named]
    /\ at' = [at EXCEPT !["starter"] = Rest]
    /\ UNCHANGED <<backendVars, editor, adopts, requests, faults>> /\ NotAsked

-----------------------------------------------------------------------------
(* /bot/stop, /bot/config                                                   *)

\* Mutant of StopBegins: what is wanted is left to the end of the request.
StopBeginsUnsaved ==
    /\ stopper.pc = "idle" /\ Request
    /\ want' \in {want, Unwanted}
    /\ stopper' = [pc |-> "asking", quiet |-> Quiet]
    /\ UNCHANGED <<backendVars, at, editor, adopts, faults, held>>

\* First what is wanted ...
StopBegins ==
    /\ stopper.pc = "idle" /\ Request
    /\ want' = Unwanted
    /\ stopper' = [pc |-> "asking", quiet |-> Quiet]
    /\ UNCHANGED <<backendVars, at, editor, adopts, faults, held>>

\* ... then the backend is asked, and saves its snapshot before it answers.
StopAsks ==
    /\ stopper.pc = "asking" /\ proc = "up"
    /\ bot' = FALSE /\ snap' = FALSE
    /\ held' = (held \/ stopper.quiet)
    /\ stopper' = NoStop
    /\ UNCHANGED <<want, proc, queue, at, editor, adopts, requests, faults>>

\* No answer, or an error: the stop may have been executed in full, not at all, up to
\* the error before the snapshot, or may still wait in a backend that hangs.
StopUnanswered ==
    /\ stopper.pc = "asking"
    /\ Halted \/ Unheard("stop")
    /\ stopper' = NoStop
    /\ UNCHANGED <<want, at, editor, adopts, requests, faults, held>>

\* The backend has taken the edit: what is wanted is read and, if the bot is to run, ...
ConfigLoads ==
    /\ editor.pc = "idle" /\ proc = "up" /\ Request
    /\ \E names \in BOOLEAN :
           editor' = IF want.run THEN [pc |-> "saving", names |-> names, old |-> want] ELSE NoEdit
    /\ UNCHANGED <<want, backendVars, at, adopts, faults>> /\ NotAsked

\* ... written back with the edit.
ConfigSaves ==
    /\ editor.pc = "saving"
    /\ want' = [run |-> TRUE, named |-> editor.old.named \/ editor.names]
    /\ editor' = NoEdit
    /\ UNCHANGED <<backendVars, at, adopts, requests, faults>> /\ NotAsked

-----------------------------------------------------------------------------
(* The watchdog thread                                                      *)

\* Mutant of WatchSees: only a bot that was running when it was last saved is looked at.
WatchSeesSaved ==
    /\ at["watch"].pc = "rest" /\ proc = "up" /\ ~bot /\ snap
    /\ at' = [at EXCEPT !["watch"] = [pc |-> "reading", goal |-> "resume"]]
    /\ UNCHANGED <<want, backendVars, editor, adopts, requests, faults>> /\ NotAsked

\* The backend answers, and says that the bot does not run.
WatchSees ==
    /\ at["watch"].pc = "rest" /\ proc = "up" /\ ~bot
    /\ at' = [at EXCEPT !["watch"] = [pc |-> "reading", goal |-> "resume"]]
    /\ UNCHANGED <<want, backendVars, editor, adopts, requests, faults>> /\ NotAsked

\* Mutant of WatchRevives: only a backend whose bot is to run is revived.
WatchRevivesWanted ==
    /\ at["watch"].pc = "rest" /\ proc # "up" /\ want.run
    /\ at' = [at EXCEPT !["watch"] = [pc |-> "launching", goal |-> "revive"]]
    /\ UNCHANGED <<want, backendVars, editor, adopts, requests, faults>> /\ NotAsked

\* The backend does not answer, and no grace period covers it.
WatchRevives ==
    /\ at["watch"].pc = "rest" /\ proc # "up"
    /\ at' = [at EXCEPT !["watch"] = [pc |-> "launching", goal |-> "revive"]]
    /\ UNCHANGED <<want, backendVars, editor, adopts, requests, faults>> /\ NotAsked

\* The bot is to run, and the configuration to start it with names a symbol.
WatchReads ==
    /\ at["watch"].pc = "reading" /\ want.run /\ want.named
    /\ at' = [at EXCEPT !["watch"].pc = "launching"]
    /\ UNCHANGED <<want, backendVars, editor, adopts, requests, faults>> /\ NotAsked

\* It is not; or the file is being written; or the last attempt was too recent.
WatchDeclines ==
    /\ at["watch"].pc = "reading"
    /\ at' = [at EXCEPT !["watch"] = Rest]
    /\ UNCHANGED <<want, backendVars, editor, adopts, requests, faults>> /\ NotAsked

\* A backend that resumed its session by itself is started a second time.
WatchResumes ==
    /\ at["watch"].pc = "asking" /\ Accepted
    /\ at' = [at EXCEPT !["watch"] = Rest]
    /\ UNCHANGED <<want, editor, adopts, requests, faults>> /\ NotAsked

WatchUnanswered ==
    /\ at["watch"].pc = "asking"
    /\ Unheard("start")
    /\ at' = [at EXCEPT !["watch"] = Rest]
    /\ UNCHANGED <<want, editor, adopts, requests, faults>> /\ NotAsked

-----------------------------------------------------------------------------
(* The backend, and those who reach it without cmux                         *)

\* The process serves, and has resumed what its snapshot says.
Warm ==
    /\ proc = "warming" /\ proc' = "up" /\ bot' = snap
    /\ UNCHANGED <<want, snap, queue, at, editor, adopts, requests, faults>> /\ NotAsked

\* The snapshot is saved with whatever else the backend has to save.
Saves ==
    /\ proc = "up" /\ snap' = bot
    /\ UNCHANGED <<want, proc, bot, queue, at, editor, adopts, requests, faults>> /\ NotAsked

\* A request that was sent to a hanging backend is executed after all.
Lands ==
    /\ proc = "up"
    /\ \/ "start" \in queue /\ queue' = queue \ {"start"}
          /\ bot' = TRUE /\ ThrottledSave
       \/ "stop" \in queue /\ queue' = queue \ {"stop"}
          /\ bot' = FALSE /\ ThrottledSave
    /\ UNCHANGED <<want, proc, at, editor, adopts, requests, faults>> /\ NotAsked

\* The backend's own routes, and `cmux_service.py bot-stop`: bot_desired.json is not told.
DirectStart ==
    /\ Request /\ Accepted /\ Asked
    /\ UNCHANGED <<want, at, editor, adopts, faults>>

DirectStop ==
    /\ Request /\ proc = "up" /\ bot' = FALSE /\ snap' = FALSE
    /\ UNCHANGED <<want, proc, queue, at, editor, adopts, faults>> /\ NotAsked

\* /service/stop: the process is terminated.
ServiceStops ==
    /\ Request /\ proc # "down"
    /\ proc' = "down" /\ bot' = FALSE /\ queue' = {}
    /\ UNCHANGED <<want, snap, at, editor, adopts, faults>> /\ NotAsked

Fault == faults < MaxFaults /\ faults' = faults + 1

Crashes ==
    /\ Fault /\ proc # "down"
    /\ proc' = "down" /\ bot' = FALSE /\ queue' = {}
    /\ UNCHANGED <<want, snap, at, editor, adopts, requests>> /\ NotAsked

Hangs ==
    /\ Fault /\ proc = "up" /\ proc' = "hung"
    /\ UNCHANGED <<want, bot, snap, queue, at, editor, adopts, requests>> /\ NotAsked

Recovers ==
    /\ proc = "hung" /\ proc' = "up"
    /\ UNCHANGED <<want, bot, snap, queue, at, editor, adopts, requests, faults>> /\ NotAsked

\* cmux dies; a file it was writing is unreadable, which counts as not running.  The
\* backend is in a session of its own and lives on.
CmuxCrashes ==
    /\ Fault
    /\ at' = [p \in Threads |-> Rest] /\ stopper' = NoStop /\ editor' = NoEdit
    /\ \/ UNCHANGED want
       \/ "saving" \in {at["starter"].pc, editor.pc} /\ want' = Unwanted
    /\ UNCHANGED <<backendVars, adopts, requests, held>>

-----------------------------------------------------------------------------
Starting == \E p \in Threads : StartFinds(p) \/ StartSpawns(p) \/ StartWaits(p)

Operator ==
    \/ \E goal \in {"service", "bot"} : StartBegins(goal)
    \/ StartAsks \/ StartUnanswered \/ StartSaves
    \/ StopBegins \/ StopAsks \/ StopUnanswered \/ ConfigLoads \/ ConfigSaves

Watching == WatchSees \/ WatchRevives \/ WatchReads \/ WatchDeclines \/ WatchResumes \/ WatchUnanswered

Backend ==
    \/ Warm \/ Saves \/ Lands \/ DirectStart \/ DirectStop
    \/ ServiceStops \/ Crashes \/ Hangs \/ Recovers \/ CmuxCrashes

Next == Starting \/ Operator \/ Watching \/ Backend

Spec == Init /\ [][Next]_vars

\* The watchdog is a thread that is never abandoned; its attempts are not refused, and
\* do not meet its own retry gap, for ever; and a process that is launched serves in the end.
Fairness ==
    /\ WF_vars(WatchSees) /\ WF_vars(WatchRevives)
    /\ WF_vars(StartFinds("watch") \/ StartSpawns("watch") \/ StartWaits("watch"))
    /\ SF_vars(WatchReads) /\ SF_vars(WatchResumes)
    /\ WF_vars(WatchDeclines) /\ WF_vars(WatchUnanswered)
    /\ WF_vars(Warm)

FairSpec == Spec /\ Fairness

-----------------------------------------------------------------------------
BackendOK ==
    /\ want \in Wishes /\ proc \in Procs
    /\ bot \in BOOLEAN /\ snap \in BOOLEAN
    /\ queue \subseteq {"start", "stop"}
    /\ proc \in {"down", "warming"} => ~bot /\ queue = {}

ThreadsOK ==
    /\ at \in [Threads -> [pc : {"rest", "launching", "waiting", "asking", "saving", "reading"},
                           goal : Goals]]
    /\ at["starter"].goal \in {"service", "bot"}
    /\ at["watch"].goal \in {"revive", "resume"} \/ at["watch"].pc = "rest"
    /\ at["starter"].pc \in {"asking", "saving"} => at["starter"].goal = "bot"
    /\ at["watch"].pc \in {"asking", "reading"} => at["watch"].goal = "resume"

RequestsOK ==
    /\ stopper \in [pc : {"idle", "asking"}, quiet : BOOLEAN]
    /\ editor \in [pc : {"idle", "saving"}, names : BOOLEAN, old : Wishes]
    /\ adopts \in BOOLEAN /\ held \in BOOLEAN
    /\ requests \in 0 .. MaxRequests /\ faults \in 0 .. MaxFaults

\* Every variable has its type; a process that does not serve yet has no session and no
\* requests; the watchdog asks for nothing but a resume, whose wish it has read.
TypeOK == BackendOK /\ ThreadsOK /\ RequestsOK

\* A stop that was answered, and found nobody who had already decided to start the bot,
\* holds: neither the watchdog, nor a config edit, nor a revived backend, nor a late
\* request brings the bot back before somebody asks for it (cmux_service.py, /bot/stop
\* and _bot_watchdog_maybe_resume; main.py, _maybe_resume).
StopHolds == held => ~bot

\* A bot that is wanted runs in the end, however often it or the backend was stopped
\* behind cmux's back, unless it is no longer wanted, its configuration names no symbol,
\* or a backend that hangs was adopted (_hermes_watchdog_loop).
Supervised ==
    (want.run /\ want.named)
        ~> (bot \/ ~ (want.run /\ want.named) \/ (adopts /\ proc = "hung"))

\* A backend that does not serve is made to, except that one that hangs on its port is
\* taken for a running one where listeners are adopted (hermes_service.start).
BackendRevived == (proc # "up") ~> (proc = "up" \/ (adopts /\ proc = "hung"))
=============================================================================
