------------------------- MODULE BotSupervisionProofs -------------------------
(***************************************************************************)
(* Proofs about BotSupervision, for any number of requests and faults: the *)
(* type invariant, and that an answered stop holds.                        *)
(***************************************************************************)
EXTENDS BotSupervision, TLAPS

\* Nobody wants the bot to run, and nobody is about to start it.
Nobody == ~want.run /\ Quiet

\* A stop that holds has reached memory and snapshot, and Nobody; so has, all but the
\* backend, a stop on its way that was quiet when it began.
HoldInv ==
    /\ held => ~bot /\ ~snap /\ Nobody
    /\ stopper.pc = "asking" /\ stopper.quiet => Nobody

IInv == TypeOK /\ HoldInv

-----------------------------------------------------------------------------
LEMMA Bounds == MaxRequests \in Nat /\ MaxFaults \in Nat
BY SupervisionAssumption

LEMMA InitType == Init => TypeOK
<1> SUFFICES ASSUME Init PROVE TypeOK
    OBVIOUS
<1> USE DEF Init, Unwanted, Wishes
<1>1. BackendOK
    BY DEF BackendOK, Procs
<1>2. ThreadsOK
    BY DEF ThreadsOK, Rest, Threads, Goals
<1>3. RequestsOK
  <2>1. stopper \in [pc : {"idle", "asking"}, quiet : BOOLEAN]
      BY DEF NoStop
  <2>2. editor \in [pc : {"idle", "saving"}, names : BOOLEAN, old : Wishes]
      BY DEF NoEdit
  <2>3. adopts \in BOOLEAN /\ held \in BOOLEAN
      OBVIOUS
  <2>4. requests \in 0 .. MaxRequests /\ faults \in 0 .. MaxFaults
      BY Bounds
  <2> QED BY <2>1, <2>2, <2>3, <2>4 DEF RequestsOK
<1> QED BY <1>1, <1>2, <1>3 DEF TypeOK

\* Whatever becomes of a request, the backend keeps its types.
LEMMA Answered ==
    ASSUME BackendOK, UNCHANGED want \/ want' \in Wishes,
           Accepted \/ Halted \/ Unheard("start") \/ Unheard("stop")
    PROVE  BackendOK'
<1> USE DEF BackendOK, Procs
<1>1. CASE Accepted
    BY <1>1 DEF Accepted, ThrottledSave
<1>2. CASE Halted
    BY <1>2 DEF Halted, ThrottledSave
<1>3. CASE Unheard("start")
    BY <1>3 DEF Unheard
<1>4. CASE Unheard("stop")
    BY <1>4 DEF Unheard
<1> QED BY <1>1, <1>2, <1>3, <1>4

\* What is wanted, the process and its session keep their types; no process that does not
\* serve has a session.
LEMMA BackendStays == TypeOK /\ [Next]_vars => BackendOK'
<1> SUFFICES ASSUME TypeOK, [Next]_vars PROVE BackendOK'
    OBVIOUS
<1> USE DEF TypeOK, BackendOK, RequestsOK, Wishes, Procs, Unwanted, backendVars, NotAsked
<1>1. ASSUME NEW p \in Threads, StartFinds(p) PROVE BackendOK'
    BY <1>1 DEF StartFinds
<1>2. ASSUME NEW p \in Threads, StartSpawns(p) PROVE BackendOK'
    BY <1>2 DEF StartSpawns, Spawned
<1>3. ASSUME NEW p \in Threads, StartWaits(p) PROVE BackendOK'
    BY <1>3 DEF StartWaits
<1>4. ASSUME NEW goal \in {"service", "bot"}, StartBegins(goal) PROVE BackendOK'
    BY <1>4 DEF StartBegins
<1>5. CASE StartAsks
    BY <1>5, Answered DEF StartAsks
<1>6. CASE StartUnanswered
    BY <1>6, Answered DEF StartUnanswered
<1>7. CASE StartSaves
    BY <1>7 DEF StartSaves
<1>8. CASE StopBegins
    BY <1>8 DEF StopBegins
<1>9. CASE StopAsks
    BY <1>9 DEF StopAsks
<1>10. CASE StopUnanswered
    BY <1>10, Answered DEF StopUnanswered
<1>11. CASE ConfigLoads
    BY <1>11 DEF ConfigLoads
<1>12. CASE ConfigSaves
    BY <1>12 DEF ConfigSaves
<1>13. CASE WatchSees
    BY <1>13 DEF WatchSees
<1>14. CASE WatchRevives
    BY <1>14 DEF WatchRevives
<1>15. CASE WatchReads
    BY <1>15 DEF WatchReads
<1>16. CASE WatchDeclines
    BY <1>16 DEF WatchDeclines
<1>17. CASE WatchResumes
    BY <1>17, Answered DEF WatchResumes
<1>18. CASE WatchUnanswered
    BY <1>18, Answered DEF WatchUnanswered
<1>19. CASE Warm
    BY <1>19 DEF Warm
<1>20. CASE Saves
    BY <1>20 DEF Saves
<1>21. CASE Lands
    BY <1>21 DEF Lands, ThrottledSave
<1>22. CASE DirectStart
    BY <1>22 DEF DirectStart, Accepted, ThrottledSave
<1>23. CASE DirectStop
    BY <1>23 DEF DirectStop
<1>24. CASE ServiceStops
    BY <1>24 DEF ServiceStops
<1>25. CASE Crashes
    BY <1>25 DEF Crashes
<1>26. CASE Hangs
    BY <1>26 DEF Hangs
<1>27. CASE Recovers
    BY <1>27 DEF Recovers
<1>28. CASE CmuxCrashes
  <2>1. want' = want \/ want' = Unwanted
      BY <1>28 DEF CmuxCrashes
  <2>2. want \in Wishes /\ Unwanted \in Wishes
      OBVIOUS
  <2>3. want' \in Wishes
      BY <2>1, <2>2
  <2> QED BY <1>28, <2>3 DEF CmuxCrashes
<1>29. CASE UNCHANGED vars
    BY <1>29 DEF vars
<1> QED
    BY <1>1, <1>2, <1>3, <1>4, <1>5, <1>6, <1>7, <1>8, <1>9, <1>10, <1>11,
       <1>12, <1>13, <1>14, <1>15, <1>16, <1>17, <1>18, <1>19, <1>20, <1>21,
       <1>22, <1>23, <1>24, <1>25, <1>26, <1>27, <1>28, <1>29
    DEF Next, Starting, Operator, Watching, Backend

\* Only a wish that was read leads to a question, and each caller keeps its goals.
LEMMA GoesOn ==
    ASSUME TypeOK, NEW p \in Threads, at[p].pc # "rest", at' = [at EXCEPT ![p] = After(@.goal)]
    PROVE  ThreadsOK'
<1> DEFINE Pcs == {"rest", "launching", "waiting", "asking", "saving", "reading"}
<1> USE DEF Threads, Goals
<1>1. at \in [Threads -> [pc : Pcs, goal : Goals]] /\ at["starter"].goal \in {"service", "bot"}
    BY DEF TypeOK, ThreadsOK
<1>2. at[p].goal \in Goals
    BY <1>1
<1>3. at' \in [Threads -> [pc : Pcs, goal : Goals]]
  <2>1. After(at[p].goal) \in [pc : Pcs, goal : Goals]
      BY <1>2 DEF After, Rest
  <2> QED BY <1>1, <2>1
<1>4. CASE p = "starter"
  <2>1. at'["starter"] = After(at["starter"].goal) /\ at'["watch"] = at["watch"]
      BY <1>1, <1>4
  <2> QED BY <1>1, <1>3, <2>1 DEF TypeOK, ThreadsOK, After, Rest
<1>5. CASE p = "watch"
  <2>1. at'["watch"] = After(at["watch"].goal) /\ at'["starter"] = at["starter"]
      BY <1>1, <1>5
  <2>2. at["watch"].goal \in {"revive", "resume"}
      BY <1>5 DEF TypeOK, ThreadsOK
  <2>3. at'["watch"].goal = "resume"
      BY <2>1, <2>2 DEF After
  <2> QED BY <1>1, <1>3, <2>1, <2>3 DEF TypeOK, ThreadsOK
<1> QED BY <1>4, <1>5

\* A thread in hermes_service.start() keeps its type and goes on to what it was called for.
LEMMA ThreadsStay == TypeOK /\ [Next]_vars => ThreadsOK'
<1> SUFFICES ASSUME TypeOK, [Next]_vars PROVE ThreadsOK'
    OBVIOUS
<1> USE DEF TypeOK, ThreadsOK, Threads, Goals, Rest
<1>1. ASSUME NEW p \in Threads, StartFinds(p) PROVE ThreadsOK'
    BY <1>1, GoesOn DEF StartFinds
<1>2. ASSUME NEW p \in Threads, StartSpawns(p) PROVE ThreadsOK'
    BY <1>2 DEF StartSpawns
<1>3. ASSUME NEW p \in Threads, StartWaits(p) PROVE ThreadsOK'
  <2>1. CASE proc = "down"
      BY <1>3, <2>1 DEF StartWaits
  <2>2. CASE proc # "down"
      BY <1>3, <2>2, GoesOn DEF StartWaits
  <2> QED BY <2>1, <2>2
<1>4. ASSUME NEW goal \in {"service", "bot"}, StartBegins(goal) PROVE ThreadsOK'
    BY <1>4 DEF StartBegins
<1>5. CASE StartAsks
    BY <1>5 DEF StartAsks
<1>6. CASE StartUnanswered
    BY <1>6 DEF StartUnanswered
<1>7. CASE StartSaves
    BY <1>7 DEF StartSaves
<1>8. CASE StopBegins
    BY <1>8 DEF StopBegins
<1>9. CASE StopAsks
    BY <1>9 DEF StopAsks
<1>10. CASE StopUnanswered
    BY <1>10 DEF StopUnanswered, ThrottledSave
<1>11. CASE ConfigLoads
    BY <1>11 DEF ConfigLoads
<1>12. CASE ConfigSaves
    BY <1>12 DEF ConfigSaves
<1>13. CASE WatchSees
    BY <1>13 DEF WatchSees
<1>14. CASE WatchRevives
    BY <1>14 DEF WatchRevives
<1>15. CASE WatchReads
    BY <1>15 DEF WatchReads
<1>16. CASE WatchDeclines
    BY <1>16 DEF WatchDeclines
<1>17. CASE WatchResumes
    BY <1>17 DEF WatchResumes
<1>18. CASE WatchUnanswered
    BY <1>18 DEF WatchUnanswered
<1>19. CASE Warm
    BY <1>19 DEF Warm
<1>20. CASE Saves
    BY <1>20 DEF Saves
<1>21. CASE Lands
    BY <1>21 DEF Lands, ThrottledSave
<1>22. CASE DirectStart
    BY <1>22 DEF DirectStart
<1>23. CASE DirectStop
    BY <1>23 DEF DirectStop
<1>24. CASE ServiceStops
    BY <1>24 DEF ServiceStops
<1>25. CASE Crashes
    BY <1>25 DEF Crashes
<1>26. CASE Hangs
    BY <1>26 DEF Hangs
<1>27. CASE Recovers
    BY <1>27 DEF Recovers
<1>28. CASE CmuxCrashes
    BY <1>28 DEF CmuxCrashes
<1>29. CASE UNCHANGED vars
    BY <1>29 DEF vars
<1> QED
    BY <1>1, <1>2, <1>3, <1>4, <1>5, <1>6, <1>7, <1>8, <1>9, <1>10, <1>11,
       <1>12, <1>13, <1>14, <1>15, <1>16, <1>17, <1>18, <1>19, <1>20, <1>21,
       <1>22, <1>23, <1>24, <1>25, <1>26, <1>27, <1>28, <1>29
    DEF Next, Starting, Operator, Watching, Backend

LEMMA AskedType ==
    ASSUME RequestsOK, Asked
    PROVE  stopper' \in [pc : {"idle", "asking"}, quiet : BOOLEAN] /\ held' \in BOOLEAN
<1>1. stopper \in [pc : {"idle", "asking"}, quiet : BOOLEAN]
    BY DEF RequestsOK
<1>2. stopper' \in [pc : {"idle", "asking"}, quiet : BOOLEAN]
    BY <1>1 DEF Asked
<1> QED BY <1>2 DEF Asked

\* The requests and the bounds keep their types.
LEMMA RequestsStay == TypeOK /\ [Next]_vars => RequestsOK'
<1> SUFFICES ASSUME TypeOK, [Next]_vars PROVE RequestsOK'
    OBVIOUS
<1> USE DEF TypeOK, BackendOK, RequestsOK, NotAsked, NoStop, NoEdit
<1>1. ASSUME NEW p \in Threads, StartFinds(p) PROVE RequestsOK'
    BY <1>1 DEF StartFinds
<1>2. ASSUME NEW p \in Threads, StartSpawns(p) PROVE RequestsOK'
    BY <1>2 DEF StartSpawns
<1>3. ASSUME NEW p \in Threads, StartWaits(p) PROVE RequestsOK'
    BY <1>3 DEF StartWaits
<1>4. ASSUME NEW goal \in {"service", "bot"}, StartBegins(goal) PROVE RequestsOK'
    BY <1>4, Bounds, AskedType DEF StartBegins, Request, CanRequest
<1>5. CASE StartAsks
    BY <1>5 DEF StartAsks
<1>6. CASE StartUnanswered
    BY <1>6 DEF StartUnanswered
<1>7. CASE StartSaves
    BY <1>7 DEF StartSaves
<1>8. CASE StopBegins
    BY <1>8, Bounds DEF StopBegins, Quiet, Request, CanRequest
<1>9. CASE StopAsks
    BY <1>9 DEF StopAsks
<1>10. CASE StopUnanswered
    BY <1>10 DEF StopUnanswered, ThrottledSave
<1>11. CASE ConfigLoads
    BY <1>11, Bounds DEF ConfigLoads, Request, CanRequest, Wishes, Unwanted
<1>12. CASE ConfigSaves
    BY <1>12 DEF ConfigSaves, Wishes, Unwanted
<1>13. CASE WatchSees
    BY <1>13 DEF WatchSees
<1>14. CASE WatchRevives
    BY <1>14 DEF WatchRevives
<1>15. CASE WatchReads
    BY <1>15 DEF WatchReads
<1>16. CASE WatchDeclines
    BY <1>16 DEF WatchDeclines
<1>17. CASE WatchResumes
    BY <1>17 DEF WatchResumes
<1>18. CASE WatchUnanswered
    BY <1>18 DEF WatchUnanswered
<1>19. CASE Warm
    BY <1>19 DEF Warm
<1>20. CASE Saves
    BY <1>20 DEF Saves
<1>21. CASE Lands
    BY <1>21 DEF Lands, ThrottledSave
<1>22. CASE DirectStart
    BY <1>22, Bounds, AskedType DEF DirectStart, Request, CanRequest
<1>23. CASE DirectStop
    BY <1>23, Bounds DEF DirectStop, Request, CanRequest
<1>24. CASE ServiceStops
    BY <1>24, Bounds DEF ServiceStops, Request, CanRequest
<1>25. CASE Crashes
    BY <1>25, Bounds DEF Crashes, Fault
<1>26. CASE Hangs
    BY <1>26, Bounds DEF Hangs, Fault
<1>27. CASE Recovers
    BY <1>27 DEF Recovers
<1>28. CASE CmuxCrashes
    BY <1>28, Bounds DEF CmuxCrashes, Fault, Wishes, Unwanted
<1>29. CASE UNCHANGED vars
    BY <1>29 DEF vars
<1> QED
    BY <1>1, <1>2, <1>3, <1>4, <1>5, <1>6, <1>7, <1>8, <1>9, <1>10, <1>11,
       <1>12, <1>13, <1>14, <1>15, <1>16, <1>17, <1>18, <1>19, <1>20, <1>21,
       <1>22, <1>23, <1>24, <1>25, <1>26, <1>27, <1>28, <1>29
    DEF Next, Starting, Operator, Watching, Backend

LEMMA NextType == TypeOK /\ [Next]_vars => TypeOK'
BY BackendStays, ThreadsStay, RequestsStay DEF TypeOK

\* Every variable keeps its type; a process that does not serve has no session, and the
\* watchdog never asks for a start that it has not found wanted (hermes_service.start,
\* _hermes_watchdog_loop).
THEOREM SupervisionTypes == Spec => []TypeOK
<1>1. Init => TypeOK
    BY InitType
<1>2. TypeOK /\ [Next]_vars => TypeOK'
    BY NextType
<1> QED BY <1>1, <1>2, PTL DEF Spec

-----------------------------------------------------------------------------
\* Where somebody may start the bot, no stop holds, and none is on its way that will.
LEMMA NotHeld ==
    ASSUME HoldInv, ~Nobody, NotAsked
    PROVE  HoldInv'
<1>1. ~held /\ ~ (stopper.pc = "asking" /\ stopper.quiet)
    BY DEF HoldInv
<1> QED BY <1>1 DEF HoldInv, NotAsked

\* A request to start ends both.
LEMMA AskedForgets ==
    ASSUME RequestsOK, Asked
    PROVE  HoldInv'
<1>1. stopper'.quiet = FALSE
    BY DEF Asked, RequestsOK
<1> QED BY <1>1 DEF HoldInv, Asked

\* As long as nobody is about to start it, a stopped bot stays so.
LEMMA NobodyStays ==
    ASSUME HoldInv, NotAsked, Nobody => Nobody', held => ~bot' /\ ~snap'
    PROVE  HoldInv'
BY DEF HoldInv, NotAsked

\* Each step, for those who are about to start the bot and for those who stop it.
LEMMA HoldStays == TypeOK /\ HoldInv /\ [Next]_vars => HoldInv'
<1> SUFFICES ASSUME TypeOK, HoldInv, [Next]_vars PROVE HoldInv'
    OBVIOUS
<1>1. ASSUME NEW p \in Threads, StartFinds(p) PROVE HoldInv'
  <2>1. Nobody => Nobody'
      BY <1>1 DEF StartFinds, After, Rest, Nobody, Quiet, backendVars, TypeOK, ThreadsOK, Threads
  <2>2. held => ~bot' /\ ~snap'
      BY <1>1 DEF StartFinds, HoldInv, backendVars
  <2> QED BY <1>1, <2>1, <2>2, NobodyStays DEF StartFinds
<1>2. ASSUME NEW p \in Threads, StartSpawns(p) PROVE HoldInv'
  <2>1. Nobody => Nobody'
      BY <1>2 DEF StartSpawns, After, Rest, Nobody, Quiet, backendVars, TypeOK, ThreadsOK, Threads, Spawned
  <2>2. held => ~bot' /\ ~snap'
      BY <1>2 DEF StartSpawns, HoldInv, backendVars, Spawned
  <2> QED BY <1>2, <2>1, <2>2, NobodyStays DEF StartSpawns
<1>3. ASSUME NEW p \in Threads, StartWaits(p) PROVE HoldInv'
  <2>1. Nobody => Nobody'
      BY <1>3 DEF StartWaits, After, Rest, Nobody, Quiet, backendVars, TypeOK, ThreadsOK, Threads
  <2>2. held => ~bot' /\ ~snap'
      BY <1>3 DEF StartWaits, HoldInv, backendVars
  <2> QED BY <1>3, <2>1, <2>2, NobodyStays DEF StartWaits
<1>4. ASSUME NEW goal \in {"service", "bot"}, StartBegins(goal) PROVE HoldInv'
  <2>1. CASE goal = "bot"
      BY <1>4, <2>1, AskedForgets DEF StartBegins, TypeOK
  <2>2. CASE goal = "service"
    <3>1. Nobody => Nobody'
        BY <1>4, <2>2 DEF StartBegins, Nobody, Quiet, backendVars, TypeOK, ThreadsOK, Threads
    <3>2. held => ~bot' /\ ~snap'
        BY <1>4 DEF StartBegins, HoldInv, backendVars
    <3> QED BY <1>4, <2>2, <3>1, <3>2, NobodyStays DEF StartBegins
  <2> QED BY <2>1, <2>2
<1>5. CASE StartAsks
  <2>1. ~Nobody
      BY <1>5 DEF StartAsks, Nobody, Quiet, TypeOK, ThreadsOK
  <2> QED BY <1>5, <2>1, NotHeld DEF StartAsks
<1>6. CASE StartUnanswered
  <2>1. ~Nobody
      BY <1>6 DEF StartUnanswered, Nobody, Quiet, TypeOK, ThreadsOK
  <2> QED BY <1>6, <2>1, NotHeld DEF StartUnanswered
<1>7. CASE StartSaves
  <2>1. ~Nobody
      BY <1>7 DEF StartSaves, Nobody, Quiet, TypeOK, ThreadsOK
  <2> QED BY <1>7, <2>1, NotHeld DEF StartSaves
<1>8. CASE StopBegins
    BY <1>8 DEF StopBegins, HoldInv, Nobody, Quiet, Unwanted, backendVars
<1>9. CASE StopAsks
    BY <1>9 DEF StopAsks, HoldInv, Nobody, Quiet, NoStop
<1>10. CASE StopUnanswered
  <2>1. Nobody => Nobody'
      BY <1>10 DEF StopUnanswered, Halted, Unheard, Nobody, Quiet
  <2>2. held => ~bot' /\ ~snap'
      BY <1>10 DEF StopUnanswered, Halted, Unheard, ThrottledSave, HoldInv
  <2> QED BY <1>10, <2>1, <2>2 DEF StopUnanswered, HoldInv, NoStop
<1>11. CASE ConfigLoads
  <2>1. Nobody => Nobody'
      BY <1>11 DEF ConfigLoads, Nobody, Quiet, backendVars, TypeOK, ThreadsOK, Threads, Unwanted, NoEdit
  <2>2. held => ~bot' /\ ~snap'
      BY <1>11 DEF ConfigLoads, HoldInv, Nobody, Quiet, backendVars
  <2> QED BY <1>11, <2>1, <2>2, NobodyStays DEF ConfigLoads
<1>12. CASE ConfigSaves
  <2>1. ~Nobody
      BY <1>12 DEF ConfigSaves, Nobody, Quiet, TypeOK, ThreadsOK
  <2> QED BY <1>12, <2>1, NotHeld DEF ConfigSaves
<1>13. CASE WatchSees
  <2>1. Nobody => Nobody'
      BY <1>13 DEF WatchSees, Nobody, Quiet, backendVars, TypeOK, ThreadsOK, Threads
  <2>2. held => ~bot' /\ ~snap'
      BY <1>13 DEF WatchSees, HoldInv, Nobody, Quiet, backendVars
  <2> QED BY <1>13, <2>1, <2>2, NobodyStays DEF WatchSees
<1>14. CASE WatchRevives
  <2>1. Nobody => Nobody'
      BY <1>14 DEF WatchRevives, Nobody, Quiet, backendVars, TypeOK, ThreadsOK, Threads
  <2>2. held => ~bot' /\ ~snap'
      BY <1>14 DEF WatchRevives, HoldInv, Nobody, Quiet, backendVars
  <2> QED BY <1>14, <2>1, <2>2, NobodyStays DEF WatchRevives
<1>15. CASE WatchReads
  <2>1. ~Nobody
      BY <1>15 DEF WatchReads, Nobody, Quiet, TypeOK, ThreadsOK
  <2> QED BY <1>15, <2>1, NotHeld DEF WatchReads
<1>16. CASE WatchDeclines
  <2>1. Nobody => Nobody'
      BY <1>16 DEF WatchDeclines, Nobody, Quiet, backendVars, TypeOK, ThreadsOK, Threads, Rest
  <2>2. held => ~bot' /\ ~snap'
      BY <1>16 DEF WatchDeclines, HoldInv, Nobody, Quiet, backendVars
  <2> QED BY <1>16, <2>1, <2>2, NobodyStays DEF WatchDeclines
<1>17. CASE WatchResumes
  <2>1. ~Nobody
      BY <1>17 DEF WatchResumes, Nobody, Quiet, TypeOK, ThreadsOK
  <2> QED BY <1>17, <2>1, NotHeld DEF WatchResumes
<1>18. CASE WatchUnanswered
  <2>1. ~Nobody
      BY <1>18 DEF WatchUnanswered, Nobody, Quiet, TypeOK, ThreadsOK
  <2> QED BY <1>18, <2>1, NotHeld DEF WatchUnanswered
<1>19. CASE Warm
  <2>1. Nobody => Nobody'
      BY <1>19 DEF Warm, Nobody, Quiet, backendVars, TypeOK, ThreadsOK, Threads
  <2>2. held => ~bot' /\ ~snap'
      BY <1>19 DEF Warm, HoldInv, Nobody, Quiet, backendVars
  <2> QED BY <1>19, <2>1, <2>2, NobodyStays DEF Warm
<1>20. CASE Saves
  <2>1. Nobody => Nobody'
      BY <1>20 DEF Saves, Nobody, Quiet, backendVars, TypeOK, ThreadsOK, Threads
  <2>2. held => ~bot' /\ ~snap'
      BY <1>20 DEF Saves, HoldInv, Nobody, Quiet, backendVars
  <2> QED BY <1>20, <2>1, <2>2, NobodyStays DEF Saves
<1>21. CASE Lands
  <2>1. Nobody => Nobody'
      BY <1>21 DEF Lands, Nobody, Quiet, backendVars, TypeOK, ThreadsOK, Threads, ThrottledSave
  <2>2. held => ~bot' /\ ~snap'
      BY <1>21 DEF Lands, HoldInv, Nobody, Quiet, backendVars, ThrottledSave
  <2> QED BY <1>21, <2>1, <2>2, NobodyStays DEF Lands
<1>22. CASE DirectStart
    BY <1>22, AskedForgets DEF DirectStart, TypeOK
<1>23. CASE DirectStop
  <2>1. Nobody => Nobody'
      BY <1>23 DEF DirectStop, Nobody, Quiet, backendVars, TypeOK, ThreadsOK, Threads
  <2>2. held => ~bot' /\ ~snap'
      BY <1>23 DEF DirectStop, HoldInv, Nobody, Quiet, backendVars
  <2> QED BY <1>23, <2>1, <2>2, NobodyStays DEF DirectStop
<1>24. CASE ServiceStops
  <2>1. Nobody => Nobody'
      BY <1>24 DEF ServiceStops, Nobody, Quiet, backendVars, TypeOK, ThreadsOK, Threads
  <2>2. held => ~bot' /\ ~snap'
      BY <1>24 DEF ServiceStops, HoldInv, Nobody, Quiet, backendVars
  <2> QED BY <1>24, <2>1, <2>2, NobodyStays DEF ServiceStops
<1>25. CASE Crashes
  <2>1. Nobody => Nobody'
      BY <1>25 DEF Crashes, Nobody, Quiet, backendVars, TypeOK, ThreadsOK, Threads
  <2>2. held => ~bot' /\ ~snap'
      BY <1>25 DEF Crashes, HoldInv, Nobody, Quiet, backendVars
  <2> QED BY <1>25, <2>1, <2>2, NobodyStays DEF Crashes
<1>26. CASE Hangs
  <2>1. Nobody => Nobody'
      BY <1>26 DEF Hangs, Nobody, Quiet, backendVars, TypeOK, ThreadsOK, Threads
  <2>2. held => ~bot' /\ ~snap'
      BY <1>26 DEF Hangs, HoldInv, Nobody, Quiet, backendVars
  <2> QED BY <1>26, <2>1, <2>2, NobodyStays DEF Hangs
<1>27. CASE Recovers
  <2>1. Nobody => Nobody'
      BY <1>27 DEF Recovers, Nobody, Quiet, backendVars, TypeOK, ThreadsOK, Threads
  <2>2. held => ~bot' /\ ~snap'
      BY <1>27 DEF Recovers, HoldInv, Nobody, Quiet, backendVars
  <2> QED BY <1>27, <2>1, <2>2, NobodyStays DEF Recovers
<1>28. CASE CmuxCrashes
  <2>1. Nobody => Nobody'
      BY <1>28 DEF CmuxCrashes, Nobody, Quiet, Rest, NoEdit, Unwanted, Threads, backendVars
  <2>2. held => ~bot' /\ ~snap'
      BY <1>28 DEF CmuxCrashes, HoldInv, backendVars
  <2> QED BY <1>28, <2>1, <2>2 DEF CmuxCrashes, HoldInv, NoStop
<1>29. CASE UNCHANGED vars
    BY <1>29 DEF vars, backendVars, HoldInv, Nobody, Quiet
<1> QED
    BY <1>1, <1>2, <1>3, <1>4, <1>5, <1>6, <1>7, <1>8, <1>9, <1>10, <1>11,
       <1>12, <1>13, <1>14, <1>15, <1>16, <1>17, <1>18, <1>19, <1>20, <1>21,
       <1>22, <1>23, <1>24, <1>25, <1>26, <1>27, <1>28, <1>29
    DEF Next, Starting, Operator, Watching, Backend

\* A /bot/stop that was answered, and found nobody who had already decided to start the
\* bot, keeps it stopped until somebody asks for it: for all requests, crashes, hangs
\* and late answers (cmux_service.py, /bot/stop; main.py, _maybe_resume).
THEOREM AnsweredStopsHold == Spec => []StopHolds
<1>1. Init => IInv
    BY InitType DEF Init, IInv, HoldInv, NoStop
<1>2. IInv /\ [Next]_vars => IInv'
    BY NextType, HoldStays DEF IInv
<1>3. IInv => StopHolds
    BY DEF IInv, HoldInv, StopHolds
<1> QED BY <1>1, <1>2, <1>3, PTL DEF Spec
=============================================================================
