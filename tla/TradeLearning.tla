----------------------------- MODULE TradeLearning -----------------------------
(***************************************************************************)
(* What a closed trade leaves in the daily PnL and in profile.json, and    *)
(* who else writes there.                                                  *)
(*                                                                         *)
(* _record_learning_trade (trading/learning.py) adds a trade to the daily  *)
(* PnL, appends its row and commits the symbol's profile.  Close calls run *)
(* it in a thread, the reconciler on the event loop; the per-symbol lock   *)
(* keeps them and the scan's observations apart.  The scan's health        *)
(* records (main.py) take no lock.  The locked writers read profile.json   *)
(* through a cache of five seconds (trading/shared_cache_layer.py), the    *)
(* others from the file.  The daily PnL is one for all symbols: recorders  *)
(* of two symbols test, reset and add to it without a common lock.         *)
(*                                                                         *)
(* Abstracted: the profile of one symbol; of the others only the trades,   *)
(* each of a symbol of its own.  profile.json is the number of trades it   *)
(* counts, the daily PnL the set of trades it sums.  What the same commit  *)
(* writes to symbol_profile.json, and the autotuner that follows, are      *)
(* SymbolTuning.                                                           *)
(***************************************************************************)
EXTENDS Naturals, FiniteSets

CONSTANTS
    MaxTrades,      \* the trades there are
    Others,         \* those of them that are of other symbols
    MaxClosed,      \* bound: how many of them close
    MaxDay,         \* bound: days
    MaxFaults,      \* bound: failed writes
    MaxRestarts,    \* bound: restarts
    ReadsFail       \* may reading profile.json fail? (load_profile then answers {})

ASSUME LearningAssumption ==
    /\ {MaxTrades, MaxClosed, MaxDay, MaxFaults, MaxRestarts} \subseteq Nat
    /\ MaxDay > 0
    /\ Others \subseteq 1 .. MaxTrades
    /\ ReadsFail \in BOOLEAN

VARIABLES
    day,            \* the date
    daily,          \* DAILY_REALIZED_PNL and _DAILY_PNL_DATE_KEY
    snap,           \* both in the snapshot
    profile,        \* profile.json
    cache,          \* _profile_cache of the shared cache
    lock,           \* who holds per_symbol_lock
    loop,           \* what occupies the event loop
    call,           \* the _record_learning_trade of each trade
    scan,           \* the copy that an observation or a health record holds
    clash,          \* history: two symbols' recorders, or one and a save, met at the daily PnL
    faults, restarts

dailyVars == <<day, daily, snap, clash>>
fileVars == <<profile, cache>>
bounds == <<faults, restarts>>
vars == <<dailyVars, fileVars, lock, loop, call, scan, bounds>>

-----------------------------------------------------------------------------
Trades == 1 .. MaxTrades
Days == 1 .. MaxDay
Free == 0
Observation == "observation"
Health == "health"
NoSum == [key |-> 0, of |-> {}]
Stale == [fresh |-> FALSE, trades |-> 0]

NotCalled == [pc |-> "none", closed |-> 1, trades |-> 0, sum |-> {}]
NoScan == [pc |-> "idle", trades |-> 0]

\* Who may hold the lock and the loop is tagged with a record, so that a trade and
\* a scan can be compared.
Nobody == [by |-> "nobody", trade |-> Free]
ByTrade(t) == [by |-> "trade", trade |-> t]
ByScan(what) == [by |-> what, trade |-> Free]
Owners == {Nobody, ByScan(Observation), ByScan(Health)} \cup {ByTrade(t) : t \in Trades}

Sums == [key: 0 .. MaxDay, of: SUBSET Trades]

\* Where a recorder is between the test of the day and the store of the sum.
Summing == {"resetting", "dating", "loading", "adding"}
Steps == {"none", "asked", "counting", "done"} \cup Summing

\* Every variable has its type.
TypeOK ==
    /\ day \in Days /\ daily \in Sums /\ snap \in Sums
    /\ profile \in 0 .. MaxTrades
    /\ cache \in [fresh: BOOLEAN, trades: 0 .. MaxTrades]
    /\ lock \in Owners /\ loop \in Owners
    /\ call \in [Trades -> [pc: Steps, closed: Days, trades: 0 .. MaxTrades,
                            sum: SUBSET Trades]]
    /\ scan \in [pc: {"idle", "asked", "loaded"}, trades: 0 .. MaxTrades]
    /\ clash \in BOOLEAN
    /\ faults \in 0 .. MaxFaults /\ restarts \in 0 .. MaxRestarts

\* A symbol that has traded before; what its profile counted then is the zero here.
Init ==
    /\ day = 1 /\ daily = NoSum /\ snap = NoSum /\ clash = FALSE
    /\ profile = 0 /\ cache = Stale
    /\ lock = Nobody /\ loop = Nobody
    /\ call = [t \in Trades |-> NotCalled]
    /\ scan = NoScan
    /\ faults = 0 /\ restarts = 0

-----------------------------------------------------------------------------
(* Reading and writing.                                                     *)

\* load_profile: an unreadable file is an empty profile.
ProfileReads == {profile} \cup (IF ReadsFail THEN {0} ELSE {})

\* get_profile: the cached copy while it is fresh, else the file, which is cached.
CachedReads == IF cache.fresh THEN {cache.trades} ELSE ProfileReads

\* ctx.commit: save_profile, and after the write its copy in the cache.
Commit(count) == profile' = count /\ cache' = [fresh |-> TRUE, trades |-> count]

-----------------------------------------------------------------------------
(* _record_learning_trade.                                                  *)

\* A trade that closed today or earlier is handed to the recorder: by a close call in
\* a thread, or by the reconciler or a fallback on the loop, which waits for it.
Asks(t, on) ==
    /\ call[t].pc = "none"
    /\ Cardinality({u \in Trades : call[u].pc # "none"}) < MaxClosed
    /\ \E d \in 1 .. day : call' = [call EXCEPT ![t].pc = "asked", ![t].closed = d]
    /\ IF on = "loop" THEN loop = Nobody /\ loop' = ByTrade(t) ELSE UNCHANGED loop
    /\ UNCHANGED <<dailyVars, fileVars, lock, scan, bounds>>

\* Is a recorder of another symbol between the test of the day and its store?
Meets(t) ==
    \E u \in Trades \ {t} : call[u].pc \in Summing /\ (t \in Others \/ u \in Others)

\* The day of the trade is compared with that of the daily PnL.
Tested(t) == IF daily.key = call[t].closed THEN "loading" ELSE "resetting"

\* The copy of the profile with one trade more, and the test of the day.
CountIn(t) ==
    /\ lock' = ByTrade(t)
    /\ \E n \in CachedReads :
        /\ call' = [call EXCEPT ![t].pc = Tested(t), ![t].trades = n + 1]
        /\ cache' = [fresh |-> TRUE, trades |-> n]
    /\ clash' = (clash \/ Meets(t))
    /\ UNCHANGED <<day, daily, snap, profile, loop, scan, bounds>>

\* (mutant) Not serialized with the other updates of the symbol.
CountsUnlocked(t) == t \notin Others /\ call[t].pc = "asked" /\ CountIn(t)

\* With the lock.
Counts(t) == t \notin Others /\ call[t].pc = "asked" /\ lock = Nobody /\ CountIn(t)

\* A trade of another symbol: another lock, another profile.
CountsElsewhere(t) ==
    /\ t \in Others /\ call[t].pc = "asked"
    /\ call' = [call EXCEPT ![t].pc = Tested(t)]
    /\ clash' = (clash \/ Meets(t))
    /\ UNCHANGED <<day, daily, snap, fileVars, lock, loop, scan, bounds>>

\* (mutant) The sum never begins anew.
ResetsNothing(t) ==
    /\ call[t].pc = "resetting"
    /\ call' = [call EXCEPT ![t].pc = "dating"]
    /\ UNCHANGED <<dailyVars, fileVars, lock, loop, scan, bounds>>

\* A trade of another day than the one that is summed begins a new sum, ...
Resets(t) ==
    /\ call[t].pc = "resetting"
    /\ daily' = [daily EXCEPT !.of = {}]
    /\ call' = [call EXCEPT ![t].pc = "dating"]
    /\ UNCHANGED <<day, snap, clash, fileVars, lock, loop, scan, bounds>>

\* ... which gets its day.
Dates(t) ==
    /\ call[t].pc = "dating"
    /\ daily' = [daily EXCEPT !.key = call[t].closed]
    /\ call' = [call EXCEPT ![t].pc = "loading"]
    /\ UNCHANGED <<day, snap, clash, fileVars, lock, loop, scan, bounds>>

\* DAILY_REALIZED_PNL += pnl: the sum is loaded, and stored with the trade.
Loads(t) ==
    /\ call[t].pc = "loading"
    /\ call' = [call EXCEPT ![t].pc = "adding", ![t].sum = daily.of]
    /\ UNCHANGED <<dailyVars, fileVars, lock, loop, scan, bounds>>

Stores(t) ==
    /\ call[t].pc = "adding"
    /\ daily' = [daily EXCEPT !.of = call[t].sum \cup {t}]
    /\ call' = [call EXCEPT ![t].pc = "counting", ![t].sum = {}]
    /\ UNCHANGED <<day, snap, clash, fileVars, lock, loop, scan, bounds>>

\* The recorder is through or has raised: lock and loop are free again.
Leaves(t) ==
    /\ call' = [call EXCEPT ![t] = [NotCalled EXCEPT !.pc = "done", !.closed = call[t].closed]]
    /\ lock' = IF t \in Others THEN lock ELSE Nobody
    /\ loop' = IF loop = ByTrade(t) THEN Nobody ELSE loop

\* What it commits is the profile of its symbol.
Commits(t) == IF t \in Others THEN UNCHANGED fileVars ELSE Commit(call[t].trades)

\* (mutant) The commit waits for the event loop.
RecordsOnLoop(t) ==
    /\ call[t].pc = "counting"
    /\ loop = Nobody
    /\ Commits(t)
    /\ Leaves(t)
    /\ UNCHANGED <<dailyVars, scan, bounds>>

\* (mutant) The commit adds the trade to the profile once more.
RecordsTwice(t) ==
    /\ call[t].pc = "counting"
    /\ Commit(call[t].trades + 1)
    /\ Leaves(t)
    /\ UNCHANGED <<dailyVars, scan, bounds>>

\* The profile is written.
Records(t) ==
    /\ call[t].pc = "counting"
    /\ Commits(t)
    /\ Leaves(t)
    /\ UNCHANGED <<dailyVars, scan, bounds>>

\* A write of the commit raises: that of the profile, or one after it.
Raises(t) ==
    /\ call[t].pc = "counting"
    /\ faults < MaxFaults
    /\ faults' = faults + 1
    /\ UNCHANGED fileVars \/ Commits(t)
    /\ Leaves(t)
    /\ UNCHANGED <<dailyVars, scan, restarts>>

-----------------------------------------------------------------------------
(* The scan, on the event loop.                                             *)

\* _record_symbol_observation asks for the lock, which a recorder may hold.
ObserveAsks ==
    /\ loop = Nobody
    /\ loop' = ByScan(Observation)
    /\ scan' = [NoScan EXCEPT !.pc = "asked"]
    /\ UNCHANGED <<dailyVars, fileVars, lock, call, bounds>>

ObserveReads ==
    /\ scan.pc = "asked"
    /\ lock = Nobody
    /\ lock' = ByScan(Observation)
    /\ \E n \in CachedReads :
        /\ scan' = [pc |-> "loaded", trades |-> n]
        /\ cache' = [fresh |-> TRUE, trades |-> n]
    /\ UNCHANGED <<dailyVars, profile, loop, call, bounds>>

\* (mutant) The lock is not given back.
ObservedLocked ==
    /\ loop = ByScan(Observation) /\ scan.pc = "loaded"
    /\ Commit(scan.trades)
    /\ scan' = NoScan /\ loop' = Nobody
    /\ UNCHANGED <<dailyVars, lock, call, bounds>>

\* It commits the profile with its counters.
Observed ==
    /\ loop = ByScan(Observation) /\ scan.pc = "loaded"
    /\ Commit(scan.trades)
    /\ scan' = NoScan /\ loop' = Nobody /\ lock' = Nobody
    /\ UNCHANGED <<dailyVars, call, bounds>>

\* _record_scan_health and _cooldown_scan_symbol: the file, without lock or cache.
HealthLoads ==
    /\ loop = Nobody
    /\ loop' = ByScan(Health)
    /\ \E n \in ProfileReads : scan' = [pc |-> "loaded", trades |-> n]
    /\ UNCHANGED <<dailyVars, fileVars, lock, call, bounds>>

HealthSaves ==
    /\ loop = ByScan(Health)
    /\ profile' = scan.trades
    /\ scan' = NoScan /\ loop' = Nobody
    /\ UNCHANGED <<dailyVars, cache, lock, call, bounds>>

-----------------------------------------------------------------------------
(* The snapshot, time and restarts.                                         *)

\* persist_autotrade_snapshot, throttled or forced, from the loop or from a thread of
\* the server.
Saves ==
    /\ snap' = daily
    /\ UNCHANGED <<day, daily, clash, fileVars, lock, loop, call, scan, bounds>>

\* The sum is read first and its day after it; a recorder may begin a new sum in between.
SavesAcross(t) ==
    /\ call[t].pc \in {"resetting", "dating"}
    /\ snap' = [daily EXCEPT !.key = call[t].closed]
    /\ clash' = TRUE
    /\ UNCHANGED <<day, daily, fileVars, lock, loop, call, scan, bounds>>

\* External: five seconds pass, a day passes.
CacheExpires ==
    /\ cache.fresh
    /\ cache' = Stale
    /\ UNCHANGED <<dailyVars, profile, lock, loop, call, scan, bounds>>

Midnight ==
    /\ day < MaxDay
    /\ day' = day + 1
    /\ UNCHANGED <<daily, snap, clash, fileVars, lock, loop, call, scan, bounds>>

\* A new process: threads, lock and cache are gone, and the snapshot's sum is taken
\* when it is of this day.
Restart ==
    /\ restarts < MaxRestarts
    /\ restarts' = restarts + 1
    /\ daily' = IF snap.key = day THEN snap ELSE NoSum
    /\ cache' = Stale /\ lock' = Nobody /\ loop' = Nobody /\ scan' = NoScan
    /\ call' = [t \in Trades |->
                  IF call[t].pc = "none" THEN call[t]
                  ELSE [NotCalled EXCEPT !.pc = "done", !.closed = call[t].closed]]
    /\ UNCHANGED <<day, snap, clash, profile, faults>>

Recorder(t) ==
    \/ \E on \in {"thread", "loop"} : Asks(t, on)
    \/ Counts(t) \/ CountsElsewhere(t)
    \/ Resets(t) \/ Dates(t) \/ Loads(t) \/ Stores(t)
    \/ Records(t) \/ Raises(t)

Scan == ObserveAsks \/ ObserveReads \/ Observed \/ HealthLoads \/ HealthSaves

Next ==
    \/ \E t \in Trades : Recorder(t) \/ SavesAcross(t)
    \/ Scan
    \/ Saves \/ CacheExpires \/ Midnight \/ Restart

Spec == Init /\ [][Next]_vars

\* A thread that holds the lock gets on, and so does the loop when nothing stops it.  A
\* recorder that waits for the lock competes with observations that come again and
\* again, and gets it when it is free often enough.
Fairness ==
    /\ \A t \in Trades :
         /\ SF_vars(Counts(t))
         /\ WF_vars(CountsElsewhere(t) \/ Resets(t) \/ Dates(t) \/ Loads(t) \/ Stores(t)
                    \/ Records(t))
    /\ WF_vars(ObserveReads) /\ WF_vars(Observed) /\ WF_vars(HealthSaves)

FairSpec == Spec /\ Fairness

-----------------------------------------------------------------------------
(* What is wanted of it.                                                    *)

\* Every trade that was ever counted stays counted, unless the write of a health
\* record, which takes no lock, puts an older copy back; and a recorder that gets
\* through adds its trade to all that the file counts by then: the lock and the cache of
\* five seconds between them lose nothing (learning.py:1065, shared_cache_layer.py:105).
OnlyHealthTakesBack ==
    [][/\ profile' < profile => loop = ByScan(Health) /\ loop' = Nobody
       /\ \A t \in Trades \ Others :
             (call[t].pc = "counting" /\ call'[t].pc = "done" /\ UNCHANGED bounds)
                 => profile' > profile]_vars

\* The daily PnL sums trades of one day, however late they are recorded, whatever a
\* restart brings back and however trades of one symbol compete, until recorders of two
\* symbols, or one and a save, meet between the test of the day and the store of the sum
\* (learning.py:1291): the lock is the symbol's, and the sum everybody's.
DailyIsOfItsDay == clash \/ \A t \in daily.of : call[t].closed = daily.key

\* Until they meet like that, a trade of today drops out of the daily PnL only when a
\* trade of another day begins a new sum or the process is restarted: two trades of one
\* symbol never lose each other (learning.py:1065, 1289, main.py:5616).
DailyForgets ==
    [][(\E t \in daily.of \ daily'.of : call[t].closed = day) =>
         \/ clash
         \/ restarts' # restarts
         \/ \E u \in Trades : /\ call[u].pc = "resetting" /\ call'[u].pc = "dating"
                              /\ call[u].closed # day]_vars

\* Each trade handed to the recorder is recorded or given up, though observations and
\* other recorders take the lock as well (per_symbol_storage.py:52).
TradesAreRecorded == \A t \in Trades : call[t].pc = "asked" ~> call[t].pc = "done"

\* The loop is never blocked for good by a lock that a thread holds (learning.py:1065).
LoopIsFreed == loop # Nobody ~> loop = Nobody

-----------------------------------------------------------------------------
(* Why nobody waits for ever.                                               *)

\* Whoever has the lock is past every wait, for the lock and for the loop; whoever has the
\* loop waits for the lock at most.  There is no circle (learning.py:1065, main.py:471).
HoldersMove ==
    /\ \A t \in Trades :
          /\ lock = ByTrade(t) => call[t].pc \in Summing \cup {"counting"}
          /\ loop = ByTrade(t) => call[t].pc \in Summing \cup {"asked", "counting"}
    /\ lock = ByScan(Observation) => loop = lock /\ scan.pc = "loaded"
    /\ lock # ByScan(Health)
    /\ loop = ByScan(Observation) => scan.pc \in {"asked", "loaded"}
    /\ loop = ByScan(Health) => scan.pc = "loaded"

=============================================================================
