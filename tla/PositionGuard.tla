----------------------------- MODULE PositionGuard -----------------------------
(***************************************************************************)
(* Who protects an open position.                                          *)
(*                                                                         *)
(* place_futures_order (exchange/futures_orders.py) sends an entry and then *)
(* its take-profit and stop-loss; when the exchange does not take them it  *)
(* leaves a lock in AUTO_TRADE["liveProfitLocks"] for the guardian         *)
(* (trading/live_guardian.py), which reads the positions once a cycle,     *)
(* keeps a lock for each, moves its levels and closes the side when one is *)
(* hit.  Every close cancels all orders of the symbol; what the exchange   *)
(* leaves behind is swept by a task of its own.  The locks are mirrored in *)
(* the snapshot and in a file per symbol (trading/state_ops.py,            *)
(* per_symbol_storage.py) and come back at a restart (main.py).            *)
(*                                                                         *)
(* Abstracted: one symbol.  A position is the number of the entry that     *)
(* opened it, on its side; a pair of orders the number of the entry it was *)
(* placed for.  The levels of a lock are the entry they were derived from  *)
(* and how far its stop has been tightened since.  Why the guardian wants  *)
(* to close a side or to move its stop (intel, TradingView, prices, peak,  *)
(* profit lock) is left open: every decision may be taken at any time.     *)
(***************************************************************************)
EXTENDS Naturals

CONSTANTS
    Sides,          \* the sides a position may have
    NoSide,         \* no side
    Callers,        \* who sends entries: "loop" (a cycle), "route" (/trade, a monitor)
    MaxEntries,     \* bound: positions ever opened
    MaxStop,        \* bound: how far a stop can be tightened
    MaxRestarts     \* bound: restarts of the process

ASSUME GuardAssumption ==
    /\ NoSide \notin Sides
    /\ Callers \subseteq {"loop", "route"}
    /\ {MaxEntries, MaxStop, MaxRestarts} \subseteq Nat

VARIABLES
    pos,        \* exchange: the open position of each side, 0 if there is none
    resting,    \* exchange: the TP/SL pairs of each side, of which at least one order rests
    locks,      \* AUTO_TRADE["liveProfitLocks"]
    cache,      \* _LIVE_POSITIONS_CACHE
    cyc,        \* _live_multi_profit_lock_manage: where it awaits, and its locals
    call,       \* place_futures_order, from the fill of the entry on
    sweep,      \* sweep_orphan_protective_orders
    booting,    \* is _startup_reconcile still to run?
    file,       \* symbols/SYM/guardian_lock.json
    snap,       \* "liveProfitLocks" in the snapshot
    entries,    \* positions opened so far
    restarts,
    earned      \* history: the stop each lock had after the last cycle that changed it and was saved

exchangeVars == <<pos, resting, entries>>
diskVars == <<file, snap>>
vars == <<exchangeVars, locks, cache, cyc, call, sweep, booting, diskVars, restarts, earned>>

-----------------------------------------------------------------------------
Entries == 1 .. MaxEntries
Stops == 0 .. MaxStop
Flat == 0

Lock == [of: Entries, stop: Stops, valid: BOOLEAN]
NoLock == [of |-> Flat, stop |-> 0, valid |-> FALSE]
LockOrNone == Lock \cup {NoLock}
Derived(e) == [of |-> e, stop |-> 0, valid |-> FALSE]   \* levels just derived from an entry

NoLocks == [s \in Sides |-> NoLock]
NoJobs == [s \in Sides |-> "none"]
NoRows == [s \in Sides |-> Flat]
NoFile == [side |-> NoSide, lock |-> NoLock]

Idle == [pc |-> "idle", rows |-> NoRows, left |-> {}, jobs |-> NoJobs,
         at |-> NoSide, held |-> NoLock, changed |-> FALSE]
NoCall == [pc |-> "none", side |-> NoSide, of |-> Flat, by |-> "loop"]
Stale == [fresh |-> FALSE, rows |-> NoRows]
NoSweep == [pc |-> "idle", seen |-> 0]

Locked(s) == locks[s] # NoLock
InFile(s, k) == [side |-> s, lock |-> k]

\* Every variable has its type.
TypeOK ==
    /\ pos \in [Sides -> 0 .. MaxEntries]
    /\ resting \in [Sides -> SUBSET Entries]
    /\ locks \in [Sides -> LockOrNone]
    /\ cache \in [fresh: BOOLEAN, rows: [Sides -> 0 .. MaxEntries]]
    /\ cyc \in [pc: {"idle", "cutting", "weighing", "holding", "exiting"},
                rows: [Sides -> 0 .. MaxEntries], left: SUBSET Sides,
                jobs: [Sides -> {"none", "asked", "cleared"}],
                at: Sides \cup {NoSide}, held: LockOrNone, changed: BOOLEAN]
    /\ call \in [pc: {"none", "filled", "placed"}, side: Sides \cup {NoSide},
                 of: 0 .. MaxEntries, by: {"loop", "route"}]
    /\ sweep \in [pc: {"idle", "listed", "flat"}, seen: 0 .. MaxEntries]
    /\ booting \in BOOLEAN
    /\ file \in [side: Sides \cup {NoSide}, lock: LockOrNone]
    /\ snap \in [Sides -> LockOrNone]
    /\ entries \in 0 .. MaxEntries
    /\ restarts \in 0 .. MaxRestarts
    /\ earned \in [Sides -> Stops]

\* The first process: a snapshot without locks has been loaded.
Init ==
    /\ pos = NoRows
    /\ resting = [s \in Sides |-> {}]
    /\ locks = NoLocks /\ snap = NoLocks /\ file = NoFile
    /\ cache = Stale
    /\ cyc = Idle /\ call = NoCall /\ sweep = NoSweep
    /\ booting = FALSE
    /\ entries = 0 /\ restarts = 0
    /\ earned = [s \in Sides |-> 0]

-----------------------------------------------------------------------------
(* The exchange.                                                            *)

\* A position is opened that no call of this process follows: by hand, or by an
\* order whose call was cancelled while it was sent.
OpensUnseen(s) ==
    /\ pos[s] = Flat
    /\ entries < MaxEntries
    /\ entries' = entries + 1
    /\ pos' = [pos EXCEPT ![s] = entries']
    /\ UNCHANGED <<resting, locks, cache, cyc, call, sweep, booting, diskVars, restarts, earned>>

\* A resting order closes the position of its side, whichever entry it was meant
\* for.  Its sibling may stay behind.
OrderFires(s, e) ==
    /\ pos[s] # Flat
    /\ e \in resting[s]
    /\ pos' = [pos EXCEPT ![s] = Flat]
    /\ resting' \in {resting, [resting EXCEPT ![s] = @ \ {e}]}
    /\ UNCHANGED <<locks, cache, cyc, call, sweep, booting, diskVars, entries, restarts, earned>>

\* The position is closed by hand or liquidated; its orders stay.
ClosesUnseen(s) ==
    /\ pos[s] # Flat
    /\ pos' = [pos EXCEPT ![s] = Flat]
    /\ UNCHANGED <<resting, locks, cache, cyc, call, sweep, booting, diskVars, entries, restarts,
                   earned>>

\* goodTillDate is reached.  Not every order has one: the fallback endpoint sends none,
\* and protectiveOrderGtdSec may be 0.
Lapse(s, e) ==
    /\ e \in resting[s]
    /\ resting' = [resting EXCEPT ![s] = @ \ {e}]
    /\ UNCHANGED <<pos, locks, cache, cyc, call, sweep, booting, diskVars, entries, restarts,
                   earned>>

\* _cancel_all_open_orders: all orders of the symbol, on both sides; errors are
\* logged only, and the exchange may answer 200 and cancel nothing.
CancelAllOrders == resting' \in {resting, [s \in Sides |-> {}]}

-----------------------------------------------------------------------------
(* place_futures_order.                                                     *)

\* The entry is filled.  A cycle sends its entry after the guardian's part of it.
EntryFills(s, by) ==
    /\ call = NoCall
    /\ by = "loop" => cyc.pc = "idle"
    /\ pos[s] = Flat
    /\ entries < MaxEntries
    /\ entries' = entries + 1
    /\ pos' = [pos EXCEPT ![s] = entries']
    /\ call' = [pc |-> "filled", side |-> s, of |-> entries', by |-> by]
    /\ UNCHANGED <<resting, locks, cache, cyc, sweep, booting, diskVars, restarts, earned>>

\* _place_tp_sl: both submits are accepted.
PlaceTpSl ==
    /\ call.pc = "filled"
    /\ resting' = [resting EXCEPT ![call.side] = @ \cup {call.of}]
    /\ call' = [call EXCEPT !.pc = "placed"]
    /\ UNCHANGED <<pos, locks, cache, cyc, sweep, booting, diskVars, entries, restarts, earned>>

\* _verify_protective_orders finds both, or cannot ask: the call is over.
Verified ==
    /\ call.pc = "placed"
    /\ call' = NoCall
    /\ UNCHANGED <<exchangeVars, locks, cache, cyc, sweep, booting, diskVars, restarts, earned>>

\* A submit fails after its six tries (the other one may rest), or an accepted
\* order is missing: the lock is seeded with the levels of this entry.  What a lock
\* of this key said else ("session_validated") it keeps.
Warned ==
    /\ call.pc # "none"
    /\ \E left \in {resting[call.side], resting[call.side] \cup {call.of},
                    resting[call.side] \ {call.of}} :
           resting' = [resting EXCEPT ![call.side] = left]
    /\ locks' = [locks EXCEPT ![call.side] = [of |-> call.of, stop |-> 0, valid |-> @.valid]]
    /\ earned' = [earned EXCEPT ![call.side] = 0]
    /\ call' = NoCall
    /\ UNCHANGED <<pos, cache, cyc, sweep, booting, diskVars, entries, restarts>>

\* asyncio.wait_for gives up on the call, or the loop task is cancelled: the
\* position is open, its orders are not placed or not verified, no lock is seeded.
CallCancelled ==
    /\ call.pc # "none"
    /\ call.by = "loop"
    /\ \E placed \in SUBSET {call.of} :
           resting' = [resting EXCEPT ![call.side] = @ \cup placed]
    /\ call' = NoCall
    /\ UNCHANGED <<pos, locks, cache, cyc, sweep, booting, diskVars, entries, restarts, earned>>

-----------------------------------------------------------------------------
(* One cycle of the guardian.                                               *)

\* _pick_live_orphan_positions: the rows of the cache while it is younger than 25 s,
\* else the positions, which go into the cache.
Rows == IF cache.fresh THEN cache.rows ELSE pos
ReadRows == cache' = [fresh |-> TRUE, rows |-> Rows]
DropCache == cache' = Stale

\* Somebody else reads them (adopt_live, the untracked-position check), or 25 s go by.
OthersRead ==
    /\ ~cache.fresh
    /\ ReadRows
    /\ UNCHANGED <<exchangeVars, locks, cyc, call, sweep, booting, diskVars, restarts, earned>>

CacheExpires ==
    /\ cache.fresh
    /\ DropCache
    /\ UNCHANGED <<exchangeVars, locks, cyc, call, sweep, booting, diskVars, restarts, earned>>

\* What Phase 0 may find for a lock that no cycle has validated: an entry within 1 bp
\* of the position's, or not (a lock is seeded with the mark from before the order, and
\* a position may be added to), or it fails and is tried again.  It is skipped, too,
\* when no snapshot was loaded.
Checks == {"fits", "drifted", "failed"}

\* Mutant of Refreshed: a refreshed lock does not say of which entry it is.
RefreshedBlank(k, e, check) ==
    IF k = NoLock THEN Derived(e)
    ELSE IF k.valid \/ check = "failed" THEN k
    ELSE IF check = "drifted" THEN [of |-> Flat, stop |-> 0, valid |-> TRUE]
    ELSE [k EXCEPT !.valid = TRUE]

\* Phase 0: a lock not validated yet keeps its levels or takes those of the live entry.
\* Phase 1: a position without a lock gets one; a lock that is there keeps its
\* levels, whatever entry they were derived from.
Refreshed(k, e, check) ==
    IF k = NoLock THEN Derived(e)
    ELSE IF k.valid \/ check = "failed" THEN k
    ELSE IF check = "drifted" THEN [Derived(e) EXCEPT !.valid = TRUE]
    ELSE [k EXCEPT !.valid = TRUE]

\* Mutant of Managed: only positions that have a lock are looked after.
ManagedKnown(rows, check) ==
    [s \in Sides |-> IF rows[s] = Flat \/ ~Locked(s) THEN locks[s]
                     ELSE Refreshed(locks[s], rows[s], check[s])]

\* The locks a cycle that reads these rows goes on with.
Managed(rows, check) ==
    [s \in Sides |-> IF rows[s] = Flat THEN locks[s] ELSE Refreshed(locks[s], rows[s], check[s])]

\* The history of tightening ends with the lock and with a refresh.
EarnedWith(new) ==
    [s \in Sides |-> IF new[s] = NoLock \/ new[s].stop < earned[s] THEN 0 ELSE earned[s]]

\* _persist_single_lock_before_close for one side after the other: the file is the
\* symbol's, so the last one stays.
FileOfOne(hits, managed) ==
    IF hits = {} THEN file' = file ELSE \E s \in hits : file' = InFile(s, managed[s])

\* Up to the closes of Phase 2: the sides whose stop or breakeven guard is hit lose
\* their lock first and are closed then, all at once.
GuardBegins ==
    /\ cyc.pc = "idle"
    /\ call # NoCall => call.by = "route"
    /\ ReadRows
    /\ \E check \in [Sides -> Checks], hits \in SUBSET {s \in Sides : Rows[s] # Flat} :
         /\ locks' = [s \in Sides |-> IF s \in hits THEN NoLock ELSE Managed(Rows, check)[s]]
         /\ FileOfOne(hits, Managed(Rows, check))
         /\ cyc' = [Idle EXCEPT !.pc = IF hits = {} THEN "weighing" ELSE "cutting",
                                !.rows = Rows,
                                !.jobs = [s \in Sides |-> IF s \in hits THEN "asked" ELSE "none"],
                                !.left = {s \in Sides : Rows[s] # Flat /\ locks'[s] # NoLock},
                                !.changed = hits # {}]
    /\ earned' = EarnedWith(locks')
    /\ UNCHANGED <<exchangeVars, call, sweep, booting, snap, restarts>>

\* _close_position_one_side, from the guardian: the position is read and the orders of
\* the symbol are cancelled, those of the other side too; a flat side ends it.
CloseClears(s) ==
    /\ cyc.jobs[s] = "asked"
    /\ CancelAllOrders
    /\ cyc' = [cyc EXCEPT !.jobs[s] = IF pos[s] = Flat THEN "none" ELSE "cleared"]
    /\ UNCHANGED <<pos, locks, cache, call, sweep, booting, diskVars, entries, restarts, earned>>

\* The order closes what is open on that side now.
CloseFills(s) ==
    /\ cyc.jobs[s] = "cleared"
    /\ pos' = [pos EXCEPT ![s] = Flat]
    /\ cyc' = [cyc EXCEPT !.jobs[s] = "none"]
    /\ UNCHANGED <<resting, locks, cache, call, sweep, booting, diskVars, entries, restarts, earned>>

\* A request of the close fails: _safe_close_position_one_side returns all the same.
CloseFails(s) ==
    /\ cyc.jobs[s] # "none"
    /\ cyc' = [cyc EXCEPT !.jobs[s] = "none"]
    /\ UNCHANGED <<exchangeVars, locks, cache, call, sweep, booting, diskVars, restarts, earned>>

\* After Phase 2's closes: the file is deleted, whichever side it holds, and the rows
\* that still have a lock are looked at closely.
CutsDone ==
    /\ cyc.pc = "cutting"
    /\ cyc.jobs = NoJobs
    /\ file' = NoFile
    /\ DropCache
    /\ cyc' = [cyc EXCEPT !.pc = "weighing",
                          !.left = {s \in Sides : cyc.rows[s] # Flat /\ Locked(s)}]
    /\ UNCHANGED <<exchangeVars, locks, call, sweep, booting, snap, restarts, earned>>

\* Phase 4 leaves a row as it is; so it does when the lock has gone meanwhile.
Keeps(s) ==
    /\ cyc.pc = "weighing" /\ s \in cyc.left
    /\ cyc' = [cyc EXCEPT !.left = @ \ {s}]
    /\ UNCHANGED <<exchangeVars, locks, cache, call, sweep, booting, diskVars, restarts, earned>>

\* Proactive trail, pullback hold, reversal tighten: the last of them to write starts
\* from the stop at the head of the row, so the row ends no looser than it began.
Tightens(s) ==
    /\ cyc.pc = "weighing" /\ s \in cyc.left /\ Locked(s)
    /\ \E new \in locks[s].stop .. MaxStop : locks' = [locks EXCEPT ![s].stop = new]
    /\ cyc' = [cyc EXCEPT !.left = @ \ {s}, !.changed = TRUE]
    /\ UNCHANGED <<exchangeVars, cache, call, sweep, booting, diskVars, restarts, earned>>

\* A winner is held: _extend_tp_sl_levels and _trail_winner_levels wait for TradingView
\* with the stop read at the head of the row ...
Holds(s) ==
    /\ cyc.pc = "weighing" /\ s \in cyc.left /\ Locked(s)
    /\ cyc' = [cyc EXCEPT !.pc = "holding", !.at = s, !.held = locks[s]]
    /\ UNCHANGED <<exchangeVars, locks, cache, call, sweep, booting, diskVars, restarts, earned>>

\* Mutant of Trails: the trail replaces the stop instead of tightening it.
TrailsLoose ==
    /\ cyc.pc = "holding"
    /\ \E new \in Stops : locks' = [locks EXCEPT ![cyc.at] = [cyc.held EXCEPT !.stop = new]]
    /\ cyc' = [cyc EXCEPT !.pc = "weighing", !.left = @ \ {cyc.at}, !.at = NoSide,
                          !.held = NoLock, !.changed = TRUE]
    /\ earned' = EarnedWith(locks')
    /\ UNCHANGED <<exchangeVars, cache, call, sweep, booting, diskVars, restarts>>

\* ... and the lock they started from is put back with the new levels.
Trails ==
    /\ cyc.pc = "holding"
    /\ \E new \in cyc.held.stop .. MaxStop :
           locks' = [locks EXCEPT ![cyc.at] = [cyc.held EXCEPT !.stop = new]]
    /\ cyc' = [cyc EXCEPT !.pc = "weighing", !.left = @ \ {cyc.at}, !.at = NoSide,
                          !.held = NoLock, !.changed = TRUE]
    /\ earned' = EarnedWith(locks')
    /\ UNCHANGED <<exchangeVars, cache, call, sweep, booting, diskVars, restarts>>

\* One of the exits of Phase 4: the lock is written to the file and the close is asked
\* for ...
Exits(s) ==
    /\ cyc.pc = "weighing" /\ s \in cyc.left /\ Locked(s)
    /\ file' = InFile(s, locks[s])
    /\ cyc' = [cyc EXCEPT !.pc = "exiting", !.at = s, !.jobs[s] = "asked"]
    /\ UNCHANGED <<exchangeVars, locks, cache, call, sweep, booting, snap, restarts, earned>>

\* ... and, closed or not, the lock and its file are dropped.
ExitDone ==
    /\ cyc.pc = "exiting"
    /\ cyc.jobs = NoJobs
    /\ file' = NoFile
    /\ DropCache
    /\ locks' = [locks EXCEPT ![cyc.at] = NoLock]
    /\ cyc' = [cyc EXCEPT !.pc = "weighing", !.left = @ \ {cyc.at}, !.at = NoSide, !.changed = TRUE]
    /\ earned' = EarnedWith(locks')
    /\ UNCHANGED <<exchangeVars, call, sweep, booting, snap, restarts>>

\* _persist_per_symbol_guardian_locks: one lock after the other into the symbol's file.
FileOfLocks(new, dropped) ==
    IF new = NoLocks
    THEN file' = IF dropped THEN NoFile ELSE file
    ELSE \E s \in Sides : new[s] # NoLock /\ file' = InFile(s, new[s])

\* Mutant of Kept: nothing is cleaned up when the cycle saw no position.
KeptUnlessAny(rows) ==
    IF rows = NoRows THEN locks ELSE [s \in Sides |-> IF rows[s] = Flat THEN NoLock ELSE locks[s]]

\* The cleanup at the end: a lock whose side was not among the rows is dropped.
Kept(rows) == [s \in Sides |-> IF rows[s] = Flat THEN NoLock ELSE locks[s]]

\* Mutant of GuardEnds: a moved stop is saved with the others, when the throttle lets it.
GuardEndsThrottled ==
    /\ cyc.pc = "weighing" /\ cyc.left = {}
    /\ locks' = Kept(cyc.rows)
    /\ FileOfLocks(locks', locks' # locks)
    /\ \E failed \in BOOLEAN :
         /\ snap' \in IF failed THEN {snap} ELSE {snap, locks'}
         /\ earned' = [s \in Sides |-> IF cyc.changed /\ ~failed THEN locks'[s].stop
                                       ELSE EarnedWith(locks')[s]]
    /\ cyc' = Idle
    /\ UNCHANGED <<exchangeVars, cache, call, sweep, booting, restarts>>

\* The end of the cycle: cleanup, the locks into the files, and the snapshot, which
\* _manage_live_open_positions_once forces when something changed.  A write that fails
\* is logged only.
GuardEnds ==
    /\ cyc.pc = "weighing" /\ cyc.left = {}
    /\ locks' = Kept(cyc.rows)
    /\ FileOfLocks(locks', locks' # locks)
    /\ \E failed \in BOOLEAN :
         /\ snap' \in IF failed THEN {snap} ELSE IF cyc.changed THEN {locks'} ELSE {snap, locks'}
         /\ earned' = [s \in Sides |-> IF cyc.changed /\ ~failed THEN locks'[s].stop
                                       ELSE EarnedWith(locks')[s]]
    /\ cyc' = Idle
    /\ UNCHANGED <<exchangeVars, cache, call, sweep, booting, restarts>>

-----------------------------------------------------------------------------
(* sweep_orphan_protective_orders, a task of its own.                       *)

\* Orders are resting somewhere.
SweepLists ==
    /\ sweep.pc = "idle"
    /\ \E s \in Sides : resting[s] # {}
    /\ sweep' = [sweep EXCEPT !.pc = "listed"]
    /\ UNCHANGED <<exchangeVars, locks, cache, cyc, call, booting, diskVars, restarts, earned>>

\* Mutant of SweepReads: it fails open, a failed request counts as no position.
SweepReadsOpen ==
    /\ sweep.pc = "listed"
    /\ sweep' \in {NoSweep, [pc |-> "flat", seen |-> entries]}
    /\ UNCHANGED <<exchangeVars, locks, cache, cyc, call, booting, diskVars, restarts, earned>>

\* The positions are read: a symbol with one is spared; a failed request ends the sweep.
SweepReads ==
    /\ sweep.pc = "listed"
    /\ sweep' \in IF pos = NoRows THEN {NoSweep, [pc |-> "flat", seen |-> entries]} ELSE {NoSweep}
    /\ UNCHANGED <<exchangeVars, locks, cache, cyc, call, booting, diskVars, restarts, earned>>

\* The orders of the symbol that was flat are cancelled.
SweepCancels ==
    /\ sweep.pc = "flat"
    /\ CancelAllOrders
    /\ sweep' = NoSweep
    /\ UNCHANGED <<pos, locks, cache, cyc, call, booting, diskVars, entries, restarts, earned>>

-----------------------------------------------------------------------------
(* The operator, the snapshot and restarts.                                 *)

\* autotrade_update_sl_tp: the levels of every lock anew, from its entry; the
\* snapshot is written only when 30 s are over.
UpdateSlTp ==
    /\ locks # NoLocks
    /\ \E new \in Stops :
           locks' = [s \in Sides |-> IF Locked(s) THEN [locks[s] EXCEPT !.stop = new] ELSE NoLock]
    /\ snap' \in {snap, locks'}
    /\ earned' = EarnedWith(locks')
    /\ UNCHANGED <<exchangeVars, cache, cyc, call, sweep, booting, file, restarts>>

\* autotrade_start forgets all locks and cancels the loop task, with its cycle or call.
StartForgets ==
    /\ locks' = NoLocks
    /\ snap' \in {snap, NoLocks}
    /\ cyc' = Idle
    /\ call' = IF call.by = "loop" THEN NoCall ELSE call
    /\ earned' = EarnedWith(NoLocks)
    /\ UNCHANGED <<exchangeVars, cache, sweep, booting, file, restarts>>

\* persist_autotrade_snapshot, from anywhere else.
Saves ==
    /\ snap' = locks
    /\ UNCHANGED <<exchangeVars, locks, cache, cyc, call, sweep, booting, file, restarts, earned>>

\* The process ends anywhere and is started again.  A lock that the snapshot lacks
\* comes back from the file.
Restart ==
    /\ restarts < MaxRestarts
    /\ restarts' = restarts + 1
    /\ locks' = [s \in Sides |-> IF snap[s] = NoLock /\ file.side = s THEN file.lock ELSE snap[s]]
    /\ DropCache
    /\ cyc' = Idle /\ call' = NoCall /\ sweep' = NoSweep
    /\ booting' = (locks' # NoLocks)
    /\ UNCHANGED <<exchangeVars, diskVars, earned>>

\* _startup_reconcile: locks without a position are dropped, and those whose entry is
\* more than 5 % off.
ReconcilesAtStart ==
    /\ booting
    /\ ReadRows
    /\ \E off \in SUBSET {s \in Sides : locks[s].of # Rows[s]} :
         LET stale == off \cup {s \in Sides : Rows[s] = Flat}
         IN  locks' = [s \in Sides |-> IF s \in stale THEN NoLock ELSE locks[s]]
    /\ snap' \in {snap, locks'}
    /\ file' = IF Rows = NoRows THEN NoFile ELSE file
    /\ booting' = FALSE
    /\ earned' = EarnedWith(locks')
    /\ UNCHANGED <<exchangeVars, cyc, call, sweep, restarts>>

\* It cannot read the positions.
SkipsReconcile ==
    /\ booting
    /\ booting' = FALSE
    /\ UNCHANGED <<exchangeVars, locks, cache, cyc, call, sweep, diskVars, restarts, earned>>

-----------------------------------------------------------------------------
Exchange(s) ==
    \/ OpensUnseen(s) \/ ClosesUnseen(s)
    \/ \E e \in Entries : OrderFires(s, e) \/ Lapse(s, e)

Call == PlaceTpSl \/ Verified \/ Warned \/ CallCancelled

\* What the guardian goes on with by itself once its cycle has begun.
CycleStep ==
    \/ CutsDone \/ Trails \/ ExitDone \/ GuardEnds
    \/ \E s \in Sides : CloseClears(s) \/ CloseFills(s) \/ CloseFails(s)
                        \/ Keeps(s) \/ Tightens(s) \/ Holds(s) \/ Exits(s)

Sweep == SweepLists \/ SweepReads \/ SweepCancels

Next ==
    \/ \E s \in Sides : Exchange(s) \/ \E by \in Callers : EntryFills(s, by)
    \/ Call
    \/ OthersRead \/ CacheExpires
    \/ GuardBegins \/ CycleStep
    \/ Sweep
    \/ UpdateSlTp \/ StartForgets \/ Saves
    \/ Restart \/ ReconcilesAtStart \/ SkipsReconcile

Spec == Init /\ [][Next]_vars

\* Requests are answered or time out, the 25 s pass, the loop comes round to the
\* guardian again and again and now and then it can read the positions.  No entry,
\* edit or restart need happen, and no order need expire.
Fairness ==
    /\ WF_vars(CycleStep) /\ WF_vars(Call) /\ WF_vars(CacheExpires)
    /\ SF_vars(GuardBegins)

FairSpec == Spec /\ Fairness

-----------------------------------------------------------------------------
(* What the parts together guarantee.                                       *)

\* A position that stays open comes under a lock or is being closed, however it was
\* opened and whatever became of its orders, of the call that opened it and of locks
\* dropped on old rows.
ComesUnderGuard ==
    \A s \in Sides, e \in Entries :
        pos[s] = e ~> (Locked(s) \/ cyc.jobs[s] # "none" \/ pos[s] # e)

\* A lock of a position that is gone goes away ("Cleanup stale lock states when
\* position disappeared"), unless the side is opened again.
PhantomLocksEnd ==
    \A s \in Sides : (Locked(s) /\ pos[s] = Flat) ~> (~Locked(s) \/ pos[s] # Flat)

\* While a lock of the same entry is in place the guardian never loosens its stop, but
\* once: when it validates the lock and finds that its entry has drifted.  Else only the
\* operator, the call that seeds the lock, a hold that crosses an operator's edit and a
\* restart do.
StopOnlyTightens ==
    [][\A s \in Sides :
          (/\ Locked(s) /\ locks'[s] # NoLock
           /\ locks'[s].of = locks[s].of
           /\ locks'[s].stop < locks[s].stop)
          => \/ UpdateSlTp \/ Warned \/ Restart
             \/ cyc.pc = "idle" /\ ~locks[s].valid /\ locks'[s].valid
             \/ cyc.pc = "holding" /\ cyc.at = s /\ locks'[s].stop >= cyc.held.stop]_vars

\* A restart gives back what the guardian has tightened in cycles that ended and were
\* saved: the lock is there and its stop is no looser.
TighteningSurvives ==
    [][restarts' # restarts => \A s \in Sides : locks'[s].stop >= earned[s]]_vars

\* The sweep takes the orders of a position only if that was opened after the sweep had
\* read the positions ("Fails closed: any error reading positions cancels nothing").
SweepSparesHeld ==
    [][(sweep.pc = "flat" /\ resting' # resting /\ SweepCancels)
       => \A s \in Sides : pos[s] = Flat \/ pos[s] > sweep.seen]_vars
=============================================================================
