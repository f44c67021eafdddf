-------------------------- MODULE PositionGuardProofs --------------------------
(***************************************************************************)
(* Proofs about the guard of positions, for any number of sides, entries,  *)
(* levels and restarts: who may loosen a stop, that what a finished cycle  *)
(* has tightened survives a restart, and what the sweep may take.          *)
(*                                                                         *)
(* The invariants add to the types what the locals of a call and of a hold *)
(* are (Locals), that memory and snapshot are never behind what was earned *)
(* (Earned), and that positions are numbered as they are opened (Counted). *)
(***************************************************************************)
EXTENDS PositionGuard, TLAPS

\* A call follows an entry that was filled, and a hold has read a lock.
Locals ==
    /\ call.pc # "none" => call.side \in Sides /\ call.of \in Entries
    /\ cyc.pc = "holding" => cyc.held \in Lock

\* What the history says is in memory and in the snapshot.
Earned == \A s \in Sides : earned[s] <= locks[s].stop /\ earned[s] <= snap[s].stop

\* Positions are numbered in the order they are opened in.
Counted ==
    /\ \A s \in Sides : pos[s] <= entries
    /\ sweep.seen <= entries
    /\ sweep.pc = "flat" => \A s \in Sides : pos[s] = Flat \/ pos[s] > sweep.seen

Typed == TypeOK /\ Locals

-----------------------------------------------------------------------------
(* Types.                                                                   *)

LEMMA Bounds == MaxEntries \in Nat /\ MaxStop \in Nat /\ MaxRestarts \in Nat /\ NoSide \notin Sides
BY GuardAssumption

USE DEF Entries, Stops, Flat

LEMMA NoLockIsNone ==
    /\ NoLock \in LockOrNone /\ NoLock \notin Lock /\ NoLock.stop = 0 /\ NoLock.of = Flat
    /\ NoLock.valid = FALSE
<1>1. NoLock.of = 0 /\ NoLock.stop = 0 /\ NoLock.valid = FALSE
    BY DEF NoLock
<1>2. \A k \in Lock : k.of \in 1 .. MaxEntries
    BY DEF Lock
<1>3. NoLock \notin Lock
    BY <1>1, <1>2, Bounds
<1> QED BY <1>1, <1>3 DEF LockOrNone

LEMMA LocksAreLocks ==
    ASSUME NEW k \in LockOrNone
    PROVE  /\ k # NoLock <=> k \in Lock
           /\ k.stop \in Stops /\ k.of \in 0 .. MaxEntries /\ k.valid \in BOOLEAN
<1>1. CASE k \in Lock
  <2>1. k.stop \in Stops /\ k.of \in Entries /\ k.valid \in BOOLEAN
      BY <1>1 DEF Lock
  <2> QED BY <1>1, <2>1, NoLockIsNone, Bounds
<1>2. CASE k = NoLock
  <2>1. k.valid \in BOOLEAN
      BY <1>2, NoLockIsNone, Zenon
  <2>2. k.stop \in Stops /\ k.of \in 0 .. MaxEntries /\ k \notin Lock
      BY <1>2, NoLockIsNone, Bounds
  <2> QED BY <1>2, <2>1, <2>2, Zenon
<1> QED BY <1>1, <1>2 DEF LockOrNone

LEMMA MovesStop ==
    ASSUME NEW k \in Lock, NEW n \in Stops
    PROVE  /\ [k EXCEPT !.stop = n] \in Lock
           /\ [k EXCEPT !.stop = n].of = k.of
           /\ [k EXCEPT !.stop = n].stop = n
BY DEF Lock

LEMMA Validates ==
    ASSUME NEW k \in Lock
    PROVE  /\ [k EXCEPT !.valid = TRUE] \in Lock
           /\ [k EXCEPT !.valid = TRUE].of = k.of
           /\ [k EXCEPT !.valid = TRUE].stop = k.stop
BY DEF Lock

\* What the guardian makes of the lock of a position is a lock; of one that stays that
\* of the same entry, it leaves the stop, unless it validates the lock in this step.
LEMMA RefreshedIsLock ==
    ASSUME NEW k \in LockOrNone, NEW e \in Entries, NEW check
    PROVE  /\ Refreshed(k, e, check) \in Lock
           /\ \/ k = NoLock
              \/ Refreshed(k, e, check).stop = k.stop
              \/ ~k.valid /\ Refreshed(k, e, check).valid
<1>1. Derived(e) \in Lock
    BY Bounds DEF Derived, Lock
<1>2. /\ [Derived(e) EXCEPT !.valid = TRUE] \in Lock
      /\ [Derived(e) EXCEPT !.valid = TRUE].valid
    BY <1>1, Validates DEF Derived
<1>3. k # NoLock => k \in Lock
    BY LocksAreLocks
<1>4. CASE k = NoLock
    BY <1>1, <1>4 DEF Refreshed
<1>5. CASE k # NoLock /\ (k.valid \/ check = "failed")
    BY <1>3, <1>5 DEF Refreshed
<1>6. CASE k # NoLock /\ ~(k.valid \/ check = "failed") /\ check = "drifted"
    BY <1>2, <1>6 DEF Refreshed
<1>7. CASE k # NoLock /\ ~(k.valid \/ check = "failed") /\ check # "drifted"
  <2>1. Refreshed(k, e, check) = [k EXCEPT !.valid = TRUE]
      BY <1>7 DEF Refreshed
  <2> QED BY <1>3, <1>7, <2>1, Validates
<1> QED BY <1>4, <1>5, <1>6, <1>7

LEMMA ManagedTypes ==
    ASSUME TypeOK, NEW rows \in [Sides -> 0 .. MaxEntries], NEW check
    PROVE  Managed(rows, check) \in [Sides -> LockOrNone]
<1>1. ASSUME NEW s \in Sides, rows[s] # Flat
      PROVE  Refreshed(locks[s], rows[s], check[s]) \in LockOrNone
  <2>1. rows[s] \in Entries /\ locks[s] \in LockOrNone
      BY <1>1, Bounds DEF TypeOK
  <2> QED BY <2>1, RefreshedIsLock DEF LockOrNone
<1> QED BY <1>1 DEF Managed, TypeOK

LEMMA RowsType == TypeOK => Rows \in [Sides -> 0 .. MaxEntries]
BY DEF TypeOK, Rows

LEMMA EarnedTypes ==
    ASSUME TypeOK, NEW new
    PROVE  EarnedWith(new) \in [Sides -> Stops]
BY Bounds DEF TypeOK, EarnedWith

LEMMA IdleTypes ==
    /\ Idle \in [pc: {"idle", "cutting", "weighing", "holding", "exiting"},
                rows: [Sides -> 0 .. MaxEntries], left: SUBSET Sides,
                jobs: [Sides -> {"none", "asked", "cleared"}],
                at: Sides \cup {NoSide}, held: LockOrNone, changed: BOOLEAN]
    /\ Idle.pc = "idle"
BY Bounds, NoLockIsNone DEF Idle, NoRows, NoJobs

LEMMA NoneTypes ==
    /\ NoCall \in [pc: {"none", "filled", "placed"}, side: Sides \cup {NoSide},
                  of: 0 .. MaxEntries, by: {"loop", "route"}]
    /\ NoCall.pc = "none"
    /\ Stale \in [fresh: BOOLEAN, rows: [Sides -> 0 .. MaxEntries]]
    /\ NoSweep \in [pc: {"idle", "listed", "flat"}, seen: 0 .. MaxEntries]
    /\ NoFile \in [side: Sides \cup {NoSide}, lock: LockOrNone]
    /\ NoLocks \in [Sides -> LockOrNone]
BY Bounds, NoLockIsNone DEF NoCall, Stale, NoRows, NoSweep, NoFile, NoLocks

LEMMA InitTyped == Init => Typed
<1> SUFFICES ASSUME Init PROVE Typed
    OBVIOUS
<1>1. pos \in [Sides -> 0 .. MaxEntries] /\ resting \in [Sides -> SUBSET Entries]
    BY Bounds DEF Init, NoRows
<1>2. earned \in [Sides -> Stops] /\ entries \in 0 .. MaxEntries /\ restarts \in 0 .. MaxRestarts
    BY Bounds DEF Init
<1>3. booting \in BOOLEAN
    BY Zenon DEF Init
<1> QED BY <1>1, <1>2, <1>3, IdleTypes, NoneTypes DEF Init, Typed, TypeOK, Locals

\* What the exchange does, the call, and those who only read or save.
LEMMA OutsideTyped ==
    ASSUME Typed,
           \/ \E s \in Sides : Exchange(s) \/ \E by \in Callers : EntryFills(s, by)
           \/ Call \/ OthersRead \/ CacheExpires \/ Sweep \/ Saves \/ SkipsReconcile
    PROVE  Typed'
<1> USE Bounds DEF Typed, TypeOK, Locals
<1>1. ASSUME NEW s \in Sides, OpensUnseen(s) PROVE Typed'
    BY <1>1 DEF OpensUnseen, diskVars
<1>2. ASSUME NEW s \in Sides, ClosesUnseen(s) PROVE Typed'
    BY <1>2 DEF ClosesUnseen, diskVars
<1>3. ASSUME NEW s \in Sides, NEW e \in Entries, OrderFires(s, e) PROVE Typed'
    BY <1>3 DEF OrderFires, diskVars
<1>4. ASSUME NEW s \in Sides, NEW e \in Entries, Lapse(s, e) PROVE Typed'
    BY <1>4 DEF Lapse, diskVars
<1>5. ASSUME NEW s \in Sides, NEW by \in Callers, EntryFills(s, by) PROVE Typed'
    BY <1>5, GuardAssumption DEF EntryFills, diskVars
<1>6. CASE PlaceTpSl
    BY <1>6 DEF PlaceTpSl, diskVars
<1>7. CASE Verified
    BY <1>7, NoneTypes DEF Verified, diskVars, exchangeVars
<1>8. CASE Warned
  <2> DEFINE seeded == [of |-> call.of, stop |-> 0, valid |-> locks[call.side].valid]
  <2>1. locks[call.side] \in LockOrNone /\ call.side \in Sides /\ call.of \in Entries
      BY <1>8 DEF Warned
  <2>2. locks[call.side].valid \in BOOLEAN
      BY <2>1, LocksAreLocks
  <2>3. seeded \in Lock
      BY <2>1, <2>2 DEF Lock
  <2>4. locks' = [locks EXCEPT ![call.side] = seeded]
      BY <1>8 DEF Warned
  <2>5. locks' \in [Sides -> LockOrNone]
    <3> HIDE DEF seeded
    <3> QED BY <2>3, <2>4 DEF LockOrNone
  <2>6. resting' \in [Sides -> SUBSET Entries]
      BY <1>8, <2>1 DEF Warned
  <2>7. call' = NoCall /\ earned' \in [Sides -> Stops]
      BY <1>8 DEF Warned
  <2>8. UNCHANGED <<pos, cache, cyc, sweep, booting, diskVars, entries, restarts>>
      BY <1>8 DEF Warned
  <2> HIDE DEF seeded
  <2> QED BY <2>5, <2>6, <2>7, <2>8, NoneTypes DEF diskVars
<1>9. CASE CallCancelled
  <2>1. PICK placed \in SUBSET {call.of} : resting' = [resting EXCEPT ![call.side] = @ \cup placed]
      BY <1>9 DEF CallCancelled
  <2>2. placed \subseteq Entries
      BY <1>9 DEF CallCancelled
  <2>3. resting' \in [Sides -> SUBSET Entries]
      BY <2>1, <2>2
  <2> QED BY <1>9, <2>3, NoneTypes DEF CallCancelled, diskVars
<1>10. CASE OthersRead
    BY <1>10, RowsType DEF OthersRead, ReadRows, diskVars, exchangeVars
<1>11. CASE CacheExpires
    BY <1>11, NoneTypes DEF CacheExpires, DropCache, diskVars, exchangeVars
<1>12. CASE SweepLists
    BY <1>12 DEF SweepLists, diskVars, exchangeVars
<1>13. CASE SweepReads
    BY <1>13 DEF SweepReads, NoSweep, diskVars, exchangeVars
<1>14. CASE SweepCancels
    BY <1>14 DEF SweepCancels, CancelAllOrders, NoSweep, diskVars
<1>15. CASE Saves
    BY <1>15 DEF Saves, exchangeVars
<1>16. CASE SkipsReconcile
    BY <1>16 DEF SkipsReconcile, diskVars, exchangeVars
<1> QED BY <1>1, <1>2, <1>3, <1>4, <1>5, <1>6, <1>7, <1>8, <1>9, <1>10, <1>11, <1>12, <1>13,
          <1>14, <1>15, <1>16 DEF Exchange, Call, Sweep

\* What the guardian does.
LEMMA GuardTyped ==
    ASSUME Typed, GuardBegins \/ CycleStep
    PROVE  Typed'
<1> USE Bounds DEF Typed, TypeOK, Locals
<1>1. CASE GuardBegins
  <2>0. PICK check \in [Sides -> Checks], hits \in SUBSET {s \in Sides : Rows[s] # Flat} :
            /\ locks' = [s \in Sides |-> IF s \in hits THEN NoLock ELSE Managed(Rows, check)[s]]
            /\ FileOfOne(hits, Managed(Rows, check))
            /\ cyc' = [Idle EXCEPT !.pc = IF hits = {} THEN "weighing" ELSE "cutting",
                                   !.rows = Rows,
                                   !.jobs = [s \in Sides |-> IF s \in hits THEN "asked" ELSE "none"],
                                   !.left = {s \in Sides : Rows[s] # Flat /\ locks'[s] # NoLock},
                                   !.changed = hits # {}]
      BY <1>1, Zenon DEF GuardBegins
  <2> DEFINE managed == Managed(Rows, check)
  <2>1. managed \in [Sides -> LockOrNone] /\ Rows \in [Sides -> 0 .. MaxEntries]
      BY ManagedTypes, RowsType
  <2>2. /\ locks' = [s \in Sides |-> IF s \in hits THEN NoLock ELSE managed[s]]
        /\ FileOfOne(hits, managed)
        /\ cyc' = [Idle EXCEPT !.pc = IF hits = {} THEN "weighing" ELSE "cutting",
                               !.rows = Rows,
                               !.jobs = [s \in Sides |-> IF s \in hits THEN "asked" ELSE "none"],
                               !.left = {s \in Sides : Rows[s] # Flat /\ locks'[s] # NoLock},
                               !.changed = hits # {}]
      BY <2>0
  <2> HIDE DEF managed
  <2>3. locks' \in [Sides -> LockOrNone]
      BY <2>1, <2>2, NoLockIsNone
  <2>4. file' \in [side: Sides \cup {NoSide}, lock: LockOrNone]
      BY <2>1, <2>2 DEF FileOfOne, InFile
  <2>5. /\ cyc' \in [pc: {"idle", "cutting", "weighing", "holding", "exiting"},
                    rows: [Sides -> 0 .. MaxEntries], left: SUBSET Sides,
                    jobs: [Sides -> {"none", "asked", "cleared"}],
                    at: Sides \cup {NoSide}, held: LockOrNone, changed: BOOLEAN]
        /\ cyc'.pc # "holding"
      BY <2>1, <2>2, IdleTypes
  <2>6. cache' \in [fresh: BOOLEAN, rows: [Sides -> 0 .. MaxEntries]]
      BY <1>1, <2>1 DEF GuardBegins, ReadRows
  <2>7. earned' \in [Sides -> Stops]
      BY <1>1, EarnedTypes DEF GuardBegins
  <2> QED BY <1>1, <2>3, <2>4, <2>5, <2>6, <2>7 DEF GuardBegins, exchangeVars
<1>2. ASSUME NEW s \in Sides, CloseClears(s) PROVE Typed'
    BY <1>2 DEF CloseClears, CancelAllOrders, diskVars
<1>3. ASSUME NEW s \in Sides, CloseFills(s) PROVE Typed'
  <2>1. pos' \in [Sides -> 0 .. MaxEntries]
      BY <1>3 DEF CloseFills
  <2>2. cyc' = [cyc EXCEPT !.jobs[s] = "none"]
      BY <1>3 DEF CloseFills
  <2> QED BY <1>3, <2>1, <2>2 DEF CloseFills, diskVars
<1>4. ASSUME NEW s \in Sides, CloseFails(s) PROVE Typed'
    BY <1>4 DEF CloseFails, diskVars, exchangeVars
<1>5. CASE CutsDone
    BY <1>5, NoneTypes DEF CutsDone, DropCache, exchangeVars
<1>6. ASSUME NEW s \in Sides, Keeps(s) PROVE Typed'
    BY <1>6 DEF Keeps, diskVars, exchangeVars
<1>7. ASSUME NEW s \in Sides, Tightens(s) PROVE Typed'
  <2>1. locks[s] \in Lock
      BY <1>7, LocksAreLocks DEF Tightens, Locked
  <2>5. locks[s].stop \in Stops
      BY <2>1 DEF Lock
  <2>2. PICK new \in locks[s].stop .. MaxStop : locks' = [locks EXCEPT ![s].stop = new]
      BY <1>7, Zenon DEF Tightens
  <2>8. new \in Stops
      BY <2>5
  <2>3. locks' \in [Sides -> LockOrNone]
      BY <2>1, <2>2, <2>8, MovesStop DEF LockOrNone
  <2>4. cyc' = [cyc EXCEPT !.left = @ \ {s}, !.changed = TRUE]
      BY <1>7 DEF Tightens
  <2>6. cyc'.pc = cyc.pc /\ cyc'.held = cyc.held
      BY <2>4
  <2>7. UNCHANGED <<exchangeVars, cache, call, sweep, booting, diskVars, restarts, earned>>
      BY <1>7 DEF Tightens
  <2> QED BY <2>3, <2>4, <2>6, <2>7 DEF diskVars, exchangeVars
<1>8. ASSUME NEW s \in Sides, Holds(s) PROVE Typed'
  <2>1. locks[s] \in Lock
      BY <1>8, LocksAreLocks DEF Holds, Locked
  <2> QED BY <1>8, <2>1 DEF Holds, diskVars, exchangeVars
<1>9. CASE Trails
  <2>1. cyc.held \in Lock
      BY <1>9 DEF Trails
  <2>5. cyc.held.stop \in Stops
      BY <2>1 DEF Lock
  <2>2. PICK new \in cyc.held.stop .. MaxStop :
            locks' = [locks EXCEPT ![cyc.at] = [cyc.held EXCEPT !.stop = new]]
      BY <1>9, Zenon DEF Trails
  <2>6. new \in Stops
      BY <2>5
  <2>3. locks' \in [Sides -> LockOrNone]
      BY <2>1, <2>2, <2>6, MovesStop DEF LockOrNone
  <2>4. earned' \in [Sides -> Stops]
      BY <1>9, EarnedTypes DEF Trails
  <2> QED BY <1>9, <2>3, <2>4, NoLockIsNone DEF Trails, diskVars, exchangeVars
<1>10. ASSUME NEW s \in Sides, Exits(s) PROVE Typed'
    BY <1>10 DEF Exits, InFile, exchangeVars
<1>11. CASE ExitDone
  <2>1. earned' \in [Sides -> Stops]
      BY <1>11, EarnedTypes DEF ExitDone
  <2> QED BY <1>11, <2>1, NoneTypes, NoLockIsNone DEF ExitDone, DropCache, exchangeVars
<1>12. CASE GuardEnds
  <2>1. locks' \in [Sides -> LockOrNone]
      BY <1>12, NoLockIsNone DEF GuardEnds, Kept
  <2>2. file' \in [side: Sides \cup {NoSide}, lock: LockOrNone]
      BY <1>12, <2>1, NoneTypes DEF GuardEnds, FileOfLocks, InFile
  <2>3. snap' \in [Sides -> LockOrNone]
      BY <1>12, <2>1 DEF GuardEnds
  <2>4. \A s \in Sides : locks'[s].stop \in Stops
      BY <2>1, LocksAreLocks
  <2>5. earned' \in [Sides -> Stops]
      BY <1>12, <2>4, EarnedTypes DEF GuardEnds
  <2> QED BY <1>12, <2>1, <2>2, <2>3, <2>5, IdleTypes DEF GuardEnds, exchangeVars
<1> QED BY <1>1, <1>2, <1>3, <1>4, <1>5, <1>6, <1>7, <1>8, <1>9, <1>10, <1>11, <1>12 DEF CycleStep

\* What the operator does, and restarts.
LEMMA OperatorTyped ==
    ASSUME Typed, UpdateSlTp \/ StartForgets \/ Restart \/ ReconcilesAtStart
    PROVE  Typed'
<1> USE Bounds DEF Typed, TypeOK, Locals
<1>1. CASE UpdateSlTp
  <2>1. PICK new \in Stops :
            locks' = [s \in Sides |-> IF Locked(s) THEN [locks[s] EXCEPT !.stop = new] ELSE NoLock]
      BY <1>1 DEF UpdateSlTp
  <2>2. ASSUME NEW s \in Sides, Locked(s) PROVE [locks[s] EXCEPT !.stop = new] \in LockOrNone
    <3>1. locks[s] \in Lock
        BY <2>2, LocksAreLocks DEF Locked
    <3> QED BY <3>1, MovesStop DEF LockOrNone
  <2>3. locks' \in [Sides -> LockOrNone]
      BY <2>1, <2>2, NoLockIsNone
  <2>4. snap' \in [Sides -> LockOrNone]
      BY <1>1, <2>3 DEF UpdateSlTp
  <2>5. earned' \in [Sides -> Stops]
      BY <1>1, EarnedTypes DEF UpdateSlTp
  <2> QED BY <1>1, <2>3, <2>4, <2>5 DEF UpdateSlTp, exchangeVars
<1>2. CASE StartForgets
  <2>1. earned' \in [Sides -> Stops]
      BY <1>2, EarnedTypes DEF StartForgets
  <2> QED BY <1>2, <2>1, NoneTypes, IdleTypes DEF StartForgets, exchangeVars
<1>3. CASE Restart
  <2>1. locks' \in [Sides -> LockOrNone]
      BY <1>3 DEF Restart
  <2> QED BY <1>3, <2>1, NoneTypes, IdleTypes DEF Restart, DropCache, diskVars, exchangeVars
<1>4. CASE ReconcilesAtStart
  <2>1. PICK off \in SUBSET {s \in Sides : locks[s].of # Rows[s]} :
            LET stale == off \cup {s \in Sides : Rows[s] = Flat}
            IN  locks' = [s \in Sides |-> IF s \in stale THEN NoLock ELSE locks[s]]
      BY <1>4, Zenon DEF ReconcilesAtStart
  <2>2. locks' \in [Sides -> LockOrNone]
      BY <2>1, NoLockIsNone
  <2>3. earned' \in [Sides -> Stops]
      BY <1>4, EarnedTypes DEF ReconcilesAtStart
  <2>4. cache' \in [fresh: BOOLEAN, rows: [Sides -> 0 .. MaxEntries]]
      BY <1>4, RowsType DEF ReconcilesAtStart, ReadRows
  <2>5. file' \in [side: Sides \cup {NoSide}, lock: LockOrNone]
      BY <1>4, NoneTypes DEF ReconcilesAtStart
  <2>6. snap' \in [Sides -> LockOrNone] /\ booting' \in BOOLEAN
      BY <1>4, <2>2 DEF ReconcilesAtStart
  <2> QED BY <1>4, <2>2, <2>3, <2>4, <2>5, <2>6 DEF ReconcilesAtStart, exchangeVars
<1> QED BY <1>1, <1>2, <1>3, <1>4

LEMMA NextTyped == Typed /\ [Next]_vars => Typed'
<1>1. ASSUME Typed, UNCHANGED vars PROVE Typed'
    BY <1>1 DEF Typed, TypeOK, Locals, vars, exchangeVars, diskVars
<1>2. ASSUME Typed, Next PROVE Typed'
    BY <1>2, OutsideTyped, GuardTyped, OperatorTyped DEF Next
<1> QED BY <1>1, <1>2

\* Every variable of the guard keeps its type, for any number of sides and entries: a
\* lock that is put back after TradingView has answered is the lock of an entry.
THEOREM GuardTypes == Spec => []TypeOK
<1>1. Init => Typed
    BY InitTyped
<1>2. Typed /\ [Next]_vars => Typed'
    BY NextTyped
<1>3. Typed => TypeOK
    BY DEF Typed
<1> QED BY <1>1, <1>2, <1>3, PTL DEF Spec

-----------------------------------------------------------------------------
(* What was earned.                                                         *)

\* Most steps touch neither the locks nor their snapshot,
Spares == UNCHANGED <<locks, snap, earned>>

\* or the history follows what becomes of the locks, saved or not.
Follows == earned' = EarnedWith(locks') /\ snap' \in {snap, locks'}

LEMMA StepKinds ==
    ASSUME [Next]_vars
    PROVE  \/ Spares \/ Follows
           \/ \E s \in Sides : Tightens(s)
           \/ Warned \/ GuardEnds \/ Saves \/ Restart
<1>1. CASE UNCHANGED vars
    BY <1>1 DEF vars, diskVars, Spares
<1>2. ASSUME NEW s \in Sides, Exchange(s) PROVE Spares
    BY <1>2 DEF Exchange, OpensUnseen, ClosesUnseen, OrderFires, Lapse, diskVars, Spares
<1>3. ASSUME NEW s \in Sides, NEW by \in Callers, EntryFills(s, by) PROVE Spares
    BY <1>3 DEF EntryFills, diskVars, Spares
<1>4. CASE PlaceTpSl \/ Verified \/ CallCancelled \/ OthersRead \/ CacheExpires
    BY <1>4 DEF PlaceTpSl, Verified, CallCancelled, OthersRead, CacheExpires, diskVars, Spares
<1>5. CASE Sweep \/ SkipsReconcile
    BY <1>5 DEF Sweep, SweepLists, SweepReads, SweepCancels, SkipsReconcile, diskVars, Spares
<1>6. CASE GuardBegins \/ UpdateSlTp \/ ReconcilesAtStart
    BY <1>6 DEF GuardBegins, UpdateSlTp, ReconcilesAtStart, diskVars, Follows
<1>7. CASE StartForgets
    BY <1>7 DEF StartForgets, Follows
<1>8. CASE Trails \/ ExitDone
    BY <1>8 DEF Trails, ExitDone, diskVars, Follows
<1>9. CASE CutsDone
    BY <1>9 DEF CutsDone, Spares
<1>10. ASSUME NEW s \in Sides,
              CloseClears(s) \/ CloseFills(s) \/ CloseFails(s) \/ Keeps(s) \/ Holds(s) \/ Exits(s)
       PROVE  Spares
    BY <1>10 DEF CloseClears, CloseFills, CloseFails, Keeps, Holds, Exits, diskVars, Spares
<1> QED BY <1>1, <1>2, <1>3, <1>4, <1>5, <1>6, <1>7, <1>8, <1>9, <1>10 DEF Next, Call, CycleStep

\* A history that follows the locks is never ahead of them, nor of what it was.
LEMMA Followed ==
    ASSUME Typed, NEW new \in [Sides -> LockOrNone], NEW s \in Sides
    PROVE  EarnedWith(new)[s] <= new[s].stop /\ EarnedWith(new)[s] <= earned[s]
<1>1. new[s].stop \in Nat /\ earned[s] \in Nat
    BY Bounds, LocksAreLocks DEF Typed, TypeOK
<1>2. EarnedWith(new)[s] = IF new[s] = NoLock \/ new[s].stop < earned[s] THEN 0 ELSE earned[s]
    BY DEF EarnedWith
<1> QED BY <1>1, <1>2

LEMMA StaysEarned == Typed /\ Earned /\ [Next]_vars => Earned'
<1> SUFFICES ASSUME Typed, Earned, [Next]_vars, NEW s \in Sides
             PROVE  earned'[s] <= locks'[s].stop /\ earned'[s] <= snap'[s].stop
    BY DEF Earned
<1>1. Typed'
    BY NextTyped
<1>2. /\ locks \in [Sides -> LockOrNone] /\ locks' \in [Sides -> LockOrNone]
      /\ locks[s].stop \in Nat /\ locks'[s].stop \in Nat
      /\ snap[s].stop \in Nat /\ snap'[s].stop \in Nat
      /\ earned[s] \in Nat /\ earned'[s] \in Nat
    BY <1>1, Bounds, LocksAreLocks DEF Typed, TypeOK
<1>3. earned[s] <= locks[s].stop /\ earned[s] <= snap[s].stop
    BY DEF Earned
<1>4. CASE Spares
    BY <1>3, <1>4 DEF Spares
<1>5. CASE Follows
  <2>1. earned'[s] <= locks'[s].stop /\ earned'[s] <= earned[s]
      BY <1>2, <1>5, Followed DEF Follows
  <2> QED BY <1>2, <1>3, <1>5, <2>1 DEF Follows
<1>6. ASSUME NEW t \in Sides, Tightens(t)
      PROVE  earned'[s] <= locks'[s].stop /\ earned'[s] <= snap'[s].stop
  <2>1. PICK new \in locks[t].stop .. MaxStop : locks' = [locks EXCEPT ![t].stop = new]
      BY <1>6, Zenon DEF Tightens
  <2>2. locks[t].stop \in Stops /\ locks[t] \in Lock
      BY <1>6, LocksAreLocks DEF Tightens, Locked, Typed, TypeOK
  <2>3. locks[s].stop <= locks'[s].stop
    <3>1. new >= locks[t].stop /\ new \in Stops
        BY <2>2, Bounds
    <3>2. s # t => locks'[s] = locks[s]
        BY <2>1, <1>2
    <3>3. locks'[t].stop = new
        BY <2>1, <2>2, <3>1, <1>2, MovesStop
    <3> QED BY <3>1, <3>2, <3>3, <1>2
  <2>4. UNCHANGED <<snap, earned>>
      BY <1>6 DEF Tightens, diskVars
  <2> QED BY <1>2, <1>3, <2>3, <2>4
<1>7. CASE Warned
  <2>1. earned' = [earned EXCEPT ![call.side] = 0] /\ snap' = snap
      BY <1>7 DEF Warned, diskVars
  <2>2. s # call.side => locks'[s] = locks[s] /\ earned'[s] = earned[s]
      BY <1>2, <1>7, <2>1 DEF Warned, Typed, TypeOK
  <2>3. s = call.side => earned'[s] = 0
      BY <2>1 DEF Typed, TypeOK
  <2> QED BY <1>2, <1>3, <2>1, <2>2, <2>3
<1>8. CASE GuardEnds
  <2>0. PICK failed \in BOOLEAN :
            /\ snap' \in IF failed THEN {snap} ELSE IF cyc.changed THEN {locks'} ELSE {snap, locks'}
            /\ earned' = [t \in Sides |-> IF cyc.changed /\ ~failed THEN locks'[t].stop
                                          ELSE EarnedWith(locks')[t]]
      BY <1>8, Zenon DEF GuardEnds
  <2>1. CASE cyc.changed /\ ~failed
    <3>1. earned'[s] = locks'[s].stop /\ snap' = locks'
        BY <2>0, <2>1
    <3> QED BY <1>2, <3>1
  <2>2. CASE ~(cyc.changed /\ ~failed)
    <3>1. earned'[s] = EarnedWith(locks')[s] /\ (snap' = snap \/ snap' = locks')
        BY <2>0, <2>2
    <3>2. earned'[s] <= locks'[s].stop /\ earned'[s] <= earned[s]
        BY <1>2, <3>1, Followed
    <3> QED BY <1>2, <1>3, <3>1, <3>2
  <2> QED BY <2>1, <2>2
<1>9. CASE Saves
    BY <1>3, <1>9 DEF Saves
<1>10. CASE Restart
  <2>1. UNCHANGED <<snap, earned>>
      BY <1>10 DEF Restart, diskVars
  <2>2. CASE snap[s] = NoLock
    <3>1. earned[s] = 0
        BY <1>2, <1>3, <2>2, NoLockIsNone
    <3> QED BY <1>2, <1>3, <2>1, <3>1
  <2>3. CASE snap[s] # NoLock
    <3>1. locks'[s] = snap[s]
        BY <1>10, <2>3 DEF Restart
    <3> QED BY <1>3, <2>1, <3>1
  <2> QED BY <2>2, <2>3
<1> QED BY <1>4, <1>5, <1>6, <1>7, <1>8, <1>9, <1>10, StepKinds

LEMMA InitEarned == Init => Earned
<1> SUFFICES ASSUME Init, NEW s \in Sides
             PROVE  earned[s] <= locks[s].stop /\ earned[s] <= snap[s].stop
    BY DEF Earned
<1>1. locks[s] = NoLock /\ snap[s] = NoLock /\ earned[s] = 0
    BY DEF Init, NoLocks
<1> QED BY <1>1, NoLockIsNone

\* Only a restart counts as one.
LEMMA OnlyRestartRestarts == [Next]_vars /\ restarts' # restarts => Restart
<1>1. ASSUME NEW s \in Sides, Exchange(s) PROVE restarts' = restarts
    BY <1>1 DEF Exchange, OpensUnseen, ClosesUnseen, OrderFires, Lapse
<1>2. ASSUME NEW s \in Sides, NEW by \in Callers, EntryFills(s, by) PROVE restarts' = restarts
    BY <1>2 DEF EntryFills
<1>3. CASE Call \/ OthersRead \/ CacheExpires
    BY <1>3 DEF Call, PlaceTpSl, Verified, Warned, CallCancelled, OthersRead, CacheExpires
<1>4. CASE Sweep \/ SkipsReconcile \/ ReconcilesAtStart \/ UpdateSlTp \/ StartForgets \/ Saves
    BY <1>4 DEF Sweep, SweepLists, SweepReads, SweepCancels, SkipsReconcile, ReconcilesAtStart,
                UpdateSlTp, StartForgets, Saves
<1>5. CASE GuardBegins \/ CutsDone \/ Trails \/ ExitDone \/ GuardEnds
    BY <1>5 DEF GuardBegins, CutsDone, Trails, ExitDone, GuardEnds
<1>6. ASSUME NEW s \in Sides,
             CloseClears(s) \/ CloseFills(s) \/ CloseFails(s) \/ Keeps(s) \/ Tightens(s)
             \/ Holds(s) \/ Exits(s)
      PROVE  restarts' = restarts
    BY <1>6 DEF CloseClears, CloseFills, CloseFails, Keeps, Tightens, Holds, Exits
<1> QED BY <1>1, <1>2, <1>3, <1>4, <1>5, <1>6 DEF Next, CycleStep, vars

\* What the guardian has tightened in cycles that ended is there after any restart: in
\* the snapshot, which such a cycle forces, whatever was saved after it.
THEOREM TighteningAlwaysSurvives == Spec => TighteningSurvives
<1> DEFINE GivesBack == restarts' # restarts => \A s \in Sides : locks'[s].stop >= earned[s]
<1>1. Typed /\ Earned /\ [Next]_vars => GivesBack
  <2> SUFFICES ASSUME Typed, Earned, [Next]_vars, restarts' # restarts, NEW s \in Sides
               PROVE  locks'[s].stop >= earned[s]
      OBVIOUS
  <2>1. Restart
      BY OnlyRestartRestarts
  <2>2. earned' = earned
      BY <2>1 DEF Restart
  <2>3. Earned' /\ Typed'
      BY StaysEarned, NextTyped
  <2>4. earned'[s] <= locks'[s].stop /\ earned'[s] \in Nat /\ locks'[s].stop \in Nat
      BY <2>3, Bounds, LocksAreLocks DEF Earned, Typed, TypeOK
  <2> QED BY <2>2, <2>4
<1>2. Init => Typed /\ Earned
    BY InitTyped, InitEarned
<1>3. Typed /\ Earned /\ [Next]_vars => Typed' /\ Earned'
    BY NextTyped, StaysEarned
<1>4. Typed /\ Earned /\ [Next]_vars => [GivesBack]_vars
    BY <1>1
<1> QED BY <1>2, <1>3, <1>4, PTL DEF Spec, TighteningSurvives

-----------------------------------------------------------------------------
(* Who loosens a stop.                                                      *)

Loosens(s) ==
    /\ Locked(s) /\ locks'[s] # NoLock
    /\ locks'[s].of = locks[s].of
    /\ locks'[s].stop < locks[s].stop

\* The stop was read before TradingView was asked, and is put back no looser than it was.
HoldLoosens(s) == cyc.pc = "holding" /\ cyc.at = s /\ locks'[s].stop >= cyc.held.stop

\* The lock is validated for the first time.
Validated(s) == cyc.pc = "idle" /\ ~locks[s].valid /\ locks'[s].valid

Excused(s) == UpdateSlTp \/ Warned \/ Restart \/ Validated(s) \/ HoldLoosens(s)

LEMMA SameLockStays ==
    ASSUME Typed, NEW s \in Sides, locks'[s] = locks[s]
    PROVE  ~Loosens(s)
<1>1. locks[s].stop \in Nat
    BY Bounds, LocksAreLocks DEF Typed, TypeOK
<1> QED BY <1>1 DEF Loosens

LEMMA LoosensExcused ==
    ASSUME Typed, [Next]_vars, NEW s \in Sides, Loosens(s)
    PROVE  Excused(s)
<1> SUFFICES ASSUME ~Excused(s) PROVE FALSE
    OBVIOUS
<1>1. locks[s] \in LockOrNone /\ locks[s].stop \in Nat /\ locks' \in [Sides -> LockOrNone]
    BY NextTyped, Bounds, LocksAreLocks DEF Typed, TypeOK
<1>2. ~Spares
    BY SameLockStays DEF Spares
<1>3. ASSUME NEW t \in Sides, Tightens(t) PROVE FALSE
  <2>1. PICK new \in locks[t].stop .. MaxStop : locks' = [locks EXCEPT ![t].stop = new]
      BY <1>3, Zenon DEF Tightens
  <2>2. locks[t] \in Lock /\ locks[t].stop \in Stops
      BY <1>3, LocksAreLocks DEF Tightens, Locked, Typed, TypeOK
  <2>3. new \in Stops /\ new >= locks[t].stop
      BY <2>2, Bounds
  <2>4. locks'[t].stop = new
      BY <2>1, <2>2, <2>3, MovesStop DEF Typed, TypeOK
  <2>5. s # t => locks'[s] = locks[s]
      BY <2>1 DEF Typed, TypeOK
  <2> QED BY <1>1, <2>3, <2>4, <2>5, SameLockStays DEF Loosens
<1>4. ~Saves
    BY SameLockStays DEF Saves
<1>5. ASSUME GuardEnds PROVE FALSE
  <2>1. locks'[s] \in {NoLock, locks[s]}
      BY <1>5 DEF GuardEnds, Kept
  <2> QED BY <2>1, SameLockStays DEF Loosens
<1>6. ASSUME GuardBegins PROVE FALSE
  <2>0. PICK check \in [Sides -> Checks], hits \in SUBSET {t \in Sides : Rows[t] # Flat} :
            locks' = [t \in Sides |-> IF t \in hits THEN NoLock ELSE Managed(Rows, check)[t]]
      BY <1>6, Zenon DEF GuardBegins
  <2>1. locks'[s] = NoLock \/ locks'[s] = Managed(Rows, check)[s]
      BY <2>0
  <2>2. Rows[s] \in 0 .. MaxEntries
      BY RowsType DEF Typed
  <2>3. CASE Rows[s] = Flat
    <3>1. Managed(Rows, check)[s] = locks[s]
        BY <2>3 DEF Managed
    <3> QED BY <2>1, <3>1, SameLockStays DEF Loosens
  <2>4. CASE Rows[s] # Flat
    <3>1. /\ Managed(Rows, check)[s] = Refreshed(locks[s], Rows[s], check[s])
          /\ Rows[s] \in Entries
        BY <2>2, <2>4, Bounds DEF Managed
    <3>2. locks[s] # NoLock /\ locks'[s] = Refreshed(locks[s], Rows[s], check[s])
        BY <2>1, <3>1 DEF Loosens, Locked
    <3>3. locks'[s].stop = locks[s].stop \/ (~locks[s].valid /\ locks'[s].valid)
        BY <1>1, <3>1, <3>2, RefreshedIsLock, Zenon
    <3>4. cyc.pc = "idle"
        BY <1>6 DEF GuardBegins
    <3>5. locks'[s].stop # locks[s].stop
        BY <1>1 DEF Loosens
    <3> QED BY <3>3, <3>4, <3>5, Zenon DEF Excused, Validated
  <2> QED BY <2>3, <2>4
<1>7. ~StartForgets
    BY DEF StartForgets, NoLocks, Loosens
<1>8. ASSUME ExitDone PROVE FALSE
  <2>1. locks'[s] \in {NoLock, locks[s]}
      BY <1>8 DEF ExitDone, Typed, TypeOK
  <2> QED BY <2>1, SameLockStays DEF Loosens
<1>9. ASSUME Trails PROVE FALSE
  <2>1. PICK new \in cyc.held.stop .. MaxStop :
            locks' = [locks EXCEPT ![cyc.at] = [cyc.held EXCEPT !.stop = new]]
      BY <1>9, Zenon DEF Trails
  <2>2. cyc.held \in Lock /\ cyc.held.stop \in Stops
      BY <1>9, LocksAreLocks DEF Trails, Typed, TypeOK, Locals, LockOrNone
  <2>3. new \in Stops /\ new >= cyc.held.stop
      BY <2>2, Bounds
  <2>4. cyc.at = s => locks'[s].stop = new
      BY <2>1, <2>2, <2>3, MovesStop DEF Typed, TypeOK
  <2>5. cyc.at # s => locks'[s] = locks[s]
      BY <2>1 DEF Typed, TypeOK
  <2>6. cyc.pc = "holding"
      BY <1>9 DEF Trails
  <2> QED BY <2>3, <2>4, <2>5, <2>6, SameLockStays DEF Excused, HoldLoosens
<1>10. ASSUME ReconcilesAtStart PROVE FALSE
  <2>1. locks'[s] \in {NoLock, locks[s]}
      BY <1>10 DEF ReconcilesAtStart
  <2> QED BY <2>1, SameLockStays DEF Loosens
<1>11. ASSUME Next PROVE FALSE
  <2>1. ~Warned /\ ~UpdateSlTp /\ ~Restart
      BY DEF Excused
  <2>2. \A t \in Sides : ~Exchange(t) /\ \A by \in Callers : ~EntryFills(t, by)
      BY SameLockStays DEF Exchange, OpensUnseen, ClosesUnseen, OrderFires, Lapse, EntryFills
  <2>3. ~PlaceTpSl /\ ~Verified /\ ~CallCancelled /\ ~OthersRead /\ ~CacheExpires /\ ~SkipsReconcile
      BY SameLockStays DEF PlaceTpSl, Verified, CallCancelled, OthersRead, CacheExpires, SkipsReconcile
  <2>4. ~Sweep /\ ~CutsDone
      BY SameLockStays DEF Sweep, SweepLists, SweepReads, SweepCancels, CutsDone
  <2>5. \A t \in Sides : /\ ~CloseClears(t) /\ ~CloseFills(t) /\ ~CloseFails(t)
                          /\ ~Keeps(t) /\ ~Holds(t) /\ ~Exits(t)
      BY SameLockStays DEF CloseClears, CloseFills, CloseFails, Keeps, Holds, Exits
  <2> QED BY <1>3, <1>4, <1>5, <1>6, <1>7, <1>8, <1>9, <1>10, <1>11, <2>1, <2>2, <2>3, <2>4, <2>5
          DEF Next, Call, CycleStep
<1>12. vars' # vars
    BY <1>2 DEF vars, diskVars, Spares
<1> QED BY <1>11, <1>12

\* Whatever the guardian, the sweep, closes and a start do, a lock of the same entry is
\* not loosened, but by the operator, by the call that seeds it, by a restart, by a hold
\* that crosses an edit, or once, when the guardian validates the lock.
THEOREM StopsOnlyTighten == Spec => StopOnlyTightens
<1> DEFINE Tight == \A s \in Sides :
        (/\ Locked(s) /\ locks'[s] # NoLock
         /\ locks'[s].of = locks[s].of
         /\ locks'[s].stop < locks[s].stop)
        => \/ UpdateSlTp \/ Warned \/ Restart
           \/ cyc.pc = "idle" /\ ~locks[s].valid /\ locks'[s].valid
           \/ cyc.pc = "holding" /\ cyc.at = s /\ locks'[s].stop >= cyc.held.stop
<1>1. Typed /\ [Next]_vars => [Tight]_vars
    BY LoosensExcused, Zenon DEF Loosens, Excused, Validated, HoldLoosens
<1> HIDE DEF Tight
<1>2. Init => Typed
    BY InitTyped
<1>3. Typed /\ [Next]_vars => Typed'
    BY NextTyped
<1>4. Spec => [][Tight]_vars
    BY <1>1, <1>2, <1>3, PTL DEF Spec
<1> QED BY <1>4 DEF StopOnlyTightens, Tight

-----------------------------------------------------------------------------
(* What the sweep may take.                                                 *)

LEMMA InitCounted == Init => Counted
BY DEF Init, Counted, NoRows, NoSweep

LEMMA StaysCounted == Typed /\ Counted /\ [Next]_vars => Counted'
<1> SUFFICES ASSUME Typed, Counted, [Next]_vars PROVE Counted'
    OBVIOUS
<1> DEFINE Quiet == pos' = pos /\ entries' = entries
           Opens == \E s \in Sides : entries' = entries + 1 /\ pos' = [pos EXCEPT ![s] = entries']
           Closes == entries' = entries /\ \E s \in Sides : pos' = [pos EXCEPT ![s] = Flat]
           Drops == sweep'.seen <= entries /\ sweep'.pc # "flat"
<1>1. /\ pos \in [Sides -> 0 .. MaxEntries] /\ entries \in Nat
      /\ sweep.seen \in Nat /\ MaxEntries \in Nat
    BY Bounds DEF Typed, TypeOK
<1>2. CASE sweep' = sweep
  <2>1. CASE Quiet
      BY <1>2, <2>1 DEF Counted
  <2>2. CASE Opens
      BY <1>1, <1>2, <2>2 DEF Counted
  <2>3. CASE Closes
      BY <1>1, <1>2, <2>3 DEF Counted
  <2>4. Quiet \/ Opens \/ Closes
    <3>1. CASE UNCHANGED vars
        BY <3>1 DEF vars, exchangeVars
    <3>2. ASSUME NEW s \in Sides, Exchange(s) PROVE Quiet \/ Opens \/ Closes
        BY <3>2 DEF Exchange, OpensUnseen, ClosesUnseen, OrderFires, Lapse
    <3>3. ASSUME NEW s \in Sides, NEW by \in Callers, EntryFills(s, by) PROVE Opens
        BY <3>3 DEF EntryFills
    <3>4. CASE Call \/ OthersRead \/ CacheExpires \/ Sweep \/ SkipsReconcile
        BY <3>4 DEF Call, PlaceTpSl, Verified, Warned, CallCancelled, OthersRead, CacheExpires,
                    Sweep, SweepLists, SweepReads, SweepCancels, SkipsReconcile, exchangeVars
    <3>5. CASE ReconcilesAtStart \/ UpdateSlTp \/ StartForgets \/ Saves \/ Restart
        BY <3>5 DEF ReconcilesAtStart, UpdateSlTp, StartForgets, Saves, Restart, exchangeVars
    <3>6. CASE GuardBegins \/ CutsDone \/ Trails \/ ExitDone \/ GuardEnds
        BY <3>6 DEF GuardBegins, CutsDone, Trails, ExitDone, GuardEnds, exchangeVars
    <3>7. ASSUME NEW s \in Sides,
                 \/ CloseClears(s) \/ CloseFails(s) \/ Keeps(s) \/ Tightens(s)
                 \/ Holds(s) \/ Exits(s)
          PROVE  Quiet
        BY <3>7 DEF CloseClears, CloseFails, Keeps, Tightens, Holds, Exits, exchangeVars
    <3>8. ASSUME NEW s \in Sides, CloseFills(s) PROVE Closes
        BY <3>8 DEF CloseFills
    <3> QED BY <3>1, <3>2, <3>3, <3>4, <3>5, <3>6, <3>7, <3>8 DEF Next, CycleStep
  <2> QED BY <2>1, <2>2, <2>3, <2>4
<1>3. CASE SweepReads
  <2>1. sweep' \in {NoSweep, [pc |-> "flat", seen |-> entries]} /\ pos' = pos /\ entries' = entries
      BY <1>3 DEF SweepReads, exchangeVars
  <2>2. sweep' # NoSweep => pos = NoRows
      BY <1>3 DEF SweepReads
  <2>3. CASE sweep' = NoSweep
      BY <1>1, <2>1, <2>3 DEF Counted, NoSweep
  <2>4. CASE sweep' # NoSweep
      BY <1>1, <2>1, <2>2, <2>4 DEF Counted, NoRows
  <2> QED BY <2>3, <2>4
<1>4. CASE SweepLists \/ SweepCancels \/ Restart
  <2>1. pos' = pos /\ entries' = entries
      BY <1>4 DEF SweepLists, SweepCancels, Restart, exchangeVars
  <2>2. Drops
      BY <1>1, <1>4 DEF SweepLists, SweepCancels, Restart, NoSweep, Counted, Typed, TypeOK
  <2> QED BY <1>1, <2>1, <2>2 DEF Counted
<1>5. sweep' = sweep \/ SweepReads \/ SweepLists \/ SweepCancels \/ Restart
  <2>1. CASE UNCHANGED vars
      BY <2>1 DEF vars
  <2>2. ASSUME NEW s \in Sides, Exchange(s) PROVE sweep' = sweep
      BY <2>2 DEF Exchange, OpensUnseen, ClosesUnseen, OrderFires, Lapse
  <2>3. ASSUME NEW s \in Sides, NEW by \in Callers, EntryFills(s, by) PROVE sweep' = sweep
      BY <2>3 DEF EntryFills
  <2>4. CASE Call \/ OthersRead \/ CacheExpires \/ SkipsReconcile
      BY <2>4 DEF Call, PlaceTpSl, Verified, Warned, CallCancelled, OthersRead, CacheExpires,
                  SkipsReconcile
  <2>5. CASE ReconcilesAtStart \/ UpdateSlTp \/ StartForgets \/ Saves
      BY <2>5 DEF ReconcilesAtStart, UpdateSlTp, StartForgets, Saves
  <2>6. CASE GuardBegins \/ CutsDone \/ Trails \/ ExitDone \/ GuardEnds
      BY <2>6 DEF GuardBegins, CutsDone, Trails, ExitDone, GuardEnds
  <2>7. ASSUME NEW s \in Sides,
               CloseClears(s) \/ CloseFills(s) \/ CloseFails(s) \/ Keeps(s) \/ Tightens(s)
               \/ Holds(s) \/ Exits(s)
        PROVE  sweep' = sweep
      BY <2>7 DEF CloseClears, CloseFills, CloseFails, Keeps, Tightens, Holds, Exits
  <2> QED BY <2>1, <2>2, <2>3, <2>4, <2>5, <2>6, <2>7 DEF Next, CycleStep, Sweep
<1> QED BY <1>2, <1>3, <1>4, <1>5

\* Between its reading of the positions and its cancel, the sweep can only meet positions
\* that were opened after it had read them.
THEOREM SweepAlwaysSpares == Spec => SweepSparesHeld
<1> DEFINE Sparing == (sweep.pc = "flat" /\ resting' # resting /\ SweepCancels)
                      => \A s \in Sides : pos[s] = Flat \/ pos[s] > sweep.seen
<1>1. Counted => Sparing
    BY DEF Counted
<1> HIDE DEF Sparing
<1>2. Init => Typed /\ Counted
    BY InitTyped, InitCounted
<1>3. Typed /\ Counted /\ [Next]_vars => Typed' /\ Counted'
    BY NextTyped, StaysCounted
<1>4. Counted => [Sparing]_vars
    BY <1>1
<1>5. Spec => [][Sparing]_vars
    BY <1>2, <1>3, <1>4, PTL DEF Spec
<1> QED BY <1>5 DEF SweepSparesHeld, Sparing

=============================================================================
