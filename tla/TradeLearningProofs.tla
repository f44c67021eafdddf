-------------------------- MODULE TradeLearningProofs --------------------------
(***************************************************************************)
(* Three arguments about TradeLearning.                                    *)
(*                                                                         *)
(* Types: no copy of the profile counts more trades than are done, and the *)
(* one copy that the holder of the lock writes counts one more at most.    *)
(*                                                                         *)
(* The daily PnL: a trade that is summed, in the memory or in the snapshot, *)
(* has been added, so the day it closed on does not change any more; and   *)
(* until two symbols meet, one recorder at a time is between the test of   *)
(* the day and its store, so what it tested and loaded still holds.        *)
(*                                                                         *)
(* The profile: as long as the file can be read, whoever holds the lock    *)
(* has a copy that is not older than the file, and so has the cache; only  *)
(* a health record holds a copy that the file may have overtaken.          *)
(***************************************************************************)
EXTENDS TradeLearning, FiniteSetTheorems, TLAPS

Calls == [pc: Steps, closed: Days, trades: Nat, sum: SUBSET Trades]

Shapes ==
    /\ day \in Days /\ daily \in Sums /\ snap \in Sums
    /\ profile \in Nat
    /\ cache \in [fresh: BOOLEAN, trades: Nat]
    /\ lock \in Owners /\ loop \in Owners
    /\ call \in [Trades -> Calls]
    /\ scan \in [pc: {"idle", "asked", "loaded"}, trades: Nat]
    /\ clash \in BOOLEAN
    /\ faults \in 0 .. MaxFaults /\ restarts \in 0 .. MaxRestarts

Done == {t \in Trades : call[t].pc = "done"}
DoneCount == Cardinality(Done)

\* A recorder of the symbol has the lock, and a copy of the profile.
Busy(t) == t \notin Others /\ call[t].pc \in Summing \cup {"counting"}

\* What the recorder of one trade holds.
CallBound(t) ==
    /\ Busy(t) => lock = ByTrade(t) /\ call[t].trades <= DoneCount + 1
    /\ ~Busy(t) => call[t].trades = 0
    /\ t \in Others => lock # ByTrade(t)

Bounds ==
    /\ profile <= DoneCount /\ cache.trades <= DoneCount /\ scan.trades <= DoneCount
    /\ \A t \in Trades : CallBound(t)

\* Who occupies the loop, and what it holds.
ScanInv ==
    /\ scan.pc = "asked" => loop = ByScan(Observation)
    /\ scan.pc = "loaded" /\ loop = ByScan(Observation) => lock = ByScan(Observation)
    /\ loop = ByScan(Health) => scan.pc = "loaded"

LearningInv == Shapes /\ Bounds /\ ScanInv

\* What is in a sum has been added, and is of its day.
Summed(t) == call[t].pc \in {"counting", "done"}
SumInv(sum) == \A t \in sum.of : Summed(t) /\ call[t].closed = sum.key

\* What a recorder between test and store has seen of the daily PnL.
Seen(t) ==
    /\ call[t].pc = "resetting" => daily.key # call[t].closed
    /\ call[t].pc = "dating" => daily.of = {}
    /\ call[t].pc \in {"loading", "adding"} => daily.key = call[t].closed
    /\ call[t].pc = "adding" => call[t].sum = daily.of

Alone == \A t, u \in Trades : call[t].pc \in Summing /\ call[u].pc \in Summing => t = u

DailyInv ==
    \/ clash
    \/ SumInv(daily) /\ SumInv(snap) /\ Alone /\ \A t \in Trades : Seen(t)

-----------------------------------------------------------------------------
(* Counting the trades that are done.                                       *)

LEMMA ConstantsAreNat ==
    MaxTrades \in Nat /\ MaxDay \in Nat /\ MaxFaults \in Nat /\ MaxRestarts \in Nat
BY LearningAssumption

LEMMA TradesAreFinite == IsFiniteSet(Trades) /\ Cardinality(Trades) = MaxTrades
BY ConstantsAreNat, FS_Interval DEF Trades

LEMMA DoneIsFinite == IsFiniteSet(Done) /\ DoneCount \in Nat /\ DoneCount <= MaxTrades
<1>1. Done \subseteq Trades
  BY DEF Done
<1>2. IsFiniteSet(Done) /\ Cardinality(Done) <= Cardinality(Trades)
  BY <1>1, TradesAreFinite, FS_Subset
<1> QED
  BY <1>2, TradesAreFinite, FS_CardinalityType DEF DoneCount

\* A trade that is not done leaves room for one more.
LEMMA OneIsNotDone ==
    ASSUME NEW t \in Trades, call[t].pc # "done"
    PROVE  DoneCount + 1 <= MaxTrades /\ Cardinality(Done \cup {t}) = DoneCount + 1
<1>1. t \notin Done /\ Done \cup {t} \subseteq Trades
  BY DEF Done
<1>2. Cardinality(Done \cup {t}) = DoneCount + 1
  BY <1>1, DoneIsFinite, FS_AddElement DEF DoneCount
<1>3. Cardinality(Done \cup {t}) <= MaxTrades
  BY <1>1, TradesAreFinite, FS_Subset
<1> QED
  BY <1>2, <1>3

\* What is done stays done.
LEMMA DoneGrows ==
    ASSUME \A t \in Trades : call[t].pc = "done" => call'[t].pc = "done"
    PROVE  DoneCount' \in Nat /\ DoneCount <= DoneCount'
<1>1. Done \subseteq Done' /\ Done' \subseteq Trades
  BY DEF Done
<1>2. IsFiniteSet(Done')
  BY <1>1, TradesAreFinite, FS_Subset
<1> QED
  BY <1>1, <1>2, FS_Subset, FS_CardinalityType, DoneIsFinite DEF DoneCount

LEMMA DoneAdds ==
    ASSUME NEW t \in Trades, call[t].pc # "done", Done' = Done \cup {t}
    PROVE  DoneCount' = DoneCount + 1
BY OneIsNotDone DEF DoneCount

LEMMA ReadsAreBounded ==
    ASSUME Shapes, Bounds
    PROVE  /\ \A n \in ProfileReads : n \in Nat /\ n <= DoneCount
           /\ \A n \in CachedReads : n \in Nat /\ n <= DoneCount
BY DoneIsFinite DEF Shapes, Bounds, ProfileReads, CachedReads

-----------------------------------------------------------------------------
LEMMA LearningInit == Init => LearningInv
<1> SUFFICES ASSUME Init PROVE LearningInv
  OBVIOUS
<1> USE LearningAssumption DEF Init
<1>1. Shapes
  <2>1. MaxDay \in Nat /\ MaxDay > 0 /\ MaxFaults \in Nat /\ MaxRestarts \in Nat
    OBVIOUS
  <2>2. NotCalled \in Calls
    BY <2>1 DEF NotCalled, Calls, Steps, Days
  <2>3. NoSum \in Sums /\ day \in Days
    BY <2>1 DEF NoSum, Sums, Days
  <2>4. /\ Stale \in [fresh: BOOLEAN, trades: Nat]
        /\ NoScan \in [pc: {"idle", "asked", "loaded"}, trades: Nat]
    BY DEF Stale, NoScan
  <2>5. call \in [Trades -> Calls]
    BY <2>2
  <2>6. faults \in 0 .. MaxFaults /\ restarts \in 0 .. MaxRestarts
    BY <2>1
  <2>7. lock \in Owners /\ loop \in Owners /\ snap \in Sums /\ daily \in Sums
    BY <2>3 DEF Owners
  <2>8. clash \in BOOLEAN /\ profile \in Nat
    OBVIOUS
  <2> QED
    BY <2>3, <2>4, <2>5, <2>6, <2>7, <2>8, Zenon DEF Shapes
<1>2. Bounds
  BY DoneIsFinite DEF Bounds, CallBound, Busy, Summing, Stale, NoScan, NotCalled, Nobody, ByTrade
<1>3. ScanInv
  BY DEF ScanInv, NoScan, Nobody, ByScan, Health, Observation
<1> QED
  BY <1>1, <1>2, <1>3 DEF LearningInv

\* A step of one call, of which only the place and the local copy of the sum change.
Moves(t, to) ==
    /\ call'[t].pc = to /\ call'[t].trades = call[t].trades /\ call'[t].closed = call[t].closed
    /\ \A u \in Trades : u # t => call'[u] = call[u]

\* A trade that closed is handed over.
LEMMA AsksKeeps ==
    ASSUME LearningInv, NEW t \in Trades, NEW on \in {"thread", "loop"}, Asks(t, on)
    PROVE  /\ LearningInv'
           /\ call[t].pc = "none" /\ call'[t].pc = "asked"
           /\ \A u \in Trades : u # t => call'[u] = call[u]
<1> USE DEF LearningInv
<1>1. PICK d \in 1 .. day : call' = [call EXCEPT ![t].pc = "asked", ![t].closed = d]
  BY DEF Asks
<1>2. d \in Days
  BY LearningAssumption DEF Shapes, Days
<1>3. /\ call' \in [Trades -> Calls]
      /\ call'[t].pc = "asked" /\ call'[t].trades = call[t].trades
      /\ \A u \in Trades : u # t => call'[u] = call[u]
  <2>1. call \in [Trades -> Calls] /\ call[t] \in Calls
    BY DEF Shapes
  <2>2. call' = [call EXCEPT ![t] = [call[t] EXCEPT !.pc = "asked", !.closed = d]]
    BY <1>1, <2>1
  <2>3. [call[t] EXCEPT !.pc = "asked", !.closed = d] \in Calls
    BY <1>2, <2>1 DEF Calls, Steps
  <2> QED
    BY <2>1, <2>2, <2>3 DEF Calls
<1>4. call[t].pc = "none"
  BY DEF Asks
<1>5. Shapes'
  BY <1>3 DEF Asks, Shapes, Owners, dailyVars, fileVars, bounds
<1>6. Done' = Done
  BY <1>3, <1>4 DEF Done
<1>7. Bounds'
  <2>1. DoneCount' = DoneCount
    BY <1>6 DEF DoneCount
  <2>2. ASSUME NEW u \in Trades PROVE CallBound(u)'
    <3>1. lock' = lock
      BY DEF Asks
    <3>2. CASE u = t
      BY <1>3, <1>4, <2>1, <3>1, <3>2 DEF Bounds, CallBound, Busy, Summing
    <3>3. CASE u # t
      BY <1>3, <2>1, <3>1, <3>3 DEF Bounds, CallBound, Busy
    <3> QED
      BY <3>2, <3>3
  <2> QED
    BY <2>1, <2>2 DEF Bounds, Asks, fileVars
<1>8. ScanInv'
  BY DEF Asks, ScanInv, Nobody, ByScan, ByTrade, Health, Observation
<1> QED
  BY <1>3, <1>4, <1>5, <1>7, <1>8

\* Where the test of the day leads to.
LEMMA TestedType ==
    ASSUME NEW t \in Trades
    PROVE  Tested(t) \in {"loading", "resetting"} /\ Tested(t) \in Steps /\ Tested(t) \in Summing
BY DEF Tested, Steps, Summing

\* The holder of the lock copies the profile and tests the day.
LEMMA CountsKeeps ==
    ASSUME LearningInv, NEW t \in Trades, Counts(t)
    PROVE  /\ LearningInv'
           /\ call'[t].pc = Tested(t) /\ call'[t].closed = call[t].closed
           /\ \A u \in Trades : u # t => call'[u] = call[u]
<1> USE DEF LearningInv
<1>1. PICK n \in CachedReads :
        /\ call' = [call EXCEPT ![t].pc = Tested(t), ![t].trades = n + 1]
        /\ cache' = [fresh |-> TRUE, trades |-> n]
  BY DEF Counts, CountIn
<1>2. n \in Nat /\ n <= DoneCount
  BY ReadsAreBounded
<1>3. /\ call' \in [Trades -> Calls]
      /\ call'[t].pc = Tested(t) /\ call'[t].trades = n + 1
      /\ call'[t].closed = call[t].closed
      /\ \A u \in Trades : u # t => call'[u] = call[u]
  <2>1. call \in [Trades -> Calls] /\ call[t] \in Calls
    BY DEF Shapes
  <2>2. call' = [call EXCEPT ![t] = [call[t] EXCEPT !.pc = Tested(t), !.trades = n + 1]]
    BY <1>1, <2>1
  <2>3. [call[t] EXCEPT !.pc = Tested(t), !.trades = n + 1] \in Calls
    <3>1. n + 1 \in Nat /\ Tested(t) \in Steps
      BY <1>2, TestedType
    <3> QED
      BY <2>1, <3>1 DEF Calls
  <2> QED
    BY <2>1, <2>2, <2>3 DEF Calls
<1>4. t \notin Others /\ call[t].pc = "asked" /\ lock = Nobody /\ lock' = ByTrade(t)
  BY DEF Counts, CountIn
<1>5. /\ UNCHANGED <<day, daily, snap, profile, loop, scan, bounds>>
      /\ clash' = (clash \/ Meets(t))
  BY DEF Counts, CountIn
<1>6. clash' \in BOOLEAN
  BY <1>5, Zenon DEF Shapes
<1>7. Shapes'
  <2>1. lock' \in Owners
    BY <1>4 DEF Owners
  <2> QED
    BY <1>1, <1>2, <1>3, <1>5, <1>6, <2>1 DEF Shapes, bounds
<1>8. Done' = Done
  BY <1>3, <1>4, TestedType DEF Done
<1>9. Bounds'
  <2>1. DoneCount' = DoneCount
    BY <1>8 DEF DoneCount
  <2>2. CallBound(t)'
    BY <1>2, <1>3, <1>4, <2>1, DoneIsFinite, TestedType DEF CallBound, Busy
  <2>3. ASSUME NEW u \in Trades, u # t PROVE CallBound(u)'
    <3>1. ~Busy(u) /\ lock' # ByTrade(u)
      BY <1>4, <2>3 DEF Bounds, CallBound, Nobody, ByTrade
    <3> QED
      BY <1>3, <2>3, <3>1 DEF Bounds, CallBound, Busy
  <2> QED
    BY <1>1, <1>2, <1>5, <2>1, <2>2, <2>3 DEF Bounds
<1>10. ScanInv'
  BY <1>4, <1>5 DEF ScanInv, Nobody, ByScan, Observation
<1> QED
  BY <1>3, <1>7, <1>9, <1>10

\* A step of a recorder on its way to the store, or of one of another symbol, that
\* neither ends it nor touches lock, loop and files.
LEMMA MovesKeeps ==
    ASSUME LearningInv, NEW t \in Trades, NEW to \in Summing \cup {"counting"},
           call[t].pc \in Summing \/ (t \in Others /\ call[t].pc = "asked"),
           call' \in [Trades -> Calls], Moves(t, to),
           daily' \in Sums, clash' \in BOOLEAN,
           UNCHANGED <<day, snap, fileVars, lock, loop, scan, bounds>>
    PROVE  LearningInv'
<1> USE DEF LearningInv
<1>1. Done' = Done
  BY DEF Done, Moves, Summing
<1>2. DoneCount' = DoneCount
  BY <1>1 DEF DoneCount
<1>3. ASSUME NEW u \in Trades PROVE CallBound(u)'
  <2>1. CASE u # t
    BY <1>2, <2>1 DEF Moves, Bounds, CallBound, Busy
  <2>2. CASE u = t
    <3>1. Busy(t)' <=> Busy(t)
      BY DEF Moves, Busy
    <3> QED
      BY <1>2, <2>2, <3>1 DEF Moves, Bounds, CallBound
  <2> QED
    BY <2>1, <2>2
<1>4. Bounds'
  BY <1>2, <1>3 DEF Bounds, fileVars
<1>5. Shapes'
  BY DEF Shapes, fileVars, bounds
<1>6. ScanInv'
  BY DEF ScanInv
<1> QED
  BY <1>4, <1>5, <1>6

\* What these steps are.
LEMMA ElsewhereMoves ==
    ASSUME LearningInv, NEW t \in Trades, CountsElsewhere(t)
    PROVE  call' \in [Trades -> Calls] /\ Moves(t, Tested(t)) /\ LearningInv'
<1>1. call \in [Trades -> Calls] /\ call[t] \in Calls
  BY DEF LearningInv, Shapes
<1>2. call' = [call EXCEPT ![t].pc = Tested(t)] /\ Tested(t) \in Steps
  BY TestedType DEF CountsElsewhere
<1>3. call' \in [Trades -> Calls] /\ Moves(t, Tested(t))
  BY <1>1, <1>2 DEF Calls, Moves
<1>4. clash' \in BOOLEAN
  <2>1. clash \in BOOLEAN /\ clash' = (clash \/ Meets(t))
    BY DEF LearningInv, Shapes, CountsElsewhere
  <2> QED
    BY <2>1, Zenon
<1>5. daily' = daily /\ daily \in Sums
  BY DEF CountsElsewhere, LearningInv, Shapes
<1> QED
  BY <1>3, <1>4, <1>5, TestedType, MovesKeeps DEF CountsElsewhere

LEMMA SumMoves ==
    ASSUME LearningInv, NEW t \in Trades, Resets(t) \/ Dates(t) \/ Loads(t) \/ Stores(t)
    PROVE  /\ call' \in [Trades -> Calls]
           /\ Resets(t) => Moves(t, "dating")
           /\ Dates(t) => Moves(t, "loading")
           /\ Loads(t) => Moves(t, "adding") /\ call'[t].sum = daily.of
           /\ Stores(t) => Moves(t, "counting")
           /\ LearningInv'
<1>1. /\ call \in [Trades -> Calls] /\ call[t] \in Calls
      /\ daily \in Sums /\ daily.of \subseteq Trades /\ clash \in BOOLEAN
  BY DEF LearningInv, Shapes, Sums
<1>2. call[t].closed \in 0 .. MaxDay /\ call[t].sum \subseteq Trades
  BY <1>1, LearningAssumption DEF Calls, Days
<1>3. CASE Resets(t)
  <2>1. call' = [call EXCEPT ![t].pc = "dating"] /\ call[t].pc = "resetting"
    BY <1>3 DEF Resets
  <2>2. call' \in [Trades -> Calls] /\ Moves(t, "dating")
    BY <1>1, <2>1 DEF Calls, Steps, Summing, Moves
  <2>3. daily' \in Sums /\ clash' = clash
    BY <1>1, <1>3 DEF Resets, Sums
  <2>4. LearningInv'
    BY <1>1, <1>3, <2>1, <2>2, <2>3, MovesKeeps DEF Resets, Summing
  <2> QED
    BY <2>1, <2>2, <2>4 DEF Dates, Loads, Stores
<1>4. CASE Dates(t)
  <2>1. call' = [call EXCEPT ![t].pc = "loading"] /\ call[t].pc = "dating"
    BY <1>4 DEF Dates
  <2>2. call' \in [Trades -> Calls] /\ Moves(t, "loading")
    BY <1>1, <2>1 DEF Calls, Steps, Summing, Moves
  <2>3. daily' \in Sums /\ clash' = clash
    BY <1>1, <1>2, <1>4 DEF Dates, Sums
  <2>4. LearningInv'
    BY <1>1, <1>4, <2>1, <2>2, <2>3, MovesKeeps DEF Dates, Summing
  <2> QED
    BY <2>1, <2>2, <2>4 DEF Resets, Loads, Stores
<1>5. CASE Loads(t)
  <2>1. call' = [call EXCEPT ![t].pc = "adding", ![t].sum = daily.of] /\ call[t].pc = "loading"
    BY <1>5 DEF Loads
  <2>2. call' \in [Trades -> Calls] /\ Moves(t, "adding") /\ call'[t].sum = daily.of
    BY <1>1, <2>1 DEF Calls, Steps, Summing, Moves
  <2>3. daily' = daily /\ clash' = clash /\ snap' = snap /\ day' = day
    BY <1>5 DEF Loads, dailyVars
  <2>4. LearningInv'
    BY <1>1, <1>5, <2>1, <2>2, <2>3, MovesKeeps DEF Loads, Summing
  <2> QED
    BY <2>1, <2>2, <2>4 DEF Resets, Dates, Stores
<1>6. CASE Stores(t)
  <2>1. call' = [call EXCEPT ![t].pc = "counting", ![t].sum = {}] /\ call[t].pc = "adding"
    BY <1>6 DEF Stores
  <2>2. call' \in [Trades -> Calls] /\ Moves(t, "counting")
    BY <1>1, <2>1 DEF Calls, Steps, Summing, Moves
  <2>3. daily' \in Sums /\ clash' = clash
    BY <1>1, <1>2, <1>6 DEF Stores, Sums
  <2>4. LearningInv'
    BY <1>1, <1>6, <2>1, <2>2, <2>3, MovesKeeps DEF Stores, Summing
  <2> QED
    BY <2>1, <2>2, <2>4 DEF Resets, Dates, Loads
<1> QED
  BY <1>3, <1>4, <1>5, <1>6

\* The recorder leaves, with its copy written or not.
LEMMA LeavesKeeps ==
    ASSUME LearningInv, NEW t \in Trades, call[t].pc = "counting", Leaves(t),
           UNCHANGED fileVars \/ Commits(t),
           faults' \in 0 .. MaxFaults,
           UNCHANGED <<dailyVars, scan, restarts>>
    PROVE  /\ LearningInv'
           /\ call'[t].pc = "done" /\ call'[t].closed = call[t].closed
           /\ \A u \in Trades : u # t => call'[u] = call[u]
<1> USE DEF LearningInv
<1>1. /\ call' \in [Trades -> Calls]
      /\ call'[t].pc = "done" /\ call'[t].trades = 0 /\ call'[t].closed = call[t].closed
      /\ \A u \in Trades : u # t => call'[u] = call[u]
  BY DEF Leaves, NotCalled, Shapes, Calls, Steps
<1>2. /\ call[t].trades \in Nat
      /\ t \notin Others => lock = ByTrade(t) /\ call[t].trades <= DoneCount + 1
  BY DEF Shapes, Calls, Bounds, CallBound, Busy
<1>3. Shapes'
  <2>1. lock' \in Owners /\ loop' \in Owners
    BY DEF Leaves, Owners, Shapes
  <2>2. profile' \in Nat /\ cache' \in [fresh: BOOLEAN, trades: Nat]
    <3>1. CASE UNCHANGED fileVars
      BY <3>1 DEF Shapes, fileVars
    <3>2. CASE Commit(call[t].trades)
      BY <1>2, <3>2 DEF Commit
    <3> QED
      BY <3>1, <3>2 DEF Commits
  <2> QED
    BY <1>1, <2>1, <2>2 DEF Shapes, dailyVars
<1>4. Done' = Done \cup {t}
  BY <1>1 DEF Done
<1>5. DoneCount \in Nat /\ DoneCount' = DoneCount + 1
  BY <1>4, DoneAdds, DoneIsFinite
<1>6. profile' <= DoneCount' /\ cache'.trades <= DoneCount' /\ scan'.trades <= DoneCount'
  <2>1. profile \in Nat /\ cache.trades \in Nat /\ scan.trades \in Nat
    BY DEF Shapes
  <2>2. scan' = scan
    OBVIOUS
  <2>3. CASE UNCHANGED fileVars
    BY <1>5, <2>1, <2>2, <2>3 DEF Bounds, fileVars
  <2>4. CASE t \notin Others /\ Commit(call[t].trades)
    BY <1>2, <1>5, <2>1, <2>2, <2>4 DEF Bounds, Commit
  <2> QED
    BY <2>3, <2>4 DEF Commits
<1>7. ASSUME NEW u \in Trades PROVE CallBound(u)'
  <2>1. CASE u = t
    <3>1. t \in Others => lock' # ByTrade(t)
      BY DEF Leaves, Bounds, CallBound
    <3> QED
      BY <1>1, <2>1, <3>1 DEF CallBound, Busy, Summing
  <2>2. CASE u # t /\ t \notin Others
    <3>1. ~Busy(u)
      BY <1>2, <2>2 DEF Bounds, CallBound, ByTrade
    <3>2. lock' = Nobody
      BY <2>2 DEF Leaves
    <3> QED
      BY <1>1, <2>2, <3>1, <3>2 DEF Bounds, CallBound, Busy, Nobody, ByTrade
  <2>3. CASE u # t /\ t \in Others
    <3>1. lock' = lock
      BY <2>3 DEF Leaves
    <3>2. call'[u] = call[u] /\ DoneCount <= DoneCount'
      BY <1>1, <1>5, <2>3
    <3>3. call[u].trades \in Nat
      BY DEF Shapes, Calls
    <3> QED
      BY <1>5, <3>1, <3>2, <3>3 DEF Bounds, CallBound, Busy
  <2> QED
    BY <2>1, <2>2, <2>3
<1>8. ScanInv'
  <2>1. lock = ByScan(Observation) => t \in Others
    BY <1>2 DEF ByScan, ByTrade, Observation
  <2> QED
    BY <2>1 DEF Leaves, ScanInv, Nobody, ByScan, ByTrade, Health, Observation
<1> QED
  BY <1>1, <1>3, <1>6, <1>7, <1>8 DEF Bounds

LEMMA EndsKeeps ==
    ASSUME LearningInv, NEW t \in Trades, Records(t) \/ Raises(t)
    PROVE  /\ LearningInv'
           /\ call[t].pc = "counting" /\ call'[t].pc = "done"
           /\ call'[t].closed = call[t].closed
           /\ \A u \in Trades : u # t => call'[u] = call[u]
<1>1. CASE Records(t)
  BY <1>1, LeavesKeeps DEF Records, bounds, LearningInv, Shapes
<1>2. CASE Raises(t)
  <2>1. faults' \in 0 .. MaxFaults
    BY <1>2, ConstantsAreNat DEF Raises, LearningInv, Shapes
  <2> QED
    BY <1>2, <2>1, LeavesKeeps DEF Raises
<1> QED
  BY <1>1, <1>2

LEMMA RecorderKeeps ==
    ASSUME LearningInv, NEW t \in Trades, Recorder(t)
    PROVE  LearningInv'
<1>1. CASE \E on \in {"thread", "loop"} : Asks(t, on)
  BY <1>1, AsksKeeps
<1>2. CASE Counts(t)
  BY <1>2, CountsKeeps
<1>3. CASE CountsElsewhere(t)
  BY <1>3, ElsewhereMoves
<1>4. CASE Resets(t) \/ Dates(t) \/ Loads(t) \/ Stores(t)
  BY <1>4, SumMoves
<1>5. CASE Records(t) \/ Raises(t)
  BY <1>5, EndsKeeps
<1> QED
  BY <1>1, <1>2, <1>3, <1>4, <1>5 DEF Recorder

\* What the scan and the clock do leaves the calls alone, and the lock to who counts.
LEMMA QuietCalls ==
    ASSUME LearningInv, call' = call,
           \A t \in Trades : lock = ByTrade(t) <=> lock' = ByTrade(t),
           profile' \in Nat /\ profile' <= DoneCount,
           cache' \in [fresh: BOOLEAN, trades: Nat] /\ cache'.trades <= DoneCount,
           scan' \in [pc: {"idle", "asked", "loaded"}, trades: Nat] /\ scan'.trades <= DoneCount
    PROVE  Bounds'
<1>1. DoneCount' = DoneCount
  BY DEF DoneCount, Done
<1> QED
  BY <1>1 DEF LearningInv, Bounds, CallBound, Busy

LEMMA ObserveKeeps ==
    ASSUME LearningInv, ObserveAsks \/ ObserveReads \/ Observed
    PROVE  LearningInv'
<1> USE DEF LearningInv
<1>1. call' = call /\ UNCHANGED <<daily, snap, clash, day, faults, restarts>>
  BY DEF ObserveAsks, ObserveReads, Observed, dailyVars, bounds
<1>3. DoneCount \in Nat
  BY DoneIsFinite
<1>4. CASE ObserveAsks
  <2>1. Bounds'
    BY <1>1, <1>3, <1>4, QuietCalls DEF ObserveAsks, NoScan, Shapes, Bounds, fileVars
  <2>2. ScanInv'
    BY <1>4 DEF ObserveAsks, ScanInv, NoScan, ByScan, Health, Observation
  <2>3. Shapes'
    BY <1>1, <1>4 DEF ObserveAsks, Shapes, NoScan, Owners, fileVars
  <2> QED
    BY <2>1, <2>2, <2>3
<1>5. CASE ObserveReads
  <2>1. PICK n \in CachedReads :
          /\ scan' = [pc |-> "loaded", trades |-> n]
          /\ cache' = [fresh |-> TRUE, trades |-> n]
    BY <1>5 DEF ObserveReads
  <2>2. n \in Nat /\ n <= DoneCount
    BY ReadsAreBounded
  <2>3. lock = Nobody /\ lock' = ByScan(Observation) /\ profile' = profile /\ loop' = loop
    BY <1>5 DEF ObserveReads
  <2>4. Bounds'
    BY <1>1, <2>1, <2>2, <2>3, QuietCalls DEF Nobody, ByTrade, ByScan, Observation, Shapes, Bounds
  <2>5. ScanInv'
    BY <2>1, <2>3 DEF ScanInv
  <2>6. Shapes'
    BY <1>1, <2>1, <2>2, <2>3 DEF Shapes, Owners
  <2> QED
    BY <2>4, <2>5, <2>6
<1>6. CASE Observed
  <2>1. /\ profile' = scan.trades /\ cache' = [fresh |-> TRUE, trades |-> scan.trades]
        /\ scan' = NoScan /\ loop' = Nobody /\ lock' = Nobody
    BY <1>6 DEF Observed, Commit
  <2>2. lock = ByScan(Observation)
    BY <1>6 DEF Observed, ScanInv
  <2>3. scan.trades \in Nat /\ scan.trades <= DoneCount
    BY DEF Shapes, Bounds
  <2>4. Bounds'
    BY <1>1, <1>3, <2>1, <2>2, <2>3, QuietCalls
       DEF Nobody, ByScan, ByTrade, Observation, NoScan
  <2>5. ScanInv'
    BY <2>1 DEF ScanInv, NoScan, Nobody, ByScan, Health
  <2>6. Shapes'
    BY <1>1, <2>1, <2>3 DEF Shapes, NoScan, Owners
  <2> QED
    BY <2>4, <2>5, <2>6
<1> QED
  BY <1>4, <1>5, <1>6

LEMMA HealthKeeps ==
    ASSUME LearningInv, HealthLoads \/ HealthSaves
    PROVE  LearningInv'
<1> USE DEF LearningInv
<1>1. /\ call' = call /\ lock' = lock /\ cache' = cache
      /\ UNCHANGED <<daily, snap, clash, day, faults, restarts>>
  BY DEF HealthLoads, HealthSaves, dailyVars, fileVars, bounds
<1>3. DoneCount \in Nat /\ scan.trades \in Nat /\ scan.trades <= DoneCount
  BY DoneIsFinite DEF Shapes, Bounds
<1>4. CASE HealthLoads
  <2>1. PICK n \in ProfileReads : scan' = [pc |-> "loaded", trades |-> n]
    BY <1>4 DEF HealthLoads
  <2>2. n \in Nat /\ n <= DoneCount
    BY ReadsAreBounded
  <2>3. loop' = ByScan(Health) /\ profile' = profile
    BY <1>4 DEF HealthLoads, fileVars
  <2>4. Bounds'
    BY <1>1, <2>1, <2>2, <2>3, QuietCalls DEF Shapes, Bounds
  <2>5. ScanInv'
    BY <2>1, <2>3 DEF ScanInv, ByScan, Health, Observation
  <2>6. Shapes'
    BY <1>1, <2>1, <2>2, <2>3 DEF Shapes, Owners
  <2> QED
    BY <2>4, <2>5, <2>6
<1>5. CASE HealthSaves
  <2>1. profile' = scan.trades /\ scan' = NoScan /\ loop' = Nobody
    BY <1>5 DEF HealthSaves
  <2>2. Bounds'
    BY <1>1, <1>3, <2>1, QuietCalls DEF NoScan, Shapes, Bounds
  <2>3. ScanInv'
    BY <2>1 DEF ScanInv, NoScan, Nobody, ByScan, Health
  <2>4. Shapes'
    BY <1>1, <1>3, <2>1 DEF Shapes, NoScan, Owners
  <2> QED
    BY <2>2, <2>3, <2>4
<1> QED
  BY <1>4, <1>5

LEMMA ClockKeeps ==
    ASSUME LearningInv,
           Saves \/ CacheExpires \/ Midnight \/ \E t \in Trades : SavesAcross(t)
    PROVE  LearningInv'
<1> USE DEF LearningInv
<1>1. /\ call' = call /\ daily' = daily /\ lock' = lock
      /\ loop' = loop /\ scan' = scan /\ profile' = profile /\ cache' \in {cache, Stale}
      /\ day' \in Days /\ UNCHANGED <<faults, restarts>>
  BY ConstantsAreNat
     DEF Saves, CacheExpires, Midnight, SavesAcross, dailyVars, fileVars, bounds, Shapes, Days
<1>2. snap' \in Sums /\ clash' \in BOOLEAN
  <2>1. ASSUME NEW t \in Trades, SavesAcross(t) PROVE snap' \in Sums /\ clash' \in BOOLEAN
    <3>1. call[t].closed \in 0 .. MaxDay
      BY ConstantsAreNat DEF Shapes, Calls, Days
    <3>2. snap' = [daily EXCEPT !.key = call[t].closed] /\ clash' = TRUE
      BY <2>1 DEF SavesAcross
    <3> QED
      BY <3>1, <3>2 DEF Shapes, Sums
  <2>2. CASE Saves \/ CacheExpires \/ Midnight
    BY <2>2 DEF Saves, CacheExpires, Midnight, dailyVars, Shapes
  <2> QED
    BY <2>1, <2>2
<1>3. cache' \in [fresh: BOOLEAN, trades: Nat] /\ cache'.trades <= DoneCount
  <2>1. CASE cache' = cache
    BY <2>1 DEF Shapes, Bounds
  <2>2. CASE cache' = Stale
    BY <2>2, DoneIsFinite DEF Stale
  <2> QED
    BY <1>1, <2>1, <2>2
<1>4. Bounds'
  BY <1>1, <1>3, QuietCalls DEF Shapes, Bounds
<1>5. Shapes' /\ ScanInv'
  BY <1>1, <1>2, <1>3 DEF Shapes, ScanInv
<1> QED
  BY <1>4, <1>5

\* A restart gives up the calls that were under way: they are done.
LEMMA RestartCalls ==
    ASSUME LearningInv, Restart
    PROVE  \A t \in Trades :
             /\ call'[t] \in Calls
             /\ call'[t].closed = call[t].closed
             /\ call'[t].pc = IF call[t].pc = "none" THEN "none" ELSE "done"
             /\ call'[t].trades = 0
<1> SUFFICES ASSUME NEW t \in Trades
             PROVE  /\ call'[t] \in Calls
                    /\ call'[t].closed = call[t].closed
                    /\ call'[t].pc = IF call[t].pc = "none" THEN "none" ELSE "done"
                    /\ call'[t].trades = 0
  OBVIOUS
<1>1. call[t] \in Calls
  BY DEF LearningInv, Shapes
<1>2. CASE call[t].pc = "none"
  <2>1. call'[t] = call[t]
    BY <1>2 DEF Restart
  <2>2. call[t].trades = 0
    BY <1>2 DEF LearningInv, Bounds, CallBound, Busy, Summing
  <2> QED
    BY <1>1, <1>2, <2>1, <2>2
<1>3. CASE call[t].pc # "none"
  <2>1. call'[t] = [NotCalled EXCEPT !.pc = "done", !.closed = call[t].closed]
    BY <1>3 DEF Restart
  <2>2. call[t].closed \in Days
    BY <1>1 DEF Calls
  <2>3. call'[t] = [pc |-> "done", closed |-> call[t].closed, trades |-> 0, sum |-> {}]
    BY <2>1 DEF NotCalled
  <2>4. call'[t] \in Calls
    BY <2>2, <2>3 DEF Calls, Steps
  <2> QED
    BY <1>3, <2>3, <2>4
<1> QED
  BY <1>2, <1>3

LEMMA RestartKeeps ==
    ASSUME LearningInv, Restart
    PROVE  LearningInv'
<1> USE DEF LearningInv
<1>1. \A t \in Trades :
        /\ call'[t] \in Calls
        /\ call'[t].pc = IF call[t].pc = "none" THEN "none" ELSE "done"
        /\ call'[t].trades = 0
  BY RestartCalls
<1>2. call' \in [Trades -> Calls]
  BY <1>1 DEF Restart
<1>3. DoneCount' \in Nat /\ DoneCount \in Nat /\ DoneCount <= DoneCount'
  BY <1>1, DoneGrows, DoneIsFinite
<1>4. /\ daily' \in {snap, NoSum} /\ snap' = snap /\ profile' = profile
      /\ cache' = Stale /\ scan' = NoScan /\ lock' = Nobody /\ loop' = Nobody
      /\ day' = day /\ faults' = faults /\ clash' = clash
  BY DEF Restart
<1>5. Shapes'
  <2>1. restarts' \in 0 .. MaxRestarts
    <3>1. restarts < MaxRestarts /\ restarts' = restarts + 1
      BY DEF Restart
    <3>2. restarts \in 0 .. MaxRestarts
      BY DEF Shapes
    <3> QED
      BY <3>1, <3>2, ConstantsAreNat
  <2>2. daily' \in Sums /\ snap' \in Sums
    BY <1>4, ConstantsAreNat DEF Shapes, Sums, NoSum
  <2>3. /\ cache' \in [fresh: BOOLEAN, trades: Nat]
        /\ scan' \in [pc: {"idle", "asked", "loaded"}, trades: Nat]
        /\ lock' \in Owners /\ loop' \in Owners
    BY <1>4 DEF Stale, NoScan, Owners
  <2> QED
    BY <1>2, <1>4, <2>1, <2>2, <2>3 DEF Shapes
<1>6. Bounds'
  <2>1. profile' <= DoneCount'
    BY <1>3, <1>4 DEF Shapes, Bounds
  <2>2. cache'.trades <= DoneCount' /\ scan'.trades <= DoneCount'
    BY <1>3, <1>4 DEF Stale, NoScan
  <2>3. \A t \in Trades : CallBound(t)'
    BY <1>1, <1>4 DEF CallBound, Busy, Summing, Nobody, ByTrade
  <2> QED
    BY <2>1, <2>2, <2>3 DEF Bounds
<1>7. ScanInv'
  BY <1>4 DEF ScanInv, NoScan, Nobody, ByScan, Health
<1> QED
  BY <1>5, <1>6, <1>7

LEMMA LearningStep == LearningInv /\ [Next]_vars => LearningInv'
<1> SUFFICES ASSUME LearningInv, [Next]_vars PROVE LearningInv'
  OBVIOUS
<1>1. CASE \E t \in Trades : Recorder(t)
  BY <1>1, RecorderKeeps
<1>2. CASE Scan
  BY <1>2, ObserveKeeps, HealthKeeps DEF Scan
<1>3. CASE Saves \/ CacheExpires \/ Midnight \/ \E t \in Trades : SavesAcross(t)
  BY <1>3, ClockKeeps
<1>4. CASE Restart
  BY <1>4, RestartKeeps
<1>5. CASE UNCHANGED vars
  <2>1. DoneCount' = DoneCount
    BY <1>5 DEF vars, DoneCount, Done
  <2>2. /\ UNCHANGED <<day, daily, snap, clash, profile, cache, lock, loop, call, scan>>
        /\ UNCHANGED <<faults, restarts>>
    BY <1>5 DEF vars, dailyVars, fileVars, bounds
  <2>3. Shapes' /\ ScanInv'
    BY <2>2 DEF LearningInv, Shapes, ScanInv
  <2>4. Bounds'
    BY <2>1, <2>2 DEF LearningInv, Bounds, CallBound, Busy
  <2> QED
    BY <2>3, <2>4 DEF LearningInv
<1> QED
  BY <1>1, <1>2, <1>3, <1>4, <1>5 DEF Next

LEMMA LearningAlways == Spec => []LearningInv
BY LearningInit, LearningStep, PTL DEF Spec

\* Every variable keeps its type, and no profile counts more trades than were closed,
\* whatever is read, failed or lost (_record_learning_trade).
THEOREM LearningTypes == Spec => []TypeOK
<1>1. ASSUME LearningInv PROVE TypeOK
  <2>1. DoneCount \in Nat /\ DoneCount <= MaxTrades /\ MaxTrades \in Nat
    BY DoneIsFinite, LearningAssumption
  <2>2. ASSUME NEW t \in Trades
        PROVE  call[t] \in [pc: Steps, closed: Days, trades: 0 .. MaxTrades,
                            sum: SUBSET Trades]
    <3>1. call[t] \in Calls
      BY <1>1 DEF LearningInv, Shapes
    <3>2. call[t].trades \in 0 .. MaxTrades
      <4>1. CASE Busy(t)
        <5>1. DoneCount + 1 <= MaxTrades
          BY <4>1, OneIsNotDone DEF Busy, Summing
        <5>2. call[t].trades <= DoneCount + 1 /\ call[t].trades \in Nat
          BY <1>1, <3>1, <4>1 DEF LearningInv, Bounds, CallBound, Calls
        <5> QED
          BY <2>1, <5>1, <5>2
      <4>2. CASE ~Busy(t)
        BY <1>1, <2>1, <4>2 DEF LearningInv, Bounds, CallBound
      <4> QED
        BY <4>1, <4>2
    <3> QED
      BY <3>1, <3>2 DEF Calls
  <2>3. call \in [Trades -> [pc: Steps, closed: Days, trades: 0 .. MaxTrades,
                             sum: SUBSET Trades]]
    BY <1>1, <2>2 DEF LearningInv, Shapes
  <2>4. /\ profile \in 0 .. MaxTrades
        /\ cache \in [fresh: BOOLEAN, trades: 0 .. MaxTrades]
        /\ scan \in [pc: {"idle", "asked", "loaded"}, trades: 0 .. MaxTrades]
    BY <1>1, <2>1 DEF LearningInv, Shapes, Bounds
  <2> QED
    BY <1>1, <2>3, <2>4 DEF LearningInv, Shapes, TypeOK
<1> QED
  BY <1>1, LearningAlways, PTL

-----------------------------------------------------------------------------
(* The daily PnL, until two symbols meet.                                   *)

LEMMA DailyInit == Init => DailyInv
BY DEF Init, DailyInv, SumInv, Alone, Seen, NoSum, NotCalled, Summing

\* What is summed stays summed, and of its day, in every step of the calls.
Settled == \A t \in Trades : Summed(t) => Summed(t)' /\ call'[t].closed = call[t].closed

LEMMA SumsStay ==
    ASSUME LearningInv, Settled
    PROVE  /\ SumInv(daily) /\ daily'.of \subseteq daily.of /\ daily'.key = daily.key
                 => SumInv(daily)'
           /\ SumInv(snap) /\ snap' = snap => SumInv(snap)'
<1>1. daily.of \subseteq Trades /\ snap.of \subseteq Trades
  BY DEF LearningInv, Shapes, Sums
<1> QED
  BY <1>1 DEF Settled, SumInv

\* Scan, clock and save leave the calls and the sum alone.
LEMMA QuietDaily ==
    ASSUME DailyInv, call' = call, daily' = daily, clash' = clash,
           snap' = snap \/ snap' = daily
    PROVE  DailyInv'
<1>1. CASE clash
  BY <1>1 DEF DailyInv
<1>2. CASE ~clash
  <2>1. SumInv(daily) /\ SumInv(snap) /\ Alone /\ \A t \in Trades : Seen(t)
    BY <1>2 DEF DailyInv
  <2>2. SumInv(daily)' /\ SumInv(snap)'
    BY <2>1 DEF SumInv, Summed
  <2>3. Alone' /\ \A t \in Trades : Seen(t)'
    BY <2>1 DEF Alone, Seen
  <2> QED
    BY <2>2, <2>3 DEF DailyInv
<1> QED
  BY <1>1, <1>2

\* A step of one call, while no other recorder is on its way to the store.
LEMMA AloneMoves ==
    ASSUME NEW t \in Trades,
           \A u \in Trades : u # t => call'[u] = call[u] /\ call[u].pc \notin Summing,
           Seen(t)', SumInv(daily)', SumInv(snap)'
    PROVE  DailyInv'
<1>1. Alone'
  BY DEF Alone
<1>2. \A u \in Trades : u # t => Seen(u)'
  BY DEF Seen, Summing
<1> QED
  BY <1>1, <1>2 DEF DailyInv

LEMMA AsksDaily ==
    ASSUME LearningInv, DailyInv, NEW t \in Trades, NEW on \in {"thread", "loop"}, Asks(t, on)
    PROVE  DailyInv'
<1>1. /\ call[t].pc = "none" /\ call'[t].pc = "asked"
      /\ \A u \in Trades : u # t => call'[u] = call[u]
  BY AsksKeeps
<1>2. daily' = daily /\ snap' = snap /\ clash' = clash
  BY DEF Asks, dailyVars
<1>3. CASE clash
  BY <1>2, <1>3 DEF DailyInv
<1>4. CASE ~clash
  <2>1. SumInv(daily) /\ SumInv(snap) /\ Alone /\ \A u \in Trades : Seen(u)
    BY <1>4 DEF DailyInv
  <2>2. Settled
    BY <1>1 DEF Settled, Summed
  <2>3. SumInv(daily)' /\ SumInv(snap)'
    BY <1>2, <2>1, <2>2, SumsStay
  <2>4. Alone'
    BY <1>1, <2>1 DEF Alone, Summing
  <2>5. ASSUME NEW u \in Trades PROVE Seen(u)'
    <3>1. CASE u = t
      BY <1>1, <3>1 DEF Seen
    <3>2. CASE u # t
      BY <1>1, <1>2, <2>1, <3>2 DEF Seen
    <3> QED
      BY <3>1, <3>2
  <2> QED
    BY <2>3, <2>4, <2>5 DEF DailyInv
<1> QED
  BY <1>3, <1>4

\* The lock keeps the trades of one symbol apart; a trade of another symbol would meet.
LEMMA CountsDaily ==
    ASSUME LearningInv, DailyInv, NEW t \in Trades, Counts(t) \/ CountsElsewhere(t)
    PROVE  DailyInv'
<1>1. /\ call[t].pc = "asked" /\ call'[t].pc = Tested(t) /\ call'[t].closed = call[t].closed
      /\ \A u \in Trades : u # t => call'[u] = call[u]
  BY CountsKeeps, ElsewhereMoves DEF Counts, CountsElsewhere, Moves
<1>2. daily' = daily /\ snap' = snap /\ clash' = (clash \/ Meets(t))
  BY DEF Counts, CountIn, CountsElsewhere
<1>3. CASE clash \/ Meets(t)
  BY <1>2, <1>3 DEF DailyInv
<1>4. CASE ~clash /\ ~Meets(t)
  <2>1. SumInv(daily) /\ SumInv(snap)
    BY <1>4 DEF DailyInv
  <2>2. Settled
    BY <1>1 DEF Settled, Summed
  <2>3. SumInv(daily)' /\ SumInv(snap)'
    BY <1>2, <2>1, <2>2, SumsStay
  <2>4. ASSUME NEW u \in Trades, u # t PROVE call[u].pc \notin Summing
    <3>1. CASE t \in Others \/ u \in Others
      BY <1>4, <2>4, <3>1 DEF Meets
    <3>2. CASE t \notin Others /\ u \notin Others
      <4>1. lock = Nobody
        BY <3>2 DEF Counts, CountsElsewhere
      <4>2. ~Busy(u)
        BY <4>1 DEF LearningInv, Bounds, CallBound, Nobody, ByTrade
      <4> QED
        BY <3>2, <4>2 DEF Busy
    <3> QED
      BY <3>1, <3>2
  <2>5. Seen(t)'
    BY <1>1, <1>2 DEF Seen, Tested
  <2> QED
    BY <1>1, <2>3, <2>4, <2>5, AloneMoves
<1> QED
  BY <1>3, <1>4

\* Who is alone between test and store begins the sum of its day or adds to it.
LEMMA SumDaily ==
    ASSUME LearningInv, DailyInv, NEW t \in Trades,
           Resets(t) \/ Dates(t) \/ Loads(t) \/ Stores(t)
    PROVE  DailyInv'
<1>1. clash' = clash /\ snap' = snap
  BY DEF Resets, Dates, Loads, Stores, dailyVars
<1>2. CASE clash
  BY <1>1, <1>2 DEF DailyInv
<1>3. CASE ~clash
  <2>1. SumInv(daily) /\ SumInv(snap) /\ Alone /\ Seen(t)
    BY <1>3 DEF DailyInv
  <2>2. call[t].pc \in Summing /\ ~Summed(t)
    BY DEF Resets, Dates, Loads, Stores, Summing, Summed
  <2>3. /\ \A u \in Trades : u # t => call'[u] = call[u]
        /\ call'[t].closed = call[t].closed
    BY SumMoves DEF Moves
  <2>4. \A u \in Trades : u # t => call'[u] = call[u] /\ call[u].pc \notin Summing
    BY <2>1, <2>2, <2>3 DEF Alone
  <2>5. Settled
    BY <2>2, <2>3 DEF Settled, Summed
  <2>6. SumInv(snap)'
    BY <1>1, <2>1, <2>5, SumsStay
  <2>7. daily.of \subseteq Trades /\ daily \in [key: 0 .. MaxDay, of: SUBSET Trades]
    BY DEF LearningInv, Shapes, Sums
  <2>8. Seen(t)' /\ SumInv(daily)'
    <3>1. CASE Resets(t)
      <4>1. daily'.of = {} /\ call'[t].pc = "dating"
        BY <2>7, <3>1, SumMoves DEF Resets, Moves
      <4> QED
        BY <4>1 DEF Seen, SumInv
    <3>2. CASE Dates(t)
      <4>1. /\ daily'.of = daily.of /\ daily'.key = call[t].closed
            /\ call[t].pc = "dating" /\ call'[t].pc = "loading"
        BY <2>7, <3>2, SumMoves DEF Dates, Moves
      <4> QED
        BY <2>1, <2>3, <4>1 DEF Seen, SumInv
    <3>3. CASE Loads(t)
      <4>1. /\ daily' = daily /\ call'[t].sum = daily.of
            /\ call[t].pc = "loading" /\ call'[t].pc = "adding"
        BY <3>3, SumMoves DEF Loads, dailyVars, Moves
      <4>2. SumInv(daily)'
        BY <2>1, <2>5, <4>1, SumsStay
      <4> QED
        BY <2>1, <2>3, <4>1, <4>2 DEF Seen
    <3>4. CASE Stores(t)
      <4>1. /\ daily'.of = call[t].sum \cup {t} /\ daily'.key = daily.key
            /\ call[t].pc = "adding" /\ call'[t].pc = "counting"
        BY <2>7, <3>4, SumMoves DEF Stores, Moves
      <4>2. call[t].sum = daily.of /\ daily.key = call[t].closed
        BY <2>1, <4>1 DEF Seen
      <4>3. \A u \in daily.of : Summed(u)' /\ call'[u].closed = daily.key
        BY <2>1, <2>5, <2>7 DEF SumInv, Settled
      <4>4. Summed(t)'
        BY <4>1 DEF Summed
      <4>5. SumInv(daily)'
        BY <2>3, <4>1, <4>2, <4>3, <4>4 DEF SumInv
      <4> QED
        BY <4>1, <4>5 DEF Seen
    <3> QED
      BY <3>1, <3>2, <3>3, <3>4
  <2> QED
    BY <2>4, <2>6, <2>8, AloneMoves
<1> QED
  BY <1>2, <1>3

LEMMA EndsDaily ==
    ASSUME LearningInv, DailyInv, NEW t \in Trades, Records(t) \/ Raises(t)
    PROVE  DailyInv'
<1>1. /\ call[t].pc = "counting" /\ call'[t].pc = "done" /\ call'[t].closed = call[t].closed
      /\ \A u \in Trades : u # t => call'[u] = call[u]
  BY EndsKeeps
<1>2. daily' = daily /\ snap' = snap /\ clash' = clash
  BY DEF Records, Raises, dailyVars
<1>3. CASE clash
  BY <1>2, <1>3 DEF DailyInv
<1>4. CASE ~clash
  <2>1. SumInv(daily) /\ SumInv(snap) /\ Alone /\ \A u \in Trades : Seen(u)
    BY <1>4 DEF DailyInv
  <2>2. Settled
    BY <1>1 DEF Settled, Summed
  <2>3. SumInv(daily)' /\ SumInv(snap)'
    BY <1>2, <2>1, <2>2, SumsStay
  <2>4. Alone'
    BY <1>1, <2>1 DEF Alone, Summing
  <2>5. ASSUME NEW u \in Trades PROVE Seen(u)'
    <3>1. CASE u = t
      BY <1>1, <3>1 DEF Seen
    <3>2. CASE u # t
      BY <1>1, <1>2, <2>1, <3>2 DEF Seen
    <3> QED
      BY <3>1, <3>2
  <2> QED
    BY <2>3, <2>4, <2>5 DEF DailyInv
<1> QED
  BY <1>3, <1>4

\* A restart takes the snapshot's sum, or none.
LEMMA RestartDaily ==
    ASSUME LearningInv, DailyInv, Restart
    PROVE  DailyInv'
<1>1. \A t \in Trades :
        /\ call'[t].pc = "none" \/ call'[t].pc = "done"
        /\ call[t].pc # "none" => call'[t].pc = "done"
        /\ call'[t].closed = call[t].closed
  BY RestartCalls
<1>2. (daily' = snap \/ daily' = NoSum) /\ snap' = snap /\ clash' = clash
  BY DEF Restart
<1>3. CASE clash
  BY <1>2, <1>3 DEF DailyInv
<1>4. CASE ~clash
  <2>1. SumInv(snap)
    BY <1>4 DEF DailyInv
  <2>2. Settled
    BY <1>1 DEF Settled, Summed
  <2>3. SumInv(snap)'
    BY <1>2, <2>1, <2>2, SumsStay
  <2>4. SumInv(daily)'
    BY <1>2, <2>3 DEF SumInv, NoSum
  <2>5. Alone' /\ \A t \in Trades : Seen(t)'
    BY <1>1 DEF Alone, Seen, Summing
  <2> QED
    BY <2>3, <2>4, <2>5 DEF DailyInv
<1> QED
  BY <1>3, <1>4

LEMMA DailyStep == LearningInv /\ DailyInv /\ [Next]_vars => DailyInv'
<1> SUFFICES ASSUME LearningInv, DailyInv, [Next]_vars PROVE DailyInv'
  OBVIOUS
<1>1. CASE \E t \in Trades : Recorder(t)
  BY <1>1, AsksDaily, CountsDaily, SumDaily, EndsDaily DEF Recorder
<1>2. CASE \E t \in Trades : SavesAcross(t)
  BY <1>2 DEF SavesAcross, DailyInv
<1>3. CASE Scan \/ Saves \/ CacheExpires \/ Midnight \/ UNCHANGED vars
  <2>1. /\ call' = call /\ daily' = daily /\ clash' = clash
        /\ snap' = snap \/ snap' = daily
    BY <1>3 DEF Scan, ObserveAsks, ObserveReads, Observed, HealthLoads, HealthSaves, Saves,
           CacheExpires, Midnight, vars, dailyVars
  <2> QED
    BY <2>1, QuietDaily
<1>4. CASE Restart
  BY <1>4, RestartDaily
<1> QED
  BY <1>1, <1>2, <1>3, <1>4 DEF Next

LEMMA DailyAlways == Spec => [](LearningInv /\ DailyInv)
BY LearningInit, LearningStep, DailyInit, DailyStep, PTL DEF Spec

\* Until recorders of two symbols, or one and a save, meet at the daily PnL, it sums
\* trades of one day, for any number of trades, symbols, days and restarts: among the
\* trades of one symbol the lock suffices (learning.py:1065, 1291).
THEOREM DailySumsOneDay == Spec => []DailyIsOfItsDay
<1>1. DailyInv => DailyIsOfItsDay
  BY DEF DailyInv, SumInv, DailyIsOfItsDay
<1> QED
  BY <1>1, DailyAlways, PTL

\* Until then a trade of today leaves the daily sum only for a trade of another day or
\* with the process (learning.py:1291, main.py:5616).
LEMMA SumForgets ==
    ASSUME LearningInv, DailyInv, [Next]_vars, ~clash,
           NEW t \in daily.of \ daily'.of, call[t].closed = day
    PROVE  \/ restarts' # restarts
           \/ \E u \in Trades : /\ call[u].pc = "resetting" /\ call'[u].pc = "dating"
                                /\ call[u].closed # day
<1>1. SumInv(daily) /\ \A u \in Trades : Seen(u)
  BY DEF DailyInv
<1>2. call[t].closed = daily.key
  BY <1>1 DEF SumInv
<1>3. daily \in [key: 0 .. MaxDay, of: SUBSET Trades]
  BY DEF LearningInv, Shapes, Sums
<1>4. ASSUME NEW u \in Trades, Resets(u)
      PROVE  call[u].pc = "resetting" /\ call'[u].pc = "dating" /\ call[u].closed # day
  <2>1. call[u].pc = "resetting" /\ call'[u].pc = "dating"
    BY <1>4, SumMoves DEF Resets, Moves
  <2> QED
    BY <1>1, <1>2, <2>1 DEF Seen
<1>5. ASSUME NEW u \in Trades, Dates(u) PROVE FALSE
  <2>1. daily'.of = daily.of
    BY <1>3, <1>5 DEF Dates
  <2> QED
    BY <2>1
<1>6. ASSUME NEW u \in Trades, Stores(u) PROVE FALSE
  <2>1. daily'.of = call[u].sum \cup {u} /\ call[u].pc = "adding"
    BY <1>3, <1>6 DEF Stores
  <2>2. call[u].sum = daily.of
    BY <1>1, <2>1 DEF Seen
  <2> QED
    BY <2>1, <2>2
<1>7. CASE Restart
  <2>1. restarts \in Nat
    BY LearningAssumption DEF LearningInv, Shapes
  <2>2. restarts' = restarts + 1
    BY <1>7 DEF Restart
  <2>3. restarts' # restarts
    BY <2>1, <2>2
  <2> QED
    BY <2>3
<1>8. CASE daily' = daily
  BY <1>8
<1>9. \/ daily' = daily \/ Restart
      \/ \E u \in Trades : Resets(u) \/ Dates(u) \/ Stores(u)
  BY DEF Next, Recorder, Scan, Asks, Counts, CountIn, CountsElsewhere, Loads, Records, Raises,
         ObserveAsks, ObserveReads, Observed, HealthLoads, HealthSaves, Saves, SavesAcross,
         CacheExpires, Midnight, vars, dailyVars
<1> QED
  BY <1>4, <1>5, <1>6, <1>7, <1>8, <1>9

\* For any number of trades, symbols, days and restarts, until two symbols meet: no trade
\* of today drops out of the daily PnL unless one of another day begins a new sum or the
\* process restarts.
THEOREM DailyForgetsLittle == Spec => DailyForgets
<1>1. LearningInv /\ DailyInv /\ [Next]_vars
        => [(\E t \in daily.of \ daily'.of : call[t].closed = day) =>
              \/ clash
              \/ restarts' # restarts
              \/ \E u \in Trades : /\ call[u].pc = "resetting" /\ call'[u].pc = "dating"
                                   /\ call[u].closed # day]_vars
  BY SumForgets
<1> QED
  BY <1>1, DailyAlways, PTL DEF Spec, DailyForgets

-----------------------------------------------------------------------------
(* The copies, while the file can be read.                                  *)

FreshInv ==
    /\ \A t \in Trades : Busy(t) => profile < call[t].trades
    /\ cache.fresh => profile <= cache.trades
    /\ scan.pc = "loaded" /\ loop = ByScan(Observation) => profile <= scan.trades
    /\ loop = ByScan(Health) => scan.trades <= profile

LEMMA FreshInit == Init => FreshInv
BY DEF Init, FreshInv, Busy, Summing, NotCalled, Stale, Nobody, ByScan, Health, NoScan

\* Steps that leave file, cache and scan alone.
LEMMA FreshMoves ==
    ASSUME FreshInv,
           \A u \in Trades : Busy(u)' => Busy(u) /\ call'[u].trades = call[u].trades,
           UNCHANGED <<profile, cache, scan>>,
           loop' = ByScan(Observation) => loop = ByScan(Observation),
           loop' = ByScan(Health) => loop = ByScan(Health)
    PROVE  FreshInv'
BY DEF FreshInv

\* The one who counts holds the lock, so nobody else commits.
LEMMA FreshRecorder ==
    ASSUME ~ReadsFail, LearningInv, FreshInv, NEW t \in Trades, Recorder(t)
    PROVE  FreshInv' /\ profile <= profile'
<1> USE DEF LearningInv
<1>1. profile \in Nat /\ call \in [Trades -> Calls] /\ call[t].trades \in Nat
  BY DEF Shapes, Calls
<1>2. CASE \E on \in {"thread", "loop"} : Asks(t, on)
  <2>1. /\ call'[t].pc = "asked" /\ \A u \in Trades : u # t => call'[u] = call[u]
        /\ UNCHANGED <<profile, cache, scan>>
    BY <1>2, AsksKeeps DEF Asks, fileVars
  <2>2. loop' = loop \/ loop' = ByTrade(t)
    BY <1>2 DEF Asks
  <2>3. ASSUME NEW u \in Trades, Busy(u)' PROVE Busy(u) /\ call'[u].trades = call[u].trades
    <3>1. u # t
      BY <2>1, <2>3 DEF Busy, Summing
    <3> QED
      BY <2>1, <2>3, <3>1 DEF Busy
  <2>4. FreshInv'
    BY <2>1, <2>2, <2>3, FreshMoves DEF ByTrade, ByScan, Health, Observation
  <2> QED
    BY <1>1, <2>1, <2>4
<1>3. CASE Counts(t)
  <2>1. PICK n \in CachedReads :
          /\ call' = [call EXCEPT ![t].pc = Tested(t), ![t].trades = n + 1]
          /\ cache' = [fresh |-> TRUE, trades |-> n]
    BY <1>3 DEF Counts, CountIn
  <2>2. n \in Nat /\ profile <= n
    BY ReadsAreBounded, <1>1 DEF CachedReads, ProfileReads, FreshInv
  <2>3. call'[t].trades = n + 1 /\ \A u \in Trades : u # t => call'[u] = call[u]
    BY <1>1, <2>1 DEF Calls
  <2>4. profile' = profile /\ scan' = scan /\ loop' = loop
    BY <1>3 DEF Counts, CountIn
  <2>5. profile < n + 1
    BY <1>1, <2>2
  <2>6. ASSUME NEW u \in Trades, Busy(u)' PROVE profile < call'[u].trades
    <3>1. CASE u = t
      BY <2>3, <2>5, <3>1
    <3>2. CASE u # t
      BY <2>3, <2>6, <3>2 DEF Busy, FreshInv
    <3> QED
      BY <3>1, <3>2
  <2> QED
    BY <1>1, <2>1, <2>2, <2>4, <2>6 DEF FreshInv
<1>4. CASE CountsElsewhere(t) \/ Resets(t) \/ Dates(t) \/ Loads(t) \/ Stores(t)
  <2>1. \E to : Moves(t, to)
    BY <1>4, ElsewhereMoves, SumMoves
  <2>2. UNCHANGED <<profile, cache, scan, loop>>
    BY <1>4 DEF CountsElsewhere, Resets, Dates, Loads, Stores, fileVars
  <2>3. t \in Others \/ call[t].pc \in Summing
    BY <1>4 DEF CountsElsewhere, Resets, Dates, Loads, Stores, Summing
  <2>4. ASSUME NEW u \in Trades, Busy(u)' PROVE Busy(u) /\ call'[u].trades = call[u].trades
    <3>1. CASE u = t
      BY <2>1, <2>3, <2>4, <3>1 DEF Busy, Moves
    <3>2. CASE u # t
      BY <2>1, <2>4, <3>2 DEF Busy, Moves
    <3> QED
      BY <3>1, <3>2
  <2>5. FreshInv'
    BY <2>2, <2>4, FreshMoves
  <2> QED
    BY <1>1, <2>2, <2>5
<1>5. CASE Records(t) \/ Raises(t)
  <2>1. /\ call[t].pc = "counting" /\ Leaves(t) /\ scan' = scan
        /\ UNCHANGED fileVars \/ (t \notin Others /\ Commit(call[t].trades))
    BY <1>5 DEF Records, Raises, Commits
  <2>2. /\ call'[t].pc = "done" /\ \A u \in Trades : u # t => call'[u] = call[u]
    BY <1>5, EndsKeeps
  <2>3. /\ loop' = ByScan(Health) => loop = ByScan(Health)
        /\ loop' = ByScan(Observation) => loop = ByScan(Observation)
    BY <2>1 DEF Leaves, Nobody, ByScan, Health, Observation
  <2>4. ASSUME NEW u \in Trades, Busy(u)'
        PROVE  u # t /\ Busy(u) /\ call'[u].trades = call[u].trades
    <3>1. u # t
      BY <2>2, <2>4 DEF Busy, Summing
    <3> QED
      BY <2>2, <2>4, <3>1 DEF Busy
  <2>5. CASE UNCHANGED fileVars
    <3>1. UNCHANGED <<profile, cache, scan>>
      BY <2>1, <2>5 DEF fileVars
    <3>2. FreshInv'
      BY <2>3, <2>4, <3>1, FreshMoves
    <3> QED
      BY <1>1, <3>1, <3>2
  <2>6. CASE t \notin Others /\ Commit(call[t].trades)
    <3>1. Busy(t) /\ lock = ByTrade(t) /\ profile < call[t].trades
      BY <2>1, <2>6 DEF Busy, Bounds, CallBound, FreshInv
    <3>2. \A u \in Trades : ~Busy(u)'
      BY <2>4, <3>1 DEF Bounds, CallBound, ByTrade
    <3>3. ~(scan.pc = "loaded" /\ loop = ByScan(Observation))
      BY <3>1 DEF ScanInv, ByTrade, ByScan, Observation
    <3>4. profile' = call[t].trades /\ cache' = [fresh |-> TRUE, trades |-> call[t].trades]
      BY <2>6 DEF Commit
    <3>5. loop' = ByScan(Health) => scan'.trades <= profile'
      <4>1. scan.trades \in Nat
        BY DEF Shapes
      <4> QED
        BY <1>1, <2>1, <2>3, <3>1, <3>4, <4>1 DEF FreshInv
    <3> QED
      BY <1>1, <2>1, <2>3, <3>1, <3>2, <3>3, <3>4, <3>5 DEF FreshInv
  <2> QED
    BY <2>1, <2>5, <2>6
<1> QED
  BY <1>2, <1>3, <1>4, <1>5 DEF Recorder

\* An observation that has loaded holds the lock, too; a health record holds what was
\* the file when it loaded.
LEMMA FreshScan ==
    ASSUME ~ReadsFail, LearningInv, FreshInv, Scan
    PROVE  FreshInv' /\ (profile' < profile => HealthSaves)
<1> USE DEF LearningInv
<1>1. profile \in Nat /\ scan.trades \in Nat
  BY DEF Shapes
<1>2. CASE ObserveAsks
  BY <1>1, <1>2 DEF ObserveAsks, fileVars, FreshInv, Busy, NoScan, ByScan, Health, Observation
<1>3. CASE ObserveReads
  <2>1. PICK n \in CachedReads :
          /\ scan' = [pc |-> "loaded", trades |-> n]
          /\ cache' = [fresh |-> TRUE, trades |-> n]
    BY <1>3 DEF ObserveReads
  <2>2. n \in Nat /\ profile <= n
    BY ReadsAreBounded, <1>1 DEF CachedReads, ProfileReads, FreshInv
  <2>3. profile' = profile /\ call' = call /\ loop' = loop /\ loop = ByScan(Observation)
    BY <1>3 DEF ObserveReads, ScanInv
  <2> QED
    BY <1>1, <2>1, <2>2, <2>3 DEF FreshInv, Busy, ByScan, Health, Observation
<1>4. CASE Observed
  <2>1. /\ profile' = scan.trades /\ cache' = [fresh |-> TRUE, trades |-> scan.trades]
        /\ scan' = NoScan /\ loop' = Nobody /\ call' = call
    BY <1>4 DEF Observed, Commit
  <2>2. lock = ByScan(Observation) /\ profile <= scan.trades
    BY <1>4 DEF Observed, ScanInv, FreshInv
  <2>3. \A t \in Trades : ~Busy(t)
    BY <2>2 DEF Bounds, CallBound, ByScan, ByTrade, Observation
  <2> QED
    BY <1>1, <2>1, <2>2, <2>3 DEF FreshInv, Busy, NoScan, Nobody, ByScan, Health
<1>5. CASE HealthLoads
  <2>1. /\ scan' = [pc |-> "loaded", trades |-> profile] /\ loop' = ByScan(Health)
        /\ profile' = profile /\ cache' = cache /\ call' = call
    BY <1>5 DEF HealthLoads, ProfileReads, fileVars
  <2> QED
    BY <1>1, <2>1 DEF FreshInv, Busy, ByScan, Health, Observation
<1>6. CASE HealthSaves
  <2>1. /\ profile' = scan.trades /\ scan' = NoScan /\ loop' = Nobody
        /\ cache' = cache /\ call' = call
    BY <1>6 DEF HealthSaves
  <2>2. scan.trades <= profile
    BY <1>6 DEF HealthSaves, FreshInv
  <2>3. \A t \in Trades : Busy(t) => scan.trades < call[t].trades
    <3>1. \A t \in Trades : call[t].trades \in Nat
      BY DEF Shapes, Calls
    <3> QED
      BY <1>1, <2>2, <3>1 DEF FreshInv
  <2>4. cache.fresh => scan.trades <= cache.trades
    <3>1. cache.trades \in Nat
      BY DEF Shapes
    <3> QED
      BY <1>1, <2>2, <3>1 DEF FreshInv
  <2> QED
    BY <1>6, <2>1, <2>3, <2>4 DEF FreshInv, Busy, NoScan, Nobody, ByScan, Health
<1> QED
  BY <1>2, <1>3, <1>4, <1>5, <1>6 DEF Scan

\* Nothing else writes the file.
LEMMA FreshRest ==
    ASSUME LearningInv, FreshInv,
           \/ Saves \/ CacheExpires \/ Midnight \/ UNCHANGED vars
           \/ Restart
           \/ \E t \in Trades : SavesAcross(t)
    PROVE  FreshInv' /\ profile' = profile
<1>1. CASE Saves \/ CacheExpires \/ Midnight \/ UNCHANGED vars \/ \E t \in Trades : SavesAcross(t)
  <2>1. /\ profile' = profile /\ call' = call /\ scan' = scan /\ loop' = loop
        /\ cache' = cache \/ cache' = Stale
    BY <1>1 DEF Saves, SavesAcross, CacheExpires, Midnight, vars, fileVars
  <2> QED
    BY <2>1 DEF FreshInv, Busy, Stale
<1>2. CASE Restart
  <2>1. /\ profile' = profile /\ cache' = Stale /\ scan' = NoScan /\ loop' = Nobody
    BY <1>2 DEF Restart
  <2>2. \A t \in Trades : ~Busy(t)'
    BY <1>2, RestartCalls DEF Busy, Summing
  <2> QED
    BY <2>1, <2>2 DEF FreshInv, Stale, NoScan, Nobody, ByScan, Health
<1> QED
  BY <1>1, <1>2

LEMMA FreshStep ==
    ASSUME ~ReadsFail, LearningInv, FreshInv, [Next]_vars
    PROVE  FreshInv' /\ (profile' < profile => loop = ByScan(Health) /\ loop' = Nobody)
<1>1. profile \in Nat
  BY DEF LearningInv, Shapes
<1>2. CASE \E t \in Trades : Recorder(t)
  <2>1. FreshInv' /\ profile <= profile'
    BY <1>2, FreshRecorder
  <2>2. profile' \in Nat
    BY LearningStep DEF LearningInv, Shapes
  <2> QED
    BY <1>1, <2>1, <2>2
<1>3. CASE Scan
  BY <1>3, FreshScan DEF HealthSaves
<1>4. CASE \/ Saves \/ CacheExpires \/ Midnight \/ UNCHANGED vars
           \/ Restart
           \/ \E t \in Trades : SavesAcross(t)
  BY <1>1, <1>4, FreshRest
<1> QED
  BY <1>2, <1>3, <1>4 DEF Next

\* A recorder leaves with its trade in the file, unless a write raises or the process ends.
LEMMA RecordedCounts ==
    ASSUME LearningInv, FreshInv, [Next]_vars, NEW t \in Trades \ Others,
           call[t].pc = "counting", call'[t].pc = "done", UNCHANGED bounds
    PROVE  profile' > profile
<1>1. /\ profile \in Nat /\ call[t].trades \in Nat /\ faults \in Nat /\ restarts \in Nat
  BY DEF LearningInv, Shapes, Calls
<1>2. faults' = faults /\ restarts' = restarts /\ profile < call[t].trades
  BY DEF bounds, FreshInv, Busy
<1>3. CASE Records(t)
  BY <1>1, <1>2, <1>3 DEF Records, Commits, Commit
<1>4. ASSUME NEW u \in Trades, Recorder(u), ~Records(t) PROVE FALSE
  <2>1. CASE \E on \in {"thread", "loop"} : Asks(u, on)
    BY <2>1, AsksKeeps
  <2>2. CASE Counts(u)
    <3>1. call'[u].pc \in Summing /\ \A v \in Trades : v # u => call'[v] = call[v]
      BY <2>2, CountsKeeps, TestedType
    <3> QED
      BY <3>1 DEF Summing
  <2>3. CASE CountsElsewhere(u) \/ Resets(u) \/ Dates(u) \/ Loads(u) \/ Stores(u)
    <3>1. /\ \A v \in Trades : v # u => call'[v] = call[v]
          /\ call[u].pc # "counting"
      BY <2>3, ElsewhereMoves, SumMoves
         DEF Moves, CountsElsewhere, Resets, Dates, Loads, Stores
    <3> QED
      BY <3>1
  <2>4. CASE Records(u)
    <3>1. u # t
      BY <1>4, <2>4
    <3> QED
      BY <2>4, <3>1, EndsKeeps
  <2>5. CASE Raises(u)
    BY <1>1, <1>2, <2>5 DEF Raises
  <2> QED
    BY <1>4, <2>1, <2>2, <2>3, <2>4, <2>5 DEF Recorder
<1>5. CASE Restart
  <2>1. restarts' = restarts + 1
    BY <1>5 DEF Restart
  <2> QED
    BY <1>1, <1>2, <2>1
<1>6. CASE \/ Scan \/ Saves \/ CacheExpires \/ Midnight \/ UNCHANGED vars
           \/ \E u \in Trades : SavesAcross(u)
  <2>1. call' = call
    BY <1>6 DEF Scan, ObserveAsks, ObserveReads, Observed, HealthLoads, HealthSaves, Saves,
           SavesAcross, CacheExpires, Midnight, vars
  <2> QED
    BY <2>1
<1> QED
  BY <1>3, <1>4, <1>5, <1>6 DEF Next

\* While profile.json can be read, no write but a health record's takes back a trade
\* that the profile counted, and every recorder that gets through adds its own, for any
\* number of trades, symbols, observations and restarts (learning.py:1065, main.py:471).
THEOREM OnlyHealth == ~ReadsFail /\ Spec => OnlyHealthTakesBack
<1> DEFINE Kept ==
             /\ profile' < profile => loop = ByScan(Health) /\ loop' = Nobody
             /\ \A t \in Trades \ Others :
                   (call[t].pc = "counting" /\ call'[t].pc = "done" /\ UNCHANGED bounds)
                       => profile' > profile
<1>1. ~ReadsFail /\ LearningInv /\ FreshInv /\ [Next]_vars => FreshInv' /\ Kept
  BY FreshStep, RecordedCounts
<1>2. ASSUME ~ReadsFail PROVE Spec => OnlyHealthTakesBack
  <2>1. LearningInv /\ FreshInv /\ [Next]_vars
          => FreshInv' /\ [Kept]_vars
    BY <1>1, <1>2
  <2> QED
    BY <2>1, FreshInit, LearningAlways, PTL DEF Spec, OnlyHealthTakesBack
<1> QED
  BY <1>2

-----------------------------------------------------------------------------
(* Nobody waits for somebody who waits.                                     *)

LEMMA HoldersInit == Init => HoldersMove
BY DEF Init, HoldersMove, Nobody, ByTrade, ByScan, Health, Observation

\* What HoldersMove says of one recorder, and of the scan.
Holds(t) ==
    /\ lock = ByTrade(t) => call[t].pc \in Summing \cup {"counting"}
    /\ loop = ByTrade(t) => call[t].pc \in Summing \cup {"asked", "counting"}

ScanHolds ==
    /\ lock = ByScan(Observation) => loop = lock /\ scan.pc = "loaded"
    /\ lock # ByScan(Health)
    /\ loop = ByScan(Observation) => scan.pc \in {"asked", "loaded"}
    /\ loop = ByScan(Health) => scan.pc = "loaded"

LEMMA HoldersParts == HoldersMove <=> ScanHolds /\ \A t \in Trades : Holds(t)
BY DEF HoldersMove, ScanHolds, Holds

LEMMA RecorderMoves ==
    ASSUME LearningInv, HoldersMove, NEW t \in Trades, Recorder(t)
    PROVE  ScanHolds' /\ \A u \in Trades : Holds(u)'
<1>0. ScanHolds /\ \A u \in Trades : Holds(u)
  BY HoldersParts
<1>1. CASE \E on \in {"thread", "loop"} : Asks(t, on)
  <2>1. /\ lock' = lock /\ scan' = scan
        /\ \/ loop' = loop
           \/ loop = Nobody /\ loop' = ByTrade(t)
        /\ call[t].pc = "none" /\ call'[t].pc = "asked"
        /\ \A u \in Trades : u # t => call'[u] = call[u]
    BY <1>1, AsksKeeps DEF Asks
  <2>2. ASSUME NEW u \in Trades PROVE Holds(u)'
    <3>1. CASE u = t
      BY <1>0, <2>1, <3>1 DEF Holds, Summing
    <3>2. CASE u # t
      <4>1. loop' = ByTrade(u) => loop = ByTrade(u)
        BY <2>1, <3>2 DEF ByTrade
      <4> QED
        BY <1>0, <2>1, <3>2, <4>1 DEF Holds
    <3> QED
      BY <3>1, <3>2
  <2>3. ScanHolds'
    <3>1. CASE loop' = loop
      BY <1>0, <2>1, <3>1 DEF ScanHolds
    <3>2. CASE loop = Nobody /\ loop' = ByTrade(t)
      BY <1>0, <2>1, <3>2 DEF ScanHolds, Nobody, ByTrade, ByScan, Health, Observation
    <3> QED
      BY <2>1, <3>1, <3>2
  <2> QED
    BY <2>2, <2>3
<1>2. CASE Counts(t)
  <2>1. /\ lock' = ByTrade(t) /\ loop' = loop /\ scan' = scan
        /\ call'[t].pc \in Summing /\ \A u \in Trades : u # t => call'[u] = call[u]
    BY <1>2, CountsKeeps, TestedType DEF Counts, CountIn
  <2>2. ASSUME NEW u \in Trades PROVE Holds(u)'
    <3>1. CASE u = t
      BY <2>1, <3>1 DEF Holds
    <3>2. CASE u # t
      BY <1>0, <2>1, <3>2 DEF Holds, ByTrade
    <3> QED
      BY <3>1, <3>2
  <2>3. ScanHolds'
    BY <1>0, <2>1 DEF ScanHolds, ByTrade, ByScan, Health, Observation
  <2> QED
    BY <2>2, <2>3
<1>3. CASE CountsElsewhere(t) \/ Resets(t) \/ Dates(t) \/ Loads(t) \/ Stores(t)
  <2>1. /\ lock' = lock /\ loop' = loop /\ scan' = scan
        /\ call'[t].pc \in Summing \cup {"counting"}
        /\ \A u \in Trades : u # t => call'[u] = call[u]
    BY <1>3, ElsewhereMoves, SumMoves, TestedType
       DEF Moves, Summing, CountsElsewhere, Resets, Dates, Loads, Stores
  <2>2. ASSUME NEW u \in Trades PROVE Holds(u)'
    <3>1. CASE u = t
      BY <2>1, <3>1 DEF Holds
    <3>2. CASE u # t
      BY <1>0, <2>1, <3>2 DEF Holds
    <3> QED
      BY <3>1, <3>2
  <2>3. ScanHolds'
    BY <1>0, <2>1 DEF ScanHolds
  <2> QED
    BY <2>2, <2>3
<1>4. CASE Records(t) \/ Raises(t)
  <2>1. call[t].pc = "counting" /\ Leaves(t) /\ scan' = scan
    BY <1>4 DEF Records, Raises
  <2>2. \A u \in Trades : u # t => call'[u] = call[u]
    BY <1>4, EndsKeeps
  <2>3. /\ lock' = Nobody \/ lock' = lock
        /\ lock' # ByTrade(t)
        /\ loop' # ByTrade(t)
        /\ loop' = loop \/ (loop = ByTrade(t) /\ loop' = Nobody)
    BY <2>1 DEF Leaves, Nobody, ByTrade, LearningInv, Bounds, CallBound
  <2>4. ASSUME NEW u \in Trades PROVE Holds(u)'
    <3>1. CASE u = t
      BY <2>3, <3>1 DEF Holds
    <3>2. CASE u # t
      <4>1. /\ lock' = ByTrade(u) => lock = ByTrade(u)
            /\ loop' = ByTrade(u) => loop = ByTrade(u)
        BY <2>3 DEF Nobody, ByTrade
      <4> QED
        BY <1>0, <2>2, <3>2, <4>1 DEF Holds
    <3> QED
      BY <3>1, <3>2
  <2>5. ScanHolds'
    <3>1. /\ lock' = ByScan(Observation) => lock = ByScan(Observation)
          /\ lock' # ByScan(Health)
      BY <1>0, <2>3 DEF ScanHolds, Nobody, ByScan, Health, Observation
    <3>2. /\ loop' = ByScan(Observation) <=> loop = ByScan(Observation)
          /\ loop' = ByScan(Health) <=> loop = ByScan(Health)
      BY <2>3 DEF Nobody, ByTrade, ByScan, Health, Observation
    <3>3. lock' = ByScan(Observation) => loop' = lock'
      BY <1>0, <3>1, <3>2 DEF ScanHolds
    <3> QED
      BY <1>0, <2>1, <3>1, <3>2, <3>3 DEF ScanHolds
  <2> QED
    BY <2>4, <2>5
<1> QED
  BY <1>1, <1>2, <1>3, <1>4 DEF Recorder

LEMMA OthersMove ==
    ASSUME LearningInv, HoldersMove,
           \/ Scan
           \/ Saves \/ CacheExpires \/ Midnight \/ Restart
           \/ \E t \in Trades : SavesAcross(t)
           \/ UNCHANGED vars
    PROVE  HoldersMove'
<1>1. CASE ObserveAsks \/ HealthLoads
  <2>1. /\ call' = call /\ lock' = lock /\ loop = Nobody
        /\ \/ loop' = ByScan(Observation) /\ scan'.pc = "asked"
           \/ loop' = ByScan(Health) /\ scan'.pc = "loaded"
    BY <1>1 DEF ObserveAsks, HealthLoads, NoScan
  <2> QED
    BY <2>1 DEF HoldersMove, Nobody, ByTrade, ByScan, Health, Observation
<1>2. CASE ObserveReads
  <2>1. /\ call' = call /\ lock' = ByScan(Observation) /\ loop' = loop
        /\ scan.pc = "asked" /\ scan'.pc = "loaded"
    BY <1>2 DEF ObserveReads
  <2>2. loop = ByScan(Observation)
    BY <2>1 DEF LearningInv, ScanInv
  <2> QED
    BY <2>1, <2>2 DEF HoldersMove, Nobody, ByTrade, ByScan, Health, Observation
<1>3. CASE Observed
  <2>1. call' = call /\ lock' = Nobody /\ loop' = Nobody
    BY <1>3 DEF Observed
  <2> QED
    BY <2>1 DEF HoldersMove, Nobody, ByTrade, ByScan, Health, Observation
<1>4. CASE HealthSaves
  <2>1. call' = call /\ lock' = lock /\ loop' = Nobody /\ loop = ByScan(Health)
    BY <1>4 DEF HealthSaves
  <2> QED
    BY <2>1 DEF HoldersMove, Nobody, ByTrade, ByScan, Health, Observation
<1>5. CASE \/ Saves \/ CacheExpires \/ Midnight \/ UNCHANGED vars
           \/ \E t \in Trades : SavesAcross(t)
  <2>1. UNCHANGED <<lock, loop, call, scan>>
    BY <1>5 DEF Saves, SavesAcross, CacheExpires, Midnight, vars
  <2> QED
    BY <2>1 DEF HoldersMove
<1>6. CASE Restart
  <2>1. lock' = Nobody /\ loop' = Nobody
    BY <1>6 DEF Restart
  <2> QED
    BY <2>1 DEF HoldersMove, Nobody, ByTrade, ByScan, Health, Observation
<1> QED
  BY <1>1, <1>2, <1>3, <1>4, <1>5, <1>6 DEF Scan

\* Recorders in threads and on the loop, observations and health records never wait in a
\* circle, for any number of trades and symbols: what LoopIsFreed rests on besides fairness.
THEOREM NobodyWaitsInACircle == Spec => []HoldersMove
<1>1. LearningInv /\ HoldersMove /\ [Next]_vars => HoldersMove'
  <2> SUFFICES ASSUME LearningInv, HoldersMove, [Next]_vars PROVE HoldersMove'
    OBVIOUS
  <2>1. ASSUME NEW t \in Trades, Recorder(t) PROVE HoldersMove'
    <3>1. ScanHolds' /\ \A u \in Trades : Holds(u)'
      BY <2>1, RecorderMoves
    <3> QED
      BY <3>1 DEF ScanHolds, Holds, HoldersMove
  <2> QED
    BY <2>1, OthersMove DEF Next
<1> QED
  BY <1>1, HoldersInit, LearningAlways, PTL DEF Spec
=============================================================================
