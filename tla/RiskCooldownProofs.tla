-------------------------- MODULE RiskCooldownProofs --------------------------
(***************************************************************************)
(* Three arguments about RiskCooldown, for all windows, durations and      *)
(* numbers of closes.                                                      *)
(*                                                                         *)
(* The brake of a loss is bounded: what is armed is within its bound,      *)
(* because the loss is within its window; and no copy is ever longer than  *)
(* what was armed, whichever copies are saved, dropped and brought back.   *)
(*                                                                         *)
(* Types: the losses at the end of the log are counted by a CHOOSE, which  *)
(* is shown to have exactly one value.                                     *)
(*                                                                         *)
(* No entry into a loss: the record of a fresh loss stands in memory when  *)
(* the cycle has looked, and excludes the symbol there and then, until it  *)
(* runs out or is forgotten; there is nothing else that takes it away.     *)
(***************************************************************************)
EXTENDS RiskCooldown, NaturalsInduction, WellFoundedInduction, TLAPS

\* The times that a cooldown is computed from.
Times ==
    /\ now \in Nat
    /\ closes \in Seq([kind : Kinds, at : Nat])
    /\ cyc.at \in Nat

IInv == Times /\ BrakeBounded

-----------------------------------------------------------------------------
LEMMA Durations == {StreakFor, StreakWindow, BigFor, BigWindow} \subseteq Nat
BY CooldownAssumption

LEMMA Nothing == Bounded(NoRecord)
BY DEF Bounded, NoRecord

\* Pruning drops a record or leaves it.
LEMMA PrunedBounded ==
    ASSUME NEW rec, NEW t, Bounded(rec)
    PROVE  Bounded(Pruned(rec, t))
BY Nothing DEF Pruned

LEMMA LastClose ==
    ASSUME Times, Len(closes) > 0
    PROVE  closes[Len(closes)].at \in Nat
<1> DEFINE Close == [kind : Kinds, at : Nat]
<1>1. closes \in Seq(Close)
    BY DEF Times
<1>2. closes[Len(closes)] \in Close
  <2> HIDE DEF Close
  <2> QED BY <1>1
<1> QED BY <1>2

\* A streak is armed only within its window.
LEMMA StreakBounded ==
    ASSUME Times, NEW rec, Bounded(rec), NEW t \in Nat
    PROVE  Bounded(AfterStreak(rec, t))
<1>1. CASE AfterStreak(rec, t) = rec
    BY <1>1
<1>2. CASE Last > 0 /\ Recent(StreakWindow, t) /\ AfterStreak(rec, t) = Armed("loss_streak", StreakFor, t)
  <2> DEFINE new == Armed("loss_streak", StreakFor, t)
  <2>1. new.reason = "loss_streak" /\ new.last = closes[Last].at /\ new.until = t + StreakFor
      BY DEF Armed
  <2>2. closes[Last].at \in Nat
      BY <1>2, LastClose DEF Last
  <2>3. t <= closes[Last].at + StreakWindow
      BY <1>2 DEF Recent
  <2>4. new.until <= new.last + StreakWindow + StreakFor
      BY <2>1, <2>2, <2>3, Durations
  <2> HIDE DEF new
  <2> QED BY <1>2, <2>1, <2>4 DEF Bounded, new
<1> QED BY <1>1, <1>2 DEF AfterStreak

\* A big loss is armed only within its window.
LEMMA BigLossBounded ==
    ASSUME Times, NEW rec, Bounded(rec), NEW t \in Nat
    PROVE  Bounded(AfterBigLoss(rec, t))
<1>1. CASE AfterBigLoss(rec, t) = rec
    BY <1>1
<1>2. CASE BigRecent(t) /\ AfterBigLoss(rec, t) = Armed("big_loss", BigFor, t)
  <2> DEFINE new == Armed("big_loss", BigFor, t)
  <2>1. new.reason = "big_loss" /\ new.last = closes[Last].at /\ new.until = t + BigFor
      BY DEF Armed
  <2>2. closes[Last].at \in Nat
      BY <1>2, LastClose DEF Last, BigRecent
  <2>3. BigWindow > 0 => t <= closes[Last].at + BigWindow
      BY <1>2, Durations DEF BigRecent, Recent
  <2>4. BigWindow > 0 => new.until <= new.last + BigWindow + BigFor
      BY <2>1, <2>2, <2>3, Durations
  <2> HIDE DEF new
  <2> QED BY <1>2, <2>1, <2>4 DEF Bounded, new
<1> QED BY <1>1, <1>2 DEF AfterBigLoss

\* So is what the brake leaves.
LEMMA BrakedBounded ==
    ASSUME Times, NEW rec, Bounded(rec)
    PROVE  Bounded(Braked(rec))
<1>1. Bounded(Pruned(rec, cyc.at))
    BY PrunedBounded
<1>2. Bounded(AfterBigLoss(Pruned(rec, cyc.at), cyc.at))
    BY <1>1, BigLossBounded DEF Times
<1> QED BY <1>2, PrunedBounded DEF Braked

\* Copies are bounded if what is saved is.
LEMMA CopiesBounded ==
    ASSUME BrakeBounded, NEW rec, Bounded(rec), SavedAs(rec) \/ Unsaved
    PROVE  Bounded(snap') /\ Bounded(file')
BY DEF SavedAs, Unsaved, BrakeBounded

-----------------------------------------------------------------------------
LEMMA SavesBounded ==
    ASSUME BrakeBounded, NEW rec, Bounded(rec), SavesAfter(rec)
    PROVE  BrakeBounded'
<1>1. Bounded(cool') /\ (SavedAs(cool') \/ Unsaved)
    BY PrunedBounded DEF SavesAfter
<1>2. Bounded(snap') /\ Bounded(file')
    BY <1>1, CopiesBounded
<1> QED BY <1>1, <1>2 DEF BrakeBounded, Bounded

\* What the brake can leave, and save, and how the cycle goes on.
LEMMA LooksParts ==
    ASSUME Looks
    PROVE  LET streak == AfterStreak(Standing, cyc.at) IN
           /\ cyc.pc = "begun" /\ UNCHANGED <<now, closes, enabled>>
           /\ \/ /\ cyc.enabled
                 /\ cool' \in {Braked(streak), Braked(Pruned(streak, now))}
                 /\ SavedAs(Pruned(Standing, now)) \/ SavedAs(Pruned(streak, now)) \/ Unsaved
                 /\ cyc' = Looked(cool' # NoRecord, cool', streak)
              \/ /\ ~cyc.enabled
                 /\ cool' = Standing /\ Unsaved
                 /\ cyc' = Looked(cool' # NoRecord, cool', Standing)
BY Zenon DEF Looks

\* What a step leaves of the cycle's time.
LEMMA CycleTimes ==
    ASSUME cyc.at \in Nat
    PROVE  /\ Idle.at \in Nat
           /\ [cyc EXCEPT !.pc = "picked"].at \in Nat
           /\ [cyc EXCEPT !.forgotten = TRUE].at \in Nat
           /\ \A out, left, streak : Looked(out, left, streak).at \in Nat
BY DEF Looked, Idle

LEMMA InitInv == Init => IInv
BY Nothing DEF Init, IInv, Times, BrakeBounded, Idle, Last

\* Every time that is sampled is a time.
LEMMA TimesStay == IInv /\ [Next]_vars => Times'
<1> SUFFICES ASSUME IInv, [Next]_vars PROVE Times'
    OBVIOUS
<1> USE DEF IInv, Times, Idle
<1>1. CASE CycleBegins
    BY <1>1 DEF CycleBegins
<1>2. CASE CycleSkips
    BY <1>2 DEF CycleSkips
<1>3. CASE Looks
  <2>1. PICK out, left, streak : cyc' = Looked(out, left, streak)
      BY <1>3, LooksParts
  <2>2. cyc'.at \in Nat
      BY <2>1, CycleTimes
  <2> QED BY <1>3, <2>2 DEF Looks
<1>13. ASSUME NEW answered \in BOOLEAN, NEW fixed \in BOOLEAN, Picks(answered, fixed) PROVE Times'
  <2>1. cyc' = Idle \/ cyc' = [cyc EXCEPT !.pc = "picked"]
      BY <1>13 DEF Picks
  <2>2. UNCHANGED <<now, closes>>
      BY <1>13 DEF Picks
  <2>3. cyc'.at \in Nat
      BY <2>1, CycleTimes
  <2> QED BY <2>2, <2>3
<1>4. CASE TurnsVolatile
    BY <1>4 DEF TurnsVolatile
<1>5. CASE Enters
    BY <1>5 DEF Enters
<1>6. ASSUME NEW kind \in Kinds, Closes(kind) PROVE Times'
    BY <1>6 DEF Closes
<1>7. CASE Saves
    BY <1>7 DEF Saves
<1>8. CASE Clears
  <2>1. cyc' = Idle \/ cyc' = [cyc EXCEPT !.forgotten = TRUE]
      BY <1>8 DEF Clears
  <2>2. UNCHANGED <<now, closes>>
      BY <1>8 DEF Clears
  <2>3. cyc'.at \in Nat
      BY <2>1, CycleTimes
  <2> QED BY <2>2, <2>3
<1>9. CASE Toggles
    BY <1>9 DEF Toggles
<1>10. CASE Restarts
    BY <1>10 DEF Restarts
<1>11. CASE Tick
    BY <1>11 DEF Tick
<1>12. CASE UNCHANGED vars
    BY <1>12 DEF vars
<1> QED
    BY <1>1, <1>2, <1>3, <1>4, <1>5, <1>6, <1>7, <1>8, <1>9, <1>10, <1>11, <1>12, <1>13 DEF Next, Cycle

\* Every step leaves memory and both copies within the bound.
LEMMA BoundStays == IInv /\ [Next]_vars => BrakeBounded'
<1> SUFFICES ASSUME IInv, [Next]_vars PROVE BrakeBounded'
    OBVIOUS
<1>0. Times /\ Bounded(cool) /\ Bounded(snap) /\ Bounded(file)
    BY DEF IInv, BrakeBounded
<1>1. ASSUME UNCHANGED <<snap, file>>, Bounded(cool') PROVE BrakeBounded'
    BY <1>0, <1>1 DEF BrakeBounded, Bounded
<1>2. ASSUME UNCHANGED cool, UNCHANGED <<snap, file>> PROVE BrakeBounded'
    BY <1>0, <1>2 DEF BrakeBounded, Bounded
<1>3. CASE CycleBegins
  <2>1. cool' = Pruned(cool, now) \/ cool' = NoRecord
      BY <1>3 DEF CycleBegins
  <2>2. Bounded(cool')
      BY <1>0, <2>1, PrunedBounded, Nothing
  <2> QED BY <1>1, <1>3, <2>2 DEF CycleBegins
<1>4. CASE Looks
  <2> DEFINE streak == AfterStreak(Standing, cyc.at)
  <2>1. Bounded(Standing)
      BY <1>0, PrunedBounded DEF Standing
  <2>2. Bounded(streak)
      BY <1>0, <2>1, StreakBounded DEF Times
  <2>3. cool' \in {Braked(streak), Braked(Pruned(streak, now)), Standing}
      BY <1>4, LooksParts
  <2>4. SavedAs(Pruned(Standing, now)) \/ SavedAs(Pruned(streak, now)) \/ Unsaved
      BY <1>4, LooksParts
  <2> HIDE DEF streak
  <2>5. Bounded(Pruned(streak, now)) /\ Bounded(Pruned(Standing, now))
      BY <2>1, <2>2, PrunedBounded
  <2>6. Bounded(cool')
      BY <1>0, <2>1, <2>2, <2>3, <2>5, BrakedBounded
  <2>7. Bounded(snap') /\ Bounded(file')
      BY <2>4, <2>5, CopiesBounded DEF IInv
  <2> QED BY <2>6, <2>7 DEF BrakeBounded, Bounded
<1>15. ASSUME NEW answered \in BOOLEAN, NEW fixed \in BOOLEAN, Picks(answered, fixed) PROVE BrakeBounded'
  <2>1. cool' \in {Standing, cool} /\ UNCHANGED <<snap, file>>
      BY <1>15 DEF Picks
  <2>2. Bounded(cool')
      BY <1>0, <2>1, PrunedBounded DEF Standing
  <2> QED BY <1>1, <2>1, <2>2
<1>5. CASE TurnsVolatile
  <2> DEFINE rec == [reason |-> "market_volatile", close |-> cyc.at, losses |-> 0,
                     last |-> cyc.at, until |-> cyc.at + VolatileFor]
  <2>1. Bounded(rec)
      BY DEF Bounded
  <2>2. SavesAfter(rec) \/ (cool' = rec /\ Unsaved)
      BY <1>5 DEF TurnsVolatile
  <2> HIDE DEF rec
  <2>3. CASE SavesAfter(rec)
      BY <2>1, <2>3, SavesBounded DEF IInv
  <2>4. CASE cool' = rec /\ Unsaved
      BY <1>0, <2>1, <2>4 DEF Unsaved, BrakeBounded, Bounded
  <2> QED BY <2>2, <2>3, <2>4
<1>6. CASE Saves
    BY <1>0, <1>6, SavesBounded DEF Saves, IInv
<1>7. CASE Clears
  <2>1. cool' = NoRecord /\ (SavedAs(NoRecord) \/ Unsaved)
      BY <1>7 DEF Clears
  <2>2. Bounded(snap') /\ Bounded(file')
      BY <2>1, Nothing, CopiesBounded DEF IInv
  <2> QED BY <2>1, <2>2, Nothing DEF BrakeBounded, Bounded
<1>8. CASE Restarts
  <2>1. cool' = snap \/ cool' = file
      BY <1>8 DEF Restarts
  <2> QED BY <1>0, <1>1, <1>8, <2>1 DEF Restarts
<1>9. CASE CycleSkips
    BY <1>2, <1>9 DEF CycleSkips
<1>10. CASE Enters
    BY <1>2, <1>10 DEF Enters
<1>11. ASSUME NEW kind \in Kinds, Closes(kind) PROVE BrakeBounded'
    BY <1>2, <1>11 DEF Closes
<1>12. CASE Toggles
    BY <1>2, <1>12 DEF Toggles
<1>13. CASE Tick
    BY <1>2, <1>13 DEF Tick
<1>14. CASE UNCHANGED vars
    BY <1>2, <1>14 DEF vars
<1> QED
    BY <1>3, <1>4, <1>5, <1>6, <1>7, <1>8, <1>9, <1>10, <1>11, <1>12, <1>13, <1>14, <1>15 DEF Next, Cycle

\* A loss brakes its symbol for its window and one cooldown at most, for all durations and
\* all windows (a big loss that has none, BigWindow = 0, is armed for again and again), in memory and in every copy (risk_cooldown.py; main.py, _autotrade_loop and
\* _load_autotrade_snapshot; state_ops.py).
THEOREM BrakesAreBounded == Spec => []BrakeBounded
<1>1. Init => IInv
    BY InitInv
<1>2. IInv /\ [Next]_vars => IInv'
    BY TimesStay, BoundStays DEF IInv
<1>3. IInv => BrakeBounded
    BY DEF IInv
<1> QED BY <1>1, <1>2, <1>3, PTL DEF Spec
-----------------------------------------------------------------------------
(* The losses at the end of the log.                                        *)

\* The last n of the first k closes of a log are losses, and the one before them is none.
LostIn(log, n) == log[n].kind # "win"
LossesAtEnd(log, k, n) ==
    /\ \A m \in (k - n + 1) .. k : LostIn(log, m)
    /\ n < k => ~LostIn(log, k - n)

\* A set of natural numbers that has a member has a least one.
LEMMA LeastElement ==
    ASSUME NEW S \in SUBSET Nat, S # {}
    PROVE  \E m \in S : \A n \in S : m <= n
<1>1. PICK m \in S : \A n \in S : ~(<<n, m>> \in OpToRel(<, Nat))
    BY NatLessThanWellFounded, WFMin, Zenon
<1>2. ASSUME NEW n \in S PROVE m <= n
  <2>1. <<n, m>> \notin OpToRel(<, Nat)
      BY <1>1, Zenon
  <2>2. ~(n < m)
      BY <2>1, Zenon DEF OpToRel
  <2> QED BY <2>2
<1> QED BY <1>2

\* There is a tail: the closes after the last win, or all of them.
LEMMA TailExists ==
    ASSUME NEW log, NEW k \in Nat
    PROVE  \E n \in 0 .. k : LossesAtEnd(log, k, n)
<1> DEFINE S == {n \in 0 .. k : n = k \/ ~LostIn(log, k - n)}
<1>1. S \in SUBSET Nat /\ k \in S
    OBVIOUS
<1>2. PICK n \in S : \A m \in S : n <= m
  <2> HIDE DEF S
  <2> QED BY <1>1, LeastElement
<1>3. n \in 0 .. k /\ (n = k \/ ~LostIn(log, k - n))
    BY <1>2
<1>4. ASSUME NEW m \in (k - n + 1) .. k PROVE LostIn(log, m)
  <2>1. k - m \in 0 .. k /\ k - m < n /\ k - (k - m) = m
      BY <1>3
  <2>2. k - m \notin S
      BY <1>2, <1>3, <2>1
  <2>3. LostIn(log, k - (k - m))
      BY <1>3, <2>1, <2>2
  <2> QED BY <2>1, <2>3
<1> QED BY <1>3, <1>4 DEF LossesAtEnd

\* And only one.
LEMMA TailIsOne ==
    ASSUME NEW log, NEW k \in Nat, NEW n \in 0 .. k, NEW m \in 0 .. k, LossesAtEnd(log, k, n), LossesAtEnd(log, k, m)
    PROVE  n = m
<1>1. ASSUME NEW a \in 0 .. k, NEW b \in 0 .. k, LossesAtEnd(log, k, a), LossesAtEnd(log, k, b), a < b PROVE FALSE
  <2>1. ~LostIn(log, k - a)
      BY <1>1 DEF LossesAtEnd
  <2>2. k - a \in (k - b + 1) .. k
      BY <1>1
  <2>3. LostIn(log, k - a)
      BY <1>1, <2>2 DEF LossesAtEnd
  <2> QED BY <2>1, <2>3
<1>2. ~(n < m) /\ ~(m < n)
    BY <1>1
<1> QED BY <1>2

LEMMA SeenLossesIsTail ==
    ASSUME NEW k \in Nat
    PROVE  SeenLosses(k) \in 0 .. k /\ LossesAtEnd(closes, k, SeenLosses(k))
<1>1. SeenLosses(k) = CHOOSE n \in 0 .. k : LossesAtEnd(closes, k, n)
    BY Zenon DEF SeenLosses, Lost, LossesAtEnd, LostIn
<1>2. \E n \in 0 .. k : LossesAtEnd(closes, k, n)
    BY TailExists
<1> QED BY <1>1, <1>2, Zenon

\* What is logged later does not change the losses at the end of what was seen.
LEMMA SeenLossesStay ==
    ASSUME NEW k \in Nat, \A n \in 1 .. k : closes'[n] = closes[n]
    PROVE  SeenLosses(k)' = SeenLosses(k)
<1> DEFINE old == CHOOSE n \in 0 .. k : LossesAtEnd(closes, k, n)
           new == CHOOSE n \in 0 .. k : LossesAtEnd(closes', k, n)
<1>1. SeenLosses(k) = old /\ SeenLosses(k)' = new
    BY Zenon DEF SeenLosses, Lost, LossesAtEnd, LostIn
<1>2. old \in 0 .. k /\ LossesAtEnd(closes, k, old) /\ new \in 0 .. k /\ LossesAtEnd(closes', k, new)
    BY TailExists, Zenon
<1> HIDE DEF old, new
<1>3. LossesAtEnd(closes, k, new)
    BY <1>2 DEF LossesAtEnd, LostIn
<1>4. old = new
    BY <1>2, <1>3, TailIsOne
<1> QED BY <1>1, <1>4

\* The streak that arms is the one that is asked for at an entry.
LEMMA LossesAreSeen == Losses = SeenLosses(Last)
BY Zenon DEF Losses, SeenLosses

-----------------------------------------------------------------------------
(* Types.                                                                   *)

Close == [kind : Kinds, at : Nat]

\* A record, if there is one, is of a close in the log.
Dated(rec) ==
    rec # NoRecord =>
      /\ rec \in Record
      /\ rec.reason # "market_volatile" =>
           rec.close \in 1 .. Last /\ rec.last = closes[rec.close].at

LEMMA TypeOKParts ==
    TypeOK <=> /\ now \in 0 .. MaxTime
               /\ closes \in Seq(Close) /\ Last <= MaxCloses
               /\ enabled \in BOOLEAN
               /\ Dated(cool) /\ Dated(snap) /\ Dated(file) /\ Dated(cyc.left)
               /\ cyc \in Cycles
               /\ cyc.at <= now /\ cyc.seen <= Last
BY DEF TypeOK, Dated, Close
LEMMA TypedIsTimed ==
    ASSUME TypeOK
    PROVE  Times /\ Last \in Nat
<1>1. now \in Nat
    BY CooldownAssumption DEF TypeOK
<1>2. closes \in Seq(Close) /\ cyc.at \in Nat
    BY TypeOKParts DEF Cycles
<1> QED BY <1>1, <1>2 DEF Times, Close, Last

LEMMA NothingIsDated == Dated(NoRecord)
BY DEF Dated

LEMMA PrunedDated ==
    ASSUME NEW rec, NEW t, Dated(rec)
    PROVE  Dated(Pruned(rec, t))
BY NothingIsDated DEF Pruned

\* What is armed is of the last close.
LEMMA ArmedDated ==
    ASSUME TypeOK, Last > 0, NEW t \in Nat,
           NEW minutes \in Nat, NEW reason \in {"loss_streak", "big_loss"}
    PROVE  Dated(Armed(reason, minutes, t))
<1>1. closes[Last].at \in Nat
    BY TypedIsTimed, LastClose DEF Last
<1>2. Last \in Nat
    BY TypedIsTimed
<1>3. Losses \in Nat
    BY <1>2, LossesAreSeen, SeenLossesIsTail
<1> DEFINE new == Armed(reason, minutes, t)
<1>4. new \in Record
    BY <1>1, <1>2, <1>3 DEF Armed, Record, Reasons
<1>5. new.close = Last /\ new.last = closes[Last].at
    BY DEF Armed
<1> HIDE DEF new
<1>6. new.close \in 1 .. Last
    BY <1>2, <1>5
<1>7. Dated(new)
    BY <1>4, <1>5, <1>6 DEF Dated
<1> QED BY <1>7 DEF new

LEMMA StreakDated ==
    ASSUME TypeOK, NEW rec, Dated(rec), NEW t \in Nat
    PROVE  Dated(AfterStreak(rec, t))
<1>1. CASE AfterStreak(rec, t) = rec
    BY <1>1
<1>2. CASE Last > 0 /\ AfterStreak(rec, t) = Armed("loss_streak", StreakFor, t)
    BY <1>2, ArmedDated, Durations
<1> QED BY <1>1, <1>2 DEF AfterStreak

LEMMA BigLossDated ==
    ASSUME TypeOK, NEW rec, Dated(rec), NEW t \in Nat
    PROVE  Dated(AfterBigLoss(rec, t))
<1>1. CASE AfterBigLoss(rec, t) = rec
    BY <1>1
<1>2. CASE Last > 0 /\ AfterBigLoss(rec, t) = Armed("big_loss", BigFor, t)
    BY <1>2, ArmedDated, Durations
<1> QED BY <1>1, <1>2 DEF AfterBigLoss, BigRecent, Recent

LEMMA BrakedDated ==
    ASSUME TypeOK, NEW rec, Dated(rec)
    PROVE  Dated(Braked(rec))
<1>1. Dated(Pruned(rec, cyc.at))
    BY PrunedDated
<1>2. Dated(AfterBigLoss(Pruned(rec, cyc.at), cyc.at))
    BY <1>1, BigLossDated, TypedIsTimed DEF Times
<1> QED BY <1>2, PrunedDated DEF Braked

LEMMA CopiesDated ==
    ASSUME Dated(snap), Dated(file), NEW rec, Dated(rec), SavedAs(rec) \/ Unsaved
    PROVE  Dated(snap') /\ Dated(file')
BY DEF SavedAs, Unsaved

LEMMA SavesDated ==
    ASSUME Dated(snap), Dated(file), NEW rec, Dated(rec), SavesAfter(rec)
    PROVE  Dated(cool') /\ Dated(snap') /\ Dated(file')
<1>1. Dated(cool') /\ (SavedAs(cool') \/ Unsaved)
    BY PrunedDated DEF SavesAfter
<1> QED BY <1>1, CopiesDated

\* As long as no close is logged, what is dated stays so.
LEMMA TypesByParts ==
    ASSUME TypeOK, UNCHANGED <<closes, enabled>>,
           now' \in 0 .. MaxTime, now <= now',
           Dated(cool'), Dated(snap'), Dated(file'), Dated(cyc'.left),
           cyc'.at <= now', cyc'.seen <= Last, cyc' \in Cycles
    PROVE  TypeOK'
<1>1. Dated(cool)' /\ Dated(snap)' /\ Dated(file)' /\ Dated(cyc.left)'
    BY DEF Dated, Last
<1>2. Last' = Last
    BY DEF Last
<1>3. \A rec \in {cool', snap', file', cyc'.left} \ {NoRecord} :
        /\ rec \in Record
        /\ rec.reason # "market_volatile" =>
             rec.close \in 1 .. Last' /\ rec.last = closes'[rec.close].at
    BY <1>1 DEF Dated
<1>4. /\ closes' \in Seq([kind : Kinds, at : Nat]) /\ Last' <= MaxCloses
      /\ enabled' \in BOOLEAN
    BY <1>2 DEF TypeOK
<1> QED BY <1>2, <1>3, <1>4 DEF TypeOK

\* How a cycle goes on: with the same time and configuration, and what it knew.
LEMMA IdleIsCycle ==
    Idle \in Cycles /\ Idle.at = 0 /\ Idle.seen = 0 /\ Idle.left = NoRecord /\ Idle.pc = "idle"
BY Zenon DEF Cycles, Idle

LEMMA LookedIsCycle ==
    ASSUME cyc \in Cycles, NEW out \in BOOLEAN, NEW left \in Record \cup {NoRecord},
           NEW streak \in Record \cup {NoRecord}, Last \in Nat
    PROVE  LET c == Looked(out, left, streak)
           IN  /\ c \in Cycles /\ c.pc = "looked" /\ c.at = cyc.at /\ c.seen = Last
               /\ c.enabled = cyc.enabled /\ c.out = out
               /\ c.left = IF left # NoRecord THEN left ELSE streak
<1>1. ASSUME NEW Flags, NEW Lefts, NEW o \in Flags, NEW l \in Lefts, NEW n \in Nat,
             NEW c \in [pc : {"idle", "begun", "looked", "picked"}, at : Nat, enabled : Flags,
                        out : Flags, seen : Nat, left : Lefts, forgotten : Flags]
      PROVE  LET d == [c EXCEPT !.pc = "looked", !.out = o, !.seen = n, !.left = l]
             IN  /\ d \in [pc : {"idle", "begun", "looked", "picked"}, at : Nat, enabled : Flags,
                            out : Flags, seen : Nat, left : Lefts, forgotten : Flags]
                 /\ d.pc = "looked" /\ d.at = c.at /\ d.seen = n
                 /\ d.enabled = c.enabled /\ d.out = o /\ d.left = l
    OBVIOUS
<1> DEFINE l == IF left # NoRecord THEN left ELSE streak
<1>2. l \in Record \cup {NoRecord}
    OBVIOUS
<1>3. Looked(out, left, streak) = [cyc EXCEPT !.pc = "looked", !.out = out, !.seen = Last, !.left = l]
    BY Zenon DEF Looked
<1> HIDE DEF l
<1>4. LET d == [cyc EXCEPT !.pc = "looked", !.out = out, !.seen = Last, !.left = l]
      IN  /\ d \in Cycles /\ d.pc = "looked" /\ d.at = cyc.at /\ d.seen = Last
          /\ d.enabled = cyc.enabled /\ d.out = out /\ d.left = l
    BY <1>1, <1>2, Zenon DEF Cycles
<1> QED BY <1>3, <1>4, Zenon DEF l

\* It also may only move on, or only forget.
LEMMA OtherCycles ==
    ASSUME cyc \in Cycles,
           NEW c, c = [cyc EXCEPT !.pc = "picked"] \/ c = [cyc EXCEPT !.forgotten = TRUE]
    PROVE  /\ c \in Cycles /\ c.at = cyc.at /\ c.seen = cyc.seen
           /\ c.enabled = cyc.enabled /\ c.out = cyc.out /\ c.left = cyc.left
<1>1. ASSUME NEW Flags, NEW Lefts, NEW f \in Flags,
             NEW e \in [pc : {"idle", "begun", "looked", "picked"}, at : Nat, enabled : Flags,
                        out : Flags, seen : Nat, left : Lefts, forgotten : Flags],
             NEW d, d = [e EXCEPT !.pc = "picked"] \/ d = [e EXCEPT !.forgotten = f]
      PROVE  /\ d \in [pc : {"idle", "begun", "looked", "picked"}, at : Nat, enabled : Flags,
                        out : Flags, seen : Nat, left : Lefts, forgotten : Flags]
             /\ d.at = e.at /\ d.seen = e.seen
             /\ d.enabled = e.enabled /\ d.out = e.out /\ d.left = e.left
  <2>1. CASE d = [e EXCEPT !.pc = "picked"]
      BY <2>1
  <2>2. CASE d = [e EXCEPT !.forgotten = f]
      BY <2>2
  <2> QED BY <1>1, <2>1, <2>2
<1>2. TRUE \in BOOLEAN
    OBVIOUS
<1> QED BY <1>1, <1>2, Zenon DEF Cycles

LEMMA PickedFields ==
    ASSUME cyc \in Cycles
    PROVE  /\ [cyc EXCEPT !.pc = "picked"].pc = "picked"
           /\ [cyc EXCEPT !.pc = "picked"].forgotten = cyc.forgotten
           /\ [cyc EXCEPT !.forgotten = TRUE].forgotten
           /\ [cyc EXCEPT !.forgotten = TRUE].pc = cyc.pc
<1>1. ASSUME NEW Flags, NEW Lefts, NEW f \in Flags,
             NEW e \in [pc : {"idle", "begun", "looked", "picked"}, at : Nat, enabled : Flags,
                        out : Flags, seen : Nat, left : Lefts, forgotten : Flags]
      PROVE  /\ [e EXCEPT !.pc = "picked"].pc = "picked"
             /\ [e EXCEPT !.pc = "picked"].forgotten = e.forgotten
             /\ [e EXCEPT !.forgotten = f].forgotten = f
             /\ [e EXCEPT !.forgotten = f].pc = e.pc
    OBVIOUS
<1>2. TRUE \in BOOLEAN
    OBVIOUS
<1> QED BY <1>1, <1>2, Zenon DEF Cycles

LEMMA TypesInit == Init => TypeOK
<1> SUFFICES ASSUME Init PROVE TypeOK
    OBVIOUS
<1>1. cyc \in Cycles /\ cyc.at = 0 /\ cyc.seen = 0 /\ cyc.left = NoRecord
    BY IdleIsCycle DEF Init
<1> QED BY <1>1, CooldownAssumption DEF Init, TypeOK, Last

\* The brake arms records of the last close, of which it saves copies.
LEMMA LooksTyped ==
    ASSUME TypeOK, Looks
    PROVE  TypeOK'
<1>0. /\ now \in 0 .. MaxTime /\ now \in Nat /\ cyc.at \in Nat /\ cyc.at <= now /\ Last \in Nat
      /\ Dated(cool) /\ Dated(snap) /\ Dated(file) /\ cyc \in Cycles
    BY TypeOKParts, TypedIsTimed, CooldownAssumption DEF Times
<1> DEFINE streak == AfterStreak(Standing, cyc.at)
<1>1. Dated(Standing)
    BY <1>0, PrunedDated DEF Standing
<1>2. Dated(streak)
    BY <1>0, <1>1, StreakDated
<1>3. /\ UNCHANGED <<now, closes, enabled>>
      /\ cool' \in {Braked(streak), Braked(Pruned(streak, now)), Standing}
      /\ SavedAs(Pruned(Standing, now)) \/ SavedAs(Pruned(streak, now)) \/ Unsaved
      /\ \E last \in {streak, Standing} : cyc' = Looked(cool' # NoRecord, cool', last)
    BY LooksParts
<1> HIDE DEF streak
<1>4. Dated(Pruned(streak, now)) /\ Dated(Pruned(Standing, now))
    BY <1>1, <1>2, PrunedDated
<1>5. Dated(cool')
    BY <1>1, <1>2, <1>3, <1>4, BrakedDated
<1>6. Dated(snap') /\ Dated(file')
    BY <1>0, <1>3, <1>4, CopiesDated
<1>7. PICK last \in {streak, Standing} : cyc' = Looked(cool' # NoRecord, cool', last)
    BY <1>3
<1>8. Dated(last)
    BY <1>1, <1>2, <1>7
<1>9. cool' \in Record \cup {NoRecord} /\ last \in Record \cup {NoRecord}
    BY <1>5, <1>8 DEF Dated
<1>10. (cool' # NoRecord) \in BOOLEAN
    OBVIOUS
<1>11. /\ cyc' \in Cycles /\ cyc'.at = cyc.at /\ cyc'.seen = Last
       /\ cyc'.left = IF cool' # NoRecord THEN cool' ELSE last
    BY <1>0, <1>7, <1>9, <1>10, LookedIsCycle, Zenon
<1>12. Dated(cyc'.left)
    BY <1>5, <1>8, <1>11, Zenon
<1> QED BY <1>0, <1>3, <1>5, <1>6, <1>11, <1>12, TypesByParts

LEMMA PicksTyped ==
    ASSUME TypeOK, NEW answered \in BOOLEAN, NEW fixed \in BOOLEAN, Picks(answered, fixed)
    PROVE  TypeOK'
<1>0. /\ now \in 0 .. MaxTime /\ now \in Nat /\ cyc.at <= now /\ Last \in Nat /\ cyc.seen <= Last
      /\ Dated(cool) /\ Dated(snap) /\ Dated(file) /\ Dated(cyc.left) /\ cyc \in Cycles
    BY TypeOKParts, TypedIsTimed, CooldownAssumption
<1>1. cool' \in {Standing, cool} /\ UNCHANGED <<now, closes, enabled, snap, file>>
    BY DEF Picks
<1>2. cyc' \in {Idle, [cyc EXCEPT !.pc = "picked"]}
    BY DEF Picks
<1>3. Dated(cool')
    BY <1>0, <1>1, PrunedDated DEF Standing
<1>4. cyc' \in Cycles /\ cyc'.at <= now /\ cyc'.seen <= Last /\ Dated(cyc'.left)
  <2>1. CASE cyc' = Idle
      BY <1>0, <2>1, IdleIsCycle, NothingIsDated
  <2>2. CASE cyc' = [cyc EXCEPT !.pc = "picked"]
    <3>1. cyc' \in Cycles /\ cyc'.at = cyc.at /\ cyc'.seen = cyc.seen /\ cyc'.left = cyc.left
        BY <1>0, <2>2, OtherCycles, Zenon
    <3> QED BY <1>0, <3>1
  <2> QED BY <1>2, <2>1, <2>2
<1> QED BY <1>0, <1>1, <1>3, <1>4, TypesByParts

LEMMA VolatileTyped ==
    ASSUME TypeOK, TurnsVolatile
    PROVE  TypeOK'
<1>0. /\ now \in 0 .. MaxTime /\ now \in Nat /\ cyc.at \in Nat /\ Last \in Nat
      /\ Dated(snap) /\ Dated(file)
    BY TypeOKParts, TypedIsTimed, CooldownAssumption DEF Times
<1> DEFINE rec == [reason |-> "market_volatile", close |-> cyc.at, losses |-> 0,
                   last |-> cyc.at, until |-> cyc.at + VolatileFor]
<1>1. Dated(rec)
  <2>1. rec \in Record
      BY <1>0, CooldownAssumption DEF Record, Reasons
  <2>2. rec.reason = "market_volatile"
      OBVIOUS
  <2> HIDE DEF rec
  <2> QED BY <2>1, <2>2 DEF Dated
<1>2. SavesAfter(rec) \/ (cool' = rec /\ Unsaved)
    BY DEF TurnsVolatile
<1> HIDE DEF rec
<1>3. Dated(cool') /\ Dated(snap') /\ Dated(file')
    BY <1>0, <1>1, <1>2, SavesDated DEF Unsaved
<1>4. cyc' = Idle /\ UNCHANGED <<now, closes, enabled>>
    BY DEF TurnsVolatile
<1> QED BY <1>0, <1>3, <1>4, IdleIsCycle, NothingIsDated, TypesByParts

\* The log only grows, so records stay of closes that are in it.
LEMMA ClosesTyped ==
    ASSUME TypeOK, NEW kind \in Kinds, Closes(kind)
    PROVE  TypeOK'
<1>0. /\ now \in 0 .. MaxTime /\ now \in Nat /\ Last \in Nat /\ closes \in Seq(Close)
      /\ MaxCloses \in Nat
    BY TypeOKParts, TypedIsTimed, CooldownAssumption
<1> DEFINE new == [kind |-> kind, at |-> now]
<1>1. new \in Close
    BY <1>0 DEF Close
<1>2. closes' = Append(closes, new) /\ Last < MaxCloses
    BY DEF Closes
<1> HIDE DEF new
<1>3. /\ closes' \in Seq(Close) /\ Len(closes') = Last + 1
      /\ \A n \in 1 .. Last : closes'[n] = closes[n]
  <2> HIDE DEF Close
  <2> QED BY <1>0, <1>1, <1>2 DEF Last
<1>4. Last' = Last + 1 /\ Last' <= MaxCloses
    BY <1>0, <1>2, <1>3 DEF Last
<1>5. ASSUME NEW rec \in {cool, snap, file, cyc.left} \ {NoRecord}
      PROVE  /\ rec \in Record
             /\ rec.reason # "market_volatile" =>
                  rec.close \in 1 .. Last' /\ rec.last = closes'[rec.close].at
    BY <1>0, <1>3, <1>4 DEF TypeOK
<1>6. UNCHANGED <<now, enabled, cool, snap, file, cyc>>
    BY DEF Closes
<1>7. /\ now' \in 0 .. MaxTime /\ enabled' \in BOOLEAN
      /\ cyc' \in Cycles
      /\ cyc'.at <= now' /\ cyc'.seen <= Last'
  <2>1. cyc' = cyc /\ enabled' = enabled /\ now' = now
      BY <1>6
  <2>2. enabled \in BOOLEAN /\ cyc \in Cycles /\ cyc.at <= now /\ cyc.seen <= Last /\ cyc.seen \in Nat
      BY TypeOKParts DEF Cycles
  <2>3. cyc'.seen <= Last'
      BY <1>0, <1>4, <2>1, <2>2
  <2> QED BY <1>0, <2>1, <2>2, <2>3
<1>8. closes' \in Seq([kind : Kinds, at : Nat])
    BY <1>3 DEF Close
<1> QED BY <1>4, <1>5, <1>6, <1>7, <1>8 DEF TypeOK

LEMMA TypesStep == TypeOK /\ [Next]_vars => TypeOK'
<1> SUFFICES ASSUME TypeOK, [Next]_vars PROVE TypeOK'
    OBVIOUS
<1>0. /\ now \in 0 .. MaxTime /\ now \in Nat /\ Last \in Nat /\ MaxTime \in Nat
      /\ enabled \in BOOLEAN
      /\ Dated(cool) /\ Dated(snap) /\ Dated(file) /\ Dated(cyc.left)
      /\ cyc \in Cycles
      /\ cyc.at <= now /\ cyc.seen <= Last
    BY TypeOKParts, TypedIsTimed, CooldownAssumption
\* What holds of the record in memory and of the cycle when the rest stays.
<1>1. ASSUME UNCHANGED <<closes, enabled>>, now' = now, Dated(cool'), Dated(snap'), Dated(file'),
             cyc' \in {cyc, Idle}
      PROVE  TypeOK'
  <2>1. cyc' \in Cycles /\ cyc'.at <= now /\ cyc'.seen <= Last /\ Dated(cyc'.left)
    <3>1. CASE cyc' = Idle
        BY <1>0, <3>1, IdleIsCycle, NothingIsDated
    <3>2. CASE cyc' = cyc
        BY <1>0, <3>2
    <3> QED BY <1>1, <3>1, <3>2
  <2> QED BY <1>0, <1>1, <2>1, TypesByParts
<1>2. CASE CycleBegins
  <2>1. cool' = Pruned(cool, now) \/ cool' = NoRecord
      BY <1>2 DEF CycleBegins
  <2>2. Dated(cool')
      BY <1>0, <2>1, PrunedDated, NothingIsDated
  <2>3. cyc' = [Idle EXCEPT !.pc = "begun", !.at = now, !.enabled = enabled]
      BY <1>2 DEF CycleBegins
  <2>4. cyc' = [pc |-> "begun", at |-> now, enabled |-> enabled, out |-> FALSE,
                seen |-> 0, left |-> NoRecord, forgotten |-> FALSE]
      BY <2>3 DEF Idle
  <2>5. cyc' \in Cycles
      BY <1>0, <2>4, Zenon DEF Cycles
  <2>6. cyc'.at <= now /\ cyc'.seen <= Last /\ Dated(cyc'.left)
    <3>1. cyc'.at = now /\ cyc'.seen = 0 /\ cyc'.left = NoRecord
        BY <2>4
    <3> QED BY <1>0, <3>1, NothingIsDated
  <2>7. UNCHANGED <<now, closes, enabled, snap, file>>
      BY <1>2 DEF CycleBegins
  <2> QED BY <1>0, <2>2, <2>5, <2>6, <2>7, TypesByParts
<1>3. CASE CycleSkips \/ Enters
    BY <1>0, <1>1, <1>3 DEF CycleSkips, Enters
<1>4. CASE Saves
    BY <1>0, <1>1, <1>4, SavesDated DEF Saves
<1>5. CASE Clears
  <2>1. cool' = NoRecord /\ (SavedAs(NoRecord) \/ Unsaved) /\ UNCHANGED <<now, closes, enabled>>
      BY <1>5 DEF Clears
  <2>2. Dated(cool') /\ Dated(snap') /\ Dated(file')
      BY <1>0, <2>1, NothingIsDated, CopiesDated
  <2>3. cyc' = Idle \/ cyc' = [cyc EXCEPT !.forgotten = TRUE]
      BY <1>5 DEF Clears
  <2>4. CASE cyc' = Idle
      BY <1>1, <2>1, <2>2, <2>4
  <2>5. CASE cyc' = [cyc EXCEPT !.forgotten = TRUE]
    <3>1. cyc' \in Cycles /\ cyc'.at = cyc.at /\ cyc'.seen = cyc.seen /\ cyc'.left = cyc.left
        BY <1>0, <2>5, OtherCycles, Zenon
    <3> QED BY <1>0, <2>1, <2>2, <3>1, TypesByParts
  <2> QED BY <2>3, <2>4, <2>5
<1>6. CASE Toggles
  <2>1. enabled' \in BOOLEAN /\ UNCHANGED <<now, closes, cool, snap, file, cyc>>
      BY <1>6 DEF Toggles
  <2> QED BY <2>1 DEF TypeOK, Last
<1>7. CASE Restarts
  <2>1. cool' = snap \/ cool' = file
      BY <1>7 DEF Restarts
  <2> QED BY <1>0, <1>1, <1>7, <2>1 DEF Restarts
<1>8. CASE Tick
  <2>1. now' \in 0 .. MaxTime /\ now <= now'
      BY <1>0, <1>8 DEF Tick
  <2>2. UNCHANGED <<closes, enabled, cool, snap, file, cyc>>
      BY <1>8 DEF Tick
  <2>3. cyc.at \in Nat
      BY <1>0 DEF Cycles
  <2>4. cyc'.at <= now' /\ cyc'.seen <= Last /\ cyc'.left = cyc.left /\ cyc' \in Cycles
      BY <1>0, <2>1, <2>2, <2>3
  <2> QED BY <2>4, <1>0, <2>1, <2>2, <2>3, TypesByParts
<1>9. CASE UNCHANGED vars
    BY <1>0, <1>1, <1>9 DEF vars
<1> QED
    BY <1>2, <1>3, <1>4, <1>5, <1>6, <1>7, <1>8, <1>9, LooksTyped, PicksTyped, VolatileTyped, ClosesTyped
       DEF Next, Cycle

\* Every variable keeps its type: a record is of a close that is in the log, in memory and
\* in every copy that may come back (risk_cooldown.py, state_ops.py).
THEOREM CooldownTypes == Spec => []TypeOK
BY TypesInit, TypesStep, PTL DEF Spec
-----------------------------------------------------------------------------
(* No entry into a loss.                                                    *)

\* A streak must not be too old for its record before it is too old to be armed for: the
\* window is six hours unless someone sets it, and so is max_age_sec (main.py:6406,
\* risk_cooldown.py:45).  With a wider window the record is armed and dropped in one cycle.
WindowWithinAge == StreakWindow <= MaxAge

\* A record that is not pruned at a time.
Stands(rec, t) == rec # NoRecord /\ t < rec.until /\ (rec.reason = "loss_streak" => t <= rec.last + MaxAge)

\* The record of a fresh loss stood when the cycle had looked, and it is there still and
\* excludes the symbol, or it ran out, or was forgotten.
Held ==
    (cyc.pc \in {"looked", "picked"} /\ cyc.enabled /\ cyc.seen > 0 /\ Fresh(cyc.seen, cyc.at)) =>
      /\ cyc.left # NoRecord /\ cyc.left.close = cyc.seen /\ Stands(cyc.left, cyc.at)
      /\ \/ cyc.forgotten
         \/ RanOut(cyc.left, cyc.at, now)
         \/ cyc.pc = "looked" /\ cyc.out /\ cool = cyc.left

\* What such a cycle has not seen was closed after its head.
UnseenIsLater ==
    cyc.pc \in {"looked", "picked"} => \A n \in cyc.seen + 1 .. Last : cyc.at <= closes[n].at

PassInv == TypeOK /\ Held /\ UnseenIsLater

LEMMA PrunedOrStands ==
    ASSUME NEW rec, Dated(rec), NEW t \in Nat
    PROVE  /\ Pruned(rec, t) \in {rec, NoRecord}
           /\ Pruned(rec, t) # NoRecord <=> Stands(rec, t)
<1>1. CASE rec = NoRecord
    BY <1>1 DEF Pruned, Stands
<1>2. CASE rec # NoRecord
  <2>1. rec.until \in Nat /\ rec.last \in Nat /\ MaxAge \in Nat
      BY <1>2, CooldownAssumption DEF Dated, Record
  <2> QED BY <1>2, <2>1 DEF Pruned, Stands
<1> QED BY <1>1, <1>2

\* What a save prunes of what stood has run out since.
LEMMA DroppedRanOut ==
    ASSUME NEW rec, Dated(rec), NEW from \in Nat, NEW to \in Nat, Stands(rec, from), Pruned(rec, to) = NoRecord
    PROVE  RanOut(rec, from, to)
<1>1. rec.until \in Nat /\ rec.last \in Nat /\ MaxAge \in Nat
    BY CooldownAssumption DEF Dated, Record, Stands
<1>2. rec.until <= to \/ (rec.reason = "loss_streak" /\ to > rec.last + MaxAge)
    BY DEF Pruned, Stands
<1> QED BY <1>1, <1>2 DEF Stands, RanOut

\* What has run out stays so.
LEMMA RanOutStays ==
    ASSUME NEW rec, Dated(rec), rec # NoRecord, NEW from \in Nat, NEW to \in Nat, NEW later \in Nat,
           to <= later, RanOut(rec, from, to)
    PROVE  RanOut(rec, from, later)
<1>1. rec.until \in Nat /\ rec.last \in Nat /\ MaxAge \in Nat
    BY CooldownAssumption DEF Dated, Record
<1> QED BY <1>1 DEF RanOut

\* What is armed outlives the time at which it is armed.
LEMMA ArmedStands ==
    ASSUME TypeOK, NEW t \in Nat, Last > 0
    PROVE  /\ Stands(Armed("big_loss", BigFor, t), t)
           /\ Armed("big_loss", BigFor, t).close = Last
           /\ Armed("loss_streak", StreakFor, t).close = Last
           /\ (WindowWithinAge /\ t <= closes[Last].at + StreakWindow) =>
                Stands(Armed("loss_streak", StreakFor, t), t)
<1>0. /\ BigFor \in Nat /\ BigFor > 0 /\ StreakFor \in Nat /\ StreakFor > 0
      /\ StreakWindow \in Nat /\ MaxAge \in Nat
    BY CooldownAssumption
<1>1. closes[Last].at \in Nat
    BY TypedIsTimed, LastClose DEF Last
<1> DEFINE big == Armed("big_loss", BigFor, t)
           streak == Armed("loss_streak", StreakFor, t)
<1>2. big.reason = "big_loss" /\ big.until = t + BigFor /\ big.close = Last
    BY DEF Armed
<1>3. /\ streak.reason = "loss_streak" /\ streak.until = t + StreakFor
      /\ streak.last = closes[Last].at /\ streak.close = Last
    BY DEF Armed
<1>4. NoRecord.reason = "none"
    BY DEF NoRecord
<1> HIDE DEF big, streak
<1>5. Stands(big, t)
    BY <1>0, <1>2, <1>4 DEF Stands
<1>6. ASSUME WindowWithinAge, t <= closes[Last].at + StreakWindow
      PROVE  Stands(streak, t)
    BY <1>0, <1>1, <1>3, <1>4, <1>6 DEF Stands, WindowWithinAge
<1> QED BY <1>2, <1>3, <1>5, <1>6 DEF big, streak

\* Of a fresh streak a record stands once it was looked for: the one that is armed, or an
\* older one of the same losses.
LEMMA StreakStands ==
    ASSUME TypeOK, WindowWithinAge, Last > 0, FreshStreak(Last, cyc.at)
    PROVE  LET streak == AfterStreak(Standing, cyc.at)
           IN  Dated(streak) /\ Stands(streak, cyc.at) /\ streak.close = Last
<1> DEFINE streak == AfterStreak(Standing, cyc.at)
           new    == Armed("loss_streak", StreakFor, cyc.at)
<1>0. cyc.at \in Nat /\ Dated(Standing)
    BY TypeOKParts, TypedIsTimed, PrunedDated DEF Times, Standing
<1>1. Losses >= Streak /\ Recent(StreakWindow, cyc.at) /\ cyc.at <= closes[Last].at + StreakWindow
    BY LossesAreSeen DEF FreshStreak, Recent
<1>2. Stands(new, cyc.at) /\ new.close = Last
    BY <1>0, <1>1, ArmedStands
<1>3. Standing # NoRecord => Stands(Standing, cyc.at)
  <2>1. Dated(cool)
      BY TypeOKParts
  <2> QED BY <1>0, <2>1, PrunedOrStands DEF Standing
<1>4. Dated(streak)
    BY <1>0, StreakDated
<1>5. \/ streak = new
      \/ streak = Standing /\ Standing # NoRecord /\ Standing.close = new.close
    BY <1>1, Zenon DEF AfterStreak, SameLoss
<1> HIDE DEF streak, new
<1>6. Stands(streak, cyc.at) /\ streak.close = Last
    BY <1>2, <1>3, <1>5
<1> QED BY <1>4, <1>6 DEF streak

\* What is left of a record when a big loss was looked for: the record of that loss, or
\* what stood of the one before.
LEMMA BrakedStands ==
    ASSUME TypeOK, NEW rec, Dated(rec)
    PROVE  /\ Dated(Braked(rec)) /\ (Braked(rec) # NoRecord => Stands(Braked(rec), cyc.at))
           /\ (Last > 0 /\ FreshBig(Last, cyc.at)) => Braked(rec) # NoRecord /\ Braked(rec).close = Last
           /\ Stands(rec, cyc.at) =>
                Braked(rec) # NoRecord /\ (Braked(rec) = rec \/ Braked(rec).close = Last)
<1> DEFINE old == Pruned(rec, cyc.at)
           new == Armed("big_loss", BigFor, cyc.at)
           big == AfterBigLoss(old, cyc.at)
<1>0. cyc.at \in Nat /\ Dated(old)
    BY TypeOKParts, TypedIsTimed, PrunedDated DEF Times
<1>1. Dated(big) /\ Dated(Braked(rec)) /\ Braked(rec) = Pruned(big, cyc.at)
  <2>1. Braked(rec) = Pruned(big, cyc.at)
      BY DEF Braked
  <2>2. Dated(big)
      BY <1>0, BigLossDated
  <2> HIDE DEF big
  <2> QED BY <2>1, <2>2, PrunedDated
<1>2. /\ old \in {rec, NoRecord} /\ (old # NoRecord <=> Stands(rec, cyc.at))
    BY <1>0, PrunedOrStands
<1>3. Last > 0 => Stands(new, cyc.at) /\ new.close = Last
    BY <1>0, ArmedStands
<1>4. big = old \/ (Last > 0 /\ big = new)
  <2> HIDE DEF old
  <2> QED BY DEF AfterBigLoss, BigRecent, Recent
<1>5. (Last > 0 /\ FreshBig(Last, cyc.at)) =>
         big = new \/ (big = old /\ old # NoRecord /\ old.close = new.close)
  <2>1. (Last > 0 /\ FreshBig(Last, cyc.at)) => closes[Last].kind = "big" /\ BigRecent(cyc.at)
      BY DEF FreshBig, BigRecent, Recent
  <2> HIDE DEF old
  <2> QED BY <2>1, Zenon DEF AfterBigLoss, SameLoss
<1> HIDE DEF old, new, big
<1>6. /\ Braked(rec) \in {big, NoRecord} /\ (Braked(rec) # NoRecord <=> Stands(big, cyc.at))
    BY <1>0, <1>1, PrunedOrStands
<1>7. Braked(rec) # NoRecord => Stands(Braked(rec), cyc.at)
    BY <1>6
<1>8. (Last > 0 /\ FreshBig(Last, cyc.at)) => Braked(rec) # NoRecord /\ Braked(rec).close = Last
    BY <1>2, <1>3, <1>5, <1>6
<1>9. Stands(rec, cyc.at) => Braked(rec) # NoRecord /\ (Braked(rec) = rec \/ Braked(rec).close = Last)
    BY <1>2, <1>3, <1>4, <1>6
<1> QED BY <1>1, <1>7, <1>8, <1>9

LEMMA PassInit == Init => PassInv
BY TypesInit DEF Init, PassInv, Held, UnseenIsLater, Idle

\* The cycle that looks takes the time of its head and all closes that are logged.
LEMMA LooksHolds ==
    ASSUME WindowWithinAge, TypeOK, Looks
    PROVE  Held'
<1>0. /\ cyc \in Cycles /\ cyc.at \in Nat /\ Last \in Nat /\ now \in Nat /\ Dated(cool)
    BY TypeOKParts, TypedIsTimed, CooldownAssumption DEF Times
<1> DEFINE streak == AfterStreak(Standing, cyc.at)
           saved  == Pruned(streak, now)
<1>1. Dated(Standing) /\ Dated(streak) /\ Dated(saved)
  <2>1. Dated(Standing)
      BY <1>0, PrunedDated DEF Standing
  <2>2. Dated(streak)
      BY <1>0, <2>1, StreakDated
  <2> HIDE DEF streak
  <2> QED BY <2>1, <2>2, PrunedDated
<1>2. /\ UNCHANGED <<now, closes, enabled>>
      /\ \/ /\ cyc.enabled
            /\ cool' \in {Braked(streak), Braked(saved)}
            /\ cyc' = Looked(cool' # NoRecord, cool', streak)
         \/ /\ ~cyc.enabled
            /\ cool' = Standing
            /\ cyc' = Looked(cool' # NoRecord, cool', Standing)
    BY LooksParts
<1>3. (Last > 0 /\ FreshStreak(Last, cyc.at)) => Stands(streak, cyc.at) /\ streak.close = Last
    BY StreakStands
<1>4. saved \in {streak, NoRecord}
    BY DEF Pruned
<1>5. saved = NoRecord /\ Stands(streak, cyc.at) => RanOut(streak, cyc.at, now)
    BY <1>0, <1>1, DroppedRanOut
<1> HIDE DEF streak, saved
<1>6. Fresh(cyc.seen, cyc.at)' <=> Fresh(cyc'.seen, cyc'.at)
  <2>1. closes' = closes
      BY <1>2
  <2>2. SeenLosses(cyc.seen)' = SeenLosses(cyc'.seen)
      BY <2>1 DEF SeenLosses, Lost
  <2> QED BY <2>1, <2>2 DEF Fresh, FreshBig, FreshStreak
<1>7. CASE ~cyc.enabled
  <2>1. cyc' = Looked(cool' # NoRecord, cool', Standing) /\ cool' = Standing
      BY <1>2, <1>7
  <2>2. cool' \in Record \cup {NoRecord} /\ Standing \in Record \cup {NoRecord} /\ (cool' # NoRecord) \in BOOLEAN
      BY <1>1, <2>1 DEF Dated
  <2>3. cyc'.enabled = cyc.enabled
      BY <1>0, <2>1, <2>2, LookedIsCycle, Zenon
  <2> QED BY <1>7, <2>3, Zenon DEF Held
<1>8. CASE cyc.enabled
  <2>1. cool' \in {Braked(streak), Braked(saved)} /\ cyc' = Looked(cool' # NoRecord, cool', streak)
      BY <1>2, <1>8
  <2>2. Dated(cool')
      BY <1>1, <2>1, BrakedDated
  <2>3. cool' \in Record \cup {NoRecord} /\ streak \in Record \cup {NoRecord} /\ (cool' # NoRecord) \in BOOLEAN
      BY <1>1, <2>2 DEF Dated
  <2>4. /\ cyc'.pc = "looked" /\ cyc'.at = cyc.at /\ cyc'.seen = Last
        /\ cyc'.out = (cool' # NoRecord)
        /\ cyc'.left = IF cool' # NoRecord THEN cool' ELSE streak
      BY <1>0, <2>1, <2>3, LookedIsCycle, Zenon
  <2>5. ASSUME Last > 0, Fresh(Last, cyc.at)
        PROVE  /\ cyc'.left # NoRecord /\ cyc'.left.close = Last /\ Stands(cyc'.left, cyc.at)
               /\ RanOut(cyc'.left, cyc.at, now) \/ (cyc'.out /\ cool' = cyc'.left)
    <3>1. PICK rec \in {streak, saved} : cool' = Braked(rec)
        BY <2>1
    <3>2. Dated(rec)
        BY <1>1, <3>1
    <3>3. CASE cool' # NoRecord
      <4>1. Stands(cool', cyc.at)
          BY <3>1, <3>2, <3>3, BrakedStands
      <4>2. cool'.close = Last
        <5>1. CASE FreshBig(Last, cyc.at)
            BY <2>5, <3>1, <3>2, <5>1, BrakedStands
        <5>2. CASE FreshStreak(Last, cyc.at) /\ ~FreshBig(Last, cyc.at)
          <6>1. streak.close = Last /\ Stands(streak, cyc.at)
              BY <1>3, <2>5, <5>2
          <6>2. CASE rec = streak
              BY <3>1, <3>2, <6>1, <6>2, BrakedStands
          <6>3. CASE rec = NoRecord
            <7>1. Braked(NoRecord) \in {NoRecord, Armed("big_loss", BigFor, cyc.at)}
                BY DEF Braked, AfterBigLoss, Pruned
            <7> QED BY <1>0, <2>5, <3>1, <3>3, <6>3, <7>1, ArmedStands
          <6> QED BY <1>4, <3>1, <6>2, <6>3
        <5> QED BY <2>5, <5>1, <5>2 DEF Fresh
      <4>3. cyc'.left = cool' /\ cyc'.out
          BY <2>4, <3>3, Zenon
      <4> QED BY <3>3, <4>1, <4>2, <4>3
    <3>4. CASE cool' = NoRecord
      <4>1. ~FreshBig(Last, cyc.at)
          BY <2>5, <3>1, <3>2, <3>4, BrakedStands
      <4>2. Stands(streak, cyc.at) /\ streak.close = Last
          BY <1>3, <2>5, <4>1 DEF Fresh
      <4>3. rec # streak
          BY <3>1, <3>2, <3>4, <4>2, BrakedStands
      <4>4. saved = NoRecord
          BY <1>4, <3>1, <4>3
      <4>5. RanOut(streak, cyc.at, now)
          BY <1>5, <4>2, <4>4
      <4>6. cyc'.left = streak
          BY <2>4, <3>4, Zenon
      <4> QED BY <4>2, <4>5, <4>6 DEF Stands
    <3> QED BY <3>3, <3>4
  <2>6. now' = now
      BY <1>2
  <2>7. ASSUME cyc'.seen > 0, Fresh(cyc.seen, cyc.at)'
        PROVE  /\ cyc'.left # NoRecord /\ cyc'.left.close = cyc'.seen /\ Stands(cyc'.left, cyc'.at)
               /\ RanOut(cyc'.left, cyc'.at, now') \/ (cyc'.pc = "looked" /\ cyc'.out /\ cool' = cyc'.left)
    <3>1. Last > 0 /\ Fresh(Last, cyc.at)
        BY <1>6, <2>4, <2>7
    <3> QED BY <2>4, <2>5, <2>6, <3>1, Zenon
  <2> QED BY <2>7, Zenon DEF Held, Stands, RanOut
<1> QED BY <1>7, <1>8

\* The excluded symbol is not picked as long as the record stands in memory.
LEMMA PicksHolds ==
    ASSUME PassInv, NEW answered \in BOOLEAN, NEW fixed \in BOOLEAN, Picks(answered, fixed)
    PROVE  Held'
<1>0. cyc \in Cycles /\ cyc.at \in Nat /\ Dated(cool)
    BY TypeOKParts, TypedIsTimed DEF PassInv, Times
<1>1. CASE cyc' = Idle
    BY <1>1, IdleIsCycle DEF Held
<1>2. CASE cyc' # Idle
  <2>1. /\ cyc.pc = "looked" /\ UNCHANGED <<now, closes>>
        /\ ~(answered /\ cyc.out) /\ ~((fixed \/ ~answered) /\ Standing # NoRecord)
        /\ cyc' = [cyc EXCEPT !.pc = "picked"]
      BY <1>2, Zenon DEF Picks
  <2>2. /\ cyc'.at = cyc.at /\ cyc'.seen = cyc.seen /\ cyc'.enabled = cyc.enabled /\ cyc'.left = cyc.left
        /\ cyc'.forgotten = cyc.forgotten
      BY <1>0, <2>1, OtherCycles, PickedFields, Zenon
  <2>3. Fresh(cyc.seen, cyc.at)' => Fresh(cyc.seen, cyc.at)
    <3>1. SeenLosses(cyc.seen)' = SeenLosses(cyc.seen)
        BY <2>1, <2>2 DEF SeenLosses, Lost
    <3> QED BY <2>1, <2>2, <3>1 DEF Fresh, FreshBig, FreshStreak
  <2>4. ~(cyc.out /\ cool = cyc.left /\ Stands(cyc.left, cyc.at))
    <3>1. SUFFICES ASSUME cyc.out, cool = cyc.left, Stands(cyc.left, cyc.at) PROVE FALSE
        OBVIOUS
    <3>2. Standing # NoRecord
        BY <1>0, <3>1, PrunedOrStands DEF Standing
    <3> QED BY <2>1, <3>1, <3>2, Zenon
  <2>5. ASSUME cyc'.enabled, cyc'.seen > 0, Fresh(cyc.seen, cyc.at)'
        PROVE  /\ cyc'.left # NoRecord /\ cyc'.left.close = cyc'.seen /\ Stands(cyc'.left, cyc'.at)
               /\ cyc'.forgotten \/ RanOut(cyc'.left, cyc'.at, now')
    <3>1. cyc.enabled /\ cyc.seen > 0 /\ Fresh(cyc.seen, cyc.at)
        BY <2>2, <2>3, <2>5, Zenon
    <3>2. /\ cyc.left # NoRecord /\ cyc.left.close = cyc.seen /\ Stands(cyc.left, cyc.at)
          /\ \/ cyc.forgotten
             \/ RanOut(cyc.left, cyc.at, now)
             \/ cyc.pc = "looked" /\ cyc.out /\ cool = cyc.left
        BY <2>1, <3>1, Zenon DEF PassInv, Held
    <3>3. cyc.forgotten \/ RanOut(cyc.left, cyc.at, now)
        BY <2>4, <3>2, Zenon
    <3>4. now' = now
        BY <2>1
    <3> QED BY <2>2, <3>2, <3>3, <3>4, Zenon
  <2> QED BY <2>5, Zenon DEF Held, Stands, RanOut
<1> QED BY <1>1, <1>2

\* While the cycle waits, the losses it has seen are as fresh as they were.
LEMMA FreshStays ==
    ASSUME PassInv, cyc.seen > 0, cyc'.seen = cyc.seen, cyc'.at = cyc.at,
           \A n \in 1 .. cyc.seen : closes'[n] = closes[n],
           Fresh(cyc.seen, cyc.at)'
    PROVE  Fresh(cyc.seen, cyc.at)
<1>0. cyc.seen \in Nat
    BY TypeOKParts DEF PassInv, Cycles
<1>1. closes'[cyc.seen] = closes[cyc.seen]
    BY <1>0
<1>2. PICK k \in Nat : k = cyc.seen
    BY <1>0
<1>3. SeenLosses(k)' = SeenLosses(k)
    BY <1>2, SeenLossesStay
<1>4. SeenLosses(cyc.seen)' = SeenLosses(cyc.seen)
    BY <1>2, <1>3 DEF SeenLosses, Lost
<1> QED BY <1>1, <1>4 DEF Fresh, FreshBig, FreshStreak

\* What is logged after the cycle has looked is not what it has seen.
LEMMA LogGrows ==
    ASSUME TypeOK, NEW kind \in Kinds, Closes(kind)
    PROVE  \A n \in 1 .. cyc.seen : closes'[n] = closes[n]
<1>0. closes \in Seq(Close) /\ cyc.seen \in Nat /\ cyc.seen <= Last /\ now \in Nat
    BY TypeOKParts, TypedIsTimed, CooldownAssumption DEF Cycles
<1>1. closes' = Append(closes, [kind |-> kind, at |-> now])
    BY DEF Closes
<1> DEFINE new == [kind |-> kind, at |-> now]
<1>2. new \in Close
    BY <1>0 DEF Close
<1> HIDE DEF new, Close
<1> QED BY <1>0, <1>1, <1>2 DEF Last, new

\* While the cycle waits its record is dropped by a save, or forgotten, or stays.
LEMMA WaitingHolds ==
    ASSUME PassInv, now' \in Nat, now <= now',
           \A n \in 1 .. cyc.seen : closes'[n] = closes[n],
           \/ cyc' = cyc /\ cool' \in {cool, Pruned(cool, now)}
           \/ cyc' = [cyc EXCEPT !.forgotten = TRUE]
    PROVE  Held'
<1>0. /\ cyc \in Cycles /\ cyc.at \in Nat /\ Dated(cool) /\ Dated(cyc.left) /\ now \in Nat
    BY TypeOKParts, TypedIsTimed DEF PassInv, Times
<1>1. /\ cyc'.at = cyc.at /\ cyc'.seen = cyc.seen /\ cyc'.enabled = cyc.enabled /\ cyc'.left = cyc.left
      /\ cyc'.out = cyc.out /\ cyc'.pc = cyc.pc
    BY <1>0, OtherCycles, PickedFields, Zenon
<1>2. \/ cyc'.forgotten
      \/ cyc'.forgotten = cyc.forgotten /\ cool' \in {cool, Pruned(cool, now)}
    BY <1>0, PickedFields, Zenon
<1>3. ASSUME cyc'.pc \in {"looked", "picked"}, cyc'.enabled, cyc'.seen > 0, Fresh(cyc.seen, cyc.at)'
      PROVE  /\ cyc'.left # NoRecord /\ cyc'.left.close = cyc'.seen /\ Stands(cyc'.left, cyc'.at)
             /\ \/ cyc'.forgotten
                \/ RanOut(cyc'.left, cyc'.at, now')
                \/ cyc'.pc = "looked" /\ cyc'.out /\ cool' = cyc'.left
  <2>1. cyc.seen > 0
      BY <1>1, <1>3
  <2>2. Fresh(cyc.seen, cyc.at)
      BY <1>1, <1>3, <2>1, FreshStays
  <2>3. /\ cyc.left # NoRecord /\ cyc.left.close = cyc.seen /\ Stands(cyc.left, cyc.at)
        /\ \/ cyc.forgotten
           \/ RanOut(cyc.left, cyc.at, now)
           \/ cyc.pc = "looked" /\ cyc.out /\ cool = cyc.left
      BY <1>1, <1>3, <2>1, <2>2, Zenon DEF PassInv, Held
  <2>4. RanOut(cyc.left, cyc.at, now) => RanOut(cyc.left, cyc.at, now')
      BY <1>0, <2>3, RanOutStays
  <2>5. (cool = cyc.left /\ Pruned(cool, now) = NoRecord) => RanOut(cyc.left, cyc.at, now)
      BY <1>0, <2>3, DroppedRanOut
  <2>6. Pruned(cool, now) \in {cool, NoRecord}
      BY <1>0, PrunedOrStands
  <2>7. cool = cyc.left =>
          \/ cyc'.forgotten
          \/ cyc'.forgotten = cyc.forgotten /\ (cool' = cool \/ RanOut(cyc.left, cyc.at, now'))
      BY <1>2, <2>4, <2>5, <2>6, Zenon
  <2>8. \/ cyc'.forgotten
        \/ RanOut(cyc.left, cyc.at, now')
        \/ cyc.pc = "looked" /\ cyc.out /\ cool' = cyc.left
      BY <1>2, <2>3, <2>4, <2>7, Zenon
  <2> QED BY <1>1, <2>3, <2>8, Zenon
<1> QED BY <1>3, Zenon DEF Held, Stands, RanOut

LEMMA UnseenStays == PassInv /\ [Next]_vars => UnseenIsLater'
<1> SUFFICES ASSUME PassInv, [Next]_vars PROVE UnseenIsLater'
    OBVIOUS
<1>0. /\ cyc \in Cycles /\ closes \in Seq(Close) /\ Last \in Nat
      /\ now \in Nat /\ cyc.at \in Nat /\ cyc.seen \in Nat /\ cyc.at <= now
    BY TypeOKParts, TypedIsTimed, CooldownAssumption DEF PassInv, Cycles, Last
<1>1. CASE cyc' = Idle \/ cyc'.pc = "begun"
    BY <1>1 DEF UnseenIsLater, Idle
<1>2. CASE UNCHANGED <<cyc, closes>>
    BY <1>2 DEF PassInv, UnseenIsLater, Last
<1>3. CASE Looks
  <2>1. TypeOK /\ closes' = closes
      BY <1>3 DEF Looks, PassInv
  <2>2. PICK out, left, streak : cyc' = Looked(out, left, streak)
      BY <1>3, LooksParts
  <2>3. cyc'.seen = Last /\ Last' = Last
      BY <1>0, <2>1, <2>2 DEF Last, Looked, Cycles
  <2> QED BY <1>0, <2>3 DEF UnseenIsLater
<1>6. ASSUME closes' = closes, cyc' = [cyc EXCEPT !.pc = "picked"] \/ cyc' = [cyc EXCEPT !.forgotten = TRUE],
             cyc.pc \in {"looked", "picked"} \/ cyc'.pc = cyc.pc
      PROVE  UnseenIsLater'
  <2>1. cyc'.at = cyc.at /\ cyc'.seen = cyc.seen
      BY <1>0, <1>6, OtherCycles, Zenon
  <2> QED BY <1>6, <2>1 DEF PassInv, UnseenIsLater, Last
<1>7. ASSUME NEW answered \in BOOLEAN, NEW fixed \in BOOLEAN, Picks(answered, fixed) PROVE UnseenIsLater'
  <2>1. cyc' = Idle \/ cyc' = [cyc EXCEPT !.pc = "picked"]
      BY <1>7 DEF Picks
  <2>2. cyc.pc = "looked" /\ closes' = closes
      BY <1>7 DEF Picks
  <2> QED BY <1>1, <1>6, <2>1, <2>2
<1>8. CASE Clears
  <2>1. cyc' = Idle \/ cyc' = [cyc EXCEPT !.forgotten = TRUE]
      BY <1>8 DEF Clears
  <2>2. closes' = closes
      BY <1>8 DEF Clears
  <2>3. CASE cyc' = [cyc EXCEPT !.forgotten = TRUE]
    <3>1. cyc'.pc = cyc.pc
        BY <1>0, <2>3, PickedFields, Zenon
    <3> QED BY <1>6, <2>2, <2>3, <3>1
  <2> QED BY <1>1, <2>1, <2>3
<1>4. ASSUME NEW kind \in Kinds, Closes(kind) PROVE UnseenIsLater'
  <2> DEFINE new == [kind |-> kind, at |-> now]
  <2>1. cyc' = cyc /\ closes' = Append(closes, new)
      BY <1>4 DEF Closes
  <2>2. new \in Close /\ new.at = now
      BY <1>0 DEF Close
  <2> HIDE DEF new, Close
  <2>3. /\ Last' = Last + 1 /\ closes'[Last + 1] = new
        /\ \A n \in 1 .. Last : closes'[n] = closes[n]
      BY <1>0, <2>1, <2>2 DEF Last
  <2>4. ASSUME cyc.pc \in {"looked", "picked"}, NEW n \in cyc.seen + 1 .. Last + 1
        PROVE  cyc.at <= closes'[n].at
    <3>1. CASE n = Last + 1
        BY <1>0, <2>2, <2>3, <3>1
    <3>2. CASE n \in cyc.seen + 1 .. Last
      <4>1. n \in 1 .. Last
          BY <1>0, <3>2
      <4> QED BY <2>3, <2>4, <3>2, <4>1 DEF PassInv, UnseenIsLater
    <3> QED BY <1>0, <2>4, <3>1, <3>2
  <2> QED BY <2>1, <2>3, <2>4 DEF UnseenIsLater
<1>5. CASE CycleBegins
    BY <1>1, <1>5 DEF CycleBegins, Idle
<1> QED
    BY <1>1, <1>2, <1>3, <1>4, <1>5, <1>7, <1>8
       DEF Next, Cycle, CycleSkips, TurnsVolatile, Enters, Saves, Toggles, Restarts, Tick, vars

LEMMA PassStep == WindowWithinAge /\ PassInv /\ [Next]_vars => PassInv'
<1> SUFFICES ASSUME WindowWithinAge, PassInv, [Next]_vars PROVE PassInv'
    OBVIOUS
<1>0. TypeOK /\ now \in Nat
    BY TypedIsTimed DEF PassInv, Times
<1>1. TypeOK' /\ UnseenIsLater' /\ now' \in Nat
    BY TypesStep, UnseenStays, CooldownAssumption DEF PassInv, TypeOK
<1>2. CASE cyc' = Idle \/ cyc'.pc = "begun"
    BY <1>1, <1>2 DEF PassInv, Held, Idle
<1>3. ASSUME UNCHANGED <<cyc, closes>>, now <= now', cool' \in {cool, Pruned(cool, now)} PROVE PassInv'
    BY <1>1, <1>3, WaitingHolds DEF PassInv
<1>4. CASE Looks
    BY <1>0, <1>1, <1>4, LooksHolds DEF PassInv
<1>5. ASSUME NEW kind \in Kinds, Closes(kind) PROVE PassInv'
  <2>1. \A n \in 1 .. cyc.seen : closes'[n] = closes[n]
      BY <1>0, <1>5, LogGrows
  <2>2. cyc' = cyc /\ cool' = cool /\ now' = now
      BY <1>5 DEF Closes
  <2> QED BY <1>0, <1>1, <2>1, <2>2, WaitingHolds DEF PassInv
<1>6. ASSUME NEW answered \in BOOLEAN, NEW fixed \in BOOLEAN, Picks(answered, fixed) PROVE PassInv'
    BY <1>1, <1>6, PicksHolds DEF PassInv
<1>7. CASE Clears
  <2>1. cyc' = Idle \/ cyc' = [cyc EXCEPT !.forgotten = TRUE]
      BY <1>7 DEF Clears
  <2>2. UNCHANGED <<now, closes>>
      BY <1>7 DEF Clears
  <2>3. CASE cyc' = [cyc EXCEPT !.forgotten = TRUE]
      BY <1>0, <1>1, <2>2, <2>3, WaitingHolds DEF PassInv
  <2> QED BY <1>2, <2>1, <2>3
<1>8. CASE Saves
  <2>1. cool' = Pruned(cool, now) /\ UNCHANGED <<cyc, closes, now>>
      BY <1>8 DEF Saves, SavesAfter
  <2> QED BY <1>0, <1>3, <2>1
<1>9. CASE CycleBegins
    BY <1>2, <1>9 DEF CycleBegins, Idle
<1>10. CASE Tick
    BY <1>0, <1>3, <1>10 DEF Tick
<1>11. CASE Toggles \/ UNCHANGED vars
    BY <1>0, <1>3, <1>11 DEF Toggles, vars
<1>12. CASE CycleSkips \/ TurnsVolatile \/ Enters \/ Restarts
    BY <1>2, <1>12 DEF CycleSkips, TurnsVolatile, Enters, Restarts
<1> QED
    BY <1>4, <1>5, <1>6, <1>7, <1>8, <1>9, <1>10, <1>11, <1>12 DEF Next, Cycle

\* For all windows and durations of which the streak's is within max_age_sec: no cycle
\* enters a symbol of whose closes it has seen a fresh big loss or a fresh streak, unless
\* the record of that loss ran out while the cycle was under way, or was forgotten; what it
\* has not seen was closed since its head (_autotrade_loop, _prune_risk_cooldowns).
THEOREM NeverIntoLoss == WindowWithinAge /\ Spec => NoEntryIntoLoss
<1> DEFINE Clear ==
      /\ \A n \in cyc.seen + 1 .. Last : cyc.at <= closes[n].at
      /\ (cyc.enabled /\ cyc.seen > 0 /\ Fresh(cyc.seen, cyc.at)) =>
           \/ cyc.forgotten
           \/ cyc.left # NoRecord /\ cyc.left.close = cyc.seen /\ RanOut(cyc.left, cyc.at, now)
<1>1. PassInv /\ [Next]_vars => [Enters => Clear]_vars
  <2>1. ASSUME PassInv, Enters PROVE Clear
    <3>1. cyc.pc = "picked"
        BY <2>1 DEF Enters
    <3>2. \A n \in cyc.seen + 1 .. Last : cyc.at <= closes[n].at
        BY <2>1, <3>1 DEF PassInv, UnseenIsLater
    <3> QED BY <2>1, <3>1, <3>2, Zenon DEF PassInv, Held
  <2> QED BY <2>1
<1>2. ASSUME WindowWithinAge PROVE Spec => NoEntryIntoLoss
  <2>1. PassInv /\ [Next]_vars => PassInv'
      BY <1>2, PassStep
  <2> QED BY <1>1, <2>1, PassInit, PTL DEF Spec, NoEntryIntoLoss
<1> QED BY <1>2
=============================================================================
