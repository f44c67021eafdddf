------------------------------ MODULE TuningLocks ------------------------------
(***************************************************************************)
(* How the supervisor's tuners keep out of each other's way.               *)
(*                                                                         *)
(* _hermes_supervisor_review (main.py) goes through its findings and calls *)
(* a tuner for each: one loosens the entries that another tightens.  Locks *)
(* per domain, a cooldown of each tuner, and a history from which a tuner  *)
(* takes its own change back when the results have become worse            *)
(* (trading/supervisor_state.py) are to stop them from fighting.           *)
(*                                                                         *)
(* The trading loop reviews on the event loop, and each refresh of the     *)
(* dashboard in a thread: reviews overlap, and the operator's edits and a  *)
(* restart come in between.  Each review calls the tuners it has findings  *)
(* for, in any order; a call tests a lock, stamps it, and commits later,   *)
(* with the steps of other reviews in between.                             *)
(*                                                                         *)
(* The ninth tuner, _loss_streak_self_review_tune, is called by the        *)
(* trading loop itself and knows of no locks.                              *)
(*                                                                         *)
(* Abstracted: what a review finds, whether a tuner finds its keys at      *)
(* their limits, and whether the results have become worse, are choices; a *)
(* change is the domains it touches.  The values and their way into the    *)
(* configuration are left out; so are the recovery of TradingView and the  *)
(* widening of the scan by the review itself, which take no lock.          *)
(***************************************************************************)
EXTENDS Integers, Sequences, FiniteSets, TLC

CONSTANTS
    Reviews,        \* the loop and the threads of the server that review
    LockFor,        \* supervisorTuningModeLockMinutes
    CooldownFor,    \* the cooldown of a tuner
    RecoverFor,     \* supervisorStuckLowEntryRecoveryCooldownSec
    UndoAfter,      \* a change is judged when it is a minute old,
    UndoUntil,      \*   and no more after four hours
    KeepLast,       \* the length of tuningHistory
    MaxMade,        \* bound: changes that reach the commit, or are on the way to it
    MaxRestarts,    \* bound: restarts of the process
    MaxTime         \* bound of the clock

ASSUME ParametersAssumption ==
    /\ {LockFor, CooldownFor, RecoverFor, UndoAfter, UndoUntil} \subseteq Nat
    /\ {MaxMade, MaxRestarts, MaxTime} \subseteq Nat
    /\ KeepLast \in Nat \ {0}

VARIABLES
    locks,      \* _TUNING_LOCK_DOMAINS
    last,       \* supervisorAutoTune["delegations"]: when a tuner last committed
    history,    \* tuningHistory
    calls,      \* the call of a tuner each review is in
    clash,      \* history: calls that keep each other's locks or cooldown from working
    now, made, restarts

vars == <<locks, last, history, calls, clash, now, made, restarts>>

-----------------------------------------------------------------------------
Domains == {"entry", "profit", "scan", "size"}
Tuners == {"scan_timeout", "bad_utc_hour", "low_entry_activity", "size_streak",
           "daily_entry_regression", "negative_expectancy", "weak_payoff",
           "small_profit_capture", "loss_streak_self_review"}
Directions == {"tightening", "loosening"}

\* `from' stands for the moment of the stamp: the number of changes made before it.
Lock == [mode: {"tightening", "loosening", "neutral"}, until: Nat, from: Nat]
Change == [n: Nat, key: Tuners, mode: {"tightening", "loosening", "neutral", "undo"},
           at: Nat, domains: SUBSET Domains, reverted: BOOLEAN]

NoLocks == [d \in Domains |-> [mode |-> "neutral", until |-> 0, from |-> 0]]

\* A call has tested the lock of the domain it wants and seen whether it is free; it has
\* the domains whose acquisition it is through with, and may take more along.
Call == [pc: {"none", "tested", "holding"}, key: Tuners \cup {"none"},
         mode: Directions \cup {"neutral"}, want: Domains \cup {"none"}, free: BOOLEAN,
         has: SUBSET Domains, more: SUBSET Domains, stuck: BOOLEAN]
NoCall == [pc |-> "none", key |-> "none", mode |-> "neutral", want |-> "none",
           free |-> FALSE, has |-> {}, more |-> {}, stuck |-> FALSE]

Untouched == [t \in Tuners |-> [at |-> -CooldownFor, stuck |-> FALSE]]

TypeOK ==
    /\ locks \in [Domains -> Lock]
    /\ last \in [Tuners -> [at: Int, stuck: BOOLEAN]]
    /\ history \in Seq(Change)
    /\ Len(history) <= KeepLast
    /\ calls \in [Reviews -> Call]
    /\ clash \in BOOLEAN
    /\ now \in Nat /\ made \in Nat /\ restarts \in Nat

Init ==
    /\ locks = NoLocks
    /\ last = Untouched
    /\ history = <<>>
    /\ calls = [r \in Reviews |-> NoCall]
    /\ clash = FALSE
    /\ now = 0 /\ made = 0 /\ restarts = 0

-----------------------------------------------------------------------------
(* Locks, cooldowns and the history.                                       *)

Held(d) == locks[d].mode # "neutral" /\ now < locks[d].until

\* _tuning_mode_lock_acquire refuses a domain that is held for the opposite; it stamps
\* one that it saw was not held, and leaves the stamp of one that is.
MayTake(d, mode) == Held(d) => locks[d].mode = mode

Stamp(mode) == [mode |-> mode, until |-> now + LockFor, from |-> made]

\* Another review is in a call of the same tuner, which has passed the same cooldown.
Twice(r, t) == \E q \in Reviews \ {r} : calls[q].key = t

\* Another review has tested the domain that is being stamped, for the opposite.
Crosses(r) ==
    \E q \in Reviews \ {r} : /\ calls[r].want \in calls[q].has \cup {calls[q].want}
                             /\ calls[q].mode # calls[r].mode

Cooling(t) == now - last[t].at < CooldownFor

\* A stuck session need not wait for the cooldown, but for that of the last recovery.
Recovering == /\ last["low_entry_activity"].stuck
              /\ now - last["low_entry_activity"].at < RecoverFor

\* The bound of the changes.
Room == made + Cardinality({r \in Reviews : calls[r].pc # "none"}) < MaxMade

Open(t) == {i \in DOMAIN history : history[i].key = t /\ ~history[i].reverted}

\* _tuning_should_rollback looks at all the tuner's changes of the window for one since
\* which the results have become worse: where there is one, it may,
MayRollback(t) == \E i \in Open(t) : now - history[i].at \in UndoAfter .. UndoUntil

\* and _tuning_rollback_last takes the newest of them, whether or not it is that one.
Newest(t) == CHOOSE i \in Open(t) : \A j \in Open(t) : j <= i

\* (mutant) One entry too many is kept.
KeepOneMore(h) == IF Len(h) > KeepLast + 1 THEN Tail(h) ELSE h

KeepNewest(h) == IF Len(h) > KeepLast THEN Tail(h) ELSE h

\* _commit_supervisor_config_tune does nothing when the operator has switched tuning off
\* since the review took its configuration.
Commit(t, mode, domains, hist, stuck) ==
    /\ made' = made + 1
    /\ \/ /\ last' = [last EXCEPT ![t] = [at |-> now, stuck |-> stuck]]
          /\ history' = KeepNewest(Append(hist,
                 [n |-> made + 1, key |-> t, mode |-> mode, at |-> now,
                  domains |-> domains, reverted |-> FALSE]))
       \/ history' = hist /\ UNCHANGED last

\* The results are worse: the newest change is taken back, and all locks are dropped.
Undo(r, t) ==
    /\ calls[r].pc = "none" /\ Room
    /\ MayRollback(t)
    /\ LET e == Newest(t)
       IN  Commit(t, "undo", history[e].domains, [history EXCEPT ![e].reverted = TRUE], FALSE)
    /\ locks' = NoLocks
    /\ clash' = (clash \/ Twice(r, t))
    /\ UNCHANGED calls

-----------------------------------------------------------------------------
(* A call of a tuner.                                                      *)

\* The lock of the gate is tested, ...
Begins(r, t, mode, gate, more, stuck) ==
    /\ calls[r].pc = "none" /\ Room
    /\ MayTake(gate, mode)
    /\ calls' = [calls EXCEPT ![r] =
                    [pc |-> "tested", key |-> t, mode |-> mode, want |-> gate,
                     free |-> ~Held(gate), has |-> {}, more |-> more, stuck |-> stuck]]
    /\ clash' = (clash \/ Twice(r, t))
    /\ UNCHANGED <<locks, last, history, made>>

\* ... and stamped, if it was free then.
Stamps(r) ==
    /\ calls[r].pc = "tested"
    /\ locks' = IF calls[r].free
                THEN [locks EXCEPT ![calls[r].want] = Stamp(calls[r].mode)]
                ELSE locks
    /\ calls' = [calls EXCEPT ![r].pc = "holding", ![r].want = "none",
                              ![r].has = @ \cup {calls[r].want}]
    /\ clash' = (clash \/ (calls[r].free /\ Crosses(r)))
    /\ UNCHANGED <<last, history, made>>

\* A domain the tuner takes along is acquired in the same way; refused, it is left alone.
TakesAlong(r) ==
    /\ calls[r].pc = "holding"
    /\ \E d \in calls[r].more \ calls[r].has :
          /\ MayTake(d, calls[r].mode)
          /\ calls' = [calls EXCEPT ![r].pc = "tested", ![r].want = d, ![r].free = ~Held(d)]
    /\ UNCHANGED <<locks, clash, last, history, made>>

\* (mutant) The tuner moves what it may take along without asking for its lock.
CommitsAll(r) ==
    /\ calls[r].pc = "holding"
    /\ \E moved \in (SUBSET (calls[r].has \cup calls[r].more)) \ {{}} :
          Commit(calls[r].key, calls[r].mode, moved, history, calls[r].stuck)
    /\ calls' = [calls EXCEPT ![r] = NoCall]
    /\ UNCHANGED <<locks, clash>>

\* It moves some keys of the domains it has.
Commits(r) ==
    /\ calls[r].pc = "holding"
    /\ \E moved \in (SUBSET calls[r].has) \ {{}} :
          Commit(calls[r].key, calls[r].mode, moved, history, calls[r].stuck)
    /\ calls' = [calls EXCEPT ![r] = NoCall]
    /\ UNCHANGED <<locks, clash>>

\* If none can be moved, it drops the locks, all of them.
Drops(r) ==
    /\ calls[r].pc = "holding" /\ calls[r].key # "size_streak"
    /\ locks' = NoLocks
    /\ calls' = [calls EXCEPT ![r] = NoCall]
    /\ UNCHANGED <<clash, last, history, made>>

-----------------------------------------------------------------------------
(* The tuners.                                                             *)

\* _maybe_tune_scan_timeout_from_skip
ScanTimeout(r) ==
    /\ ~Cooling("scan_timeout")
    /\ \/ Undo(r, "scan_timeout")
       \/ Begins(r, "scan_timeout", "tightening", "scan", {}, FALSE)

\* _maybe_clear_bad_utc_hour_from_config: the hours belong to no domain.
BadUtcHour(r) ==
    /\ calls[r].pc = "none" /\ Room
    /\ ~Cooling("bad_utc_hour")
    /\ Commit("bad_utc_hour", "neutral", {}, history, FALSE)
    /\ UNCHANGED <<locks, calls, clash>>

\* _maybe_tune_low_entry_activity
LowEntryActivity(r) ==
    \/ Undo(r, "low_entry_activity")
    \/ \E stuck \in BOOLEAN :
          /\ Cooling("low_entry_activity") => stuck /\ ~Recovering
          /\ Begins(r, "low_entry_activity", "loosening", "entry", {"scan"}, stuck)

\* _maybe_tune_size_multiplier_from_streak: its cooldown holds back the very same streak
\* only, and it has a change to make when it comes to the lock.
SizeStreak(r) ==
    \/ Undo(r, "size_streak")
    \/ \E mode \in Directions : Begins(r, "size_streak", mode, "size", {}, FALSE)

\* (mutant) The daily regression is tuned whenever a review finds it.
DailyWithoutCooldown(r) ==
    \/ Undo(r, "daily_entry_regression")
    \/ Begins(r, "daily_entry_regression", "tightening", "entry", {}, FALSE)

\* _maybe_tune_daily_entry_regression looks for a rollback before its cooldown,
DailyEntryRegression(r) ==
    \/ Undo(r, "daily_entry_regression")
    \/ /\ ~Cooling("daily_entry_regression")
       /\ Begins(r, "daily_entry_regression", "tightening", "entry", {}, FALSE)

\* _maybe_tune_negative_expectancy_from_review after it.
NegativeExpectancy(r) ==
    /\ ~Cooling("negative_expectancy")
    /\ \/ Undo(r, "negative_expectancy")
       \/ Begins(r, "negative_expectancy", "tightening", "entry", {}, FALSE)

\* _maybe_tune_weak_payoff_from_review: its cooldown compares a signature that is never
\* kept, and so holds nothing back.  Large losses let it touch the size as well.
WeakPayoff(r) ==
    \/ Undo(r, "weak_payoff")
    \/ \E more \in {{}, {"size"}} :
          Begins(r, "weak_payoff", "tightening", "profit", more, FALSE)

\* _maybe_tune_small_profit_capture_from_review: its cooldown is for the report only.
SmallProfitCapture(r) ==
    \/ Undo(r, "small_profit_capture")
    \/ Begins(r, "small_profit_capture", "loosening", "profit", {}, FALSE)

\* _loss_streak_self_review_tune, called by the loop after a streak of losses, asks for no
\* lock.  It tightens the entries, or raises maxOpenPositions to its floor; what it takes
\* back are metrics, no keys of a domain, and it leaves the locks alone.
LossStreakReview(r) ==
    /\ calls[r].pc = "none" /\ Room
    /\ ~Cooling("loss_streak_self_review")
    /\ \/ /\ MayRollback("loss_streak_self_review")
          /\ LET e == Newest("loss_streak_self_review")
             IN  Commit("loss_streak_self_review", "undo", {},
                        [history EXCEPT ![e].reverted = TRUE], FALSE)
       \/ \E mode \in Directions :
              Commit("loss_streak_self_review", mode, {"entry"}, history, FALSE)
    /\ UNCHANGED <<locks, calls, clash>>

Tunes(r) ==
    /\ \/ ScanTimeout(r)
       \/ BadUtcHour(r)
       \/ LowEntryActivity(r)
       \/ SizeStreak(r)
       \/ DailyEntryRegression(r)
       \/ NegativeExpectancy(r)
       \/ WeakPayoff(r)
       \/ SmallProfitCapture(r)
       \/ LossStreakReview(r)
       \/ Stamps(r) \/ TakesAlong(r) \/ Commits(r) \/ Drops(r)
    /\ UNCHANGED <<now, restarts>>

-----------------------------------------------------------------------------
(* What comes in between.                                                  *)

Tick ==
    /\ now < MaxTime
    /\ now' = now + 1
    /\ UNCHANGED <<locks, last, history, calls, clash, made, restarts>>

\* Neither the locks nor the delegations nor the history are in the snapshot.
Restart ==
    /\ restarts < MaxRestarts
    /\ restarts' = restarts + 1
    /\ locks' = NoLocks
    /\ last' = Untouched
    /\ history' = <<>>
    /\ calls' = [r \in Reviews |-> NoCall]
    /\ UNCHANGED <<clash, now, made>>

Next ==
    \/ \E r \in Reviews : Tunes(r)
    \/ Tick
    \/ Restart

Spec == Init /\ [][Next]_vars

\* For TLC: where a review runs makes no difference.
Interchangeable == Permutations(Reviews)

-----------------------------------------------------------------------------
(* Properties.                                                             *)

\* While a domain is held, no tuner that knows the locks has moved it against the lock
\* since it was taken, however the calls of the reviews overlap: neither another review,
\* nor a tuner that takes the domain along with its own.  Until, that is, a call stamps a
\* domain that a call in the opposite direction has tested and is not yet done with
\* (_tuning_mode_lock_acquire and the calls of it).
LocksGovern ==
    clash \/ \A d \in Domains, i \in DOMAIN history :
        /\ Held(d)
        /\ history[i].n > locks[d].from
        /\ d \in history[i].domains
        /\ history[i].key # "loss_streak_self_review"
        => history[i].mode = locks[d].mode

\* The four tuners that wait for their cooldown move nothing within it, after a change of
\* their own or after taking one back, though the lock of the domain is their own and lets
\* them pass, or was dropped by another tuner ("so operator config changes via /bot/config
\* are not silently overridden every review"), until two reviews are in a call of the same
\* tuner at once.
Patient == {"scan_timeout", "daily_entry_regression", "negative_expectancy",
            "loss_streak_self_review"}

CooldownsHold ==
    clash \/ \A i, j \in DOMAIN history :
        /\ i < j
        /\ history[j].key = history[i].key
        /\ history[i].key \in Patient
        /\ history[j].mode # "undo"
        => history[j].at - history[i].at >= CooldownFor
=============================================================================
