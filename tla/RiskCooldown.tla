----------------------------- MODULE RiskCooldown -----------------------------
(***************************************************************************)
(* The brake after losses: AUTO_TRADE["riskCooldownBySymbol"]              *)
(* (trading/risk_cooldown.py) as the cycle of _autotrade_loop (main.py)    *)
(* arms, reads and prunes it, with the copies in the snapshot and in the   *)
(* runtime file of the symbol (trading/state_ops.py) and what a restart    *)
(* makes of them.                                                          *)
(*                                                                         *)
(* Abstracted: one symbol.  A close is a win, a small or a big loss, and   *)
(* the time it was logged.  The signature of a record is why it was armed, *)
(* up to which close, and for how many losses; that of a volatile market   *)
(* is the time.  Time passes in units in which the windows and durations   *)
(* are given, also while a cycle is under way.  The look-back of the       *)
(* streak is not reached.  The global pause of older snapshots (pauseUntil *)
(* with a signature) is left out.                                          *)
(***************************************************************************)
EXTENDS Naturals, Sequences

CONSTANTS
    Streak,             \* riskCooldownLossStreak
    StreakFor,          \* riskCooldownMinutes
    StreakWindow,       \* riskCooldownRecentWindowSec
    BigFor,             \* bigLossCooldownMinutes
    BigWindow,          \* bigLossCooldownRecentWindowSec; 0: a big loss never gets too old
    VolatileFor,        \* riskCooldownVolatileMinutes
    MaxAge,             \* max_age_sec of _prune_risk_cooldowns
    MaxCloses,          \* bound: closes of the symbol
    LastCause,          \* bound: time of the last close, and of the last volatile market
    MaxTime             \* bound: time

ASSUME CooldownAssumption ==
    /\ {Streak, StreakFor, StreakWindow, BigFor, VolatileFor} \subseteq Nat \ {0}
    /\ {BigWindow, MaxAge, MaxCloses, LastCause, MaxTime} \subseteq Nat

VARIABLES
    now,        \* time.time()
    closes,     \* the live trades of the symbol in the log
    enabled,    \* riskCooldownEnabled
    cool,       \* the symbol's record in riskCooldownBySymbol, or NoRecord
    snap,       \* ... in the snapshot
    file,       \* ... in the symbol's runtime file
    cyc         \* the cycle: where it awaits, its `now` and cfg, whether the symbol is in its
                \* blacklist; and, for the properties, the closes it has seen, the record
                \* that stood for them, and whether the brake was forgotten since

vars == <<now, closes, enabled, cool, snap, file, cyc>>

-----------------------------------------------------------------------------
Kinds == {"win", "small", "big"}
Reasons == {"loss_streak", "big_loss", "market_volatile"}

Record == [reason : Reasons, close : Nat, losses : Nat, last : Nat, until : Nat]
NoRecord == [reason |-> "none"]

\* The cycle, by where it is.
Cycles == [pc : {"idle", "begun", "looked", "picked"}, at : Nat, enabled : BOOLEAN, out : BOOLEAN,
           seen : Nat, left : Record \cup {NoRecord}, forgotten : BOOLEAN]
Idle == [pc |-> "idle", at |-> 0, enabled |-> FALSE, out |-> FALSE,
         seen |-> 0, left |-> NoRecord, forgotten |-> FALSE]

Last == Len(closes)
Lost(n) == closes[n].kind # "win"

\* _recent_live_loss_streak_states_by_symbol: the losses at the end of the log.
Losses == CHOOSE k \in 0 .. Last :
    /\ \A n \in (Last - k + 1) .. Last : Lost(n)
    /\ k < Last => ~Lost(Last - k)

\* The last close is within a window.
Recent(window, t) == Last > 0 /\ t <= closes[Last].at + window
BigRecent(t) == Last > 0 /\ (BigWindow = 0 \/ Recent(BigWindow, t))

\* _prune_risk_cooldowns: what has expired goes, and a streak that is too old.
Pruned(rec, t) ==
    IF rec = NoRecord \/ rec.until <= t \/ (rec.reason = "loss_streak" /\ t > rec.last + MaxAge)
    THEN NoRecord ELSE rec

\* Mutant of Armed: the record is dated by the arming instead of the close.
ArmedNow(reason, minutes, t) ==
    [reason |-> reason, close |-> Last, losses |-> IF reason = "loss_streak" THEN Losses ELSE 1,
     last |-> t, until |-> t + minutes]

Armed(reason, minutes, t) ==
    [reason |-> reason, close |-> Last, losses |-> IF reason = "loss_streak" THEN Losses ELSE 1,
     last |-> closes[Last].at, until |-> t + minutes]

\* The signature names the closes the record was armed for.
SameLoss(rec, new) ==
    rec # NoRecord /\ rec.reason = new.reason /\ rec.close = new.close /\ rec.losses = new.losses

\* A repeated loss: armed, unless the record that still stands is of the same losses.
AfterStreak(rec, t) ==
    IF Last > 0 /\ Losses >= Streak /\ Recent(StreakWindow, t)
          /\ ~SameLoss(rec, Armed("loss_streak", StreakFor, t))
    THEN Armed("loss_streak", StreakFor, t) ELSE rec

\* Mutant of AfterBigLoss: how long ago the loss was is not asked.
AfterAnyBigLoss(rec, t) ==
    IF Last > 0 /\ closes[Last].kind = "big" /\ ~SameLoss(rec, Armed("big_loss", BigFor, t))
    THEN Armed("big_loss", BigFor, t) ELSE rec

\* One big loss, if it is the last close: armed over whatever record stands.
AfterBigLoss(rec, t) ==
    IF BigRecent(t) /\ closes[Last].kind = "big" /\ ~SameLoss(rec, Armed("big_loss", BigFor, t))
    THEN Armed("big_loss", BigFor, t) ELSE rec

\* What persist_autotrade_snapshot writes of the record it has pruned: the snapshot gets
\* it, and the runtime file too, unless nothing is left: then it keeps what it has.
SavedAs(rec) ==
    /\ snap' = rec
    /\ file' = IF rec = NoRecord THEN file ELSE rec

Unsaved == UNCHANGED <<snap, file>>

\* A save prunes memory by the clock, and then writes, or fails to.
SavesAfter(rec) ==
    /\ cool' = Pruned(rec, now)
    /\ SavedAs(cool') \/ Unsaved

Init ==
    /\ now = 0 /\ closes = <<>> /\ enabled \in BOOLEAN
    /\ cool = NoRecord /\ snap = NoRecord /\ file = NoRecord /\ cyc = Idle

-----------------------------------------------------------------------------
(* The cycle                                                                *)

\* The head of the cycle: what has expired is dropped, everything if the brake is off.
CycleBegins ==
    /\ cyc.pc = "idle"
    /\ cyc' = [Idle EXCEPT !.pc = "begun", !.at = now, !.enabled = enabled]
    /\ cool' = IF enabled THEN Pruned(cool, now) ELSE NoRecord
    /\ UNCHANGED <<now, closes, enabled, snap, file>>

\* The guardian, a timeout, or a gate at any point ends the cycle.
CycleSkips ==
    /\ cyc.pc # "idle"
    /\ cyc' = Idle
    /\ UNCHANGED <<now, closes, enabled, cool, snap, file>>

\* What the cycle finds standing of an older record, by the time of its head.
Standing == Pruned(cool, cyc.at)

\* The losses are looked at once more for a big one, and what is left of the record then
\* decides whether the symbol is excluded.
Braked(rec) == Pruned(AfterBigLoss(Pruned(rec, cyc.at), cyc.at), cyc.at)

\* What the cycle knows after it has looked: the record that it left in memory, or, if a
\* save took that by the clock, the one that stood until then.
Looked(out, left, streak) ==
    [cyc EXCEPT !.pc = "looked", !.out = out, !.seen = Last,
                !.left = IF left # NoRecord THEN left ELSE streak]

\* Mutant of Looks: the blacklist is gathered before the losses are looked at.
LooksTooEarly ==
    /\ cyc.pc = "begun"
    /\ LET streak == IF cyc.enabled THEN AfterStreak(Standing, cyc.at) ELSE Standing
       IN  /\ cool' = IF cyc.enabled THEN Braked(streak) ELSE Standing
           /\ Unsaved
           /\ cyc' = Looked(Standing # NoRecord, cool', streak)
    /\ UNCHANGED <<now, closes, enabled>>

\* The brake: a streak is armed, then a big loss, then the blacklist is gathered.  A save
\* in between, of this arming or of another symbol's, prunes what was armed by the clock;
\* or the only save was before it, and the next is too early.  Nothing is awaited.
Looks ==
    /\ cyc.pc = "begun"
    /\ LET streak == AfterStreak(Standing, cyc.at)
           saved  == Pruned(streak, now)
       IN  \/ /\ cyc.enabled
              /\ cool' = Braked(streak)
              /\ SavedAs(Pruned(Standing, now)) \/ Unsaved
              /\ cyc' = Looked(cool' # NoRecord, cool', streak)
           \/ /\ cyc.enabled
              /\ cool' = Braked(saved)
              /\ SavedAs(saved) \/ Unsaved
              /\ cyc' = Looked(cool' # NoRecord, cool', streak)
           \/ /\ ~cyc.enabled
              /\ cool' = Standing
              /\ Unsaved
              /\ cyc' = Looked(cool' # NoRecord, cool', Standing)
    /\ UNCHANGED <<now, closes, enabled>>

\* The open positions were asked for.  If that failed the blacklist is gathered anew from
\* memory; for a fixed symbol the record is asked for again in any case.
Picks(answered, fixed) ==
    /\ cyc.pc = "looked"
    /\ LET again == fixed \/ ~answered
           out   == (answered /\ cyc.out) \/ (again /\ Standing # NoRecord)
       IN  /\ cool' = IF again THEN Standing ELSE cool
           /\ cyc' = IF out THEN Idle ELSE [cyc EXCEPT !.pc = "picked"]
    /\ UNCHANGED <<now, closes, enabled, snap, file>>

\* The market of a fixed symbol is volatile.
TurnsVolatile ==
    /\ cyc.pc = "picked" /\ cyc.enabled /\ now <= LastCause
    /\ LET rec == [reason |-> "market_volatile", close |-> cyc.at, losses |-> 0,
                   last |-> cyc.at, until |-> cyc.at + VolatileFor]
       IN  SavesAfter(rec) \/ (cool' = rec /\ Unsaved)
    /\ cyc' = Idle
    /\ UNCHANGED <<now, closes, enabled>>

\* The symbol is entered.
Enters ==
    /\ cyc.pc = "picked"
    /\ cyc' = Idle
    /\ UNCHANGED <<now, closes, enabled, cool, snap, file>>

-----------------------------------------------------------------------------
(* Those beside it                                                          *)

\* A position of the symbol is closed and logged, by the guardian or the reconciler.
Closes(kind) ==
    /\ Last < MaxCloses /\ now <= LastCause
    /\ closes' = Append(closes, [kind |-> kind, at |-> now])
    /\ UNCHANGED <<now, enabled, cool, snap, file, cyc>>

\* Somebody saves the snapshot.
Saves ==
    /\ SavesAfter(cool)
    /\ UNCHANGED <<now, closes, enabled, cyc>>

\* autotrade_start and autotrade_reset forget the brake, in memory and, a reset at once, in
\* the snapshot; not in the runtime file.  A start cancels the loop.
Clears ==
    /\ cool' = NoRecord
    /\ SavedAs(NoRecord) \/ Unsaved
    /\ cyc' \in {IF cyc.pc = "idle" THEN Idle ELSE [cyc EXCEPT !.forgotten = TRUE], Idle}
    /\ UNCHANGED <<now, closes, enabled>>

Toggles ==
    /\ enabled' = ~enabled
    /\ UNCHANGED <<now, closes, cool, snap, file, cyc>>

\* The snapshot's record, pruned; else the runtime file's, as it is.
Restarts ==
    /\ cool' = IF Pruned(snap, now) # NoRecord THEN snap ELSE file
    /\ cyc' = Idle
    /\ UNCHANGED <<now, closes, enabled, snap, file>>

Tick ==
    /\ now < MaxTime /\ now' = now + 1
    /\ UNCHANGED <<closes, enabled, cool, snap, file, cyc>>

-----------------------------------------------------------------------------
Cycle ==
    \/ CycleBegins \/ CycleSkips \/ Looks \/ TurnsVolatile \/ Enters
    \/ \E answered, fixed \in BOOLEAN : Picks(answered, fixed)

Next ==
    \/ Cycle
    \/ \E kind \in Kinds : Closes(kind)
    \/ Saves \/ Clears \/ Toggles \/ Restarts \/ Tick

Spec == Init /\ [][Next]_vars

\* Time passes, and the loop goes on with its cycles: what it awaits has a timeout.
FairSpec ==
    Spec /\ WF_vars(Tick) /\ WF_vars(CycleBegins)
         /\ WF_vars(CycleSkips \/ Looks \/ Enters \/ \E answered, fixed \in BOOLEAN : Picks(answered, fixed))

-----------------------------------------------------------------------------
\* Every variable has its type; a record is of closes that are in the log, and a cycle
\* samples no time to come.
TypeOK ==
    /\ now \in 0 .. MaxTime
    /\ closes \in Seq([kind : Kinds, at : Nat]) /\ Last <= MaxCloses
    /\ enabled \in BOOLEAN
    /\ \A rec \in {cool, snap, file, cyc.left} \ {NoRecord} :
         /\ rec \in Record
         /\ rec.reason # "market_volatile" =>
              rec.close \in 1 .. Last /\ rec.last = closes[rec.close].at
    /\ cyc \in Cycles /\ cyc.at <= now /\ cyc.seen <= Last

\* The losses at the end of the first k closes.
SeenLosses(k) == CHOOSE n \in 0 .. k :
    /\ \A m \in (k - n + 1) .. k : Lost(m)
    /\ n < k => ~Lost(k - n)

\* The first k closes end, by time t, with a big loss or a streak to brake for.
FreshBig(k, t) == closes[k].kind = "big" /\ (BigWindow = 0 \/ t <= closes[k].at + BigWindow)
FreshStreak(k, t) == SeenLosses(k) >= Streak /\ t <= closes[k].at + StreakWindow
Fresh(k, t) == FreshBig(k, t) \/ FreshStreak(k, t)

\* A record that stood at a time has run out by a later one.
RanOut(rec, from, to) ==
    \/ from < rec.until /\ rec.until <= to
    \/ rec.reason = "loss_streak" /\ from <= rec.last + MaxAge /\ rec.last + MaxAge < to

\* No cycle enters a symbol of whose closes it has seen a big loss at the end, younger
\* than its window, or a streak: not when the record of it was overwritten by a shorter
\* one, expired before or lost with a restart.  The exceptions are the code's: the record
\* of that very loss stood at the head of the cycle and ran out while it was under way, so
\* that a save dropped it, or a start or reset forgot it.  What the cycle has not seen was
\* closed since its head (_autotrade_loop, _prune_risk_cooldowns).
NoEntryIntoLoss ==
    [][ Enters =>
          /\ \A n \in cyc.seen + 1 .. Last : cyc.at <= closes[n].at
          /\ (cyc.enabled /\ cyc.seen > 0 /\ Fresh(cyc.seen, cyc.at)) =>
               \/ cyc.forgotten
               \/ cyc.left # NoRecord /\ cyc.left.close = cyc.seen /\ RanOut(cyc.left, cyc.at, now)
      ]_vars

\* A loss brakes the symbol for its window and one cooldown at most, however often it is
\* armed again, and in whichever copy it comes back: a big one only if it has a window
\* (risk_cooldown.py, main.py).
Bounded(rec) ==
    /\ (rec.reason = "big_loss" /\ BigWindow > 0) => rec.until <= rec.last + BigWindow + BigFor
    /\ rec.reason = "loss_streak" => rec.until <= rec.last + StreakWindow + StreakFor

BrakeBounded == Bounded(cool) /\ Bounded(snap) /\ Bounded(file)

\* The brake is released in the end, if big losses have a window (_prune_risk_cooldowns).
BrakeReleases == BigWindow > 0 => ((cool # NoRecord) ~> (cool = NoRecord))
=============================================================================
