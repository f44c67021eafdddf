------------------------------ MODULE SymbolTuning ------------------------------
(***************************************************************************)
(* symbol_profile.json of one symbol and its writers.                      *)
(*                                                                         *)
(* Each recorded trade and each scan observation may write what it learned *)
(* about the symbol (trading/learning.py, main.py); a second after a trade *)
(* a thread of its own runs the autotuner (trading/symbol_autotuner.py),    *)
(* which loads and saves the file several times; the operator edits it      *)
(* through hermes_set_symbol_profile.  Every writer replaces the whole      *)
(* file by its copy, and only the first two exclude each other, so a copy   *)
(* may be as old as its writer is slow.                                     *)
(*                                                                         *)
(* Abstracted: the parameters are who set them; a time stamp is the number *)
(* of rows in trades.jsonl at that time; what the scores, the phases and    *)
(* the search for candidates come out at is left open.                      *)
(***************************************************************************)
EXTENDS Naturals

CONSTANTS
    MaxTrades,      \* bound: trades recorded
    MaxScore,       \* bound: scores the tuner tells apart
    OldRows,        \* rows of trades.jsonl at the start
    RevertAfter,    \* REVERT_CHECK_TRADES
    RollbackAfter,  \* trades after a revert that its evaluation takes
    TuneEvery       \* OPTIMIZATION_INTERVAL_TRADES

ASSUME TuningAssumption ==
    /\ {MaxTrades, MaxScore, OldRows, RevertAfter, RollbackAfter, TuneEvery} \subseteq Nat
    /\ OldRows > 0

VARIABLES
    rows,           \* rows of trades.jsonl
    symProfile,     \* symbol_profile.json
    trade,          \* how far each trade is recorded
    tuner,          \* the thread that each recorded trade starts
    edit,           \* hermes_set_symbol_profile
    ratings         \* (history) the scores given, with the parameters they were given for

vars == <<rows, symProfile, trade, tuner, edit, ratings>>

-----------------------------------------------------------------------------
Trades == 1 .. MaxTrades
Rows == 0 .. (OldRows + MaxTrades)
Scores == 0 .. MaxScore
Writers == {"default", "learned", "edited", "tuned"}

\* params: who set them; best, bestParams: autotuneBestEver; tunedAt, revertedAt:
\* autotuneLastAt and autotuneRevertedAt.
SymProfile == [params: Writers, best: Scores, bestParams: Writers, tunedAt: Rows, revertedAt: Rows]
Untouched == [params |-> "default", best |-> 0, bestParams |-> "default",
              tunedAt |-> 0, revertedAt |-> 0]

NotTuning == [pc |-> "none", sp |-> Untouched]
NoEdit == [pc |-> "idle", sp |-> Untouched]

\* Every variable has its type.
TypeOK ==
    /\ rows \in Rows
    /\ symProfile \in SymProfile
    /\ trade \in [Trades -> {"none", "noted", "recorded"}]
    /\ tuner \in [Trades -> [pc: {"none", "waiting", "due", "checking", "rolling", "reloading",
                                  "rating", "deciding", "writing"}, sp: SymProfile]]
    /\ edit \in [pc: {"idle", "loaded"}, sp: SymProfile]
    /\ ratings \subseteq Writers \X Scores

Init ==
    /\ rows = OldRows
    /\ symProfile = Untouched
    /\ trade = [t \in Trades |-> "none"]
    /\ tuner = [t \in Trades |-> NotTuning]
    /\ edit = NoEdit
    /\ ratings = {}

-----------------------------------------------------------------------------
(* What is learned from trades and scans.                                   *)

\* load_symbol_profile: a file that cannot be read is answered as if there were none.
Loaded == {symProfile, Untouched}

\* The file becomes the copy, or the save fails, which nobody is told.
Puts(sp) == symProfile' \in {sp, symProfile}

\* What the recorders make of the file.  Their context has not loaded it, so what was
\* in it does not pass into the merged profile.
Learned == [Untouched EXCEPT !.params = "learned"]

\* The trade's row is appended, or that fails.
Notes(t) ==
    /\ trade[t] = "none"
    /\ rows' \in {rows, rows + 1}
    /\ trade' = [trade EXCEPT ![t] = "noted"]
    /\ UNCHANGED <<symProfile, tuner, edit, ratings>>

\* The recorder commits, with or without a new symbol profile, and starts the tuner.
Records(t) ==
    /\ trade[t] = "noted"
    /\ Puts(Learned)
    /\ trade' = [trade EXCEPT ![t] = "recorded"]
    /\ tuner' = [tuner EXCEPT ![t].pc = "waiting"]
    /\ UNCHANGED <<rows, edit, ratings>>

\* A scan observation commits what it learned.
Observes ==
    /\ symProfile' = Learned
    /\ UNCHANGED <<rows, trade, tuner, edit, ratings>>

-----------------------------------------------------------------------------
(* The autotuner: record_trade_outcome, optimize_symbol.                     *)

At(t, pc) == tuner[t].pc = pc
Goes(t, pc, sp) == tuner' = [tuner EXCEPT ![t] = [pc |-> pc, sp |-> sp]]
TunerRest == UNCHANGED <<rows, trade, edit>>

\* record_trade_outcome: enough rows since the profile it loads was tuned.
TunerIsDue(t) ==
    /\ At(t, "waiting")
    /\ \E sp \in Loaded : rows - sp.tunedAt >= TuneEvery
    /\ Goes(t, "due", Untouched)
    /\ TunerRest /\ UNCHANGED <<symProfile, ratings>>

\* optimize_symbol loads the profile on its own.
TunerLoads(t) ==
    /\ At(t, "due")
    /\ \E sp \in Loaded : Goes(t, "checking", sp)
    /\ TunerRest /\ UNCHANGED <<symProfile, ratings>>

\* A phase that does not tune, too few rows, or no candidate: the thread ends.
TunerQuits(t) ==
    /\ tuner[t].pc \in {"waiting", "due", "deciding", "writing"}
    /\ tuner' = [tuner EXCEPT ![t] = NotTuning]
    /\ TunerRest /\ UNCHANGED <<symProfile, ratings>>

\* Do the trades since the last tuning suffice to judge it, and are there better ones?
Revertible(sp) ==
    /\ sp.tunedAt > 0 /\ rows - sp.tunedAt >= RevertAfter
    /\ sp.params # sp.bestParams

Reverted(sp) == [sp EXCEPT !.params = sp.bestParams, !.revertedAt = rows]

\* check_revert: they lost, and the best parameters known are put back ...
TunerReverts(t) ==
    /\ At(t, "checking") /\ Revertible(tuner[t].sp)
    /\ Puts(Reverted(tuner[t].sp))
    /\ Goes(t, "rolling", Reverted(tuner[t].sp))
    /\ TunerRest /\ UNCHANGED ratings

\* ... or not.
TunerSpares(t) ==
    /\ At(t, "checking")
    /\ Goes(t, "rolling", tuner[t].sp)
    /\ TunerRest /\ UNCHANGED <<symProfile, ratings>>

\* check_rollback_effectiveness saves the profile it was given with its verdict ...
TunerJudges(t) ==
    /\ At(t, "rolling")
    /\ tuner[t].sp.revertedAt > 0 /\ rows - tuner[t].sp.revertedAt >= RollbackAfter
    /\ Puts(tuner[t].sp)
    /\ Goes(t, "reloading", Untouched)
    /\ TunerRest /\ UNCHANGED ratings

\* ... or has too little to say.
TunerTrusts(t) ==
    /\ At(t, "rolling")
    /\ Goes(t, "reloading", Untouched)
    /\ TunerRest /\ UNCHANGED <<symProfile, ratings>>

TunerReloads(t) ==
    /\ At(t, "reloading")
    /\ \E sp \in Loaded : Goes(t, "rating", sp)
    /\ TunerRest /\ UNCHANGED <<symProfile, ratings>>

With(sp, score, params) == [sp EXCEPT !.best = score, !.bestParams = params]

\* (mutant) The parameters are read from the file when they are kept.
RatedLate(sp, score) ==
    (IF score <= sp.best THEN {sp} ELSE {})
      \cup (IF score >= sp.best THEN {With(sp, score, symProfile.params)} ELSE {})

\* (mutant) The score is added to the best one.
RatedUp(sp, score) == {With(sp, sp.best + score, sp.params)}

\* _update_best_ever: a score that beats the best one, or equals it and wins more, is
\* kept with its parameters.
Rated(sp, score) ==
    (IF score <= sp.best THEN {sp} ELSE {})
      \cup (IF score >= sp.best THEN {With(sp, score, sp.params)} ELSE {})

TunerRates(t) ==
    /\ At(t, "rating")
    /\ \E score \in Scores :
        /\ \E sp \in Rated(tuner[t].sp, score) : Puts(sp)
        /\ ratings' = ratings \cup {<<tuner[t].sp.params, score>>}
    /\ Goes(t, "deciding", Untouched)
    /\ TunerRest

\* A candidate was found and validated; apply_optimization loads the profile once more ...
TunerProposes(t) ==
    /\ At(t, "deciding")
    /\ \E sp \in Loaded : Goes(t, "writing", sp)
    /\ TunerRest /\ UNCHANGED <<symProfile, ratings>>

\* ... and saves it with the candidate.
TunerWrites(t) ==
    /\ At(t, "writing")
    /\ Puts([tuner[t].sp EXCEPT !.params = "tuned", !.tunedAt = rows])
    /\ tuner' = [tuner EXCEPT ![t] = NotTuning]
    /\ TunerRest /\ UNCHANGED ratings

-----------------------------------------------------------------------------
(* The operator, and restarts.                                              *)

\* hermes_set_symbol_profile: load, update, save, in a thread of the server.
EditLoads ==
    /\ edit.pc = "idle"
    /\ \E sp \in Loaded : edit' = [pc |-> "loaded", sp |-> sp]
    /\ UNCHANGED <<rows, symProfile, trade, tuner, ratings>>

EditSaves ==
    /\ edit.pc = "loaded"
    /\ Puts([edit.sp EXCEPT !.params = "edited"])
    /\ edit' = NoEdit
    /\ UNCHANGED <<rows, trade, tuner, ratings>>

\* External: the process ends, and the threads with it.
Restart ==
    /\ tuner' = [t \in Trades |-> NotTuning]
    /\ edit' = NoEdit
    /\ trade' = [t \in Trades |-> IF trade[t] = "noted" THEN "recorded" ELSE trade[t]]
    /\ UNCHANGED <<rows, symProfile, ratings>>

Autotuner(t) ==
    \/ TunerIsDue(t) \/ TunerLoads(t) \/ TunerQuits(t) \/ TunerReverts(t)
    \/ TunerSpares(t) \/ TunerJudges(t) \/ TunerTrusts(t) \/ TunerReloads(t) \/ TunerRates(t)
    \/ TunerProposes(t) \/ TunerWrites(t)

Next ==
    \/ \E t \in Trades : Notes(t) \/ Records(t) \/ Autotuner(t)
    \/ Observes
    \/ EditLoads \/ EditSaves
    \/ Restart

Spec == Init /\ [][Next]_vars

-----------------------------------------------------------------------------
(* What is wanted of it.                                                    *)

\* However old the copies are that overtake each other, the best score in the file is
\* one that was given, and its parameters are those it was given for: a revert never
\* puts back parameters under the score of others (symbol_autotuner.py:319).
BestWasRated ==
    symProfile.best > 0 => <<symProfile.bestParams, symProfile.best>> \in ratings

=============================================================================
