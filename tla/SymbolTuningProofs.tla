--------------------------- MODULE SymbolTuningProofs ---------------------------
(***************************************************************************)
(* No old copy that a writer puts back makes the best score in             *)
(* symbol_profile.json one that was never given: a score once given stays  *)
(* given, so what has to be inductive is that every copy, of the file, of  *)
(* a tuner's thread or of the operator's edit, holds a score that was.     *)
(*                                                                         *)
(* Types: a time stamp is a number of rows, and there are no more rows     *)
(* than the old ones and one for each trade that was noted.                *)
(***************************************************************************)
EXTENDS SymbolTuning, FiniteSetTheorems, TLAPS

Shape == [params: Writers, best: Nat, bestParams: Writers, tunedAt: Nat, revertedAt: Nat]

\* A copy whose best score was given to the parameters it names.
Honest(sp, given) == sp \in Shape /\ (sp.best > 0 => <<sp.bestParams, sp.best>> \in given)

RowsInv == rows \in Nat
FileInv == Honest(symProfile, ratings)
TunerInv ==
    /\ DOMAIN tuner = Trades
    /\ \A t \in Trades : tuner[t] = [pc |-> tuner[t].pc, sp |-> tuner[t].sp]
    /\ \A t \in Trades : Honest(tuner[t].sp, ratings)
EditInv == Honest(edit.sp, ratings)
CopiesInv == RowsInv /\ FileInv /\ TunerInv /\ EditInv

-----------------------------------------------------------------------------
LEMMA ScoresAreNat == Scores \subseteq Nat
BY TuningAssumption DEF Scores

LEMMA UntouchedIsHonest == \A given : Honest(Untouched, given)
BY DEF Honest, Untouched, Shape, Writers

LEMMA LearnedIsHonest == \A given : Honest(Learned, given)
BY DEF Honest, Learned, Untouched, Shape, Writers

\* Scores are only ever added.
LEMMA HonestStays ==
    ASSUME NEW sp, NEW given, NEW more, Honest(sp, given), given \subseteq more
    PROVE  Honest(sp, more)
BY DEF Honest

\* A revert, a tuning and an edit change the parameters in use, not the best ones.
LEMMA RevertIsHonest ==
    ASSUME NEW sp, NEW given, Honest(sp, given), RowsInv
    PROVE  Honest(Reverted(sp), given)
BY DEF Honest, Reverted, Shape, RowsInv

LEMMA TuningIsHonest ==
    ASSUME NEW sp, NEW given, Honest(sp, given), RowsInv
    PROVE  Honest([sp EXCEPT !.params = "tuned", !.tunedAt = rows], given)
BY DEF Honest, Shape, RowsInv, Writers

LEMMA EditIsHonest ==
    ASSUME NEW sp, NEW given, Honest(sp, given)
    PROVE  Honest([sp EXCEPT !.params = "edited"], given)
BY DEF Honest, Shape, Writers

\* _update_best_ever keeps what it had or the score it was handed.
LEMMA RatingIsHonest ==
    ASSUME NEW sp, NEW given, NEW score \in Scores, Honest(sp, given),
           NEW new \in Rated(sp, score)
    PROVE  Honest(new, given \cup {<<sp.params, score>>})
<1>1. score \in Nat
  BY ScoresAreNat
<1>2. CASE new = sp
  BY <1>2 DEF Honest
<1>3. CASE new = With(sp, score, sp.params)
  <2>1. new \in Shape
    BY <1>1, <1>3 DEF Honest, With, Shape
  <2>2. new.best = score /\ new.bestParams = sp.params
    BY <1>3 DEF Honest, With, Shape
  <2> QED
    BY <2>1, <2>2 DEF Honest
<1> QED
  BY <1>2, <1>3 DEF Rated

\* A save leaves the file as it was or replaces it by an honest copy.
LEMMA SaveIsHonest ==
    ASSUME NEW sp, Honest(sp, ratings), FileInv, Puts(sp)
    PROVE  Honest(symProfile', ratings)
BY DEF Puts, FileInv

\* A thread that takes an honest copy along, or none.
LEMMA GoesIsHonest ==
    ASSUME NEW t \in Trades, NEW pc, NEW sp, NEW given, TunerInv,
           ratings \subseteq given, ratings' = given, Honest(sp, given), Goes(t, pc, sp)
    PROVE  TunerInv'
<1>1. DOMAIN tuner' = Trades
  BY DEF Goes, TunerInv
<1>2. ASSUME NEW u \in Trades
      PROVE  /\ tuner'[u] = [pc |-> tuner'[u].pc, sp |-> tuner'[u].sp]
             /\ Honest(tuner'[u].sp, given)
  <2>1. CASE u = t
    BY <2>1 DEF Goes, TunerInv
  <2>2. CASE u # t
    <3>1. tuner'[u] = tuner[u]
      BY <2>2 DEF Goes, TunerInv
    <3> QED
      BY <3>1, HonestStays DEF TunerInv
  <2> QED
    BY <2>1, <2>2
<1> QED
  BY <1>1, <1>2 DEF TunerInv

-----------------------------------------------------------------------------
LEMMA CopiesInit == Init => CopiesInv
<1> SUFFICES ASSUME Init PROVE CopiesInv
  OBVIOUS
<1>1. RowsInv
  BY TuningAssumption DEF Init, RowsInv
<1>2. FileInv
  BY UntouchedIsHonest DEF Init, FileInv
<1>3. TunerInv
  BY UntouchedIsHonest DEF Init, TunerInv, NotTuning
<1>4. EditInv
  BY UntouchedIsHonest DEF Init, EditInv, NoEdit
<1> QED
  BY <1>1, <1>2, <1>3, <1>4 DEF CopiesInv

\* What is learned replaces the file by a copy without a best score.
LEMMA RecorderStep ==
    ASSUME CopiesInv, NEW t \in Trades, Notes(t) \/ Records(t)
    PROVE  CopiesInv'
<1>1. CASE Notes(t)
  BY <1>1 DEF Notes, CopiesInv, RowsInv, FileInv, TunerInv, EditInv
<1>2. CASE Records(t)
  <2>1. Honest(symProfile', ratings)
    BY <1>2, SaveIsHonest, LearnedIsHonest DEF Records, CopiesInv
  <2>2. TunerInv'
    BY <1>2 DEF Records, CopiesInv, TunerInv
  <2> QED
    BY <1>2, <2>1, <2>2 DEF Records, CopiesInv, RowsInv, FileInv, EditInv
<1> QED
  BY <1>1, <1>2

\* The tuner saves copies it has loaded, with one more rating at most.
LEMMA TunerStep ==
    ASSUME CopiesInv, NEW t \in Trades, Autotuner(t)
    PROVE  CopiesInv'
<1> USE DEF CopiesInv
<1>1. Honest(tuner[t].sp, ratings)
  BY DEF TunerInv
<1>2. Honest(symProfile, ratings)
  BY DEF FileInv
<1>3. RowsInv' /\ (ratings' = ratings => EditInv')
  BY DEF Autotuner, TunerIsDue, TunerLoads, TunerQuits, TunerReverts, TunerSpares,
         TunerJudges, TunerTrusts, TunerReloads, TunerRates, TunerProposes, TunerWrites,
         TunerRest,
         RowsInv, EditInv
<1>4. \A sp \in Loaded : Honest(sp, ratings)
  BY <1>2, UntouchedIsHonest DEF Loaded
<1>5. CASE TunerIsDue(t)
  <2>1. TunerInv'
    BY <1>5, UntouchedIsHonest, GoesIsHonest DEF TunerIsDue
  <2> QED
    BY <1>3, <1>5, <2>1 DEF TunerIsDue, FileInv
<1>6. CASE TunerLoads(t)
  <2>1. PICK sp \in Loaded : Goes(t, "checking", sp)
    BY <1>6 DEF TunerLoads
  <2>2. TunerInv'
    BY <1>6, <1>4, <2>1, GoesIsHonest DEF TunerLoads
  <2> QED
    BY <1>3, <1>6, <2>2 DEF TunerLoads, FileInv
<1>7. CASE TunerQuits(t)
  <2>1. TunerInv'
    BY <1>7, UntouchedIsHonest DEF TunerQuits, TunerInv, NotTuning
  <2> QED
    BY <1>3, <1>7, <2>1 DEF TunerQuits, FileInv
<1>8. CASE TunerReverts(t)
  <2>1. Honest(Reverted(tuner[t].sp), ratings)
    BY <1>1, RevertIsHonest
  <2>2. TunerInv'
    BY <1>8, <2>1, GoesIsHonest DEF TunerReverts
  <2>3. Honest(symProfile', ratings)
    BY <1>8, <2>1, SaveIsHonest DEF TunerReverts
  <2> QED
    BY <1>3, <1>8, <2>2, <2>3 DEF TunerReverts, FileInv
<1>9. CASE TunerSpares(t)
  <2>1. TunerInv'
    BY <1>1, <1>9, GoesIsHonest DEF TunerSpares
  <2> QED
    BY <1>3, <1>9, <2>1 DEF TunerSpares, FileInv
<1>10. CASE TunerJudges(t)
  <2>1. TunerInv'
    BY <1>10, UntouchedIsHonest, GoesIsHonest DEF TunerJudges
  <2>2. Honest(symProfile', ratings)
    BY <1>1, <1>10, SaveIsHonest DEF TunerJudges
  <2> QED
    BY <1>3, <1>10, <2>1, <2>2 DEF TunerJudges, FileInv
<1>11. CASE TunerTrusts(t)
  <2>1. TunerInv'
    BY <1>11, UntouchedIsHonest, GoesIsHonest DEF TunerTrusts
  <2> QED
    BY <1>3, <1>11, <2>1 DEF TunerTrusts, FileInv
<1>12. CASE TunerReloads(t)
  <2>1. PICK sp \in Loaded : Goes(t, "rating", sp)
    BY <1>12 DEF TunerReloads
  <2>2. TunerInv'
    BY <1>12, <1>4, <2>1, GoesIsHonest DEF TunerReloads
  <2> QED
    BY <1>3, <1>12, <2>2 DEF TunerReloads, FileInv
<1>13. CASE TunerRates(t)
  <2>1. PICK score \in Scores :
          /\ \E sp \in Rated(tuner[t].sp, score) : Puts(sp)
          /\ ratings' = ratings \cup {<<tuner[t].sp.params, score>>}
    BY <1>13 DEF TunerRates
  <2>2. PICK sp \in Rated(tuner[t].sp, score) : Puts(sp)
    BY <2>1
  <2>3. Honest(sp, ratings')
    BY <1>1, <2>1, RatingIsHonest
  <2>4. Honest(symProfile, ratings') /\ EditInv'
    <3>1. Honest(edit.sp, ratings')
      BY <2>1, HonestStays DEF EditInv
    <3>2. edit' = edit
      BY <1>13 DEF TunerRates, TunerRest
    <3> QED
      BY <1>2, <2>1, <3>1, <3>2, HonestStays DEF EditInv
  <2>5. FileInv'
    BY <2>2, <2>3, <2>4 DEF Puts, FileInv
  <2>6. TunerInv'
    <3>1. Goes(t, "deciding", Untouched)
      BY <1>13 DEF TunerRates
    <3>2. ratings \subseteq ratings'
      BY <2>1
    <3> QED
      BY <3>1, <3>2, UntouchedIsHonest, GoesIsHonest
  <2> QED
    BY <1>3, <2>4, <2>5, <2>6
<1>14. CASE TunerProposes(t)
  <2>1. PICK sp \in Loaded : Goes(t, "writing", sp)
    BY <1>14 DEF TunerProposes
  <2>2. TunerInv'
    BY <1>14, <1>4, <2>1, GoesIsHonest DEF TunerProposes
  <2> QED
    BY <1>3, <1>14, <2>2 DEF TunerProposes, FileInv
<1>15. CASE TunerWrites(t)
  <2>1. TunerInv'
    BY <1>15, UntouchedIsHonest DEF TunerWrites, TunerInv, NotTuning
  <2>2. Honest([tuner[t].sp EXCEPT !.params = "tuned", !.tunedAt = rows], ratings)
    BY <1>1, TuningIsHonest
  <2>3. Honest(symProfile', ratings)
    BY <1>15, <2>2, SaveIsHonest DEF TunerWrites
  <2> QED
    BY <1>3, <1>15, <2>1, <2>3 DEF TunerWrites, FileInv
<1> QED
  BY <1>5, <1>6, <1>7, <1>8, <1>9, <1>10, <1>11, <1>12, <1>13, <1>14, <1>15
     DEF Autotuner

\* The edit is a loaded copy with other parameters; a restart drops all copies.
LEMMA OwnerStep ==
    ASSUME CopiesInv, EditLoads \/ EditSaves \/ Restart
    PROVE  CopiesInv'
<1> USE DEF CopiesInv
<1>1. CASE EditLoads
  <2>1. PICK sp \in Loaded : edit' = [pc |-> "loaded", sp |-> sp]
    BY <1>1 DEF EditLoads
  <2>2. Honest(sp, ratings)
    BY <2>1, UntouchedIsHonest DEF Loaded, FileInv
  <2> QED
    BY <1>1, <2>1, <2>2 DEF EditLoads, RowsInv, FileInv, TunerInv, EditInv
<1>2. CASE EditSaves
  <2>1. Honest(symProfile', ratings)
    BY <1>2, SaveIsHonest, EditIsHonest DEF EditSaves, EditInv
  <2>2. EditInv'
    BY <1>2, UntouchedIsHonest DEF EditSaves, EditInv, NoEdit
  <2> QED
    BY <1>2, <2>1, <2>2 DEF EditSaves, RowsInv, FileInv, TunerInv
<1>3. CASE Restart
  BY <1>3, UntouchedIsHonest
     DEF Restart, RowsInv, FileInv, TunerInv, EditInv, NotTuning, NoEdit
<1> QED
  BY <1>1, <1>2, <1>3

LEMMA CopiesStep == CopiesInv /\ [Next]_vars => CopiesInv'
<1> SUFFICES ASSUME CopiesInv, [Next]_vars PROVE CopiesInv'
  OBVIOUS
<1>1. CASE \E t \in Trades : Notes(t) \/ Records(t) \/ Autotuner(t)
  BY <1>1, RecorderStep, TunerStep
<1>2. CASE Observes
  BY <1>2, LearnedIsHonest DEF Observes, CopiesInv, RowsInv, FileInv, TunerInv, EditInv
<1>3. CASE EditLoads \/ EditSaves \/ Restart
  BY <1>3, OwnerStep
<1>4. CASE UNCHANGED vars
  BY <1>4 DEF vars, CopiesInv, RowsInv, FileInv, TunerInv, EditInv
<1> QED
  BY <1>1, <1>2, <1>3, <1>4 DEF Next

\* For any number of trades, tuners at work and scores: the best score in the file was
\* given, and to the parameters beside it (_update_best_ever).
THEOREM BestIsHonest == Spec => []BestWasRated
<1>1. CopiesInv => BestWasRated
  BY DEF CopiesInv, FileInv, Honest, BestWasRated
<1> QED
  BY <1>1, CopiesInit, CopiesStep, PTL DEF Spec
-----------------------------------------------------------------------------
(* Types.                                                                   *)

Thread == [pc: {"none", "waiting", "due", "checking", "rolling", "reloading", "rating",
                "deciding", "writing"}, sp: SymProfile]
Phases == {"none", "noted", "recorded"}

Noted == {t \in Trades : trade[t] # "none"}

\* A row is of a trade that was noted.
RowsCounted == rows \in Nat /\ rows <= OldRows + Cardinality(Noted)

TypeInv ==
    /\ symProfile \in SymProfile
    /\ trade \in [Trades -> Phases]
    /\ tuner \in [Trades -> Thread]
    /\ edit \in [pc: {"idle", "loaded"}, sp: SymProfile]
    /\ ratings \subseteq Writers \X Scores
    /\ RowsCounted

LEMMA BoundsAreNat == OldRows \in Nat /\ MaxTrades \in Nat /\ MaxScore \in Nat
BY TuningAssumption

\* There are at most as many noted trades as trades.
LEMMA NotedIsFinite ==
    IsFiniteSet(Noted) /\ Cardinality(Noted) \in Nat /\ Cardinality(Noted) <= MaxTrades
<1>1. IsFiniteSet(Trades) /\ Cardinality(Trades) = MaxTrades
  BY BoundsAreNat, FS_Interval DEF Trades
<1>2. Noted \subseteq Trades
  BY DEF Noted
<1>3. IsFiniteSet(Noted) /\ Cardinality(Noted) <= Cardinality(Trades)
  BY <1>1, <1>2, FS_Subset
<1> QED
  BY <1>1, <1>3, FS_CardinalityType

\* So the rows stay within the type's bound.
LEMMA RowsAreRows ==
    ASSUME RowsCounted
    PROVE  rows \in Rows
BY NotedIsFinite, BoundsAreNat DEF RowsCounted, Rows

LEMMA UntouchedIsTyped == Untouched \in SymProfile
BY BoundsAreNat DEF Untouched, SymProfile, Writers, Scores, Rows

LEMMA LearnedIsTyped == Learned \in SymProfile
BY UntouchedIsTyped DEF Learned, SymProfile, Writers

LEMMA RevertIsTyped ==
    ASSUME NEW sp \in SymProfile, RowsCounted
    PROVE  Reverted(sp) \in SymProfile
BY RowsAreRows DEF Reverted, SymProfile

LEMMA TuningIsTyped ==
    ASSUME NEW sp \in SymProfile, RowsCounted
    PROVE  [sp EXCEPT !.params = "tuned", !.tunedAt = rows] \in SymProfile
BY RowsAreRows DEF SymProfile, Writers

LEMMA EditIsTyped ==
    ASSUME NEW sp \in SymProfile
    PROVE  [sp EXCEPT !.params = "edited"] \in SymProfile
BY DEF SymProfile, Writers

LEMMA RatingIsTyped ==
    ASSUME NEW sp \in SymProfile, NEW score \in Scores, NEW new \in Rated(sp, score)
    PROVE  new \in SymProfile
BY DEF Rated, With, SymProfile

LEMMA TypesInit == Init => TypeInv
<1> SUFFICES ASSUME Init PROVE TypeInv
  OBVIOUS
<1>1. Noted = {}
  BY DEF Init, Noted
<1>2. Cardinality(Noted) = 0
  BY <1>1, FS_EmptySet
<1>3. RowsCounted
  BY <1>2, BoundsAreNat DEF Init, RowsCounted
<1>4. tuner \in [Trades -> Thread] /\ edit \in [pc: {"idle", "loaded"}, sp: SymProfile]
  BY UntouchedIsTyped DEF Init, NotTuning, NoEdit, Thread
<1> QED
  BY <1>3, <1>4, UntouchedIsTyped DEF Init, TypeInv, Phases

\* A trade is noted with one row at most.
LEMMA NotesCounts ==
    ASSUME TypeInv, NEW t \in Trades, Notes(t)
    PROVE  RowsCounted'
<1>1. Noted' = Noted \cup {t} /\ t \notin Noted
  BY DEF Notes, Noted, TypeInv
<1>2. Cardinality(Noted') = Cardinality(Noted) + 1
  BY <1>1, NotedIsFinite, FS_AddElement
<1>3. rows' \in {rows, rows + 1}
  BY DEF Notes
<1> QED
  BY <1>2, <1>3, NotedIsFinite, BoundsAreNat DEF TypeInv, RowsCounted

\* Every other step keeps the rows and whatever was noted.
LEMMA CountStays ==
    ASSUME TypeInv, rows' = rows, \A t \in Trades : trade'[t] = "none" <=> trade[t] = "none"
    PROVE  RowsCounted'
<1>1. Noted' = Noted
  BY DEF Noted
<1> QED
  BY <1>1 DEF TypeInv, RowsCounted

LEMMA RecorderTypes ==
    ASSUME TypeInv, NEW t \in Trades, Notes(t) \/ Records(t)
    PROVE  TypeInv'
<1>1. CASE Notes(t)
  <2>1. trade' \in [Trades -> Phases]
    BY <1>1 DEF Notes, TypeInv, Phases
  <2> QED
    BY <1>1, <2>1, NotesCounts DEF Notes, TypeInv
<1>2. CASE Records(t)
  <2>1. trade' \in [Trades -> Phases]
    BY <1>2 DEF Records, TypeInv, Phases
  <2>2. RowsCounted'
    <3>1. \A u \in Trades : trade'[u] = "none" <=> trade[u] = "none"
      BY <1>2 DEF Records, TypeInv
    <3> QED
      BY <1>2, <3>1, CountStays DEF Records
  <2>3. tuner' \in [Trades -> Thread]
    BY <1>2 DEF Records, TypeInv, Thread
  <2>4. symProfile' \in SymProfile
    BY <1>2, LearnedIsTyped DEF Records, Puts, TypeInv
  <2> QED
    BY <1>2, <2>1, <2>2, <2>3, <2>4 DEF Records, TypeInv
<1> QED
  BY <1>1, <1>2

LEMMA GoesIsTyped ==
    ASSUME TypeInv, NEW t \in Trades, NEW sp \in SymProfile,
           NEW pc \in {"none", "waiting", "due", "checking", "rolling", "reloading",
                       "rating", "deciding", "writing"}, Goes(t, pc, sp)
    PROVE  tuner' \in [Trades -> Thread]
BY DEF Goes, TypeInv, Thread

LEMMA TunerTypes ==
    ASSUME TypeInv, NEW t \in Trades, Autotuner(t)
    PROVE  TypeInv'
<1>1. tuner[t].sp \in SymProfile /\ symProfile \in SymProfile /\ RowsCounted
  BY DEF TypeInv, Thread
<1>2. UNCHANGED <<rows, trade, edit>>
  BY DEF Autotuner, TunerIsDue, TunerLoads, TunerQuits, TunerReverts, TunerSpares,
         TunerJudges, TunerTrusts, TunerReloads, TunerRates, TunerProposes, TunerWrites,
         TunerRest
<1>3. RowsCounted'
  BY <1>2, CountStays
<1>4. ASSUME symProfile' \in SymProfile, tuner' \in [Trades -> Thread],
             ratings' \subseteq Writers \X Scores
      PROVE  TypeInv'
  BY <1>2, <1>3, <1>4 DEF TypeInv
<1>5. ratings \subseteq Writers \X Scores
  BY DEF TypeInv
<1>6. ASSUME NEW sp \in SymProfile, Puts(sp) PROVE symProfile' \in SymProfile
  BY <1>1, <1>6 DEF Puts
<1>7. Loaded \subseteq SymProfile
  BY <1>1, UntouchedIsTyped DEF Loaded
<1>8. CASE TunerIsDue(t)
  BY <1>1, <1>4, <1>5, <1>8, GoesIsTyped, UntouchedIsTyped DEF TunerIsDue
<1>9. CASE TunerLoads(t)
  BY <1>1, <1>4, <1>5, <1>7, <1>9, GoesIsTyped DEF TunerLoads
<1>10. CASE TunerQuits(t)
  <2>1. Goes(t, "none", Untouched)
    BY <1>10 DEF TunerQuits, Goes, NotTuning
  <2> QED
    BY <1>1, <1>4, <1>5, <1>10, <2>1, GoesIsTyped, UntouchedIsTyped DEF TunerQuits
<1>11. CASE TunerReverts(t)
  <2>1. Reverted(tuner[t].sp) \in SymProfile
    BY <1>1, RevertIsTyped
  <2> QED
    BY <1>4, <1>5, <1>6, <1>11, <2>1, GoesIsTyped DEF TunerReverts
<1>12. CASE TunerSpares(t)
  BY <1>1, <1>4, <1>5, <1>12, GoesIsTyped DEF TunerSpares
<1>13. CASE TunerJudges(t)
  BY <1>1, <1>4, <1>5, <1>6, <1>13, GoesIsTyped, UntouchedIsTyped DEF TunerJudges
<1>14. CASE TunerTrusts(t)
  BY <1>1, <1>4, <1>5, <1>14, GoesIsTyped, UntouchedIsTyped DEF TunerTrusts
<1>15. CASE TunerReloads(t)
  BY <1>1, <1>4, <1>5, <1>15, <1>7, GoesIsTyped DEF TunerReloads
<1>16. CASE TunerRates(t)
  <2>1. PICK score \in Scores :
          /\ \E sp \in Rated(tuner[t].sp, score) : Puts(sp)
          /\ ratings' = ratings \cup {<<tuner[t].sp.params, score>>}
    BY <1>16 DEF TunerRates
  <2>2. PICK sp \in Rated(tuner[t].sp, score) : Puts(sp)
    BY <2>1
  <2>3. symProfile' \in SymProfile
    BY <1>1, <1>6, <2>2, RatingIsTyped
  <2>4. ratings' \subseteq Writers \X Scores
    <3>1. tuner[t].sp.params \in Writers
      BY <1>1 DEF SymProfile
    <3> QED
      BY <1>5, <2>1, <3>1
  <2>5. tuner' \in [Trades -> Thread]
    BY <1>16, GoesIsTyped, UntouchedIsTyped DEF TunerRates
  <2> QED
    BY <1>4, <2>3, <2>4, <2>5
<1>17. CASE TunerProposes(t)
  BY <1>1, <1>4, <1>5, <1>17, <1>7, GoesIsTyped DEF TunerProposes
<1>18. CASE TunerWrites(t)
  <2>1. [tuner[t].sp EXCEPT !.params = "tuned", !.tunedAt = rows] \in SymProfile
    BY <1>1, TuningIsTyped
  <2>2. Goes(t, "none", Untouched)
    BY <1>18 DEF TunerWrites, Goes, NotTuning
  <2> QED
    BY <1>4, <1>5, <1>6, <1>18, <2>1, <2>2, GoesIsTyped, UntouchedIsTyped DEF TunerWrites
<1> QED
  BY <1>8, <1>9, <1>10, <1>11, <1>12, <1>13, <1>14, <1>15, <1>16, <1>17,
     <1>18 DEF Autotuner

LEMMA OwnerTypes ==
    ASSUME TypeInv, Observes \/ EditLoads \/ EditSaves \/ Restart \/ UNCHANGED vars
    PROVE  TypeInv'
<1>1. CASE Observes
  <2>1. RowsCounted'
    BY <1>1, CountStays DEF Observes
  <2> QED
    BY <1>1, <2>1, LearnedIsTyped DEF Observes, TypeInv
<1>2. CASE EditLoads
  <2>1. RowsCounted'
    BY <1>2, CountStays DEF EditLoads
  <2>2. Loaded \subseteq SymProfile
    BY UntouchedIsTyped DEF Loaded, TypeInv
  <2> QED
    BY <1>2, <2>1, <2>2 DEF EditLoads, TypeInv
<1>3. CASE EditSaves
  <2>1. RowsCounted'
    BY <1>3, CountStays DEF EditSaves
  <2>2. symProfile' \in SymProfile
    BY <1>3, EditIsTyped DEF EditSaves, Puts, TypeInv
  <2> QED
    BY <1>3, <2>1, <2>2, UntouchedIsTyped DEF EditSaves, NoEdit, TypeInv
<1>4. CASE Restart
  <2>1. trade' \in [Trades -> Phases]
    BY <1>4 DEF Restart, TypeInv, Phases
  <2>2. RowsCounted'
    <3>1. \A u \in Trades : trade'[u] = "none" <=> trade[u] = "none"
      BY <1>4 DEF Restart, TypeInv
    <3> QED
      BY <1>4, <3>1, CountStays DEF Restart
  <2>3. tuner' \in [Trades -> Thread] /\ edit' \in [pc: {"idle", "loaded"}, sp: SymProfile]
    BY <1>4, UntouchedIsTyped DEF Restart, NotTuning, NoEdit, Thread
  <2> QED
    BY <1>4, <2>1, <2>2, <2>3 DEF Restart, TypeInv
<1>5. CASE UNCHANGED vars
  <2>1. RowsCounted'
    BY <1>5, CountStays DEF vars
  <2> QED
    BY <1>5, <2>1 DEF vars, TypeInv
<1> QED
  BY <1>1, <1>2, <1>3, <1>4, <1>5

LEMMA TypesStep == TypeInv /\ [Next]_vars => TypeInv'
BY RecorderTypes, TunerTypes, OwnerTypes DEF Next

\* Every variable keeps its type, and no time stamp is past the rows there can be,
\* however old the copy that carries it (symbol_autotuner.py, record_trade_outcome).
THEOREM SymbolTypes == Spec => []TypeOK
<1>1. TypeInv => TypeOK
  BY RowsAreRows DEF TypeInv, TypeOK, Thread, Phases
<1> QED
  BY <1>1, TypesInit, TypesStep, PTL DEF Spec
=============================================================================
