--------------------------- MODULE TuningLocksProofs ---------------------------
(***************************************************************************)
(* Proof that the locks govern and the cooldowns hold, for every set of    *)
(* reviews, every length of the lock, of the cooldowns and of the history, *)
(* and any number of changes.  A commit adds one change to the history,    *)
(* drops the oldest when it is full, and leaves the others as they are but *)
(* for their `reverted' (HistoryGrows); a lock that is stamped has no      *)
(* change after it; and what a call has tested still stands when it        *)
(* commits (Stands), unless calls clash.                                   *)
(***************************************************************************)
EXTENDS TuningLocks, TLAPS, SequenceTheorems, WellFoundedInduction

Modes == {"tightening", "loosening", "neutral", "undo"}
Delegation == [at: Int, stuck: BOOLEAN]

(* The invariant.                                                          *)

\* Changes are numbered up to `made', stamps are not above it, and a delegation is at least
\* as young as what the history holds of its tuner.
HistoryInv ==
    /\ history \in Seq(Change) /\ Len(history) <= KeepLast
    /\ last \in [Tuners -> Delegation]
    /\ \A i \in DOMAIN history : history[i].n <= made
    /\ \A i \in DOMAIN history : history[i].at <= last[history[i].key].at
    /\ \A t \in Tuners : last[t].at <= now

LocksInv ==
    /\ locks \in [Domains -> Lock]
    /\ \A d \in Domains : locks[d].from <= made

\* A call under way is a tuner's that has a direction; two tuners ask for no lock.
WellFormed(c) ==
    /\ c.pc = "none" => c.key = "none"
    /\ c.pc # "none" => c.key \in Tuners /\ c.mode \in Directions
    /\ c.pc = "tested" => c.want \in Domains
    /\ c.key # "loss_streak_self_review" /\ c.key # "bad_utc_hour"

CallsInv ==
    /\ calls \in [Reviews -> Call]
    /\ \A r \in Reviews : WellFormed(calls[r])

CountersInv ==
    /\ clash \in BOOLEAN
    /\ now \in Nat /\ made \in Nat /\ restarts \in Nat

Basis == HistoryInv /\ LocksInv /\ CallsInv /\ CountersInv

\* What the two properties say while no calls clash.
Governs ==
    \A d \in Domains, i \in DOMAIN history :
        /\ Held(d)
        /\ history[i].n > locks[d].from
        /\ d \in history[i].domains
        /\ history[i].key # "loss_streak_self_review"
        => history[i].mode = locks[d].mode

Waits ==
    \A i, j \in DOMAIN history :
        /\ i < j
        /\ history[j].key = history[i].key
        /\ history[i].key \in Patient
        /\ history[j].mode # "undo"
        => history[j].at - history[i].at >= CooldownFor

\* What a call has tested still holds when it commits: a domain it has or wants is held for
\* its own direction, if at all; its tuner is not cooling; no other call is of its tuner.
Stands(r) ==
    /\ \A d \in Domains : d \in calls[r].has \cup {calls[r].want} =>
           (Held(d) => locks[d].mode = calls[r].mode)
    /\ calls[r].key \in Patient => ~Cooling(calls[r].key)
    /\ \A q \in Reviews \ {r} : calls[q].key = calls[r].key => calls[r].key = "none"

AllStand == \A r \in Reviews : Stands(r)

Inv == Basis /\ (clash \/ (Governs /\ Waits /\ AllStand))

LEMMA BasisTypes == Basis => TypeOK
BY DEF Basis, HistoryInv, LocksInv, CallsInv, CountersInv, TypeOK, Delegation

\* The same change, taken back or not.
Same(a, b) ==
    /\ a.n = b.n /\ a.key = b.key /\ a.mode = b.mode
    /\ a.at = b.at /\ a.domains = b.domains

\* The history, but for what is taken back.
CopyOf(hist) ==
    /\ hist \in Seq(Change)
    /\ Len(hist) = Len(history)
    /\ \A i \in 1 .. Len(history) : Same(hist[i], history[i])

IsNew(c, t, mode, domains) ==
    /\ c.n = made + 1 /\ c.key = t /\ c.mode = mode
    /\ c.at = now /\ c.domains = domains

\* The last change is new, and the others were there, k places further on.
Shifted(t, mode, domains) ==
    \E k \in {0, 1} :
        \A i \in 1 .. Len(history') :
           \/ i = Len(history') /\ IsNew(history'[i], t, mode, domains)
           \/ /\ i < Len(history')
              /\ i + k \in 1 .. Len(history)
              /\ Same(history'[i], history[i + k])

HistoryGrows(t, mode, domains) ==
    /\ history' \in Seq(Change)
    /\ Len(history') <= KeepLast
    /\ last' \in [Tuners -> Delegation]
    /\ \/ CopyOf(history') /\ last' = last
       \/ /\ last'[t].at = now
          /\ \A u \in Tuners \ {t} : last'[u] = last[u]
          /\ Shifted(t, mode, domains)

-----------------------------------------------------------------------------
(* The newest of a tuner's open changes is one of them.                    *)

\* A set of natural numbers that has a member has a least one,
LEMMA LeastElement ==
    ASSUME NEW S \in SUBSET Nat, S # {}
    PROVE  \E m \in S : \A n \in S : m <= n
<1>1. PICK m \in S : \A n \in S : ~(<<n, m>> \in OpToRel(<, Nat))
    BY NatLessThanWellFounded, WFMin, Zenon
<1>2. ASSUME NEW n \in S PROVE m <= n
  <2>1. <<n, m>> \notin OpToRel(<, Nat)
      BY <1>1, Zenon
  <2>2. ~(n < m)
      BY <2>1, Zenon DEF OpToRel
  <2> QED BY <2>2
<1> QED BY <1>2

\* and a bounded one a greatest.
LEMMA GreatestElement ==
    ASSUME NEW N \in Nat, NEW S \in SUBSET (1 .. N), S # {}
    PROVE  \E m \in S : \A n \in S : n <= m
<1> DEFINE T == {N - k : k \in S}
<1>1. T \in SUBSET Nat /\ T # {}
  <2>1. ASSUME NEW k \in S PROVE N - k \in Nat
      BY k \in 1 .. N
  <2>2. PICK k \in S : TRUE
      OBVIOUS
  <2>3. N - k \in T
      BY <2>2
  <2> QED BY <2>1, <2>3
<1>2. PICK t \in T : \A u \in T : t <= u
    BY <1>1, LeastElement
<1>3. PICK m \in S : t = N - m
    BY <1>2
<1>4. ASSUME NEW n \in S PROVE n <= m
  <2>1. N - m <= N - n
      BY <1>2, <1>3
  <2> QED BY <2>1
<1> QED BY <1>4

LEMMA NewestIsThere ==
    ASSUME TypeOK, NEW t, MayRollback(t)
    PROVE  Newest(t) \in DOMAIN history
<1>1. Open(t) \in SUBSET (1 .. Len(history)) /\ Len(history) \in Nat
    BY DEF TypeOK, Open
<1>2. Open(t) # {}
    BY DEF MayRollback
<1>3. \E m \in Open(t) : \A n \in Open(t) : n <= m
    BY <1>1, <1>2, GreatestElement
<1>4. Newest(t) \in Open(t)
    BY <1>3 DEF Newest
<1> QED BY <1>4 DEF Open

-----------------------------------------------------------------------------
(* What a commit makes of the history.                                     *)

LEMMA Itself == TypeOK => CopyOf(history)
BY DEF TypeOK, CopyOf, Same

LEMMA TakenBackIsCopy ==
    ASSUME TypeOK, NEW e \in DOMAIN history
    PROVE  CopyOf([history EXCEPT ![e].reverted = TRUE])
<1> DEFINE hist == [history EXCEPT ![e].reverted = TRUE]
<1>1. history \in Seq(Change)
    BY DEF TypeOK
<1>2. history[e] \in Change
    BY <1>1
<1>3. [history[e] EXCEPT !.reverted = TRUE] \in Change
    BY <1>2 DEF Change
<1>4. hist \in Seq(Change) /\ Len(hist) = Len(history)
  <2> HIDE DEF Change
  <2> QED BY <1>1, <1>3
<1>5. \A i \in 1 .. Len(history) : Same(hist[i], history[i])
  <2> SUFFICES ASSUME NEW i \in 1 .. Len(history) PROVE Same(hist[i], history[i])
      OBVIOUS
  <2>1. history[i] \in Change
      BY <1>1
  <2>2. hist[i] = IF i = e THEN [history[e] EXCEPT !.reverted = TRUE] ELSE history[i]
    <3>1. i \in DOMAIN history
        BY <1>1
    <3> QED BY <3>1, Zenon
  <2> HIDE DEF hist
  <2> QED BY <2>1, <2>2 DEF Same, Change
<1> QED BY <1>4, <1>5 DEF CopyOf

\* The last change of h is c, and the others were there, k places further on.
EndsWith(h, c) ==
    \E k \in {0, 1} : \A i \in 1 .. Len(h) :
       \/ i = Len(h) /\ h[i] = c
       \/ /\ i < Len(h)
          /\ i + k \in 1 .. Len(history)
          /\ Same(h[i], history[i + k])

\* Appending c to a copy, and dropping the oldest if that is too many.
LEMMA KeptIsShifted ==
    ASSUME TypeOK, NEW hist, CopyOf(hist), NEW c \in Change,
           NEW h, h = KeepNewest(Append(hist, c))
    PROVE  /\ h \in Seq(Change)
           /\ Len(h) <= KeepLast
           /\ EndsWith(h, c)
<1> DEFINE a == Append(hist, c)
<1> USE DEF CopyOf
<1>1. /\ history \in Seq(Change) /\ Len(history) <= KeepLast
      /\ KeepLast \in Nat \ {0}
    BY ParametersAssumption DEF TypeOK
<1>2. /\ a \in Seq(Change)
      /\ Len(a) = Len(history) + 1
      /\ a[Len(a)] = c
      /\ \A i \in 1 .. Len(history) : Same(a[i], history[i])
    BY <1>1
<1> HIDE DEF a, Change
<1>3. CASE Len(a) > KeepLast
  <2>1. h = Tail(a)
      BY <1>3 DEF KeepNewest, a
  <2>2. h \in Seq(Change) /\ Len(h) = Len(history)
      BY <2>1, <1>1, <1>2, <1>3
  <2>3. \A i \in 1 .. Len(h) : h[i] = a[i + 1]
      BY <2>1, <2>2, <1>2
  <2>4. \A i \in 1 .. Len(h) :
           \/ i = Len(h) /\ h[i] = c
           \/ i < Len(h) /\ i + 1 \in 1 .. Len(history) /\ Same(h[i], history[i + 1])
      BY <2>2, <2>3, <1>1, <1>2
  <2>5. EndsWith(h, c)
      BY <2>4 DEF EndsWith
  <2> QED BY <2>2, <2>5, <1>1
<1>4. CASE ~(Len(a) > KeepLast)
  <2>1. h = a
      BY <1>4 DEF KeepNewest, a
  <2>2. \A i \in 1 .. Len(h) :
           \/ i = Len(h) /\ h[i] = c
           \/ i < Len(h) /\ i + 0 \in 1 .. Len(history) /\ Same(h[i], history[i + 0])
      BY <2>1, <1>1, <1>2
  <2>3. EndsWith(h, c)
      BY <2>2 DEF EndsWith
  <2> QED BY <2>1, <2>3, <1>1, <1>2, <1>4
<1> QED BY <1>3, <1>4

LEMMA CommitGrows ==
    ASSUME TypeOK, NEW hist, CopyOf(hist), NEW t \in Tuners, NEW mode \in Modes,
           NEW domains \in SUBSET Domains, NEW stuck \in BOOLEAN,
           Commit(t, mode, domains, hist, stuck)
    PROVE  HistoryGrows(t, mode, domains) /\ made' = made + 1
<1> DEFINE c == [n |-> made + 1, key |-> t, mode |-> mode, at |-> now,
                 domains |-> domains, reverted |-> FALSE]
<1>1. c \in Change
    BY DEF TypeOK, Change, Modes
<1>2. c.n = made + 1 /\ c.key = t /\ c.mode = mode /\ c.at = now /\ c.domains = domains
    OBVIOUS
<1>3. IsNew(c, t, mode, domains)
    BY <1>2 DEF IsNew
<1> HIDE DEF c
<1>4. CASE /\ last' = [last EXCEPT ![t] = [at |-> now, stuck |-> stuck]]
           /\ history' = KeepNewest(Append(hist, c))
  <2>1. /\ last' \in [Tuners -> Delegation]
        /\ last'[t].at = now
        /\ \A u \in Tuners \ {t} : last'[u] = last[u]
      BY <1>4 DEF TypeOK, Delegation
  <2>4. history' = KeepNewest(Append(hist, c))
      BY <1>4
  <2>2. history' \in Seq(Change) /\ Len(history') <= KeepLast /\ EndsWith(history', c)
      BY <2>4, <1>1, KeptIsShifted, Zenon
  <2>3. Shifted(t, mode, domains)
    <3> DEFINE Slid(k) == \A i \in 1 .. Len(history') :
                \/ i = Len(history') /\ history'[i] = c
                \/ /\ i < Len(history')
                   /\ i + k \in 1 .. Len(history)
                   /\ Same(history'[i], history[i + k])
    <3>1. PICK k \in {0, 1} : Slid(k)
        BY <2>2, Zenon DEF EndsWith
    <3> QED BY <3>1, <1>3, Zenon DEF Shifted
  <2> QED BY <2>1, <2>2, <2>3, <1>4 DEF HistoryGrows, Commit
<1>5. CASE history' = hist /\ last' = last
    BY <1>5 DEF HistoryGrows, Commit, TypeOK, CopyOf, Delegation
<1> QED BY <1>4, <1>5 DEF Commit, c

-----------------------------------------------------------------------------
(* What a change keeps.                                                    *)

\* An entry of the history is either new or stood there before.
LEMMA OldOrNew ==
    ASSUME Basis, NEW t \in Tuners, NEW mode, NEW domains, HistoryGrows(t, mode, domains),
           NEW i \in DOMAIN history'
    PROVE  \/ IsNew(history'[i], t, mode, domains) /\ last'[t].at = now
           \/ \E j \in DOMAIN history : Same(history'[i], history[j])
<1>1. /\ DOMAIN history = 1 .. Len(history)
      /\ DOMAIN history' = 1 .. Len(history')
    BY DEF HistoryGrows, Basis, HistoryInv
<1>2. CASE CopyOf(history')
    BY <1>1, <1>2 DEF CopyOf
<1>3. CASE Shifted(t, mode, domains) /\ last'[t].at = now
  <2>1. PICK k \in {0, 1} : \/ i = Len(history') /\ IsNew(history'[i], t, mode, domains)
                           \/ /\ i < Len(history')
                              /\ i + k \in 1 .. Len(history)
                              /\ Same(history'[i], history[i + k])
      BY <1>1, <1>3 DEF Shifted
  <2> QED BY <2>1, <1>1, <1>3
<1> QED BY <1>2, <1>3 DEF HistoryGrows

\* The cooldowns hold when a patient tuner moves something only after its cooldown.
LEMMA GrowsKeepsWaits ==
    ASSUME Basis, Waits, NEW t \in Tuners, NEW mode, NEW domains,
           HistoryGrows(t, mode, domains),
           t \in Patient /\ mode # "undo" => ~Cooling(t)
    PROVE  Waits'
<1> SUFFICES ASSUME NEW i \in DOMAIN history', NEW j \in DOMAIN history', i < j,
                    history'[j].key = history'[i].key, history'[i].key \in Patient,
                    history'[j].mode # "undo"
             PROVE  history'[j].at - history'[i].at >= CooldownFor
    BY DEF Waits
<1>1. /\ DOMAIN history = 1 .. Len(history) /\ Len(history) \in Nat
      /\ DOMAIN history' = 1 .. Len(history') /\ Len(history') \in Nat
    BY DEF HistoryGrows, Basis, HistoryInv
<1>2. CASE CopyOf(history')
  <2>1. /\ i \in DOMAIN history /\ j \in DOMAIN history
        /\ Same(history'[i], history[i]) /\ Same(history'[j], history[j])
      BY <1>1, <1>2 DEF CopyOf
  <2> QED BY <2>1 DEF Waits, Same
<1>3. CASE Shifted(t, mode, domains)
  <2>1. PICK k \in {0, 1} : \A x \in 1 .. Len(history') :
           \/ x = Len(history') /\ IsNew(history'[x], t, mode, domains)
           \/ /\ x < Len(history')
              /\ x + k \in 1 .. Len(history)
              /\ Same(history'[x], history[x + k])
      BY <1>3 DEF Shifted
  <2>2. i + k \in 1 .. Len(history) /\ Same(history'[i], history[i + k])
    <3>1. i \in 1 .. Len(history') /\ i # Len(history')
        BY <1>1
    <3> QED BY <2>1, <3>1
  <2>3. CASE j + k \in 1 .. Len(history) /\ Same(history'[j], history[j + k])
    <3>1. i + k < j + k
        BY <1>1
    <3> QED BY <2>2, <2>3, <3>1, <1>1 DEF Waits, Same
  <2>4. CASE IsNew(history'[j], t, mode, domains)
    <3>1. history[i + k].key = t /\ ~Cooling(t) /\ history'[j].at = now
        BY <2>2, <2>4 DEF IsNew, Same
    <3>2. history[i + k].at <= last[t].at
        BY <2>2, <3>1, <1>1 DEF Basis, HistoryInv
    <3>3. history[i + k] \in Change
        BY <2>2 DEF Basis, HistoryInv
    <3>4. history[i + k].at \in Nat /\ last[t].at \in Int /\ now \in Nat
        BY <3>3 DEF Basis, HistoryInv, CountersInv, Delegation, Change
    <3>5. CooldownFor \in Nat
        BY ParametersAssumption
    <3>6. now - last[t].at >= CooldownFor
        BY <3>1, <3>4, <3>5 DEF Cooling
    <3>7. history'[i].at = history[i + k].at
        BY <2>2 DEF Same
    <3> QED BY <3>1, <3>2, <3>4, <3>5, <3>6, <3>7
  <2> QED BY <2>1, <2>3, <2>4, <1>1
<1> QED BY <1>2, <1>3 DEF HistoryGrows

LEMMA GrowsKeepsHistory ==
    ASSUME Basis, NEW t \in Tuners, NEW mode, NEW domains, HistoryGrows(t, mode, domains),
           made' = made + 1, now' = now
    PROVE  HistoryInv'
<1> USE DEF HistoryGrows
<1>1. now \in Nat /\ made \in Nat /\ last \in [Tuners -> Delegation]
    BY DEF Basis, HistoryInv, CountersInv
<1>2. \A u \in Tuners : last'[u].at \in Int /\ last[u].at \in Int
    BY <1>1 DEF Delegation
<1>6. \A u \in Tuners : last[u].at <= now
    BY DEF Basis, HistoryInv
<1>3. \A u \in Tuners : last'[u].at <= now'
    BY <1>1, <1>2, <1>6
<1>4. ASSUME NEW i \in DOMAIN history'
      PROVE  /\ history'[i].n <= made'
             /\ history'[i].at <= last'[history'[i].key].at
  <2>1. CASE IsNew(history'[i], t, mode, domains) /\ last'[t].at = now
      BY <2>1, <1>1 DEF IsNew
  <2>2. CASE \E j \in DOMAIN history : Same(history'[i], history[j])
    <3>1. PICK j \in DOMAIN history : Same(history'[i], history[j])
        BY <2>2
    <3>2. history[j] \in Change
        BY DEF Basis, HistoryInv
    <3>3. history[j].key \in Tuners /\ history[j].at \in Nat /\ history[j].n \in Nat
        BY <3>2 DEF Change
    <3>4. history[j].n <= made /\ history[j].at <= last[history[j].key].at
        BY DEF Basis, HistoryInv
    <3>5. last[history[j].key].at <= last'[history[j].key].at
      <4>1. CASE history[j].key = t /\ last'[t].at = now
          BY <4>1, <1>6
      <4>2. CASE last'[history[j].key] = last[history[j].key]
          BY <4>2, <3>3, <1>2
      <4> QED BY <4>1, <4>2, <3>3
    <3>6. history'[i].n = history[j].n /\ history'[i].at = history[j].at
          /\ history'[i].key = history[j].key
        BY <3>1 DEF Same
    <3>7. history[j].n <= made + 1
        BY <3>3, <3>4, <1>1
    <3>8. history[j].at <= last'[history[j].key].at
        BY <3>3, <3>4, <3>5, <1>2
    <3> QED BY <3>6, <3>7, <3>8
  <2> QED BY <2>1, <2>2, OldOrNew
<1> QED BY <1>3, <1>4 DEF HistoryInv

\* A change that goes with the locks of what it moves, or asks for none.
LEMMA GrowsKeepsGoverns ==
    ASSUME Basis, Governs, NEW t \in Tuners, NEW mode, NEW domains,
           HistoryGrows(t, mode, domains), locks' = locks, now' = now,
           \/ t = "loss_streak_self_review"
           \/ \A d \in domains : Held(d) => locks[d].mode = mode
    PROVE  Governs'
<1> SUFFICES ASSUME NEW d \in Domains, NEW i \in DOMAIN history', Held(d)',
                    history'[i].n > locks'[d].from, d \in history'[i].domains,
                    history'[i].key # "loss_streak_self_review"
             PROVE  history'[i].mode = locks'[d].mode
    BY DEF Governs
<1>1. Held(d)
    BY DEF Held
<1>2. CASE IsNew(history'[i], t, mode, domains)
    BY <1>1, <1>2 DEF IsNew
<1>3. CASE \E j \in DOMAIN history : Same(history'[i], history[j])
  <2>1. PICK j \in DOMAIN history : Same(history'[i], history[j])
      BY <1>3
  <2> QED BY <1>1, <2>1 DEF Same, Governs
<1> QED BY <1>2, <1>3, OldOrNew

\* Without locks nothing is governed.
LEMMA NoLocksHold ==
    ASSUME locks' = NoLocks, made' \in Nat
    PROVE  LocksInv' /\ Governs' /\ \A d \in Domains : ~Held(d)'
<1>1. locks' \in [Domains -> Lock]
    BY DEF NoLocks, Lock
<1>2. \A d \in Domains : locks'[d].from <= made' /\ ~Held(d)'
    BY DEF NoLocks, Held
<1> QED BY <1>1, <1>2 DEF LocksInv, Governs

\* The calls that are left stand, if none of them is of the tuner that commits.
LEMMA GrowsKeepsStanding ==
    ASSUME Basis, AllStand, NEW t \in Tuners, NEW mode, NEW domains,
           HistoryGrows(t, mode, domains), now' = now,
           locks' = locks \/ locks' = NoLocks,
           \A r \in Reviews : calls'[r] = calls[r] \/ calls'[r] = NoCall,
           \A r \in Reviews : calls'[r].key # t
    PROVE  AllStand'
<1> SUFFICES ASSUME NEW r \in Reviews PROVE Stands(r)'
    BY DEF AllStand
<1>1. CASE calls'[r] = NoCall
    BY <1>1 DEF NoCall, Domains, Patient, Stands
<1>2. CASE calls'[r] = calls[r] /\ calls'[r].key # t
  <2>1. ASSUME NEW d \in Domains, d \in calls'[r].has \cup {calls'[r].want}, Held(d)'
        PROVE  locks'[d].mode = calls'[r].mode
    <3>1. locks' = locks
        BY <2>1 DEF Held, NoLocks
    <3> QED BY <1>2, <2>1, <3>1 DEF Held, AllStand, Stands
  <2>2. ASSUME calls'[r].key \in Patient PROVE ~Cooling(calls[r].key)'
    <3>1. calls[r].key \in Tuners \ {t}
        BY <1>2, <2>2 DEF Patient, Tuners
    <3>2. last'[calls[r].key] = last[calls[r].key]
        BY <3>1 DEF HistoryGrows
    <3> QED BY <1>2, <2>2, <3>2 DEF Cooling, AllStand, Stands
  <2>3. ASSUME NEW q \in Reviews \ {r}, calls'[q].key = calls'[r].key
        PROVE  calls'[r].key = "none"
    <3>1. calls'[q] = calls[q] \/ calls'[q] = NoCall
        OBVIOUS
    <3> QED BY <1>2, <2>3, <3>1 DEF AllStand, Stands, NoCall
  <2> QED BY <1>2, <2>1, <2>2, <2>3 DEF Stands
<1> QED BY <1>1, <1>2

-----------------------------------------------------------------------------
(* The steps that commit.                                                  *)

LEMMA CommitKeepsInv ==
    ASSUME Inv, NEW t \in Tuners, NEW mode \in Modes, NEW domains \in SUBSET Domains,
           NEW hist, CopyOf(hist), NEW stuck \in BOOLEAN,
           Commit(t, mode, domains, hist, stuck),
           UNCHANGED <<now, restarts>>,
           locks' = locks \/ locks' = NoLocks,
           CallsInv', clash' \in BOOLEAN, clash => clash',
           \A r \in Reviews : calls'[r] = calls[r] \/ calls'[r] = NoCall,
           ~clash' => \A r \in Reviews : calls'[r].key # t,
           ~clash' => (t \in Patient /\ mode # "undo" => ~Cooling(t)),
           \/ clash' \/ locks' = NoLocks
           \/ t = "loss_streak_self_review"
           \/ \A d \in domains : Held(d) => locks[d].mode = mode
    PROVE  Inv'
<1>1. Basis /\ TypeOK
    BY BasisTypes DEF Inv
<1>2. HistoryGrows(t, mode, domains) /\ made' = made + 1
    BY <1>1, CommitGrows
<1>3. made \in Nat /\ made' \in Nat /\ now' = now
    BY <1>1, <1>2 DEF TypeOK
<1>4. HistoryInv'
    BY <1>1, <1>2, <1>3, GrowsKeepsHistory
<1>5. LocksInv'
  <2>1. CASE locks' = locks
    <3>1. \A d \in Domains : locks[d].from \in Nat /\ locks[d].from <= made
        BY <1>1 DEF Basis, LocksInv, Lock
    <3> QED BY <2>1, <3>1, <1>1, <1>2, <1>3 DEF Basis, LocksInv
  <2>2. CASE locks' = NoLocks
      BY <2>2, <1>3, NoLocksHold
  <2> QED BY <2>1, <2>2
<1>6. CountersInv'
    BY <1>1, <1>3 DEF Basis, CountersInv
<1>7. ASSUME ~clash' PROVE Governs' /\ Waits' /\ AllStand'
  <2>1. Governs /\ Waits /\ AllStand
      BY <1>7 DEF Inv
  <2>2. Waits'
      BY <1>1, <1>2, <1>7, <2>1, GrowsKeepsWaits
  <2>3. AllStand'
      BY <1>1, <1>2, <1>3, <1>7, <2>1, GrowsKeepsStanding
  <2>4. CASE locks' = NoLocks
      BY <2>2, <2>3, <2>4, <1>3, NoLocksHold
  <2>5. CASE locks' = locks /\ (\/ t = "loss_streak_self_review"
                                \/ \A d \in domains : Held(d) => locks[d].mode = mode)
    <3>1. Governs'
        BY <1>1, <1>2, <1>3, <2>1, <2>5, GrowsKeepsGoverns
    <3> QED BY <2>2, <2>3, <3>1
  <2> QED BY <1>7, <2>4, <2>5
<1> QED BY <1>4, <1>5, <1>6, <1>7 DEF Inv, Basis

LEMMA UndoKeepsInv ==
    ASSUME Inv, NEW r \in Reviews, NEW t \in Tuners, t # "loss_streak_self_review",
           Undo(r, t), UNCHANGED <<now, restarts>>
    PROVE  Inv'
<1> DEFINE e == Newest(t)
           hist == [history EXCEPT ![e].reverted = TRUE]
<1>1. Basis /\ TypeOK /\ e \in DOMAIN history
    BY NewestIsThere, BasisTypes DEF Inv, Undo
<1>2. history[e].domains \in SUBSET Domains
  <2>1. history[e] \in Change
      BY <1>1 DEF TypeOK
  <2> QED BY <2>1 DEF Change
<1>3. CopyOf(hist)
    BY <1>1, TakenBackIsCopy
<1>4. Commit(t, "undo", history[e].domains, hist, FALSE)
    BY DEF Undo
<1>5. /\ "undo" \in Modes /\ FALSE \in BOOLEAN
      /\ locks' = NoLocks /\ calls' = calls
      /\ clash' = (clash \/ Twice(r, t)) /\ clash' \in BOOLEAN
      /\ CallsInv'
    BY <1>1 DEF Undo, Modes, Basis, CallsInv
<1>6. ASSUME ~clash', NEW q \in Reviews PROVE calls'[q].key # t
  <2>1. CASE q = r
    <3>1. calls[r].key = "none"
        BY <1>1 DEF Undo, Basis, CallsInv, WellFormed
    <3> QED BY <2>1, <3>1, <1>5 DEF Tuners
  <2>2. CASE q # r
      BY <2>2, <1>5, <1>6 DEF Twice
  <2> QED BY <2>1, <2>2
<1> HIDE DEF e, hist
<1> QED BY <1>2, <1>3, <1>4, <1>5, <1>6, CommitKeepsInv

LEMMA BadUtcHourKeepsInv ==
    ASSUME Inv, NEW r \in Reviews, BadUtcHour(r), UNCHANGED <<now, restarts>>
    PROVE  Inv'
<1> DEFINE t == "bad_utc_hour"
<1>1. Basis /\ TypeOK
    BY BasisTypes DEF Inv
<1>2. /\ t \in Tuners /\ t \notin Patient /\ "neutral" \in Modes
      /\ {} \in SUBSET Domains /\ FALSE \in BOOLEAN
      /\ CopyOf(history) /\ Commit(t, "neutral", {}, history, FALSE)
      /\ locks' = locks /\ calls' = calls /\ clash' = clash
    BY <1>1, Itself DEF Tuners, Patient, Modes, BadUtcHour
<1>3. CallsInv' /\ clash' \in BOOLEAN
    BY <1>1, <1>2 DEF Basis, CallsInv, CountersInv
<1>4. \A d \in {} : Held(d) => locks[d].mode = "neutral"
    OBVIOUS
<1> HIDE DEF t
<1>5. \A q \in Reviews : calls'[q].key # t
    BY <1>1, <1>2 DEF t, Basis, CallsInv, WellFormed
<1> QED BY <1>2, <1>3, <1>4, <1>5, CommitKeepsInv

LEMMA LossStreakKeepsInv ==
    ASSUME Inv, NEW r \in Reviews, LossStreakReview(r), UNCHANGED <<now, restarts>>
    PROVE  Inv'
<1> DEFINE t == "loss_streak_self_review"
<1>1. Basis /\ TypeOK
    BY BasisTypes DEF Inv
<1>2. /\ t \in Tuners /\ FALSE \in BOOLEAN /\ ~Cooling(t)
      /\ locks' = locks /\ calls' = calls /\ clash' = clash
    BY DEF Tuners, LossStreakReview
<1>3. CallsInv' /\ clash' \in BOOLEAN /\ \A q \in Reviews : calls'[q].key # t
    BY <1>1, <1>2 DEF Basis, CallsInv, CountersInv, WellFormed
<1>4. CASE MayRollback(t) /\ Commit(t, "undo", {}, [history EXCEPT ![Newest(t)].reverted = TRUE], FALSE)
  <2> DEFINE e == Newest(t)
             hist == [history EXCEPT ![e].reverted = TRUE]
  <2>1. Commit(t, "undo", {}, hist, FALSE)
      BY <1>4
  <2>2. CopyOf(hist)
      BY <1>1, <1>4, NewestIsThere, TakenBackIsCopy
  <2>3. "undo" \in Modes /\ {} \in SUBSET Domains
      BY DEF Modes
  <2> HIDE DEF hist
  <2> QED BY <1>2, <1>3, <2>1, <2>2, <2>3, CommitKeepsInv
<1>5. CASE \E mode \in Directions : Commit(t, mode, {"entry"}, history, FALSE)
  <2>1. PICK mode \in Directions : Commit(t, mode, {"entry"}, history, FALSE)
      BY <1>5
  <2>2. mode \in Modes /\ {"entry"} \in SUBSET Domains /\ CopyOf(history)
      BY <1>1, Itself DEF Modes, Directions, Domains
  <2> QED BY <1>2, <1>3, <2>1, <2>2, CommitKeepsInv
<1> QED BY <1>4, <1>5 DEF LossStreakReview

\* A call that ends leaves the others as they are.
LEMMA EndedCall ==
    ASSUME Basis, NEW r \in Reviews, calls' = [calls EXCEPT ![r] = NoCall]
    PROVE  /\ CallsInv'
           /\ calls'[r] = NoCall
           /\ \A q \in Reviews \ {r} : calls'[q] = calls[q]
<1>1. calls \in [Reviews -> Call]
    BY DEF Basis, CallsInv
<1>2. NoCall \in Call
    BY DEF NoCall, Call
<1>3. WellFormed(NoCall)
    BY DEF NoCall, WellFormed
<1>4. /\ calls' \in [Reviews -> Call] /\ calls'[r] = NoCall
      /\ \A q \in Reviews \ {r} : calls'[q] = calls[q]
    BY <1>1, <1>2
<1>5. ASSUME NEW q \in Reviews PROVE WellFormed(calls[q])'
  <2>1. CASE q = r
      BY <2>1, <1>3, <1>4 DEF WellFormed
  <2>2. CASE q # r
    <3>1. calls'[q] = calls[q] /\ WellFormed(calls[q])
        BY <2>2, <1>4 DEF Basis, CallsInv
    <3> QED BY <3>1 DEF WellFormed
  <2> QED BY <2>1, <2>2
<1> QED BY <1>4, <1>5 DEF CallsInv

LEMMA CommitsKeepsInv ==
    ASSUME Inv, NEW r \in Reviews, Commits(r), UNCHANGED <<now, restarts>>
    PROVE  Inv'
<1> DEFINE t == calls[r].key
           mode == calls[r].mode
           stuck == calls[r].stuck
<1>1. Basis /\ TypeOK
    BY BasisTypes DEF Inv
<1>2. calls[r] \in Call /\ WellFormed(calls[r]) /\ calls[r].pc = "holding"
    BY <1>1 DEF Commits, Basis, CallsInv
<1>3. PICK moved \in SUBSET calls[r].has : Commit(t, mode, moved, history, stuck)
    BY Zenon DEF Commits
<1>4. /\ t \in Tuners /\ mode \in Modes /\ stuck \in BOOLEAN
      /\ moved \in SUBSET Domains
  <2>1. stuck \in BOOLEAN
      BY <1>2 DEF Call
  <2>2. calls[r].has \in SUBSET Domains
      BY <1>2 DEF Call
  <2>3. t \in Tuners /\ mode \in Directions
      BY <1>2 DEF WellFormed
  <2> QED BY <2>1, <2>2, <2>3 DEF Modes, Directions
<1>5. locks' = locks /\ clash' = clash /\ calls' = [calls EXCEPT ![r] = NoCall]
    BY DEF Commits
<1>6. /\ CallsInv' /\ calls'[r] = NoCall
      /\ \A q \in Reviews \ {r} : calls'[q] = calls[q]
    BY <1>1, <1>5, EndedCall
<1>7. CopyOf(history)
    BY <1>1, Itself
<1>8. clash' \in BOOLEAN
    BY <1>1, <1>5 DEF Basis, CountersInv
<1>9. ASSUME ~clash' PROVE \A q \in Reviews : calls'[q].key # t
  <2>1. Stands(r)
      BY <1>5, <1>9 DEF Inv, AllStand
  <2>2. \A q \in Reviews \ {r} : calls[q].key # t
      BY <2>1, <1>4 DEF Stands, Tuners
  <2>3. calls'[r].key # t
      BY <1>4, <1>6 DEF NoCall, Tuners
  <2> QED BY <2>2, <2>3, <1>6
<1>10. ASSUME ~clash' PROVE /\ t \in Patient => ~Cooling(t)
                            /\ \A d \in moved : Held(d) => locks[d].mode = mode
  <2>1. Stands(r)
      BY <1>5, <1>10 DEF Inv, AllStand
  <2>2. moved \in SUBSET Domains /\ moved \in SUBSET calls[r].has
      BY <1>3, <1>4
  <2> QED BY <2>1, <2>2 DEF Stands
<1>11. \A q \in Reviews : calls'[q] = calls[q] \/ calls'[q] = NoCall
    BY <1>6
<1> HIDE DEF t, mode, stuck
<1> QED BY <1>3, <1>4, <1>5, <1>6, <1>7, <1>8, <1>9, <1>10, <1>11, CommitKeepsInv

-----------------------------------------------------------------------------
(* The steps that commit nothing.                                          *)

\* What is left to show of a step that leaves the history alone.
LEMMA QuietKeepsInv ==
    ASSUME Inv, UNCHANGED <<last, history, made, now, restarts>>,
           LocksInv', CallsInv', clash' \in BOOLEAN, clash => clash',
           ~clash' => Governs' /\ AllStand'
    PROVE  Inv'
<1>1. HistoryInv' /\ CountersInv'
    BY DEF Inv, Basis, HistoryInv, CountersInv
<1>2. Waits => Waits'
    BY DEF Waits
<1> QED BY <1>1, <1>2 DEF Inv, Basis

\* Without locks, and with fewer calls, what has been tested still stands.
LEMMA NoLocksStand ==
    ASSUME AllStand, UNCHANGED <<last, now>>, \A d \in Domains : ~Held(d)',
           \A r \in Reviews : calls'[r] = calls[r] \/ calls'[r] = NoCall
    PROVE  AllStand'
<1> SUFFICES ASSUME NEW r \in Reviews PROVE Stands(r)'
    BY DEF AllStand
<1>1. CASE calls'[r] = NoCall
    BY <1>1 DEF NoCall, Domains, Patient, Stands
<1>2. CASE calls'[r] = calls[r]
  <2>1. calls'[r].key \in Patient => ~Cooling(calls[r].key)'
      BY <1>2 DEF Cooling, AllStand, Stands
  <2>2. ASSUME NEW q \in Reviews \ {r}, calls'[q].key = calls'[r].key
        PROVE  calls'[r].key = "none"
    <3>1. calls'[q] = calls[q] \/ calls'[q] = NoCall
        OBVIOUS
    <3> QED BY <1>2, <2>2, <3>1 DEF AllStand, Stands, NoCall
  <2> QED BY <1>2, <2>1, <2>2 DEF Stands
<1> QED BY <1>1, <1>2

LEMMA DropsKeepsInv ==
    ASSUME Inv, NEW r \in Reviews, Drops(r), UNCHANGED <<now, restarts>>
    PROVE  Inv'
<1>1. /\ locks' = NoLocks /\ calls' = [calls EXCEPT ![r] = NoCall]
      /\ UNCHANGED <<clash, last, history, made>>
    BY DEF Drops
<1>2. Basis /\ made' \in Nat /\ clash' \in BOOLEAN
    BY <1>1 DEF Inv, Basis, CountersInv
<1>3. /\ CallsInv' /\ calls'[r] = NoCall
      /\ \A q \in Reviews \ {r} : calls'[q] = calls[q]
    BY <1>1, <1>2, EndedCall
<1>4. LocksInv' /\ Governs' /\ \A d \in Domains : ~Held(d)'
    BY <1>1, <1>2, NoLocksHold
<1>5. AllStand => AllStand'
    BY <1>1, <1>3, <1>4, NoLocksStand
<1>6. ~clash' => Governs' /\ AllStand'
    BY <1>1, <1>4, <1>5 DEF Inv
<1> QED BY <1>1, <1>2, <1>3, <1>4, <1>6, QuietKeepsInv

\* One call is replaced, the locks are as they were.
LEMMA CallChanges ==
    ASSUME Basis, NEW r \in Reviews, NEW c \in Call, WellFormed(c),
           calls' = [calls EXCEPT ![r] = c]
    PROVE  CallsInv' /\ calls'[r] = c /\ \A q \in Reviews \ {r} : calls'[q] = calls[q]
<1>1. calls \in [Reviews -> Call]
    BY DEF Basis, CallsInv
<1>2. /\ calls' \in [Reviews -> Call] /\ calls'[r] = c
      /\ \A q \in Reviews \ {r} : calls'[q] = calls[q]
    BY <1>1
<1>3. ASSUME NEW q \in Reviews PROVE WellFormed(calls[q])'
  <2>1. CASE q = r
      BY <2>1, <1>2 DEF WellFormed
  <2>2. CASE q # r
    <3>1. calls'[q] = calls[q] /\ WellFormed(calls[q])
        BY <2>2, <1>2 DEF Basis, CallsInv
    <3> QED BY <3>1 DEF WellFormed
  <2> QED BY <2>1, <2>2
<1> QED BY <1>2, <1>3 DEF CallsInv

\* The others stand beside a call whose tuner is none of theirs.
LEMMA OthersStand ==
    ASSUME AllStand, UNCHANGED <<locks, last, now>>, NEW r \in Reviews,
           \A q \in Reviews \ {r} : calls'[q] = calls[q],
           \A q \in Reviews \ {r} : calls[q].key = calls'[r].key => calls[q].key = "none",
           NEW q \in Reviews \ {r}
    PROVE  Stands(q)'
<1>1. calls'[q] = calls[q] /\ Stands(q)
    BY DEF AllStand
<1>2. \A d \in Domains : Held(d)' <=> Held(d)
    BY DEF Held
<1>3. ASSUME NEW p \in Reviews \ {q}, calls'[p].key = calls'[q].key
      PROVE  calls'[q].key = "none"
    BY <1>1, <1>3 DEF Stands
<1>4. calls'[q].key \in Patient => ~Cooling(calls[q].key)'
    BY <1>1 DEF Stands, Cooling
<1> QED BY <1>1, <1>2, <1>3, <1>4 DEF Stands

LEMMA NewCallIsCall ==
    ASSUME NEW t \in Tuners, NEW mode \in Directions, NEW gate \in Domains,
           NEW more \in SUBSET Domains, NEW free \in BOOLEAN, NEW stuck \in BOOLEAN
    PROVE  [pc |-> "tested", key |-> t, mode |-> mode, want |-> gate,
            free |-> free, has |-> {}, more |-> more, stuck |-> stuck] \in Call
BY DEF Call

LEMMA BeginsKeepsInv ==
    ASSUME Inv, NEW r \in Reviews, NEW t \in Tuners, NEW mode \in Directions,
           NEW gate \in Domains, NEW more \in SUBSET Domains, NEW stuck \in BOOLEAN,
           Begins(r, t, mode, gate, more, stuck),
           t # "loss_streak_self_review" /\ t # "bad_utc_hour",
           t \in Patient => ~Cooling(t),
           UNCHANGED <<now, restarts>>
    PROVE  Inv'
<1> DEFINE c == [pc |-> "tested", key |-> t, mode |-> mode, want |-> gate,
                 free |-> ~Held(gate), has |-> {}, more |-> more, stuck |-> stuck]
<1>1. /\ calls' = [calls EXCEPT ![r] = c]
      /\ clash' = (clash \/ Twice(r, t))
      /\ UNCHANGED <<locks, last, history, made>>
      /\ MayTake(gate, mode)
    BY DEF Begins
<1>2. Basis /\ clash' \in BOOLEAN /\ (clash => clash')
    BY <1>1 DEF Inv
<1>3. c \in Call
  <2>1. (~Held(gate)) \in BOOLEAN
      OBVIOUS
  <2> QED BY <2>1, NewCallIsCall
<1>4. c.pc = "tested" /\ c.key = t /\ c.mode = mode /\ c.want = gate /\ c.has = {}
    OBVIOUS
<1> HIDE DEF c
<1>5. WellFormed(c)
    BY <1>4 DEF WellFormed
<1>6. CallsInv' /\ calls'[r] = c /\ \A q \in Reviews \ {r} : calls'[q] = calls[q]
    BY <1>1, <1>2, <1>3, <1>5, CallChanges
<1>7. LocksInv'
    BY <1>1, <1>2 DEF Basis, LocksInv
<1>8. \A d \in Domains : Held(d)' <=> Held(d)
    BY <1>1 DEF Held
<1>9. ASSUME ~clash' PROVE Governs' /\ AllStand'
  <2>1. Governs /\ AllStand /\ ~Twice(r, t)
      BY <1>1, <1>9 DEF Inv
  <2>2. Governs'
      BY <1>1, <1>8, <2>1 DEF Governs
  <2>3. \A q \in Reviews \ {r} : calls[q].key # t
      BY <2>1 DEF Twice
  <2>4. ASSUME NEW q \in Reviews \ {r} PROVE Stands(q)'
      BY <1>1, <1>4, <1>6, <2>1, <2>3, OthersStand
  <2>5. Stands(r)'
    <3>1. ASSUME NEW d \in Domains, d \in calls'[r].has \cup {calls'[r].want}, Held(d)'
          PROVE  locks'[d].mode = calls'[r].mode
        BY <1>1, <1>4, <1>6, <1>8, <3>1 DEF MayTake
    <3>2. calls'[r].key \in Patient => ~Cooling(t)'
        BY <1>1, <1>4, <1>6 DEF Cooling
    <3>3. \A q \in Reviews \ {r} : calls'[q].key # calls'[r].key
        BY <1>4, <1>6, <2>3
    <3> QED BY <1>4, <1>6, <3>1, <3>2, <3>3 DEF Stands
  <2> QED BY <2>2, <2>4, <2>5 DEF AllStand
<1> QED BY <1>1, <1>2, <1>6, <1>7, <1>9, QuietKeepsInv

LEMMA TakesAlongKeepsInv ==
    ASSUME Inv, NEW r \in Reviews, TakesAlong(r), UNCHANGED <<now, restarts>>
    PROVE  Inv'
<1>1. PICK d \in calls[r].more \ calls[r].has :
          /\ MayTake(d, calls[r].mode)
          /\ calls' = [calls EXCEPT ![r].pc = "tested", ![r].want = d, ![r].free = ~Held(d)]
    BY Zenon DEF TakesAlong
<1> DEFINE c == [calls[r] EXCEPT !.pc = "tested", !.want = d, !.free = ~Held(d)]
<1>2. Basis /\ clash' = clash /\ UNCHANGED <<locks, last, history, made>>
    BY DEF Inv, TakesAlong
<1>3. calls[r] \in Call /\ WellFormed(calls[r]) /\ calls[r].pc = "holding"
    BY <1>2 DEF TakesAlong, Basis, CallsInv
<1>4. d \in Domains
  <2>1. calls[r].more \in SUBSET Domains
      BY <1>3 DEF Call
  <2> QED BY <2>1, <1>1
<1>5. /\ c \in Call /\ c.pc = "tested" /\ c.want = d
      /\ c.key = calls[r].key /\ c.mode = calls[r].mode /\ c.has = calls[r].has
  <2>1. ASSUME NEW free \in BOOLEAN, NEW k \in Call
        PROVE  LET x == [k EXCEPT !.pc = "tested", !.want = d, !.free = free]
               IN  /\ x \in Call /\ x.pc = "tested" /\ x.want = d
                   /\ x.key = k.key /\ x.mode = k.mode /\ x.has = k.has
      BY <1>4 DEF Call
  <2>2. (~Held(d)) \in BOOLEAN
      OBVIOUS
  <2> QED BY <2>1, <2>2, <1>3, Zenon
<1>6. calls' = [calls EXCEPT ![r] = c]
    BY <1>1, Zenon
<1> HIDE DEF c
<1>7. WellFormed(c)
    BY <1>3, <1>4, <1>5 DEF WellFormed
<1>8. CallsInv' /\ calls'[r] = c /\ \A q \in Reviews \ {r} : calls'[q] = calls[q]
    BY <1>2, <1>5, <1>6, <1>7, CallChanges
<1>9. LocksInv' /\ \A e \in Domains : Held(e)' <=> Held(e)
    BY <1>2 DEF Basis, LocksInv, Held
<1>10. ASSUME ~clash' PROVE Governs' /\ AllStand'
  <2>1. Governs /\ AllStand /\ Stands(r)
      BY <1>2, <1>10 DEF Inv, AllStand
  <2>2. Governs'
      BY <1>2, <1>9, <2>1 DEF Governs
  <2>3. \A q \in Reviews \ {r} : calls[q].key = calls'[r].key => calls[q].key = "none"
      BY <1>5, <1>8, <2>1 DEF Stands
  <2>4. ASSUME NEW q \in Reviews \ {r} PROVE Stands(q)'
      BY <1>2, <1>8, <2>1, <2>3, OthersStand
  <2>5. Stands(r)'
    <3>1. ASSUME NEW e \in Domains, e \in calls'[r].has \cup {calls'[r].want}, Held(e)'
          PROVE  locks'[e].mode = calls'[r].mode
      <4>1. CASE e = d
          BY <1>1, <1>2, <1>5, <1>8, <1>9, <3>1, <4>1 DEF MayTake
      <4>2. CASE e \in calls[r].has
          BY <1>2, <1>5, <1>8, <1>9, <2>1, <3>1, <4>2 DEF Stands
      <4> QED BY <3>1, <4>1, <4>2, <1>5, <1>8
    <3>2. calls'[r].key \in Patient => ~Cooling(calls[r].key)'
        BY <1>2, <1>5, <1>8, <2>1 DEF Cooling, Stands
    <3>3. \A q \in Reviews \ {r} : calls'[q].key = calls'[r].key => calls'[r].key = "none"
        BY <1>5, <1>8, <2>1 DEF Stands
    <3> QED BY <1>5, <1>8, <3>1, <3>2, <3>3 DEF Stands
  <2> QED BY <2>2, <2>4, <2>5 DEF AllStand
<1>11. clash' \in BOOLEAN /\ (clash => clash')
    BY <1>2 DEF Basis, CountersInv
<1> QED BY <1>2, <1>8, <1>9, <1>10, <1>11, QuietKeepsInv

\* A stamp has no change after it, and no other call has tested the domain for the opposite.
LEMMA StampsKeepsInv ==
    ASSUME Inv, NEW r \in Reviews, Stamps(r), UNCHANGED <<now, restarts>>
    PROVE  Inv'
<1> DEFINE w == calls[r].want
           c == [calls[r] EXCEPT !.pc = "holding", !.want = "none", !.has = @ \cup {w}]
<1>1. /\ locks' = IF calls[r].free THEN [locks EXCEPT ![w] = Stamp(calls[r].mode)] ELSE locks
      /\ clash' = (clash \/ (calls[r].free /\ Crosses(r)))
      /\ UNCHANGED <<last, history, made>>
      /\ calls' = [calls EXCEPT ![r] = c]
    BY Zenon DEF Stamps
<1>2. Basis /\ clash' \in BOOLEAN /\ (clash => clash')
    BY <1>1 DEF Inv
<1>3. calls[r] \in Call /\ WellFormed(calls[r]) /\ calls[r].pc = "tested"
    BY <1>2 DEF Stamps, Basis, CallsInv
<1>4. w \in Domains /\ calls[r].key \in Tuners /\ calls[r].mode \in Directions
    BY <1>3 DEF WellFormed
<1>5. /\ c \in Call /\ c.pc = "holding" /\ c.want = "none"
      /\ c.key = calls[r].key /\ c.mode = calls[r].mode /\ c.has = calls[r].has \cup {w}
  <2>1. ASSUME NEW k \in Call, NEW x \in Domains
        PROVE  LET y == [k EXCEPT !.pc = "holding", !.want = "none", !.has = @ \cup {x}]
               IN  /\ y \in Call /\ y.pc = "holding" /\ y.want = "none"
                   /\ y.key = k.key /\ y.mode = k.mode /\ y.has = k.has \cup {x}
      BY DEF Call
  <2> QED BY <2>1, <1>3, <1>4, Zenon
<1> HIDE DEF c, w
<1>6. WellFormed(c)
    BY <1>3, <1>4, <1>5 DEF WellFormed
<1>7. CallsInv' /\ calls'[r] = c /\ \A q \in Reviews \ {r} : calls'[q] = calls[q]
    BY <1>1, <1>2, <1>5, <1>6, CallChanges
<1>8. /\ locks \in [Domains -> Lock] /\ made \in Nat /\ now \in Nat /\ LockFor \in Nat
      /\ \A d \in Domains : locks[d].from <= made
      /\ \A i \in DOMAIN history : history[i] \in Change /\ history[i].n <= made
    BY <1>2, ParametersAssumption DEF Basis, LocksInv, CountersInv, HistoryInv
<1>9. /\ Stamp(calls[r].mode) \in Lock /\ Stamp(calls[r].mode).mode = calls[r].mode
      /\ Stamp(calls[r].mode).from = made
    BY <1>4, <1>8 DEF Stamp, Lock, Directions
<1>10. \A d \in Domains : \/ locks'[d] = locks[d]
                          \/ d = w /\ calls[r].free /\ locks'[d] = Stamp(calls[r].mode)
    BY <1>1, <1>4, <1>8
<1>11. LocksInv'
  <2>1. locks' \in [Domains -> Lock]
      BY <1>1, <1>4, <1>8, <1>9
  <2>2. \A d \in Domains : locks'[d].from <= made
      BY <1>8, <1>9, <1>10
  <2> QED BY <2>1, <2>2, <1>1 DEF LocksInv
<1>12. ASSUME ~clash' PROVE Governs' /\ AllStand'
  <2>1. Governs /\ AllStand /\ Stands(r) /\ ~(calls[r].free /\ Crosses(r))
      BY <1>1, <1>12 DEF Inv, AllStand
  <2>2. Governs'
    <3> SUFFICES ASSUME NEW d \in Domains, NEW i \in DOMAIN history, Held(d)',
                        history[i].n > locks'[d].from, d \in history[i].domains,
                        history[i].key # "loss_streak_self_review"
                 PROVE  history[i].mode = locks'[d].mode
        BY <1>1 DEF Governs
    <3>1. history[i].n \in Nat /\ history[i].n <= made
        BY <1>8 DEF Change
    <3>2. locks'[d] = locks[d]
        BY <1>8, <1>9, <1>10, <3>1
    <3>3. Held(d)
        BY <3>2 DEF Held
    <3> QED BY <2>1, <3>2, <3>3 DEF Governs
  <2>3. ASSUME NEW q \in Reviews \ {r}, NEW d \in Domains,
               d \in calls[q].has \cup {calls[q].want}, Held(d)'
        PROVE  locks'[d].mode = calls[q].mode
    <3>1. CASE locks'[d] = locks[d]
      <4>1. Held(d)
          BY <2>3, <3>1 DEF Held
      <4> QED BY <2>1, <2>3, <3>1, <4>1 DEF AllStand, Stands
    <3>2. CASE d = w /\ calls[r].free /\ locks'[d] = Stamp(calls[r].mode)
      <4>1. calls[q].mode = calls[r].mode
          BY <2>1, <2>3, <3>2 DEF Crosses, w
      <4> QED BY <1>9, <3>2, <4>1
    <3> QED BY <3>1, <3>2, <1>10
  <2>4. ASSUME NEW q \in Reviews PROVE calls'[q].key \in Patient => ~Cooling(calls[q].key)'
    <3>1. calls'[q].key = calls[q].key
        BY <1>5, <1>7
    <3>2. calls[q].key \in Patient => ~Cooling(calls[q].key)
        BY <2>1 DEF AllStand, Stands
    <3>3. last' = last /\ now' = now
        BY <1>1
    <3> QED BY <3>1, <3>2, <3>3 DEF Cooling
  <2>5. \A p \in Reviews : \A q \in Reviews \ {p} :
            calls'[q].key = calls'[p].key => calls'[p].key = "none"
    <3>1. \A q \in Reviews : calls'[q].key = calls[q].key
        BY <1>5, <1>7
    <3> QED BY <3>1, <2>1 DEF AllStand, Stands
  <2>6. ASSUME NEW d \in Domains, d \in calls'[r].has \cup {calls'[r].want}, Held(d)'
        PROVE  locks'[d].mode = calls'[r].mode
    <3>1. d \in calls[r].has \cup {w}
        BY <2>6, <1>5, <1>7 DEF Domains
    <3>2. CASE locks'[d] = locks[d]
      <4>1. Held(d)
          BY <2>6, <3>2 DEF Held
      <4> QED BY <1>5, <1>7, <2>1, <3>1, <3>2, <4>1 DEF Stands, w
    <3>3. CASE locks'[d] = Stamp(calls[r].mode)
        BY <1>5, <1>7, <1>9, <3>3
    <3> QED BY <3>2, <3>3, <1>10
  <2>7. ASSUME NEW q \in Reviews PROVE Stands(q)'
    <3>1. CASE q = r
        BY <3>1, <2>4, <2>5, <2>6 DEF Stands
    <3>2. CASE q # r
      <4>1. \A d \in Domains : d \in calls'[q].has \cup {calls'[q].want} =>
                (Held(d)' => locks'[d].mode = calls'[q].mode)
          BY <3>2, <2>3, <1>7
      <4> QED BY <4>1, <2>4, <2>5 DEF Stands
    <3> QED BY <3>1, <3>2
  <2> QED BY <2>2, <2>7 DEF AllStand
<1> QED BY <1>1, <1>2, <1>7, <1>11, <1>12, QuietKeepsInv

-----------------------------------------------------------------------------
(* The theorems.                                                           *)

LEMMA TunesKeepsInv ==
    ASSUME Inv, NEW r \in Reviews, Tunes(r)
    PROVE  Inv'
<1> USE DEF Tuners, Domains, Directions, Patient
<1>1. UNCHANGED <<now, restarts>>
    BY DEF Tunes
<1>2. CASE ScanTimeout(r)
    BY <1>1, <1>2, UndoKeepsInv, BeginsKeepsInv DEF ScanTimeout
<1>3. CASE BadUtcHour(r)
    BY <1>1, <1>3, BadUtcHourKeepsInv
<1>4. CASE LowEntryActivity(r)
    BY <1>1, <1>4, UndoKeepsInv, BeginsKeepsInv DEF LowEntryActivity
<1>5. CASE SizeStreak(r)
    BY <1>1, <1>5, UndoKeepsInv, BeginsKeepsInv DEF SizeStreak
<1>6. CASE DailyEntryRegression(r)
    BY <1>1, <1>6, UndoKeepsInv, BeginsKeepsInv DEF DailyEntryRegression
<1>7. CASE NegativeExpectancy(r)
    BY <1>1, <1>7, UndoKeepsInv, BeginsKeepsInv DEF NegativeExpectancy
<1>8. CASE WeakPayoff(r)
    BY <1>1, <1>8, UndoKeepsInv, BeginsKeepsInv DEF WeakPayoff
<1>9. CASE SmallProfitCapture(r)
    BY <1>1, <1>9, UndoKeepsInv, BeginsKeepsInv DEF SmallProfitCapture
<1>10. CASE LossStreakReview(r)
    BY <1>1, <1>10, LossStreakKeepsInv
<1>11. CASE Stamps(r) \/ TakesAlong(r) \/ Commits(r) \/ Drops(r)
    BY <1>1, <1>11, StampsKeepsInv, TakesAlongKeepsInv, CommitsKeepsInv, DropsKeepsInv
<1> QED BY <1>2, <1>3, <1>4, <1>5, <1>6, <1>7, <1>8, <1>9, <1>10, <1>11 DEF Tunes

LEMMA TickKeepsInv ==
    ASSUME Inv, Tick
    PROVE  Inv'
<1>1. /\ Basis /\ now \in Nat /\ now' = now + 1
      /\ UNCHANGED <<locks, last, history, calls, clash, made, restarts>>
    BY DEF Tick, Inv, Basis, CountersInv
<1>2. \A d \in Domains : Held(d)' => Held(d)
  <2> SUFFICES ASSUME NEW d \in Domains, Held(d)' PROVE Held(d)
      OBVIOUS
  <2>1. locks'[d] = locks[d] /\ locks[d].until \in Nat
      BY <1>1 DEF Basis, LocksInv, Lock
  <2> QED BY <1>1, <2>1 DEF Held
<1>3. \A t \in Tuners : last[t].at \in Int /\ last[t].at <= now /\ CooldownFor \in Nat
    BY <1>1, ParametersAssumption DEF Basis, HistoryInv, Delegation
<1>4. HistoryInv'
  <2>1. \A t \in Tuners : last[t].at <= now + 1
      BY <1>1, <1>3
  <2> QED BY <1>1, <2>1 DEF Basis, HistoryInv
<1>5. LocksInv' /\ CallsInv'
    BY <1>1 DEF Basis, LocksInv, CallsInv, WellFormed
<1>6. CountersInv'
    BY <1>1 DEF Basis, CountersInv
<1>7. Governs => Governs'
    BY <1>1, <1>2 DEF Governs
<1>8. Waits => Waits'
    BY <1>1 DEF Waits
<1>9. ASSUME AllStand, NEW r \in Reviews PROVE Stands(r)'
  <2>1. Stands(r)
      BY <1>9 DEF AllStand
  <2>2. ASSUME calls[r].key \in Patient PROVE ~Cooling(calls[r].key)'
    <3>1. ~Cooling(calls[r].key) /\ calls[r].key \in Tuners
        BY <2>1, <2>2 DEF Stands, Patient, Tuners
    <3> QED BY <1>1, <1>3, <3>1 DEF Cooling
  <2> QED BY <1>1, <1>2, <2>1, <2>2 DEF Stands
<1> QED BY <1>1, <1>4, <1>5, <1>6, <1>7, <1>8, <1>9 DEF Inv, Basis, AllStand

LEMMA NothingUnderWay ==
    calls = [r \in Reviews |-> NoCall] => CallsInv /\ AllStand
<1> SUFFICES ASSUME calls = [r \in Reviews |-> NoCall] PROVE CallsInv /\ AllStand
    OBVIOUS
<1>1. NoCall \in Call /\ WellFormed(NoCall)
    BY DEF NoCall, Call, WellFormed
<1>2. \A r \in Reviews : calls[r] = NoCall
    OBVIOUS
<1>3. ASSUME NEW r \in Reviews PROVE Stands(r)
    BY <1>2 DEF Stands, NoCall, Domains, Patient
<1>4. calls \in [Reviews -> Call]
    BY <1>1
<1> QED BY <1>1, <1>2, <1>3, <1>4 DEF CallsInv, AllStand

Fresh == history = <<>> /\ last = Untouched /\ locks = NoLocks /\ CountersInv

LEMMA EmptyHistory == Fresh => HistoryInv /\ LocksInv /\ Governs /\ Waits
<1> SUFFICES ASSUME Fresh PROVE HistoryInv /\ LocksInv /\ Governs /\ Waits
    OBVIOUS
<1> USE DEF Fresh, CountersInv
<1>1. HistoryInv /\ Waits
    BY ParametersAssumption DEF HistoryInv, Untouched, Delegation, Waits
<1>2. LocksInv /\ Governs
    BY DEF LocksInv, NoLocks, Lock, Governs
<1> QED BY <1>1, <1>2

LEMMA InitInv == Init => Inv
<1> SUFFICES ASSUME Init PROVE Inv
    OBVIOUS
<1>1. CountersInv
    BY DEF Init, CountersInv
<1>2. CallsInv /\ AllStand
    BY NothingUnderWay DEF Init
<1>3. HistoryInv /\ LocksInv /\ Governs /\ Waits
    BY <1>1, EmptyHistory DEF Init, Fresh
<1> QED BY <1>1, <1>2, <1>3 DEF Inv, Basis

LEMMA RestartKeepsInv ==
    ASSUME Inv, Restart
    PROVE  Inv'
<1>1. CountersInv'
    BY DEF Restart, Inv, Basis, CountersInv
<1>2. CallsInv' /\ AllStand'
  <2>1. (calls = [r \in Reviews |-> NoCall])' => (CallsInv /\ AllStand)'
      BY NothingUnderWay, PTL
  <2> QED BY <2>1 DEF Restart
<1>3. HistoryInv' /\ LocksInv' /\ Governs' /\ Waits'
  <2>1. Fresh' => (HistoryInv /\ LocksInv /\ Governs /\ Waits)'
      BY EmptyHistory, PTL
  <2> QED BY <1>1, <2>1 DEF Restart, Fresh, NoLocks, Untouched
<1> QED BY <1>1, <1>2, <1>3 DEF Inv, Basis

LEMMA NextKeepsInv == Inv /\ [Next]_vars => Inv'
<1> SUFFICES ASSUME Inv, [Next]_vars PROVE Inv'
    OBVIOUS
<1>1. CASE \E r \in Reviews : Tunes(r)
    BY <1>1, TunesKeepsInv
<1>2. CASE Tick
    BY <1>2, TickKeepsInv
<1>3. CASE Restart
    BY <1>3, RestartKeepsInv
<1>4. CASE UNCHANGED vars
  <2>1. UNCHANGED <<locks, last, history, calls, clash, now, made, restarts>>
      BY <1>4 DEF vars
  <2>2. HistoryInv' /\ LocksInv' /\ CallsInv' /\ CountersInv'
      BY <2>1 DEF Inv, Basis, HistoryInv, LocksInv, CallsInv, CountersInv, WellFormed
  <2>3. (Governs <=> Governs') /\ (Waits <=> Waits') /\ (AllStand <=> AllStand')
      BY <2>1 DEF Governs, Waits, AllStand, Stands, Held, Cooling
  <2> QED BY <2>1, <2>2, <2>3 DEF Inv, Basis
<1> QED BY <1>1, <1>2, <1>3, <1>4 DEF Next

LEMMA Invariance == Spec => []Inv
BY InitInv, NextKeepsInv, PTL DEF Spec

\* Every variable of the tuners keeps its type, and the history its length.
THEOREM TuningTypes == Spec => []TypeOK
<1>1. Inv => TypeOK
    BY BasisTypes DEF Inv
<1> QED BY <1>1, Invariance, PTL

\* While a domain is held, no tuner that knows the locks moves it against the lock, however
\* the calls of any number of reviews overlap: _tuning_mode_lock_acquire keeps tuners apart
\* that write the same knobs, until calls in opposite directions pass its test together.
THEOREM LocksAlwaysGovern == Spec => []LocksGovern
<1>1. Inv => LocksGovern
    BY DEF Inv, LocksGovern, Governs
<1> QED BY <1>1, Invariance, PTL

\* A tuner that waits for its cooldown moves nothing within it, however the locks of its
\* domain are taken and dropped by the others, until it runs in two reviews at once.
THEOREM CooldownsAlwaysHold == Spec => []CooldownsHold
<1>1. Inv => CooldownsHold
    BY DEF Inv, CooldownsHold, Waits
<1> QED BY <1>1, Invariance, PTL
=============================================================================
