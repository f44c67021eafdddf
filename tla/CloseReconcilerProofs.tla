------------------------ MODULE CloseReconcilerProofs ------------------------
(***************************************************************************)
(* Proofs about CloseReconciler: types, then what the trade log promises.  *)
(***************************************************************************)
EXTENDS CloseReconciler, TLAPS, FiniteSetTheorems, SequenceTheorems, WellFoundedInduction

-----------------------------------------------------------------------------
(* Least and greatest members, for the ends of an event.                    *)

\* A set of natural numbers that has a member has a least one.
LEMMA LeastElement ==
    ASSUME NEW S \in SUBSET Nat, S # {}
    PROVE  \E m \in S : \A n \in S : m <= n
<1>1. PICK m \in S : \A n \in S : ~(<<n, m>> \in OpToRel(<, Nat))
  BY NatLessThanWellFounded, WFMin, Zenon
<1>2. ASSUME NEW n \in S PROVE m <= n
  <2>1. <<n, m>> \notin OpToRel(<, Nat)
    BY <1>1, Zenon
  <2>2. ~(n < m)
    BY <2>1, Zenon DEF OpToRel
  <2>. QED BY <2>2
<1>. QED BY <1>2

\* A bounded one has a greatest.
LEMMA GreatestElement ==
    ASSUME NEW N \in Nat, NEW S \in SUBSET (1 .. N), S # {}
    PROVE  \E m \in S : \A n \in S : n <= m
<1>. DEFINE T == {N - k : k \in S}
<1>1. T \in SUBSET Nat /\ T # {}
  <2>1. ASSUME NEW k \in S PROVE N - k \in Nat
    BY k \in 1 .. N
  <2>2. PICK k \in S : TRUE
    OBVIOUS
  <2>3. N - k \in T
    BY <2>2
  <2>. QED BY <2>1, <2>3
<1>2. PICK t \in T : \A u \in T : t <= u
  BY <1>1, LeastElement
<1>3. PICK m \in S : t = N - m
  BY <1>2
<1>4. ASSUME NEW n \in S PROVE n <= m
  <2>1. N - m <= N - n
    BY <1>2, <1>3
  <2>. QED BY <2>1
<1>. QED BY <1>4

\* The ends that an event is read at are members of it.
LEMMA FirstAndLast ==
    ASSUME NEW N \in Nat, NEW F \in SUBSET (1 .. N), F # {}
    PROVE  /\ First(F) \in F
           /\ Last(F) \in F
           /\ \A f \in F : First(F) <= f /\ f <= Last(F)
<1>1. \E f \in F : \A g \in F : f <= g
  BY LeastElement
<1>2. \E f \in F : \A g \in F : g <= f
  BY GreatestElement
<1>. QED BY <1>1, <1>2 DEF First, Last

\* An event of a scan that has open fills is some of them, and not empty.
LEMMA NextEventProperties ==
    ASSUME NEW N \in Nat, NEW F \in SUBSET (1 .. N), F # {}
    PROVE  NextEvent(F) \subseteq F /\ NextEvent(F) # {}
<1>1. First(F) \in F /\ \A f \in F : First(F) <= f
  BY FirstAndLast
<1>2. ASSUME NEW h \in F PROVE ~(h < First(F))
  <2>1. h \in 1 .. N /\ First(F) \in 1 .. N /\ First(F) <= h
    BY <1>1
  <2>. QED BY <2>1
<1>3. First(F) \in NextEvent(F)
  BY <1>1, <1>2 DEF NextEvent
<1>. QED BY <1>3 DEF NextEvent

-----------------------------------------------------------------------------
(* Sequences that grow by one.                                              *)

LEMMA AppendGrows ==
    ASSUME NEW S, NEW seq \in Seq(S), NEW e \in S
    PROVE  /\ Append(seq, e) \in Seq(S)
           /\ DOMAIN Append(seq, e) = DOMAIN seq \cup {Len(seq) + 1}
           /\ Len(seq) + 1 \notin DOMAIN seq
           /\ Append(seq, e)[Len(seq) + 1] = e
           /\ \A i \in DOMAIN seq : Append(seq, e)[i] = seq[i]
<1>1. /\ Append(seq, e) \in Seq(S)
      /\ Len(Append(seq, e)) = Len(seq) + 1
      /\ \A i \in 1 .. Len(seq) : Append(seq, e)[i] = seq[i]
      /\ Append(seq, e)[Len(seq) + 1] = e
  BY AppendProperties
<1>2. DOMAIN Append(seq, e) = 1 .. Len(seq) + 1
  BY <1>1, LenProperties
<1>3. DOMAIN seq = 1 .. Len(seq) /\ Len(seq) \in Nat
  BY LenProperties
<1>4. 1 .. Len(seq) + 1 = (1 .. Len(seq)) \cup {Len(seq) + 1}
  BY <1>3
<1>. QED BY <1>1, <1>2, <1>3, <1>4

-----------------------------------------------------------------------------
(* Types.  Open events and surfaced fills are fills of the exchange.        *)

TypeInv ==
    /\ TypeOK
    /\ shown \subseteq DOMAIN fills
    /\ scan.todo \subseteq DOMAIN fills

\* The row an event is recorded as, and the fills it takes from the scan.
LEMMA EventRowProperties ==
    ASSUME TypeInv, scan.todo # {},
           NEW ev, ev = NextEvent(scan.todo)
    PROVE  /\ ev \subseteq scan.todo
           /\ ev # {}
           /\ EventRow(ev) \in Row
           /\ [EventRow(ev) EXCEPT !.disk = FALSE] \in Row
<1>1. fills \in Seq(Fill) /\ Len(fills) \in Nat /\ DOMAIN fills = 1 .. Len(fills)
  BY LenProperties DEF TypeInv, TypeOK
<1>2. scan.todo \in SUBSET (1 .. Len(fills))
  BY <1>1 DEF TypeInv
<1>3. ev \subseteq scan.todo /\ ev # {}
  BY <1>1, <1>2, NextEventProperties
<1>4. ev \in SUBSET (1 .. Len(fills)) /\ ev \in SUBSET Nat
  BY <1>2, <1>3
<1>5. Cardinality(ev) \in Nat
  <2>1. IsFiniteSet(1 .. Len(fills))
    BY <1>1, FS_Interval
  <2>2. IsFiniteSet(ev)
    BY <2>1, <1>4, FS_Subset
  <2>. QED BY <2>2, FS_CardinalityType
<1>6. ASSUME NEW f \in ev PROVE fills[f].order \in Nat /\ fills[f].time \in Nat
  <2>1. fills[f] \in Fill
    BY <1>1, <1>4, ElementOfSeq
  <2>. QED BY <2>1 DEF Fill
<1>7. fills[Last(ev)].time \in Nat
  BY <1>1, <1>3, <1>4, <1>6, FirstAndLast
<1>8. {fills[f].order : f \in ev} \in SUBSET Nat
  BY <1>6
<1>9. ClosesSide(fills[First(ev)]) \in Sides
  BY DEF ClosesSide, Sides
<1>10. EventRow(ev) \in Row
  BY <1>4, <1>5, <1>7, <1>8, <1>9 DEF EventRow, Row
<1>11. [EventRow(ev) EXCEPT !.disk = FALSE] \in Row
  BY <1>10 DEF Row
<1>. QED BY <1>3, <1>10, <1>11

\* The row a repair picks is one of its candidates.
LEMMA NearestMember ==
    ASSUME ledger \in Seq(Row), NEW row \in Row, Unanchored(row) # {}
    PROVE  Nearest(Unanchored(row), row) \in Unanchored(row)
<1>. DEFINE U == Unanchored(row)
            D == {Distance(i, row) : i \in U}
<1>1. U \subseteq 1 .. Len(ledger) /\ U \in SUBSET Nat
  BY LenProperties DEF Unanchored, DiskRows
<1>2. ASSUME NEW i \in U PROVE Distance(i, row) \in Nat
  <2>1. ledger[i] \in Row
    BY <1>1, ElementOfSeq
  <2>2. ledger[i].at \in Nat /\ row.at \in Nat
    BY <2>1 DEF Row
  <2>. QED BY <2>2 DEF Distance
<1>3. PICK d \in D : \A e \in D : d <= e
  <2>1. D \in SUBSET Nat /\ D # {}
    BY <1>2
  <2>. QED BY <2>1, LeastElement
<1>4. PICK m \in {i \in U : Distance(i, row) = d} :
               \A j \in {i \in U : Distance(i, row) = d} : m <= j
  <2>1. {i \in U : Distance(i, row) = d} \in SUBSET Nat
    BY <1>1
  <2>2. {i \in U : Distance(i, row) = d} # {}
    BY <1>3
  <2>. QED BY <2>1, <2>2, LeastElement
<1>5. ASSUME NEW j \in U
      PROVE  \/ Distance(m, row) < Distance(j, row)
             \/ Distance(m, row) = Distance(j, row) /\ m <= j
  <2>1. Distance(m, row) = d /\ d <= Distance(j, row)
    BY <1>3, <1>4
  <2>2. d \in Nat /\ Distance(j, row) \in Nat
    BY <1>2, <1>4
  <2>3. Distance(j, row) = d => m <= j
    BY <1>4
  <2>. QED BY <2>1, <2>2, <2>3
<1>. QED BY <1>4, <1>5, Zenon DEF Nearest

LEMMA RecordTypes ==
    /\ IdleCall \in Call
    /\ IdleCycle \in Cycle
    /\ LoopFree \in Scan /\ LoopFree.todo = {}
    /\ EmptyCache \in Cache
BY ParametersAssumption DEF IdleCall, Call, IdleCycle, Cycle, LoopFree, Scan, EmptyCache,
   Cache, NoOrder, Sides

LEMMA FillType ==
    ASSUME NEW o \in Nat, NEW s \in Sides, NEW opens \in BOOLEAN, now \in Nat
    PROVE  FillOf(o, s, opens) \in Fill
BY ParametersAssumption DEF FillOf, Fill, Sides

LEMMA TypeInit == Init => TypeInv
<1>. SUFFICES ASSUME Init PROVE TypeInv
  OBVIOUS
<1>1. PICK legacy \in LegacyLogs, s \in Sides :
          /\ orders = IF legacy THEN <<[side |-> s, left |-> 0]>> ELSE <<>>
          /\ fills = IF legacy THEN <<OldFill(s)>> ELSE <<>>
          /\ shown = IF legacy THEN {1} ELSE {}
          /\ ledger = IF legacy THEN <<LegacyRow(s)>> ELSE <<>>
          /\ logVer = IF legacy THEN 1 ELSE 0
  BY DEF Init
<1>2. [side |-> s, left |-> 0] \in Order
  BY DEF Order
<1>3. OldFill(s) \in Fill
  <2>1. FillOf(1, s, FALSE) \in Fill
    BY FillType DEF Init
  <2>. QED BY <2>1 DEF OldFill, Fill
<1>4. LegacyRow(s) \in Row
  BY DEF LegacyRow, Row
<1>5. /\ orders \in Seq(Order) /\ fills \in Seq(Fill) /\ ledger \in Seq(Row)
      /\ shown \subseteq Nat /\ shown \subseteq DOMAIN fills /\ logVer \in Nat
  BY <1>1, <1>2, <1>3, <1>4
<1>6. pos \in [Sides -> Nat]
  BY DEF Init
<1>. QED BY <1>5, <1>6, RecordTypes DEF Init, TypeInv, TypeOK, NoIntent

\* What every step of the exchange leaves alone keeps its type.
LEMMA TypeExchange == TypeInv /\ Exchange => TypeInv'
<1>. SUFFICES ASSUME TypeInv, Exchange PROVE TypeInv'
  OBVIOUS
<1>. USE DEF TypeInv, TypeOK
<1>1. CASE Tick
  BY <1>1 DEF Tick, BotUnchanged, diskVars
<1>2. ASSUME NEW s \in Sides, ExchangeClose(s) PROVE TypeInv'
  <2>1. PICK q \in 1 .. pos[s] : Place(s, q)
    BY <1>2 DEF ExchangeClose
  <2>2. [side |-> s, left |-> q] \in Order
    BY <2>1 DEF Order
  <2>3. orders' \in Seq(Order)
    BY <2>1, <2>2, AppendProperties DEF Place
  <2>. QED BY <1>2, <2>3 DEF ExchangeClose, BotUnchanged, diskVars
<1>3. ASSUME NEW s \in Sides, Entry(s) PROVE TypeInv'
  <2>1. [side |-> s, left |-> 0] \in Order
    BY DEF Order
  <2>2. orders' \in Seq(Order)
    BY <1>3, <2>1, AppendProperties DEF Entry, Place
  <2>3. Len(orders) + 1 \in Nat
    BY LenProperties
  <2>4. FillOf(Len(orders) + 1, s, TRUE) \in Fill
    BY <2>3, FillType
  <2>5. fills' \in Seq(Fill) /\ DOMAIN fills \subseteq DOMAIN fills'
    <3>1. fills' = Append(fills, FillOf(Len(orders) + 1, s, TRUE))
      BY <1>3 DEF Entry
    <3>2. fills \in Seq(Fill)
      OBVIOUS
    <3>3. /\ Append(fills, FillOf(Len(orders) + 1, s, TRUE)) \in Seq(Fill)
          /\ DOMAIN Append(fills, FillOf(Len(orders) + 1, s, TRUE)) = DOMAIN fills \cup {Len(fills) + 1}
      BY <3>2, <2>4, AppendGrows, Zenon
    <3>. QED BY <3>1, <3>3, Zenon
  <2>6. pos' \in [Sides -> Nat]
    BY <1>3 DEF Entry
  <2>. QED BY <1>3, <2>2, <2>5, <2>6 DEF Entry, BotUnchanged, diskVars
<1>4. ASSUME NEW o \in DOMAIN orders, Match(o) PROVE TypeInv'
  <2>1. orders[o] \in Order /\ o \in Nat /\ o \in 1 .. Len(orders)
    BY ElementOfSeq, LenProperties
  <2>2. orders[o].side \in Sides /\ orders[o].left - 1 \in Nat
    BY <1>4, <2>1 DEF Match, Order
  <2>3. [orders[o] EXCEPT !.left = @ - 1] \in Order
    BY <2>1, <2>2 DEF Order
  <2>4. orders' \in Seq(Order)
    BY <1>4, <2>1, <2>3, ExceptSeq DEF Match
  <2>5. FillOf(o, orders[o].side, FALSE) \in Fill
    BY <2>1, <2>2, FillType
  <2>6. fills' \in Seq(Fill) /\ DOMAIN fills \subseteq DOMAIN fills'
    <3>1. fills' = Append(fills, FillOf(o, orders[o].side, FALSE))
      BY <1>4 DEF Match
    <3>2. fills \in Seq(Fill)
      OBVIOUS
    <3>3. /\ Append(fills, FillOf(o, orders[o].side, FALSE)) \in Seq(Fill)
          /\ DOMAIN Append(fills, FillOf(o, orders[o].side, FALSE)) = DOMAIN fills \cup {Len(fills) + 1}
      BY <3>2, <2>5, AppendGrows, Zenon
    <3>. QED BY <3>1, <3>3, Zenon
  <2>7. pos' \in [Sides -> Nat]
    BY <1>4, <2>2 DEF Match
  <2>. QED BY <1>4, <2>4, <2>6, <2>7 DEF Match, BotUnchanged, diskVars
<1>5. ASSUME NEW f \in DOMAIN fills, Surface(f) PROVE TypeInv'
  <2>1. f \in Nat
    BY LenProperties
  <2>. QED BY <1>5, <2>1 DEF Surface, BotUnchanged, diskVars
<1>. QED BY <1>1, <1>2, <1>3, <1>4, <1>5 DEF Exchange

\* A row is appended, written or not, and the types stay.
LEMMA TypeWrite ==
    ASSUME TypeInv, NEW row \in Row, Write(row) \/ FailWrite(row)
    PROVE  ledger' \in Seq(Row) /\ logVer' \in Nat /\ diskFails' \in Nat
<1>. USE DEF TypeInv, TypeOK
<1>1. CASE Write(row)
  BY <1>1, AppendGrows DEF Write
<1>2. CASE FailWrite(row)
  <2>1. [row EXCEPT !.disk = FALSE] \in Row
    BY DEF Row
  <2>. QED BY <1>2, <2>1, AppendGrows DEF FailWrite
<1>. QED BY <1>1, <1>2

LEMMA TypeRemember ==
    ASSUME TypeInv, NEW row \in Row, Remember(row)
    PROVE  cache' \in Cache
BY DEF TypeInv, TypeOK, Cache, Row, Remember

\* What a scan starts with: fresh fills, and a cache.
LEMMA TypeStartScan ==
    ASSUME TypeInv, NEW w \in Sides \cup {"cycle"}, NEW since \in Int, StartScan(w, since)
    PROVE  /\ scan' \in Scan /\ scan'.todo \subseteq DOMAIN fills
           /\ cache' \in Cache
           /\ ledger' \in Seq(Row) /\ logVer' \in Nat /\ diskFails' \in Nat
<1>. USE DEF TypeInv, TypeOK
<1>1. ASSUME NEW i \in DOMAIN ledger
      PROVE  ledger[i].fills \subseteq Nat /\ ledger[i].orders \subseteq Nat
  <2>1. ledger[i] \in Row
    BY ElementOfSeq, LenProperties
  <2>. QED BY <2>1 DEF Row
<1>2. DiskFills \subseteq Nat /\ DiskOrders \subseteq Nat
  BY <1>1 DEF DiskFills, DiskOrders, DiskRows
<1>3. RecordedAnchors \in Cache
  BY <1>2 DEF RecordedAnchors, Cache
<1>4. ASSUME NEW known PROVE /\ Fresh(known, since) \subseteq DOMAIN fills
                             /\ Fresh(known, since) \subseteq Nat
  BY DEF Fresh, InWindow
<1>5. ASSUME NEW known
      PROVE  [by |-> w, todo |-> Fresh(known, since), got |-> FALSE] \in Scan
  BY <1>4 DEF Scan
<1>. QED BY <1>3, <1>4, <1>5 DEF StartScan, diskVars

LEMMA TypeScanStep == TypeInv /\ ScanStep => TypeInv'
<1>. SUFFICES ASSUME TypeInv, ScanStep PROVE TypeInv'
  OBVIOUS
<1>. DEFINE ev == NextEvent(scan.todo)
            row == EventRow(ev)
            i == Nearest(Unanchored(row), row)
<1>. USE DEF TypeInv, TypeOK
<1>1. scan.todo # {}
  BY DEF ScanStep, RepairEvent, RecordEvent, RepairFails, RecordRaises, SkipEvent
<1>2. ev \subseteq scan.todo /\ row \in Row
  BY <1>1, EventRowProperties
<1>3. row.fills \subseteq Nat /\ row.orders \subseteq Nat
  BY <1>2 DEF Row
<1>4. /\ [scan EXCEPT !.todo = @ \ ev] \in Scan
      /\ [scan EXCEPT !.todo = @ \ ev, !.got = TRUE] \in Scan
      /\ [scan EXCEPT !.todo = @ \ ev].todo \subseteq DOMAIN fills
      /\ [scan EXCEPT !.todo = @ \ ev, !.got = TRUE].todo \subseteq DOMAIN fills
  BY DEF Scan
<1>. HIDE DEF ev, row, i
<1>5. CASE RepairEvent
  <2>1. /\ Unanchored(row) # {}
        /\ ledger' = [ledger EXCEPT ![i].fills = row.fills, ![i].orders = row.orders]
        /\ logVer' = logVer + 1
        /\ cache' = [ver |-> 0, fills |-> row.fills, orders |-> row.orders]
        /\ scan' = [scan EXCEPT !.todo = @ \ ev]
        /\ UNCHANGED diskFails
        /\ RestUnchanged
    BY <1>5 DEF RepairEvent, ev, row, i
  <2>2. i \in 1 .. Len(ledger) /\ ledger[i] \in Row
    <3>1. i \in Unanchored(row)
      BY <1>2, <2>1, NearestMember DEF i
    <3>2. i \in 1 .. Len(ledger)
      BY <3>1, LenProperties DEF Unanchored, DiskRows
    <3>. QED BY <3>2, ElementOfSeq
  <2>3. [ledger[i] EXCEPT !.fills = row.fills, !.orders = row.orders] \in Row
    BY <1>3, <2>2 DEF Row
  <2>4. ledger' = [ledger EXCEPT ![i] = [ledger[i] EXCEPT !.fills = row.fills, !.orders = row.orders]]
    BY <2>1, <2>2, LenProperties
  <2>5. ledger' \in Seq(Row)
    BY <2>2, <2>3, <2>4, ExceptSeq
  <2>6. cache' \in Cache
    BY <1>3, <2>1 DEF Cache
  <2>. QED BY <1>4, <2>1, <2>5, <2>6 DEF RestUnchanged, exchangeVars
<1>6. CASE RecordEvent
  <2>1. /\ Write(row) \/ FailWrite(row)
        /\ Remember(row)
        /\ scan' = [scan EXCEPT !.todo = @ \ ev, !.got = TRUE]
        /\ RestUnchanged
    BY <1>6 DEF RecordEvent, ev, row
  <2>. QED BY <1>2, <1>4, <2>1, TypeWrite, TypeRemember DEF RestUnchanged, exchangeVars
<1>7. CASE RepairFails
  <2>1. /\ diskFails' = diskFails + 1
        /\ ledger' = Append(ledger, row)
        /\ logVer' = logVer + 1
        /\ Remember(row)
        /\ scan' = [scan EXCEPT !.todo = @ \ ev, !.got = TRUE]
        /\ RestUnchanged
    BY <1>7 DEF RepairFails, ev, row
  <2>2. ledger' \in Seq(Row)
    BY <1>2, <2>1, AppendGrows
  <2>. QED BY <1>2, <1>4, <2>1, <2>2, TypeRemember DEF RestUnchanged, exchangeVars
<1>8. CASE SkipEvent
  <2>1. /\ diskFails' = diskFails + 1
        /\ scan' = [scan EXCEPT !.todo = @ \ ev]
        /\ UNCHANGED <<cache, ledger, logVer>>
        /\ RestUnchanged
    BY <1>8 DEF SkipEvent, ev
  <2>. QED BY <1>4, <2>1 DEF RestUnchanged, exchangeVars
<1>9. CASE RecordRaises
  <2>1. /\ diskFails' = diskFails + 1
        /\ ledger' = Append(ledger, row)
        /\ logVer' = logVer + 1
        /\ scan' = [scan EXCEPT !.todo = @ \ ev]
        /\ UNCHANGED cache
        /\ RestUnchanged
    BY <1>9 DEF RecordRaises, ev, row
  <2>2. ledger' \in Seq(Row)
    BY <1>2, <2>1, AppendGrows
  <2>. QED BY <1>4, <2>1, <2>2 DEF RestUnchanged, exchangeVars
<1>. QED BY <1>5, <1>6, <1>7, <1>8, <1>9 DEF ScanStep

LEMMA TypeClose == TypeInv /\ (\E s \in Targets : Close(s)) => TypeInv'
<1>. SUFFICES ASSUME TypeInv, NEW s \in Targets, Close(s) PROVE TypeInv'
  OBVIOUS
<1>. USE DEF TypeInv, TypeOK
<1>1. s \in Sides /\ SettleTries \in Nat \ {0} /\ SettleBack \in Nat
  BY ParametersAssumption DEF Sides
<1>2. /\ call[s] \in Call
      /\ call[s].start \in Nat /\ call[s].qty \in Nat /\ call[s].order \in Nat
      /\ call[s].tries \in 0 .. SettleTries
  BY <1>1 DEF Call
<1>3. CASE BeginClose(s)
  <2>1. [IdleCall EXCEPT !.pc = "reading", !.start = now] \in Call
    BY RecordTypes DEF Call
  <2>. QED BY <1>1, <1>3, <2>1 DEF BeginClose, exchangeVars, diskVars
<1>4. CASE ReadPosition(s)
  <2>. DEFINE qty == IF HedgeMode THEN pos[s] ELSE 0
              pc == IF qty > 0 THEN "submitting" ELSE "settling"
  <2>1. call' = [call EXCEPT ![s] = [@ EXCEPT !.qty = qty, !.pc = pc, !.tries = 1]]
    BY <1>1, <1>4 DEF ReadPosition
  <2>2. [call[s] EXCEPT !.qty = qty, !.pc = pc, !.tries = 1] \in Call
    <3>1. qty \in Nat /\ 1 \in 0 .. SettleTries
      BY <1>1
    <3>2. pc \in {"submitting", "settling"}
      OBVIOUS
    <3>. HIDE DEF qty, pc
    <3>. QED BY <1>2, <3>1, <3>2 DEF Call
  <2>3. call' \in [Sides -> Call]
    BY <1>1, <2>1, <2>2
  <2>. QED BY <1>4, <2>3 DEF ReadPosition, exchangeVars, diskVars
<1>5. ASSUME NEW acked \in BOOLEAN, Submit(s, acked) PROVE TypeInv'
  <2>1. [side |-> s, left |-> call[s].qty] \in Order
    BY <1>1, <1>2 DEF Order
  <2>2. orders' \in Seq(Order)
    BY <1>5, <2>1, AppendGrows DEF Submit, Place
  <2>3. Len(orders) + 1 \in Nat
    BY LenProperties
  <2>4. [call[s] EXCEPT !.pc = "settling", !.order = Len(orders) + 1] \in Call
    BY <1>2, <2>3 DEF Call
  <2>5. call' \in [Sides -> Call]
    BY <1>1, <1>5, <2>4, RecordTypes DEF Submit
  <2>. QED BY <1>5, <2>2, <2>5 DEF Submit, diskVars
<1>6. CASE AbortClose(s)
  BY <1>1, <1>6, RecordTypes DEF AbortClose, exchangeVars, diskVars
<1>7. CASE SettleRead(s)
  <2>1. call[s].start - SettleBack \in Int
    BY <1>1, <1>2
  <2>. QED BY <1>1, <1>7, <2>1, TypeStartScan DEF SettleRead, exchangeVars
<1>8. CASE SettleAgain(s)
  <2>1. [call[s] EXCEPT !.tries = @ + 1] \in Call
    <3>1. call[s].tries + 1 \in 0 .. SettleTries
      BY <1>1, <1>2, <1>8 DEF SettleAgain
    <3>. QED BY <1>2, <3>1 DEF Call
  <2>2. call' \in [Sides -> Call]
    BY <1>1, <1>8, <2>1 DEF SettleAgain
  <2>. QED BY <1>8, <2>2, RecordTypes DEF SettleAgain, exchangeVars, diskVars
<1>9. CASE SettleDone(s)
  BY <1>1, <1>9, RecordTypes DEF SettleDone, exchangeVars, diskVars
<1>10. CASE SettleGivesUp(s)
  <2>1. FallbackRow(s) \in Row
    BY <1>1, <1>2 DEF FallbackRow, Row
  <2>2. call' \in [Sides -> Call] /\ scan' = LoopFree /\ intent' \in Nat \cup {NoIntent}
    BY <1>1, <1>10, RecordTypes DEF SettleGivesUp
  <2>3. ledger' \in Seq(Row) /\ logVer' \in Nat /\ diskFails' \in Nat
    <3>1. CASE Write(FallbackRow(s)) \/ FailWrite(FallbackRow(s))
      BY <2>1, <3>1, TypeWrite
    <3>2. CASE UNCHANGED diskVars
      BY <3>2 DEF diskVars
    <3>. QED BY <1>10, <3>1, <3>2 DEF SettleGivesUp
  <2>. QED BY <1>10, <2>2, <2>3, RecordTypes DEF SettleGivesUp, exchangeVars
<1>. QED BY <1>3, <1>4, <1>5, <1>6, <1>7, <1>8, <1>9, <1>10
         DEF Close, SubmitAcked, SubmitUnacked

LEMMA TypeCycleStep == TypeInv /\ CycleStep => TypeInv'
<1>. SUFFICES ASSUME TypeInv, CycleStep PROVE TypeInv'
  OBVIOUS
<1>. USE DEF TypeInv, TypeOK
<1>1. EventGap \in Nat /\ Lookback \in Nat /\ cycle.since \in Int
  BY ParametersAssumption DEF Cycle
<1>2. ASSUME NEW since \in Int PROVE [pc |-> "pending", since |-> since] \in Cycle
  BY DEF Cycle
<1>3. [pc |-> "discover", since |-> 0] \in Cycle
  BY DEF Cycle
<1>4. CASE CycleBegin
  <2>1. intent - EventGap \in Int
    BY <1>1 DEF NoIntent
  <2>. QED BY <1>2, <1>3, <1>4, <2>1 DEF CycleBegin, exchangeVars, diskVars
<1>5. CASE PendingRead
  BY <1>1, <1>5, TypeStartScan DEF PendingRead, exchangeVars
<1>6. CASE PendingUnreadable
  BY <1>3, <1>6 DEF PendingUnreadable, exchangeVars, diskVars
<1>7. CASE PendingDone
  BY <1>3, <1>7, RecordTypes DEF PendingDone, exchangeVars, diskVars
<1>8. CASE DiscoverRead
  <2>1. now - Lookback \in Int
    BY <1>1
  <2>. QED BY <1>8, <2>1, TypeStartScan DEF DiscoverRead, exchangeVars
<1>9. CASE DiscoverDone
  BY <1>9, RecordTypes DEF DiscoverDone, exchangeVars, diskVars
<1>10. CASE DiscoverSkip
  BY <1>10, RecordTypes DEF DiscoverSkip, exchangeVars, diskVars
<1>. QED BY <1>4, <1>5, <1>6, <1>7, <1>8, <1>9, <1>10 DEF CycleStep

LEMMA TypeNext == TypeInv /\ [Next]_vars => TypeInv'
<1>. SUFFICES ASSUME TypeInv, [Next]_vars PROVE TypeInv'
  OBVIOUS
<1>1. CASE SaveSnapshot
  BY <1>1 DEF SaveSnapshot, TypeInv, TypeOK, exchangeVars, diskVars
<1>2. CASE Restart
  BY <1>2, RecordTypes DEF Restart, TypeInv, TypeOK, exchangeVars, diskVars
<1>3. CASE UNCHANGED vars
  BY <1>3 DEF vars, TypeInv, TypeOK, exchangeVars, diskVars
<1>. QED BY <1>1, <1>2, <1>3, TypeExchange, TypeScanStep, TypeClose, TypeCycleStep DEF Next

\* Every variable keeps its type, whatever the bounds and the number of restarts, and
\* no close reads userTrades more than SettleTries times.
THEOREM TypeCorrect == Spec => []TypeOK
<1>1. Init => TypeInv
  BY TypeInit
<1>2. TypeInv /\ [Next]_vars => TypeInv'
  BY TypeNext
<1>3. TypeInv => TypeOK
  BY DEF TypeInv
<1>. QED BY <1>1, <1>2, <1>3, PTL DEF Spec

-----------------------------------------------------------------------------
(* What a step can do to the log.                                           *)

Quiet ==
    /\ UNCHANGED <<ledger, logVer>>
    /\ cache' \in {cache, EmptyCache}
    /\ scan'.todo \subseteq scan.todo
    /\ \A f \in DOMAIN fills : f \in DOMAIN fills' /\ fills'[f] = fills[f]

Reads ==
    /\ UNCHANGED <<ledger, logVer, fills>>
    /\ cache' \in {cache, RecordedAnchors}
    /\ \E since \in Int : scan'.todo = Fresh(RecordedAnchors, since)

\* A scan that could not read the log.
Blind ==
    /\ LogReadsFail
    /\ UNCHANGED <<ledger, logVer, fills>>
    /\ \E since \in Int : scan'.todo = Fresh(EmptyCache, since)

Adds(row) ==
    \/ ledger' = Append(ledger, row) /\ logVer' = logVer + 1
    \/ ledger' = Append(ledger, [row EXCEPT !.disk = FALSE]) /\ logVer' = logVer

Records ==
    LET ev == NextEvent(scan.todo)
        row == EventRow(ev)
    IN  /\ scan.todo # {}
        /\ Adds(row)
        /\ Remember(row) \/ UNCHANGED cache
        /\ scan'.todo = scan.todo \ ev
        /\ UNCHANGED fills

FallsBack ==
    /\ \E s \in Sides :
          /\ Adds(FallbackRow(s)) /\ FallbackRow(s) \in Row
          /\ call[s].order # NoOrder /\ call'[s].order = NoOrder
    /\ scan'.todo = {}
    /\ UNCHANGED <<cache, fills>>

LEMMA QuietExchange == TypeInv /\ Exchange => Quiet
<1>. SUFFICES ASSUME TypeInv, Exchange PROVE Quiet
  OBVIOUS
<1>1. fills \in Seq(Fill) /\ now \in Nat /\ orders \in Seq(Order)
  BY DEF TypeInv, TypeOK
<1>2. \A f \in DOMAIN fills : f \in DOMAIN fills' /\ fills'[f] = fills[f]
  <2>1. CASE UNCHANGED fills
    BY <2>1
  <2>2. ASSUME NEW f \in Fill, fills' = Append(fills, f)
        PROVE  \A g \in DOMAIN fills : g \in DOMAIN fills' /\ fills'[g] = fills[g]
    BY <1>1, <2>2, AppendGrows
  <2>3. ASSUME NEW s \in Sides, Entry(s) PROVE \E f \in Fill : fills' = Append(fills, f)
    <3>1. FillOf(Len(orders) + 1, s, TRUE) \in Fill
      <4>1. Len(orders) + 1 \in Nat
        BY <1>1, LenProperties
      <4>. QED BY <1>1, <4>1, FillType
    <3>. QED BY <2>3, <3>1 DEF Entry
  <2>4. ASSUME NEW o \in DOMAIN orders, Match(o) PROVE \E f \in Fill : fills' = Append(fills, f)
    <3>1. orders[o] \in Order /\ o \in Nat
      BY <1>1, ElementOfSeq, LenProperties
    <3>2. FillOf(o, orders[o].side, FALSE) \in Fill
      BY <1>1, <3>1, FillType DEF Order
    <3>. QED BY <2>4, <3>2 DEF Match
  <2>. QED BY <2>1, <2>2, <2>3, <2>4 DEF Exchange, Tick, ExchangeClose, Surface
<1>3. BotUnchanged
  BY DEF Exchange, Tick, ExchangeClose, Entry, Match, Surface
<1>. QED BY <1>2, <1>3 DEF Quiet, BotUnchanged, diskVars

LEMMA ScanStepKinds == ScanStep => Quiet \/ Records \/ RepairEvent
<1>. SUFFICES ASSUME ScanStep PROVE Quiet \/ Records \/ RepairEvent
  OBVIOUS
<1>1. CASE RecordEvent
  BY <1>1 DEF RecordEvent, Records, Adds, Write, FailWrite, RestUnchanged, exchangeVars
<1>2. CASE RepairFails
  BY <1>2 DEF RepairFails, Records, Adds, RestUnchanged, exchangeVars
<1>3. CASE SkipEvent
  BY <1>3 DEF SkipEvent, Quiet, RestUnchanged, exchangeVars
<1>4. CASE RecordRaises
  BY <1>4 DEF RecordRaises, Records, Adds, RestUnchanged, exchangeVars
<1>. QED BY <1>1, <1>2, <1>3, <1>4 DEF ScanStep

LEMMA StartScanReads ==
    ASSUME NEW w, NEW since \in Int, StartScan(w, since), UNCHANGED fills
    PROVE  Reads \/ Blind
BY DEF StartScan, Reads, Blind, diskVars

LEMMA CloseKinds ==
    ASSUME TypeInv, NEW s \in Targets, Close(s)
    PROVE  Quiet \/ Reads \/ Blind \/ FallsBack
<1>1. s \in Sides /\ call[s] \in Call /\ SettleBack \in Nat
  BY ParametersAssumption DEF Sides, TypeInv, TypeOK
<1>2. CASE SettleRead(s)
  <2>1. call[s].start - SettleBack \in Int
    BY <1>1 DEF Call
  <2>. QED BY <1>2, <2>1, StartScanReads DEF SettleRead, exchangeVars
<1>3. CASE SettleGivesUp(s)
  <2>1. scan'.todo = {} /\ UNCHANGED <<cache, fills>>
    BY <1>3 DEF SettleGivesUp, LoopFree, exchangeVars
  <2>2. CASE UNCHANGED diskVars
    BY <2>1, <2>2 DEF Quiet, diskVars
  <2>3. CASE /\ call[s].order # NoOrder
             /\ Write(FallbackRow(s)) \/ FailWrite(FallbackRow(s))
    <3>1. FallbackRow(s) \in Row
      BY <1>1 DEF FallbackRow, Row, Call, TypeInv, TypeOK
    <3>2. call'[s].order = NoOrder
      BY <1>1, <1>3 DEF SettleGivesUp, IdleCall, TypeInv, TypeOK
    <3>. QED BY <1>1, <2>1, <2>3, <3>1, <3>2 DEF FallsBack, Adds, Write, FailWrite
  <2>. QED BY <1>3, <2>2, <2>3 DEF SettleGivesUp
<1>4. CASE BeginClose(s) \/ ReadPosition(s) \/ AbortClose(s)
  BY <1>4 DEF BeginClose, ReadPosition, AbortClose, Quiet, exchangeVars, diskVars
<1>5. ASSUME NEW acked, Submit(s, acked) PROVE Quiet
  BY <1>5 DEF Submit, Quiet, diskVars
<1>6. CASE SettleAgain(s) \/ SettleDone(s)
  BY <1>6 DEF SettleAgain, SettleDone, LoopFree, Quiet, exchangeVars, diskVars
<1>. QED BY <1>2, <1>3, <1>4, <1>5, <1>6 DEF Close, SubmitAcked, SubmitUnacked

LEMMA CycleKinds ==
    ASSUME TypeInv, CycleStep
    PROVE  Quiet \/ Reads \/ Blind
<1>1. cycle.since \in Int /\ now - Lookback \in Int
  BY ParametersAssumption DEF TypeInv, TypeOK, Cycle
<1>2. CASE PendingRead
  BY <1>1, <1>2, StartScanReads DEF PendingRead, exchangeVars
<1>3. CASE DiscoverRead
  BY <1>1, <1>3, StartScanReads DEF DiscoverRead, exchangeVars
<1>4. CASE CycleBegin \/ PendingUnreadable \/ DiscoverSkip
  BY <1>4 DEF CycleBegin, PendingUnreadable, DiscoverSkip, Quiet, exchangeVars, diskVars
<1>5. CASE PendingDone \/ DiscoverDone
  BY <1>5 DEF PendingDone, DiscoverDone, LoopFree, Quiet, exchangeVars, diskVars
<1>. QED BY <1>2, <1>3, <1>4, <1>5 DEF CycleStep

LEMMA StepKinds ==
    ASSUME TypeInv, [Next]_vars
    PROVE  Quiet \/ Reads \/ Blind \/ Records \/ FallsBack \/ RepairEvent
<1>1. CASE SaveSnapshot
  BY <1>1 DEF SaveSnapshot, Quiet, exchangeVars, diskVars
<1>2. CASE Restart
  BY <1>2 DEF Restart, LoopFree, Quiet, exchangeVars, diskVars
<1>3. CASE UNCHANGED vars
  BY <1>3 DEF vars, Quiet, exchangeVars, diskVars
<1>. QED BY <1>1, <1>2, <1>3, QuietExchange, ScanStepKinds, CloseKinds, CycleKinds DEF Next

-----------------------------------------------------------------------------
(* What the trade log promises, while it can be read.                       *)

\* A row without ids is one of the old ones.
RowsHaveIds ==
    \A i \in DOMAIN ledger :
        /\ ledger[i].kind = "fills" => ledger[i].fills # {}
        /\ ledger[i].kind = "order" => ledger[i].orders # {}

\* A scan has closing fills open only.
ScanReduces == \A f \in scan.todo : f \in DOMAIN fills /\ Reduces(fills[f])

LogInv ==
    /\ TypeInv
    /\ LogStamped
    /\ CacheCovers
    /\ ScanIsNews
    /\ ScanReduces
    /\ RowsHaveIds
    /\ FillsAnchoredOnce
    /\ NoRecountAfterFallback

LEMMA LogInit == Init => LogInv
<1>. SUFFICES ASSUME Init PROVE LogInv
  OBVIOUS
<1>1. TypeInv
  BY TypeInit
<1>2. \/ ledger = <<>> /\ logVer = 0
      \/ \E s \in Sides : ledger = <<LegacyRow(s)>> /\ logVer = 1
  BY DEF Init
<1>3. \A i \in DOMAIN ledger :
        ledger[i].kind = "legacy" /\ ledger[i].fills = {} /\ ledger[i].orders = {}
  BY <1>2 DEF LegacyRow
<1>4. DiskFills = {} /\ DiskOrders = {}
  BY <1>3 DEF DiskFills, DiskOrders, DiskRows
<1>5. scan.todo = {} /\ cache.ver = 0
  BY DEF Init, LoopFree, EmptyCache
<1>6. LogStamped /\ CacheCovers
  BY <1>2, <1>4, <1>5 DEF LogStamped, CacheCovers, DiskRows
<1>7. FillsAnchoredOnce /\ NoRecountAfterFallback /\ RowsHaveIds
  BY <1>3 DEF FillsAnchoredOnce, NoRecountAfterFallback, RowsHaveIds, DiskRows
<1>. QED BY <1>1, <1>4, <1>5, <1>6, <1>7 DEF LogInv, ScanIsNews, ScanReduces

LEMMA LogQuiet ==
    ASSUME LogInv, TypeInv', Quiet
    PROVE  LogInv'
<1>1. DiskRows' = DiskRows /\ DiskFills' = DiskFills /\ DiskOrders' = DiskOrders
  BY DEF Quiet, DiskRows, DiskFills, DiskOrders
<1>2. LogStamped' /\ RowsHaveIds' /\ FillsAnchoredOnce' /\ NoRecountAfterFallback'
  BY <1>1 DEF Quiet, LogInv, LogStamped, RowsHaveIds, FillsAnchoredOnce, NoRecountAfterFallback
<1>3. CacheCovers'
  <2>1. CASE cache' = cache
    BY <1>1, <2>1 DEF Quiet, LogInv, CacheCovers
  <2>2. CASE cache' = EmptyCache
    <3>1. logVer = 0 => DiskFills = {} /\ DiskOrders = {}
      BY DEF LogInv, LogStamped, DiskFills, DiskOrders
    <3>2. logVer \in Nat
      BY DEF LogInv, TypeInv, TypeOK
    <3>. QED BY <1>1, <2>2, <3>1, <3>2 DEF Quiet, CacheCovers, EmptyCache
  <2>. QED BY <2>1, <2>2 DEF Quiet
<1>4. ScanReduces'
  BY DEF Quiet, LogInv, ScanReduces
<1>5. ScanIsNews'
  BY <1>1 DEF Quiet, LogInv, ScanIsNews, ScanReduces
<1>. QED BY <1>2, <1>3, <1>4, <1>5 DEF LogInv

LEMMA LogReads ==
    ASSUME LogInv, TypeInv', Reads
    PROVE  LogInv'
<1>1. DiskRows' = DiskRows /\ DiskFills' = DiskFills /\ DiskOrders' = DiskOrders
  BY DEF Reads, DiskRows, DiskFills, DiskOrders
<1>2. LogStamped' /\ RowsHaveIds' /\ FillsAnchoredOnce' /\ NoRecountAfterFallback'
  BY <1>1 DEF Reads, LogInv, LogStamped, RowsHaveIds, FillsAnchoredOnce, NoRecountAfterFallback
<1>3. DiskFills \subseteq RecordedAnchors.fills /\ DiskOrders \subseteq RecordedAnchors.orders
  BY DEF LogInv, CacheCovers, RecordedAnchors
<1>4. RecordedAnchors.ver = logVer /\ logVer <= logVer
  BY DEF RecordedAnchors, LogInv, TypeInv, TypeOK
<1>5. CacheCovers'
  BY <1>1, <1>3, <1>4 DEF Reads, LogInv, CacheCovers
<1>6. PICK since \in Int : scan'.todo = Fresh(RecordedAnchors, since)
  BY DEF Reads
<1>7. ASSUME NEW f \in scan'.todo
      PROVE  /\ f \in DOMAIN fills /\ Reduces(fills[f])
             /\ f \notin DiskFills /\ fills[f].order \notin DiskOrders
  BY <1>3, <1>6 DEF Fresh, InWindow, LogInv, TypeInv
<1>8. ScanReduces'
  BY <1>7 DEF Reads, ScanReduces
<1>9. ScanIsNews'
  <2>1. ASSUME NEW f \in scan'.todo, NEW i \in DiskRows
        PROVE  fills[f].order \notin ledger[i].orders
    BY <1>7 DEF DiskOrders
  <2>. QED BY <1>1, <1>7, <2>1 DEF Reads, ScanIsNews
<1>. QED BY <1>2, <1>5, <1>8, <1>9 DEF LogInv

\* A row that joins the log, in the file or not.
LEMMA AddsProperties ==
    ASSUME TypeInv, NEW row \in Row, row.disk, Adds(row)
    PROVE  LET n == Len(ledger) + 1
           IN  /\ n \notin DOMAIN ledger
               /\ DOMAIN ledger' = DOMAIN ledger \cup {n}
               /\ \A i \in DOMAIN ledger : ledger'[i] = ledger[i] /\ i < n
               /\ ledger'[n].kind = row.kind
               /\ ledger'[n].fills = row.fills
               /\ ledger'[n].orders = row.orders
               /\ \/ logVer' = logVer + 1 /\ ledger'[n].disk
                  \/ logVer' = logVer /\ ~ledger'[n].disk
<1>1. ledger \in Seq(Row) /\ [row EXCEPT !.disk = FALSE] \in Row
  BY DEF TypeInv, TypeOK, Row
<1>2. Len(ledger) \in Nat /\ DOMAIN ledger = 1 .. Len(ledger)
  BY <1>1, LenProperties
<1>3. \A i \in DOMAIN ledger : i < Len(ledger) + 1
  BY <1>2
<1>4. CASE ledger' = Append(ledger, row) /\ logVer' = logVer + 1
  BY <1>1, <1>3, <1>4, AppendGrows
<1>5. CASE ledger' = Append(ledger, [row EXCEPT !.disk = FALSE]) /\ logVer' = logVer
  <2>1. LET new == [row EXCEPT !.disk = FALSE]
        IN  /\ new.kind = row.kind /\ new.fills = row.fills
            /\ new.orders = row.orders /\ ~new.disk
    BY DEF Row
  <2>2. /\ DOMAIN ledger' = DOMAIN ledger \cup {Len(ledger) + 1}
        /\ Len(ledger) + 1 \notin DOMAIN ledger
        /\ ledger'[Len(ledger) + 1] = [row EXCEPT !.disk = FALSE]
        /\ \A i \in DOMAIN ledger : ledger'[i] = ledger[i]
    BY <1>1, <1>5, AppendGrows
  <2>. QED BY <1>3, <1>5, <2>1, <2>2
<1>. QED BY <1>4, <1>5 DEF Adds

LEMMA AddsToDisk ==
    ASSUME TypeInv, NEW row \in Row, row.disk, Adds(row)
    PROVE  /\ DiskRows' \subseteq DiskRows \cup {Len(ledger) + 1}
           /\ DiskFills' \subseteq DiskFills \cup row.fills
           /\ \/ logVer' = logVer + 1
              \/ /\ logVer' = logVer
                 /\ DiskRows' = DiskRows
                 /\ DiskFills' = DiskFills
                 /\ DiskOrders' = DiskOrders
<1>. DEFINE n == Len(ledger) + 1
<1>1. /\ n \notin DOMAIN ledger
      /\ DOMAIN ledger' = DOMAIN ledger \cup {n}
      /\ \A i \in DOMAIN ledger : ledger'[i] = ledger[i]
      /\ ledger'[n].fills = row.fills
      /\ \/ logVer' = logVer + 1 /\ ledger'[n].disk
         \/ logVer' = logVer /\ ~ledger'[n].disk
  BY AddsProperties
<1>. HIDE DEF n
<1>2. DiskRows' \subseteq DiskRows \cup {n} /\ DiskRows \subseteq DOMAIN ledger
  BY <1>1 DEF DiskRows
<1>3. DiskFills' \subseteq DiskFills \cup row.fills
  BY <1>1, <1>2 DEF DiskFills
<1>4. ASSUME logVer' = logVer, ~ledger'[n].disk
      PROVE  /\ DiskRows' = DiskRows
             /\ DiskFills' = DiskFills
             /\ DiskOrders' = DiskOrders
  <2>1. DiskRows' = DiskRows
    BY <1>1, <1>4 DEF DiskRows
  <2>. QED BY <1>1, <1>2, <2>1 DEF DiskFills, DiskOrders
<1>. QED BY <1>1, <1>2, <1>3, <1>4 DEF n

LEMMA LogRecords ==
    ASSUME LogInv, TypeInv', Records
    PROVE  LogInv'
<1>. DEFINE ev == NextEvent(scan.todo)
            row == EventRow(ev)
            n == Len(ledger) + 1
<1>1. /\ TypeInv /\ LogStamped /\ CacheCovers /\ ScanIsNews /\ ScanReduces
      /\ RowsHaveIds /\ FillsAnchoredOnce /\ NoRecountAfterFallback
  BY DEF LogInv
<1>2. /\ scan.todo # {} /\ Adds(row) /\ (Remember(row) \/ UNCHANGED cache)
      /\ scan'.todo = scan.todo \ ev
      /\ fills' = fills
  BY DEF Records
<1>3. ev \subseteq scan.todo /\ ev # {} /\ row \in Row
  BY <1>1, <1>2, EventRowProperties
<1>4. row.kind = "fills" /\ row.fills = ev /\ row.disk
      /\ row.orders = {fills[f].order : f \in ev}
  BY DEF EventRow
<1>. HIDE DEF ev, row
<1>5. /\ n \notin DOMAIN ledger
      /\ DOMAIN ledger' = DOMAIN ledger \cup {n}
      /\ \A i \in DOMAIN ledger : ledger'[i] = ledger[i] /\ i < n
      /\ ledger'[n].kind = "fills"
      /\ ledger'[n].fills = ev
      /\ ledger'[n].orders = row.orders
  BY <1>1, <1>2, <1>3, <1>4, AddsProperties
<1>6. /\ DiskRows' \subseteq DiskRows \cup {n}
      /\ DiskFills' \subseteq DiskFills \cup ev
      /\ \/ logVer' = logVer + 1
         \/ /\ logVer' = logVer
            /\ DiskRows' = DiskRows
            /\ DiskFills' = DiskFills
            /\ DiskOrders' = DiskOrders
  BY <1>1, <1>2, <1>3, <1>4, AddsToDisk
<1>. HIDE DEF n
<1>7. logVer \in Nat /\ cache.ver \in Nat /\ cache \in Cache
  BY <1>1 DEF TypeInv, TypeOK, Cache
<1>8. LogStamped'
  BY <1>1, <1>6, <1>7 DEF LogStamped
<1>9. CacheCovers'
  <2>1. /\ cache'.ver = cache.ver
        /\ cache.fills \subseteq cache'.fills /\ cache.orders \subseteq cache'.orders
    BY <1>2, <1>7 DEF Remember, Cache
  <2>2. CASE logVer' = logVer + 1
    BY <1>1, <1>7, <2>1, <2>2 DEF CacheCovers
  <2>3. CASE logVer' = logVer /\ DiskFills' = DiskFills /\ DiskOrders' = DiskOrders
    BY <1>1, <2>1, <2>3 DEF CacheCovers
  <2>. QED BY <1>6, <2>2, <2>3
<1>10. ScanReduces'
  BY <1>1, <1>2 DEF ScanReduces
<1>11. ASSUME NEW f \in scan.todo, NEW i \in DiskRows', ledger'[i].kind = "order"
       PROVE  i \in DiskRows /\ fills[f].order \notin ledger[i].orders /\ ledger'[i] = ledger[i]
  <2>1. i \in DiskRows
    BY <1>5, <1>6, <1>11
  <2>2. ledger'[i] = ledger[i]
    BY <1>5, <2>1 DEF DiskRows
  <2>. QED BY <1>1, <1>11, <2>1, <2>2 DEF ScanIsNews
<1>12. ScanIsNews'
  <2>1. scan'.todo \cap DiskFills' = {}
    BY <1>1, <1>2, <1>6 DEF ScanIsNews
  <2>. QED BY <1>2, <1>11, <2>1 DEF ScanIsNews
<1>13. RowsHaveIds'
  BY <1>1, <1>3, <1>5 DEF RowsHaveIds
<1>14. FillsAnchoredOnce'
  <2>1. \A i \in DiskRows : ledger'[i] = ledger[i] /\ ledger[i].fills \subseteq DiskFills
    BY <1>5 DEF DiskRows, DiskFills
  <2>2. ev \cap DiskFills = {}
    BY <1>1, <1>3 DEF ScanIsNews
  <2>. QED BY <1>1, <1>5, <1>6, <2>1, <2>2 DEF FillsAnchoredOnce
<1>15. NoRecountAfterFallback'
  <2>. SUFFICES ASSUME NEW i \in DiskRows', NEW j \in DOMAIN ledger', i < j,
                       ledger'[i].kind = "order", ledger'[j].kind = "fills"
                PROVE  ledger'[i].orders \cap ledger'[j].orders = {}
    BY DEF NoRecountAfterFallback
  <2>1. CASE j = n
    <3>1. \A f \in ev : fills[f].order \notin ledger'[i].orders
      BY <1>3, <1>11
    <3>. QED BY <1>4, <1>5, <2>1, <3>1
  <2>2. CASE j \in DOMAIN ledger
    <3>1. \A f \in scan.todo : i \in DiskRows /\ ledger'[i] = ledger[i]
      BY <1>11
    <3>2. i \in DiskRows /\ ledger'[i] = ledger[i] /\ ledger'[j] = ledger[j]
      BY <1>2, <1>5, <2>2, <3>1
    <3>. QED BY <1>1, <2>2, <3>2 DEF NoRecountAfterFallback
  <2>. QED BY <1>5, <2>1, <2>2
<1>. QED BY <1>8, <1>9, <1>10, <1>12, <1>13, <1>14, <1>15 DEF LogInv

LEMMA LogFallsBack ==
    ASSUME LogInv, TypeInv', FallsBack
    PROVE  LogInv'
<1>1. PICK s \in Sides : Adds(FallbackRow(s)) /\ FallbackRow(s) \in Row
  BY DEF FallsBack
<1>. DEFINE row == FallbackRow(s)
            n == Len(ledger) + 1
<1>2. row.kind = "order" /\ row.fills = {} /\ row.orders # {} /\ row.disk
  BY DEF FallbackRow
<1>3. /\ TypeInv /\ LogStamped /\ CacheCovers
      /\ RowsHaveIds /\ FillsAnchoredOnce /\ NoRecountAfterFallback
  BY DEF LogInv
<1>4. scan'.todo = {} /\ cache' = cache
  BY DEF FallsBack
<1>. HIDE DEF row
<1>5. /\ n \notin DOMAIN ledger
      /\ DOMAIN ledger' = DOMAIN ledger \cup {n}
      /\ \A i \in DOMAIN ledger : ledger'[i] = ledger[i] /\ i < n
      /\ ledger'[n].kind = "order"
      /\ ledger'[n].fills = {}
      /\ ledger'[n].orders # {}
  BY <1>1, <1>2, <1>3, AddsProperties DEF row
<1>6. /\ DiskRows' \subseteq DiskRows \cup {n}
      /\ \/ logVer' = logVer + 1
         \/ /\ logVer' = logVer
            /\ DiskRows' = DiskRows
            /\ DiskFills' = DiskFills
            /\ DiskOrders' = DiskOrders
  BY <1>1, <1>2, <1>3, AddsToDisk DEF row
<1>7. logVer \in Nat /\ cache.ver \in Nat /\ n \in Nat
  BY <1>3, LenProperties DEF TypeInv, TypeOK, Cache
<1>8. LogStamped' /\ CacheCovers'
  BY <1>3, <1>4, <1>6, <1>7 DEF LogStamped, CacheCovers
<1>. HIDE DEF n
<1>9. RowsHaveIds'
  BY <1>3, <1>5 DEF RowsHaveIds
<1>10. FillsAnchoredOnce'
  <2>1. \A i \in DiskRows : ledger'[i] = ledger[i]
    BY <1>5 DEF DiskRows
  <2>. QED BY <1>3, <1>5, <1>6, <2>1 DEF FillsAnchoredOnce
<1>11. NoRecountAfterFallback'
  <2>. SUFFICES ASSUME NEW i \in DiskRows', NEW j \in DOMAIN ledger', i < j,
                       ledger'[i].kind = "order", ledger'[j].kind = "fills"
                PROVE  ledger'[i].orders \cap ledger'[j].orders = {}
    BY DEF NoRecountAfterFallback
  <2>1. j \in DOMAIN ledger /\ j < n /\ ledger'[j] = ledger[j]
    BY <1>5
  <2>2. j \in Nat
    BY <1>3, <2>1, LenProperties DEF TypeInv, TypeOK
  <2>3. i \in DiskRows
    <3>1. i # n
      BY <1>7, <2>1, <2>2
    <3>. QED BY <1>6, <3>1
  <2>4. ledger'[i] = ledger[i]
    BY <1>5, <2>3 DEF DiskRows
  <2>. QED BY <1>3, <2>1, <2>3, <2>4 DEF NoRecountAfterFallback
<1>12. ScanIsNews' /\ ScanReduces'
  BY <1>4 DEF ScanIsNews, ScanReduces
<1>. QED BY <1>8, <1>9, <1>10, <1>11, <1>12 DEF LogInv

RepairedEvent == NextEvent(scan.todo)
RepairedRow == Nearest(Unanchored(EventRow(RepairedEvent)), EventRow(RepairedEvent))

\* A repair gives an event's ids to one old row, and touches no other.
LEMMA RepairProperties ==
    ASSUME TypeInv, RepairEvent,
           NEW ev, ev = RepairedEvent, NEW i, i = RepairedRow
    PROVE  /\ i \in DiskRows
           /\ ledger[i].fills = {} /\ ledger[i].orders = {}
           /\ ev \subseteq scan.todo /\ ev # {}
           /\ ledger' = [ledger EXCEPT ![i].fills = ev, ![i].orders = EventRow(ev).orders]
           /\ DOMAIN ledger' = DOMAIN ledger
           /\ \A j \in DOMAIN ledger : j # i => ledger'[j] = ledger[j]
           /\ ledger'[i] = [ledger[i] EXCEPT !.fills = ev, !.orders = EventRow(ev).orders]
           /\ ledger'[i].fills = ev
           /\ ledger'[i].disk /\ ledger'[i].kind = ledger[i].kind
           /\ logVer' = logVer + 1 /\ cache'.ver = 0
           /\ scan'.todo = scan.todo \ ev
           /\ fills' = fills
<1>. DEFINE row == EventRow(ev)
<1>1. /\ scan.todo # {}
      /\ Unanchored(row) # {}
      /\ ledger' = [ledger EXCEPT ![i].fills = row.fills, ![i].orders = row.orders]
      /\ logVer' = logVer + 1
      /\ cache'.ver = 0
      /\ scan'.todo = scan.todo \ ev
      /\ fills' = fills
  BY DEF RepairEvent, RepairedEvent, RepairedRow, RestUnchanged, exchangeVars,
         TypeInv, TypeOK, Scan
<1>2. ev \subseteq scan.todo /\ ev # {} /\ row \in Row
  BY <1>1, EventRowProperties DEF RepairedEvent
<1>3. row.fills = ev
  BY DEF EventRow
<1>4. i \in Unanchored(row)
  BY <1>1, <1>2, NearestMember DEF TypeInv, TypeOK, RepairedEvent, RepairedRow
<1>5. i \in DiskRows /\ ledger[i].fills = {} /\ ledger[i].orders = {}
  BY <1>4 DEF Unanchored
<1>6. i \in DOMAIN ledger /\ ledger[i].disk
  BY <1>5 DEF DiskRows
<1>7. ledger[i] \in Row
  BY <1>6, ElementOfSeq, LenProperties DEF TypeInv, TypeOK
<1>8. /\ DOMAIN ledger' = DOMAIN ledger
      /\ \A j \in DOMAIN ledger : j # i => ledger'[j] = ledger[j]
      /\ ledger'[i] = [ledger[i] EXCEPT !.fills = row.fills, !.orders = row.orders]
  BY <1>1, <1>6
<1>9. /\ ledger'[i].fills = row.fills
      /\ ledger'[i].disk /\ ledger'[i].kind = ledger[i].kind
  BY <1>6, <1>7, <1>8 DEF Row
<1>. QED BY <1>1, <1>2, <1>3, <1>5, <1>8, <1>9

LEMMA LogRepairs ==
    ASSUME LogInv, TypeInv', RepairEvent
    PROVE  LogInv'
<1>. DEFINE ev == RepairedEvent
            i == RepairedRow
<1>1. /\ TypeInv /\ LogStamped /\ CacheCovers /\ ScanIsNews /\ ScanReduces
      /\ RowsHaveIds /\ FillsAnchoredOnce /\ NoRecountAfterFallback
  BY DEF LogInv
<1>2. /\ i \in DiskRows
      /\ ledger[i].fills = {} /\ ledger[i].orders = {}
      /\ ev \subseteq scan.todo /\ ev # {}
      /\ DOMAIN ledger' = DOMAIN ledger
      /\ \A j \in DOMAIN ledger : j # i => ledger'[j] = ledger[j]
      /\ ledger'[i].fills = ev
      /\ ledger'[i].disk /\ ledger'[i].kind = ledger[i].kind
      /\ logVer' = logVer + 1 /\ cache'.ver = 0
      /\ scan'.todo = scan.todo \ ev
      /\ fills' = fills
  BY <1>1, RepairProperties
<1>. HIDE DEF ev, i
<1>3. i \in DOMAIN ledger /\ ledger[i].kind # "fills" /\ ledger[i].kind # "order"
  BY <1>1, <1>2 DEF RowsHaveIds, DiskRows
<1>4. DiskRows' = DiskRows
  BY <1>2, <1>3 DEF DiskRows
<1>5. DiskFills' \subseteq DiskFills \cup ev
  BY <1>2, <1>4 DEF DiskFills, DiskRows
<1>6. logVer \in Nat
  BY <1>1 DEF TypeInv, TypeOK
<1>7. LogStamped' /\ CacheCovers'
  BY <1>2, <1>6 DEF LogStamped, CacheCovers
<1>8. ScanReduces'
  BY <1>1, <1>2 DEF ScanReduces
<1>9. ScanIsNews'
  <2>1. scan'.todo \cap DiskFills' = {}
    BY <1>1, <1>2, <1>5 DEF ScanIsNews
  <2>2. ASSUME NEW f \in scan'.todo, NEW j \in DiskRows', ledger'[j].kind = "order"
        PROVE  fills'[f].order \notin ledger'[j].orders
    <3>1. j # i
      BY <1>2, <1>3, <2>2
    <3>2. j \in DiskRows /\ ledger'[j] = ledger[j]
      BY <1>2, <1>4, <3>1 DEF DiskRows
    <3>. QED BY <1>1, <1>2, <2>2, <3>2 DEF ScanIsNews
  <2>. QED BY <2>1, <2>2 DEF ScanIsNews
<1>10. RowsHaveIds'
  BY <1>1, <1>2, <1>3 DEF RowsHaveIds
<1>11. FillsAnchoredOnce'
  <2>1. \A j \in DiskRows : ledger[j].fills \subseteq DiskFills
    BY DEF DiskFills
  <2>2. ev \cap DiskFills = {}
    BY <1>1, <1>2 DEF ScanIsNews
  <2>3. \A j \in DiskRows : j # i => ledger'[j] = ledger[j]
    BY <1>2 DEF DiskRows
  <2>. QED BY <1>1, <1>2, <1>4, <2>1, <2>2, <2>3 DEF FillsAnchoredOnce
<1>12. NoRecountAfterFallback'
  <2>. SUFFICES ASSUME NEW k \in DiskRows', NEW j \in DOMAIN ledger', k < j,
                       ledger'[k].kind = "order", ledger'[j].kind = "fills"
                PROVE  ledger'[k].orders \cap ledger'[j].orders = {}
    BY DEF NoRecountAfterFallback
  <2>1. k # i /\ j # i
    BY <1>2, <1>3
  <2>2. ledger'[k] = ledger[k] /\ ledger'[j] = ledger[j] /\ j \in DOMAIN ledger /\ k \in DiskRows
    BY <1>2, <1>4, <2>1 DEF DiskRows
  <2>. QED BY <1>1, <2>2 DEF NoRecountAfterFallback
<1>. QED BY <1>7, <1>8, <1>9, <1>10, <1>11, <1>12 DEF LogInv

LEMMA LogNext ==
    ASSUME ~LogReadsFail, LogInv, [Next]_vars
    PROVE  LogInv'
<1>1. TypeInv'
  BY TypeNext DEF LogInv
<1>2. Quiet \/ Reads \/ Records \/ FallsBack \/ RepairEvent
  BY StepKinds DEF LogInv, Blind
<1>. QED BY <1>1, <1>2, LogQuiet, LogReads, LogRecords, LogFallsBack, LogRepairs

\* As long as trades.jsonl can be read, no two of its rows name the same fill: for every
\* number of scans, closes, failed writes and restarts (reconcile_symbol_closes).
THEOREM ScansAreIdempotent ==
    ASSUME ~LogReadsFail
    PROVE  Spec => []FillsAnchoredOnce
<1>1. Init => LogInv
  BY LogInit
<1>2. LogInv /\ [Next]_vars => LogInv'
  BY LogNext
<1>3. LogInv => FillsAnchoredOnce
  BY DEF LogInv
<1>. QED BY <1>1, <1>2, <1>3, PTL DEF Spec

\* Whenever a cache bears the stamp of the file it knows every id that is in it, though
\* ids are added to it without the stamp and other writers append (_recorded_anchors).
THEOREM CachesCover ==
    ASSUME ~LogReadsFail
    PROVE  Spec => []CacheCovers
<1>1. Init => LogInv
  BY LogInit
<1>2. LogInv /\ [Next]_vars => LogInv'
  BY LogNext
<1>3. LogInv => CacheCovers
  BY DEF LogInv
<1>. QED BY <1>1, <1>2, <1>3, PTL DEF Spec

\* What a scan still has to record is not in the file, whatever it recorded before
\* (reconcile_symbol_closes_detailed).
THEOREM ScansBringNews ==
    ASSUME ~LogReadsFail
    PROVE  Spec => []ScanIsNews
<1>1. Init => LogInv
  BY LogInit
<1>2. LogInv /\ [Next]_vars => LogInv'
  BY LogNext
<1>3. LogInv => ScanIsNews
  BY DEF LogInv
<1>. QED BY <1>1, <1>2, <1>3, PTL DEF Spec

\* ... and once an estimate is in the file, no later row records its order from the fills
\* (the order anchors of _recorded_anchors).
THEOREM EstimatesAreNotRecounted ==
    ASSUME ~LogReadsFail
    PROVE  Spec => []NoRecountAfterFallback
<1>1. Init => LogInv
  BY LogInit
<1>2. LogInv /\ [Next]_vars => LogInv'
  BY LogNext
<1>3. LogInv => NoRecountAfterFallback
  BY DEF LogInv
<1>. QED BY <1>1, <1>2, <1>3, PTL DEF Spec

LEMMA AddsAreFinal ==
    ASSUME TypeInv, NEW row \in Row, row.disk, Adds(row)
    PROVE  AnchorsStay
<1>1. \A i \in DOMAIN ledger : i \in DOMAIN ledger' /\ ledger'[i] = ledger[i]
  BY AddsProperties
<1>2. \A i \in DOMAIN ledger : ledger[i] \in Row
  BY ElementOfSeq, LenProperties DEF TypeInv, TypeOK
<1>. QED BY <1>1, <1>2 DEF AnchorsStay, Row

\* No step takes a row back, rewrites it, or gives other ids to a row that has ids; the
\* rewriting of the whole file in _repair_anchor included, and unreadable logs too.
THEOREM AnchorsFinal == Spec => AnchorsAreFinal
<1>1. TypeInv /\ [Next]_vars => [AnchorsStay]_vars
  <2>. SUFFICES ASSUME TypeInv, [Next]_vars PROVE AnchorsStay
    OBVIOUS
  <2>1. \A i \in DOMAIN ledger : ledger[i] \in Row
    BY ElementOfSeq, LenProperties DEF TypeInv, TypeOK
  <2>2. CASE UNCHANGED ledger
    BY <2>1, <2>2 DEF AnchorsStay, Row
  <2>3. CASE Records
    <3>1. EventRow(NextEvent(scan.todo)) \in Row /\ EventRow(NextEvent(scan.todo)).disk
      BY <2>3, EventRowProperties DEF Records, EventRow
    <3>. QED BY <2>3, <3>1, AddsAreFinal DEF Records
  <2>4. CASE FallsBack
    BY <2>4, AddsAreFinal DEF FallsBack, FallbackRow
  <2>5. CASE RepairEvent
    <3>. DEFINE i == RepairedRow
    <3>1. /\ ledger[i].fills = {} /\ ledger[i].orders = {}
          /\ DOMAIN ledger' = DOMAIN ledger
          /\ \A j \in DOMAIN ledger : j # i => ledger'[j] = ledger[j]
          /\ ledger'[i] = [ledger[i] EXCEPT !.fills = RepairedEvent,
                                            !.orders = EventRow(RepairedEvent).orders]
      BY <2>5, RepairProperties
    <3>. HIDE DEF i
    <3>2. ASSUME NEW j \in DOMAIN ledger
          PROVE  /\ j \in DOMAIN ledger'
                 /\ ledger'[j] = [ledger[j] EXCEPT !.fills = ledger'[j].fills,
                                                  !.orders = ledger'[j].orders]
                 /\ (ledger[j].fills # {} \/ ledger[j].orders # {}) => ledger'[j] = ledger[j]
      <4>1. CASE j = i
        BY <2>1, <3>1, <4>1 DEF Row
      <4>2. CASE j # i
        BY <2>1, <3>1, <4>2 DEF Row
      <4>. QED BY <4>1, <4>2
    <3>. QED BY <3>2 DEF AnchorsStay
  <2>. QED BY <2>2, <2>3, <2>4, <2>5, StepKinds DEF Quiet, Reads, Blind
<1>. QED BY <1>1, TypeInit, TypeNext, PTL DEF Spec, AnchorsAreFinal

-----------------------------------------------------------------------------
(* What is counted twice.  None of this needs the log to be readable.       *)

Estimates == {i \in DOMAIN ledger : ledger[i].kind = "order"}

\* A call knows no order but its own.
OrdersOfCalls ==
    \A s \in Sides : call[s].order # NoOrder =>
        call[s].order \in DOMAIN orders /\ orders[call[s].order].side = s

\* An estimate is of an order that no call has any more, and no other estimate is of it.
EstimatesOwn ==
    \A i \in Estimates :
        /\ ledger[i].fills = {} /\ ledger[i].orders # {}
        /\ ledger[i].orders \subseteq DOMAIN orders
        /\ \A s \in Sides : call[s].order \notin ledger[i].orders
        /\ \A j \in Estimates : j # i => ledger[i].orders \cap ledger[j].orders = {}

\* A row of fills bears the ids of their orders, and only the first row may be an old one.
RowsOfFills ==
    \A i \in DOMAIN ledger :
        /\ ledger[i].kind = "fills" =>
             \A f \in ledger[i].fills : f \in DOMAIN fills /\ fills[f].order \in ledger[i].orders
        /\ ledger[i].kind = "legacy" => i = 1

CountInv == TypeInv /\ OrdersOfCalls /\ EstimatesOwn /\ RowsOfFills

\* Orders stay with their side, and a call keeps its order, drops it, or gets a new one.
CallsGoOn ==
    /\ \A o \in DOMAIN orders : o \in DOMAIN orders' /\ orders'[o].side = orders[o].side
    /\ \A s \in Sides :
          \/ call'[s].order \in {call[s].order, NoOrder}
          \/ /\ call'[s].order \notin DOMAIN orders
             /\ call'[s].order \in DOMAIN orders' /\ orders'[call'[s].order].side = s

LEMMA PlacedOrder ==
    ASSUME TypeInv, NEW s \in Sides, NEW q \in Nat, Place(s, q)
    PROVE  /\ \A o \in DOMAIN orders : o \in DOMAIN orders' /\ orders'[o] = orders[o]
           /\ Len(orders) + 1 \notin DOMAIN orders
           /\ Len(orders) + 1 \in DOMAIN orders' /\ orders'[Len(orders) + 1].side = s
<1>. DEFINE new == [side |-> s, left |-> q]
<1>1. orders \in Seq(Order) /\ new \in Order
  BY DEF TypeInv, TypeOK, Order
<1>2. orders' = Append(orders, new) /\ new.side = s
  BY DEF Place
<1>. HIDE DEF new
<1>. QED BY <1>1, <1>2, AppendGrows

LEMMA CallsStep == TypeInv /\ [Next]_vars => CallsGoOn
<1>. SUFFICES ASSUME TypeInv, [Next]_vars PROVE CallsGoOn
  OBVIOUS
<1>0. call \in [Sides -> Call] /\ orders \in Seq(Order) /\ pos \in [Sides -> Nat]
  BY DEF TypeInv, TypeOK
<1>1. CASE UNCHANGED <<orders, call>>
  BY <1>1 DEF CallsGoOn
<1>2. ASSUME NEW s \in Sides, NEW q \in Nat, Place(s, q), call' = call
      PROVE  CallsGoOn
  BY <1>2, PlacedOrder DEF CallsGoOn
<1>3. ASSUME NEW s \in Sides, ExchangeClose(s) \/ Entry(s) PROVE CallsGoOn
  <2>1. pos[s] \in Nat
    BY <1>0
  <2>2. \E q \in Nat : Place(s, q)
    <3>1. CASE ExchangeClose(s)
      <4>1. PICK q \in 1 .. pos[s] : Place(s, q)
        BY <3>1 DEF ExchangeClose
      <4>2. q \in Nat
        BY <2>1, <4>1
      <4>. QED BY <4>1, <4>2
    <3>2. CASE Entry(s)
      <4>1. Place(s, 0)
        BY <3>2 DEF Entry
      <4>. QED BY <4>1
    <3>. QED BY <1>3, <3>1, <3>2
  <2>3. call' = call
    BY <1>3 DEF ExchangeClose, Entry, BotUnchanged
  <2>. QED BY <1>2, <2>2, <2>3
<1>4. ASSUME NEW o \in DOMAIN orders, Match(o) PROVE CallsGoOn
  <2>1. orders' = [orders EXCEPT ![o].left = @ - 1] /\ call' = call
    BY <1>4 DEF Match, BotUnchanged
  <2>2. \A p \in DOMAIN orders : orders[p] \in Order
    BY <1>0, ElementOfSeq, LenProperties
  <2>3. \A p \in DOMAIN orders : p \in DOMAIN orders' /\ orders'[p].side = orders[p].side
    BY <2>1, <2>2 DEF Order
  <2>. QED BY <2>1, <2>3 DEF CallsGoOn
<1>5. ASSUME NEW s \in Sides, orders' = orders,
             \E c \in Call : c.order \in {call[s].order, NoOrder} /\ call' = [call EXCEPT ![s] = c]
      PROVE  CallsGoOn
  BY <1>0, <1>5 DEF CallsGoOn
<1>6. ASSUME NEW s \in Targets, Close(s) PROVE CallsGoOn
  <2>0. s \in Sides /\ call[s] \in Call
    BY <1>0, ParametersAssumption DEF Sides
  <2>1. IdleCall \in Call /\ IdleCall.order = NoOrder
    BY ParametersAssumption DEF IdleCall, Call, NoOrder
  <2>2. CASE BeginClose(s)
    <3>1. /\ orders' = orders
          /\ call' = [call EXCEPT ![s] = [IdleCall EXCEPT !.pc = "reading", !.start = now]]
      BY <2>2 DEF BeginClose, exchangeVars
    <3>. QED BY <1>0, <2>0, <3>1 DEF CallsGoOn, IdleCall
  <2>3. CASE ReadPosition(s)
    <3>1. orders' = orders
      BY <2>3 DEF ReadPosition, exchangeVars
    <3>2. \A t \in Sides : call'[t].order = call[t].order
      BY <1>0, <2>0, <2>3 DEF ReadPosition, Call
    <3>. QED BY <3>1, <3>2 DEF CallsGoOn
  <2>4. ASSUME NEW acked \in BOOLEAN, Submit(s, acked) PROVE CallsGoOn
    <3>1. Place(s, call[s].qty) /\ call[s].qty \in Nat
      BY <2>0, <2>4 DEF Submit, Call
    <3>2. /\ call'[s].order \in {Len(orders) + 1, NoOrder}
          /\ \A t \in Sides \ {s} : call'[t] = call[t]
      <4>1. CASE acked
        <5>1. call' = [call EXCEPT ![s] = [@ EXCEPT !.pc = "settling", !.order = Len(orders) + 1]]
          BY <2>4, <4>1 DEF Submit
        <5>. QED BY <1>0, <2>0, <5>1 DEF Call
      <4>2. CASE ~acked
        <5>1. call' = [call EXCEPT ![s] = IdleCall]
          BY <2>4, <4>2 DEF Submit
        <5>. QED BY <1>0, <2>0, <2>1, <5>1
      <4>. QED BY <4>1, <4>2
    <3>. QED BY <2>0, <3>1, <3>2, PlacedOrder DEF CallsGoOn
  <2>5. CASE AbortClose(s) \/ SettleDone(s) \/ SettleGivesUp(s)
    <3>1. orders' = orders /\ call' = [call EXCEPT ![s] = IdleCall]
      BY <2>5 DEF AbortClose, SettleDone, SettleGivesUp, exchangeVars
    <3>. QED BY <1>5, <2>0, <2>1, <3>1
  <2>6. CASE SettleRead(s)
    BY <1>1, <2>6 DEF SettleRead, exchangeVars
  <2>7. CASE SettleAgain(s)
    <3>1. orders' = orders
      BY <2>7 DEF SettleAgain, exchangeVars
    <3>2. \A t \in Sides : call'[t].order = call[t].order
      BY <1>0, <2>0, <2>7 DEF SettleAgain, Call
    <3>. QED BY <3>1, <3>2 DEF CallsGoOn
  <2>. QED BY <1>6, <2>2, <2>3, <2>4, <2>5, <2>6, <2>7 DEF Close, SubmitAcked, SubmitUnacked
<1>7. CASE Restart
  BY <1>7 DEF Restart, exchangeVars, CallsGoOn, IdleCall
<1>8. CASE ScanStep \/ CycleStep \/ SaveSnapshot \/ UNCHANGED vars
  <2>1. UNCHANGED <<orders, call>>
    BY <1>8 DEF ScanStep, RepairEvent, RecordEvent, RepairFails, RecordRaises, SkipEvent, RestUnchanged,
                CycleStep, CycleBegin, PendingRead, PendingUnreadable, PendingDone,
                DiscoverRead, DiscoverDone, DiscoverSkip, SaveSnapshot, vars, exchangeVars
  <2>. QED BY <1>1, <2>1
<1>9. CASE Exchange
  BY <1>1, <1>3, <1>4, <1>9 DEF Exchange, Tick, Surface, BotUnchanged
<1>. QED BY <1>6, <1>7, <1>8, <1>9 DEF Next

LEMMA CountInit == Init => CountInv
<1>. SUFFICES ASSUME Init PROVE CountInv
  OBVIOUS
<1>1. ledger = <<>> \/ \E s \in Sides : ledger = <<LegacyRow(s)>>
  BY DEF Init
<1>2. \A i \in DOMAIN ledger : ledger[i].kind = "legacy" /\ i = 1
  BY <1>1 DEF LegacyRow
<1>3. OrdersOfCalls
  BY DEF Init, OrdersOfCalls, IdleCall
<1>. QED BY <1>2, <1>3, TypeInit DEF CountInv, EstimatesOwn, Estimates, RowsOfFills

\* What a call has after a step is not the order of an estimate that was there before.
LEMMA EstimatesLeft ==
    ASSUME CountInv, CallsGoOn, NEW i \in Estimates
    PROVE  /\ ledger[i].orders \subseteq DOMAIN orders'
           /\ \A s \in Sides : call'[s].order \notin ledger[i].orders
<1>1. orders \in Seq(Order) /\ DOMAIN orders = 1 .. Len(orders) /\ Len(orders) \in Nat
  BY LenProperties DEF CountInv, TypeInv, TypeOK
<1>2. NoOrder \notin DOMAIN orders
  BY <1>1 DEF NoOrder
<1>. QED BY <1>2 DEF CountInv, EstimatesOwn, CallsGoOn

LEMMA OrdersStep == TypeInv /\ OrdersOfCalls /\ CallsGoOn => OrdersOfCalls'
BY DEF OrdersOfCalls, CallsGoOn

LEMMA EstimatesStep ==
    ASSUME CountInv, [Next]_vars
    PROVE  EstimatesOwn'
<1>0. TypeInv /\ OrdersOfCalls /\ EstimatesOwn /\ CallsGoOn
  BY CallsStep DEF CountInv
<1>1. \A i \in Estimates : /\ ledger[i].orders \subseteq DOMAIN orders'
                           /\ \A s \in Sides : call'[s].order \notin ledger[i].orders
  BY <1>0, EstimatesLeft
<1>2. ASSUME Estimates' \subseteq Estimates,
             \A i \in Estimates' : /\ ledger'[i].fills = ledger[i].fills
                                   /\ ledger'[i].orders = ledger[i].orders
      PROVE  EstimatesOwn'
  BY <1>0, <1>1, <1>2 DEF EstimatesOwn
<1>3. CASE ledger' = ledger
  BY <1>2, <1>3 DEF Estimates
<1>4. CASE Records
  <2>. DEFINE row == EventRow(NextEvent(scan.todo))
  <2>1. Adds(row) /\ row \in Row /\ row.disk /\ row.kind = "fills"
    BY <1>0, <1>4, EventRowProperties DEF Records, EventRow
  <2>. HIDE DEF row
  <2>2. \A i \in Estimates' : i \in Estimates /\ ledger'[i] = ledger[i]
    BY <1>0, <2>1, AddsProperties DEF Estimates
  <2>. QED BY <1>2, <2>2
<1>5. CASE RepairEvent
  <2>. DEFINE i == RepairedRow
  <2>1. /\ ledger[i].orders = {}
        /\ DOMAIN ledger' = DOMAIN ledger
        /\ \A j \in DOMAIN ledger : j # i => ledger'[j] = ledger[j]
        /\ ledger'[i].kind = ledger[i].kind
    BY <1>0, <1>5, RepairProperties
  <2>. HIDE DEF i
  <2>2. i \notin Estimates /\ i \notin Estimates'
    BY <1>0, <2>1 DEF EstimatesOwn, Estimates
  <2>3. \A j \in Estimates' : j \in Estimates /\ ledger'[j] = ledger[j]
    BY <2>1, <2>2 DEF Estimates
  <2>. QED BY <1>2, <2>3
<1>6. CASE FallsBack
  <2>1. PICK s \in Sides : /\ Adds(FallbackRow(s)) /\ FallbackRow(s) \in Row
                           /\ call[s].order # NoOrder /\ call'[s].order = NoOrder
    BY <1>6 DEF FallsBack
  <2>. DEFINE row == FallbackRow(s)
              n == Len(ledger) + 1
              own == call[s].order
  <2>2. row.kind = "order" /\ row.fills = {} /\ row.orders = {own} /\ row.disk
    BY DEF FallbackRow
  <2>. HIDE DEF row
  <2>3. /\ n \notin DOMAIN ledger
        /\ DOMAIN ledger' = DOMAIN ledger \cup {n}
        /\ \A i \in DOMAIN ledger : ledger'[i] = ledger[i]
        /\ ledger'[n].kind = "order" /\ ledger'[n].fills = {} /\ ledger'[n].orders = {own}
    BY <1>0, <2>1, <2>2, AddsProperties DEF row
  <2>. HIDE DEF n
  <2>4. Estimates' = Estimates \cup {n} /\ n \notin Estimates
    BY <2>3 DEF Estimates
  <2>5. \A i \in Estimates : ledger'[i] = ledger[i] /\ own \notin ledger[i].orders
    BY <1>0, <2>1, <2>3 DEF Estimates, EstimatesOwn
  <2>6. own \in DOMAIN orders' /\ \A t \in Sides : call'[t].order # own
    <3>1. own \in DOMAIN orders /\ orders[own].side = s
      BY <1>0, <2>1 DEF OrdersOfCalls
    <3>2. \A t \in Sides : call[t].order = own => t = s
      BY <1>0, <2>1, <3>1 DEF OrdersOfCalls
    <3>. QED BY <1>0, <2>1, <3>1, <3>2 DEF CallsGoOn
  <2>. HIDE DEF own
  <2>7. ASSUME NEW i \in Estimates
        PROVE  /\ ledger'[i].fills = {} /\ ledger'[i].orders # {}
               /\ ledger'[i].orders \subseteq DOMAIN orders'
               /\ \A t \in Sides : call'[t].order \notin ledger'[i].orders
               /\ \A j \in Estimates' : j # i => ledger'[i].orders \cap ledger'[j].orders = {}
    BY <1>0, <1>1, <2>3, <2>4, <2>5, <2>7 DEF EstimatesOwn
  <2>8. /\ ledger'[n].fills = {} /\ ledger'[n].orders # {}
        /\ ledger'[n].orders \subseteq DOMAIN orders'
        /\ \A t \in Sides : call'[t].order \notin ledger'[n].orders
        /\ \A j \in Estimates' : j # n => ledger'[n].orders \cap ledger'[j].orders = {}
    BY <2>3, <2>4, <2>5, <2>6
  <2>. QED BY <2>4, <2>7, <2>8 DEF EstimatesOwn
<1>. QED BY <1>0, <1>3, <1>4, <1>5, <1>6, StepKinds DEF Quiet, Reads, Blind

LEMMA RowsStep ==
    ASSUME CountInv, [Next]_vars
    PROVE  RowsOfFills'
<1>0. TypeInv /\ RowsOfFills
  BY DEF CountInv
<1>1. CASE Quiet \/ Reads \/ Blind
  <2>1. ledger' = ledger /\ \A f \in DOMAIN fills : f \in DOMAIN fills' /\ fills'[f] = fills[f]
    BY <1>1 DEF Quiet, Reads, Blind
  <2>. QED BY <1>0, <2>1 DEF RowsOfFills
<1>2. CASE Records
  <2>. DEFINE ev == NextEvent(scan.todo)
              row == EventRow(ev)
  <2>1. Adds(row) /\ row \in Row /\ row.disk /\ ev \subseteq scan.todo /\ fills' = fills
    BY <1>0, <1>2, EventRowProperties DEF Records, EventRow
  <2>2. /\ row.kind = "fills" /\ row.fills = ev
        /\ \A f \in ev : f \in DOMAIN fills /\ fills[f].order \in row.orders
    BY <1>0, <2>1 DEF EventRow, TypeInv
  <2>. HIDE DEF ev, row
  <2>. QED BY <1>0, <2>1, <2>2, AddsProperties DEF RowsOfFills
<1>3. CASE FallsBack
  <2>1. PICK s \in Sides : Adds(FallbackRow(s)) /\ FallbackRow(s) \in Row
    BY <1>3 DEF FallsBack
  <2>. DEFINE row == FallbackRow(s)
  <2>2. row.disk /\ row.kind = "order" /\ fills' = fills
    BY <1>3 DEF FallbackRow, FallsBack
  <2>. HIDE DEF row
  <2>. QED BY <1>0, <2>1, <2>2, AddsProperties DEF RowsOfFills, row
<1>4. CASE RepairEvent
  <2>. DEFINE i == RepairedRow
              ev == RepairedEvent
  <2>1. /\ ev \subseteq scan.todo /\ fills' = fills
        /\ DOMAIN ledger' = DOMAIN ledger
        /\ \A j \in DOMAIN ledger : j # i => ledger'[j] = ledger[j]
        /\ i \in DiskRows
        /\ ledger'[i] = [ledger[i] EXCEPT !.fills = ev, !.orders = EventRow(ev).orders]
        /\ ledger'[i].fills = ev /\ ledger'[i].kind = ledger[i].kind
    BY <1>0, <1>4, RepairProperties
  <2>2. \A f \in ev : f \in DOMAIN fills /\ fills[f].order \in EventRow(ev).orders
    BY <1>0, <2>1 DEF EventRow, TypeInv
  <2>3. i \in DOMAIN ledger /\ ledger[i] \in Row
    BY <1>0, <2>1, ElementOfSeq, LenProperties DEF DiskRows, TypeInv, TypeOK
  <2>4. ledger'[i].orders = EventRow(ev).orders
    BY <2>1, <2>3 DEF Row
  <2>. HIDE DEF i, ev
  <2>. QED BY <1>0, <2>1, <2>2, <2>3, <2>4 DEF RowsOfFills
<1>. QED BY <1>0, <1>1, <1>2, <1>3, <1>4, StepKinds

LEMMA CountNext == CountInv /\ [Next]_vars => CountInv'
BY TypeNext, CallsStep, OrdersStep, EstimatesStep, RowsStep DEF CountInv

\* An estimate counts the fills of its orders, any other row those it was built from.
LEMMA WhatCounts ==
    ASSUME CountInv, NEW i \in DOMAIN ledger, NEW f \in DOMAIN fills, Counts(i, f)
    PROVE  /\ ledger[i].kind = "order" => fills[f].order \in ledger[i].orders
           /\ ledger[i].kind # "order" => f \in ledger[i].fills
           /\ ledger[i].kind = "fills" => fills[f].order \in ledger[i].orders
           /\ ledger[i].kind = "legacy" => i = 1
           /\ ledger[i].kind \in {"fills", "order", "legacy"}
<1>1. ledger[i] \in Row
  BY ElementOfSeq, LenProperties DEF CountInv, TypeInv, TypeOK
<1>2. ledger[i].kind \in {"fills", "order", "legacy"}
  BY <1>1 DEF Row
<1>. QED BY <1>2 DEF Counts, CountInv, EstimatesOwn, Estimates, RowsOfFills

\* What a row of the file counts is counted again by an estimate at most, and only when
\* the first row is not one (_close_position_one_side, _recorded_anchors).
THEOREM OnlyEstimatesCountAgain ==
    ASSUME ~LogReadsFail
    PROVE  Spec => []OnlyEstimatesRecount
<1>1. LogInv /\ CountInv => OnlyEstimatesRecount
  <2>. SUFFICES ASSUME LogInv, CountInv, NEW i \in DiskRows, NEW j \in DOMAIN ledger,
                       NEW f \in DOMAIN fills, i < j, Counts(i, f), Counts(j, f)
                PROVE  /\ ledger[i].kind # "order"
                       /\ ledger[j].disk => ledger[j].kind = "order"
    BY DEF OnlyEstimatesRecount
  <2>1. i \in DOMAIN ledger /\ i # j /\ j # 1
    BY LenProperties DEF DiskRows, LogInv, TypeInv, TypeOK
  <2>2. ASSUME ledger[i].kind = "order", ledger[j].kind = "order" PROVE FALSE
    BY <2>1, <2>2, WhatCounts DEF CountInv, EstimatesOwn, Estimates
  <2>3. ASSUME ledger[i].kind = "order", ledger[j].kind = "fills" PROVE FALSE
    BY <2>1, <2>3, WhatCounts DEF LogInv, NoRecountAfterFallback
  <2>4. ASSUME ledger[i].kind # "order", ledger[j].kind # "order", ledger[j].disk PROVE FALSE
    BY <2>1, <2>4, WhatCounts DEF LogInv, FillsAnchoredOnce, DiskRows
  <2>. QED BY <2>1, <2>2, <2>3, <2>4, WhatCounts
<1>2. LogInv /\ [Next]_vars => LogInv'
  BY LogNext
<1>. QED BY <1>1, <1>2, LogInit, CountInit, CountNext, PTL DEF Spec

\* No PnL is in the file more than twice: what the race of a call with the cycle can do to
\* the log is bounded, whatever else fails or restarts (futures_orders.py:951).
AtMostTwice ==
    \A f \in DOMAIN fills : \A i, j, k \in DiskRows :
        Counts(i, f) /\ Counts(j, f) /\ Counts(k, f) => i = j \/ j = k \/ i = k

THEOREM CountedAtMostTwice ==
    ASSUME ~LogReadsFail
    PROVE  Spec => []AtMostTwice
<1>1. TypeInv /\ OnlyEstimatesRecount => AtMostTwice
  <2>. SUFFICES ASSUME TypeInv, OnlyEstimatesRecount, NEW f \in DOMAIN fills,
                       NEW i \in DiskRows, NEW j \in DiskRows, NEW k \in DiskRows,
                       Counts(i, f), Counts(j, f), Counts(k, f), i # j, j # k, i # k
                PROVE  FALSE
    BY DEF AtMostTwice
  <2>1. \A a \in DiskRows : a \in DOMAIN ledger /\ a \in Nat /\ ledger[a].disk
    BY LenProperties DEF DiskRows, TypeInv, TypeOK
  <2>2. \A a, b \in DiskRows : (a < b /\ Counts(a, f) /\ Counts(b, f)) =>
            ledger[a].kind # "order" /\ ledger[b].kind = "order"
    BY <2>1 DEF OnlyEstimatesRecount
  <2>. QED BY <2>1, <2>2
<1>. QED BY <1>1, OnlyEstimatesCountAgain, TypeInit, TypeNext, PTL DEF Spec

-----------------------------------------------------------------------------
(* The log implements CloseLedger.                                          *)

LEMMA BookedPairs ==
    /\ \A p \in Booked : p[1] \in DiskRows /\ p[2] \in ledger[p[1]].fills
    /\ \A p \in Booked : p[1] \in DiskRows /\ p[2] \in DiskFills
BY DEF Booked, DiskFills

\* Booking the fills S on row n is what CloseLedger calls Book.
LEMMA BookStep ==
    ASSUME NEW n, NEW S, Booked' = Booked \cup ({n} \X S),
           \A p \in Booked : p[1] # n,
           S \subseteq Executed, S \cap DiskFills = {}, Executed' = Executed
    PROVE  Ledger!Book
<1>. DEFINE new == Booked' \ Booked
<1>1. \A p \in new : p[1] = n /\ p[2] \in S
  OBVIOUS
<1>2. n \notin Ledger!BookedRows
  BY DEF Ledger!BookedRows
<1>3. S \cap Ledger!BookedFills = {}
  BY BookedPairs DEF Ledger!BookedFills
<1>. QED BY <1>1, <1>2, <1>3 DEF Ledger!Book

LEMMA LedgerStep ==
    ASSUME ~LogReadsFail, LogInv, [Next]_vars
    PROVE  [Ledger!Next]_(Ledger!vars)
<1>1. /\ TypeInv /\ ScanIsNews /\ ScanReduces
  BY DEF LogInv
<1>2. Quiet \/ Reads \/ Records \/ FallsBack \/ RepairEvent
  BY <1>1, StepKinds DEF Blind
<1>3. CASE UNCHANGED ledger /\ (\A f \in DOMAIN fills : f \in DOMAIN fills' /\ fills'[f] = fills[f])
  <2>1. Booked' = Booked
    BY <1>3 DEF Booked, DiskRows
  <2>2. Executed \subseteq Executed'
    BY <1>3 DEF Executed
  <2>. QED BY <2>1, <2>2 DEF Ledger!Next, Ledger!Execute
<1>4. fills' = fills => Executed' = Executed
  BY DEF Executed
<1>5. scan.todo \subseteq Executed /\ scan.todo \cap DiskFills = {}
  BY <1>1 DEF ScanReduces, ScanIsNews, Executed
<1>6. ASSUME NEW row \in Row, row.disk, Adds(row), row.fills \subseteq scan.todo, fills' = fills
      PROVE  Ledger!Next \/ (Booked' = Booked /\ Executed' = Executed)
  <2>. DEFINE n == Len(ledger) + 1
  <2>1. /\ n \notin DOMAIN ledger
        /\ DOMAIN ledger' = DOMAIN ledger \cup {n}
        /\ \A i \in DOMAIN ledger : ledger'[i] = ledger[i]
        /\ ledger'[n].fills = row.fills
    BY <1>1, <1>6, AddsProperties
  <2>. HIDE DEF n
  <2>2. CASE ledger'[n].disk
    <3>1. DiskRows' = DiskRows \cup {n} /\ DiskRows \subseteq DOMAIN ledger
      BY <2>1, <2>2 DEF DiskRows
    <3>2. Booked' = Booked \cup ({n} \X row.fills)
      BY <2>1, <3>1 DEF Booked
    <3>3. \A p \in Booked : p[1] # n
      BY <2>1, <3>1, BookedPairs
    <3>4. Ledger!Book
      BY <1>4, <1>5, <1>6, <3>2, <3>3, BookStep
    <3>. QED BY <3>4 DEF Ledger!Next
  <2>3. CASE ~ledger'[n].disk
    <3>1. DiskRows' = DiskRows /\ DiskRows \subseteq DOMAIN ledger
      BY <2>1, <2>3 DEF DiskRows
    <3>2. Booked' = Booked
      BY <2>1, <3>1 DEF Booked
    <3>. QED BY <1>4, <1>6, <3>2
  <2>. QED BY <2>2, <2>3
<1>7. CASE Records
  <2>. DEFINE row == EventRow(NextEvent(scan.todo))
  <2>1. row \in Row /\ row.disk /\ row.fills \subseteq scan.todo
    BY <1>1, <1>7, EventRowProperties DEF Records, EventRow
  <2>. QED BY <1>6, <1>7, <2>1 DEF Records, Ledger!vars
<1>8. CASE FallsBack
  <2>1. PICK s \in Sides : Adds(FallbackRow(s)) /\ FallbackRow(s) \in Row
    BY <1>8 DEF FallsBack
  <2>2. FallbackRow(s).disk /\ FallbackRow(s).fills = {}
    BY DEF FallbackRow
  <2>. QED BY <1>6, <1>8, <2>1, <2>2 DEF FallsBack, Ledger!vars
<1>9. CASE RepairEvent
  <2>. DEFINE ev == RepairedEvent
              i == RepairedRow
  <2>1. /\ i \in DiskRows
        /\ ledger[i].fills = {}
        /\ ev \subseteq scan.todo
        /\ DOMAIN ledger' = DOMAIN ledger
        /\ \A j \in DOMAIN ledger : j # i => ledger'[j] = ledger[j]
        /\ ledger'[i].fills = ev
        /\ ledger'[i].disk
        /\ fills' = fills
    BY <1>1, <1>9, RepairProperties
  <2>. HIDE DEF ev, i
  <2>2. DiskRows' = DiskRows /\ DiskRows \subseteq DOMAIN ledger
    BY <2>1 DEF DiskRows
  <2>3. Booked' = Booked \cup ({i} \X ev)
    BY <2>1, <2>2 DEF Booked
  <2>4. \A p \in Booked : p[1] # i
    BY <2>1, BookedPairs
  <2>5. ev \subseteq Executed /\ ev \cap DiskFills = {} /\ Executed' = Executed
    BY <1>4, <1>5, <2>1
  <2>6. Ledger!Book
    BY <2>3, <2>4, <2>5, BookStep, Zenon
  <2>. QED BY <2>6 DEF Ledger!Next
<1>. QED BY <1>2, <1>3, <1>7, <1>8, <1>9 DEF Quiet, Reads

\* Fills are booked once and for good: the log is a CloseLedger as long as it can be read.
THEOREM LogImplementsLedger ==
    ASSUME ~LogReadsFail
    PROVE  Spec => ImplementsLedger
<1>1. Init => Ledger!Init
  <2>. SUFFICES ASSUME Init PROVE Ledger!Init
    OBVIOUS
  <2>1. \A i \in DOMAIN ledger : ledger[i].fills = {}
    BY DEF Init, LegacyRow
  <2>2. Booked = {}
    BY <2>1 DEF Booked, DiskRows
  <2>3. DOMAIN fills \subseteq Nat
    BY TypeInit, LenProperties DEF TypeInv, TypeOK
  <2>. QED BY <2>2, <2>3 DEF Ledger!Init, Executed
<1>2. LogInv /\ [Next]_vars => [Ledger!Next]_(Ledger!vars)
  BY LedgerStep
<1>. QED BY <1>1, <1>2, LogInit, LogNext, PTL DEF Spec, ImplementsLedger, Ledger!Spec


-----------------------------------------------------------------------------
(* Accounts in hedge mode.                                                  *)

\* The position side tells a close from an entry.
FillsTold == \A f \in DOMAIN fills : Reduces(fills[f]) => ~fills[f].opens

HedgeInv == TypeInv /\ ScanReduces /\ FillsTold /\ OnlyClosesBooked

LEMMA FillTold ==
    ASSUME HedgeMode, NEW o, NEW s \in Sides, NEW opens \in BOOLEAN, Reduces(FillOf(o, s, opens))
    PROVE  ~FillOf(o, s, opens).opens
<1>1. CASE s = "LONG"
  BY <1>1 DEF FillOf, Buys, Reduces
<1>2. CASE s = "SHORT"
  BY <1>2 DEF FillOf, Buys, Reduces
<1>. QED BY <1>1, <1>2 DEF Sides

\* Fills come from the exchange alone, one at a time.
LEMMA FillsCome ==
    ASSUME TypeInv, [Next]_vars
    PROVE  \/ fills' = fills
           \/ \E o \in Nat, s \in Sides, opens \in BOOLEAN :
                  fills' = Append(fills, FillOf(o, s, opens))
<1>1. CASE Exchange
  <2>1. ASSUME NEW o \in DOMAIN orders, Match(o)
        PROVE  \E p \in Nat, s \in Sides, opens \in BOOLEAN :
                  fills' = Append(fills, FillOf(p, s, opens))
    <3>1. orders \in Seq(Order)
      BY DEF TypeInv, TypeOK
    <3>2. orders[o] \in Order /\ o \in Nat
      BY <3>1, ElementOfSeq, LenProperties
    <3>3. orders[o].side \in Sides
      BY <3>2 DEF Order
    <3>4. fills' = Append(fills, FillOf(o, orders[o].side, FALSE))
      BY <2>1 DEF Match
    <3>. QED BY <3>2, <3>3, <3>4, Zenon
  <2>2. ASSUME NEW s \in Sides, Entry(s)
        PROVE  \E p \in Nat, t \in Sides, opens \in BOOLEAN :
                  fills' = Append(fills, FillOf(p, t, opens))
    <3>1. Len(orders) + 1 \in Nat
      BY LenProperties DEF TypeInv, TypeOK
    <3>2. fills' = Append(fills, FillOf(Len(orders) + 1, s, TRUE))
      BY <2>2 DEF Entry
    <3>. QED BY <3>1, <3>2, Zenon
  <2>3. Tick => fills' = fills
    BY DEF Tick
  <2>4. ASSUME NEW s \in Sides, ExchangeClose(s) PROVE fills' = fills
    BY <2>4 DEF ExchangeClose
  <2>5. ASSUME NEW f \in DOMAIN fills, Surface(f) PROVE fills' = fills
    BY <2>5 DEF Surface
  <2>. QED BY <1>1, <2>1, <2>2, <2>3, <2>4, <2>5, Zenon DEF Exchange
<1>2. CASE ScanStep
  BY <1>2 DEF ScanStep, RepairEvent, RecordEvent, RepairFails, RecordRaises, SkipEvent, RestUnchanged, exchangeVars
<1>3. CASE \E s \in Targets : Close(s)
  BY <1>3 DEF Close, BeginClose, ReadPosition, AbortClose, SubmitAcked, SubmitUnacked, Submit,
              SettleRead, SettleAgain, SettleDone, SettleGivesUp, exchangeVars
<1>4. CASE CycleStep
  BY <1>4 DEF CycleStep, CycleBegin, PendingRead, PendingUnreadable, PendingDone, DiscoverRead,
              DiscoverDone, DiscoverSkip, exchangeVars
<1>5. CASE SaveSnapshot \/ Restart \/ UNCHANGED vars
  BY <1>5 DEF SaveSnapshot, Restart, vars, exchangeVars
<1>. QED BY <1>1, <1>2, <1>3, <1>4, <1>5 DEF Next

LEMMA FillsStayTold ==
    ASSUME HedgeMode, HedgeInv, [Next]_vars
    PROVE  /\ FillsTold'
           /\ \A f \in DOMAIN fills : f \in DOMAIN fills' /\ fills'[f] = fills[f]
<1>1. fills \in Seq(Fill)
  BY DEF HedgeInv, TypeInv, TypeOK
<1>2. CASE fills' = fills
  BY <1>2 DEF HedgeInv, FillsTold
<1>3. ASSUME NEW o \in Nat, NEW s \in Sides, NEW opens \in BOOLEAN,
             fills' = Append(fills, FillOf(o, s, opens))
      PROVE  /\ FillsTold'
             /\ \A f \in DOMAIN fills : f \in DOMAIN fills' /\ fills'[f] = fills[f]
  <2>1. now \in Nat
    BY DEF HedgeInv, TypeInv, TypeOK
  <2>2. FillOf(o, s, opens) \in Fill
    BY <2>1 DEF FillOf, Fill, Sides
  <2>3. /\ DOMAIN fills' = DOMAIN fills \cup {Len(fills) + 1}
        /\ fills'[Len(fills) + 1] = FillOf(o, s, opens)
        /\ \A f \in DOMAIN fills : fills'[f] = fills[f]
    BY <1>1, <1>3, <2>2, AppendProperties, LenProperties
  <2>. QED BY <2>3, FillTold DEF HedgeInv, FillsTold
<1>. QED BY <1>2, <1>3, FillsCome DEF HedgeInv

\* A row that is added is an estimate, which names no fill, or an event of reducing fills.
LEMMA HedgeNext ==
    ASSUME HedgeMode, HedgeInv, [Next]_vars
    PROVE  HedgeInv'
<1>1. TypeInv /\ TypeInv'
  BY TypeNext DEF HedgeInv
<1>2. FillsTold' /\ \A f \in DOMAIN fills : f \in DOMAIN fills' /\ fills'[f] = fills[f]
  BY FillsStayTold
<1>3. CASE Quiet
  <2>1. ScanReduces'
    BY <1>3 DEF Quiet, HedgeInv, ScanReduces
  <2>2. OnlyClosesBooked'
    BY <1>2, <1>3 DEF Quiet, HedgeInv, OnlyClosesBooked, CloseFill
  <2>. QED BY <1>1, <1>2, <2>1, <2>2 DEF HedgeInv
<1>4. CASE Reads \/ Blind
  <2>1. ledger' = ledger /\ fills' = fills
    BY <1>4 DEF Reads, Blind
  <2>2. OnlyClosesBooked'
    BY <2>1 DEF HedgeInv, OnlyClosesBooked, CloseFill
  <2>3. ASSUME NEW known, NEW since \in Int, scan'.todo = Fresh(known, since)
        PROVE  ScanReduces'
    <3>1. shown \subseteq DOMAIN fills
      BY <1>1 DEF TypeInv
    <3>. QED BY <2>1, <2>3, <3>1 DEF ScanReduces, Fresh, InWindow, Reduces
  <2>4. ScanReduces'
    BY <1>4, <2>3 DEF Reads, Blind
  <2>. QED BY <1>1, <1>2, <2>2, <2>4 DEF HedgeInv
<1>5. ASSUME NEW row \in Row, row.disk, Adds(row), fills' = fills,
             \A f \in row.fills : CloseFill(f)
      PROVE  OnlyClosesBooked'
  <2>. DEFINE n == Len(ledger) + 1
  <2>1. /\ DOMAIN ledger' = DOMAIN ledger \cup {n}
        /\ \A i \in DOMAIN ledger : ledger'[i] = ledger[i]
        /\ ledger'[n].fills = row.fills
    BY <1>1, <1>5, AddsProperties
  <2>. HIDE DEF n
  <2>. QED BY <1>5, <2>1 DEF HedgeInv, OnlyClosesBooked, CloseFill
<1>6. CASE Records
  <2>. DEFINE ev == NextEvent(scan.todo)
  <2>1. ev \subseteq scan.todo /\ EventRow(ev) \in Row
    BY <1>1, <1>6, EventRowProperties DEF Records
  <2>2. EventRow(ev).fills = ev /\ EventRow(ev).disk
    BY DEF EventRow
  <2>3. Adds(EventRow(ev)) /\ fills' = fills /\ scan'.todo = scan.todo \ ev
    BY <1>6 DEF Records
  <2>. HIDE DEF ev
  <2>4. \A f \in ev : CloseFill(f)
    BY <2>1 DEF HedgeInv, ScanReduces, FillsTold, CloseFill
  <2>5. ScanReduces'
    BY <2>3 DEF HedgeInv, ScanReduces, Reduces
  <2>6. OnlyClosesBooked'
    BY <1>5, <2>1, <2>2, <2>3, <2>4
  <2>. QED BY <1>1, <1>2, <2>5, <2>6 DEF HedgeInv
<1>7. CASE FallsBack
  <2>1. PICK s \in Sides : Adds(FallbackRow(s)) /\ FallbackRow(s) \in Row
    BY <1>7 DEF FallsBack
  <2>2. FallbackRow(s).fills = {} /\ FallbackRow(s).disk
    BY DEF FallbackRow
  <2>3. scan'.todo = {} /\ fills' = fills
    BY <1>7 DEF FallsBack
  <2>4. OnlyClosesBooked'
    BY <1>5, <2>1, <2>2, <2>3
  <2>5. ScanReduces'
    BY <2>3 DEF ScanReduces
  <2>. QED BY <1>1, <1>2, <2>4, <2>5 DEF HedgeInv
<1>8. CASE RepairEvent
  <2>. DEFINE ev == RepairedEvent
              i == RepairedRow
  <2>1. /\ ev \subseteq scan.todo
        /\ scan'.todo = scan.todo \ ev
        /\ DOMAIN ledger' = DOMAIN ledger
        /\ \A j \in DOMAIN ledger : j # i => ledger'[j] = ledger[j]
        /\ ledger'[i].fills = ev
        /\ fills' = fills
    BY <1>1, <1>8, RepairProperties
  <2>. HIDE DEF ev, i
  <2>2. \A f \in ev : CloseFill(f)
    BY <2>1 DEF HedgeInv, ScanReduces, FillsTold, CloseFill
  <2>3. ScanReduces'
    BY <2>1 DEF HedgeInv, ScanReduces, Reduces
  <2>4. OnlyClosesBooked'
    BY <2>1, <2>2 DEF HedgeInv, OnlyClosesBooked, CloseFill
  <2>. QED BY <1>1, <1>2, <2>3, <2>4 DEF HedgeInv
<1>. QED BY <1>1, <1>3, <1>4, <1>6, <1>7, <1>8, StepKinds

\* In hedge mode no row of the log takes an entry for a close, be the log readable or
\* not (fetch_recent_fills, "reduces").
THEOREM EntriesAreNotBooked ==
    ASSUME HedgeMode
    PROVE  Spec => []OnlyClosesBooked
<1>1. Init => HedgeInv
  <2>. SUFFICES ASSUME Init PROVE HedgeInv
    OBVIOUS
  <2>1. TypeInv /\ scan.todo = {}
    BY TypeInit DEF Init, LoopFree
  <2>2. PICK s \in Sides, legacy \in LegacyLogs :
          /\ fills = IF legacy THEN <<OldFill(s)>> ELSE <<>>
          /\ ledger = IF legacy THEN <<LegacyRow(s)>> ELSE <<>>
    BY DEF Init
  <2>3. OldFill(s).opens = FALSE
    BY DEF OldFill, FillOf
  <2>4. FillsTold
    BY <2>2, <2>3 DEF FillsTold
  <2>5. OnlyClosesBooked
    BY <2>2 DEF OnlyClosesBooked, LegacyRow
  <2>. QED BY <2>1, <2>4, <2>5 DEF HedgeInv, ScanReduces
<1>2. HedgeInv /\ [Next]_vars => HedgeInv'
  BY HedgeNext
<1>3. HedgeInv => OnlyClosesBooked
  BY DEF HedgeInv
<1>. QED BY <1>1, <1>2, <1>3, PTL DEF Spec
=============================================================================
