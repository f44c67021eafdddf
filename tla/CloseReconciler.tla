---------------------------- MODULE CloseReconciler ----------------------------
(***************************************************************************)
(* How the closes of one symbol reach its trade log.                       *)
(*                                                                         *)
(* Three parties write the log's future: the exchange, which fills orders  *)
(* and lets userTrades show the fills some time later; the calls of        *)
(* _close_position_one_side (exchange/futures_orders.py), at most one per  *)
(* position side; and the background reconcile_cycle                       *)
(* (trading/close_reconciler.py).  The calls and the cycle are coroutines  *)
(* of one event loop: they interleave at every await and nowhere else.     *)
(* From the answer of userTrades to the next await a coroutine owns the    *)
(* loop, which is what the variable scan says: it takes no time, nothing   *)
(* the exchange does meanwhile is seen before it ends, and only a crash    *)
(* can come in between.                                                    *)
(*                                                                         *)
(* Abstracted: quantities are whole units and a fill is one unit; its PnL  *)
(* is represented by the fill itself, so "a fill is counted by two rows"   *)
(* is "its PnL is counted twice".  Fill and order ids are positions in the *)
(* sequences fills and orders, and grow with time as the exchange's do.    *)
(***************************************************************************)
EXTENDS Integers, Sequences, FiniteSets

CONSTANTS
    HedgeMode,      \* the account's position mode: dualSidePosition
    Targets,        \* the sides the bot tries to close
    MaxQty,         \* bound: units a side may hold
    MaxOrders,      \* bound: orders the exchange ever accepts
    MaxFills,       \* bound: fills it ever executes
    MaxTime,        \* bound of the clock
    MaxCrashes,     \* bound: restarts of the process
    MaxDiskFails,   \* bound: failed writes
    SettleTries,    \* CLOSE_RECONCILE_SETTLE_TRIES
    SettleBack,     \* the 5 s a close looks back before its own start
    EventGap,       \* _EVENT_GAP_MS
    IntentTtl,      \* INTENT_TTL_SEC
    Lookback,       \* the window of the discovery pass
    RepairTime,     \* _REPAIR_TIME_TOLER_SEC
    LegacyLogs,     \* may the log begin with a row older than the anchors?
    LogReadsFail    \* may trades.jsonl be there and yet unreadable?

ASSUME ParametersAssumption ==
    /\ HedgeMode \in BOOLEAN
    /\ Targets \subseteq {"LONG", "SHORT"}
    /\ {MaxQty, MaxOrders, MaxFills, MaxTime} \subseteq Nat
    /\ {MaxCrashes, MaxDiskFails, SettleBack} \subseteq Nat
    /\ {EventGap, IntentTtl, Lookback, RepairTime} \subseteq Nat
    /\ SettleTries \in Nat \ {0}
    /\ LegacyLogs \subseteq BOOLEAN /\ LegacyLogs # {}
    /\ LogReadsFail \in BOOLEAN

VARIABLES
    \* the exchange
    pos,        \* units held on each side
    orders,     \* accepted reducing orders: side and units left to fill
    fills,      \* executed fills, in the order of their ids
    shown,      \* ids of the fills userTrades already shows
    now,        \* the clock
    \* the process
    intent,     \* closeIntents[symbol]: its sinceMs, or NoIntent
    call,       \* the running _close_position_one_side of each side
    cycle,      \* the reconcile_cycle task
    scan,       \* the coroutine that owns the event loop, and its open events
    cache,      \* _TRADES_CACHE[symbol]
    \* the disk
    ledger,     \* every row recorded; those with disk = TRUE are in trades.jsonl
    logVer,     \* (mtime, size) of trades.jsonl; 0 when there is no file
    saved,      \* the intent in the last snapshot
    crashes, diskFails

exchangeVars == <<pos, orders, fills, shown, now>>
diskVars == <<ledger, logVer, diskFails>>
vars == <<exchangeVars, intent, call, cycle, scan, cache, diskVars, saved, crashes>>

-----------------------------------------------------------------------------
Sides == {"LONG", "SHORT"}
NoIntent == -1
NoOrder == 0

Order == [side: Sides, left: Nat]
Fill == [order: Nat, dir: {"BUY", "SELL"}, ps: Sides \cup {"BOTH"},
         opens: BOOLEAN, time: Nat]
Row == [kind: {"fills", "order", "legacy"}, side: Sides, qty: Nat, at: Nat,
        fills: SUBSET Nat, orders: SUBSET Nat, disk: BOOLEAN]
Call == [pc: {"idle", "reading", "submitting", "settling"},
         start: Nat, qty: Nat, order: Nat, tries: 0 .. SettleTries]
Cycle == [pc: {"idle", "pending", "discover"}, since: Int]
Scan == [by: Sides \cup {"cycle", "nobody"}, todo: SUBSET Nat, got: BOOLEAN]
Cache == [ver: Nat, fills: SUBSET Nat, orders: SUBSET Nat]

IdleCall == [pc |-> "idle", start |-> 0, qty |-> 0, order |-> NoOrder, tries |-> 0]
IdleCycle == [pc |-> "idle", since |-> 0]
LoopFree == [by |-> "nobody", todo |-> {}, got |-> FALSE]
EmptyCache == [ver |-> 0, fills |-> {}, orders |-> {}]

\* Every variable has its type, and a call never settles more often than it may.
TypeOK ==
    /\ pos \in [Sides -> Nat]
    /\ orders \in Seq(Order)
    /\ fills \in Seq(Fill)
    /\ shown \subseteq Nat
    /\ now \in Nat
    /\ intent \in Nat \cup {NoIntent}
    /\ saved \in Nat \cup {NoIntent}
    /\ call \in [Sides -> Call]
    /\ cycle \in Cycle
    /\ scan \in Scan
    /\ cache \in Cache
    /\ ledger \in Seq(Row)
    /\ logVer \in Nat
    /\ crashes \in Nat
    /\ diskFails \in Nat

-----------------------------------------------------------------------------
(* The exchange.                                                            *)

Buys(s, opens) == (s = "LONG") = opens

FillOf(o, s, opens) ==
    [order |-> o, dir |-> IF Buys(s, opens) THEN "BUY" ELSE "SELL",
     ps |-> IF HedgeMode THEN s ELSE "BOTH", opens |-> opens, time |-> now]

\* The old close a log without anchors may begin with, and its row.
OldFill(s) == [FillOf(1, s, FALSE) EXCEPT !.time = 0]
LegacyRow(s) == [kind |-> "legacy", side |-> s, qty |-> 1, at |-> 0,
                 fills |-> {}, orders |-> {}, disk |-> TRUE]

Init ==
    /\ pos \in [Sides -> 0 .. MaxQty]
    /\ HedgeMode \/ \E s \in Sides : pos[s] = 0
    /\ now = 0
    /\ \E legacy \in LegacyLogs, s \in Sides :
          /\ orders = IF legacy THEN <<[side |-> s, left |-> 0]>> ELSE <<>>
          /\ fills = IF legacy THEN <<OldFill(s)>> ELSE <<>>
          /\ shown = IF legacy THEN {1} ELSE {}
          /\ ledger = IF legacy THEN <<LegacyRow(s)>> ELSE <<>>
          /\ logVer = IF legacy THEN 1 ELSE 0
    /\ intent = NoIntent
    /\ saved = NoIntent
    /\ call = [s \in Sides |-> IdleCall]
    /\ cycle = IdleCycle
    /\ scan = LoopFree
    /\ cache = EmptyCache
    /\ crashes = 0
    /\ diskFails = 0

BotUnchanged == UNCHANGED <<intent, call, cycle, scan, cache, diskVars, saved, crashes>>

Tick ==
    /\ scan = LoopFree
    /\ now < MaxTime
    /\ now' = now + 1
    /\ UNCHANGED <<pos, orders, fills, shown>>
    /\ BotUnchanged

Place(s, q) == orders' = Append(orders, [side |-> s, left |-> q])

\* A resting TP/SL triggers, the account is liquidated, or its owner closes by hand.
ExchangeClose(s) ==
    /\ scan = LoopFree
    /\ Len(orders) < MaxOrders
    /\ \E q \in 1 .. pos[s] : Place(s, q)
    /\ UNCHANGED <<pos, fills, shown, now>>
    /\ BotUnchanged

\* One unit of a reducing order is filled.
Match(o) ==
    /\ scan = LoopFree
    /\ Len(fills) < MaxFills
    /\ orders[o].left > 0
    /\ pos[orders[o].side] > 0
    /\ orders' = [orders EXCEPT ![o].left = @ - 1]
    /\ pos' = [pos EXCEPT ![orders[o].side] = @ - 1]
    /\ fills' = Append(fills, FillOf(o, orders[o].side, FALSE))
    /\ UNCHANGED <<shown, now>>
    /\ BotUnchanged

\* An entry is filled: one unit more on side s.
Entry(s) ==
    /\ scan = LoopFree
    /\ Len(fills) < MaxFills
    /\ Len(orders) < MaxOrders
    /\ pos[s] < MaxQty
    /\ HedgeMode \/ \A other \in Sides \ {s} : pos[other] = 0
    /\ Place(s, 0)
    /\ pos' = [pos EXCEPT ![s] = @ + 1]
    /\ fills' = Append(fills, FillOf(Len(orders) + 1, s, TRUE))
    /\ UNCHANGED <<shown, now>>
    /\ BotUnchanged

\* userTrades begins to show a fill.
Surface(f) ==
    /\ scan = LoopFree
    /\ f \in 1 .. Len(fills)
    /\ f \notin shown
    /\ shown' = shown \cup {f}
    /\ UNCHANGED <<pos, orders, fills, now>>
    /\ BotUnchanged

-----------------------------------------------------------------------------
(* One userTrades scan: what it finds, and how each event is recorded.      *)

\* Mutant of Reduces: a BUY is tested for its position side, a SELL is not.
ReducesIfSold(f) == f.dir = "SELL" \/ f.ps \in {"BOTH", "SHORT"}

\* fetch_recent_fills: "reduces" and "closesSide" of a row of userTrades.
Reduces(f) ==
    \/ f.dir = "SELL" /\ f.ps \in {"BOTH", "LONG"}
    \/ f.dir = "BUY" /\ f.ps \in {"BOTH", "SHORT"}

ClosesSide(f) == IF f.dir = "SELL" THEN "LONG" ELSE "SHORT"

DiskRows == {i \in DOMAIN ledger : ledger[i].disk}
DiskFills == UNION {ledger[i].fills : i \in DiskRows}
DiskOrders == UNION {ledger[i].orders : i \in DiskRows}

\* Mutant of RecordedAnchors: what this process remembers is taken for the log.
OnlyTheCache == cache

\* _recorded_anchors: the cache while the file has not changed, else the file.
RecordedAnchors ==
    IF cache.ver = logVer THEN cache
    ELSE [ver |-> logVer, fills |-> DiskFills, orders |-> DiskOrders]

InWindow(since) == {f \in shown : fills[f].time >= since}

\* Mutant of Fresh: the order ids of the log are not consulted.
FreshByFillId(known, since) ==
    {f \in InWindow(since) : f \notin known.fills /\ Reduces(fills[f])}

Fresh(known, since) ==
    {f \in InWindow(since) : /\ f \notin known.fills
                             /\ fills[f].order \notin known.orders
                             /\ Reduces(fills[f])}

\* The coroutine w resumes with the answer of userTrades and owns the loop.  When
\* read_text raises, _recorded_anchors answers that nothing is recorded.
StartScan(w, since) ==
    LET Open(known) == [by |-> w, todo |-> Fresh(known, since), got |-> FALSE]
    IN  \/ /\ scan' = Open(RecordedAnchors)
           /\ cache' = IF InWindow(since) = {} THEN cache ELSE RecordedAnchors
           /\ UNCHANGED diskVars
        \/ /\ LogReadsFail /\ diskFails < MaxDiskFails
           /\ cache.ver # logVer
           /\ scan' = Open(EmptyCache)
           /\ diskFails' = diskFails + 1
           /\ UNCHANGED <<cache, ledger, logVer>>

\* _close_events: an event ends where the next fill is EventGap later or closes
\* the other side.
SplitsAfter(f, F) ==
    \E g \in F : /\ g > f
                 /\ \A h \in F : h > f => g <= h
                 /\ \/ fills[g].time - fills[f].time > EventGap
                    \/ ClosesSide(fills[g]) # ClosesSide(fills[f])

First(F) == CHOOSE f \in F : \A g \in F : f <= g
Last(F) == CHOOSE f \in F : \A g \in F : g <= f

NextEvent(F) == {g \in F : \A h \in F : h < g => ~SplitsAfter(h, F)}

\* _event_trade and the orderIds added to it.
EventRow(ev) ==
    [kind |-> "fills",
     side |-> ClosesSide(fills[First(ev)]),
     qty |-> Cardinality(ev),
     at |-> fills[Last(ev)].time,
     fills |-> ev,
     orders |-> {fills[f].order : f \in ev},
     disk |-> TRUE]

Distance(i, row) ==
    IF ledger[i].at >= row.at THEN ledger[i].at - row.at ELSE row.at - ledger[i].at

\* Mutant of Unanchored: a row that has its ids already is a candidate too.
AnchoredOrNot(row) ==
    {i \in DiskRows : /\ ledger[i].side = row.side
                      /\ ledger[i].qty = row.qty
                      /\ Distance(i, row) <= RepairTime}

\* _find_unanchored_row: rows without any id that this event may be.
Unanchored(row) ==
    {i \in DiskRows : /\ ledger[i].fills = {} /\ ledger[i].orders = {}
                      /\ ledger[i].side = row.side
                      /\ ledger[i].qty = row.qty
                      /\ Distance(i, row) <= RepairTime}

Nearest(S, row) ==
    CHOOSE i \in S : \A j \in S : \/ Distance(i, row) < Distance(j, row)
                                  \/ Distance(i, row) = Distance(j, row) /\ i <= j

Write(row) ==
    /\ ledger' = Append(ledger, row)
    /\ logVer' = logVer + 1
    /\ UNCHANGED diskFails

\* append_trade fails: the profile has counted the trade, the file does not have it.
FailWrite(row) ==
    /\ diskFails < MaxDiskFails
    /\ diskFails' = diskFails + 1
    /\ ledger' = Append(ledger, [row EXCEPT !.disk = FALSE])
    /\ UNCHANGED logVer

\* _remember_anchors: the ids are added, the file's stamp stays the old one.
Remember(row) ==
    cache' = [cache EXCEPT !.fills = @ \cup row.fills, !.orders = @ \cup row.orders]

RestUnchanged == UNCHANGED <<exchangeVars, intent, call, cycle, saved, crashes>>

\* _repair_anchor: the ids are attached to the row that is already there.
RepairEvent ==
    LET ev == NextEvent(scan.todo)
        row == EventRow(ev)
        i == Nearest(Unanchored(row), row)
    IN  /\ scan.todo # {}
        /\ Unanchored(row) # {}
        /\ ledger' = [ledger EXCEPT ![i].fills = row.fills, ![i].orders = row.orders]
        /\ logVer' = logVer + 1
        /\ cache' = [ver |-> 0, fills |-> row.fills, orders |-> row.orders]
        /\ scan' = [scan EXCEPT !.todo = @ \ ev]
        /\ UNCHANGED diskFails
        /\ RestUnchanged

\* The event is recorded as a new row, written or not.
RecordEvent ==
    LET ev == NextEvent(scan.todo)
        row == EventRow(ev)
    IN  /\ scan.todo # {}
        /\ Unanchored(row) = {}
        /\ Write(row) \/ FailWrite(row)
        /\ Remember(row)
        /\ scan' = [scan EXCEPT !.todo = @ \ ev, !.got = TRUE]
        /\ RestUnchanged

\* A disk error in _repair_anchor: it answers False and the event is recorded anew.
RepairFails ==
    LET ev == NextEvent(scan.todo)
        row == EventRow(ev)
    IN  /\ scan.todo # {}
        /\ Unanchored(row) # {}
        /\ diskFails < MaxDiskFails
        /\ diskFails' = diskFails + 1
        /\ ledger' = Append(ledger, row)
        /\ logVer' = logVer + 1
        /\ Remember(row)
        /\ scan' = [scan EXCEPT !.todo = @ \ ev, !.got = TRUE]
        /\ RestUnchanged

\* _record_learning_trade raises after it has appended the row, when the profile or the
\* note cannot be saved: the scan takes the event for one that was not recorded.
RecordRaises ==
    LET ev == NextEvent(scan.todo)
        row == EventRow(ev)
    IN  /\ scan.todo # {}
        /\ Unanchored(row) = {}
        /\ diskFails < MaxDiskFails
        /\ diskFails' = diskFails + 1
        /\ ledger' = Append(ledger, row)
        /\ logVer' = logVer + 1
        /\ scan' = [scan EXCEPT !.todo = @ \ ev]
        /\ UNCHANGED cache
        /\ RestUnchanged

\* It raises before: the event is skipped until a later scan.
SkipEvent ==
    LET ev == NextEvent(scan.todo)
    IN  /\ scan.todo # {}
        /\ Unanchored(EventRow(ev)) = {}
        /\ diskFails < MaxDiskFails
        /\ diskFails' = diskFails + 1
        /\ scan' = [scan EXCEPT !.todo = @ \ ev]
        /\ UNCHANGED <<cache, ledger, logVer>>
        /\ RestUnchanged

ScanStep == RepairEvent \/ RecordEvent \/ RepairFails \/ RecordRaises \/ SkipEvent

-----------------------------------------------------------------------------
(* _close_position_one_side, for the side s.                                *)

\* mark_close_intent: the key is the symbol, so a second close overwrites it.
BeginClose(s) ==
    /\ scan = LoopFree
    /\ call[s].pc = "idle"
    /\ intent' = now
    /\ call' = [call EXCEPT ![s] = [IdleCall EXCEPT !.pc = "reading", !.start = now]]
    /\ UNCHANGED <<exchangeVars, cycle, scan, cache, diskVars, saved, crashes>>

\* positionRisk: in one-way mode its positionSide is BOTH, which no target equals.
ReadPosition(s) ==
    /\ scan = LoopFree
    /\ call[s].pc = "reading"
    /\ LET qty == IF HedgeMode THEN pos[s] ELSE 0
       IN  call' = [call EXCEPT ![s].qty = qty,
                                ![s].pc = IF qty > 0 THEN "submitting" ELSE "settling",
                                ![s].tries = 1]
    /\ UNCHANGED <<exchangeVars, intent, cycle, scan, cache, diskVars, saved, crashes>>

\* The exchange takes a reducing MARKET order of no more than the position.
Submit(s, acked) ==
    /\ scan = LoopFree
    /\ call[s].pc = "submitting"
    /\ call[s].qty <= pos[s]
    /\ Len(orders) < MaxOrders
    /\ Place(s, call[s].qty)
    /\ call' = [call EXCEPT ![s] = IF acked
                                   THEN [@ EXCEPT !.pc = "settling", !.order = Len(orders) + 1]
                                   ELSE IdleCall]
    /\ UNCHANGED <<pos, fills, shown, now, intent, cycle, scan, cache, diskVars, saved, crashes>>

\* The order is accepted and the answer comes back.
SubmitAcked(s) == Submit(s, TRUE)

\* The order is accepted and the answer is lost: the call raises, the intent stays.
SubmitUnacked(s) == Submit(s, FALSE)

\* A request raises, the order is rejected, or the trading task is cancelled.
AbortClose(s) ==
    /\ scan = LoopFree
    /\ call[s].pc # "idle"
    /\ call' = [call EXCEPT ![s] = IdleCall]
    /\ UNCHANGED <<exchangeVars, intent, cycle, scan, cache, diskVars, saved, crashes>>

SettleRead(s) ==
    /\ scan = LoopFree
    /\ call[s].pc = "settling"
    /\ StartScan(s, call[s].start - SettleBack)
    /\ UNCHANGED <<exchangeVars, intent, call, cycle, saved, crashes>>

\* Mutant of SettleAgain: one try more than CLOSE_RECONCILE_SETTLE_TRIES.
SettleOnceMore(s) ==
    /\ scan.by = s /\ scan.todo = {} /\ ~scan.got
    /\ call[s].order # NoOrder
    /\ call[s].tries <= SettleTries
    /\ call' = [call EXCEPT ![s].tries = @ + 1]
    /\ scan' = LoopFree
    /\ UNCHANGED <<exchangeVars, intent, cycle, cache, diskVars, saved, crashes>>

\* Another try after the settle delay.
SettleAgain(s) ==
    /\ scan.by = s /\ scan.todo = {} /\ ~scan.got
    /\ call[s].order # NoOrder
    /\ call[s].tries < SettleTries
    /\ call' = [call EXCEPT ![s].tries = @ + 1]
    /\ scan' = LoopFree
    /\ UNCHANGED <<exchangeVars, intent, cycle, cache, diskVars, saved, crashes>>

\* The scan recorded something: the close counts as done.
SettleDone(s) ==
    /\ scan.by = s /\ scan.todo = {} /\ scan.got
    /\ call' = [call EXCEPT ![s] = IdleCall]
    /\ intent' = NoIntent
    /\ scan' = LoopFree
    /\ UNCHANGED <<exchangeVars, cycle, cache, diskVars, saved, crashes>>

FallbackRow(s) ==
    [kind |-> "order", side |-> s, qty |-> call[s].qty, at |-> now,
     fills |-> {}, orders |-> {call[s].order}, disk |-> TRUE]

\* The last try, or an unreadable userTrades: record what the own order implies
\* and keep the intent, or drop it when nothing was submitted.
SettleGivesUp(s) ==
    /\ \/ scan = LoopFree /\ call[s].pc = "settling"    \* fetch_recent_fills = None
       \/ /\ scan.by = s /\ scan.todo = {} /\ ~scan.got
          /\ call[s].order = NoOrder \/ call[s].tries = SettleTries
    /\ \/ /\ call[s].order # NoOrder
          /\ Write(FallbackRow(s)) \/ FailWrite(FallbackRow(s))
          /\ UNCHANGED intent
       \/ /\ call[s].order = NoOrder
          /\ intent' = NoIntent
          /\ UNCHANGED diskVars
    /\ call' = [call EXCEPT ![s] = IdleCall]
    /\ scan' = LoopFree
    /\ UNCHANGED <<exchangeVars, cycle, cache, saved, crashes>>

Close(s) ==
    \/ BeginClose(s) \/ ReadPosition(s) \/ SubmitAcked(s) \/ SubmitUnacked(s)
    \/ AbortClose(s) \/ SettleRead(s) \/ SettleAgain(s) \/ SettleDone(s)
    \/ SettleGivesUp(s)

-----------------------------------------------------------------------------
(* reconcile_cycle: the pending intents, then now and then the discovery.   *)

CycleBegin ==
    /\ scan = LoopFree
    /\ cycle.pc = "idle"
    /\ cycle' = IF intent = NoIntent THEN [pc |-> "discover", since |-> 0]
                ELSE [pc |-> "pending", since |-> intent - EventGap]
    /\ UNCHANGED <<exchangeVars, intent, call, scan, cache, diskVars, saved, crashes>>

PendingRead ==
    /\ scan = LoopFree
    /\ cycle.pc = "pending"
    /\ StartScan("cycle", cycle.since)
    /\ UNCHANGED <<exchangeVars, intent, call, cycle, saved, crashes>>

PendingUnreadable ==
    /\ scan = LoopFree
    /\ cycle.pc = "pending"
    /\ cycle' = [pc |-> "discover", since |-> 0]
    /\ UNCHANGED <<exchangeVars, intent, call, scan, cache, diskVars, saved, crashes>>

\* What was recorded pops the symbol's intent, whichever it is by now; an intent
\* that found nothing is dropped once it is older than IntentTtl.
PendingDone ==
    /\ scan.by = "cycle" /\ scan.todo = {}
    /\ cycle.pc = "pending"
    /\ intent' = IF scan.got \/ (intent # NoIntent /\ now - intent > IntentTtl)
                 THEN NoIntent ELSE intent
    /\ cycle' = [pc |-> "discover", since |-> 0]
    /\ scan' = LoopFree
    /\ UNCHANGED <<exchangeVars, call, cache, diskVars, saved, crashes>>

\* Mutant of HasIncome: only the symbols with an intent are looked at.
HasIncomeAndIntent(since) ==
    intent # NoIntent /\ \E f \in InWindow(since) : ~fills[f].opens

\* /fapi/v1/income names the symbol when one of its closes realised PnL.
HasIncome(since) == \E f \in InWindow(since) : ~fills[f].opens

DiscoverRead ==
    /\ scan = LoopFree
    /\ cycle.pc = "discover"
    /\ HasIncome(now - Lookback)
    /\ StartScan("cycle", now - Lookback)
    /\ UNCHANGED <<exchangeVars, intent, call, cycle, saved, crashes>>

DiscoverDone ==
    /\ scan.by = "cycle" /\ scan.todo = {}
    /\ cycle.pc = "discover"
    /\ cycle' = IdleCycle
    /\ scan' = LoopFree
    /\ UNCHANGED <<exchangeVars, intent, call, cache, diskVars, saved, crashes>>

\* The discovery is not due, its requests fail, or no symbol realised PnL.
DiscoverSkip ==
    /\ scan = LoopFree
    /\ cycle.pc = "discover"
    /\ cycle' = IdleCycle
    /\ UNCHANGED <<exchangeVars, intent, call, scan, cache, diskVars, saved, crashes>>

CycleStep ==
    \/ CycleBegin \/ PendingRead \/ PendingUnreadable \/ PendingDone
    \/ DiscoverRead \/ DiscoverDone \/ DiscoverSkip

-----------------------------------------------------------------------------
(* The process.                                                             *)

\* persist_autotrade_snapshot carries the intents; only a restart reads them.
SaveSnapshot ==
    /\ scan = LoopFree
    /\ crashes < MaxCrashes
    /\ saved # intent
    /\ saved' = intent
    /\ UNCHANGED <<exchangeVars, intent, call, cycle, scan, cache, diskVars, crashes>>

\* The process dies and starts again from the snapshot and the trade log.
Restart ==
    /\ crashes < MaxCrashes
    /\ crashes' = crashes + 1
    /\ intent' = saved
    /\ call' = [s \in Sides |-> IdleCall]
    /\ cycle' = IdleCycle
    /\ scan' = LoopFree
    /\ cache' = EmptyCache
    /\ UNCHANGED <<exchangeVars, diskVars, saved>>

Exchange ==
    \/ Tick
    \/ \E s \in Sides : ExchangeClose(s) \/ Entry(s)
    \/ \E o \in DOMAIN orders : Match(o)
    \/ \E f \in DOMAIN fills : Surface(f)

Next ==
    \/ Exchange
    \/ ScanStep
    \/ \E s \in Targets : Close(s)
    \/ CycleStep
    \/ SaveSnapshot
    \/ Restart

Spec == Init /\ [][Next]_vars

(***************************************************************************)
(* Fairness.  The cycle is a task that never ends, so its next step comes  *)
(* about however often other coroutines take the loop (strong), and a      *)
(* coroutine that owns the loop runs on to its next await (weak).  The     *)
(* discovery comes due every CLOSE_DISCOVERY_INTERVAL_SEC and does not     *)
(* fail for ever (strong); userTrades shows a fill in the end (strong: the *)
(* loop's synchronous sections only defer it here; each fill comes into    *)
(* view once, so that none is passed over for ever).  Nothing is promised  *)
(* of closes, of pending scans being readable, or of the disk.             *)
(***************************************************************************)
OwnsLoop(w) == scan.by = w /\ (ScanStep \/ PendingDone \/ DiscoverDone \/ \E s \in Targets : Close(s))

Fairness ==
    /\ WF_vars(\E w \in Sides \cup {"cycle"} : OwnsLoop(w))
    /\ SF_vars(CycleBegin \/ PendingRead \/ PendingUnreadable)
    /\ SF_vars(DiscoverRead)
    /\ SF_vars(\E f \in 1 .. MaxFills : Surface(f))

FairSpec == Spec /\ Fairness

-----------------------------------------------------------------------------
(* What the trade log promises.                                             *)

\* Row i counts the PnL of fill f: it was built from it, or it is the estimate
\* written for the order that produced it.
Counts(i, f) ==
    \/ f \in ledger[i].fills
    \/ ledger[i].kind = "order" /\ fills[f].order \in ledger[i].orders

\* The log knows about fill f, by its id or by the id of its order.
Accounted(f) ==
    \E i \in DOMAIN ledger : f \in ledger[i].fills \/ fills[f].order \in ledger[i].orders

CloseFill(f) == f \in DOMAIN fills /\ ~fills[f].opens

\* reconcile_symbol_closes is idempotent: whoever scans, and however often the
\* process restarts in between, no two rows of trades.jsonl name the same fill.
FillsAnchoredOnce ==
    \A i, j \in DiskRows : i # j => ledger[i].fills \cap ledger[j].fills = {}

\* What a row of the file counts, a later row counts again only where it is an estimate
\* and the first is not: an estimate in the file keeps its fills from every later scan and
\* from every other estimate, so that no PnL is in the file more than twice.
OnlyEstimatesRecount ==
    \A i \in DiskRows, j \in DOMAIN ledger : \A f \in DOMAIN fills :
        (i < j /\ Counts(i, f) /\ Counts(j, f)) =>
            /\ ledger[i].kind # "order"
            /\ ledger[j].disk => ledger[j].kind = "order"

\* In hedge mode no scan takes the fill of an entry for a close.
OnlyClosesBooked ==
    \A i \in DOMAIN ledger : \A f \in ledger[i].fills : CloseFill(f)

\* A repair adds ids to a row that had none.  No step rewrites what a row says
\* of the trade, moves it, or gives an anchored row other ids.
AnchorsStay ==
    \A i \in DOMAIN ledger :
        /\ i \in DOMAIN ledger'
        /\ ledger'[i] = [ledger[i] EXCEPT !.fills = ledger'[i].fills,
                                         !.orders = ledger'[i].orders]
        /\ (ledger[i].fills # {} \/ ledger[i].orders # {}) => ledger'[i] = ledger[i]

AnchorsAreFinal == [][AnchorsStay]_vars

\* Whatever happens to the intent (overwritten, popped for another close, expired,
\* lost in a restart), each close the exchange filled is accounted for in the end.  (A fill
\* is never undone: what holds again and again of it once it is there holds in the end.)
EveryCloseAccounted ==
    \A f \in 1 .. MaxFills : []<>(CloseFill(f) => Accounted(f))

\* The log implements CloseLedger: across writers, failed writes and restarts, a
\* row of the file that gets its fills gets fills that no row had.
Executed == {f \in DOMAIN fills : Reduces(fills[f])}
Booked == UNION {{i} \X ledger[i].fills : i \in DiskRows}
Ledger == INSTANCE CloseLedger WITH executed <- Executed, booked <- Booked
ImplementsLedger == Ledger!Spec

(* Why: what the strengthened invariant adds.                                *)

\* No row is in a file that was never written.
LogStamped == logVer = 0 => DiskRows = {}

\* A cache that bears the file's stamp knows every id the file has.
CacheCovers ==
    /\ cache.ver <= logVer
    /\ cache.ver = logVer => DiskFills \subseteq cache.fills /\ DiskOrders \subseteq cache.orders

\* The order anchor: once an estimate is in the file, no later scan records the
\* fills of its order a second time.
NoRecountAfterFallback ==
    \A i \in DiskRows, j \in DOMAIN ledger :
        (i < j /\ ledger[i].kind = "order" /\ ledger[j].kind = "fills")
            => ledger[i].orders \cap ledger[j].orders = {}

\* What a scan is about to record is not in the file, by its fill or by an estimate.
ScanIsNews ==
    /\ scan.todo \cap DiskFills = {}
    /\ \A f \in scan.todo, i \in DiskRows :
          ledger[i].kind = "order" => fills[f].order \notin ledger[i].orders

(* What a comment of the code promises and the code does not keep.           *)

\* close_reconciler.py: ids are attached to the row that is already there rather
\* than recording it again, "which would double-count the PnL".
CountedOnce ==
    \A f \in DOMAIN fills : \A i, j \in DOMAIN ledger :
        Counts(i, f) /\ Counts(j, f) => i = j
=============================================================================
