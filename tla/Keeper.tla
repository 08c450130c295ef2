------------------------------- MODULE Keeper -------------------------------
(***************************************************************************)
(* The keeper, services/keeper/src/index.ts, at work on the engine.        *)
(*                                                                         *)
(* Every INTERVAL_MS a timer starts a tick, whether or not earlier ticks   *)
(* have ended; Ticks are those that may overlap.  A tick reads market and  *)
(* index, settles funding if the market it read says an hour has passed,   *)
(* lists the open positions, and then goes through that list with the      *)
(* market it read at the start, awaiting a balance and perhaps a           *)
(* transaction for each.  Between any two awaits everybody else may act.   *)
(*                                                                         *)
(* A transaction that fails, is refused or is lost is caught and the tick  *)
(* goes on; one whose answer is lost has had its effect all the same.      *)
(***************************************************************************)
EXTENDS PerpEngine, Layout, SequencesExt

CONSTANTS
  Ticks,        \* ticks under way at the same time
  keeper,       \* owner of the account that receives the liquidator's share
  IDL_SLOTS,    \* constituents in the interface file shipped with the keeper
  INDEX_SLOTS,  \* constituents in the IndexState account
  Misreadings   \* what an index decoded with the wrong layout may come to

ASSUME KeeperAssumption ==
  /\ keeper \in Users
  /\ IDL_SLOTS \in Nat /\ INDEX_SLOTS \in Nat /\ Misreadings \subseteq Nat

VARIABLE tick    \* what each tick under way holds in its local variables

keepervars == <<vars, tick>>

(* A local that is not assigned yet is {}, one that is assigned {value}. *)
NoTick == [pc |-> "fetch", mkt |-> {}, price |-> {}, todo |-> <<>>, target |-> {}]

Held(local) == CHOOSE value \in local : TRUE

(* The fields of the Market account that a tick keeps. *)
MarketNow == [cum |-> cum["long"], m5 |-> twap.m5, last_funding_update |-> last_funding_update,
              maintenance_margin |-> risk.maintenance_margin]

(* What a tick makes of the IndexState account. *)
IndexReadings ==
  CASE Reading(IDL_SLOTS, INDEX_SLOTS, INDEX_SLOTS) = "value" -> {index.value}
    [] Reading(IDL_SLOTS, INDEX_SLOTS, INDEX_SLOTS) = "other" -> Misreadings
    [] Reading(IDL_SLOTS, INDEX_SLOTS, INDEX_SLOTS) = "fails" -> {}

-----------------------------------------------------------------------------
(* The keeper's own copy of the program's equity check.  The monitor's     *)
(* bad-debt check is a third copy of it.                                   *)
isLiquidatable_FundingFree(pos, margin, mkt, price) ==
  LET isLong == pos.size > 0
      liqRef == IF mkt.m5 > 0 /\ (IF isLong THEN mkt.m5 < price ELSE mkt.m5 > price)
                THEN mkt.m5 ELSE price
  IN  /\ pos.entry_mark # 0
      /\ margin + PricePnl(pos.size, pos.entry_mark, liqRef)
           < Share(Abs(pos.size), mkt.maintenance_margin)
isLiquidatable(pos, margin, mkt, price) ==
  LET isLong == pos.size > 0
      liqRef == IF mkt.m5 > 0 /\ (IF isLong THEN mkt.m5 < price ELSE mkt.m5 > price)
                THEN mkt.m5 ELSE price
      fundingOwed == position_funding_owed(mkt.cum, pos.snapshot, pos.size)
  IN  /\ pos.entry_mark # 0
      /\ margin + PricePnl(pos.size, pos.entry_mark, liqRef) - fundingOwed
           < Share(Abs(pos.size), mkt.maintenance_margin)

-----------------------------------------------------------------------------

KeeperInit == Init /\ tick = [k \in Ticks |-> NoTick]

Goto(k, state) == tick' = [tick EXCEPT ![k] = state]

(* One function of the tick has ended; a tick whose list is exhausted is over. *)
GoOn(k, todo) ==
  Goto(k, IF todo = <<>> THEN NoTick
          ELSE [tick[k] EXCEPT !.pc = "scan", !.todo = todo, !.target = {}])

(* Two reads under way together, in either order; if one fails, the tick ends. *)
FetchMarket(k) ==
  /\ tick[k].pc = "fetch" /\ tick[k].mkt = {}
  /\ Goto(k, [tick[k] EXCEPT !.mkt = {MarketNow}])
  /\ UNCHANGED vars

FetchIndex(k) ==
  /\ tick[k].pc = "fetch" /\ tick[k].price = {}
  /\ \E price \in IndexReadings : Goto(k, [tick[k] EXCEPT !.price = {price}])
  /\ UNCHANGED vars

Fetched(k) == tick[k].mkt # {} /\ tick[k].price # {}

FetchFails(k) ==
  /\ tick[k].pc = "fetch" /\ ~Fetched(k)
  /\ Goto(k, NoTick)
  /\ UNCHANGED vars

(* The gate that saves a transaction per tick; the program checks again. *)
Due_Milliseconds(k) == clock - Held(tick[k].mkt).last_funding_update >= 1000 * HOUR
Due(k) == clock - Held(tick[k].mkt).last_funding_update >= HOUR

Settling(k) == tick[k].pc = "fetch" /\ Fetched(k)

SettleSkipped(k) ==
  /\ Settling(k) /\ ~Due(k)
  /\ Goto(k, [tick[k] EXCEPT !.pc = "list"])
  /\ UNCHANGED vars

SettleLands(k) ==
  /\ Settling(k) /\ Due(k)
  /\ settle_funding
  /\ Goto(k, [tick[k] EXCEPT !.pc = "list"])

SettleFails(k) ==
  /\ Settling(k) /\ Due(k)
  /\ Goto(k, [tick[k] EXCEPT !.pc = "list"])
  /\ UNCHANGED vars

(* All open positions, in whatever order the RPC node has them. *)
ListPositions(k) ==
  LET found == {[trader |-> t, pos |-> position[t]] : t \in {u \in Traders : IsOpen(u)}}
  IN  /\ tick[k].pc = "list"
      /\ IF Held(tick[k].price) = 0
         THEN GoOn(k, <<>>)
         ELSE \E order \in SetToSeqs(found) : GoOn(k, order)
      /\ UNCHANGED vars

(* The only failure that is not caught inside the tick: the tick is over. *)
ListFails(k) ==
  /\ tick[k].pc = "list"
  /\ Goto(k, NoTick)
  /\ UNCHANGED vars

(* The balance is of now, the position of the time of the list, the market *)
(* of the beginning of the tick, before its own settlement of funding.     *)
Examine(k, t) ==
  /\ tick[k].pc = "scan"
  /\ Head(tick[k].todo).trader = t
  /\ IF IsOpen(t) /\ isLiquidatable(Head(tick[k].todo).pos, margin_vault[t],
                                    Held(tick[k].mkt), Held(tick[k].price))
     THEN Goto(k, [tick[k] EXCEPT !.pc = "send", !.target = {t}, !.todo = Tail(@)])
     ELSE GoOn(k, Tail(tick[k].todo))
  /\ UNCHANGED vars

(* The vault's balance cannot be read: taken for a position being closed. *)
ExamineFails(k) ==
  /\ tick[k].pc = "scan"
  /\ GoOn(k, Tail(tick[k].todo))
  /\ UNCHANGED vars

SendLands(k, t) ==
  /\ tick[k].pc = "send" /\ tick[k].target = {t}
  /\ liquidate(t, keeper)
  /\ GoOn(k, tick[k].todo)

SendFails_Uncaught(k) ==
  /\ tick[k].pc = "send"
  /\ Goto(k, NoTick)
  /\ UNCHANGED vars
SendFails(k) ==
  /\ tick[k].pc = "send"
  /\ GoOn(k, tick[k].todo)
  /\ UNCHANGED vars

(* The process dies, or exits because its first tick failed; it comes back *)
(* with nothing to remember.                                               *)
Restart ==
  /\ tick' = [k \in Ticks |-> NoTick]
  /\ UNCHANGED vars

TickSteps(k) ==
  \/ FetchMarket(k) \/ FetchIndex(k) \/ FetchFails(k)
  \/ SettleSkipped(k) \/ SettleLands(k) \/ SettleFails(k)
  \/ ListPositions(k) \/ ListFails(k)
  \/ \E t \in Traders : Examine(k, t) \/ SendLands(k, t)
  \/ ExamineFails(k) \/ SendFails(k)

KeeperSteps == \E k \in Ticks : TickSteps(k)

KeeperNext == KeeperSteps \/ Restart \/ (Next /\ UNCHANGED tick)

KeeperSpec == KeeperInit /\ [][KeeperNext]_keepervars

(* The timer goes on, every await comes back, and of the calls of one kind *)
(* that are made again and again not every one fails.                      *)
Arrives(k) == (FetchMarket(k) \/ FetchIndex(k)) /\ Fetched(k)'

KeeperFairness ==
  /\ \A k \in Ticks : WF_keepervars(TickSteps(k))
  /\ SF_keepervars(\E k \in Ticks : Arrives(k))
  /\ SF_keepervars(\E k \in Ticks : SettleLands(k))
  /\ SF_keepervars(\E k \in Ticks : ListPositions(k))
  /\ \A t \in Traders : /\ SF_keepervars(\E k \in Ticks : Examine(k, t))
                        /\ SF_keepervars(\E k \in Ticks : SendLands(k, t))

-----------------------------------------------------------------------------
(* Properties.                                                             *)

(* The three copies of the equity check agree: on one and the same state   *)
(* keeper and monitor call liquidatable exactly what the program does, for *)
(* longs and shorts, whatever average, funding and parameters are.         *)
CopiesAgree ==
  \A t \in Traders : IsOpen(t) /\ OracleUsable =>
    (isLiquidatable(position[t], margin_vault[t], MarketNow, index.value)
       <=> Liquidatable(t))

(* A position the program would let anybody liquidate does not stay: the   *)
(* keeper finds it in spite of snapshots that are old by its own           *)
(* settlement, of overlapping ticks, failed calls, and other positions     *)
(* whose liquidation the program refuses every time.                       *)
LiquidatedInTheEnd ==
  \A t \in Traders : []<>~(Liquidatable(t) /\ TransfersSucceed(t))

(* Hours that have passed are settled in the end, as long as the program   *)
(* accepts a settlement at all.                                            *)
FundingKeptUp ==
  []<>(paused.funding \/ index.value = 0 \/ clock - last_funding_update < HOUR)

-----------------------------------------------------------------------------

(* services/keeper/src/index.ts:10: the keeper recomputes each position's  *)
(* equity "the same way the on-chain `liquidate` ix does".  Its interface  *)
(* file has 25 constituents where the account has 50, so that the value it *)
(* takes for the index is a piece of some constituents' prices.            *)
SameEquityAsOnChain ==
  \A t \in Traders : IsOpen(t) /\ OracleUsable =>
    \A price \in IndexReadings :
      isLiquidatable(position[t], margin_vault[t], MarketNow, price) <=> Liquidatable(t)

=============================================================================
