-------------------------- MODULE PerpEngine_proofs --------------------------
(***************************************************************************)
(* The safety properties of PerpEngine, proved for every value of its      *)
(* constants.  Each theorem combines three facts without time: the initial *)
(* state has the property, every instruction preserves it (given that      *)
(* types are correct), and so every behaviour keeps it.  The last section  *)
(* adds the keepers, which change nothing of it.                           *)
(***************************************************************************)
EXTENDS Keeper, PerpEngine_types, Sums

(* One case per instruction; the instructions a property cannot notice are *)
(* dealt with together, by what they leave unchanged.                      *)
LEMMA Instructions ==
  ASSUME [Next]_vars
  PROVE  \/ \E t \in Traders, s \in Sizes, m \in Amounts : open_position(t, s, m)
         \/ \E t \in Traders, s \in Sizes : modify_position(t, s)
         \/ \E t \in Traders : close_position(t)
         \/ \E t \in Traders, a \in Amounts : add_margin(t, a)
         \/ \E t \in Traders, a \in Amounts : withdraw_margin(t, a)
         \/ \E t \in Traders, u \in Users : liquidate(t, u)
         \/ settle_funding
         \/ \E t \in Traders : \E w \in WitnessLists(t) : auto_deleverage(t, w)
         \/ \E u \in Users, a \in Amounts : deposit_insurance(u, a)
         \/ \E u \in Users, a \in Amounts : withdraw_treasury(u, a)
         \/ \E a \in Amounts : OracleSlash(a)
         \/ \E a \in Amounts : Donation(a)
         \/ \E d \in Durations : Elapse(d)
         \/ \E r \in RiskChoices : update_risk_params(r)
         \/ \E n \in 0..4 : set_phase(n)
         \/ UNCHANGED <<book, funding, risk, money, clock, unbooked>>
<1>1. CASE AdminSteps
  <2>1. ASSUME NEW tr \in BOOLEAN, NEW fu \in BOOLEAN, set_pause(tr, fu)
        PROVE  UNCHANGED <<book, funding, risk, money, clock, unbooked>>
    BY <2>1 DEF set_pause, external
  <2>. QED  BY <1>1, <2>1 DEF AdminSteps
<1>2. CASE EnvironmentSteps
  BY <1>2 DEF EnvironmentSteps, IndexAggregated, IndexFinalized, admin
<1>3. CASE UNCHANGED vars
  BY <1>3 DEF vars, admin, external
<1>. QED  BY <1>1, <1>2, <1>3 DEF Next, TraderSteps, PublicSteps

(* The instructions that leave every position and the book as they are. *)
QuietSteps ==
  \/ \E t \in Traders, a \in Amounts : add_margin(t, a)
  \/ \E t \in Traders, a \in Amounts : withdraw_margin(t, a)
  \/ settle_funding
  \/ \E u \in Users, a \in Amounts : deposit_insurance(u, a)
  \/ \E u \in Users, a \in Amounts : withdraw_treasury(u, a)
  \/ \E a \in Amounts : OracleSlash(a)
  \/ \E a \in Amounts : Donation(a)
  \/ \E d \in Durations : Elapse(d)
  \/ \E r \in RiskChoices : update_risk_params(r)
  \/ \E n \in 0..4 : set_phase(n)
  \/ UNCHANGED <<book, funding, risk, money, clock, unbooked>>

LEMMA PositionsKept ==
  ASSUME QuietSteps
  PROVE  UNCHANGED <<position, count, oi>>
  BY DEF QuietSteps, add_margin, withdraw_margin, settle_funding, deposit_insurance,
         withdraw_treasury, OracleSlash, Donation, Elapse, update_risk_params,
         set_phase, book

-----------------------------------------------------------------------------
(* The books.                                                              *)

Ledger == [vault: Int, deposited: Int, paid_out: Int]

(* What a vault holds beyond its books. *)
Gap(fund) == fund.vault - fund.deposited + fund.paid_out

Booked(fund, tr, outside) ==
  /\ Gap(fund) = outside.insurance
  /\ tr.vault = tr.received - tr.paid_out + outside.treasury

(* A settlement, paid or received, moves vault and books together. *)
LEMMA SettleGap ==
  ASSUME NEW fund \in Ledger, NEW amount \in Int
  PROVE  Settle(fund, amount) \in Ledger /\ Gap(Settle(fund, amount)) = Gap(fund)
<1>1. fund.vault \in Int /\ fund.deposited \in Int /\ fund.paid_out \in Int
  BY DEF Ledger
<1>2. CASE amount >= 0
  <2>. DEFINE v == fund.vault + amount
              d == fund.deposited + amount
  <2>1. v \in Int /\ d \in Int
    BY <1>1
  <2>2. Settle(fund, amount) = [fund EXCEPT !.vault = v, !.deposited = d]
    BY <1>2 DEF Settle
  <2>3. Gap(Settle(fund, amount)) = Gap(fund)
    BY <1>1, <2>2 DEF Gap, Ledger
  <2>4. Settle(fund, amount) \in Ledger
    <3>. HIDE DEF v, d
    <3>. QED  BY <2>1, <2>2 DEF Ledger
  <2>. QED  BY <2>3, <2>4
<1>3. CASE amount < 0
  <2>. DEFINE v == fund.vault + amount
              o == fund.paid_out - amount
  <2>1. v \in Int /\ o \in Int
    BY <1>1
  <2>2. Settle(fund, amount) = [fund EXCEPT !.vault = v, !.paid_out = o]
    BY <1>3 DEF Settle
  <2>3. Gap(Settle(fund, amount)) = Gap(fund)
    BY <1>1, <2>2 DEF Gap, Ledger
  <2>4. Settle(fund, amount) \in Ledger
    <3>. HIDE DEF v, o
    <3>. QED  BY <2>1, <2>2 DEF Ledger
  <2>. QED  BY <2>3, <2>4
<1>. QED  BY <1>2, <1>3

LEMMA BooksStep ==
  ASSUME TypeOK, TypeOK', VaultsMatchBooks, [Next]_vars
  PROVE  VaultsMatchBooks'
<1>1. insurance \in Ledger /\ Gap(insurance) = unbooked.insurance
  BY DEF TypeOK, VaultsMatchBooks, Gap, Ledger
<1>. DEFINE Goal == Booked(insurance', treasury', unbooked')
<1>2. Goal => VaultsMatchBooks'
  BY DEF TypeOK, VaultsMatchBooks, Gap, Booked
<1>3. /\ treasury \in [vault: Nat, received: Nat, paid_out: Nat]
      /\ treasury.vault = treasury.received - treasury.paid_out + unbooked.treasury
      /\ unbooked \in [insurance: Nat, treasury: Nat]
  BY DEF TypeOK, VaultsMatchBooks
<1>4. ASSUME NEW amount \in Nat, treasury' = Receive(treasury, amount), UNCHANGED unbooked
      PROVE  treasury'.vault = treasury'.received - treasury'.paid_out + unbooked'.treasury
  <2>1. /\ treasury'.vault = treasury.vault + amount
        /\ treasury'.received = treasury.received + amount
        /\ treasury'.paid_out = treasury.paid_out
    BY <1>3, <1>4, ReceiveType
  <2>. QED  BY <1>3, <1>4, <2>1
<1>5. ASSUME NEW t \in Traders, NEW s \in Sizes, NEW m \in Amounts, open_position(t, s, m)
      PROVE  Goal
  <2>. DEFINE fee == Share(Abs(s), TAKER_FEE)
  <2>1. Abs(s) \in Nat /\ TAKER_FEE \in Nat
    BY InputAssumption, MarketAssumption DEF Abs
  <2>2. fee \in Nat /\ TreasuryShare(fee) \in Nat
    <3>1. fee \in Nat
      BY <2>1, ShareType
    <3>. HIDE DEF fee
    <3>. QED  BY <3>1, TreasuryShareBound
  <2>3. /\ treasury' = Receive(treasury, TreasuryShare(fee))
        /\ insurance' = Settle(insurance, fee - TreasuryShare(fee))
        /\ UNCHANGED unbooked
    BY <1>5 DEF open_position, external
  <2>. QED  BY <1>1, <1>4, <2>2, <2>3, SettleGap DEF Booked
<1>6. ASSUME NEW t \in Traders, NEW d \in Sizes, modify_position(t, d)
      PROVE  Goal
  <2>1. FundingOwed(t) \in Int
    BY <1>6, OpenPosition DEF modify_position
  <2>2. PICK settled : insurance' = Settle(Settle(insurance, FundingOwed(t)), -settled)
                       /\ settled \in Int
    <3>. DEFINE mark    == MarkAt(ResizedOi(t, position[t].size + d))
                settled == IF Abs(position[t].size + d) > Abs(position[t].size)
                           THEN 0 ELSE Payable(Realized(t, d, mark))
    <3>1. IsOpen(t) /\ oi[Side(position[t].size)] >= Notional(t)
      BY <1>6 DEF modify_position
    <3>2. /\ position[t].size \in Int /\ position[t].entry_mark \in Nat \ {0}
          /\ d \in Int /\ -d \in Int
      BY <3>1, OpenPosition, InputAssumption
    <3>3. ResizedOi(t, position[t].size + d) \in [Sides -> Nat]
      BY <3>1, <3>2, ResizedOiType
    <3>4. mark \in Int
      BY <3>3, MarkAtType
    <3>5. Realized(t, d, mark) \in Int
      <4>. HIDE DEF mark
      <4>. QED  BY <3>2, <3>4, PricePnlType DEF Realized
    <3>6. settled \in Int
      <4>. HIDE DEF mark
      <4>. QED  BY <3>5, PayableBound
    <3>7. insurance' = Settle(Settle(insurance, FundingOwed(t)), -settled)
      BY <1>6 DEF modify_position
    <3>. QED  BY <3>6, <3>7
  <2>3. UNCHANGED <<treasury, unbooked>>
    BY <1>6 DEF modify_position, external
  <2>4. /\ Settle(insurance, FundingOwed(t)) \in Ledger
        /\ Gap(Settle(insurance, FundingOwed(t))) = Gap(insurance)
    BY <1>1, <2>1, SettleGap
  <2>5. Gap(insurance') = Gap(Settle(insurance, FundingOwed(t)))
    BY <2>2, <2>4, SettleGap
  <2>. QED  BY <1>1, <1>3, <2>3, <2>4, <2>5 DEF Booked
<1>7. ASSUME NEW t \in Traders, close_position(t)
      PROVE  Goal
  <2>. DEFINE paid == Payable(ClosePnl(t))
  <2>1. IsOpen(t) /\ oi[Side(position[t].size)] >= Notional(t)
    BY <1>7 DEF close_position, CanClose
  <2>2. CloseMark(t) \in Int
    BY <2>1, ResizedOiType, MarkAtType DEF CloseMark
  <2>3. TreasuryShare(CloseFee(t)) \in Nat /\ -paid \in Int
    BY <2>1, <2>2, CloseType, PayableBound
  <2>4. /\ treasury' = Receive(treasury, TreasuryShare(CloseFee(t)))
        /\ insurance' = Settle(insurance, -paid)
        /\ UNCHANGED unbooked
    BY <1>7 DEF close_position, external
  <2>. HIDE DEF paid
  <2>. QED  BY <1>1, <1>4, <2>3, <2>4, SettleGap DEF Booked
<1>8. ASSUME NEW t \in Traders, NEW u \in Users, liquidate(t, u)
      PROVE  Goal
  <2>. DEFINE s == LiquidationSplit(t)
  <2>1. s.flow \in Int /\ s.topup \in Nat /\ s.to_insurance \in Nat
    BY <1>8, LiquidationSplitType DEF liquidate, Liquidatable
  <2>2. /\ insurance' = Settle(Settle(Settle(insurance, s.flow), -s.topup), s.to_insurance)
        /\ UNCHANGED <<treasury, unbooked>>
    BY <1>8 DEF liquidate, external
  <2>. HIDE DEF s
  <2>3. /\ Settle(insurance, s.flow) \in Ledger
        /\ Gap(Settle(insurance, s.flow)) = Gap(insurance)
    BY <1>1, <2>1, SettleGap
  <2>4. -s.topup \in Int /\ s.to_insurance \in Int
    BY <2>1
  <2>5. /\ Settle(Settle(insurance, s.flow), -s.topup) \in Ledger
        /\ Gap(Settle(Settle(insurance, s.flow), -s.topup)) = Gap(insurance)
    BY <2>3, <2>4, SettleGap
  <2>6. Gap(insurance') = Gap(insurance)
    BY <2>2, <2>4, <2>5, SettleGap
  <2>. QED  BY <1>1, <1>3, <2>2, <2>6 DEF Booked
<1>9. ASSUME NEW t \in Traders, NEW w \in WitnessLists(t), auto_deleverage(t, w)
      PROVE  Goal
  <2>. DEFINE pnl     == PnlAt(t, index.value)
              balance == margin_vault[t] + ADLTopup(t)
              payout  == IF pnl >= 0 THEN balance ELSE Monus(balance, -pnl)
  <2>1. pnl \in Int /\ ADLTopup(t) \in Nat /\ balance \in Nat
    <3>1. IsOpen(t) /\ index.value \in Int /\ insurance.vault \in Nat /\ margin_vault[t] \in Nat
      BY <1>9 DEF TypeOK, auto_deleverage
    <3>2. pnl \in Int /\ ADLTopup(t) \in 0 .. insurance.vault
      BY <3>1, OpenPosition, ADLTopupBound
    <3>. QED  BY <3>1, <3>2
  <2>2. /\ insurance' = Settle(Settle(insurance, -ADLTopup(t)), balance - payout)
        /\ UNCHANGED <<treasury, unbooked>>
    BY <1>9 DEF auto_deleverage, external
  <2>. HIDE DEF pnl, balance
  <2>3. -ADLTopup(t) \in Int /\ balance - payout \in Int
    BY <2>1 DEF Monus
  <2>. HIDE DEF payout
  <2>4. /\ Settle(insurance, -ADLTopup(t)) \in Ledger
        /\ Gap(Settle(insurance, -ADLTopup(t))) = Gap(insurance)
    BY <1>1, <2>3, SettleGap
  <2>5. Gap(insurance') = Gap(insurance)
    BY <2>2, <2>3, <2>4, SettleGap
  <2>. QED  BY <1>1, <1>3, <2>2, <2>5 DEF Booked
<1>10. ASSUME NEW u \in Users, NEW a \in Amounts, deposit_insurance(u, a)
       PROVE  Goal
  <2>1. a \in Int /\ insurance' = Settle(insurance, a) /\ UNCHANGED <<treasury, unbooked>>
    BY <1>10, InputAssumption DEF deposit_insurance, external
  <2>. QED  BY <1>1, <1>3, <2>1, SettleGap DEF Booked
<1>11. ASSUME NEW u \in Users, NEW a \in Amounts, withdraw_treasury(u, a)
       PROVE  Goal
  <2>1. /\ a \in Nat
        /\ treasury' = [treasury EXCEPT !.vault = @ - a, !.paid_out = @ + a]
        /\ UNCHANGED <<insurance, unbooked>>
    BY <1>11, InputAssumption DEF withdraw_treasury, external
  <2>. QED  BY <1>1, <1>3, <2>1 DEF Booked
<1>12. ASSUME NEW a \in Amounts, OracleSlash(a)
       PROVE  Goal
  <2>1. /\ a \in Nat
        /\ treasury' = [treasury EXCEPT !.vault = @ + a]
        /\ unbooked' = [unbooked EXCEPT !.treasury = @ + a]
        /\ UNCHANGED insurance
    BY <1>12, InputAssumption DEF OracleSlash
  <2>. QED  BY <1>1, <1>3, <2>1 DEF Booked
<1>13. ASSUME NEW a \in Amounts, Donation(a)
       PROVE  Goal
  <2>1. /\ a \in Nat
        /\ insurance' = [insurance EXCEPT !.vault = @ + a]
        /\ unbooked' = [unbooked EXCEPT !.insurance = @ + a]
        /\ UNCHANGED treasury
    BY <1>13, InputAssumption DEF Donation
  <2>2. Gap(insurance') = Gap(insurance) + a
    BY <1>1, <2>1 DEF Gap, Ledger
  <2>. QED  BY <1>1, <1>3, <2>1, <2>2 DEF Booked
<1>14. ASSUME UNCHANGED <<insurance, treasury, unbooked>>
       PROVE  Goal
  BY <1>1, <1>3, <1>14 DEF Booked, Gap
<1>15. ASSUME \/ \E t \in Traders, a \in Amounts : add_margin(t, a)
              \/ \E t \in Traders, a \in Amounts : withdraw_margin(t, a)
              \/ settle_funding
              \/ \E d \in Durations : Elapse(d)
              \/ \E r \in RiskChoices : update_risk_params(r)
              \/ \E n \in 0..4 : set_phase(n)
              \/ UNCHANGED <<book, funding, risk, money, clock, unbooked>>
       PROVE  UNCHANGED <<insurance, treasury, unbooked>>
  BY <1>15 DEF add_margin, withdraw_margin, settle_funding, Elapse, update_risk_params,
               set_phase, money, external
<1>. QED  BY <1>2, <1>5, <1>6, <1>7, <1>8, <1>9, <1>10, <1>11, <1>12, <1>13, <1>14, <1>15,
             Instructions

(* The totals of the insurance fund and of the treasury account for every  *)
(* unit in their vaults, but for what came in by no instruction of the     *)
(* program: no path through a handler moves tokens without booking them,   *)
(* or books what was not moved.                                            *)
THEOREM BooksCorrect == Spec => []VaultsMatchBooks
<1>1. Init => VaultsMatchBooks
  BY UsersAssumption DEF Init, VaultsMatchBooks
<1>. QED  BY <1>1, BooksStep, TypeInit, TypeStep, PTL DEF Spec

-----------------------------------------------------------------------------
(* Funding.                                                                *)

LEMMA FundingMoves ==
  ASSUME TypeOK, [Next]_vars
  PROVE  /\ settle_funding \/ UNCHANGED funding
         /\ clock' >= clock
<1>. DEFINE Quiet == UNCHANGED <<funding, clock>>
<1>1. ASSUME NEW t \in Traders, NEW s \in Sizes, NEW m \in Amounts, open_position(t, s, m)
      PROVE  Quiet
  BY <1>1 DEF open_position, external
<1>2. ASSUME NEW t \in Traders, NEW s \in Sizes, modify_position(t, s)
      PROVE  Quiet
  BY <1>2 DEF modify_position, external
<1>3. ASSUME NEW t \in Traders, close_position(t)
      PROVE  Quiet
  BY <1>3 DEF close_position, external
<1>4. ASSUME NEW t \in Traders, NEW a \in Amounts, add_margin(t, a) \/ withdraw_margin(t, a)
      PROVE  Quiet
  BY <1>4 DEF add_margin, withdraw_margin, external
<1>5. ASSUME NEW t \in Traders, NEW u \in Users, liquidate(t, u)
      PROVE  Quiet
  BY <1>5 DEF liquidate, external
<1>6. ASSUME NEW t \in Traders, NEW w \in WitnessLists(t), auto_deleverage(t, w)
      PROVE  Quiet
  BY <1>6 DEF auto_deleverage, external
<1>7. ASSUME NEW u \in Users, NEW a \in Amounts, deposit_insurance(u, a) \/ withdraw_treasury(u, a)
      PROVE  Quiet
  BY <1>7 DEF deposit_insurance, withdraw_treasury, external
<1>8. ASSUME NEW a \in Amounts, OracleSlash(a) \/ Donation(a)
      PROVE  Quiet
  BY <1>8 DEF OracleSlash, Donation
<1>9. ASSUME NEW r \in RiskChoices, update_risk_params(r)
      PROVE  Quiet
  BY <1>9 DEF update_risk_params, external
<1>10. ASSUME NEW n \in 0..4, set_phase(n)
      PROVE  Quiet
  BY <1>10 DEF set_phase, external
<1>11. ASSUME NEW d \in Durations, Elapse(d)
       PROVE  UNCHANGED funding /\ clock' >= clock
  BY <1>11, InputAssumption DEF Elapse, TypeOK
<1>12. ASSUME settle_funding
       PROVE  UNCHANGED clock
  BY <1>12 DEF settle_funding, external
<1>13. Quiet \/ settle_funding \/ \E d \in Durations : Elapse(d)
  BY Instructions, <1>1, <1>2, <1>3, <1>4, <1>5, <1>6, <1>7, <1>8, <1>9, <1>10
<1>14. clock \in Nat
  BY DEF TypeOK
<1>. QED  BY <1>11, <1>12, <1>13, <1>14

(* What a settlement does to the accumulators and to the time it counts    *)
(* from.                                                                   *)
LEMMA SettledFunding ==
  ASSUME TypeOK, settle_funding, last_funding_update <= clock
  PROVE  \E hours \in Nat :
           LET bound == CAP_CEILING * (SCALE \div BPS) * hours
           IN  /\ last_funding_update' = last_funding_update + hours * HOUR
               /\ last_funding_update' <= clock
               /\ bound \in Nat
               /\ \/ cum' = cum
                  \/ \E accrual \in -bound .. bound : cum' = AccruedBoth(accrual)
<1>. DEFINE elapsed == clock - last_funding_update
            hours   == elapsed \div HOUR
            accrual == FundingAccrual(twap.h1, index.value, risk.funding_cap, hours)
            bound   == CAP_CEILING * (SCALE \div BPS) * hours
<1>1. last_funding_update \in Nat /\ clock \in Nat /\ HOUR \in Nat \ {0}
  BY MarketAssumption DEF TypeOK
<1>2. elapsed \in Nat
  BY <1>1
<1>3. hours \in Nat /\ hours * HOUR <= elapsed /\ hours * HOUR \in Nat
  <2>. HIDE DEF elapsed
  <2>. QED  BY <1>1, <1>2
<1>4. last_funding_update' = last_funding_update + hours * HOUR
  BY DEF settle_funding
<1>. HIDE DEF hours
<1>5. last_funding_update' <= clock
  BY <1>1, <1>3, <1>4
<1>6. bound \in Nat /\ accrual \in -bound .. bound
  <2>1. twap.h1 \in Nat /\ index.value \in Nat \ {0}
    BY DEF TypeOK, settle_funding
  <2>2. risk.funding_cap \in Nat /\ risk.funding_cap <= CAP_CEILING /\ CAP_CEILING \in Nat
    BY RiskInForce, RiskAssumption
  <2>. QED  BY <1>3, <2>1, <2>2, FundingAccrualBound
<1>7. cum' = IF twap.h1 > 0 THEN AccruedBoth(accrual) ELSE cum
  BY DEF settle_funding, hours
<1>. HIDE DEF bound, accrual
<1>8. cum' = cum \/ \E a \in -bound .. bound : cum' = AccruedBoth(a)
  BY <1>6, <1>7
<1>. QED  BY <1>3, <1>4, <1>5, <1>6, <1>8 DEF bound

(* All settlements read the long accumulator, but a short's snapshot is    *)
(* taken from the short one.  settle_funding writes the same value to both.*)
FundingSymmetric == cum["long"] = cum["short"]

(* One assignment writes both accumulators, and none writes one of them.   *)
LEMMA FundingSymmetryHolds == Spec => []FundingSymmetric
<1>1. Init => FundingSymmetric
  BY DEF Init, FundingSymmetric, Sides
<1>2. TypeOK /\ FundingSymmetric /\ [Next]_vars => FundingSymmetric'
  <2>1. ASSUME settle_funding, FundingSymmetric
        PROVE  FundingSymmetric'
    BY <2>1 DEF settle_funding, FundingSymmetric, AccruedBoth, Sides
  <2>2. ASSUME UNCHANGED funding, FundingSymmetric
        PROVE  FundingSymmetric'
    BY <2>2 DEF funding, FundingSymmetric
  <2>. QED  BY <2>1, <2>2, FundingMoves
<1>. QED  BY <1>1, <1>2, TypeCorrect, PTL DEF Spec

LEMMA FundingCapStep ==
  ASSUME TypeOK, TypeOK', FundingWithinCap, [Next]_vars
  PROVE  FundingWithinCap'
<1>. DEFINE rate == CAP_CEILING * (SCALE \div BPS)
            passed == last_funding_update \div HOUR
<1>1. /\ rate \in Nat /\ passed \in Nat /\ last_funding_update \in Nat
      /\ clock \in Nat /\ clock' \in Nat /\ HOUR \in Nat \ {0} /\ cum["long"] \in Int
  <2>1. SCALE \div BPS \in Nat
    BY ScaleAssumption
  <2>2. rate \in Nat
    BY <2>1, RiskAssumption
  <2>. QED  BY <2>2, MarketAssumption DEF TypeOK, Sides
<1>2. /\ -(rate * passed) <= cum["long"] /\ cum["long"] <= rate * passed
      /\ last_funding_update <= clock
  BY DEF FundingWithinCap
<1>3. clock <= clock'
  BY FundingMoves, <1>1
<1>4. ASSUME UNCHANGED funding
      PROVE  FundingWithinCap'
  BY <1>1, <1>2, <1>3, <1>4 DEF FundingWithinCap, funding
<1>5. ASSUME settle_funding
      PROVE  FundingWithinCap'
  <2>1. PICK hours \in Nat :
          /\ last_funding_update' = last_funding_update + hours * HOUR
          /\ last_funding_update' <= clock
          /\ rate * hours \in Nat
          /\ \/ cum' = cum
             \/ \E accrual \in -(rate * hours) .. (rate * hours) : cum' = AccruedBoth(accrual)
    BY <1>2, <1>5, SettledFunding
  <2>2. last_funding_update' \div HOUR = passed + hours
    BY <1>1, <2>1, HoursAdd
  <2>. HIDE DEF rate, passed
  <2>3. rate * (passed + hours) = rate * passed + rate * hours /\ rate * passed \in Int
    BY <1>1
  <2>4. cum'["long"] - cum["long"] \in -(rate * hours) .. (rate * hours)
    BY <1>1, <2>1 DEF AccruedBoth, Sides
  <2>5. cum'["long"] \in Int
    BY DEF TypeOK, Sides
  <2>6. /\ -(rate * (passed + hours)) <= cum'["long"]
        /\ cum'["long"] <= rate * (passed + hours)
    BY <1>1, <1>2, <2>1, <2>3, <2>4, <2>5
  <2>7. last_funding_update' <= clock'
    BY <1>1, <1>3, <2>1 DEF TypeOK
  <2>. QED  BY <2>2, <2>6, <2>7 DEF FundingWithinCap, rate
<1>. QED  BY <1>4, <1>5, FundingMoves

(* Nobody settling for a long time, a far-off average, a change of the cap *)
(* by the admin: the accumulator never outruns the highest cap that can be *)
(* installed, counted from the start of the market in whole hours.         *)
THEOREM FundingCapHolds == Spec => []FundingWithinCap
<1>1. Init => FundingWithinCap
  <2>1. 0 \div HOUR = 0 /\ CAP_CEILING * (SCALE \div BPS) * 0 = 0
    <3>1. SCALE \div BPS \in Int
      BY ScaleAssumption
    <3>2. CAP_CEILING * (SCALE \div BPS) \in Int
      BY <3>1, RiskAssumption
    <3>. QED  BY <3>2, MarketAssumption
  <2>. QED  BY <2>1 DEF Init, FundingWithinCap, Sides
<1>. QED  BY <1>1, FundingCapStep, TypeInit, TypeStep, PTL DEF Spec

-----------------------------------------------------------------------------
(* Position counts and the list auto_deleverage asks for.                  *)

LEMMA OpenOnFinite ==
  ASSUME NEW s
  PROVE  /\ IsFiniteSet(OpenOn(s)) /\ OpenOn(s) \subseteq Traders
         /\ Cardinality(OpenOn(s)) \in Nat
<1>1. OpenOn(s) \subseteq Traders
  BY DEF OpenOn
<1>. QED  BY <1>1, FS_Subset, FS_CardinalityType, UsersAssumption

(* Resizing a position on its side leaves every side's set as it was. *)
LEMMA CountsResized ==
  ASSUME TypeOK, CountsExact, NEW t \in Traders, NEW p,
         IsOpen(t), p.size # 0, Side(p.size) = Side(position[t].size),
         position' = [position EXCEPT ![t] = p], UNCHANGED count
  PROVE  CountsExact'
<1>1. \A s \in Sides : OpenOn(s)' = OpenOn(s)
  BY DEF TypeOK, OpenOn, IsOpen
<1>. QED  BY <1>1 DEF CountsExact

(* A position that enters the book is counted. *)
LEMMA CountsEntered ==
  ASSUME TypeOK, CountsExact, NEW t \in Traders, NEW p, NEW side \in Sides,
         ~IsOpen(t), p.size # 0, Side(p.size) = side, count[side] + 1 <= MAX_POSITIONS,
         position' = [position EXCEPT ![t] = p],
         count' = [count EXCEPT ![side] = @ + 1]
  PROVE  CountsExact'
<1>1. \A s \in Sides : OpenOn(s)' = IF s = side THEN OpenOn(s) \cup {t} ELSE OpenOn(s)
  BY DEF TypeOK, OpenOn, IsOpen
<1>2. t \notin OpenOn(side)
  BY DEF OpenOn
<1>3. Cardinality(OpenOn(side) \cup {t}) = Cardinality(OpenOn(side)) + 1
  BY <1>2, OpenOnFinite, FS_AddElement
<1>. QED  BY <1>1, <1>3 DEF CountsExact, TypeOK

(* A position that leaves the book, however it leaves, is counted off. *)
LEMMA CountsLeft ==
  ASSUME TypeOK, CountsExact, NEW t \in Traders, NEW residual,
         IsOpen(t), CloseAccounts(t, residual), LeaveBook(t)
  PROVE  CountsExact'
<1>. DEFINE side == Side(position[t].size)
<1>1. side \in Sides /\ t \in OpenOn(side)
  BY DEF Side, Sides, OpenOn
<1>2. \A s \in Sides : OpenOn(s)' = IF s = side THEN OpenOn(s) \ {t} ELSE OpenOn(s)
  BY DEF TypeOK, OpenOn, IsOpen, CloseAccounts, NoPosition
<1>3. Cardinality(OpenOn(side) \ {t}) = Cardinality(OpenOn(side)) - 1
  <2>. HIDE DEF side
  <2>1. IsFiniteSet(OpenOn(side))
    BY OpenOnFinite
  <2>. QED  BY <1>1, <2>1, FS_RemoveElement
<1>4. Cardinality(OpenOn(side)) - 1 \in Nat
  <2>1. IsFiniteSet(OpenOn(side) \ {t})
    BY OpenOnFinite, FS_RemoveElement
  <2>. QED  BY <1>3, <2>1, FS_CardinalityType
<1>5. count' = [count EXCEPT ![side] = Monus(@, 1)]
  BY DEF LeaveBook
<1>6. count'[side] = Cardinality(OpenOn(side)) - 1 /\ count'[side] <= MAX_POSITIONS
  BY <1>1, <1>4, <1>5, OpenOnFinite, MarketAssumption DEF CountsExact, TypeOK, Monus
<1>. QED  BY <1>1, <1>2, <1>3, <1>5, <1>6 DEF CountsExact, TypeOK

LEMMA CountsStep ==
  ASSUME TypeOK, CountsExact, [Next]_vars
  PROVE  CountsExact'
<1>1. ASSUME NEW t \in Traders, NEW s \in Sizes, NEW m \in Amounts, open_position(t, s, m)
      PROVE  CountsExact'
  <2>. DEFINE new_oi == [oi EXCEPT ![Side(s)] = @ + Abs(s)]
              p == [size |-> s, entry_mark |-> MarkAt(new_oi), snapshot |-> cum[Side(s)]]
  <2>1. /\ ~IsOpen(t) /\ s # 0 /\ count[Side(s)] + 1 <= MAX_POSITIONS
        /\ position' = [position EXCEPT ![t] = p]
        /\ count' = [count EXCEPT ![Side(s)] = @ + 1]
    BY <1>1 DEF open_position
  <2>2. p.size = s /\ Side(s) \in Sides
    BY DEF Side, Sides
  <2>. HIDE DEF p
  <2>. QED  BY <2>1, <2>2, CountsEntered
<1>2. ASSUME NEW t \in Traders, NEW d \in Sizes, modify_position(t, d)
      PROVE  CountsExact'
  <2>. DEFINE mark == MarkAt(ResizedOi(t, position[t].size + d))
              entry ==
                IF Abs(position[t].size + d) > Abs(position[t].size)
                THEN BlendEntry(Abs(position[t].size), position[t].entry_mark, Abs(d), mark)
                ELSE position[t].entry_mark
              p == [size |-> position[t].size + d, entry_mark |-> entry,
                    snapshot |-> cum["long"]]
  <2>1. position' = [position EXCEPT ![t] = p] /\ p.size = position[t].size + d
    BY <1>2 DEF modify_position
  <2>. HIDE DEF p
  <2>2. /\ IsOpen(t) /\ position[t].size + d # 0 /\ UNCHANGED count
        /\ Side(position[t].size + d) = Side(position[t].size)
    BY <1>2 DEF modify_position
  <2>. QED  BY <2>1, <2>2, CountsResized
<1>3. ASSUME NEW t \in Traders, close_position(t)
      PROVE  CountsExact'
  <2>1. IsOpen(t) /\ LeaveBook(t) /\ \E r : CloseAccounts(t, r)
    BY <1>3 DEF close_position, CanClose
  <2>. QED  BY <2>1, CountsLeft
<1>4. ASSUME NEW t \in Traders, NEW u \in Users, liquidate(t, u)
      PROVE  CountsExact'
  <2>1. IsOpen(t) /\ LeaveBook(t) /\ \E r : CloseAccounts(t, r)
    BY <1>4 DEF liquidate, Liquidatable
  <2>. QED  BY <2>1, CountsLeft
<1>5. ASSUME NEW t \in Traders, NEW w \in WitnessLists(t), auto_deleverage(t, w)
      PROVE  CountsExact'
  <2>1. IsOpen(t) /\ LeaveBook(t) /\ CloseAccounts(t, 0)
    BY <1>5 DEF auto_deleverage
  <2>. QED  BY <2>1, CountsLeft
<1>6. ASSUME UNCHANGED <<position, count>>
      PROVE  CountsExact'
  BY <1>6 DEF CountsExact, OpenOn, IsOpen
<1>. QED  BY <1>1, <1>2, <1>3, <1>4, <1>5, <1>6, PositionsKept, Instructions
          DEF QuietSteps

(* The counts are exact, whichever of five handlers a position came or     *)
(* went by, and no order of openings gets past the cap.                    *)
THEOREM CountsCorrect == Spec => []CountsExact
<1>1. Init => CountsExact
  <2>1. Init => \A s \in Sides : OpenOn(s) = {}
    BY DEF Init, OpenOn, IsOpen, NoPosition
  <2>2. Cardinality({}) = 0 /\ 0 <= MAX_POSITIONS
    BY FS_EmptySet, MarketAssumption
  <2>3. Init => \A s \in Sides : count[s] = 0
    BY DEF Init
  <2>. QED  BY <2>1, <2>2, <2>3 DEF CountsExact
<1>2. TypeOK /\ CountsExact /\ [Next]_vars => CountsExact'
  BY CountsStep
<1>. QED  BY <1>1, <1>2, TypeCorrect, PTL DEF Spec

(* As many distinct witnesses as there are other positions on the side are *)
(* all of them.                                                            *)
LEMMA WitnessesComplete ==
  ASSUME TypeOK, CountsExact, NEW t \in Traders, NEW w \in WitnessLists(t),
         auto_deleverage(t, w)
  PROVE  {w[i] : i \in DOMAIN w} = OpenOn(Side(position[t].size)) \ {t}
<1>. DEFINE side   == Side(position[t].size)
            others == OpenOn(side) \ {t}
            named  == {w[i] : i \in DOMAIN w}
<1>1. IsOpen(t) /\ DOMAIN w = 1..(count[side] - 1) /\ ProvesHighestPnl(t, w)
  BY DEF auto_deleverage
<1>2. t \in OpenOn(side) /\ side \in Sides
  BY <1>1 DEF OpenOn, Side, Sides
<1>3. /\ IsFiniteSet(others) /\ Cardinality(others) = count[side] - 1
      /\ Cardinality(others) \in Nat
  <2>1. IsFiniteSet(others) /\ Cardinality(others) = Cardinality(OpenOn(side)) - 1
    BY <1>2, OpenOnFinite, FS_RemoveElement
  <2>2. Cardinality(others) \in Nat
    BY <2>1, FS_CardinalityType
  <2>. QED  BY <1>2, <2>1, <2>2 DEF CountsExact
<1>4. Cardinality(DOMAIN w) = count[side] - 1
  <2>1. count[side] - 1 \in Nat
    BY <1>3
  <2>. QED  BY <1>1, <2>1, FS_Interval
<1>5. named \subseteq others
  BY <1>1 DEF WitnessLists, ProvesHighestPnl, OpenOn
<1>6. Cardinality(named) = Cardinality(others)
  BY <1>1, <1>3, <1>4 DEF ProvesHighestPnl
<1>7. named = others
  <2>. HIDE DEF others, named
  <2>1. named \in SUBSET others
    BY <1>5
  <2>. QED  BY <1>3, <1>6, <2>1, FS_Subset
<1>. QED  BY <1>7

(* No position of the side escapes the comparison that deleveraging rests  *)
(* on, whatever list the caller passes.                                    *)
THEOREM ADLComparison == Spec => ADLComparesAll
<1>1. TypeOK /\ CountsExact =>
        \A t \in Traders : \A w \in WitnessLists(t) :
          auto_deleverage(t, w) =>
            {w[i] : i \in DOMAIN w} = OpenOn(Side(position[t].size)) \ {t}
  BY WitnessesComplete
<1>. QED  BY <1>1, TypeCorrect, CountsCorrect, PTL DEF ADLComparesAll

-----------------------------------------------------------------------------
(* Entering.                                                               *)

(* The one instruction that gives a position to a trader who has none. *)
LEMMA EntersByOpening ==
  ASSUME TypeOK, [Next]_vars, NEW t \in Traders, ~IsOpen(t), IsOpen(t)'
  PROVE  \E s \in Sizes, m \in Amounts : open_position(t, s, m)
<1>1. position[t]' # position[t] /\ position[t].size = 0 /\ position[t]'.size # 0
  BY DEF IsOpen
<1>2. ASSUME NEW u \in Traders, NEW d \in Sizes, modify_position(u, d)
      PROVE  FALSE
  <2>. DEFINE mark == MarkAt(ResizedOi(u, position[u].size + d))
              entry ==
                IF Abs(position[u].size + d) > Abs(position[u].size)
                THEN BlendEntry(Abs(position[u].size), position[u].entry_mark, Abs(d), mark)
                ELSE position[u].entry_mark
              p == [size |-> position[u].size + d, entry_mark |-> entry,
                    snapshot |-> cum["long"]]
  <2>1. position' = [position EXCEPT ![u] = p] /\ position[u].size # 0
    BY <1>2 DEF modify_position, IsOpen
  <2>. HIDE DEF p
  <2>. QED  BY <1>1, <2>1 DEF TypeOK
<1>3. ASSUME NEW u \in Traders, NEW r, CloseAccounts(u, r)
      PROVE  FALSE
  BY <1>1, <1>3 DEF CloseAccounts, TypeOK, NoPosition
<1>4. ASSUME NEW u \in Traders, NEW s \in Sizes, NEW m \in Amounts, open_position(u, s, m)
      PROVE  u = t
  <2>. DEFINE mark == MarkAt([oi EXCEPT ![Side(s)] = @ + Abs(s)])
              p == [size |-> s, entry_mark |-> mark, snapshot |-> cum[Side(s)]]
  <2>1. position' = [position EXCEPT ![u] = p]
    BY <1>4 DEF open_position
  <2>. HIDE DEF p
  <2>. QED  BY <1>1, <2>1 DEF TypeOK
<1>5. ASSUME NEW u \in Traders, close_position(u) \/ \E v \in Users : liquidate(u, v)
      PROVE  FALSE
  BY <1>3, <1>5 DEF close_position, liquidate
<1>6. ASSUME NEW u \in Traders, NEW w \in WitnessLists(u), auto_deleverage(u, w)
      PROVE  FALSE
  BY <1>3, <1>6 DEF auto_deleverage
<1>7. ASSUME UNCHANGED position
      PROVE  FALSE
  BY <1>1, <1>7
<1>8. ~QuietSteps
  BY <1>7, PositionsKept
<1>. QED  BY Instructions, <1>2, <1>4, <1>5, <1>6, <1>8 DEF QuietSteps

(* Closed at once, the position is priced without it: at a mark no better  *)
(* than the one it was opened at.                                          *)
LEMMA EntryNeverGains ==
  ASSUME TypeOK, TypeOK', NEW t \in Traders, NEW size \in Sizes, NEW margin \in Amounts,
         open_position(t, size, margin)
  PROVE  PnlAt(t, CloseMark(t))' \in Int /\ PnlAt(t, CloseMark(t))' <= 0
<1>. DEFINE side   == Side(size)
            new_oi == [oi EXCEPT ![side] = @ + Abs(size)]
            entry  == MarkAt(new_oi)
            p      == [size |-> size, entry_mark |-> entry, snapshot |-> cum[side]]
<1>1. /\ size \in Int \ {0} /\ Abs(size) \in Nat /\ side \in Sides
      /\ oi \in [Sides -> Nat]
  BY InputAssumption DEF open_position, Abs, Side, Sides, TypeOK
<1>2. /\ oi' = new_oi /\ position' = [position EXCEPT ![t] = p]
      /\ UNCHANGED <<index, risk>>
  BY DEF open_position, admin, external
<1>3. new_oi \in [Sides -> Nat] /\ new_oi[side] = oi[side] + Abs(size)
  BY <1>1
<1>. HIDE DEF new_oi
<1>4. entry \in Nat \ {0}
  <2>1. entry \in Int
    BY <1>3, MarkAtType
  <2>2. entry > 0
    BY DEF open_position, new_oi
  <2>. HIDE DEF entry
  <2>. QED  BY <2>1, <2>2
<1>5. MarkAt(oi) \in Int
  BY <1>1, MarkAtType
<1>6. CloseMark(t)' = MarkAt(oi)
  <2>1. position'[t] = p /\ p.size = size
    BY <1>2 DEF TypeOK
  <2>2. ResizedOi(t, 0)' = [new_oi EXCEPT ![side] = @ - Abs(size) + Abs(0)]
    BY <1>2, <2>1 DEF ResizedOi, Notional
  <2>3. ResizedOi(t, 0)' = oi
    <3>1. Abs(0) = 0
      BY DEF Abs
    <3>2. oi[side] + Abs(size) - Abs(size) + 0 = oi[side]
      BY <1>1
    <3>. QED  BY <1>1, <2>2, <3>1, <3>2 DEF new_oi
  <2>. QED  BY <1>2, <2>3 DEF CloseMark, MarkAt
<1>7. size * (MarkAt(oi) - entry) \in Int /\ size * (MarkAt(oi) - entry) <= 0
  <2>1. /\ index.value \in Nat /\ risk.slippage \in Nat /\ OI_FLOOR \in Nat \ {0}
        /\ oi["long"] \in Nat /\ oi["short"] \in Nat
    BY <1>1, RiskInForce, MarketAssumption DEF TypeOK, Sides
  <2>2. CASE size > 0
    <3>1. /\ new_oi["long"] = oi["long"] + Abs(size) /\ new_oi["short"] = oi["short"]
      BY <1>1, <2>2 DEF new_oi, Side, Sides
    <3>2. MarkAt(oi) <= entry
      BY <1>1, <2>1, <3>1, MarkAgainstEntrant DEF MarkAt
    <3>. DEFINE fall == MarkAt(oi) - entry
    <3>3. fall \in Int /\ fall <= 0
      BY <1>4, <1>5, <3>2
    <3>. HIDE DEF fall
    <3>4. size * fall \in Int /\ size * fall <= 0
      BY <1>1, <2>2, <3>3
    <3>. QED  BY <3>4 DEF fall
  <2>3. CASE size < 0
    <3>1. /\ new_oi["short"] = oi["short"] + Abs(size) /\ new_oi["long"] = oi["long"]
      BY <1>1, <2>3 DEF new_oi, Side, Sides
    <3>2. entry <= MarkAt(oi)
      BY <1>1, <2>1, <3>1, MarkAgainstEntrant DEF MarkAt
    <3>. DEFINE rise == MarkAt(oi) - entry
    <3>3. rise \in Nat
      BY <1>4, <1>5, <3>2
    <3>. HIDE DEF rise
    <3>4. size * rise \in Int /\ size * rise <= 0
      BY <1>1, <2>3, <3>3
    <3>. QED  BY <3>4 DEF rise
  <2>. QED  BY <1>1, <2>2, <2>3
<1>8. PnlAt(t, CloseMark(t))' = TruncDiv(size * (MarkAt(oi) - entry), entry)
  <2>1. position'[t] = p /\ p.size = size /\ p.entry_mark = entry
    BY <1>2 DEF TypeOK
  <2>. QED  BY <1>6, <2>1 DEF PnlAt, PricePnl
<1>. HIDE DEF entry
<1>9. /\ TruncDiv(size * (MarkAt(oi) - entry), entry) \in Int
      /\ TruncDiv(size * (MarkAt(oi) - entry), entry) <= 0
  BY <1>4, <1>7, TruncDivType, TruncSign
<1>. QED  BY <1>8, <1>9

(* Funding is owed from the entry on: the snapshot is the accumulator all  *)
(* settlements read, on whichever side the position is, while the two are  *)
(* equal.                                                                  *)
LEMMA EntryOwesNothing ==
  ASSUME TypeOK, FundingSymmetric, NEW t \in Traders, NEW size \in Sizes,
         NEW margin \in Amounts, open_position(t, size, margin)
  PROVE  FundingOwed(t)' = 0
<1>. DEFINE mark == MarkAt([oi EXCEPT ![Side(size)] = @ + Abs(size)])
            p == [size |-> size, entry_mark |-> mark, snapshot |-> cum[Side(size)]]
<1>1. position' = [position EXCEPT ![t] = p] /\ UNCHANGED cum /\ size \in Int
  BY InputAssumption DEF open_position, funding
<1>2. position'[t].size = size /\ position'[t].snapshot = cum[Side(size)]
  BY <1>1 DEF TypeOK
<1>3. cum[Side(size)] = cum["long"] /\ cum["long"] \in Int
  BY DEF FundingSymmetric, Side, TypeOK, Sides
<1>4. FundingOwed(t)' = TruncDiv(size * (cum["long"] - cum["long"]), SCALE)
  BY <1>1, <1>2, <1>3 DEF FundingOwed, position_funding_owed
<1>5. size * (cum["long"] - cum["long"]) = 0
  <2>1. cum["long"] - cum["long"] = 0
    BY <1>3
  <2>. QED  BY <1>1, <2>1
<1>6. TruncDiv(0, SCALE) = 0
  BY ScaleAssumption DEF TruncDiv
<1>. QED  BY <1>4, <1>5, <1>6

(* Whoever else is in the market and wherever its funding stands, to open  *)
(* a position and close it costs at least the two fees.                    *)
THEOREM EntryCosts == Spec => NoGainByEntering
<1>1. ASSUME TypeOK, TypeOK', FundingSymmetric, [Next]_vars,
             NEW t \in Traders, ~IsOpen(t), IsOpen(t)'
      PROVE  wallet[t]' + CloseEquity(t)' <= wallet[t] - 2 * CloseFee(t)'
  <2>1. PICK size \in Sizes, margin \in Amounts : open_position(t, size, margin)
    BY <1>1, EntersByOpening
  <2>. DEFINE fee == Share(Abs(size), TAKER_FEE)
  <2>2. /\ PnlAt(t, CloseMark(t))' \in Int /\ PnlAt(t, CloseMark(t))' <= 0
        /\ FundingOwed(t)' = 0
    BY <1>1, <2>1, EntryNeverGains, EntryOwesNothing
  <2>3. CloseFee(t)' = fee /\ fee \in Nat /\ TreasuryShare(fee) \in Nat
    <3>1. position'[t].size = size /\ Abs(size) \in Nat
      BY <1>1, <2>1, InputAssumption DEF open_position, TypeOK, Abs
    <3>2. fee \in Nat /\ TreasuryShare(fee) \in 0..fee
      BY <3>1, ShareType, TreasuryShareBound, MarketAssumption
    <3>. HIDE DEF fee
    <3>3. TreasuryShare(fee) \in Nat
      BY <3>2
    <3>4. CloseFee(t)' = fee
      BY <3>1 DEF CloseFee, Notional, fee
    <3>. QED  BY <3>2, <3>3, <3>4
  <2>4. wallet[t]' = wallet[t] - margin - fee /\ margin_vault[t]' = margin
    <3>1. /\ wallet' = [wallet EXCEPT ![t] = @ - margin - fee]
          /\ margin_vault' = [margin_vault EXCEPT ![t] = margin]
      BY <2>1 DEF open_position
    <3>. HIDE DEF fee
    <3>2. t \in Users
      BY UsersAssumption
    <3>. QED  BY <1>1, <3>1, <3>2 DEF TypeOK
  <2>5. wallet[t] \in Nat /\ margin \in Nat
    BY <1>1, UsersAssumption, InputAssumption DEF TypeOK
  <2>6. CloseEquity(t)' = margin_vault[t]' - TreasuryShare(CloseFee(t))'
          + (PnlAt(t, CloseMark(t))' - FundingOwed(t)'
             - (CloseFee(t)' - TreasuryShare(CloseFee(t))'))
    BY DEF CloseEquity, CloseMargin, ClosePnl
  <2>. HIDE DEF fee
  <2>. QED  BY <2>2, <2>3, <2>4, <2>5, <2>6
<1>2. ASSUME TypeOK, TypeOK', FundingSymmetric, [Next]_vars
      PROVE  \A t \in Traders : ~IsOpen(t) /\ IsOpen(t)' =>
               wallet[t]' + CloseEquity(t)' <= wallet[t] - 2 * CloseFee(t)'
  BY <1>1, <1>2
<1>. QED  BY <1>2, TypeCorrect, FundingSymmetryHolds, PTL DEF NoGainByEntering, Spec

-----------------------------------------------------------------------------
(* Growing.                                                                *)

(* The one instruction that changes a position and leaves it open. *)
LEMMA GrowsByModifying ==
  ASSUME TypeOK, [Next]_vars, NEW t \in Traders,
         IsOpen(t), IsOpen(t)', position[t]'.size # position[t].size
  PROVE  \E d \in Sizes : modify_position(t, d)
<1>1. position[t]' # position[t] /\ position[t].size # 0 /\ position[t]'.size # 0
  BY DEF IsOpen
<1>2. ASSUME NEW u \in Traders, NEW d \in Sizes, modify_position(u, d)
      PROVE  u = t
  <2>. DEFINE mark == MarkAt(ResizedOi(u, position[u].size + d))
              entry ==
                IF Abs(position[u].size + d) > Abs(position[u].size)
                THEN BlendEntry(Abs(position[u].size), position[u].entry_mark, Abs(d), mark)
                ELSE position[u].entry_mark
              p == [size |-> position[u].size + d, entry_mark |-> entry,
                    snapshot |-> cum["long"]]
  <2>1. position' = [position EXCEPT ![u] = p]
    BY <1>2 DEF modify_position
  <2>. HIDE DEF p
  <2>. QED  BY <1>1, <2>1 DEF TypeOK
<1>3. ASSUME NEW u \in Traders, NEW r, CloseAccounts(u, r)
      PROVE  FALSE
  BY <1>1, <1>3 DEF CloseAccounts, TypeOK, NoPosition
<1>4. ASSUME NEW u \in Traders, NEW s \in Sizes, NEW m \in Amounts, open_position(u, s, m)
      PROVE  FALSE
  <2>. DEFINE mark == MarkAt([oi EXCEPT ![Side(s)] = @ + Abs(s)])
              p == [size |-> s, entry_mark |-> mark, snapshot |-> cum[Side(s)]]
  <2>1. position' = [position EXCEPT ![u] = p] /\ position[u].size = 0
    BY <1>4 DEF open_position, IsOpen
  <2>. HIDE DEF p
  <2>. QED  BY <1>1, <2>1 DEF TypeOK
<1>5. ASSUME NEW u \in Traders, close_position(u) \/ \E v \in Users : liquidate(u, v)
      PROVE  FALSE
  BY <1>3, <1>5 DEF close_position, liquidate
<1>6. ASSUME NEW u \in Traders, NEW w \in WitnessLists(u), auto_deleverage(u, w)
      PROVE  FALSE
  BY <1>3, <1>6 DEF auto_deleverage
<1>7. ASSUME UNCHANGED position
      PROVE  FALSE
  BY <1>1, <1>7
<1>8. ~QuietSteps
  BY <1>7, PositionsKept
<1>. QED  BY Instructions, <1>2, <1>4, <1>5, <1>6, <1>8 DEF QuietSteps

(* A long that grows is priced at the mark it would be closed at, which    *)
(* its own size does not move, or above it.                                *)
LEMMA GrownLong ==
  ASSUME TypeOK, NEW t \in Traders, NEW d \in Sizes, modify_position(t, d),
         position[t].size > 0, d > 0
  PROVE  LET s == position[t].size
             E == position[t].entry_mark
             M == MarkAt(ResizedOi(t, s + d))
             F == BlendEntry(s, E, d, M)
         IN  /\ position' = [position EXCEPT ![t] =
                  [size |-> s + d, entry_mark |-> F, snapshot |-> cum["long"]]]
             /\ margin_vault' = [margin_vault EXCEPT ![t] = @ - FundingOwed(t)]
             /\ M \in Nat \ {0} /\ F \in Nat \ {0}
             /\ s * E + d * M <= (s + d) * (F + 1)
             /\ CloseMark(t) \in Nat /\ CloseMark(t) <= M
             /\ CloseMark(t)' = CloseMark(t)
<1>. DEFINE s == position[t].size
            E == position[t].entry_mark
            n == s + d
            M == MarkAt(ResizedOi(t, n))
            F == BlendEntry(s, E, d, M)
<1>1. /\ s \in Nat \ {0} /\ E \in Nat \ {0} /\ d \in Nat \ {0} /\ n \in Nat \ {0}
      /\ Abs(n) = n /\ Abs(s) = s /\ Abs(d) = d /\ n > s
      /\ Side(s) = "long" /\ Notional(t) = s
  <2>1. d \in Int /\ s \in Int /\ E \in Nat \ {0}
    BY InputAssumption, OpenPosition DEF modify_position
  <2>. QED  BY <2>1 DEF Abs, Side, Notional
<1>2. /\ position' = [position EXCEPT ![t] =
           [size |-> n, entry_mark |-> F, snapshot |-> cum["long"]]]
      /\ oi' = ResizedOi(t, n) /\ UNCHANGED <<index, risk>>
      /\ oi["long"] >= s /\ M > 0
  BY <1>1 DEF modify_position, admin, external
<1>3. margin_vault' = [margin_vault EXCEPT ![t] = @ - FundingOwed(t)]
  <2>1. margin_vault[t] - FundingOwed(t) + 0 = margin_vault[t] - FundingOwed(t)
    <3>1. margin_vault[t] \in Int /\ FundingOwed(t) \in Int
      BY OpenPosition DEF modify_position, TypeOK
    <3>. QED  BY <3>1
  <2>. QED  BY <1>1, <2>1 DEF modify_position
<1>4. /\ oi["long"] \in Nat /\ oi["short"] \in Nat /\ oi["long"] - s \in Nat
      /\ ResizedOi(t, n) = [oi EXCEPT !["long"] = @ - s + n]
      /\ ResizedOi(t, 0) = [oi EXCEPT !["long"] = @ - s]
      /\ ResizedOi(t, 0)' = ResizedOi(t, 0)
  <2>1. /\ oi \in [Sides -> Nat] /\ oi["long"] \in Nat /\ oi["short"] \in Nat
        /\ oi["long"] - s \in Nat /\ "long" \in Sides
    BY <1>1, <1>2 DEF TypeOK, Sides
  <2>2. /\ ResizedOi(t, n) = [oi EXCEPT !["long"] = @ - s + n]
        /\ ResizedOi(t, 0) = [oi EXCEPT !["long"] = @ - s + 0]
    <3>1. Abs(0) = 0
      BY DEF Abs
    <3>. QED  BY <1>1, <3>1 DEF ResizedOi
  <2>3. position'[t].size = n /\ oi'["long"] = oi["long"] - s + n
    BY <1>2, <2>1, <2>2 DEF TypeOK
  <2>4. ResizedOi(t, 0)' = [oi' EXCEPT !["long"] = @ - n + 0]
    <3>1. Abs(0) = 0 /\ Side(n) = "long"
      BY <1>1 DEF Abs, Side
    <3>. QED  BY <1>1, <2>3, <3>1 DEF ResizedOi, Notional
  <2>. DEFINE rest == oi["long"] - s
  <2>5. rest \in Nat /\ rest + n - n + 0 = rest /\ rest + 0 = rest
    BY <1>1, <2>1
  <2>. HIDE DEF rest, n
  <2>6. ResizedOi(t, 0) = [oi EXCEPT !["long"] = rest]
    BY <2>2, <2>5 DEF rest
  <2>7. oi' = [oi EXCEPT !["long"] = rest + n]
    BY <1>2, <2>2 DEF rest
  <2>8. ResizedOi(t, 0)' = [oi' EXCEPT !["long"] = rest]
    <3>1. oi'["long"] = rest + n
      BY <2>3 DEF rest
    <3>2. oi'["long"] - n + 0 = rest
      BY <1>1, <2>5, <3>1
    <3>. QED  BY <2>4, <3>2
  <2>9. ResizedOi(t, 0)' = ResizedOi(t, 0)
    BY <2>1, <2>6, <2>7, <2>8
  <2>. QED  BY <2>1, <2>2, <2>6, <2>9 DEF rest
<1>5. CloseMark(t)' = CloseMark(t)
  BY <1>2, <1>4 DEF CloseMark, MarkAt
<1>6. /\ M \in Nat \ {0} /\ CloseMark(t) \in Nat /\ CloseMark(t) <= M
  <2>. DEFINE others == oi["long"] - s
              mark(l) == compute_mark_price(index.value, l, oi["short"], OI_FLOOR, risk.slippage)
  <2>1. M = mark(others + n) /\ CloseMark(t) = mark(others)
    <3>1. others + n = oi["long"] - s + n
      OBVIOUS
    <3>2. /\ ResizedOi(t, n)["long"] = oi["long"] - s + n
          /\ ResizedOi(t, n)["short"] = oi["short"]
          /\ ResizedOi(t, 0)["long"] = oi["long"] - s
          /\ ResizedOi(t, 0)["short"] = oi["short"]
      BY <1>4 DEF TypeOK, Sides
    <3>. QED  BY <3>1, <3>2 DEF MarkAt, CloseMark
  <2>2. /\ index.value \in Nat \ {0} /\ risk.slippage \in Nat /\ risk.slippage <= SCALE
        /\ others \in Nat /\ OI_FLOOR \in Nat \ {0}
    <3>1. risk.slippage \in 0..SCALE
      BY RiskInForce DEF RiskParams
    <3>2. index.value \in Nat \ {0}
      BY DEF TypeOK, modify_position, OracleUsable
    <3>. QED  BY <1>4, <3>1, <3>2, ScaleAssumption, MarketAssumption
  <2>. HIDE DEF others
  <2>3. mark(others) \in Int /\ mark(others + n) \in Int /\ mark(others) >= 0
    <3>1. others + n \in Nat
      BY <1>1, <2>2
    <3>. QED  BY <1>4, <2>2, <3>1, MarkType, MarkPositive
  <2>4. mark(others) <= mark(others + n)
    BY <1>1, <1>4, <2>2, MarkAgainstEntrant
  <2>. QED  BY <1>2, <2>1, <2>3, <2>4
<1>. HIDE DEF M
<1>7. F \in Nat \ {0} /\ s * E + d * M <= n * (F + 1)
  <2>1. F \in Nat \ {0}
    BY <1>1, <1>6, BlendEntryType
  <2>. DEFINE w == s * E + d * M
  <2>2. w \in Nat
    BY <1>1, <1>6
  <2>. HIDE DEF w, n
  <2>3. w < n * ((w \div n) + 1)
    BY <1>1, <2>2
  <2>4. F = w \div n
    BY DEF BlendEntry, w, n
  <2>5. n * (F + 1) \in Int
    BY <1>1, <2>1
  <2>. QED  BY <2>1, <2>2, <2>3, <2>4, <2>5 DEF w
<1>. QED  BY <1>2, <1>3, <1>5, <1>6, <1>7 DEF M

(* In no market, at no funding and no margin, is a long worth more for     *)
(* having grown, but for a unit and the rounding of its entry price.       *)
THEOREM GrowthCosts == Spec => GrowingLongGainsNothing
<1>1. ASSUME TypeOK, TypeOK', [Next]_vars, NEW t \in Traders,
             position[t].size \in 1..(position[t]'.size - 1)
      PROVE  CloseEquity(t)' <=
               CloseEquity(t) - (CloseFee(t)' - CloseFee(t))
               + (1 + (position[t]'.size * CloseMark(t)')
                        \div (position[t]'.entry_mark * position[t]'.entry_mark))
  <2>. DEFINE s == position[t].size
              E == position[t].entry_mark
              n == position'[t].size
              F == position'[t].entry_mark
              P == CloseMark(t)
  <2>1. s \in Int /\ n \in Int
    BY <1>1 DEF TypeOK, Positions, NoPosition
  <2>2. IsOpen(t) /\ IsOpen(t)' /\ n # s /\ s > 0 /\ s < n
    BY <1>1, <2>1 DEF IsOpen
  <2>3. PICK d \in Sizes : modify_position(t, d)
    BY <1>1, <2>2, GrowsByModifying
  <2>4. d \in Int /\ n = s + d /\ d > 0
    <3>. DEFINE entry ==
                  IF Abs(s + d) > Abs(s)
                  THEN BlendEntry(Abs(s), E, Abs(d), MarkAt(ResizedOi(t, s + d)))
                  ELSE E
                p == [size |-> s + d, entry_mark |-> entry, snapshot |-> cum["long"]]
    <3>1. position' = [position EXCEPT ![t] = p]
      BY <2>3 DEF modify_position
    <3>2. position'[t] = p
      <4>. HIDE DEF p
      <4>. QED  BY <1>1, <3>1 DEF TypeOK
    <3>3. n = s + d
      BY <3>2
    <3>4. d \in Int
      BY InputAssumption
    <3>. QED  BY <2>1, <2>2, <3>3, <3>4
  <2>. DEFINE M == MarkAt(ResizedOi(t, s + d))
  <2>5. /\ position'[t] = [size |-> s + d, entry_mark |-> BlendEntry(s, E, d, M),
                           snapshot |-> cum["long"]]
        /\ margin_vault'[t] = margin_vault[t] - FundingOwed(t)
        /\ M \in Nat \ {0} /\ F \in Nat \ {0}
        /\ s * E + d * M <= (s + d) * (F + 1)
        /\ P \in Nat /\ P <= M /\ P' = P
    BY <1>1, <2>2, <2>3, <2>4, GrownLong DEF TypeOK
  <2>6. s \in Nat \ {0} /\ d \in Nat \ {0} /\ E \in Nat \ {0}
    BY <1>1, <2>1, <2>2, <2>4, OpenPosition
  <2>7. PnlAt(t, P)' <= PnlAt(t, P) + 1 + (n * P') \div (F * F)
    <3>1. PricePnl(s + d, F, P) <= PricePnl(s, E, P) + 1 + ((s + d) * P) \div (F * F)
      <4>. HIDE DEF s, E, n, F, P, M
      <4>. QED  BY <2>5, <2>6, GrownPnl
    <3>2. PnlAt(t, P)' = PricePnl(n, F, P')
      BY DEF PnlAt
    <3>3. PnlAt(t, P) = PricePnl(s, E, P)
      BY DEF PnlAt
    <3>. HIDE DEF P
    <3>. QED  BY <2>4, <2>5, <3>1, <3>2, <3>3
  <2>8. FundingOwed(t)' = 0
    <3>1. cum["long"] \in Int /\ cum' = cum
      BY <1>1, <2>3 DEF TypeOK, Sides, modify_position, funding
    <3>2. FundingOwed(t)' = TruncDiv(n * (cum["long"] - cum["long"]), SCALE)
      BY <2>5, <3>1 DEF FundingOwed, position_funding_owed
    <3>3. n * (cum["long"] - cum["long"]) = 0
      <4>1. cum["long"] - cum["long"] = 0
        BY <3>1
      <4>. HIDE DEF n
      <4>. QED  BY <2>1, <4>1
    <3>4. TruncDiv(0, SCALE) = 0
      BY ScaleAssumption DEF TruncDiv
    <3>. QED  BY <3>2, <3>3, <3>4
  <2>9. /\ CloseFee(t) \in Int /\ TreasuryShare(CloseFee(t)) \in Int
        /\ PnlAt(t, P) \in Int /\ FundingOwed(t) \in Int /\ margin_vault[t] \in Int
    <3>1. PnlAt(t, P) \in Int /\ FundingOwed(t) \in Int
      BY <1>1, <2>2, <2>5, OpenPosition
    <3>2. CloseFee(t) \in Nat /\ TreasuryShare(CloseFee(t)) \in Nat
      BY <1>1, <2>2, <2>5, CloseType
    <3>. QED  BY <1>1, <3>1, <3>2 DEF TypeOK
  <2>10. /\ CloseFee(t)' \in Int /\ TreasuryShare(CloseFee(t))' \in Int
         /\ PnlAt(t, P)' \in Int /\ margin_vault[t]' \in Int
    <3>1. PnlAt(t, P)' \in Int
      <4>1. PricePnl(n, F, P) \in Int
        <5>. HIDE DEF n, F, P
        <5>. QED  BY <2>1, <2>5, PricePnlType
      <4>2. PnlAt(t, P)' = PricePnl(n, F, P')
        BY DEF PnlAt
      <4>. QED  BY <2>5, <4>1, <4>2
    <3>2. Notional(t)' \in Nat
      BY <2>1 DEF Notional, Abs
    <3>3. CloseFee(t)' \in Nat
      BY <3>2, ShareType, MarketAssumption DEF CloseFee
    <3>4. TreasuryShare(CloseFee(t)') \in 0..CloseFee(t)'
      BY <3>3, TreasuryShareBound
    <3>5. TreasuryShare(CloseFee(t)') \in Int
      BY <3>3, <3>4
    <3>. QED  BY <1>1, <3>1, <3>3, <3>5 DEF TypeOK
  <2>11. /\ CloseEquity(t) = margin_vault[t] - TreasuryShare(CloseFee(t))
              + (PnlAt(t, P) - FundingOwed(t) - (CloseFee(t) - TreasuryShare(CloseFee(t))))
         /\ CloseEquity(t)' = margin_vault[t]' - TreasuryShare(CloseFee(t))'
              + (PnlAt(t, P)' - FundingOwed(t)'
                   - (CloseFee(t)' - TreasuryShare(CloseFee(t))'))
    BY DEF CloseEquity, CloseMargin, ClosePnl
  <2>12. n * P' \in Nat /\ F * F \in Nat \ {0}
    <3>1. P' \in Nat /\ n \in Nat
      BY <2>1, <2>2, <2>5
    <3>. HIDE DEF P, n, F
    <3>. QED  BY <2>5, <3>1
  <2>13. (n * P') \div (F * F) \in Int
    <3>. DEFINE x == n * P'
                y == F * F
    <3>. HIDE DEF x, y
    <3>1. x \in Nat /\ y \in Nat \ {0}
      BY <2>12 DEF x, y
    <3>2. x \div y \in Int
      BY <3>1
    <3>. QED  BY <3>2 DEF x, y
  <2>. DEFINE rounding == (n * P') \div (F * F)
  <2>14. /\ CloseEquity(t)' <= CloseEquity(t) - (CloseFee(t)' - CloseFee(t)) + (1 + rounding)
    <3>1. rounding \in Int /\ PnlAt(t, P)' <= PnlAt(t, P) + 1 + rounding
      BY <2>7, <2>13
    <3>. HIDE DEF rounding, n, F, P
    <3>. QED  BY <2>5, <2>8, <2>9, <2>10, <2>11, <3>1
  <2>. QED  BY <2>14
<1>2. TypeOK /\ TypeOK' /\ [Next]_vars =>
        \A t \in Traders :
          LET grown    == position[t]'.size
              entry    == position[t]'.entry_mark
              rounding == 1 + (grown * CloseMark(t)') \div (entry * entry)
          IN  position[t].size \in 1..(grown - 1) =>
                CloseEquity(t)' <=
                  CloseEquity(t) - (CloseFee(t)' - CloseFee(t)) + rounding
  BY <1>1
<1>. QED  BY <1>2, TypeCorrect, PTL DEF GrowingLongGainsNothing, Spec

-----------------------------------------------------------------------------
(* Liquidation.                                                            *)

(* A penalty is split between what the vault holds and what it does not,   *)
(* so the parts paid out of it add up; only a top-up counted into the      *)
(* liquidator's part exceeds it, and there is one exactly when the vault   *)
(* is short of that part and insurance is not empty.                       *)
LEMMA TopUpBlocks ==
  ASSUME TypeOK, NEW t \in Traders, IsOpen(t)
  PROVE  LET liq_share == Share(Notional(t), PENALTY) \div 3
         IN  TransfersSucceed(t) <=>
               LiquidationSplit(t).margin >= liq_share \/ insurance.vault = 0
<1>. DEFINE s == LiquidationSplit(t)
            liq_share == Share(Notional(t), PENALTY) \div 3
            from_margin == Smaller(liq_share, s.margin)
<1>1. /\ s.flow \in Int /\ insurance.vault + s.flow >= 0 /\ insurance.vault \in Nat
      /\ s.margin \in Nat /\ s.topup \in Nat /\ s.to_insurance \in Nat /\ s.to_trader \in Nat
  BY LiquidationSplitType DEF TypeOK
<1>2. liq_share \in Nat
  <2>1. Share(Notional(t), PENALTY) \in Nat
    BY OpenPosition, ShareType, MarketAssumption
  <2>. QED  BY <2>1
<1>3. /\ s.topup = Smaller(liq_share - from_margin, insurance.vault)
      /\ s.liq_payout = from_margin + s.topup
      /\ s.to_trader = s.margin - from_margin - s.to_insurance
  BY DEF LiquidationSplit
<1>4. TransfersSucceed(t) <=>
        /\ insurance.vault + s.flow >= s.topup
        /\ s.margin >= s.liq_payout
        /\ s.margin - s.liq_payout >= s.to_insurance
        /\ s.margin - s.liq_payout - s.to_insurance >= s.to_trader
  BY DEF TransfersSucceed
<1>. HIDE DEF s, liq_share
<1>5. CASE s.margin >= liq_share
  <2>1. from_margin = liq_share /\ s.topup = 0
    BY <1>1, <1>2, <1>3, <1>5 DEF Smaller
  <2>. HIDE DEF from_margin
  <2>2. s.liq_payout = liq_share /\ s.to_trader = s.margin - liq_share - s.to_insurance
    BY <1>2, <1>3, <2>1
  <2>3. TransfersSucceed(t)
    BY <1>1, <1>2, <1>4, <1>5, <2>1, <2>2
  <2>. QED  BY <1>5, <2>3 DEF s, liq_share
<1>6. CASE s.margin < liq_share
  <2>1. from_margin = s.margin /\ s.topup = Smaller(liq_share - s.margin, insurance.vault)
    BY <1>1, <1>2, <1>3, <1>6 DEF Smaller
  <2>2. s.topup = 0 <=> insurance.vault = 0
    BY <1>1, <1>2, <1>6, <2>1 DEF Smaller
  <2>. HIDE DEF from_margin
  <2>3. s.liq_payout = s.margin + s.topup /\ s.to_trader = -s.to_insurance
    BY <1>1, <1>3, <2>1
  <2>4. TransfersSucceed(t) <=> s.topup = 0
    BY <1>1, <1>4, <2>3
  <2>. QED  BY <1>1, <1>2, <1>6, <2>2, <2>4 DEF s, liq_share
<1>. QED  BY <1>1, <1>2, <1>5, <1>6

(* For any parameters and positions: a liquidation that is due reverts     *)
(* because of the top-up and for no other reason.                          *)
THEOREM BlockedByTopUpOnly == Spec => []OnlyTopUpBlocksLiquidation
<1>1. TypeOK => OnlyTopUpBlocksLiquidation
  BY TopUpBlocks DEF OnlyTopUpBlocksLiquidation
<1>. QED  BY <1>1, TypeCorrect, PTL

-----------------------------------------------------------------------------
(* Open interest.                                                          *)

(* The sizes of the positions, as weights to be summed. *)
Notionals(book_of) == [t \in Traders |-> Abs(book_of[t].size)]

LEMMA NotionalSum ==
  \A S \in SUBSET Traders : MapThenSumSet(Notional, S) = SumOf(Notionals(position), S)
<1>. SUFFICES ASSUME NEW S \in SUBSET Traders
              PROVE  MapThenSumSet(Notional, S) = SumOf(Notionals(position), S)
  OBVIOUS
<1>. DEFINE w == Notionals(position)
            Is(g) == g = [s \in SUBSET S |->
                            IF s = {} THEN 0 ELSE Notional(Pick(s)) + g[s \ {Pick(s)}]]
            fold == CHOOSE g : Is(g)
<1>1. IsFiniteSet(S)
  BY UsersAssumption, FS_Subset
<1>2. ASSUME NEW g PROVE Is(g) <=> Adds(w, S, g)
  <2>1. ASSUME NEW s \in SUBSET S, s # {} PROVE Notional(Pick(s)) = w[Pick(s)]
    BY <2>1, PickIn DEF Notional, Notionals
  <2>. HIDE DEF w
  <2>. QED  BY <2>1 DEF Adds
<1>3. Is(fold)
  <2>1. \E g : Is(g)
    BY <1>1, <1>2, AddsExists
  <2>. HIDE DEF Is
  <2>. QED  BY <2>1
<1>4. fold[S] = SumOf(w, S)
  <2>. HIDE DEF fold, Is, w
  <2>1. Adds(w, S, fold) /\ S \in SUBSET S
    BY <1>2, <1>3
  <2>. QED  BY <1>1, <2>1, AddsIsSum
<1>5. MapThenSumSet(Notional, S) = fold[S]
  BY DEF MapThenSumSet, MapThenFoldSet, Pick
<1>. QED  BY <1>4, <1>5

LEMMA NotionalSumNext ==
  (\A S \in SUBSET Traders : MapThenSumSet(Notional, S) = SumOf(Notionals(position), S))'
BY NotionalSum, PTL

LEMMA NotionalsType ==
  ASSUME TypeOK
  PROVE  \A t \in Traders : Notionals(position)[t] \in Nat
<1>1. \A t \in Traders : position[t].size \in Int
  BY DEF TypeOK, Positions, NoPosition
<1>. QED  BY <1>1 DEF Notionals, Abs

(* The property in terms of those sums, before and after a step. *)
LEMMA InterestIs ==
  ASSUME NEW s \in Sides
  PROVE  MapThenSumSet(Notional, OpenOn(s)) = SumOf(Notionals(position), OpenOn(s))
  BY NotionalSum, OpenOnFinite

LEMMA InterestNext ==
  ASSUME \A s \in Sides : oi'[s] = SumOf(Notionals(position'), OpenOn(s)')
  PROVE  OpenInterestIsSum'
<1>1. ASSUME NEW s \in Sides
      PROVE  MapThenSumSet(Notional, OpenOn(s))' = SumOf(Notionals(position'), OpenOn(s)')
  <2>1. OpenOn(s)' \in SUBSET Traders
    BY DEF OpenOn
  <2>. QED  BY <2>1, NotionalSumNext DEF Notionals
<1>. QED  BY <1>1 DEF OpenInterestIsSum

(* A position that stays on its side moves the sum by its own change. *)
LEMMA InterestResized ==
  ASSUME TypeOK, TypeOK', OpenInterestIsSum, NEW t \in Traders, NEW p,
         IsOpen(t), p.size # 0, Side(p.size) = Side(position[t].size),
         position' = [position EXCEPT ![t] = p], oi' = ResizedOi(t, p.size)
  PROVE  OpenInterestIsSum'
<1>. DEFINE side == Side(position[t].size)
            v == Notionals(position')
            w == Notionals(position)
<1>1. /\ \A s \in Sides : OpenOn(s)' = OpenOn(s)
      /\ t \in OpenOn(side) /\ side \in Sides
      /\ \A s \in Sides : t \in OpenOn(s) => s = side
  BY DEF TypeOK, OpenOn, IsOpen, Side, Sides
<1>2. /\ \A u \in Traders : w[u] \in Nat /\ v[u] \in Nat
      /\ \A u \in Traders \ {t} : v[u] = w[u]
      /\ w[t] = Notional(t) /\ v[t] = Abs(p.size)
  <2>1. \A u \in Traders : v[u] \in Nat
    <3>1. \A u \in Traders : position'[u].size \in Int
      BY DEF TypeOK, Positions, NoPosition
    <3>. QED  BY <3>1 DEF Notionals, Abs
  <2>2. position'[t] = p /\ \A u \in Traders \ {t} : position'[u] = position[u]
    BY DEF TypeOK
  <2>. QED  BY <2>1, <2>2, NotionalsType DEF Notionals, Notional
<1>. HIDE DEF v, w
<1>3. SumOf(v, OpenOn(side)) = SumOf(w, OpenOn(side)) - Notional(t) + Abs(p.size)
  <2>1. \A u \in OpenOn(side) : v[u] \in Int /\ w[u] \in Int
    BY <1>2, OpenOnFinite
  <2>2. \A u \in OpenOn(side) \ {t} : v[u] = w[u]
    BY <1>2, OpenOnFinite
  <2>3. SumOf(v, OpenOn(side)) = SumOf(w, OpenOn(side)) - w[t] + v[t]
    <3>. HIDE DEF side
    <3>. QED  BY <1>1, <2>1, <2>2, OpenOnFinite, SumUpdate
  <2>. QED  BY <1>2, <2>3
<1>4. ASSUME NEW s \in Sides, s # side
      PROVE  SumOf(v, OpenOn(s)) = SumOf(w, OpenOn(s))
  <2>1. \A u \in OpenOn(s) : v[u] = w[u]
    BY <1>1, <1>2, <1>4, OpenOnFinite
  <2>. QED  BY <2>1, OpenOnFinite, SumSame
<1>5. \A s \in Sides : oi[s] = SumOf(w, OpenOn(s))
  BY InterestIs DEF OpenInterestIsSum, w
<1>6. ASSUME NEW s \in Sides
      PROVE  oi'[s] = SumOf(v, OpenOn(s)')
  <2>1. oi'[s] = IF s = side THEN oi[s] - Notional(t) + Abs(p.size) ELSE oi[s]
    BY DEF ResizedOi, TypeOK
  <2>. QED  BY <1>1, <1>3, <1>4, <1>5, <2>1
<1>. QED  BY <1>6, InterestNext DEF v

(* A position that enters adds its size to its side. *)
LEMMA InterestEntered ==
  ASSUME TypeOK, TypeOK', OpenInterestIsSum, NEW t \in Traders, NEW p, NEW side \in Sides,
         ~IsOpen(t), p.size # 0, Side(p.size) = side,
         position' = [position EXCEPT ![t] = p],
         oi' = [oi EXCEPT ![side] = @ + Abs(p.size)]
  PROVE  OpenInterestIsSum'
<1>. DEFINE v == Notionals(position')
            w == Notionals(position)
<1>1. /\ \A s \in Sides : OpenOn(s)' = IF s = side THEN OpenOn(s) \cup {t} ELSE OpenOn(s)
      /\ \A s \in Sides : t \notin OpenOn(s)
  BY DEF TypeOK, OpenOn, IsOpen
<1>2. /\ \A u \in Traders : w[u] \in Nat /\ v[u] \in Nat
      /\ \A u \in Traders \ {t} : v[u] = w[u]
      /\ v[t] = Abs(p.size)
  <2>1. \A u \in Traders : v[u] \in Nat
    <3>1. \A u \in Traders : position'[u].size \in Int
      BY DEF TypeOK, Positions, NoPosition
    <3>. QED  BY <3>1 DEF Notionals, Abs
  <2>2. position'[t] = p /\ \A u \in Traders \ {t} : position'[u] = position[u]
    BY DEF TypeOK
  <2>. QED  BY <2>1, <2>2, NotionalsType DEF Notionals
<1>. HIDE DEF v, w
<1>3. ASSUME NEW s \in Sides
      PROVE  SumOf(v, OpenOn(s)) = SumOf(w, OpenOn(s))
  <2>1. \A u \in OpenOn(s) : v[u] = w[u]
    BY <1>1, <1>2, OpenOnFinite
  <2>. QED  BY <2>1, OpenOnFinite, SumSame
<1>4. SumOf(v, OpenOn(side) \cup {t}) = SumOf(v, OpenOn(side)) + Abs(p.size)
  <2>. DEFINE S == OpenOn(side)
  <2>1. t \notin S /\ IsFiniteSet(S)
    BY <1>1, OpenOnFinite
  <2>2. \A u \in S \cup {t} : v[u] \in Int
    BY <1>2, OpenOnFinite
  <2>3. SumOf(v, S \cup {t}) = SumOf(v, S) + v[t]
    <3>. HIDE DEF S
    <3>. QED  BY <2>1, <2>2, SumAdd
  <2>. QED  BY <1>2, <2>3
<1>5. \A s \in Sides : oi[s] = SumOf(w, OpenOn(s))
  BY InterestIs DEF OpenInterestIsSum, w
<1>6. ASSUME NEW s \in Sides
      PROVE  oi'[s] = SumOf(v, OpenOn(s)')
  <2>1. oi'[s] = IF s = side THEN oi[s] + Abs(p.size) ELSE oi[s]
    BY DEF TypeOK
  <2>. QED  BY <1>1, <1>3, <1>4, <1>5, <2>1
<1>. QED  BY <1>6, InterestNext DEF v

(* The interest of a side covers each of its positions. *)
LEMMA InterestCovers ==
  ASSUME TypeOK, OpenInterestIsSum, NEW t \in Traders, IsOpen(t)
  PROVE  /\ Notional(t) <= oi[Side(position[t].size)]
         /\ SumOf(Notionals(position), OpenOn(Side(position[t].size)) \ {t})
              = oi[Side(position[t].size)] - Notional(t)
<1>. DEFINE side == Side(position[t].size)
            w == Notionals(position)
<1>1. t \in OpenOn(side) /\ side \in Sides
  BY DEF OpenOn, Side, Sides
<1>2. \A u \in OpenOn(side) : w[u] \in Nat /\ w[u] \in Int
  BY NotionalsType, OpenOnFinite
<1>3. w[t] = Notional(t)
  BY DEF Notionals, Notional
<1>. HIDE DEF w, side
<1>4. w[t] <= SumOf(w, OpenOn(side)) /\ SumOf(w, OpenOn(side)) = w[t] + SumOf(w, OpenOn(side) \ {t})
  BY <1>1, <1>2, OpenOnFinite, SumAtLeast, SumRemove
<1>5. SumOf(w, OpenOn(side) \ {t}) \in Int
  <2>1. IsFiniteSet(OpenOn(side) \ {t})
    BY OpenOnFinite, FS_RemoveElement
  <2>. QED  BY <1>2, <2>1, SumType
<1>6. oi[side] = SumOf(w, OpenOn(side))
  BY <1>1, InterestIs DEF OpenInterestIsSum, w
<1>7. w[t] \in Int
  BY <1>1, <1>2
<1>. QED  BY <1>3, <1>4, <1>5, <1>6, <1>7 DEF w, side

(* A position that leaves takes exactly its size along: the saturating     *)
(* subtraction never saturates.                                            *)
LEMMA InterestLeft ==
  ASSUME TypeOK, TypeOK', OpenInterestIsSum, NEW t \in Traders, NEW residual,
         IsOpen(t), CloseAccounts(t, residual), LeaveBook(t)
  PROVE  OpenInterestIsSum'
<1>. DEFINE side == Side(position[t].size)
            v == Notionals(position')
            w == Notionals(position)
<1>1. /\ \A s \in Sides : OpenOn(s)' = IF s = side THEN OpenOn(s) \ {t} ELSE OpenOn(s)
      /\ \A s \in Sides : s # side => t \notin OpenOn(s)
  BY DEF TypeOK, OpenOn, IsOpen, CloseAccounts, NoPosition
<1>2. \A u \in Traders \ {t} : v[u] = w[u]
  BY DEF Notionals, TypeOK, CloseAccounts
<1>3. ASSUME NEW s \in Sides
      PROVE  SumOf(v, OpenOn(s)') = SumOf(w, OpenOn(s)')
  <2>1. IsFiniteSet(OpenOn(s)') /\ OpenOn(s)' \subseteq Traders \ {t}
    <3>1. IsFiniteSet(OpenOn(s) \ {t})
      BY OpenOnFinite, FS_RemoveElement
    <3>. QED  BY <1>1, <3>1, OpenOnFinite
  <2>2. \A u \in OpenOn(s)' : v[u] = w[u]
    BY <1>2, <2>1
  <2>. HIDE DEF v, w
  <2>. QED  BY <2>1, <2>2, SumSame
<1>. HIDE DEF v, w
<1>4. \A s \in Sides : oi[s] = SumOf(w, OpenOn(s))
  BY InterestIs DEF OpenInterestIsSum, w
<1>5. /\ Notional(t) <= oi[side]
      /\ SumOf(w, OpenOn(side) \ {t}) = oi[side] - Notional(t)
  BY InterestCovers DEF w
<1>6. ASSUME NEW s \in Sides
      PROVE  oi'[s] = SumOf(v, OpenOn(s)')
  <2>1. oi'[s] = IF s = side THEN Monus(oi[s], Notional(t)) ELSE oi[s]
    BY DEF LeaveBook, TypeOK
  <2>2. Notional(t) \in Int /\ oi[s] \in Int
    BY OpenPosition DEF TypeOK
  <2>. QED  BY <1>1, <1>3, <1>4, <1>5, <2>1, <2>2 DEF Monus
<1>. QED  BY <1>6, InterestNext DEF v

LEMMA InterestStep ==
  ASSUME TypeOK, TypeOK', OpenInterestIsSum, [Next]_vars
  PROVE  OpenInterestIsSum'
<1>1. ASSUME NEW t \in Traders, NEW s \in Sizes, NEW m \in Amounts, open_position(t, s, m)
      PROVE  OpenInterestIsSum'
  <2>. DEFINE new_oi == [oi EXCEPT ![Side(s)] = @ + Abs(s)]
              p == [size |-> s, entry_mark |-> MarkAt(new_oi), snapshot |-> cum[Side(s)]]
  <2>1. /\ ~IsOpen(t) /\ s # 0
        /\ position' = [position EXCEPT ![t] = p]
        /\ oi' = [oi EXCEPT ![Side(s)] = @ + Abs(s)]
    BY <1>1 DEF open_position
  <2>2. p.size = s /\ Side(s) \in Sides
    BY DEF Side, Sides
  <2>. HIDE DEF p
  <2>. QED  BY <2>1, <2>2, InterestEntered
<1>2. ASSUME NEW t \in Traders, NEW d \in Sizes, modify_position(t, d)
      PROVE  OpenInterestIsSum'
  <2>. DEFINE mark == MarkAt(ResizedOi(t, position[t].size + d))
              entry ==
                IF Abs(position[t].size + d) > Abs(position[t].size)
                THEN BlendEntry(Abs(position[t].size), position[t].entry_mark, Abs(d), mark)
                ELSE position[t].entry_mark
              p == [size |-> position[t].size + d, entry_mark |-> entry,
                    snapshot |-> cum["long"]]
  <2>1. position' = [position EXCEPT ![t] = p] /\ p.size = position[t].size + d
    BY <1>2 DEF modify_position
  <2>. HIDE DEF p
  <2>2. /\ IsOpen(t) /\ position[t].size + d # 0
        /\ oi' = ResizedOi(t, position[t].size + d)
        /\ Side(position[t].size + d) = Side(position[t].size)
    BY <1>2 DEF modify_position
  <2>. QED  BY <2>1, <2>2, InterestResized
<1>3. ASSUME NEW t \in Traders, close_position(t)
      PROVE  OpenInterestIsSum'
  <2>1. IsOpen(t) /\ LeaveBook(t) /\ \E r : CloseAccounts(t, r)
    BY <1>3 DEF close_position, CanClose
  <2>. QED  BY <2>1, InterestLeft
<1>4. ASSUME NEW t \in Traders, NEW u \in Users, liquidate(t, u)
      PROVE  OpenInterestIsSum'
  <2>1. IsOpen(t) /\ LeaveBook(t) /\ \E r : CloseAccounts(t, r)
    BY <1>4 DEF liquidate, Liquidatable
  <2>. QED  BY <2>1, InterestLeft
<1>5. ASSUME NEW t \in Traders, NEW w \in WitnessLists(t), auto_deleverage(t, w)
      PROVE  OpenInterestIsSum'
  <2>1. IsOpen(t) /\ LeaveBook(t) /\ CloseAccounts(t, 0)
    BY <1>5 DEF auto_deleverage
  <2>. QED  BY <2>1, InterestLeft
<1>6. ASSUME UNCHANGED <<position, oi>>
      PROVE  OpenInterestIsSum'
  <2>1. \A s \in Sides : OpenOn(s)' = OpenOn(s)
    BY <1>6 DEF OpenOn, IsOpen
  <2>2. \A s \in Sides : oi'[s] = SumOf(Notionals(position'), OpenOn(s)')
    BY <1>6, <2>1, InterestIs DEF OpenInterestIsSum
  <2>. QED  BY <2>2, InterestNext
<1>. QED  BY <1>1, <1>2, <1>3, <1>4, <1>5, <1>6, PositionsKept, Instructions
          DEF QuietSteps

(* The open interest that prices every trade is the sum of the sizes of    *)
(* the positions of its side: what five handlers add and subtract, two of  *)
(* them saturating, never drifts from it, for any number of traders.       *)
THEOREM InterestCorrect == Spec => []OpenInterestIsSum
<1>1. Init => OpenInterestIsSum
  <2>. SUFFICES ASSUME Init PROVE OpenInterestIsSum
    OBVIOUS
  <2>1. \A s \in Sides : OpenOn(s) = {} /\ oi[s] = 0
    BY DEF Init, OpenOn, IsOpen, NoPosition
  <2>2. SumOf(Notionals(position), {}) = 0
    BY SumEmpty
  <2>. QED  BY <2>1, <2>2, InterestIs DEF OpenInterestIsSum
<1>. QED  BY <1>1, InterestStep, TypeInit, TypeStep, PTL DEF Spec

-----------------------------------------------------------------------------
(* Collateral.                                                             *)

(* An instruction that touches one account leaves the others covered. *)
LEMMA OthersCovered ==
  ASSUME TypeOK, CollateralCoversInitialMargin, NEW t \in Traders, NEW p, NEW m,
         position' = [position EXCEPT ![t] = p],
         margin_vault' = [margin_vault EXCEPT ![t] = m],
         p.size = 0 \/ \E r \in AllRisks : m >= Share(Abs(p.size), r.initial_margin)
  PROVE  CollateralCoversInitialMargin'
<1>1. ASSUME NEW u \in Traders, u # t
      PROVE  position'[u] = position[u] /\ margin_vault'[u] = margin_vault[u]
  BY <1>1 DEF TypeOK
<1>2. position'[t] = p /\ margin_vault'[t] = m
  BY DEF TypeOK
<1>. QED  BY <1>1, <1>2 DEF CollateralCoversInitialMargin, AllRisks, IsOpen, Notional

LEMMA AccountsClosedCovered ==
  ASSUME TypeOK, CollateralCoversInitialMargin, NEW t \in Traders, NEW residual,
         CloseAccounts(t, residual)
  PROVE  CollateralCoversInitialMargin'
  BY OthersCovered DEF CloseAccounts, NoPosition

LEMMA CollateralStep ==
  ASSUME TypeOK, CollateralCoversInitialMargin, [Next]_vars
  PROVE  CollateralCoversInitialMargin'
<1>0. risk \in AllRisks
  BY DEF TypeOK
<1>1. ASSUME NEW t \in Traders, NEW s \in Sizes, NEW m \in Amounts, open_position(t, s, m)
      PROVE  CollateralCoversInitialMargin'
  <2>. DEFINE new_oi == [oi EXCEPT ![Side(s)] = @ + Abs(s)]
              p == [size |-> s, entry_mark |-> MarkAt(new_oi), snapshot |-> cum[Side(s)]]
  <2>1. /\ m >= Share(Abs(s), risk.initial_margin)
        /\ position' = [position EXCEPT ![t] = p]
        /\ margin_vault' = [margin_vault EXCEPT ![t] = m]
    BY <1>1 DEF open_position, MeetsInitialMargin
  <2>2. p.size = s
    OBVIOUS
  <2>. HIDE DEF p
  <2>. QED  BY <1>0, <2>1, <2>2, OthersCovered
<1>2. ASSUME NEW t \in Traders, NEW d \in Sizes, modify_position(t, d)
      PROVE  CollateralCoversInitialMargin'
  <2>. DEFINE size  == position[t].size + d
              mark  == MarkAt(ResizedOi(t, size))
              grows == Abs(size) > Abs(position[t].size)
              entry == IF grows
                       THEN BlendEntry(Abs(position[t].size), position[t].entry_mark, Abs(d), mark)
                       ELSE position[t].entry_mark
              p == [size |-> size, entry_mark |-> entry, snapshot |-> cum["long"]]
              m == margin_vault[t] - FundingOwed(t)
                     + (IF grows THEN 0 ELSE Payable(Realized(t, d, mark)))
  <2>1. /\ m >= Share(Abs(size), risk.initial_margin)
        /\ position' = [position EXCEPT ![t] = p]
        /\ margin_vault' = [margin_vault EXCEPT ![t] = m]
    BY <1>2 DEF modify_position, MeetsInitialMargin
  <2>2. p.size = size
    OBVIOUS
  <2>. HIDE DEF p, m
  <2>. QED  BY <1>0, <2>1, <2>2, OthersCovered
<1>3. ASSUME NEW t \in Traders, NEW a \in Amounts, add_margin(t, a)
      PROVE  CollateralCoversInitialMargin'
  <2>1. /\ UNCHANGED position /\ a \in Nat
        /\ margin_vault' = [margin_vault EXCEPT ![t] = @ + a]
    BY <1>3, InputAssumption DEF add_margin
  <2>2. ASSUME NEW u \in Traders
        PROVE  margin_vault'[u] >= margin_vault[u] /\ margin_vault[u] \in Nat
                 /\ margin_vault'[u] \in Nat
    BY <2>1 DEF TypeOK
  <2>3. ASSUME NEW u \in Traders, IsOpen(u)
        PROVE  \E r \in AllRisks : margin_vault'[u] >= Share(Notional(u), r.initial_margin)
    <3>1. PICK r \in AllRisks : margin_vault[u] >= Share(Notional(u), r.initial_margin)
      BY <2>3 DEF CollateralCoversInitialMargin
    <3>2. Share(Notional(u), r.initial_margin) \in Nat
      BY <2>3, RiskAssumption, OpenPosition, ShareType DEF RiskParams
    <3>. QED  BY <2>2, <3>1, <3>2
  <2>. QED  BY <2>1, <2>3 DEF CollateralCoversInitialMargin, IsOpen, Notional, AllRisks
<1>4. ASSUME NEW t \in Traders, NEW a \in Amounts, withdraw_margin(t, a)
      PROVE  CollateralCoversInitialMargin'
  <2>1. /\ margin_vault[t] - a >= Share(Abs(position[t].size), risk.initial_margin)
        /\ position' = [position EXCEPT ![t] = position[t]]
        /\ margin_vault' = [margin_vault EXCEPT ![t] = margin_vault[t] - a]
    BY <1>4 DEF withdraw_margin, MeetsInitialMargin, Notional, TypeOK
  <2>. QED  BY <1>0, <2>1, OthersCovered
<1>5. ASSUME NEW t \in Traders, close_position(t)
      PROVE  CollateralCoversInitialMargin'
  BY <1>5, AccountsClosedCovered DEF close_position
<1>6. ASSUME NEW t \in Traders, NEW u \in Users, liquidate(t, u)
      PROVE  CollateralCoversInitialMargin'
  BY <1>6, AccountsClosedCovered DEF liquidate
<1>7. ASSUME NEW t \in Traders, NEW w \in WitnessLists(t), auto_deleverage(t, w)
      PROVE  CollateralCoversInitialMargin'
  BY <1>7, AccountsClosedCovered DEF auto_deleverage
<1>8. ASSUME UNCHANGED <<position, margin_vault>>
      PROVE  CollateralCoversInitialMargin'
  BY <1>8 DEF CollateralCoversInitialMargin, IsOpen, Notional, AllRisks
<1>9. ASSUME \/ settle_funding
             \/ \E u \in Users, a \in Amounts : deposit_insurance(u, a)
             \/ \E u \in Users, a \in Amounts : withdraw_treasury(u, a)
             \/ \E a \in Amounts : OracleSlash(a)
             \/ \E a \in Amounts : Donation(a)
             \/ \E d \in Durations : Elapse(d)
             \/ \E r \in RiskChoices : update_risk_params(r)
             \/ \E n \in 0..4 : set_phase(n)
             \/ UNCHANGED <<book, funding, risk, money, clock, unbooked>>
      PROVE  UNCHANGED <<position, margin_vault>>
  BY <1>9 DEF settle_funding, deposit_insurance, withdraw_treasury, OracleSlash, Donation,
              Elapse, update_risk_params, set_phase, book
<1>. QED  BY <1>1, <1>2, <1>3, <1>4, <1>5, <1>6, <1>7, <1>8, <1>9, Instructions

(* Whatever is done with an open position, and whatever parameters the     *)
(* admin installs meanwhile, its vault covers the initial margin of some   *)
(* admissible parameter set: no leverage beyond the loosest of them.       *)
THEOREM CollateralHolds == Spec => []CollateralCoversInitialMargin
<1>1. Init => CollateralCoversInitialMargin
  BY DEF Init, CollateralCoversInitialMargin, IsOpen, NoPosition
<1>2. TypeOK /\ CollateralCoversInitialMargin /\ [Next]_vars
        => CollateralCoversInitialMargin'
  BY CollateralStep
<1>. QED  BY <1>1, <1>2, TypeCorrect, PTL DEF Spec

-----------------------------------------------------------------------------
(* Leaving the market.                                                     *)

LEMMA SolventNow ==
  ASSUME MildParameters, TypeOK, OpenInterestIsSum, CollateralCoversInitialMargin
  PROVE  SolventCanClose
<1>. SUFFICES ASSUME NEW t \in Traders, IsOpen(t), ~paused.trading, OracleUsable,
                     CloseEquity(t) >= 0
              PROVE  CanClose(t)
  BY DEF SolventCanClose
<1>1. /\ oi[Side(position[t].size)] >= Notional(t)
      /\ ResizedOi(t, 0) \in [Sides -> Nat]
  <2>1. oi[Side(position[t].size)] >= Notional(t)
    BY InterestCovers, OpenPosition DEF TypeOK
  <2>. QED  BY <2>1, ResizedOiType
<1>2. CloseMark(t) \in Int /\ CloseMark(t) > 0
  <2>1. CloseMark(t) \in Int
    BY <1>1, MarkAtType DEF CloseMark
  <2>2. index.value \in Nat \ {0} /\ risk.slippage \in Nat /\ risk.slippage < SCALE
    BY RiskInForce DEF TypeOK, OracleUsable, MildParameters
  <2>3. ResizedOi(t, 0)["long"] \in Nat /\ ResizedOi(t, 0)["short"] \in Nat
    BY <1>1 DEF Sides
  <2>4. risk.slippage <= SCALE
    BY <2>2, ScaleAssumption
  <2>. QED  BY <2>1, <2>2, <2>3, <2>4, MarketAssumption, MarkPositive DEF CloseMark, MarkAt
<1>3. /\ CloseFee(t) \in Nat /\ TreasuryShare(CloseFee(t)) \in 0..CloseFee(t)
      /\ ClosePnl(t) \in Int
  BY <1>2, CloseType
<1>4. CloseMargin(t) \in Nat
  <2>1. PICK r \in AllRisks : margin_vault[t] >= Share(Notional(t), r.initial_margin)
    BY DEF CollateralCoversInitialMargin
  <2>2. r.initial_margin \in Nat /\ TAKER_FEE \in Nat /\ TAKER_FEE <= r.initial_margin
    BY RiskAssumption, MarketAssumption DEF RiskParams, MildParameters
  <2>3. Notional(t) \in Nat
    BY OpenPosition
  <2>4. CloseFee(t) <= Share(Notional(t), r.initial_margin)
    BY <2>2, <2>3, ShareMonotone DEF CloseFee
  <2>5. Share(Notional(t), r.initial_margin) \in Nat /\ margin_vault[t] \in Nat
    BY <2>2, <2>3, ShareType DEF TypeOK
  <2>. QED  BY <1>3, <2>1, <2>4, <2>5 DEF CloseMargin
<1>5. /\ insurance.vault >= Payable(ClosePnl(t))
      /\ CloseMargin(t) + Payable(ClosePnl(t)) >= 0
  <2>1. insurance.vault \in Nat
    BY DEF TypeOK
  <2>. QED  BY <1>3, <1>4, <2>1 DEF Payable, Smaller, CloseEquity
<1>6. position[t].entry_mark > 0
  BY OpenPosition
<1>. QED  BY <1>1, <1>2, <1>4, <1>5, <1>6 DEF CanClose

(* An owner whose position is worth something is never kept in the market: *)
(* the interest to be subtracted is there, the mark is positive, the       *)
(* collateral covers the fee, and a profit insurance cannot pay is cut     *)
(* instead of reverting, for any traders and any mild parameters.          *)
THEOREM SolventOwnersLeave ==
  ASSUME MildParameters
  PROVE  Spec => []SolventCanClose
<1>1. TypeOK /\ OpenInterestIsSum /\ CollateralCoversInitialMargin => SolventCanClose
  BY SolventNow
<1>. QED  BY <1>1, TypeCorrect, InterestCorrect, CollateralHolds, PTL

-----------------------------------------------------------------------------
(* Keepers: what holds of the engine holds with them at work on it, however *)
(* many ticks overlap and wherever they fail, and their copy of the equity  *)
(* check is right in every state the program reaches.                       *)

(* A step of a tick touches the engine through settle_funding and          *)
(* liquidate, or not at all.                                               *)
LEMMA TickIsOfTheEngine ==
  ASSUME NEW k \in Ticks, TickSteps(k)
  PROVE  [Next]_vars
<1>1. CASE \/ FetchMarket(k) \/ FetchIndex(k) \/ FetchFails(k)
           \/ SettleSkipped(k) \/ SettleFails(k) \/ ListFails(k)
           \/ ListPositions(k) \/ ExamineFails(k) \/ SendFails(k)
  BY <1>1 DEF FetchMarket, FetchIndex, FetchFails, SettleSkipped, SettleFails,
              ListFails, ListPositions, ExamineFails, SendFails
<1>2. CASE SettleLands(k)
  BY <1>2 DEF SettleLands, Next, PublicSteps
<1>3. ASSUME NEW t \in Traders, Examine(k, t)
      PROVE  UNCHANGED vars
  BY <1>3 DEF Examine
<1>4. ASSUME NEW t \in Traders, SendLands(k, t)
      PROVE  Next
  <2>1. keeper \in Users /\ liquidate(t, keeper)
    BY <1>4, KeeperAssumption DEF SendLands
  <2>. QED  BY <2>1 DEF Next, PublicSteps
<1>. QED  BY <1>1, <1>2, <1>3, <1>4 DEF TickSteps

(* Keepers do nothing that the program does not let anybody do: every      *)
(* behaviour of engine and keepers is one of the engine.                   *)
THEOREM KeepersAddNothing == KeeperSpec => Spec
<1>1. KeeperInit => Init
  BY DEF KeeperInit
<1>2. [KeeperNext]_keepervars => [Next]_vars
  <2>1. CASE KeeperSteps
    BY <2>1, TickIsOfTheEngine DEF KeeperSteps
  <2>2. CASE Restart
    BY <2>2 DEF Restart
  <2>3. CASE Next /\ UNCHANGED tick
    BY <2>3
  <2>4. CASE UNCHANGED keepervars
    BY <2>4 DEF keepervars
  <2>. QED  BY <2>1, <2>2, <2>3, <2>4 DEF KeeperNext
<1>. QED  BY <1>1, <1>2, PTL DEF KeeperSpec, Spec

(* The two halves of the equity check, side by side. *)
LEMMA SamePrice ==
  ASSUME NEW t \in Traders, IsOpen(t), TypeOK
  PROVE  LiqRefPrice(t) =
           LET isLong == position[t].size > 0
           IN  IF MarketNow.m5 > 0 /\ (IF isLong THEN MarketNow.m5 < index.value
                                                 ELSE MarketNow.m5 > index.value)
               THEN MarketNow.m5 ELSE index.value
<1>1. position[t].size \in Int
  BY DEF TypeOK, Positions, NoPosition
<1>2. MarketNow.m5 = twap.m5 /\ twap.m5 \in Nat /\ index.value \in Nat
  BY DEF MarketNow, TypeOK
<1>. QED  BY <1>1, <1>2 DEF LiqRefPrice, Side

LEMMA AgreementInEveryState == TypeOK => CopiesAgree
<1>. SUFFICES ASSUME TypeOK, NEW t \in Traders, IsOpen(t), OracleUsable
              PROVE  isLiquidatable(position[t], margin_vault[t], MarketNow, index.value)
                       <=> Liquidatable(t)
  BY DEF CopiesAgree
<1>1. position[t].entry_mark # 0
  BY DEF TypeOK, Positions, NoPosition, IsOpen
<1>2. /\ MarketNow.cum = cum["long"]
      /\ MarketNow.maintenance_margin = risk.maintenance_margin
  BY DEF MarketNow
<1>3. LiqEquity(t) = margin_vault[t] + PnlAt(t, LiqRefPrice(t)) - FundingOwed(t)
  BY DEF LiqEquity
<1>. QED  BY <1>1, <1>2, <1>3, SamePrice, Zenon
          DEF isLiquidatable, Liquidatable, PnlAt, FundingOwed, Notional

(* Keeper and monitor call liquidatable exactly what the program does, in  *)
(* every reachable state and for any parameters (isLiquidatable and        *)
(* liquidate).                                                             *)
THEOREM CopiesAlwaysAgree == KeeperSpec => []CopiesAgree
<1>. QED  BY KeepersAddNothing, TypeCorrect, AgreementInEveryState, PTL

(* With keepers at work the books of both vaults still match to the unit.  *)
THEOREM BooksWithKeepers == KeeperSpec => []VaultsMatchBooks
<1>. QED  BY KeepersAddNothing, BooksCorrect, PTL
=============================================================================
