------------------------------ MODULE PerpMath ------------------------------
(***************************************************************************)
(* The fixed-point arithmetic of programs/perp-engine: mark price, moving  *)
(* averages, funding, profit and loss, margin and fee shares.  All of it   *)
(* is integer arithmetic that rounds; the rounding is kept, because the    *)
(* properties of the engine depend on who the remainder goes to.  The      *)
(* program divides by two literals, 1_000_000 and 10_000; they are the     *)
(* constants SCALE and BPS here, so that TLC, whose integers have 32 bits, *)
(* can use smaller ones.  Widths (u64, i64, i128) are not modelled: every  *)
(* product in the program is checked and overflow only reverts.            *)
(***************************************************************************)
EXTENDS Integers

CONSTANTS
  SCALE,     \* fixed-point unit of rates and imbalances (1_000_000)
  BPS        \* basis points of a whole (10_000)

ASSUME ScaleAssumption == SCALE \in Nat \ {0} /\ BPS \in Nat \ {0}

Abs(x) == IF x < 0 THEN -x ELSE x
Smaller(a, b) == IF a <= b THEN a ELSE b
Larger(a, b) == IF a >= b THEN a ELSE b

(* u64::saturating_sub *)
Monus(a, b) == IF a >= b THEN a - b ELSE 0

(* Rust's signed division rounds towards zero; \div rounds down. *)
TruncDiv(a, b) == IF a >= 0 THEN a \div b ELSE -((-a) \div b)

(* |size| x bps: initial and maintenance margin, fee, penalty, haircut. *)
Share(amount, bps) == (amount * bps) \div BPS

(* The treasury's nine tenths of a taker fee; insurance takes the rest. *)
TreasuryShare(fee) == (fee * 9) \div 10

(* mark = index x (1 + slippage x imbalance); the caller rejects mark <= 0. *)
compute_mark_price_Swapped(index_price, long_oi, short_oi, oi_floor, slippage) ==
  LET denom     == Larger(long_oi + short_oi, oi_floor)
      imbalance == TruncDiv((short_oi - long_oi) * SCALE, denom)
  IN  index_price + TruncDiv(index_price * (slippage * imbalance), SCALE * SCALE)
compute_mark_price(index_price, long_oi, short_oi, oi_floor, slippage) ==
  LET denom     == Larger(long_oi + short_oi, oi_floor)
      imbalance == TruncDiv((long_oi - short_oi) * SCALE, denom)
  IN  index_price + TruncDiv(index_price * (slippage * imbalance), SCALE * SCALE)

(* A zero average has seen no observation yet and adopts the first one. *)
ema_update(old, new, denom) ==
  IF old = 0 THEN new ELSE (new + (denom - 1) * old) \div denom

(* Signed: a positive result is paid by the position's owner. *)
position_funding_owed(cumulative, snapshot, size) ==
  TruncDiv(size * (cumulative - snapshot), SCALE)

(* size x (price - entry) / entry, for the price a handler settles at. *)
PricePnl(size, entry, price) == TruncDiv(size * (price - entry), entry)

(* Funding of `hours` hours at the rate of the moment, clamped per hour. *)
FundingAccrual_Unclamped(mark, index_price, cap_bps, hours) ==
  TruncDiv((mark - index_price) * SCALE, index_price) * hours
FundingAccrual(mark, index_price, cap_bps, hours) ==
  LET rate == TruncDiv((mark - index_price) * SCALE, index_price)
      cap  == cap_bps * (SCALE \div BPS)
  IN  Larger(-cap, Smaller(rate, cap)) * hours

(* Entry price of a position enlarged at `mark`: the size-weighted mean. *)
BlendEntry_Stale(old_abs, entry, added, mark) == entry
BlendEntry(old_abs, entry, added, mark) ==
  (old_abs * entry + added * mark) \div (old_abs + added)
=============================================================================
