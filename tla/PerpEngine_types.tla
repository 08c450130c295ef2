--------------------------- MODULE PerpEngine_types ---------------------------
(***************************************************************************)
(* Type correctness of PerpEngine for every set of traders, every size and *)
(* amount and every admissible parameter set.  What it says of the program *)
(* is that no sequence of instructions drives a vault, a wallet, a total   *)
(* or the open interest below zero (every subtraction is covered by a      *)
(* check that came before it) and that no position is left with a zero     *)
(* entry price, by which four handlers divide.                             *)
(***************************************************************************)
EXTENDS PerpEngine, TLAPS

-----------------------------------------------------------------------------
(* What the arithmetic of PerpMath returns, preserves and bounds, for every *)
(* scale: no other proof opens a product or a division.                     *)


(* Rust's division of signed integers stays within the integers. *)
LEMMA TruncDivType ==
  ASSUME NEW a \in Int, NEW b \in Nat \ {0}
  PROVE  TruncDiv(a, b) \in Int
  BY DEF TruncDiv

(* Fees, penalties and margin requirements are amounts. *)
LEMMA ShareType ==
  ASSUME NEW amount \in Nat, NEW bps \in Nat
  PROVE  Share(amount, bps) \in Nat
<1>1. amount * bps \in Nat
  OBVIOUS
<1>. QED  BY <1>1, ScaleAssumption DEF Share

(* A share of at most the whole is at most the amount: a haircut of profit *)
(* leaves a profit, never a debt.                                          *)
LEMMA ShareOfWhole ==
  ASSUME NEW amount \in Nat, NEW bps \in 0..BPS
  PROVE  Share(amount, bps) \in 0..amount
<1>1. amount * bps \in Nat /\ amount * bps <= amount * BPS
  BY ScaleAssumption
<1>2. (amount * BPS) \div BPS = amount
  BY ScaleAssumption
<1>. QED  BY <1>1, <1>2, ScaleAssumption DEF Share

(* The treasury's share of a fee and what insurance keeps are amounts. *)
LEMMA TreasuryShareBound ==
  ASSUME NEW fee \in Nat
  PROVE  TreasuryShare(fee) \in 0..fee
  BY DEF TreasuryShare

(* The mark is an integer; handlers reject the ones that are not positive. *)
LEMMA MarkType ==
  ASSUME NEW index_price \in Nat, NEW long_oi \in Nat, NEW short_oi \in Nat,
         NEW oi_floor \in Nat \ {0}, NEW slippage \in Nat
  PROVE  compute_mark_price(index_price, long_oi, short_oi, oi_floor, slippage) \in Int
<1>. DEFINE denom     == Larger(long_oi + short_oi, oi_floor)
            imbalance == TruncDiv((long_oi - short_oi) * SCALE, denom)
            adj       == index_price * (slippage * imbalance)
<1>1. denom \in Nat \ {0}
  BY DEF Larger
<1>2. (long_oi - short_oi) * SCALE \in Int
  BY ScaleAssumption
<1>3. imbalance \in Int
  BY <1>1, <1>2, TruncDivType
<1>4. adj \in Int
  <2>. HIDE DEF imbalance
  <2>. QED  BY <1>3
<1>5. SCALE * SCALE \in Nat \ {0}
  BY ScaleAssumption
<1>6. TruncDiv(adj, SCALE * SCALE) \in Int
  <2>. HIDE DEF adj
  <2>. QED  BY <1>4, <1>5, TruncDivType
<1>. QED  BY <1>6 DEF compute_mark_price

(* A moving average of amounts is an amount. *)
LEMMA EmaType ==
  ASSUME NEW old \in Nat, NEW new \in Nat
  PROVE  ema_update(old, new, 16) \in Nat /\ ema_update(old, new, 4) \in Nat
  BY DEF ema_update

LEMMA FundingOwedType ==
  ASSUME NEW cumulative \in Int, NEW snapshot \in Int, NEW size \in Int
  PROVE  position_funding_owed(cumulative, snapshot, size) \in Int
<1>1. size * (cumulative - snapshot) \in Int
  OBVIOUS
<1>. QED  BY <1>1, TruncDivType, ScaleAssumption DEF position_funding_owed

LEMMA PricePnlType ==
  ASSUME NEW size \in Int, NEW entry \in Nat \ {0}, NEW price \in Int
  PROVE  PricePnl(size, entry, price) \in Int
<1>1. size * (price - entry) \in Int
  OBVIOUS
<1>. QED  BY <1>1, TruncDivType DEF PricePnl

(* However long funding was not settled and wherever the average stands, a *)
(* settlement moves the accumulator by at most the cap for each hour.      *)
LEMMA FundingAccrualBound ==
  ASSUME NEW mark \in Nat, NEW index_price \in Nat \ {0}, NEW cap_bps \in Nat,
         NEW ceiling \in Nat, cap_bps <= ceiling, NEW hours \in Nat
  PROVE  LET bound == ceiling * (SCALE \div BPS) * hours
         IN  /\ FundingAccrual(mark, index_price, cap_bps, hours) \in -bound .. bound
             /\ bound \in Nat
<1>. DEFINE rate    == TruncDiv((mark - index_price) * SCALE, index_price)
            unit    == SCALE \div BPS
            cap     == cap_bps * unit
            clamped == Larger(-cap, Smaller(rate, cap))
<1>1. unit \in Nat
  BY ScaleAssumption
<1>2. cap \in Nat /\ ceiling * unit \in Nat /\ cap <= ceiling * unit
  <2>. HIDE DEF unit
  <2>. QED  BY <1>1
<1>3. (mark - index_price) * SCALE \in Int
  BY ScaleAssumption
<1>4. rate \in Int
  BY <1>3, TruncDivType
<1>5. clamped \in -cap .. cap
  <2>. HIDE DEF rate, cap
  <2>. QED  BY <1>2, <1>4 DEF Larger, Smaller
<1>6. /\ clamped * hours \in -(ceiling * unit * hours) .. (ceiling * unit * hours)
      /\ ceiling * unit * hours \in Nat
  <2>. DEFINE top == ceiling * unit
  <2>1. clamped \in Int /\ -top <= clamped /\ clamped <= top /\ top \in Nat
    <3>. HIDE DEF clamped, cap, unit
    <3>. QED  BY <1>2, <1>5
  <2>. HIDE DEF clamped, top
  <2>2. /\ clamped * hours \in Int /\ top * hours \in Nat
        /\ clamped * hours <= top * hours
        /\ (-top) * hours <= clamped * hours
    BY <2>1
  <2>3. (-top) * hours = -(top * hours)
    BY <2>1
  <2>4. clamped * hours \in -(top * hours) .. (top * hours)
    BY <2>2, <2>3
  <2>. QED  BY <2>2, <2>4 DEF top
<1>. QED  BY <1>6 DEF FundingAccrual

(* Blending positive entry prices gives a positive entry price, so no      *)
(* resizing makes the later division by the entry price fail.              *)
LEMMA BlendEntryType ==
  ASSUME NEW old_abs \in Nat \ {0}, NEW entry \in Nat \ {0},
         NEW added \in Nat, NEW mark \in Nat \ {0}
  PROVE  BlendEntry(old_abs, entry, added, mark) \in Nat \ {0}
<1>. DEFINE total == old_abs * entry + added * mark
<1>1. /\ old_abs * entry \in Nat /\ old_abs * entry >= old_abs
      /\ added * mark \in Nat /\ added * mark >= added
  OBVIOUS
<1>2. total \in Nat /\ total >= old_abs + added
  BY <1>1
<1>3. total \div (old_abs + added) \in Nat \ {0}
  <2>. HIDE DEF total
  <2>. QED  BY <1>2
<1>. QED  BY <1>3 DEF BlendEntry

(* What division rounds down to, by what the dividend is below. *)
LEMMA DivBelow ==
  ASSUME NEW a \in Nat, NEW b \in Nat \ {0}, NEW c \in Nat
  PROVE  /\ a < b * c => a \div b < c
         /\ a <= b * c => a \div b <= c
<1>. DEFINE q == a \div b
<1>1. q \in Nat /\ b * q <= a
  OBVIOUS
<1>. HIDE DEF q
<1>2. ASSUME c <= q PROVE b * c <= b * q /\ b * c \in Nat /\ b * q \in Nat
  BY <1>1, <1>2
<1>3. ASSUME c + 1 <= q PROVE b * c + b <= b * q /\ b * c \in Nat /\ b * q \in Nat
  <2>1. b * (c + 1) <= b * q
    BY <1>1, <1>3
  <2>2. b * (c + 1) = b * c + b
    OBVIOUS
  <2>. QED  BY <2>1, <2>2, <1>1
<1>4. a < b * c => q < c
  BY <1>1, <1>2
<1>5. a <= b * c => q <= c
  BY <1>1, <1>3
<1>. QED  BY <1>4, <1>5 DEF q

(* A smaller rate of the same amount is a smaller share. *)
LEMMA ShareMonotone ==
  ASSUME NEW amount \in Nat, NEW less \in Nat, NEW more \in Nat, less <= more
  PROVE  Share(amount, less) <= Share(amount, more)
<1>. DEFINE x == amount * less
            y == amount * more
            q == y \div BPS
<1>1. x \in Nat /\ y \in Nat /\ x <= y
  OBVIOUS
<1>. HIDE DEF x, y
<1>2. q \in Nat /\ y < BPS * (q + 1)
  BY <1>1, ScaleAssumption
<1>3. BPS * (q + 1) \in Nat
  BY <1>2, ScaleAssumption
<1>4. x < BPS * (q + 1)
  BY <1>1, <1>2, <1>3
<1>5. x \div BPS < q + 1
  <2>. HIDE DEF q
  <2>. QED  BY <1>1, <1>2, <1>4, ScaleAssumption, DivBelow
<1>6. x \div BPS \in Nat
  BY <1>1, ScaleAssumption
<1>. QED  BY <1>2, <1>5, <1>6 DEF Share, x, y

(* An imbalance is at most the whole, so the mark does not get negative,    *)
(* however one-sided the market, and with a slippage factor below one it    *)
(* stays positive.                                                          *)
LEMMA MarkPositive ==
  ASSUME NEW index_price \in Nat \ {0}, NEW long_oi \in Nat, NEW short_oi \in Nat,
         NEW oi_floor \in Nat \ {0}, NEW slippage \in Nat, slippage <= SCALE
  PROVE  LET mark == compute_mark_price(index_price, long_oi, short_oi, oi_floor, slippage)
         IN  mark >= 0 /\ (slippage < SCALE => mark > 0)
<1>. DEFINE denom     == Larger(long_oi + short_oi, oi_floor)
            excess    == (long_oi - short_oi) * SCALE
            imbalance == TruncDiv(excess, denom)
            adj       == index_price * (slippage * imbalance)
            whole     == SCALE * SCALE
<1>0. SCALE \in Nat \ {0} /\ whole \in Nat \ {0}
  BY ScaleAssumption
<1>1. denom \in Nat \ {0} /\ long_oi + short_oi <= denom
  BY DEF Larger
<1>2. excess \in Int /\ -excess <= denom * SCALE
  <2>1. short_oi - long_oi <= denom /\ short_oi - long_oi \in Int
    BY <1>1
  <2>2. (short_oi - long_oi) * SCALE <= denom * SCALE
    <3>. HIDE DEF denom
    <3>. QED  BY <1>0, <1>1, <2>1
  <2>3. -excess = (short_oi - long_oi) * SCALE
    BY <1>0
  <2>. QED  BY <1>0, <2>2, <2>3
<1>. HIDE DEF denom, excess
<1>3. imbalance \in Int /\ -imbalance <= SCALE
  <2>1. CASE excess >= 0
    <3>1. excess \div denom \in Nat
      BY <1>1, <1>2, <2>1
    <3>. QED  BY <1>0, <2>1, <3>1 DEF TruncDiv
  <2>2. CASE excess < 0
    <3>1. -excess \in Nat
      BY <1>2, <2>2
    <3>2. (-excess) \div denom <= SCALE
      BY <1>0, <1>1, <1>2, <3>1, DivBelow
    <3>3. (-excess) \div denom \in Nat
      BY <1>1, <3>1
    <3>4. imbalance = -((-excess) \div denom)
      BY <1>2, <2>2 DEF TruncDiv
    <3>. HIDE DEF imbalance
    <3>. QED  BY <3>2, <3>3, <3>4
  <2>. QED  BY <1>2, <2>1, <2>2
<1>. HIDE DEF imbalance
<1>4. /\ adj \in Int
      /\ adj < 0 => /\ -adj <= whole * index_price
                    /\ slippage < SCALE => -adj < whole * index_price
  <2>1. slippage * imbalance \in Int /\ -(slippage * imbalance) <= slippage * SCALE
    <3>1. slippage * (-imbalance) <= slippage * SCALE
      BY <1>0, <1>3
    <3>2. slippage * (-imbalance) = -(slippage * imbalance)
      BY <1>3
    <3>. QED  BY <1>3, <3>1, <3>2
  <2>. DEFINE tilt == slippage * imbalance
  <2>2. -tilt <= whole /\ (slippage < SCALE => -tilt < whole)
    <3>1. /\ slippage * SCALE <= SCALE * SCALE
          /\ slippage < SCALE => slippage * SCALE < SCALE * SCALE
      BY <1>0
    <3>2. slippage * SCALE \in Nat
      BY <1>0
    <3>. QED  BY <1>0, <2>1, <3>1, <3>2
  <2>. HIDE DEF tilt, whole
  <2>3. tilt \in Int
    BY <2>1 DEF tilt
  <2>4. /\ index_price * (-tilt) <= index_price * whole
        /\ slippage < SCALE => index_price * (-tilt) < index_price * whole
    BY <1>0, <2>2, <2>3
  <2>5. adj = index_price * tilt
    BY DEF tilt
  <2>6. index_price * (-tilt) = -(index_price * tilt) /\ index_price * tilt \in Int
    BY <2>3
  <2>7. index_price * whole = whole * index_price
    BY <1>0
  <2>. QED  BY <2>4, <2>5, <2>6, <2>7
<1>. HIDE DEF adj, whole
<1>5. /\ TruncDiv(adj, whole) \in Int
      /\ TruncDiv(adj, whole) >= -index_price
      /\ slippage < SCALE => TruncDiv(adj, whole) > -index_price
  <2>1. CASE adj >= 0
    <3>1. adj \div whole \in Nat
      BY <1>0, <1>4, <2>1
    <3>. QED  BY <2>1, <3>1 DEF TruncDiv
  <2>2. CASE adj < 0
    <3>1. -adj \in Nat
      BY <1>4, <2>2
    <3>2. /\ (-adj) \div whole <= index_price
          /\ slippage < SCALE => (-adj) \div whole < index_price
      BY <1>0, <1>4, <2>2, <3>1, DivBelow
    <3>3. (-adj) \div whole \in Nat
      BY <1>0, <3>1
    <3>4. TruncDiv(adj, whole) = -((-adj) \div whole)
      BY <1>4, <2>2 DEF TruncDiv
    <3>. QED  BY <3>2, <3>3, <3>4
  <2>. QED  BY <1>4, <2>1, <2>2
<1>6. compute_mark_price(index_price, long_oi, short_oi, oi_floor, slippage)
        = index_price + TruncDiv(adj, whole)
  BY DEF compute_mark_price, adj, whole, imbalance, excess, denom
<1>. QED  BY <1>5, <1>6

(* Rounding down keeps the order of fractions, whatever their denominators. *)
LEMMA FloorFraction ==
  ASSUME NEW a \in Nat, NEW b \in Nat \ {0}, NEW c \in Nat, NEW d \in Nat \ {0},
         a * d <= c * b
  PROVE  a \div b <= c \div d
<1>. DEFINE q == a \div b
            r == c \div d
<1>1. q \in Nat /\ b * q \in Nat /\ b * q <= a
  OBVIOUS
<1>2. r \in Nat /\ d * (r + 1) \in Nat /\ c < d * (r + 1)
  OBVIOUS
<1>. HIDE DEF q, r
<1>3. SUFFICES ASSUME r + 1 <= q
               PROVE  FALSE
  BY <1>1, <1>2 DEF q, r
<1>4. b * (r + 1) \in Nat /\ b * (r + 1) <= a
  <2>1. b * (r + 1) <= b * q
    BY <1>1, <1>2, <1>3
  <2>. QED  BY <1>1, <1>2, <2>1
<1>5. d * (b * (r + 1)) <= a * d
  <2>. DEFINE x == b * (r + 1)
  <2>1. x \in Nat /\ x <= a
    BY <1>4
  <2>. HIDE DEF x
  <2>2. d * x <= a * d
    BY <2>1
  <2>. QED  BY <2>2 DEF x
<1>6. c * b < b * (d * (r + 1))
  <2>. DEFINE y == d * (r + 1)
  <2>1. y \in Nat /\ c < y
    BY <1>2
  <2>. HIDE DEF y
  <2>2. c * b < b * y
    BY <2>1
  <2>. QED  BY <2>2 DEF y
<1>7. d * (b * (r + 1)) = b * (d * (r + 1)) /\ d * (b * (r + 1)) \in Nat
  BY <1>2
<1>8. a * d \in Nat /\ c * b \in Nat
  OBVIOUS
<1>. QED  BY <1>5, <1>6, <1>7, <1>8

(* So does rounding towards zero, of fractions of either sign. *)
LEMMA TruncFraction ==
  ASSUME NEW a \in Int, NEW b \in Nat \ {0}, NEW c \in Int, NEW d \in Nat \ {0},
         a * d <= c * b
  PROVE  TruncDiv(a, b) <= TruncDiv(c, d)
<1>1. CASE a >= 0 /\ c >= 0
  <2>1. a \in Nat /\ c \in Nat
    BY <1>1
  <2>2. a \div b <= c \div d
    BY <2>1, FloorFraction, Zenon
  <2>. QED  BY <1>1, <2>2 DEF TruncDiv
<1>2. CASE a < 0 /\ c >= 0
  <2>1. (-a) \div b \in Nat /\ c \div d \in Nat
    BY <1>2
  <2>. QED  BY <1>2, <2>1 DEF TruncDiv
<1>3. CASE a >= 0 /\ c < 0
  <2>1. a * d >= 0 /\ c * b < 0 /\ a * d \in Int /\ c * b \in Int
    BY <1>3
  <2>. QED  BY <2>1
<1>4. CASE a < 0 /\ c < 0
  <2>. DEFINE x == -a
              y == -c
  <2>1. x \in Nat /\ y \in Nat /\ y * b <= x * d
    BY <1>4
  <2>. HIDE DEF x, y
  <2>2. y \div d <= x \div b
    BY <2>1, FloorFraction, Zenon
  <2>3. y \div d \in Nat /\ x \div b \in Nat
    BY <2>1
  <2>. QED  BY <1>4, <2>2, <2>3 DEF TruncDiv, x, y
<1>. QED  BY <1>1, <1>2, <1>3, <1>4

(* A gain or a loss that is not positive before rounding is not after it. *)
LEMMA TruncSign ==
  ASSUME NEW a \in Int, NEW b \in Nat \ {0}, a <= 0
  PROVE  TruncDiv(a, b) <= 0
<1>1. a = 0 \/ -a \in Nat
  OBVIOUS
<1>2. (-a) \div b \in Nat
  BY <1>1
<1>3. a = 0 => a \div b = 0
  OBVIOUS
<1>. QED  BY <1>2, <1>3 DEF TruncDiv

Imbalance(long_oi, short_oi, oi_floor) ==
  TruncDiv((long_oi - short_oi) * SCALE, Larger(long_oi + short_oi, oi_floor))

(* The market's tilt is the same seen from either side, but for its sign. *)
LEMMA ImbalanceMirrored ==
  ASSUME NEW long_oi \in Nat, NEW short_oi \in Nat, NEW oi_floor \in Nat \ {0}
  PROVE  /\ Imbalance(long_oi, short_oi, oi_floor) \in Int
         /\ Imbalance(short_oi, long_oi, oi_floor) = -Imbalance(long_oi, short_oi, oi_floor)
<1>. DEFINE x == (long_oi - short_oi) * SCALE
            y == (short_oi - long_oi) * SCALE
            denom == Larger(long_oi + short_oi, oi_floor)
<1>1. x \in Int /\ y \in Int /\ y = -x
  BY ScaleAssumption
<1>2. denom \in Nat \ {0} /\ denom = Larger(short_oi + long_oi, oi_floor)
  BY DEF Larger
<1>. HIDE DEF x, y, denom
<1>3. TruncDiv(x, denom) \in Int
  BY <1>1, <1>2, TruncDivType
<1>4. TruncDiv(y, denom) = -TruncDiv(x, denom)
  <2>1. CASE x = 0
    <3>1. 0 \div denom = 0
      BY <1>2
    <3>. QED  BY <1>1, <2>1, <3>1 DEF TruncDiv
  <2>2. CASE x > 0
    <3>1. y < 0 /\ -y = x
      BY <1>1, <2>2
    <3>2. x \div denom \in Nat
      BY <1>1, <1>2, <2>2
    <3>. QED  BY <2>2, <3>1, <3>2, <1>1 DEF TruncDiv
  <2>3. CASE x < 0
    <3>1. y > 0 /\ -x = y
      BY <1>1, <2>3
    <3>2. y \div denom \in Nat
      BY <1>1, <1>2, <3>1
    <3>. QED  BY <2>3, <3>1, <3>2, <1>1 DEF TruncDiv
  <2>. QED  BY <1>1, <2>1, <2>2, <2>3
<1>. QED  BY <1>2, <1>3, <1>4 DEF Imbalance, x, y, denom

(* More open interest on one side tilts the market towards that side, also *)
(* where the open interest it is measured against grows with it.           *)
LEMMA ImbalanceRises ==
  ASSUME NEW long_oi \in Nat, NEW short_oi \in Nat, NEW more \in Nat,
         NEW oi_floor \in Nat \ {0}
  PROVE  Imbalance(long_oi, short_oi, oi_floor)
           <= Imbalance(long_oi + more, short_oi, oi_floor)
<1>. DEFINE x  == long_oi - short_oi
            D1 == Larger(long_oi + short_oi, oi_floor)
            D2 == Larger(long_oi + more + short_oi, oi_floor)
            e  == D2 - D1
<1>1. /\ D1 \in Nat \ {0} /\ D2 \in Nat \ {0} /\ x \in Int
      /\ x <= D1 /\ e \in 0..more /\ D2 = D1 + e
  BY DEF Larger
<1>. HIDE DEF x, D1, D2, e
<1>2. x * D2 <= (x + more) * D1 /\ x * D2 \in Int /\ (x + more) * D1 \in Int
  <2>1. x * e <= D1 * e
    BY <1>1
  <2>2. D1 * e <= D1 * more
    BY <1>1
  <2>3. x * D2 = x * D1 + x * e
    BY <1>1
  <2>4. (x + more) * D1 = x * D1 + D1 * more
    BY <1>1
  <2>5. /\ x * e \in Int /\ D1 * e \in Int /\ D1 * more \in Int /\ x * D1 \in Int
        /\ x * D2 \in Int /\ (x + more) * D1 \in Int
    BY <1>1
  <2>. QED  BY <2>1, <2>2, <2>3, <2>4, <2>5
<1>3. (x * SCALE) * D2 <= ((x + more) * SCALE) * D1
  <2>. DEFINE u == x * D2
              v == (x + more) * D1
  <2>1. u \in Int /\ v \in Int /\ u <= v
    BY <1>2
  <2>2. (x * SCALE) * D2 = SCALE * u /\ ((x + more) * SCALE) * D1 = SCALE * v
    BY <1>1, ScaleAssumption
  <2>. HIDE DEF u, v
  <2>3. SCALE * u <= SCALE * v
    BY <2>1, ScaleAssumption
  <2>. QED  BY <2>2, <2>3
<1>4. x * SCALE \in Int /\ (x + more) * SCALE \in Int
  BY <1>1, ScaleAssumption
<1>5. TruncDiv(x * SCALE, D1) <= TruncDiv((x + more) * SCALE, D2)
  BY <1>1, <1>3, <1>4, TruncFraction
<1>6. x + more = long_oi + more - short_oi
  BY DEF x
<1>. QED  BY <1>5, <1>6 DEF Imbalance, x, D1, D2

(* The mark rises with the market's tilt. *)
LEMMA MarkRises ==
  ASSUME NEW index_price \in Nat, NEW slippage \in Nat, NEW oi_floor \in Nat \ {0},
         NEW l1 \in Nat, NEW s1 \in Nat, NEW l2 \in Nat, NEW s2 \in Nat,
         Imbalance(l1, s1, oi_floor) <= Imbalance(l2, s2, oi_floor)
  PROVE  compute_mark_price(index_price, l1, s1, oi_floor, slippage)
           <= compute_mark_price(index_price, l2, s2, oi_floor, slippage)
<1>. DEFINE adj(i) == index_price * (slippage * i)
            whole  == SCALE * SCALE
            i1     == Imbalance(l1, s1, oi_floor)
            i2     == Imbalance(l2, s2, oi_floor)
<1>1. whole \in Nat \ {0}
  BY ScaleAssumption
<1>2. i1 \in Int /\ i2 \in Int /\ i1 <= i2
  BY ImbalanceMirrored
<1>. HIDE DEF i1, i2, whole
<1>3. slippage * i1 \in Int /\ slippage * i2 \in Int /\ slippage * i1 <= slippage * i2
  BY <1>2
<1>4. adj(i1) \in Int /\ adj(i2) \in Int /\ adj(i1) <= adj(i2)
  <2>. DEFINE y1 == slippage * i1
              y2 == slippage * i2
  <2>1. y1 \in Int /\ y2 \in Int /\ y1 <= y2
    BY <1>3
  <2>. HIDE DEF y1, y2
  <2>2. /\ index_price * y1 \in Int /\ index_price * y2 \in Int
        /\ index_price * y1 <= index_price * y2
    BY <2>1
  <2>. QED  BY <2>2 DEF y1, y2
<1>. HIDE DEF adj
<1>5. adj(i1) * whole <= adj(i2) * whole
  BY <1>1, <1>4
<1>6. /\ TruncDiv(adj(i1), whole) <= TruncDiv(adj(i2), whole)
      /\ TruncDiv(adj(i1), whole) \in Int /\ TruncDiv(adj(i2), whole) \in Int
  BY <1>1, <1>4, <1>5, TruncFraction, TruncDivType
<1>7. /\ compute_mark_price(index_price, l1, s1, oi_floor, slippage)
           = index_price + TruncDiv(adj(i1), whole)
      /\ compute_mark_price(index_price, l2, s2, oi_floor, slippage)
           = index_price + TruncDiv(adj(i2), whole)
  BY DEF compute_mark_price, adj, whole, i1, i2, Imbalance
<1>. QED  BY <1>6, <1>7

(* A buyer pushes the mark up, a seller pushes it down. *)
LEMMA MarkAgainstEntrant ==
  ASSUME NEW index_price \in Nat, NEW slippage \in Nat, NEW oi_floor \in Nat \ {0},
         NEW long_oi \in Nat, NEW short_oi \in Nat, NEW more \in Nat
  PROVE  LET mark(l, s) == compute_mark_price(index_price, l, s, oi_floor, slippage)
         IN  /\ mark(long_oi, short_oi) <= mark(long_oi + more, short_oi)
             /\ mark(long_oi, short_oi + more) <= mark(long_oi, short_oi)
<1>1. Imbalance(long_oi, short_oi, oi_floor) <= Imbalance(long_oi + more, short_oi, oi_floor)
  BY ImbalanceRises
<1>2. Imbalance(long_oi, short_oi + more, oi_floor) <= Imbalance(long_oi, short_oi, oi_floor)
  <2>1. Imbalance(short_oi, long_oi, oi_floor) <= Imbalance(short_oi + more, long_oi, oi_floor)
    BY ImbalanceRises
  <2>2. /\ Imbalance(short_oi, long_oi, oi_floor) \in Int
        /\ Imbalance(short_oi + more, long_oi, oi_floor) \in Int
        /\ Imbalance(long_oi, short_oi, oi_floor) = -Imbalance(short_oi, long_oi, oi_floor)
        /\ Imbalance(long_oi, short_oi + more, oi_floor)
             = -Imbalance(short_oi + more, long_oi, oi_floor)
    <3>1. short_oi + more \in Nat
      OBVIOUS
    <3>. QED  BY <3>1, ImbalanceMirrored
  <2>. QED  BY <2>1, <2>2
<1>3. long_oi + more \in Nat /\ short_oi + more \in Nat
  OBVIOUS
<1>. QED  BY <1>1, <1>2, <1>3, MarkRises

(* Products of naturals keep the order of their factors. *)
LEMMA ProductOrder ==
  ASSUME NEW a \in Int, NEW b \in Int, NEW c \in Nat, a <= b
  PROVE  a * c <= b * c /\ a * c \in Int /\ b * c \in Int
<1>1. (b - a) * c >= 0
  OBVIOUS
<1>2. (b - a) * c = b * c - a * c
  OBVIOUS
<1>. QED  BY <1>1, <1>2

(* The arithmetic mean F of two prices, rounded down, against their        *)
(* harmonic one: up to a rounding n * E * M, (sM + aE) / EM >= n / F.      *)
LEMMA BlendAgainstHarmonic ==
  ASSUME NEW s \in Nat, NEW E \in Nat, NEW a \in Nat, NEW M \in Nat,
         NEW F \in Nat \ {0}, s * E + a * M <= (s + a) * (F + 1), s + a > 0
  PROVE  (s + a) * (F - 1) * (E * M) <= F * F * (s * M + a * E)
<1>. DEFINE n == s + a
            h == s * M + a * E
            w == s * E + a * M
            g == E * M
<1>1. n \in Nat \ {0} /\ h \in Nat /\ w \in Nat /\ g \in Nat
  OBVIOUS
<1>2. n * n * g <= w * h
  <2>1. (E - M) * (E - M) >= 0
    OBVIOUS
  <2>2. (s * a) * ((E - M) * (E - M)) >= 0
    <3>. DEFINE d == (E - M) * (E - M)
                p == s * a
    <3>1. d \in Nat /\ p \in Nat
      BY <2>1
    <3>. HIDE DEF d, p
    <3>2. p * d >= 0
      BY <3>1
    <3>. QED  BY <3>2 DEF p, d
  <2>3. w * h - n * n * g = (s * a) * ((E - M) * (E - M))
    OBVIOUS
  <2>. QED  BY <2>2, <2>3
<1>. HIDE DEF h, w, g
<1>3. w * h <= (n * (F + 1)) * h
  BY <1>1, ProductOrder DEF w, n
<1>4. n * g <= (F + 1) * h
  <2>. HIDE DEF n
  <2>1. n * (n * g) <= n * ((F + 1) * h)
    <3>1. n * (n * g) = n * n * g /\ n * ((F + 1) * h) = (n * (F + 1)) * h
      BY <1>1
    <3>2. n * n * g \in Int /\ w * h \in Int /\ (n * (F + 1)) * h \in Int
      BY <1>1
    <3>. QED  BY <1>2, <1>3, <3>1, <3>2
  <2>. DEFINE x == n * g
              y == (F + 1) * h
  <2>2. x \in Int /\ y \in Int
    BY <1>1
  <2>. HIDE DEF x, y
  <2>3. ASSUME x >= y + 1
        PROVE  FALSE
    <3>1. n * (y + 1) <= n * x
      BY <1>1, <2>2, <2>3
    <3>2. n * (y + 1) = n * y + n
      BY <1>1, <2>2
    <3>3. n * x <= n * y
      BY <2>1 DEF x, y
    <3>4. n * x \in Int /\ n * y \in Int
      BY <1>1, <2>2
    <3>. QED  BY <1>1, <3>1, <3>2, <3>3, <3>4
  <2>4. x <= y
    BY <2>2, <2>3
  <2>. QED  BY <2>4 DEF x, y
<1>5. (n * g) * (F - 1) <= ((F + 1) * h) * (F - 1)
  <2>1. F - 1 \in Nat /\ n * g \in Int /\ (F + 1) * h \in Int
    BY <1>1
  <2>. QED  BY <1>4, <2>1, ProductOrder
<1>6. ((F + 1) * h) * (F - 1) = F * F * h - h
  BY <1>1
<1>7. (n * g) * (F - 1) = n * (F - 1) * g
  BY <1>1
<1>8. F * F * h \in Int /\ h >= 0 /\ n * (F - 1) * g \in Int
  BY <1>1
<1>9. n * (F - 1) * g <= F * F * h
  BY <1>1, <1>5, <1>6, <1>7, <1>8
<1>. QED  BY <1>9 DEF n, g, h

(* A product is cancelled by a positive factor. *)
LEMMA Cancel ==
  ASSUME NEW a \in Int, NEW b \in Int, NEW c \in Nat \ {0}, a * c <= b * c
  PROVE  a <= b
<1>1. ASSUME a >= b + 1
      PROVE  FALSE
  <2>1. (b + 1) * c <= a * c
    BY <1>1, ProductOrder
  <2>2. (b + 1) * c = b * c + c /\ b * c \in Int /\ a * c \in Int
    OBVIOUS
  <2>. QED  BY <2>1, <2>2
<1>. QED  BY <1>1

(* What rounding towards zero does to a fraction of either sign. *)
LEMMA TruncBounds ==
  ASSUME NEW a \in Int, NEW b \in Nat \ {0}
  PROVE  LET q == TruncDiv(a, b)
         IN  /\ q \in Int
             /\ a >= 0 => q >= 0 /\ q * b <= a /\ a <= (q + 1) * b
             /\ a < 0 => q <= 0 /\ a <= q * b /\ (q - 1) * b <= a
<1>1. CASE a >= 0
  <2>1. a \div b \in Nat /\ b * (a \div b) <= a /\ a < b * ((a \div b) + 1)
    BY <1>1
  <2>. DEFINE q == a \div b
  <2>. HIDE DEF q
  <2>2. q \in Nat /\ b * q <= a /\ a < b * (q + 1)
    BY <2>1 DEF q
  <2>3. b * q = q * b /\ b * (q + 1) = (q + 1) * b /\ (q + 1) * b \in Nat
    BY <2>2
  <2>4. TruncDiv(a, b) = q
    BY <1>1 DEF TruncDiv, q
  <2>. QED  BY <1>1, <2>2, <2>3, <2>4
<1>2. CASE a < 0
  <2>. DEFINE x == -a
              q == x \div b
  <2>1. x \in Nat
    BY <1>2
  <2>. HIDE DEF x
  <2>2. q \in Nat /\ b * q <= x /\ x < b * (q + 1)
    BY <2>1
  <2>. HIDE DEF q
  <2>3. b * q = q * b /\ b * (q + 1) = (q + 1) * b /\ (q + 1) * b \in Nat /\ q * b \in Nat
    BY <2>2
  <2>4. (-q) * b = -(q * b) /\ (-q - 1) * b = -((q + 1) * b)
    BY <2>2
  <2>5. TruncDiv(a, b) = -q
    BY <1>2 DEF TruncDiv, q, x
  <2>6. -q \in Int /\ -q <= 0 /\ a = -x
    BY <2>1, <2>2 DEF x
  <2>. QED  BY <1>2, <2>1, <2>2, <2>3, <2>4, <2>5, <2>6
<1>. QED  BY <1>1, <1>2

(* Worth of a long grown from s at E by a at M, against what its two parts *)
(* were worth at a price P no higher than M, before anything is rounded    *)
(* but the entry price.                                                    *)
LEMMA GrownWorth ==
  ASSUME NEW s \in Nat \ {0}, NEW E \in Nat \ {0}, NEW a \in Nat \ {0}, NEW M \in Nat \ {0},
         NEW F \in Nat \ {0}, s * E + a * M <= (s + a) * (F + 1),
         NEW P \in Nat, P <= M
  PROVE  (s + a) * (P - F) * (F * E) <= s * (P - E) * (F * F) + (s + a) * P * E
<1>. DEFINE n == s + a
            D == n * (F - 1) * E - s * (F * F)
<1>1. n \in Nat \ {0} /\ D \in Int
  OBVIOUS
<1>2. a * E * (F * F) \in Nat
  <2>1. a * E \in Nat /\ F * F \in Nat
    OBVIOUS
  <2>. DEFINE x == a * E
              y == F * F
  <2>. HIDE DEF x, y
  <2>2. x * y \in Nat
    BY <2>1 DEF x, y
  <2>. QED  BY <2>2 DEF x, y
<1>3. P * D <= a * E * (F * F)
  <2>1. CASE D <= 0
    <3>. HIDE DEF D
    <3>1. D * P <= 0 * P /\ D * P \in Int
      BY <1>1, <2>1, ProductOrder
    <3>2. P * D = D * P
      BY <1>1
    <3>. QED  BY <1>2, <3>1, <3>2
  <2>2. CASE D > 0
    <3>1. P * D <= M * D /\ P * D \in Int /\ M * D \in Int
      <4>. HIDE DEF D
      <4>. QED  BY <1>1, <2>2, ProductOrder
    <3>2. n * (F - 1) * (E * M) <= F * F * (s * M + a * E)
      <4>1. s \in Nat /\ E \in Nat /\ a \in Nat /\ M \in Nat /\ s + a > 0
        OBVIOUS
      <4>. QED  BY <4>1, BlendAgainstHarmonic, Zenon DEF n
    <3>3. M * D = n * (F - 1) * (E * M) - F * F * (s * M)
      <4>. HIDE DEF n
      <4>. QED  BY <1>1
    <3>4. F * F * (s * M + a * E) = F * F * (s * M) + a * E * (F * F)
      OBVIOUS
    <3>5. /\ n * (F - 1) * (E * M) \in Int /\ F * F * (s * M) \in Int
          /\ F * F * (s * M + a * E) \in Int
      BY <1>1
    <3>. HIDE DEF n, D
    <3>. QED  BY <1>2, <3>1, <3>2, <3>3, <3>4, <3>5
  <2>. QED  BY <1>1, <2>1, <2>2
<1>4. s * (P - E) * (F * F) + n * P * E - n * (P - F) * (F * E) = a * E * (F * F) - P * D
  OBVIOUS
<1>5. /\ s * (P - E) * (F * F) \in Int /\ n * P * E \in Int
      /\ n * (P - F) * (F * E) \in Int /\ P * D \in Int
  BY <1>1
<1>. HIDE DEF D
<1>6. n * (P - F) * (F * E) <= s * (P - E) * (F * F) + n * P * E
  <2>. HIDE DEF n
  <2>. QED  BY <1>2, <1>3, <1>4, <1>5
<1>. QED  BY <1>6 DEF n

(* The same after rounding. *)
LEMMA GrownPnl ==
  ASSUME NEW s \in Nat \ {0}, NEW E \in Nat \ {0}, NEW a \in Nat \ {0}, NEW M \in Nat \ {0},
         NEW F \in Nat \ {0}, s * E + a * M <= (s + a) * (F + 1),
         NEW P \in Nat, P <= M
  PROVE  PricePnl(s + a, F, P) <= PricePnl(s, E, P) + 1 + ((s + a) * P) \div (F * F)
<1>. DEFINE n == s + a
            X == n * (P - F)
            Y == s * (P - E)
            q1 == TruncDiv(X, F)
            q0 == TruncDiv(Y, E)
            i == q1 - q0 - 1
            w == n * P
            k == w \div (F * F)
<1>1. n \in Nat \ {0} /\ X \in Int /\ Y \in Int /\ w \in Nat /\ F * F \in Nat \ {0}
  OBVIOUS
<1>2. X * (F * E) <= Y * (F * F) + w * E
  BY GrownWorth
<1>. HIDE DEF n, X, Y, w
<1>3. /\ q1 \in Int
      /\ X >= 0 => q1 >= 0 /\ q1 * F <= X
      /\ X < 0 => q1 <= 0 /\ (q1 - 1) * F <= X
  BY <1>1, TruncBounds
<1>4. /\ q0 \in Int
      /\ Y >= 0 => q0 >= 0 /\ Y <= (q0 + 1) * E
      /\ Y < 0 => q0 <= 0 /\ Y <= q0 * E
  BY <1>1, TruncBounds
<1>. HIDE DEF q1, q0
<1>5. k \in Nat /\ w < (F * F) * (k + 1)
  <2>. DEFINE f == F * F
  <2>. HIDE DEF f
  <2>1. f \in Nat \ {0}
    BY <1>1 DEF f
  <2>2. w \div f \in Nat /\ w < f * ((w \div f) + 1)
    BY <1>1, <2>1
  <2>. QED  BY <2>2 DEF f
<1>. HIDE DEF k
<1>6. ASSUME X < 0, Y >= 0
      PROVE  i <= k
  BY <1>3, <1>4, <1>5, <1>6
<1>7. ASSUME X >= 0 \/ Y < 0
      PROVE  i <= k
  <2>1. \E r, z \in Int : r * F <= X /\ Y <= z * E /\ i <= r - z
    <3>1. CASE X >= 0 /\ Y >= 0
      <4>1. q1 * F <= X /\ Y <= (q0 + 1) * E /\ i <= q1 - (q0 + 1) /\ q0 + 1 \in Int
        BY <1>3, <1>4, <3>1
      <4>. QED  BY <1>3, <4>1
    <3>2. CASE X >= 0 /\ Y < 0
      <4>1. q1 * F <= X /\ Y <= q0 * E /\ i <= q1 - q0
        BY <1>3, <1>4, <3>2
      <4>. QED  BY <1>3, <1>4, <4>1
    <3>3. CASE X < 0 /\ Y < 0
      <4>1. (q1 - 1) * F <= X /\ Y <= q0 * E /\ i <= (q1 - 1) - q0 /\ q1 - 1 \in Int
        BY <1>3, <1>4, <3>3
      <4>. QED  BY <1>4, <4>1
    <3>. QED  BY <1>1, <1>7, <3>1, <3>2, <3>3
  <2>2. PICK r \in Int, z \in Int : r * F <= X /\ Y <= z * E /\ i <= r - z
    BY <2>1
  <2>. DEFINE FE == F * E
              FF == F * F
  <2>3. FE \in Nat \ {0} /\ FF \in Nat \ {0}
    OBVIOUS
  <2>4. (r * F) * FE <= X * FE /\ Y * FF <= (z * E) * FF
    <3>. HIDE DEF FE, FF
    <3>1. r * F \in Int /\ z * E \in Int
      OBVIOUS
    <3>. QED  BY <1>1, <2>2, <2>3, <3>1, ProductOrder
  <2>5. (r * F) * FE - (z * E) * FF = ((r - z) * FF) * E
    OBVIOUS
  <2>6. ((r - z) * FF) * E <= w * E
    <3>1. /\ (r * F) * FE \in Int /\ X * FE \in Int /\ Y * FF \in Int
          /\ (z * E) * FF \in Int /\ w * E \in Int
      BY <1>1
    <3>2. X * FE <= Y * FF + w * E
      BY <1>2
    <3>. HIDE DEF FE, FF
    <3>. QED  BY <2>4, <2>5, <3>1, <3>2
  <2>. HIDE DEF FE, FF
  <2>7. (r - z) * FF <= w
    <3>1. (r - z) * FF \in Int
      BY <2>3
    <3>. QED  BY <1>1, <2>6, <3>1, Cancel
  <2>8. r - z <= k
    <3>1. ASSUME r - z >= k + 1
          PROVE  FALSE
      <4>1. (k + 1) * FF <= (r - z) * FF /\ (k + 1) * FF \in Int /\ (r - z) * FF \in Int
        BY <1>5, <2>3, <3>1, ProductOrder
      <4>2. w < (k + 1) * FF
        <5>1. FF * (k + 1) = (k + 1) * FF
          BY <1>5, <2>3
        <5>. QED  BY <1>5, <5>1 DEF FF
      <4>. QED  BY <1>1, <2>7, <4>1, <4>2
    <3>. QED  BY <1>5, <3>1
  <2>. QED  BY <1>3, <1>4, <1>5, <2>2, <2>8
<1>8. i <= k
  BY <1>1, <1>3, <1>4, <1>5, <1>7, <1>6
<1>9. q1 <= q0 + 1 + k
  BY <1>3, <1>4, <1>5, <1>8
<1>. QED  BY <1>9 DEF PricePnl, q1, q0, X, Y, k, w, n

(* Whole hours added to a time are added to the hours it counts. *)
LEMMA HoursAdd ==
  ASSUME NEW time \in Nat, NEW hours \in Nat, NEW hour \in Nat \ {0}
  PROVE  (time + hours * hour) \div hour = time \div hour + hours
  OBVIOUS

-----------------------------------------------------------------------------
(* What the state's parts are, once types are right.                       *)

Fund == [vault: Nat, deposited: Nat, paid_out: Nat]

(* The parameters in force are validated ones. *)
LEMMA RiskInForce ==
  ASSUME TypeOK
  PROVE  /\ risk \in RiskParams
         /\ risk.initial_margin \in Nat /\ risk.maintenance_margin \in Nat
         /\ risk.max_oi \in Nat /\ risk.max_position \in Nat
         /\ risk.funding_cap \in Nat /\ risk.funding_cap <= CAP_CEILING
         /\ risk.slippage \in Nat
  BY RiskAssumption, ScaleAssumption DEF TypeOK, RiskParams

(* What the handlers compute about an open position. *)
LEMMA OpenPosition ==
  ASSUME TypeOK, NEW t \in Traders, IsOpen(t)
  PROVE  /\ position[t] \in Positions
         /\ position[t].size \in Int \ {0}
         /\ position[t].entry_mark \in Nat \ {0}
         /\ position[t].snapshot \in Int
         /\ Side(position[t].size) \in Sides
         /\ Notional(t) \in Nat \ {0}
         /\ FundingOwed(t) \in Int
         /\ \A price \in Int : PnlAt(t, price) \in Int
<1>1. position[t] \in Positions
  BY DEF TypeOK, IsOpen, NoPosition
<1>2. /\ position[t].size \in Int \ {0} /\ position[t].entry_mark \in Nat \ {0}
      /\ position[t].snapshot \in Int
  BY <1>1 DEF Positions
<1>3. Side(position[t].size) \in Sides
  BY DEF Side, Sides
<1>4. Notional(t) \in Nat \ {0}
  BY <1>2 DEF Notional, Abs
<1>5. cum["long"] \in Int
  BY DEF TypeOK, Sides
<1>6. FundingOwed(t) \in Int
  BY <1>2, <1>5, FundingOwedType DEF FundingOwed
<1>7. \A price \in Int : PnlAt(t, price) \in Int
  BY <1>2, PricePnlType DEF PnlAt
<1>. QED  BY <1>1, <1>2, <1>3, <1>4, <1>6, <1>7

LEMMA MarkAtType ==
  ASSUME TypeOK, NEW ois \in [Sides -> Nat]
  PROVE  MarkAt(ois) \in Int
<1>1. ois["long"] \in Nat /\ ois["short"] \in Nat
  BY DEF Sides
<1>2. index.value \in Nat
  BY DEF TypeOK
<1>. QED  BY <1>1, <1>2, RiskInForce, MarkType, MarketAssumption DEF MarkAt

(* A settlement the vault can pay leaves a fund whose vault and books have *)
(* moved by the same amount.                                               *)
LEMMA SettleType ==
  ASSUME NEW fund \in Fund, NEW amount \in Int, fund.vault + amount >= 0
  PROVE  /\ Settle(fund, amount) \in Fund
         /\ Settle(fund, amount).vault = fund.vault + amount
         /\ Settle(fund, amount).deposited - Settle(fund, amount).paid_out
              = fund.deposited - fund.paid_out + amount
<1>1. fund.vault \in Nat /\ fund.deposited \in Nat /\ fund.paid_out \in Nat
  BY DEF Fund
<1>2. CASE amount >= 0
  <2>. DEFINE v == fund.vault + amount
              d == fund.deposited + amount
  <2>1. v \in Nat /\ d \in Nat
    BY <1>1, <1>2
  <2>2. Settle(fund, amount) = [fund EXCEPT !.vault = v, !.deposited = d]
    BY <1>2 DEF Settle
  <2>3. /\ Settle(fund, amount).vault = v /\ Settle(fund, amount).deposited = d
        /\ Settle(fund, amount).paid_out = fund.paid_out
    BY <2>2 DEF Fund
  <2>4. Settle(fund, amount) \in Fund
    <3>. HIDE DEF v, d
    <3>. QED  BY <2>1, <2>2 DEF Fund
  <2>. QED  BY <1>1, <2>3, <2>4
<1>3. CASE amount < 0
  <2>. DEFINE v == fund.vault + amount
              o == fund.paid_out - amount
  <2>1. v \in Nat /\ o \in Nat
    BY <1>1, <1>3
  <2>2. Settle(fund, amount) = [fund EXCEPT !.vault = v, !.paid_out = o]
    BY <1>3 DEF Settle
  <2>3. /\ Settle(fund, amount).vault = v /\ Settle(fund, amount).paid_out = o
        /\ Settle(fund, amount).deposited = fund.deposited
    BY <2>2 DEF Fund
  <2>4. Settle(fund, amount) \in Fund
    <3>. HIDE DEF v, o
    <3>. QED  BY <2>1, <2>2 DEF Fund
  <2>. QED  BY <1>1, <2>3, <2>4
<1>. QED  BY <1>2, <1>3

LEMMA ReceiveType ==
  ASSUME NEW t \in [vault: Nat, received: Nat, paid_out: Nat], NEW amount \in Nat
  PROVE  /\ Receive(t, amount) \in [vault: Nat, received: Nat, paid_out: Nat]
         /\ Receive(t, amount).vault = t.vault + amount
         /\ Receive(t, amount).received = t.received + amount
         /\ Receive(t, amount).paid_out = t.paid_out
<1>. DEFINE v == t.vault + amount
            r == t.received + amount
<1>1. v \in Nat /\ r \in Nat
  OBVIOUS
<1>2. Receive(t, amount) = [t EXCEPT !.vault = v, !.received = r]
  BY DEF Receive
<1>3. /\ Receive(t, amount).vault = v /\ Receive(t, amount).received = r
      /\ Receive(t, amount).paid_out = t.paid_out
  BY <1>2
<1>4. Receive(t, amount) \in [vault: Nat, received: Nat, paid_out: Nat]
  <2>. HIDE DEF v, r
  <2>. QED  BY <1>1, <1>2
<1>. QED  BY <1>3, <1>4

(* A gain is paid out of what the insurance vault has. *)
LEMMA PayableBound ==
  ASSUME TypeOK, NEW amount \in Int
  PROVE  /\ Payable(amount) \in Int
         /\ Payable(amount) <= insurance.vault
         /\ Payable(amount) <= amount
  BY DEF TypeOK, Payable, Smaller

LEMMA PayType ==
  ASSUME NEW accounts \in [Users -> Nat], NEW user \in Users, NEW amount \in Nat
  PROVE  Pay(accounts, user, amount) \in [Users -> Nat]
<1>1. accounts[user] + amount \in Nat
  OBVIOUS
<1>. QED  BY <1>1 DEF Pay

LEMMA TwapType ==
  ASSUME TypeOK, NEW observation \in Nat, update_mark_twaps(observation)
  PROVE  twap' \in [h1: Nat, m5: Nat]
<1>1. twap.h1 \in Nat /\ twap.m5 \in Nat
  BY DEF TypeOK
<1>2. /\ ema_update(twap.h1, observation, 16) \in Nat
      /\ ema_update(twap.m5, observation, 4) \in Nat
  BY <1>1, EmaType
<1>. QED  BY <1>2 DEF update_mark_twaps

LEMMA ResizedOiType ==
  ASSUME TypeOK, NEW t \in Traders, IsOpen(t), NEW new_size \in Int,
         oi[Side(position[t].size)] >= Notional(t)
  PROVE  ResizedOi(t, new_size) \in [Sides -> Nat]
<1>1. oi \in [Sides -> Nat] /\ Side(position[t].size) \in Sides /\ Notional(t) \in Nat
  BY OpenPosition DEF TypeOK
<1>2. Abs(new_size) \in Nat
  BY DEF Abs
<1>3. oi[Side(position[t].size)] - Notional(t) + Abs(new_size) \in Nat
  BY <1>1, <1>2
<1>. QED  BY <1>1, <1>3 DEF ResizedOi

LEMMA LeaveBookType ==
  ASSUME TypeOK, NEW t \in Traders, IsOpen(t), LeaveBook(t)
  PROVE  oi' \in [Sides -> Nat] /\ count' \in [Sides -> Nat]
<1>1. /\ oi \in [Sides -> Nat] /\ count \in [Sides -> Nat]
      /\ Side(position[t].size) \in Sides /\ Notional(t) \in Nat
  BY OpenPosition DEF TypeOK
<1>2. \A a, b \in Nat : Monus(a, b) \in Nat
  BY DEF Monus
<1>. QED  BY <1>1, <1>2 DEF LeaveBook

LEMMA CloseAccountsType ==
  ASSUME TypeOK, NEW t \in Traders, NEW residual, CloseAccounts(t, residual)
  PROVE  /\ position' \in [Traders -> Positions \cup {NoPosition}]
         /\ margin_vault' \in [Traders -> Nat]
  BY DEF TypeOK, CloseAccounts

-----------------------------------------------------------------------------
(* The instructions, one lemma each.                                       *)

LEMMA TypeOpen ==
  ASSUME TypeOK, NEW t \in Traders, NEW size \in Sizes, NEW margin \in Amounts,
         open_position(t, size, margin)
  PROVE  TypeOK'
<1>. DEFINE side   == Side(size)
            new_oi == [oi EXCEPT ![side] = @ + Abs(size)]
            mark   == MarkAt(new_oi)
            fee    == Share(Abs(size), TAKER_FEE)
<1>1. /\ size \in Int \ {0} /\ margin \in Nat /\ Abs(size) \in Nat
      /\ side \in Sides /\ t \in Users
  BY InputAssumption, UsersAssumption DEF open_position, Abs, Side, Sides
<1>2. new_oi \in [Sides -> Nat]
  BY <1>1 DEF TypeOK
<1>3. mark \in Nat \ {0}
  <2>1. mark \in Int
    <3>. HIDE DEF new_oi
    <3>. QED  BY <1>2, MarkAtType
  <2>2. mark > 0
    BY DEF open_position
  <2>. HIDE DEF mark
  <2>. QED  BY <2>1, <2>2
<1>4. fee \in Nat /\ TreasuryShare(fee) \in 0..fee
  BY <1>1, ShareType, TreasuryShareBound, MarketAssumption
<1>. HIDE DEF fee, mark
<1>5. insurance' \in [vault: Nat, deposited: Nat, paid_out: Nat]
  <2>1. insurance \in Fund /\ insurance.vault \in Nat /\ fee - TreasuryShare(fee) \in Nat
    BY <1>4 DEF TypeOK, Fund
  <2>2. Settle(insurance, fee - TreasuryShare(fee)) \in Fund
    BY <2>1, SettleType
  <2>. QED  BY <2>2 DEF open_position, fee, Fund
<1>6. treasury' \in [vault: Nat, received: Nat, paid_out: Nat]
  <2>1. Receive(treasury, TreasuryShare(fee)) \in [vault: Nat, received: Nat, paid_out: Nat]
    BY <1>4, ReceiveType DEF TypeOK
  <2>. QED  BY <2>1 DEF open_position, fee
<1>7. wallet' \in [Users -> Nat]
  <2>1. wallet[t] \in Nat /\ wallet[t] >= margin + fee
    BY <1>1 DEF TypeOK, open_position, fee
  <2>2. wallet' = [wallet EXCEPT ![t] = @ - margin - fee]
    BY DEF open_position, fee
  <2>3. wallet[t] - margin - fee \in Nat
    BY <1>1, <1>4, <2>1
  <2>. QED  BY <2>2, <2>3 DEF TypeOK
<1>8. position' \in [Traders -> Positions \cup {NoPosition}]
  <2>1. cum[side] \in Int
    BY <1>1 DEF TypeOK
  <2>2. [size |-> size, entry_mark |-> mark, snapshot |-> cum[side]] \in Positions
    BY <1>1, <1>3, <2>1 DEF Positions
  <2>3. position' = [position EXCEPT ![t] =
                      [size |-> size, entry_mark |-> mark, snapshot |-> cum[side]]]
    BY DEF open_position, mark
  <2>. QED  BY <2>2, <2>3 DEF TypeOK
<1>9. twap' \in [h1: Nat, m5: Nat]
  <2>1. update_mark_twaps(mark)
    BY DEF open_position, mark
  <2>. QED  BY <1>3, <2>1, TwapType
<1>10. oi' \in [Sides -> Nat] /\ count' \in [Sides -> Nat] /\ margin_vault' \in [Traders -> Nat]
  BY <1>1, <1>2 DEF TypeOK, open_position
<1>11. UNCHANGED <<funding, admin, external>>
  BY DEF open_position
<1>. QED  BY <1>5, <1>6, <1>7, <1>8, <1>9, <1>10, <1>11 DEF TypeOK, funding, admin, external

LEMMA TypeModify ==
  ASSUME TypeOK, NEW t \in Traders, NEW delta \in Sizes, modify_position(t, delta)
  PROVE  TypeOK'
<1>. DEFINE p        == position[t]
            new_size == p.size + delta
            grows    == Abs(new_size) > Abs(p.size)
            mark     == MarkAt(ResizedOi(t, new_size))
            owed     == FundingOwed(t)
            settled  == IF grows THEN 0 ELSE Payable(Realized(t, delta, mark))
            fund     == Settle(insurance, owed)
            margin   == margin_vault[t] - owed + settled
<1>1. IsOpen(t) /\ oi[Side(p.size)] >= Notional(t)
  BY DEF modify_position
<1>2. /\ p.size \in Int \ {0} /\ p.entry_mark \in Nat \ {0} /\ owed \in Int
      /\ delta \in Int /\ new_size \in Int \ {0}
  <2>1. p.size \in Int \ {0} /\ p.entry_mark \in Nat \ {0} /\ owed \in Int
    BY <1>1, OpenPosition
  <2>2. delta \in Int
    BY InputAssumption
  <2>3. new_size # 0
    BY DEF modify_position
  <2>. QED  BY <2>1, <2>2, <2>3
<1>3. ResizedOi(t, new_size) \in [Sides -> Nat]
  BY <1>1, <1>2, ResizedOiType
<1>4. mark \in Nat \ {0}
  BY <1>3, MarkAtType DEF modify_position
<1>5. settled \in Int
  <2>1. -delta \in Int
    BY <1>2
  <2>2. Realized(t, delta, mark) \in Int
    <3>. HIDE DEF mark
    <3>1. mark \in Int
      BY <1>4
    <3>. QED  BY <1>2, <2>1, <3>1, PricePnlType DEF Realized
  <2>. QED  BY <2>2, PayableBound
<1>. HIDE DEF mark, owed, settled
<1>6. insurance' \in [vault: Nat, deposited: Nat, paid_out: Nat]
  <2>1. insurance \in Fund /\ insurance.vault \in Nat
    BY DEF TypeOK, Fund
  <2>2. fund.vault >= 0 /\ fund.vault >= settled
    BY DEF modify_position, mark, owed, settled
  <2>3. fund.vault = insurance.vault + owed
    BY <1>2 DEF Settle
  <2>4. fund \in Fund
    BY <1>2, <2>1, <2>2, <2>3, SettleType
  <2>5. fund.vault \in Nat
    BY <2>4 DEF Fund
  <2>. HIDE DEF fund
  <2>6. Settle(fund, -settled) \in Fund
    BY <1>5, <2>2, <2>4, <2>5, SettleType
  <2>. QED  BY <2>6 DEF modify_position, mark, owed, settled, fund, Fund
<1>7. margin_vault' \in [Traders -> Nat]
  <2>1. margin >= 0
    BY DEF modify_position, mark, owed, settled
  <2>2. margin_vault' = [margin_vault EXCEPT ![t] = margin]
    BY DEF modify_position, mark, owed, settled
  <2>3. margin \in Nat
    BY <1>2, <1>5, <2>1 DEF TypeOK
  <2>. HIDE DEF margin
  <2>. QED  BY <2>2, <2>3 DEF TypeOK
<1>8. position' \in [Traders -> Positions \cup {NoPosition}]
  <2>. DEFINE entry == IF grows
                       THEN BlendEntry(Abs(p.size), p.entry_mark, Abs(delta), mark)
                       ELSE p.entry_mark
  <2>1. Abs(p.size) \in Nat \ {0} /\ Abs(delta) \in Nat
    BY <1>2 DEF Abs
  <2>2. entry \in Nat \ {0}
    BY <1>2, <1>4, <2>1, BlendEntryType
  <2>3. cum["long"] \in Int
    BY DEF TypeOK, Sides
  <2>4. position' = [position EXCEPT ![t] =
          [size |-> new_size, entry_mark |-> entry, snapshot |-> cum["long"]]]
    BY DEF modify_position, mark
  <2>5. [size |-> new_size, entry_mark |-> entry, snapshot |-> cum["long"]] \in Positions
    BY <1>2, <2>2, <2>3 DEF Positions
  <2>. QED  BY <2>4, <2>5 DEF TypeOK
<1>9. twap' \in [h1: Nat, m5: Nat]
  <2>1. update_mark_twaps(mark)
    BY DEF modify_position, mark
  <2>. QED  BY <1>4, <2>1, TwapType
<1>10. oi' \in [Sides -> Nat]
  BY <1>3 DEF modify_position
<1>11. UNCHANGED <<count, treasury, wallet, funding, admin, external>>
  BY DEF modify_position
<1>. QED  BY <1>6, <1>7, <1>8, <1>9, <1>10, <1>11 DEF TypeOK, funding, admin, external

(* What the amounts of a close are, whatever the mark. *)
LEMMA CloseType ==
  ASSUME TypeOK, NEW t \in Traders, IsOpen(t), CloseMark(t) \in Int
  PROVE  /\ CloseFee(t) \in Nat
         /\ TreasuryShare(CloseFee(t)) \in 0..CloseFee(t)
         /\ TreasuryShare(CloseFee(t)) \in Nat
         /\ CloseMargin(t) \in Int
         /\ ClosePnl(t) \in Int
<1>1. CloseFee(t) \in Nat
  <2>1. Notional(t) \in Nat /\ TAKER_FEE \in Nat
    BY OpenPosition, MarketAssumption
  <2>. QED  BY <2>1, ShareType DEF CloseFee
<1>2. TreasuryShare(CloseFee(t)) \in 0..CloseFee(t)
  BY <1>1, TreasuryShareBound
<1>3. PnlAt(t, CloseMark(t)) \in Int /\ FundingOwed(t) \in Int /\ margin_vault[t] \in Nat
  BY OpenPosition DEF TypeOK
<1>. QED  BY <1>1, <1>2, <1>3 DEF CloseMargin, ClosePnl

LEMMA TypeClose ==
  ASSUME TypeOK, NEW t \in Traders, close_position(t)
  PROVE  TypeOK'
<1>. DEFINE effective_pnl == Payable(ClosePnl(t))
            payout == CloseMargin(t) + effective_pnl
<1>1. IsOpen(t) /\ oi[Side(position[t].size)] >= Notional(t) /\ LeaveBook(t)
  BY DEF close_position, CanClose
<1>2. CloseMark(t) \in Nat \ {0}
  <2>1. ResizedOi(t, 0) \in [Sides -> Nat]
    BY <1>1, ResizedOiType
  <2>. QED  BY <2>1, MarkAtType DEF close_position, CanClose, CloseMark
<1>3. /\ TreasuryShare(CloseFee(t)) \in Nat
      /\ CloseMargin(t) \in Int /\ effective_pnl \in Int
  BY <1>1, <1>2, CloseType, PayableBound
<1>. HIDE DEF effective_pnl
<1>5. insurance' \in [vault: Nat, deposited: Nat, paid_out: Nat]
  <2>1. insurance \in Fund /\ insurance.vault \in Nat
    BY DEF TypeOK, Fund
  <2>2. insurance.vault >= effective_pnl /\ insurance' = Settle(insurance, -effective_pnl)
    BY DEF close_position, CanClose, effective_pnl
  <2>3. Settle(insurance, -effective_pnl) \in Fund
    BY <1>3, <2>1, <2>2, SettleType
  <2>. QED  BY <2>2, <2>3 DEF Fund
<1>6. treasury' \in [vault: Nat, received: Nat, paid_out: Nat]
  <2>1. Receive(treasury, TreasuryShare(CloseFee(t))) \in [vault: Nat, received: Nat, paid_out: Nat]
    BY <1>3, ReceiveType DEF TypeOK
  <2>. QED  BY <2>1 DEF close_position
<1>7. wallet' \in [Users -> Nat]
  <2>1. /\ payout >= 0
        /\ wallet' = [wallet EXCEPT ![t] = @ + payout]
    BY DEF close_position, CanClose, effective_pnl
  <2>2. wallet[t] \in Nat /\ margin_vault[t] \in Nat
    BY UsersAssumption DEF TypeOK
  <2>3. wallet[t] + payout \in Nat
    BY <1>3, <2>1, <2>2
  <2>. HIDE DEF payout
  <2>. QED  BY <2>1, <2>2, <2>3 DEF TypeOK
<1>8. /\ position' \in [Traders -> Positions \cup {NoPosition}]
      /\ margin_vault' \in [Traders -> Nat]
  BY CloseAccountsType DEF close_position
<1>9. oi' \in [Sides -> Nat] /\ count' \in [Sides -> Nat]
  BY <1>1, LeaveBookType
<1>10. twap' \in [h1: Nat, m5: Nat]
  <2>1. update_mark_twaps(CloseMark(t))
    BY DEF close_position
  <2>. QED  BY <1>2, <2>1, TwapType
<1>11. UNCHANGED <<funding, admin, external>>
  BY DEF close_position
<1>. QED  BY <1>5, <1>6, <1>7, <1>8, <1>9, <1>10, <1>11 DEF TypeOK, funding, admin, external

LEMMA TypeAdd ==
  ASSUME TypeOK, NEW t \in Traders, NEW amount \in Amounts, add_margin(t, amount)
  PROVE  TypeOK'
<1>1. amount \in Nat /\ t \in Users
  BY InputAssumption, UsersAssumption
<1>2. wallet[t] - amount \in Nat /\ margin_vault[t] + amount \in Nat
  BY <1>1 DEF TypeOK, add_margin
<1>. QED  BY <1>1, <1>2 DEF TypeOK, add_margin, funding, admin, external

LEMMA TypeWithdraw ==
  ASSUME TypeOK, NEW t \in Traders, NEW amount \in Amounts, withdraw_margin(t, amount)
  PROVE  TypeOK'
<1>1. amount \in Nat /\ t \in Users
  BY InputAssumption, UsersAssumption
<1>2. wallet[t] + amount \in Nat /\ margin_vault[t] - amount \in Nat
  BY <1>1 DEF TypeOK, withdraw_margin
<1>3. /\ margin_vault' = [margin_vault EXCEPT ![t] = margin_vault[t] - amount]
      /\ wallet' = [wallet EXCEPT ![t] = @ + amount]
      /\ UNCHANGED <<oi, count, twap, position, insurance, treasury,
                     funding, admin, external>>
  BY DEF withdraw_margin
<1>. QED  BY <1>1, <1>2, <1>3 DEF TypeOK, funding, admin, external

LEMMA TypeDeposit ==
  ASSUME TypeOK, NEW u \in Users, NEW amount \in Amounts, deposit_insurance(u, amount)
  PROVE  TypeOK'
<1>1. amount \in Nat
  BY InputAssumption
<1>2. wallet[u] - amount \in Nat
  BY <1>1 DEF TypeOK, deposit_insurance
<1>3. Settle(insurance, amount) \in [vault: Nat, deposited: Nat, paid_out: Nat]
  <2>1. insurance \in Fund /\ insurance.vault \in Nat
    BY DEF TypeOK, Fund
  <2>2. Settle(insurance, amount) \in Fund
    BY <1>1, <2>1, SettleType
  <2>. QED  BY <2>2 DEF Fund
<1>. QED  BY <1>2, <1>3 DEF TypeOK, deposit_insurance, book, funding, admin, external

LEMMA TypeWithdrawTreasury ==
  ASSUME TypeOK, NEW u \in Users, NEW amount \in Amounts, withdraw_treasury(u, amount)
  PROVE  TypeOK'
<1>1. amount \in Nat
  BY InputAssumption
<1>2. /\ wallet[u] + amount \in Nat
      /\ treasury.vault - amount \in Nat /\ treasury.paid_out + amount \in Nat
  BY <1>1 DEF TypeOK, withdraw_treasury
<1>. QED  BY <1>2 DEF TypeOK, withdraw_treasury, book, funding, admin, external

(* Every share of a liquidation is an amount, and none of them depends on  *)
(* more than the vaults held when the instruction was loaded.              *)
LEMMA LiquidationSplitType ==
  ASSUME TypeOK, NEW t \in Traders, IsOpen(t)
  PROVE  LET s == LiquidationSplit(t)
         IN  /\ s.flow \in Int /\ insurance.vault + s.flow >= 0
             /\ s.margin = margin_vault[t] - s.flow
             /\ s.margin \in Nat /\ s.topup \in Nat /\ s.liq_payout \in Nat
             /\ s.to_insurance \in Nat /\ s.to_trader \in Nat
<1>. DEFINE owed   == FundingOwed(t)
            flow   == IF owed >= 0 THEN Smaller(owed, margin_vault[t])
                                   ELSE -Smaller(-owed, insurance.vault)
            margin == margin_vault[t] - flow
            penalty   == Share(Notional(t), PENALTY)
            liq_share == penalty \div 3
            from_margin == Smaller(liq_share, margin)
            to_insurance == InsurancePart(penalty - liq_share, margin - from_margin)
            topup == Smaller(liq_share - from_margin, insurance.vault)
<1>1. owed \in Int /\ margin_vault[t] \in Nat /\ insurance.vault \in Nat
  BY OpenPosition DEF TypeOK
<1>2. penalty \in Nat
  BY OpenPosition, ShareType, MarketAssumption
<1>. HIDE DEF owed, penalty
<1>3. flow \in Int /\ insurance.vault + flow >= 0 /\ margin \in Nat
  BY <1>1 DEF Smaller
<1>. HIDE DEF flow
<1>4. liq_share \in Nat /\ penalty - liq_share \in Nat
  BY <1>2
<1>. HIDE DEF margin, liq_share
<1>5. from_margin \in Nat /\ margin - from_margin \in Nat /\ liq_share - from_margin \in Nat
  BY <1>3, <1>4 DEF Smaller
<1>. HIDE DEF from_margin
<1>6. /\ to_insurance \in Nat /\ margin - from_margin - to_insurance \in Nat
      /\ topup \in Nat
  BY <1>1, <1>3, <1>4, <1>5 DEF Smaller, InsurancePart
<1>. HIDE DEF to_insurance, topup
<1>7. LiquidationSplit(t) =
        [flow         |-> flow,
         margin       |-> margin,
         topup        |-> topup,
         liq_payout   |-> from_margin + topup,
         to_insurance |-> to_insurance,
         to_trader    |-> margin - from_margin - to_insurance]
  BY DEF LiquidationSplit, flow, margin, topup, from_margin, to_insurance, liq_share,
         penalty, owed
<1>. QED  BY <1>3, <1>5, <1>6, <1>7 DEF margin

(* What a liquidation leaves in the insurance fund. *)
LEMMA LiquidationFund ==
  ASSUME TypeOK, NEW t \in Traders, IsOpen(t), TransfersSucceed(t)
  PROVE  LET s    == LiquidationSplit(t)
             fund == Settle(Settle(Settle(insurance, s.flow), -s.topup), s.to_insurance)
         IN  /\ fund \in Fund
             /\ fund.vault - insurance.vault
                  = (fund.deposited - fund.paid_out)
                      - (insurance.deposited - insurance.paid_out)
<1>. DEFINE s  == LiquidationSplit(t)
            f1 == Settle(insurance, s.flow)
            f2 == Settle(f1, -s.topup)
            f3 == Settle(f2, s.to_insurance)
<1>1. /\ s.flow \in Int /\ insurance.vault + s.flow >= 0
      /\ s.topup \in Nat /\ s.to_insurance \in Nat
  BY LiquidationSplitType
<1>2. insurance.vault + s.flow >= s.topup
  BY DEF TransfersSucceed
<1>3. insurance \in Fund
  BY DEF TypeOK, Fund
<1>. HIDE DEF s
<1>4. /\ f1 \in Fund /\ f1.vault = insurance.vault + s.flow
      /\ f1.deposited - f1.paid_out = insurance.deposited - insurance.paid_out + s.flow
  BY <1>1, <1>3, SettleType
<1>. HIDE DEF f1
<1>5. f1.vault + (-s.topup) >= 0 /\ -s.topup \in Int
  BY <1>1, <1>2, <1>3, <1>4 DEF Fund
<1>6. /\ f2 \in Fund /\ f2.vault = f1.vault + (-s.topup)
      /\ f2.deposited - f2.paid_out = f1.deposited - f1.paid_out + (-s.topup)
  BY <1>4, <1>5, SettleType
<1>. HIDE DEF f2
<1>7. f2.vault + s.to_insurance >= 0 /\ s.to_insurance \in Int
  BY <1>1, <1>6 DEF Fund
<1>8. /\ f3 \in Fund /\ f3.vault = f2.vault + s.to_insurance
      /\ f3.deposited - f3.paid_out = f2.deposited - f2.paid_out + s.to_insurance
  BY <1>6, <1>7, SettleType
<1>. HIDE DEF f3
<1>9. f3.vault - insurance.vault
        = (f3.deposited - f3.paid_out) - (insurance.deposited - insurance.paid_out)
  BY <1>1, <1>3, <1>4, <1>6, <1>8 DEF Fund
<1>. QED  BY <1>8, <1>9 DEF f3, f2, f1, s

LEMMA TypeLiquidate ==
  ASSUME TypeOK, NEW t \in Traders, NEW liquidator \in Users, liquidate(t, liquidator)
  PROVE  TypeOK'
<1>. DEFINE s == LiquidationSplit(t)
<1>1. IsOpen(t) /\ TransfersSucceed(t) /\ LeaveBook(t)
  BY DEF liquidate, Liquidatable
<1>2. s.topup \in Nat /\ s.liq_payout \in Nat /\ s.to_trader \in Nat
  BY <1>1, LiquidationSplitType
<1>3. insurance' \in [vault: Nat, deposited: Nat, paid_out: Nat]
  BY <1>1, LiquidationFund DEF liquidate, Fund
<1>4. wallet' \in [Users -> Nat]
  <2>1. wallet' = Pay(Pay(wallet, liquidator, s.topup + s.liq_payout), t, s.to_trader)
    BY DEF liquidate
  <2>2. t \in Users /\ wallet \in [Users -> Nat] /\ s.topup + s.liq_payout \in Nat
    <3>. HIDE DEF s
    <3>. QED  BY <1>2, UsersAssumption DEF TypeOK
  <2>. HIDE DEF s
  <2>3. Pay(wallet, liquidator, s.topup + s.liq_payout) \in [Users -> Nat]
    BY <2>2, PayType
  <2>. QED  BY <1>2, <2>1, <2>2, <2>3, PayType
<1>5. /\ position' \in [Traders -> Positions \cup {NoPosition}]
      /\ margin_vault' \in [Traders -> Nat]
  BY CloseAccountsType DEF liquidate
<1>6. oi' \in [Sides -> Nat] /\ count' \in [Sides -> Nat]
  BY <1>1, LeaveBookType
<1>7. UNCHANGED <<twap, treasury, funding, admin, external>>
  BY DEF liquidate
<1>. QED  BY <1>3, <1>4, <1>5, <1>6, <1>7 DEF TypeOK, funding, admin, external

LEMMA TypeSettleFunding ==
  ASSUME TypeOK, settle_funding
  PROVE  TypeOK'
<1>. DEFINE elapsed == clock - last_funding_update
            hours   == elapsed \div HOUR
            accrual == FundingAccrual(twap.h1, index.value, risk.funding_cap, hours)
<1>1. elapsed \in Nat /\ hours \in Nat
  <2>1. elapsed \in Int /\ elapsed >= HOUR
    BY DEF TypeOK, settle_funding
  <2>. QED  BY <2>1, MarketAssumption
<1>. HIDE DEF hours
<1>2. accrual \in Int
  <2>1. twap.h1 \in Nat /\ index.value \in Nat \ {0}
    BY DEF TypeOK, settle_funding
  <2>2. risk.funding_cap \in Nat /\ risk.funding_cap <= risk.funding_cap
    BY RiskInForce
  <2>. DEFINE bound == risk.funding_cap * (SCALE \div BPS) * hours
  <2>3. accrual \in -bound .. bound /\ bound \in Nat
    BY <1>1, <2>1, <2>2, FundingAccrualBound
  <2>. HIDE DEF accrual, bound
  <2>. QED  BY <2>3
<1>. HIDE DEF accrual
<1>3. cum' \in [Sides -> Int]
  <2>1. cum["long"] + accrual \in Int
    BY <1>2 DEF TypeOK, Sides
  <2>2. cum' = IF twap.h1 > 0 THEN AccruedBoth(accrual) ELSE cum
    BY DEF settle_funding, accrual, hours
  <2>. QED  BY <2>1, <2>2 DEF TypeOK, AccruedBoth
<1>4. last_funding_update' \in Nat
  <2>1. hours * HOUR \in Nat
    BY <1>1, MarketAssumption
  <2>. QED  BY <2>1 DEF TypeOK, settle_funding, hours
<1>5. UNCHANGED <<book, money, admin, external>>
  BY DEF settle_funding
<1>. QED  BY <1>3, <1>4, <1>5 DEF TypeOK, book, money, admin, external

(* The top-up of a deleveraged winner is within the vault and within the   *)
(* profit, because a haircut is at most the whole.                         *)
LEMMA ADLTopupBound ==
  ASSUME TypeOK, NEW t \in Traders, IsOpen(t)
  PROVE  ADLTopup(t) \in 0 .. insurance.vault
<1>. DEFINE pnl == PnlAt(t, index.value)
<1>1. pnl \in Int /\ insurance.vault \in Nat
  BY OpenPosition DEF TypeOK
<1>. HIDE DEF pnl
<1>2. CASE pnl > 0
  <2>1. Share(pnl, ADL_HAIRCUT) \in 0..pnl
    BY <1>1, <1>2, ShareOfWhole, MarketAssumption
  <2>. QED  BY <1>1, <1>2, <2>1 DEF ADLTopup, Smaller, pnl
<1>3. CASE ~(pnl > 0)
  BY <1>1, <1>3 DEF ADLTopup, pnl
<1>. QED  BY <1>2, <1>3

(* What deleveraging leaves in the insurance fund. *)
LEMMA DeleveragingFund ==
  ASSUME TypeOK, NEW t \in Traders, IsOpen(t), NEW sweep \in Nat
  PROVE  LET fund == Settle(Settle(insurance, -ADLTopup(t)), sweep)
         IN  /\ fund \in Fund
             /\ fund.vault - insurance.vault
                  = (fund.deposited - fund.paid_out)
                      - (insurance.deposited - insurance.paid_out)
<1>. DEFINE f1 == Settle(insurance, -ADLTopup(t))
            f2 == Settle(f1, sweep)
<1>1. ADLTopup(t) \in Nat /\ ADLTopup(t) <= insurance.vault
  BY ADLTopupBound DEF TypeOK
<1>2. insurance \in Fund /\ insurance.vault \in Nat
  BY DEF TypeOK, Fund
<1>3. /\ f1 \in Fund /\ f1.vault = insurance.vault + (-ADLTopup(t))
      /\ f1.deposited - f1.paid_out
           = insurance.deposited - insurance.paid_out + (-ADLTopup(t))
  <2>1. -ADLTopup(t) \in Int /\ insurance.vault + (-ADLTopup(t)) >= 0
    BY <1>1, <1>2
  <2>. QED  BY <1>2, <2>1, SettleType
<1>. HIDE DEF f1
<1>4. /\ f2 \in Fund /\ f2.vault = f1.vault + sweep
      /\ f2.deposited - f2.paid_out = f1.deposited - f1.paid_out + sweep
  <2>1. f1.vault + sweep >= 0
    BY <1>3 DEF Fund
  <2>. QED  BY <1>3, <2>1, SettleType
<1>. HIDE DEF f2
<1>5. f2.vault - insurance.vault
        = (f2.deposited - f2.paid_out) - (insurance.deposited - insurance.paid_out)
  BY <1>1, <1>2, <1>3, <1>4 DEF Fund
<1>. QED  BY <1>4, <1>5 DEF f2, f1

LEMMA TypeDeleverage ==
  ASSUME TypeOK, NEW t \in Traders, NEW w \in WitnessLists(t), auto_deleverage(t, w)
  PROVE  TypeOK'
<1>. DEFINE pnl     == PnlAt(t, index.value)
            balance == margin_vault[t] + ADLTopup(t)
            payout  == IF pnl >= 0 THEN balance ELSE Monus(balance, -pnl)
<1>1. IsOpen(t) /\ LeaveBook(t)
  BY DEF auto_deleverage
<1>2. pnl \in Int /\ balance \in Nat
  BY <1>1, OpenPosition, ADLTopupBound DEF TypeOK
<1>. HIDE DEF pnl, balance
<1>3. payout \in Nat /\ balance - payout \in Nat
  BY <1>2 DEF Monus
<1>. HIDE DEF payout
<1>4. insurance' \in [vault: Nat, deposited: Nat, paid_out: Nat]
  <2>1. insurance' = Settle(Settle(insurance, -ADLTopup(t)), balance - payout)
    BY DEF auto_deleverage, payout, balance, pnl
  <2>. QED  BY <1>1, <1>3, <2>1, DeleveragingFund DEF Fund
<1>5. wallet' \in [Users -> Nat]
  <2>1. wallet' = [wallet EXCEPT ![t] = @ + payout]
    BY DEF auto_deleverage, payout, balance, pnl
  <2>2. wallet[t] + payout \in Nat
    BY <1>3, UsersAssumption DEF TypeOK
  <2>. QED  BY <2>1, <2>2 DEF TypeOK
<1>6. /\ position' \in [Traders -> Positions \cup {NoPosition}]
      /\ margin_vault' \in [Traders -> Nat]
  BY CloseAccountsType DEF auto_deleverage
<1>7. oi' \in [Sides -> Nat] /\ count' \in [Sides -> Nat]
  BY <1>1, LeaveBookType
<1>8. UNCHANGED <<twap, treasury, funding, admin, external>>
  BY DEF auto_deleverage
<1>. QED  BY <1>4, <1>5, <1>6, <1>7, <1>8 DEF TypeOK, funding, admin, external

LEMMA TypeAdmin ==
  ASSUME TypeOK, AdminSteps
  PROVE  TypeOK'
<1>1. ASSUME NEW u \in Users, NEW a \in Amounts, withdraw_treasury(u, a)
      PROVE  TypeOK'
  BY <1>1, TypeWithdrawTreasury
<1>2. ASSUME NEW tr \in BOOLEAN, NEW fu \in BOOLEAN, set_pause(tr, fu)
      PROVE  TypeOK'
  BY <1>2 DEF TypeOK, set_pause, book, funding, money, external
<1>3. ASSUME NEW n \in 0..4, set_phase(n)
      PROVE  TypeOK'
  <2>1. n \in 0..3 /\ phase' = n
    BY <1>3 DEF set_phase
  <2>2. risk' \in AllRisks
    BY <1>3 DEF set_phase, AllRisks, TypeOK
  <2>3. UNCHANGED <<book, funding, paused, money, external>>
    BY <1>3 DEF set_phase
  <2>. QED  BY <2>1, <2>2, <2>3 DEF TypeOK, book, funding, money, external
<1>4. ASSUME NEW r \in RiskChoices, update_risk_params(r)
      PROVE  TypeOK'
  BY <1>4 DEF TypeOK, update_risk_params, AllRisks, book, funding, money, external
<1>. QED  BY <1>1, <1>2, <1>3, <1>4 DEF AdminSteps

LEMMA TypeEnvironment ==
  ASSUME TypeOK, EnvironmentSteps
  PROVE  TypeOK'
<1>1. ASSUME NEW v \in IndexValues, IndexAggregated(v)
      PROVE  TypeOK'
  BY <1>1, InputAssumption
     DEF TypeOK, IndexAggregated, book, funding, admin, money
<1>2. ASSUME IndexFinalized
      PROVE  TypeOK'
  <2>1. index' \in [status: {"Provisional", "Final"}, value: Nat]
    BY <1>2 DEF TypeOK, IndexFinalized
  <2>. QED  BY <1>2, <2>1 DEF TypeOK, IndexFinalized, book, funding, admin, money
<1>3. ASSUME NEW d \in Durations, Elapse(d)
      PROVE  TypeOK'
  <2>1. clock' \in Nat
    BY <1>3, InputAssumption DEF TypeOK, Elapse
  <2>. QED  BY <1>3, <2>1 DEF TypeOK, Elapse, book, funding, admin, money
<1>4. ASSUME NEW a \in Amounts, OracleSlash(a)
      PROVE  TypeOK'
  <2>1. a \in Nat /\ treasury.vault + a \in Nat /\ unbooked.treasury + a \in Nat
    BY InputAssumption DEF TypeOK
  <2>2. treasury' \in [vault: Nat, received: Nat, paid_out: Nat]
    BY <1>4, <2>1 DEF TypeOK, OracleSlash
  <2>3. unbooked' \in [insurance: Nat, treasury: Nat]
    BY <1>4, <2>1 DEF TypeOK, OracleSlash
  <2>. QED  BY <1>4, <2>2, <2>3 DEF TypeOK, OracleSlash, book, funding, admin
<1>5. ASSUME NEW a \in Amounts, Donation(a)
      PROVE  TypeOK'
  <2>1. a \in Nat /\ insurance.vault + a \in Nat /\ unbooked.insurance + a \in Nat
    BY InputAssumption DEF TypeOK
  <2>2. insurance' \in [vault: Nat, deposited: Nat, paid_out: Nat]
    BY <1>5, <2>1 DEF TypeOK, Donation
  <2>3. unbooked' \in [insurance: Nat, treasury: Nat]
    BY <1>5, <2>1 DEF TypeOK, Donation
  <2>. QED  BY <1>5, <2>2, <2>3 DEF TypeOK, Donation, book, funding, admin
<1>. QED  BY <1>1, <1>2, <1>3, <1>4, <1>5 DEF EnvironmentSteps

-----------------------------------------------------------------------------

LEMMA TypeInit == Init => TypeOK
  BY UsersAssumption DEF Init, TypeOK, AllRisks, Sides

LEMMA TypeStep == TypeOK /\ [Next]_vars => TypeOK'
<1>. SUFFICES ASSUME TypeOK, [Next]_vars
              PROVE  TypeOK'
  OBVIOUS
<1>1. CASE TraderSteps
  BY <1>1, TypeOpen, TypeModify, TypeClose, TypeAdd, TypeWithdraw DEF TraderSteps
<1>2. CASE PublicSteps
  BY <1>2, TypeLiquidate, TypeSettleFunding, TypeDeleverage, TypeDeposit DEF PublicSteps
<1>3. CASE AdminSteps
  BY <1>3, TypeAdmin
<1>4. CASE EnvironmentSteps
  BY <1>4, TypeEnvironment
<1>5. CASE UNCHANGED vars
  BY <1>5 DEF TypeOK, vars, book, funding, admin, money, external
<1>. QED  BY <1>1, <1>2, <1>3, <1>4, <1>5 DEF Next

(* Every account always holds a number its on-chain field can hold: no     *)
(* order of instructions of any signers takes a vault, a wallet, a total   *)
(* or the open interest below zero.                                        *)
THEOREM TypeCorrect == Spec => []TypeOK
  BY TypeInit, TypeStep, PTL DEF Spec
=============================================================================
