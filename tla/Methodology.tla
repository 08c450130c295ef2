---------------------------- MODULE Methodology -----------------------------
(***************************************************************************)
(* How a publisher turns sold listings into a price,                       *)
(* services/publisher/src/methodology.rs.  A listing is a record of its    *)
(* price, its shipping cost, its age in days, and whether its title passes *)
(* the filters (PSA 10 without a qualifier, English, the right variant).   *)
(* An answer of the source maps ids to listings (a sequence, say): the     *)
(* order they come in is of no account, and a sample is a set of ids.      *)
(***************************************************************************)
EXTENDS Integers, Sequences, FiniteSets, FiniteSetsExt

CONSTANTS
  TRIM_TOP, TRIM_BOTTOM,   \* per cent dropped at either end (trim_top_pct, trim_bottom_pct)
  MIN_SAMPLE,   \* min_sample_size
  WINDOWS,      \* the primary window and its fallbacks, in days
  DECAY_DAYS    \* days after which a stale price has decayed to nothing

(* The configuration's percentages and sample size are not validated.      *)
ASSUME MethodologyAssumption ==
  /\ TRIM_TOP \in Nat /\ TRIM_BOTTOM \in Nat /\ MIN_SAMPLE \in Nat
  /\ WINDOWS \in Seq(Nat) /\ WINDOWS # <<>>
  /\ DECAY_DAYS \in Nat \ {0}

NoPrice == 0    \* None: a price of a sale is never 0

shipping_ratio_ok(l) == l.price > 0 /\ 2 * l.shipping <= l.price

apply_filters(listings) ==
  {i \in DOMAIN listings : listings[i].fits /\ shipping_ratio_ok(listings[i])}

InWindow(listings, days) == {i \in apply_filters(listings) : listings[i].age <= days}

PricesOf(listings, sample) == [i \in sample |-> listings[i].price]

(* The k-th of the prices when they are sorted. *)
Lowest(prices, k) ==
  Min({prices[i] : i \in {j \in DOMAIN prices :
         Cardinality({l \in DOMAIN prices : prices[l] <= prices[j]}) >= k}})

(* How many of n prices are dropped at each end. *)
TopTrim(n) == (n * TRIM_TOP) \div 100
BottomTrim(n) == (n * TRIM_BOTTOM) \div 100

(* Nothing, if trimming leaves nothing. *)
trimmed_mean(prices) ==
  LET n    == Cardinality(DOMAIN prices)
      kept == (BottomTrim(n) + 1)..(n - TopTrim(n))
  IN  IF kept = {} THEN NoPrice
      ELSE MapThenSumSet(LAMBDA k : Lowest(prices, k), kept) \div Cardinality(kept)

MeanOf(listings, sample) == trimmed_mean(PricesOf(listings, sample))

(* The windows whose sample is large enough and not trimmed away. *)
Enough(listings) ==
  {i \in DOMAIN WINDOWS :
     LET sample == InWindow(listings, WINDOWS[i])
     IN  Cardinality(sample) >= MIN_SAMPLE /\ MeanOf(listings, sample) # NoPrice}

(* The windows are tried in their order; the first with a mean decides. *)
compute_constituent_Widest(listings) ==
  IF Enough(listings) = {} THEN NoPrice
  ELSE MeanOf(listings, InWindow(listings, WINDOWS[Max(Enough(listings))]))
compute_constituent(listings) ==
  IF Enough(listings) = {} THEN NoPrice
  ELSE MeanOf(listings, InWindow(listings, WINDOWS[Min(Enough(listings))]))

(* The registry's base price, less a fixed share of it for every day. *)
apply_decay(base, days) ==
  IF days >= DECAY_DAYS THEN 0 ELSE (base * (DECAY_DAYS - days)) \div DECAY_DAYS

=============================================================================
