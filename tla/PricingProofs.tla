--------------------------- MODULE PricingProofs ---------------------------
(***************************************************************************)
(* Facts about the price arithmetic, for every price and every list.       *)
(***************************************************************************)
EXTENDS Pricing, FiniteSetsExt, FiniteSetTheorems, TLAPS

\* A CFAR premium lies between 1500 and 5000 roubles, whatever the flight
\* costs (calculateCfarPremium).
THEOREM CfarPremiumInBounds ==
  ASSUME NEW price \in Nat
  PROVE  /\ CfarPremium(price) \in Nat
         /\ 1500 <= CfarPremium(price)
         /\ CfarPremium(price) <= 5000
<1> DEFINE share == (12 * price + 50) \div 100
<1>1. share \in Int
  OBVIOUS
<1> HIDE DEF share
<1>2. /\ Clamp(1500, 5000, share) \in Nat
      /\ 1500 <= Clamp(1500, 5000, share)
      /\ Clamp(1500, 5000, share) <= 5000
  <2>1. CASE share < 1500
    BY <2>1 DEF Clamp
  <2>2. CASE share > 5000
    BY <2>2, <1>1 DEF Clamp
  <2>3. CASE 1500 <= share /\ share <= 5000
    BY <2>3, <1>1 DEF Clamp
  <2>4. QED
    BY <1>1, <2>1, <2>2, <2>3
<1>3. QED
  BY <1>2 DEF CfarPremium, share

\* Every requested protection has a premium of whole roubles, or none.
LEMMA PremiumType ==
  ASSUME NEW price \in Nat, NEW kind \in RequestedKind
  PROVE  Premium(kind, price) \in Nat
<1>1. CfarPremium(price) \in Nat
  BY CfarPremiumInBounds
<1>2. CASE kind = "cancel_for_any_reason"
  BY <1>1, <1>2 DEF Premium
<1>3. CASE kind = "price_drop"
  BY <1>3 DEF Premium, PriceDropPremium
<1>4. CASE kind = "price_freeze"
  BY <1>4 DEF Premium
<1>5. QED
  BY <1>2, <1>3, <1>4 DEF RequestedKind

\* toProtectionType yields a type of the protections table for any input.
LEMMA ToProtectionTypeType ==
  ASSUME NEW kind
  PROVE  ToProtectionType(kind) \in ProtectionType
BY DEF ToProtectionType, ProtectionType

\* Counting the entries of one kind in a list gives a natural number.
LEMMA CountOfType ==
  ASSUME NEW kind, NEW list, NEW n \in Nat
  PROVE  CountOf(kind, list, n) \in Nat
<1> DEFINE S == {i \in 1 .. n : list[i] = kind}
<1>1. IsFiniteSet(1 .. n)
  BY FS_Interval
<1>2. IsFiniteSet(S)
  BY <1>1, FS_Subset
<1>3. QED
  BY <1>2, FS_CardinalityType DEF CountOf

\* The premiums of the first entries of a list add up to whole roubles.
LEMMA PartialTotalType ==
  ASSUME NEW price \in Nat, NEW list, NEW n \in Nat
  PROVE  PartialTotal(list, price, n) \in Nat
<1>1. /\ CountOf("cancel_for_any_reason", list, n) \in Nat
      /\ CountOf("price_drop", list, n) \in Nat
  BY CountOfType
<1>2. CfarPremium(price) \in Nat
  BY CfarPremiumInBounds
<1>3. \A x, y \in Nat : x * y \in Nat
  OBVIOUS
<1>4. QED
  BY <1>1, <1>2, <1>3 DEF PartialTotal, PriceDropPremium

\* What a booking costs with its protections is a number of roubles.
LEMMA TotalPriceType ==
  ASSUME NEW price \in Nat, NEW list \in Seq(RequestedKind)
  PROVE  TotalPrice(list, price) \in Nat
BY PartialTotalType DEF TotalPrice, ProtectionTotal

\* So is what the airline's policy pays back (never below 0).
LEMMA AirlineRefundType ==
  ASSUME NEW total \in Nat
  PROVE  AirlineRefund(total) \in Nat
BY DEF AirlineRefund

-----------------------------------------------------------------------------
(* Sums over a list: what PartialTotal says entry by entry.                *)

\* Every set of natural numbers that has one has a least one: the induction the
\* proofs below use.
LEMMA LeastNumber ==
  ASSUME NEW S, S \subseteq Nat, S # {}
  PROVE  \E n \in S : \A m \in S : n <= m
<1>1. IsWellFoundedOn(OpToRel(<, Nat), Nat)
  BY NatLessThanWellFounded
<1>2. PICK n \in S : \A m \in S : ~ (<<m, n>> \in OpToRel(<, Nat))
  BY <1>1, WFMin
<1>3. \A m \in S : ~ (m < n)
  BY <1>2 DEF OpToRel
<1> QED
  BY <1>3

\* As CountOf, of any of the entries.
CountIn(kind, list, s) == Cardinality({i \in s : list[i] = kind})

LEMMA CountInType ==
  ASSUME NEW kind, NEW list, NEW s, IsFiniteSet(s)
  PROVE  CountIn(kind, list, s) \in Nat
<1>1. IsFiniteSet({i \in s : list[i] = kind})
  BY FS_Subset
<1> QED
  BY <1>1, FS_CardinalityType DEF CountIn

\* An entry counts once, for its own kind.
LEMMA CountInWith ==
  ASSUME NEW kind, NEW list, NEW s, IsFiniteSet(s), NEW x \in s
  PROVE  CountIn(kind, list, s) =
           CountIn(kind, list, s \ {x}) + (IF list[x] = kind THEN 1 ELSE 0)
<1> DEFINE all == {i \in s : list[i] = kind}
           others == {i \in s \ {x} : list[i] = kind}
<1>1. IsFiniteSet(all) /\ IsFiniteSet(others) /\ Cardinality(others) \in Nat
  <2>1. IsFiniteSet(all) /\ IsFiniteSet(others)
    BY FS_Subset
  <2> QED
    BY <2>1, FS_CardinalityType
<1>2. CASE list[x] = kind
  <2>1. all = others \cup {x} /\ x \notin others
    BY <1>2
  <2>2. Cardinality(all) = Cardinality(others) + 1
    BY <1>1, <2>1, FS_AddElement
  <2> QED
    BY <1>2, <2>2 DEF CountIn
<1>3. CASE list[x] # kind
  <2>1. all = others
    BY <1>3
  <2> QED
    BY <1>1, <1>3, <2>1 DEF CountIn
<1> QED
  BY <1>2, <1>3

\* What the entries in s cost together; PartialTotal is that of the first n.
TotalOf(list, price, s) ==
  CountIn("cancel_for_any_reason", list, s) * CfarPremium(price)
    + CountIn("price_drop", list, s) * PriceDropPremium

LEMMA TotalOfType ==
  ASSUME NEW list, NEW price \in Nat, NEW s, IsFiniteSet(s)
  PROVE  TotalOf(list, price, s) \in Nat
<1>1. \A x, y \in Nat : x * y \in Nat
  OBVIOUS
<1> QED
  BY <1>1, CountInType, CfarPremiumInBounds DEF TotalOf, PriceDropPremium

LEMMA TotalOfNothing ==
  ASSUME NEW list, NEW price \in Nat
  PROVE  TotalOf(list, price, {}) = 0
<1>1. \A kind : CountIn(kind, list, {}) = 0
  BY FS_EmptySet DEF CountIn
<1>2. \A x \in Nat : 0 * x = 0
  OBVIOUS
<1> QED
  BY <1>1, <1>2, CfarPremiumInBounds DEF TotalOf, PriceDropPremium

\* One entry more costs its premium more.
LEMMA TotalOfWith ==
  ASSUME NEW list, NEW price \in Nat, NEW s, IsFiniteSet(s), NEW x \in s,
         list[x] \in RequestedKind
  PROVE  TotalOf(list, price, s) = TotalOf(list, price, s \ {x}) + Premium(list[x], price)
<1> DEFINE c(t) == CountIn("cancel_for_any_reason", list, t)
           d(t) == CountIn("price_drop", list, t)
<1>1. /\ c(s \ {x}) \in Nat /\ d(s \ {x}) \in Nat
      /\ c(s) = c(s \ {x}) + (IF list[x] = "cancel_for_any_reason" THEN 1 ELSE 0)
      /\ d(s) = d(s \ {x}) + (IF list[x] = "price_drop" THEN 1 ELSE 0)
  <2>1. IsFiniteSet(s \ {x})
    BY FS_RemoveElement
  <2> QED
    BY <2>1, CountInType, CountInWith
<1>2. CfarPremium(price) \in Nat
  BY CfarPremiumInBounds
<1>3. \A m, p \in Nat : (m + 1) * p = m * p + p /\ (m + 0) * p = m * p /\ m * p \in Nat
  OBVIOUS
<1> HIDE DEF c, d
<1>4. /\ TotalOf(list, price, s) = c(s) * CfarPremium(price) + d(s) * 1500
      /\ TotalOf(list, price, s \ {x}) = c(s \ {x}) * CfarPremium(price) + d(s \ {x}) * 1500
  BY DEF TotalOf, PriceDropPremium, c, d
<1> DEFINE p == CfarPremium(price)
           m == c(s \ {x})
<1>5. (m + 1) * p = m * p + p /\ m * p \in Nat /\ p \in Nat
  BY <1>1, <1>2, <1>3
<1>6. CASE list[x] = "cancel_for_any_reason"
  <2>1. Premium(list[x], price) = p
    BY <1>6 DEF Premium
  <2>2. c(s) = m + 1 /\ d(s) = d(s \ {x})
    BY <1>1, <1>6
  <2>3. TotalOf(list, price, s) = (m + 1) * p + d(s \ {x}) * 1500
    BY <1>4, <2>2
  <2> DEFINE q == m * p
             e == d(s \ {x}) * 1500
  <2>4. TotalOf(list, price, s \ {x}) = q + e /\ q \in Nat /\ e \in Nat /\ p \in Nat
    BY <1>1, <1>4, <1>5
  <2>5. TotalOf(list, price, s) = (q + p) + e
    BY <1>5, <2>3
  <2> HIDE DEF m, p, q, e
  <2> QED
    BY <2>1, <2>4, <2>5
<1>7. CASE list[x] = "price_drop"
  <2>1. Premium(list[x], price) = 1500
    BY <1>7 DEF Premium, PriceDropPremium
  <2>2. c(s) = m /\ d(s) = d(s \ {x}) + 1
    BY <1>1, <1>7
  <2>3. TotalOf(list, price, s) = m * p + (d(s \ {x}) + 1) * 1500
    BY <1>4, <2>2
  <2> DEFINE e == d(s \ {x})
  <2>4. TotalOf(list, price, s \ {x}) = m * p + e * 1500 /\ e \in Nat
    BY <1>1, <1>4
  <2> HIDE DEF m, p, e
  <2>5. TotalOf(list, price, s) = m * p + (e + 1) * 1500
    BY <2>3 DEF e
  <2> DEFINE q == m * p
  <2>6. q \in Nat
    BY <1>5
  <2> HIDE DEF q
  <2>7. q + (e + 1) * 1500 = (q + e * 1500) + 1500
    BY <2>4, <2>6
  <2> QED
    BY <2>1, <2>4, <2>5, <2>7 DEF q
<1>8. CASE list[x] = "price_freeze"
  <2>1. Premium(list[x], price) = 0
    BY <1>8 DEF Premium
  <2>2. c(s) = m /\ d(s) = d(s \ {x})
    BY <1>1, <1>8
  <2>3. TotalOf(list, price, s) = TotalOf(list, price, s \ {x})
    BY <1>4, <2>2
  <2>4. TotalOf(list, price, s \ {x}) \in Nat
    BY TotalOfType, FS_RemoveElement
  <2> QED
    BY <2>1, <2>3, <2>4
<1> QED
  BY <1>6, <1>7, <1>8 DEF RequestedKind

LEMMA PartialTotalIsTotalOf ==
  ASSUME NEW list, NEW price, NEW n \in Nat
  PROVE  PartialTotal(list, price, n) = TotalOf(list, price, 1 .. n)
BY DEF PartialTotal, TotalOf, CountOf, CountIn

\* The accumulator of the protection loop grows by the premium of the entry.
LEMMA PartialTotalNext ==
  ASSUME NEW list, NEW price \in Nat, NEW n \in Nat, list[n + 1] \in RequestedKind
  PROVE  PartialTotal(list, price, n + 1) =
           PartialTotal(list, price, n) + Premium(list[n + 1], price)
<1>1. IsFiniteSet(1 .. n + 1) /\ n + 1 \in 1 .. n + 1
  BY FS_Interval
<1>2. (1 .. n + 1) \ {n + 1} = 1 .. n
  OBVIOUS
<1>3. n + 1 \in Nat
  OBVIOUS
<1>4. TotalOf(list, price, 1 .. n + 1) =
        TotalOf(list, price, (1 .. n + 1) \ {n + 1}) + Premium(list[n + 1], price)
  BY <1>1, TotalOfWith
<1>5. TotalOf(list, price, 1 .. n + 1) =
        TotalOf(list, price, 1 .. n) + Premium(list[n + 1], price)
  BY <1>2, <1>4
<1>6. /\ PartialTotal(list, price, n + 1) = TotalOf(list, price, 1 .. n + 1)
      /\ PartialTotal(list, price, n) = TotalOf(list, price, 1 .. n)
  BY <1>3, PartialTotalIsTotalOf
<1> QED
  BY <1>5, <1>6

\* No entry costs more than all of them.
LEMMA PremiumInTotal ==
  ASSUME NEW price \in Nat, NEW n \in Nat, NEW list, NEW k \in 1 .. n,
         list[k] \in RequestedKind
  PROVE  Premium(list[k], price) <= PartialTotal(list, price, n)
<1>1. IsFiniteSet(1 .. n) /\ IsFiniteSet((1 .. n) \ {k})
  <2>1. IsFiniteSet(1 .. n)
    BY FS_Interval
  <2> QED
    BY <2>1, FS_RemoveElement
<1>2. TotalOf(list, price, (1 .. n) \ {k}) \in Nat
  BY <1>1, TotalOfType
<1>3. Premium(list[k], price) \in Nat
  BY PremiumType
<1>4. TotalOf(list, price, 1 .. n) =
        TotalOf(list, price, (1 .. n) \ {k}) + Premium(list[k], price)
  BY <1>1, TotalOfWith
<1>5. Premium(list[k], price) <= TotalOf(list, price, 1 .. n)
  BY <1>2, <1>3, <1>4
<1> QED
  BY <1>5, PartialTotalIsTotalOf

\* What it is for g to hold the sum of f over every subset of S, as the folds
\* of the community modules define it.
Chosen(s) == CHOOSE x \in s : TRUE

SumsOf(g, f, S) ==
  g = [s \in SUBSET S |-> IF s = {} THEN 0 ELSE f[Chosen(s)] + g[s \ {Chosen(s)}]]

LEMMA SumFunctionSums ==
  ASSUME NEW f, NEW S, S = DOMAIN f, \E g : SumsOf(g, f, S)
  PROVE  \E g : SumsOf(g, f, S) /\ SumFunction(f) = g[S]
<1> DEFINE sum == CHOOSE g : SumsOf(g, f, S)
<1>1. SumsOf(sum, f, S)
  OBVIOUS
<1>2. SumFunction(f) = sum[S]
  BY DEF SumFunction, SumFunctionOnSet, FoldFunctionOnSet, MapThenFoldSet, SumsOf, Chosen
<1> QED
  BY <1>1, <1>2

\* The premiums of a list, added up in any order, are its PartialTotal.
LEMMA PremiumsAddUp ==
  ASSUME NEW price \in Nat, NEW n \in Nat, NEW list,
         \A i \in 1 .. n : list[i] \in RequestedKind,
         NEW f, DOMAIN f = 1 .. n,
         \A i \in 1 .. n : f[i] = Premium(list[i], price)
  PROVE  SumFunction(f) = PartialTotal(list, price, n)
<1> DEFINE S == 1 .. n
<1>1. \A s \in SUBSET S : IsFiniteSet(s) /\ Cardinality(s) \in Nat
  <2>1. IsFiniteSet(S)
    BY FS_Interval
  <2> QED
    BY <2>1, FS_Subset, FS_CardinalityType
<1>2. \A s \in SUBSET S : s # {} =>
        /\ Chosen(s) \in s
        /\ s \ {Chosen(s)} \in SUBSET S
        /\ Cardinality(s \ {Chosen(s)}) = Cardinality(s) - 1
        /\ TotalOf(list, price, s) =
             f[Chosen(s)] + TotalOf(list, price, s \ {Chosen(s)})
  <2> SUFFICES ASSUME NEW s \in SUBSET S, s # {}
               PROVE  /\ Chosen(s) \in s
                      /\ s \ {Chosen(s)} \in SUBSET S
                      /\ Cardinality(s \ {Chosen(s)}) = Cardinality(s) - 1
                      /\ TotalOf(list, price, s) =
                           f[Chosen(s)] + TotalOf(list, price, s \ {Chosen(s)})
    OBVIOUS
  <2>1. Chosen(s) \in s
    BY DEF Chosen
  <2>2. PICK x \in s : x = Chosen(s)
    BY <2>1
  <2>3. IsFiniteSet(s) /\ IsFiniteSet(s \ {x}) /\ Cardinality(s \ {x}) = Cardinality(s) - 1
    BY <1>1, FS_RemoveElement
  <2>4. x \in 1 .. n /\ list[x] \in RequestedKind /\ f[x] = Premium(list[x], price)
    OBVIOUS
  <2>5. TotalOf(list, price, s) = TotalOf(list, price, s \ {x}) + Premium(list[x], price)
    BY <2>3, <2>4, TotalOfWith
  <2>6. TotalOf(list, price, s \ {x}) \in Nat /\ Premium(list[x], price) \in Nat
    BY <2>3, <2>4, TotalOfType, PremiumType
  <2>7. TotalOf(list, price, s) = f[x] + TotalOf(list, price, s \ {x})
    BY <2>4, <2>5, <2>6
  <2> QED
    BY <2>1, <2>2, <2>3, <2>7
<1>3. TotalOf(list, price, {}) = 0
  BY TotalOfNothing
<1> DEFINE g == [s \in SUBSET S |-> TotalOf(list, price, s)]
<1>4. SumsOf(g, f, S)
  <2>1. \A s \in SUBSET S :
          TotalOf(list, price, s) = IF s = {} THEN 0 ELSE f[Chosen(s)] + g[s \ {Chosen(s)}]
    BY <1>2, <1>3
  <2> QED
    BY <2>1 DEF SumsOf
<1>5. PICK h : SumsOf(h, f, S) /\ SumFunction(f) = h[S]
  BY <1>4, SumFunctionSums
<1>6. \A s \in SUBSET S :
        h[s] = IF s = {} THEN 0 ELSE f[Chosen(s)] + h[s \ {Chosen(s)}]
  BY <1>5 DEF SumsOf
<1> HIDE DEF S, g
<1>7. \A s \in SUBSET S : h[s] = TotalOf(list, price, s)
  <2> DEFINE wrong == {s \in SUBSET S : h[s] # TotalOf(list, price, s)}
             sizes == {Cardinality(s) : s \in wrong}
  <2>1. SUFFICES ASSUME wrong # {} PROVE FALSE
    OBVIOUS
  <2>2. sizes \subseteq Nat /\ sizes # {}
    BY <1>1, <2>1
  <2>3. PICK m \in sizes : \A k \in sizes : m <= k
    BY <2>2, LeastNumber
  <2>4. PICK s \in wrong : Cardinality(s) = m
    BY <2>3
  <2>5. s # {}
    BY <1>3, <1>6, <2>4
  <2>6. s \ {Chosen(s)} \in wrong
    BY <1>2, <1>6, <2>4, <2>5
  <2>7. Cardinality(s \ {Chosen(s)}) = m - 1 /\ m \in Nat
    BY <1>2, <2>2, <2>4, <2>5
  <2>8. m <= Cardinality(s \ {Chosen(s)})
    BY <2>3, <2>6
  <2> QED
    BY <2>7, <2>8
<1>8. SumFunction(f) = TotalOf(list, price, S)
  BY <1>5, <1>7
<1> QED
  BY <1>8, PartialTotalIsTotalOf DEF S
=============================================================================
