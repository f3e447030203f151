------------------------ MODULE RewardAmountsProofs ------------------------
(***************************************************************************)
(* Facts about sums of amounts and about smallest elements, for every set  *)
(* of grants and all amounts.                                              *)
(***************************************************************************)
EXTENDS RewardAmounts, FiniteSetTheorems, WellFoundedInduction, TLAPS

(* The interval of the first n numbers has n elements.                     *)
LEMMA FirstNumbers ==
  ASSUME NEW n \in Nat, n > 0
  PROVE  IsFiniteSet(1 .. n) /\ Cardinality(1 .. n) = n
<1>1. 1 \in Int /\ n \in Int /\ ~ (1 > n)
  OBVIOUS
<1>2. IsFiniteSet(1 .. n) /\ Cardinality(1 .. n) = n - 1 + 1
  BY <1>1, FS_Interval, Zenon
<1>3. QED
  BY <1>2

(* The units of one grant are as many as its amount.                       *)
LEMMA UnitsOfOne ==
  ASSUME NEW g \in Grants
  PROVE  IsFiniteSet(UnitsOf(g)) /\ Cardinality(UnitsOf(g)) = Amount[g]
<1>1. Amount[g] \in Nat /\ Amount[g] > 0
  BY AmountsAssumption
<1>2. IsFiniteSet(1 .. Amount[g]) /\ Cardinality(1 .. Amount[g]) = Amount[g]
  BY <1>1, FirstNumbers
<1>3. IsFiniteSet({g}) /\ Cardinality({g}) = 1
  BY FS_Singleton
<1>4. /\ IsFiniteSet({g} \X (1 .. Amount[g]))
      /\ Cardinality({g} \X (1 .. Amount[g])) = 1 * Amount[g]
  BY <1>2, <1>3, FS_Product, Zenon
<1>5. QED
  BY <1>1, <1>4 DEF UnitsOf

(* The sum over any set of grants is a natural number.                     *)
LEMMA TotalType ==
  ASSUME NEW S \in SUBSET Grants
  PROVE  IsFiniteSet(S) /\ IsFiniteSet(Units(S)) /\ Total(S) \in Nat
<1>1. IsFiniteSet(S)
  BY GrantsAssumption, FS_Subset
<1>2. \A g \in S : IsFiniteSet(UnitsOf(g))
  BY UnitsOfOne
<1>3. IsFiniteSet({UnitsOf(g) : g \in S})
  <2>1. \A g \in S : UnitsOf(g) \in {UnitsOf(h) : h \in S}
    OBVIOUS
  <2>2. [g \in S |-> UnitsOf(g)] \in Surjection(S, {UnitsOf(g) : g \in S})
    BY <2>1 DEF Surjection
  <2>3. QED
    BY <1>1, <2>2, FS_Surjection
<1>4. IsFiniteSet(UNION {UnitsOf(g) : g \in S})
  BY <1>2, <1>3, FS_UNION
<1>5. QED
  BY <1>1, <1>4, FS_CardinalityType DEF Units, Total

(* Nothing sums up to nothing.                                             *)
LEMMA TotalEmpty == Total({}) = 0
  BY FS_EmptySet DEF Total, Units

(* Sums over disjoint sets of grants add up.                               *)
LEMMA TotalDisjoint ==
  ASSUME NEW S \in SUBSET Grants, NEW T \in SUBSET Grants, S \cap T = {}
  PROVE  Total(S \cup T) = Total(S) + Total(T)
<1>1. Units(S \cup T) = Units(S) \cup Units(T)
  BY DEF Units
<1>2. Units(S) \cap Units(T) = {}
  BY DEF Units, UnitsOf
<1>3. IsFiniteSet(Units(S)) /\ IsFiniteSet(Units(T))
  BY TotalType
<1>4. Total(S) \in Nat /\ Total(T) \in Nat
  BY TotalType
<1>5. Cardinality(Units(S) \cup Units(T))
        = Cardinality(Units(S)) + Cardinality(Units(T)) - Cardinality({})
  BY <1>2, <1>3, FS_Union
<1>6. Cardinality({}) = 0
  BY FS_EmptySet
<1>7. Total(S \cup T) = Total(S) + Total(T) - 0
  BY <1>1, <1>5, <1>6 DEF Total
<1>8. QED
  BY <1>4, <1>7

(* A new grant adds its amount to the sum.                                 *)
LEMMA TotalAdd ==
  ASSUME NEW S \in SUBSET Grants, NEW g \in Grants, g \notin S
  PROVE  Total(S \cup {g}) = Total(S) + Amount[g]
<1>1. Total({g}) = Amount[g]
  <2>1. Units({g}) = UnitsOf(g)
    BY DEF Units
  <2>2. QED
    BY <2>1, UnitsOfOne DEF Total
<1>2. QED
  BY <1>1, TotalDisjoint

(* A grant that leaves takes its amount out of the sum.                    *)
LEMMA TotalRemove ==
  ASSUME NEW S \in SUBSET Grants, NEW g \in S
  PROVE  Total(S \ {g}) = Total(S) - Amount[g]
<1>1. (S \ {g}) \cup {g} = S /\ g \notin S \ {g} /\ g \in Grants
  OBVIOUS
<1>2. Total(S) = Total(S \ {g}) + Amount[g]
  BY <1>1, TotalAdd
<1>3. Total(S \ {g}) \in Nat /\ Amount[g] \in Nat
  BY TotalType, AmountsAssumption
<1>4. QED
  BY <1>2, <1>3

(* How the sums of the grants of a status change when one grant moves to   *)
(* another status: its amount goes with it, in its own budget.             *)
LEMMA ChargedMove ==
  ASSUME NEW f, NEW h, NEW g \in Grants, f[g] # h[g],
         \A x \in Grants : x # g => h[x] = f[x],
         NEW b, NEW status
  PROVE  /\ b = BudgetOf[g] /\ status = h[g] =>
              Total(Charged(h, b, status)) = Total(Charged(f, b, status)) + Amount[g]
         /\ b = BudgetOf[g] /\ status = f[g] =>
              Total(Charged(h, b, status)) = Total(Charged(f, b, status)) - Amount[g]
         /\ b # BudgetOf[g] \/ (status # h[g] /\ status # f[g]) =>
              Total(Charged(h, b, status)) = Total(Charged(f, b, status))
<1> DEFINE A == Charged(f, b, status)
           B == Charged(h, b, status)
<1>1. A \in SUBSET Grants /\ Total(A) \in Nat /\ Amount[g] \in Nat
  BY TotalType, AmountsAssumption DEF Charged
<1>2. CASE b = BudgetOf[g] /\ status = h[g]
  <2>1. B = A \cup {g} /\ g \notin A
    BY <1>2 DEF Charged
  <2>2. Total(B) = Total(A) + Amount[g]
    BY <1>1, <2>1, TotalAdd
  <2>3. QED
    BY <1>2, <2>2
<1>3. CASE b = BudgetOf[g] /\ status = f[g]
  <2>1. B = A \ {g} /\ g \in A
    BY <1>3 DEF Charged
  <2>2. Total(B) = Total(A) - Amount[g]
    BY <1>1, <2>1, TotalRemove
  <2>3. QED
    BY <1>1, <1>3, <2>2
<1>4. CASE b # BudgetOf[g] \/ (status # h[g] /\ status # f[g])
  <2>1. B = A
    BY <1>4 DEF Charged
  <2>2. QED
    BY <1>1, <1>4, <2>1
<1>5. QED
  BY <1>2, <1>3, <1>4

-----------------------------------------------------------------------------
(* The order of the ids, as a relation.                                    *)
Less == {p \in Nat \X Nat : p[1] < p[2]}

(* There is no infinite descent among the natural numbers.                 *)
LEMMA LessWellFounded == IsWellFoundedOn(Less, Nat)
  BY NatLessThanWellFounded DEF OpToRel, Less

(* A set of natural numbers that is not empty has a minimal element ...    *)
LEMMA MinimalNatural ==
  ASSUME NEW S \in SUBSET Nat, S # {}
  PROVE  \E m \in S : \A n \in S : ~ (<<n, m>> \in Less)
  BY LessWellFounded, WFMin

(* ... which is the smallest one.                                          *)
LEMMA LowestNatural ==
  ASSUME NEW S \in SUBSET Nat, S # {}
  PROVE  \E m \in S : \A n \in S : m <= n
<1>1. PICK m \in S : \A n \in S : ~ (<<n, m>> \in Less)
  BY MinimalNatural
<1>2. ASSUME NEW n \in S PROVE m <= n
  <2>1. n \in Nat /\ m \in Nat
    OBVIOUS
  <2>2. <<n, m>> \in Nat \X Nat /\ <<n, m>>[1] = n /\ <<n, m>>[2] = m
    BY <2>1
  <2>3. ~ (n < m)
    BY <1>1, <2>2 DEF Less
  <2>4. QED
    BY <2>1, <2>3
<1>3. QED
  BY <1>2
=============================================================================
