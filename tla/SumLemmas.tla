------------------------------ MODULE SumLemmas ------------------------------
(* What the sums of Sums do: they are natural, grow with the set and by     *)
(* the amount of an element that joins it.                                  *)
EXTENDS Sums, FiniteSetTheorems, TLAPS

(* A unit is a pair, of an element and a number up to its amount.           *)
LEMMA UnitIsPair ==
  ASSUME NEW f, NEW S, NEW u
  PROVE  u \in Units(f, S) <=> \E x \in S : \E n \in 1..f[x] : u = <<x, n>>
BY DEF Units

LEMMA UnitsOfOne ==
  ASSUME NEW f, NEW x, f[x] \in Nat
  PROVE  IsFiniteSet({x} \X (1..f[x])) /\ Cardinality({x} \X (1..f[x])) = f[x]
<1>1. PICK one : one = {x}
  OBVIOUS
<1>2. PICK numbers : numbers = 1..f[x]
  OBVIOUS
<1>3. IsFiniteSet(one) /\ Cardinality(one) = 1
  BY <1>1, FS_Singleton
<1>4. IsFiniteSet(numbers) /\ Cardinality(numbers) = f[x]
  BY <1>2, FS_Interval
<1>5. IsFiniteSet(one \X numbers) /\ Cardinality(one \X numbers) = 1 * f[x]
  BY <1>3, <1>4, FS_Product
<1> QED
  BY <1>1, <1>2, <1>5

LEMMA SumOfNone == ASSUME NEW f PROVE SumOf(f, {}) = 0 /\ IsFiniteSet(Units(f, {}))
<1>1. Units(f, {}) = {}
  BY DEF Units
<1> QED
  BY <1>1, FS_EmptySet DEF SumOf

(* Amounts that are bounded make finitely many units.                       *)
LEMMA UnitsAreFinite ==
  ASSUME NEW f, NEW S, IsFiniteSet(S), NEW most \in Nat, \A x \in S : f[x] \in 0..most
  PROVE  IsFiniteSet(Units(f, S)) /\ SumOf(f, S) \in Nat
<1>0. IsFiniteSet(1..most)
  BY FS_Interval
<1>1. IsFiniteSet(S \X (1..most))
  BY <1>0, FS_Product
<1>2. Units(f, S) \subseteq S \X (1..most)
  BY UnitIsPair
<1>3. IsFiniteSet(Units(f, S))
  BY <1>1, <1>2, FS_Subset
<1> QED
  BY <1>3, FS_CardinalityType DEF SumOf

LEMMA SumGrows ==
  ASSUME NEW f, NEW S, IsFiniteSet(S), NEW most \in Nat, \A x \in S : f[x] \in 0..most,
         NEW T \in SUBSET S
  PROVE  SumOf(f, T) <= SumOf(f, S) /\ IsFiniteSet(Units(f, T)) /\ SumOf(f, T) \in Nat
<1>1. Units(f, T) \subseteq Units(f, S)
  BY DEF Units
<1>2. IsFiniteSet(T) /\ \A x \in T : f[x] \in 0..most
  BY FS_Subset
<1> QED
  BY <1>1, <1>2, UnitsAreFinite, FS_Subset DEF SumOf

LEMMA SumAtMost ==
  ASSUME NEW f, NEW S, IsFiniteSet(S), NEW most \in Nat, \A x \in S : f[x] \in 0..most
  PROVE  SumOf(f, S) <= Cardinality(S) * most
<1>1. PICK numbers : numbers = 1..most
  OBVIOUS
<1>2. IsFiniteSet(numbers) /\ Cardinality(numbers) = most
  BY <1>1, FS_Interval
<1>3. IsFiniteSet(S \X numbers) /\ Cardinality(S \X numbers) = Cardinality(S) * Cardinality(numbers)
  BY <1>2, FS_Product
<1>4. Units(f, S) \subseteq S \X numbers
  BY <1>1, UnitIsPair
<1>5. Cardinality(Units(f, S)) <= Cardinality(S \X numbers)
  BY <1>3, <1>4, FS_Subset
<1> QED
  BY <1>2, <1>3, <1>5 DEF SumOf

(* One element more.                                                        *)
LEMMA SumOfMore ==
  ASSUME NEW f, NEW S, IsFiniteSet(S), NEW most \in Nat, NEW x, x \notin S,
         \A y \in S \cup {x} : f[y] \in 0..most
  PROVE  SumOf(f, S \cup {x}) = SumOf(f, S) + f[x]
<1>1. PICK new : new = {x} \X (1..f[x])
  OBVIOUS
<1>2. Units(f, S \cup {x}) = Units(f, S) \cup new
  BY <1>1 DEF Units
<1>3. Units(f, S) \cap new = {}
  BY <1>1 DEF Units
<1>4. IsFiniteSet(Units(f, S)) /\ Cardinality(Units(f, S)) \in Nat
  BY UnitsAreFinite DEF SumOf
<1>5. IsFiniteSet(new) /\ Cardinality(new) = f[x]
  BY <1>1, UnitsOfOne
<1>6. Cardinality(Units(f, S) \cap new) = 0
  BY <1>3, FS_EmptySet
<1>7. f[x] \in Nat
  OBVIOUS
<1>8. Cardinality(Units(f, S) \cup new) = Cardinality(Units(f, S)) + f[x] - 0
  BY <1>4, <1>5, <1>6, FS_Union
<1>9. SumOf(f, S \cup {x}) = Cardinality(Units(f, S) \cup new)
  BY <1>2 DEF SumOf
<1>10. SumOf(f, S) = Cardinality(Units(f, S)) /\ SumOf(f, S) \in Nat
  BY <1>4 DEF SumOf
<1> QED
  BY <1>7, <1>8, <1>9, <1>10

(* The sum depends on the amounts of the set alone.                         *)
LEMMA SumIsOfAmounts ==
  ASSUME NEW f, NEW g, NEW S, \A x \in S : f[x] = g[x] PROVE SumOf(f, S) = SumOf(g, S)
<1>1. Units(f, S) = Units(g, S)
  BY DEF Units
<1> QED
  BY <1>1 DEF SumOf
=============================================================================
