--------------------------- MODULE CountingLemmas ---------------------------
(***************************************************************************)
(* Counting, for the proofs of several components: least and greatest      *)
(* elements, circles among those who hold and want finitely many things,   *)
(* sets that grow or shrink by one, and how Total(S, f) changes when an    *)
(* element joins or leaves S, or when f is changed outside S.              *)
(***************************************************************************)
EXTENDS Tally, FiniteSetTheorems, WellFoundedInduction, TLAPS

\* A set of natural numbers has a least element, if it has any.
LEMMA LeastElement ==
    ASSUME NEW N, N \subseteq Nat, N # {}
    PROVE  \E n \in N : \A k \in N : n <= k
<1> DEFINE less == OpToRel(<, Nat)
<1>1. IsWellFoundedOn(less, Nat)
  BY NatLessThanWellFounded
<1>2. \A k, n \in Nat : k < n => <<k, n>> \in less
  BY DEF OpToRel
<1> HIDE DEF less
<1>3. PICK n \in N : \A k \in N : ~(<<k, n>> \in less)
  BY <1>1, WFMin
<1>4. ASSUME NEW k \in N
      PROVE  n <= k
  <2>1. k \in Nat /\ n \in Nat
    OBVIOUS
  <2>2. ~(k < n)
    BY <1>2, <1>3, <2>1
  <2>3. QED
    BY <2>1, <2>2
<1>5. QED
  BY <1>4

\* A finite set of integers has a greatest element, if it has any: the one
\* that the fewest are greater than.
LEMMA GreatestElement ==
    ASSUME NEW S, S \subseteq Int, IsFiniteSet(S), S # {}
    PROVE  \E m \in S : \A k \in S : k <= m
<1> DEFINE Above(x) == {y \in S : y > x}
<1> DEFINE counts == {Cardinality(Above(x)) : x \in S}
<1>1. \A x \in S : IsFiniteSet(Above(x)) /\ Cardinality(Above(x)) \in Nat
  <2> SUFFICES ASSUME NEW x \in S
               PROVE  IsFiniteSet(Above(x)) /\ Cardinality(Above(x)) \in Nat
    OBVIOUS
  <2>1. Above(x) \subseteq S
    OBVIOUS
  <2>2. QED
    BY <2>1, FS_Subset, FS_CardinalityType
<1>2. counts \subseteq Nat /\ counts # {}
  BY <1>1
<1>3. PICK c \in counts : \A d \in counts : c <= d
  <2> HIDE DEF counts
  <2>1. QED
    BY <1>2, LeastElement
<1>4. PICK m \in S : c = Cardinality(Above(m))
  BY <1>3
<1>5. ASSUME NEW k \in S, k > m
      PROVE  FALSE
  <2>1. ASSUME NEW y \in S, y > k
        PROVE  y > m
    <3>1. y \in Int /\ k \in Int /\ m \in Int
      OBVIOUS
    <3>2. QED
      BY <1>5, <2>1, <3>1
  <2>2. Above(k) \subseteq Above(m)
    BY <2>1
  <2>3. k \in Above(m) /\ k \notin Above(k)
    BY <1>5
  <2>4. Cardinality(Above(k)) <= Cardinality(Above(m))
    BY <1>1, <2>2, FS_Subset
  <2>5. Cardinality(Above(k)) # Cardinality(Above(m))
    BY <1>1, <2>2, <2>3, FS_Subset
  <2>6. c <= Cardinality(Above(k))
    BY <1>3
  <2>7. QED
    BY <1>1, <1>4, <2>4, <2>5, <2>6
<1>6. QED
  BY <1>5

\* Those who hold some of finitely many things, each for itself, are finitely many.
LEMMA FewHoldDisjoint ==
    ASSUME NEW R, IsFiniteSet(R), NEW T, NEW held \in [T -> SUBSET R],
           \A y, z \in T : y # z => held[y] \cap held[z] = {}
    PROVE  IsFiniteSet({y \in T : held[y] # {}})
<1> DEFINE H == {y \in T : held[y] # {}}
           one == [y \in H |-> CHOOSE r \in R : r \in held[y]]
<1>1. \A y \in H : one[y] \in R /\ one[y] \in held[y]
  OBVIOUS
<1>2. one \in Injection(H, R)
  <2>1. one \in [H -> R]
    BY <1>1
  <2>2. \A y, z \in H : one[y] = one[z] => y = z
    BY <1>1
  <2>3. QED
    BY <2>1, <2>2 DEF Injection, IsInjective
<1>3. QED
  BY <1>2, FS_Injection

\* Members of T hold and want some of the finitely many R.
Holdings(R, T, held, wanted) ==
    /\ IsFiniteSet(R) /\ held \in [T -> SUBSET R] /\ wanted \in [T -> SUBSET R]
    /\ \A y, z \in T : y # z => held[y] \cap held[z] = {}
WantWithin(S, held, wanted) ==
    \A y \in S : \E z \in S \ {y} : wanted[y] \cap held[z] # {}
WantedWithin(S, held, wanted) ==
    \A y \in S : \E z \in S \ {y} : wanted[z] \cap held[y] # {}

\* When everyone in S wants something that another in S holds, some of S want
\* and hold in a circle: each of those wants from another, and is wanted from by
\* another.  They are a smallest set of holders who all want from each other.
LEMMA CircleOfHolders ==
    ASSUME NEW R, NEW T, NEW held, NEW wanted, Holdings(R, T, held, wanted),
           NEW S \in SUBSET T, S # {}, WantWithin(S, held, wanted)
    PROVE  \E U \in SUBSET S :
              U # {} /\ WantWithin(U, held, wanted) /\ WantedWithin(U, held, wanted)
<1> USE DEF Holdings, WantWithin
<1> DEFINE Waits(y, z) == wanted[y] \cap held[z] # {}
           H == {y \in S : held[y] # {}}
           Waiting == {U \in SUBSET H : /\ U # {}
                                        /\ \A y \in U : \E z \in U \ {y} : Waits(y, z)}
           sizes == {Cardinality(U) : U \in Waiting}
<1>1. IsFiniteSet(H)
  <2>1. H \subseteq {y \in T : held[y] # {}}
    OBVIOUS
  <2>2. IsFiniteSet({y \in T : held[y] # {}})
    BY FewHoldDisjoint
  <2>3. QED
    BY <2>1, <2>2, FS_Subset
<1>2. \A U \in SUBSET H : IsFiniteSet(U) /\ Cardinality(U) \in Nat
  <2> HIDE DEF H
  <2>1. QED
    BY <1>1, FS_Subset, FS_CardinalityType
<1>3. H \in Waiting
  <2>1. \A y \in S : \E z \in H \ {y} : Waits(y, z)
    OBVIOUS
  <2>2. H # {}
    BY <2>1
  <2>3. QED
    BY <2>1, <2>2
<1>4. PICK n \in sizes : \A k \in sizes : n <= k
  <2>1. \A U \in Waiting : U \in SUBSET H
    OBVIOUS
  <2> HIDE DEF H, Waiting
  <2>2. sizes \subseteq Nat /\ sizes # {}
    BY <1>2, <1>3, <2>1
  <2> HIDE DEF sizes
  <2>3. QED
    BY <2>2, LeastElement
<1>5. PICK U \in Waiting : \A V \in Waiting : Cardinality(U) <= Cardinality(V)
  <2> HIDE DEF Waiting
  <2>1. QED
    BY <1>4
<1>6. ASSUME NEW y \in U, \A z \in U \ {y} : ~Waits(z, y)
      PROVE  FALSE
  <2>1. U \ {y} \in Waiting
    <3>1. \A x \in U \ {y} : \E z \in (U \ {y}) \ {x} : Waits(x, z)
      BY <1>6
    <3>2. PICK z \in U : z # y
      OBVIOUS
    <3>3. QED
      BY <3>1, <3>2
  <2>2. IsFiniteSet(U) /\ Cardinality(U) \in Nat /\ Cardinality(U \ {y}) \in Nat
    BY <1>2
  <2>3. Cardinality(U \ {y}) = Cardinality(U) - 1
    BY <2>2, FS_RemoveElement
  <2>4. Cardinality(U) <= Cardinality(U \ {y})
    BY <1>5, <2>1
  <2>5. QED
    BY <2>2, <2>3, <2>4
<1>7. QED
  BY <1>6 DEF WantedWithin

\* One element more or one less.
LEMMA OneMoreOrLess ==
    ASSUME NEW S, IsFiniteSet(S), NEW x
    PROVE  /\ Cardinality(S \cup {x}) \in Nat
           /\ Cardinality(S \cup {x}) <= Cardinality(S) + 1
           /\ Cardinality(S \ {x}) \in Nat
           /\ Cardinality(S \ {x}) <= Cardinality(S)
<1>1. Cardinality(S) \in Nat
  BY FS_CardinalityType
<1>2. /\ IsFiniteSet(S \cup {x})
      /\ Cardinality(S \cup {x}) = IF x \in S THEN Cardinality(S) ELSE Cardinality(S) + 1
  BY FS_AddElement
<1>3. IsFiniteSet(S \ {x}) /\ Cardinality(S \ {x}) <= Cardinality(S)
  <2>1. S \ {x} \subseteq S
    OBVIOUS
  <2>2. QED
    BY <2>1, FS_Subset
<1>4. Cardinality(S \ {x}) \in Nat
  BY <1>3, FS_CardinalityType
<1>5. QED
  BY <1>1, <1>2, <1>3, <1>4

\* The units of one element: an interval of f[x] numbers, tagged with x.
LEMMA OneUnit ==
    ASSUME NEW x, NEW n \in Nat
    PROVE  /\ IsFiniteSet({x} \X (1 .. n))
           /\ Cardinality({x} \X (1 .. n)) = n
<1> DEFINE tag == [i \in 1 .. n |-> <<x, i>>]
<1>1. IsFiniteSet(1 .. n) /\ Cardinality(1 .. n) = n
  BY FS_Interval
<1>2. tag \in Bijection(1 .. n, {x} \X (1 .. n))
  BY DEF Bijection, Injection, Surjection, IsInjective
<1>3. QED
  BY <1>1, <1>2, FS_Bijection DEF ExistsBijection

\* Sums are natural numbers: the units of a finite set are finitely many.
LEMMA TotalType ==
    ASSUME NEW S, IsFiniteSet(S), NEW f, \A x \in S : f[x] \in Nat
    PROVE  IsFiniteSet(Units(S, f)) /\ Total(S, f) \in Nat
<1> DEFINE parts == {{x} \X (1 .. f[x]) : x \in S}
<1> DEFINE part == [x \in S |-> {x} \X (1 .. f[x])]
<1>1. IsFiniteSet(parts)
  <2>1. part \in Surjection(S, parts)
    BY DEF Surjection
  <2>2. QED
    BY <2>1, FS_Surjection
<1>2. \A p \in parts : IsFiniteSet(p)
  <2> SUFFICES ASSUME NEW x \in S
               PROVE  IsFiniteSet({x} \X (1 .. f[x]))
    OBVIOUS
  <2>1. f[x] \in Nat
    OBVIOUS
  <2>2. QED
    BY <2>1, OneUnit
<1>3. IsFiniteSet(Units(S, f))
  BY <1>1, <1>2, FS_UNION DEF Units
<1>4. QED
  BY <1>3, FS_CardinalityType DEF Total

\* An element that joins S adds its own amount.
LEMMA TotalAdd ==
    ASSUME NEW S, IsFiniteSet(S), NEW f, NEW x, x \notin S,
           \A y \in S \cup {x} : f[y] \in Nat
    PROVE  Total(S \cup {x}, f) = Total(S, f) + f[x]
<1> DEFINE new == {x} \X (1 .. f[x])
<1>1. Units(S \cup {x}, f) = Units(S, f) \cup new
  BY DEF Units
<1>2. Units(S, f) \cap new = {}
  BY DEF Units
<1>3. IsFiniteSet(Units(S, f)) /\ Total(S, f) \in Nat
  BY TotalType
<1>4. IsFiniteSet(new) /\ Cardinality(new) = f[x]
  BY OneUnit
<1>5. Cardinality(Units(S, f) \cup new)
        = Cardinality(Units(S, f)) + Cardinality(new) - 0
  BY <1>2, <1>3, <1>4, FS_Union, FS_EmptySet
<1> HIDE DEF new
<1>6. f[x] \in Nat /\ Cardinality(Units(S, f)) \in Nat
  BY <1>3 DEF Total
<1>7. Cardinality(Units(S, f) \cup new) = Cardinality(Units(S, f)) + f[x]
  BY <1>4, <1>5, <1>6
<1>8. QED
  BY <1>1, <1>7 DEF Total

\* An element that leaves S takes its own amount with it.
LEMMA TotalRemove ==
    ASSUME NEW S, IsFiniteSet(S), NEW f, NEW x \in S,
           \A y \in S : f[y] \in Nat
    PROVE  /\ Total(S \ {x}, f) = Total(S, f) - f[x]
           /\ Total(S \ {x}, f) \in Nat
<1>1. IsFiniteSet(S \ {x})
  BY FS_RemoveElement
<1>2. Total(S \ {x}, f) \in Nat
  BY <1>1, TotalType
<1>3. (S \ {x}) \cup {x} = S
  OBVIOUS
<1>4. Total(S, f) = Total(S \ {x}, f) + f[x]
  BY <1>1, <1>3, TotalAdd
<1>5. QED
  BY <1>2, <1>4

\* Sums over disjoint sets add up.
LEMMA TotalUnion ==
    ASSUME NEW S, IsFiniteSet(S), NEW T, IsFiniteSet(T), S \cap T = {}, NEW f,
           \A x \in S \cup T : f[x] \in Nat
    PROVE  Total(S \cup T, f) = Total(S, f) + Total(T, f)
<1>1. Units(S \cup T, f) = Units(S, f) \cup Units(T, f)
  BY DEF Units
<1>2. Units(S, f) \cap Units(T, f) = {}
  BY DEF Units
<1>3. /\ IsFiniteSet(Units(S, f)) /\ Total(S, f) \in Nat
      /\ IsFiniteSet(Units(T, f)) /\ Total(T, f) \in Nat
  BY TotalType
<1>4. Cardinality(Units(S, f) \cup Units(T, f))
        = Cardinality(Units(S, f)) + Cardinality(Units(T, f)) - 0
  BY <1>2, <1>3, FS_Union, FS_EmptySet
<1>5. Cardinality(Units(S, f)) \in Nat /\ Cardinality(Units(T, f)) \in Nat
  BY <1>3 DEF Total
<1>6. Cardinality(Units(S, f) \cup Units(T, f))
        = Cardinality(Units(S, f)) + Cardinality(Units(T, f))
  BY <1>4, <1>5
<1>7. QED
  BY <1>1, <1>6 DEF Total

\* Only the amounts of the elements of S matter.
LEMMA TotalSame ==
    ASSUME NEW S, NEW f, NEW g, \A x \in S : f[x] = g[x]
    PROVE  Total(S, f) = Total(S, g)
<1>1. Units(S, f) = Units(S, g)
  BY DEF Units
<1>2. QED
  BY <1>1 DEF Total

\* A sum does not depend on what its terms are named.
LEMMA TotalRenamed ==
    ASSUME NEW S, IsFiniteSet(S), NEW T, NEW b \in Bijection(S, T), NEW f, NEW g,
           \A x \in S : f[x] \in Nat /\ g[b[x]] = f[x]
    PROVE  Total(T, g) = Total(S, f)
<1> DEFINE rename == [u \in Units(S, f) |-> <<b[u[1]], u[2]>>]
<1>1. /\ \A x \in S : b[x] \in T
      /\ \A x, y \in S : b[x] = b[y] => x = y
      /\ \A y \in T : \E x \in S : b[x] = y
  BY DEF Bijection, Injection, Surjection, IsInjective
<1>2. \A u \in Units(S, f) :
         u[1] \in S /\ u[2] \in 1 .. f[u[1]] /\ u = <<u[1], u[2]>>
  BY DEF Units
<1>3. \A u \in Units(S, f) : rename[u] \in Units(T, g)
  BY <1>1, <1>2 DEF Units
<1>4. ASSUME NEW u \in Units(S, f), NEW v \in Units(S, f), rename[u] = rename[v]
      PROVE  u = v
  BY <1>1, <1>2, <1>4
<1>5. ASSUME NEW w \in Units(T, g)
      PROVE  \E u \in Units(S, f) : rename[u] = w
  <2>1. PICK y \in T : w[1] = y /\ w[2] \in 1 .. g[y] /\ w = <<w[1], w[2]>>
    BY DEF Units
  <2>2. PICK x \in S : b[x] = y
    BY <1>1
  <2>3. <<x, w[2]>> \in Units(S, f)
    BY <2>1, <2>2 DEF Units
  <2>4. QED
    BY <2>1, <2>2, <2>3
<1>6. rename \in Bijection(Units(S, f), Units(T, g))
  <2>1. rename \in [Units(S, f) -> Units(T, g)]
    BY <1>3
  <2> HIDE DEF rename
  <2>2. QED
    BY <1>4, <1>5, <2>1 DEF Bijection, Injection, Surjection, IsInjective
<1>7. IsFiniteSet(Units(S, f))
  BY TotalType
<1>8. QED
  BY <1>6, <1>7, FS_Bijection DEF Total, ExistsBijection
=============================================================================
