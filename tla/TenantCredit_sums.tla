---------------------- MODULE TenantCredit_sums ----------------------
(***************************************************************************)
(* Sums of cents over sets of allocations. The provers cannot instantiate  *)
(* an induction theorem, so what is proved by induction here takes a least *)
(* counterexample, by WFMin over finite subsets or over numbers.           *)
(***************************************************************************)
EXTENDS TenantCredit, FiniteSetTheorems, TLAPS

One(s) == CHOOSE a \in s : TRUE
\* What Cents computes: the sum of each subset of A, one element at a time.
Adds(f, D) == \A s \in D : f[s] = IF s = {} THEN 0 ELSE One(s).cents + f[s \ {One(s)}]
SumsOf(A) == CHOOSE f : f = [s \in SUBSET A |-> IF s = {} THEN 0
                                               ELSE One(s).cents + f[s \ {One(s)}]]

\* The least of a set of natural numbers.
LEMMA LeastNumber ==
  ASSUME NEW T, T \subseteq Nat, T # {}
  PROVE  \E n \in T : \A m \in T : n <= m
<1>1. PICK n \in T : \A m \in T : <<m, n>> \notin OpToRel(<, Nat)
  BY NatLessThanWellFounded, WFMin
<1>2. ASSUME NEW m \in T, ~(n <= m) PROVE FALSE
  <2>1. m \in Nat /\ n \in Nat /\ m < n
    BY <1>2
  <2>2. <<m, n>> \in OpToRel(<, Nat)
    BY <2>1 DEF OpToRel
  <2> QED BY <2>2, <1>1
<1> QED BY <1>2

\* A least one among some subsets of a finite set.
LEMMA LeastSubset ==
  ASSUME NEW A, IsFiniteSet(A), NEW T, T \subseteq SUBSET A, T # {}
  PROVE  \E s \in T : \A t \in T : ~(t \subseteq s /\ t # s)
<1>1. IsWellFoundedOn(StrictSubsetOrdering(A), SUBSET A)
  BY FS_StrictSubsetOrderingWellFounded, FS_FiniteSubsetsOfFinite
<1>2. PICK s \in T : \A t \in T : <<t, s>> \notin StrictSubsetOrdering(A)
  BY <1>1, WFMin
<1>3. ASSUME NEW t \in T, t \subseteq s, t # s PROVE FALSE
  BY <1>2, <1>3 DEF StrictSubsetOrdering
<1> QED BY <1>3

\* Such a function exists: on the subsets of at most n elements, for every n.
LEMMA SumsExist ==
  ASSUME NEW A, IsFiniteSet(A)
  PROVE  \E f : f = [s \in SUBSET A |-> IF s = {} THEN 0 ELSE One(s).cents + f[s \ {One(s)}]]
<1> DEFINE Small(n) == {s \in SUBSET A : Cardinality(s) <= n}
           Good(n) == \E f : f = [s \in Small(n) |-> IF s = {} THEN 0
                                                     ELSE One(s).cents + f[s \ {One(s)}]]
<1>1. \A s \in SUBSET A : /\ Cardinality(s) \in Nat
                          /\ s # {} => /\ s \ {One(s)} \in SUBSET A
                                       /\ Cardinality(s) = Cardinality(s \ {One(s)}) + 1
                                       /\ Cardinality(s) # 0
  <2> SUFFICES ASSUME NEW s \in SUBSET A
               PROVE  /\ Cardinality(s) \in Nat
                      /\ s # {} => /\ s \ {One(s)} \in SUBSET A
                                   /\ Cardinality(s) = Cardinality(s \ {One(s)}) + 1
                                   /\ Cardinality(s) # 0
    OBVIOUS
  <2>1. IsFiniteSet(s)
    BY FS_Subset
  <2>2. Cardinality(s) \in Nat /\ Cardinality(s \ {One(s)}) \in Nat
    BY <2>1, FS_CardinalityType, FS_RemoveElement
  <2>3. s # {} => One(s) \in s
    BY DEF One
  <2> QED BY <2>1, <2>2, <2>3, FS_RemoveElement, FS_EmptySet
<1>2. Good(0)
  <2>1. Small(0) = {{}}
    <3>1. ASSUME NEW s \in Small(0) PROVE s = {}
      <4>1. Cardinality(s) \in Nat /\ Cardinality(s) <= 0 /\ (s # {} => Cardinality(s) # 0)
        BY <1>1
      <4> QED BY <4>1
    <3>2. {} \in Small(0)
      BY FS_EmptySet
    <3> QED BY <3>1, <3>2
  <2>2. [s \in Small(0) |-> 0] = [s \in Small(0) |-> IF s = {} THEN 0
              ELSE One(s).cents + [t \in Small(0) |-> 0][s \ {One(s)}]]
    BY <2>1
  <2> QED BY <2>2
<1>3. ASSUME NEW n \in Nat, Good(n) PROVE Good(n + 1)
  <2>1. PICK f : f = [s \in Small(n) |-> IF s = {} THEN 0 ELSE One(s).cents + f[s \ {One(s)}]]
    BY <1>3
  <2> DEFINE g == [s \in Small(n + 1) |-> IF s = {} THEN 0 ELSE One(s).cents + f[s \ {One(s)}]]
  <2> HIDE DEF Good
  <2>2. \A s \in Small(n) : s \in Small(n + 1) /\ g[s] = f[s]
    <3> SUFFICES ASSUME NEW s \in Small(n) PROVE s \in Small(n + 1) /\ g[s] = f[s]
      OBVIOUS
    <3>1. Cardinality(s) \in Nat /\ Cardinality(s) <= n
      BY <1>1
    <3>2. Cardinality(s) <= n + 1
      BY <3>1
    <3>3. s \in Small(n + 1)
      BY <3>2
    <3> HIDE DEF Small
    <3> QED BY <2>1, <3>3
  <2>3. \A s \in Small(n + 1) : s # {} => s \ {One(s)} \in Small(n)
    <3> SUFFICES ASSUME NEW s \in Small(n + 1), s # {} PROVE s \ {One(s)} \in Small(n)
      OBVIOUS
    <3>1. /\ Cardinality(s) \in Nat /\ Cardinality(s) <= n + 1 /\ s \ {One(s)} \in SUBSET A
          /\ Cardinality(s) = Cardinality(s \ {One(s)}) + 1
      BY <1>1
    <3>2. Cardinality(s \ {One(s)}) \in Nat
      BY <3>1, <1>1
    <3>3. Cardinality(s \ {One(s)}) <= n
      BY <3>1, <3>2
    <3> QED BY <3>1, <3>3
  <2>4. g = [s \in Small(n + 1) |-> IF s = {} THEN 0 ELSE One(s).cents + g[s \ {One(s)}]]
    BY <2>2, <2>3
  <2> QED BY <2>4 DEF Good
<1> HIDE DEF Good
<1>4. \A n \in Nat : Good(n)
  <2> SUFFICES ASSUME {n \in Nat : ~Good(n)} # {} PROVE FALSE
    OBVIOUS
  <2>1. PICK n \in {m \in Nat : ~Good(m)} : \A m \in {k \in Nat : ~Good(k)} : n <= m
    BY LeastNumber
  <2>2. n # 0 /\ n - 1 \in Nat
    BY <1>2, <2>1
  <2>3. Good(n - 1)
    BY <2>1, <2>2
  <2> QED BY <1>3, <2>1, <2>2, <2>3
<1>5. Small(Cardinality(A)) = SUBSET A
  <2>1. \A s \in SUBSET A : Cardinality(s) <= Cardinality(A)
    BY FS_Subset
  <2> QED BY <2>1
<1>6. Good(Cardinality(A))
  BY <1>4, FS_CardinalityType
<1> QED BY <1>5, <1>6 DEF Good

\* The function that Cents stands for does what its definition says.
LEMMA SumsAdd ==
  ASSUME NEW A, IsFiniteSet(A)
  PROVE  \A s \in SUBSET A :
           SumsOf(A)[s] = IF s = {} THEN 0 ELSE One(s).cents + SumsOf(A)[s \ {One(s)}]
<1>1. SumsOf(A) = [s \in SUBSET A |-> IF s = {} THEN 0
                                      ELSE One(s).cents + SumsOf(A)[s \ {One(s)}]]
  BY SumsExist DEF SumsOf
<1> DEFINE f == SumsOf(A)
<1> HIDE DEF f
<1>2. f = [s \in SUBSET A |-> IF s = {} THEN 0 ELSE One(s).cents + f[s \ {One(s)}]]
  BY <1>1 DEF f
<1>3. \A s \in SUBSET A : f[s] = IF s = {} THEN 0 ELSE One(s).cents + f[s \ {One(s)}]
  BY <1>2
<1> QED BY <1>3 DEF f

\* Cents is the value of that function at the whole set.
LEMMA CentsFolds ==
  ASSUME NEW A, IsFiniteSet(A)
  PROVE  Cents(A) = SumsOf(A)[A]
<1>1. A # {} => Cents(A) = SumsOf(A)[A]
  BY DEF Cents, SumsOf, One, MapThenSumSet, MapThenFoldSet
<1>2. A = {} => SumsOf(A)[A] = 0
  BY SumsAdd
<1> QED BY <1>1, <1>2 DEF Cents

\* The sum of nothing is zero; that of a set is some element and the sum of the others.
LEMMA CentsOne ==
  ASSUME NEW A, IsFiniteSet(A)
  PROVE  /\ Cents({}) = 0
         /\ A # {} => /\ One(A) \in A
                      /\ Cents(A) = One(A).cents + Cents(A \ {One(A)})
<1>1. Cents({}) = 0
  BY CentsFolds, SumsAdd, FS_EmptySet
<1>2. ASSUME A # {} PROVE One(A) \in A /\ Cents(A) = One(A).cents + Cents(A \ {One(A)})
  <2> DEFINE B == A \ {One(A)}
             f == SumsOf(A)
             g == SumsOf(B)
             T == {s \in SUBSET B : f[s] # g[s]}
  <2>1. IsFiniteSet(B) /\ B \in SUBSET A
    BY FS_RemoveElement
  <2>2. \A s \in SUBSET B : f[s] = IF s = {} THEN 0 ELSE One(s).cents + f[s \ {One(s)}]
    BY <2>1, SumsAdd
  <2>3. \A s \in SUBSET B : g[s] = IF s = {} THEN 0 ELSE One(s).cents + g[s \ {One(s)}]
    BY <2>1, SumsAdd
  <2>4. \A s \in SUBSET B : s # {} => One(s) \in s
    BY DEF One
  <2> HIDE DEF f, g, B
  <2>5. T = {}
    <3> SUFFICES ASSUME T # {} PROVE FALSE
      OBVIOUS
    <3>1. PICK s \in T : \A t \in T : ~(t \subseteq s /\ t # s)
      <4>1. T \subseteq SUBSET B
        OBVIOUS
      <4> HIDE DEF T
      <4> QED BY <2>1, <4>1, LeastSubset
    <3>2. s # {}
      BY <2>2, <2>3
    <3>3. s \ {One(s)} \notin T /\ s \ {One(s)} \in SUBSET B
      BY <2>4, <3>1, <3>2
    <3>4. f[s \ {One(s)}] = g[s \ {One(s)}]
      BY <3>3
    <3>5. f[s] = g[s]
      BY <2>2, <2>3, <3>2, <3>4
    <3> QED BY <3>5
  <2>6. f[B] = g[B]
    BY <2>5
  <2>7. f[A] = One(A).cents + f[B]
    BY <1>2, SumsAdd DEF f, B
  <2>8. Cents(A) = f[A] /\ Cents(B) = g[B]
    BY <2>1, CentsFolds DEF f, g
  <2> QED BY <1>2, <2>6, <2>7, <2>8 DEF B, One
<1> QED BY <1>1, <1>2

Priced(A) == IsFiniteSet(A) /\ \A a \in A : a.cents \in Nat

\* Sums of natural numbers are natural numbers.
LEMMA CentsNat ==
  ASSUME NEW A, Priced(A)
  PROVE  Cents(A) \in Nat
<1> DEFINE T == {s \in SUBSET A : Cents(s) \notin Nat}
<1>1. \A s \in SUBSET A : IsFiniteSet(s)
  BY FS_Subset DEF Priced
<1>2. T = {}
  <2> SUFFICES ASSUME T # {} PROVE FALSE
    OBVIOUS
  <2>1. PICK s \in T : \A t \in T : ~(t \subseteq s /\ t # s)
    <3>1. T \subseteq SUBSET A /\ IsFiniteSet(A)
      BY DEF Priced
    <3> HIDE DEF T
    <3> QED BY <3>1, LeastSubset
  <2>2. s # {}
    <3>1. Cents({}) = 0
      BY FS_EmptySet, CentsOne
    <3>2. Cents(s) \notin Nat
      BY <2>1
    <3> HIDE DEF T
    <3> QED BY <3>1, <3>2
  <2>3. One(s) \in s /\ Cents(s) = One(s).cents + Cents(s \ {One(s)})
    BY <1>1, <2>2, CentsOne
  <2>4. Cents(s \ {One(s)}) \in Nat
    BY <2>1, <2>3
  <2>5. Cents(s) \in Nat
    BY <2>3, <2>4 DEF Priced
  <2> QED BY <2>5
<1> QED BY <1>2

\* The order does not matter: any element, and the sum of the others.
LEMMA CentsLess ==
  ASSUME NEW A, Priced(A), NEW x \in A
  PROVE  Cents(A) = x.cents + Cents(A \ {x})
<1> DEFINE T == {s \in SUBSET A : \E a \in s : Cents(s) # a.cents + Cents(s \ {a})}
<1>1. \A s \in SUBSET A : IsFiniteSet(s) /\ Priced(s) /\ Cents(s) \in Nat
  BY FS_Subset, CentsNat DEF Priced
<1>2. T = {}
  <2> SUFFICES ASSUME T # {} PROVE FALSE
    OBVIOUS
  <2>1. PICK s \in T : \A t \in T : ~(t \subseteq s /\ t # s)
    <3>1. T \subseteq SUBSET A /\ IsFiniteSet(A)
      BY DEF Priced
    <3> HIDE DEF T
    <3> QED BY <3>1, LeastSubset
  <2>2. PICK a \in s : Cents(s) # a.cents + Cents(s \ {a})
    BY <2>1
  <2> DEFINE b == One(s)
  <2>3. b \in s /\ Cents(s) = b.cents + Cents(s \ {b})
    BY <1>1, <2>2, CentsOne
  <2>4. a # b
    BY <2>2, <2>3
  <2> HIDE DEF b
  <2>5. s \ {a} \notin T /\ s \ {b} \notin T /\ s \ {a} \in SUBSET A /\ s \ {b} \in SUBSET A
    BY <2>1, <2>2, <2>3
  <2>6. Cents(s \ {b}) = a.cents + Cents((s \ {b}) \ {a})
    BY <2>2, <2>4, <2>5
  <2>7. Cents(s \ {a}) = b.cents + Cents((s \ {a}) \ {b})
    BY <2>3, <2>4, <2>5
  <2>8. (s \ {a}) \ {b} = (s \ {b}) \ {a}
    OBVIOUS
  <2>9. /\ a.cents \in Nat /\ b.cents \in Nat
        /\ Cents((s \ {a}) \ {b}) \in Nat
    BY <1>1, <2>1, <2>2, <2>3 DEF Priced
  <2>10. Cents(s) = a.cents + Cents(s \ {a})
    <3> HIDE DEF T
    <3> DEFINE rest == Cents((s \ {a}) \ {b})
    <3>1. Cents((s \ {b}) \ {a}) = rest
      BY <2>8
    <3> HIDE DEF rest
    <3>2. /\ Cents(s) = b.cents + (a.cents + rest)
          /\ Cents(s \ {a}) = b.cents + rest
          /\ rest \in Nat
      BY <2>3, <2>6, <2>7, <2>9, <3>1 DEF rest
    <3> QED BY <2>9, <3>2
  <2> QED BY <2>2, <2>10
<1> QED BY <1>2

\* The sum of two sets with nothing in common.
LEMMA CentsBoth ==
  ASSUME NEW A, NEW B, Priced(A), Priced(B), A \cap B = {}
  PROVE  Cents(A \cup B) = Cents(A) + Cents(B) /\ Priced(A \cup B)
<1> DEFINE T == {s \in SUBSET B : Cents(A \cup s) # Cents(A) + Cents(s)}
<1>1. \A s \in SUBSET B : Priced(s) /\ Cents(s) \in Nat /\ Priced(A \cup s)
  BY FS_Subset, FS_Union, CentsNat DEF Priced
<1>2. T = {}
  <2> SUFFICES ASSUME T # {} PROVE FALSE
    OBVIOUS
  <2>1. PICK s \in T : \A t \in T : ~(t \subseteq s /\ t # s)
    <3>1. T \subseteq SUBSET B /\ IsFiniteSet(B)
      BY DEF Priced
    <3> HIDE DEF T
    <3> QED BY <3>1, LeastSubset
  <2>2. s # {}
    <3>1. A \cup {} = A /\ Cents({}) = 0 /\ Cents(A) \in Nat
      BY CentsOne, CentsNat DEF Priced
    <3>2. Cents(A \cup s) # Cents(A) + Cents(s)
      BY <2>1
    <3> HIDE DEF T
    <3> QED BY <3>1, <3>2
  <2>3. PICK b : b \in s
    BY <2>2
  <2>4. s \ {b} \in SUBSET B /\ s \ {b} \notin T
    BY <2>1, <2>3
  <2>5. Cents(A \cup (s \ {b})) = Cents(A) + Cents(s \ {b})
    BY <2>4
  <2>6. (A \cup s) \ {b} = A \cup (s \ {b})
    BY <2>3
  <2>7. Cents(A \cup s) = b.cents + Cents((A \cup s) \ {b})
    BY <1>1, <2>3, CentsLess
  <2>8. Cents(s) = b.cents + Cents(s \ {b})
    BY <1>1, <2>3, CentsLess
  <2>9. /\ b.cents \in Nat /\ Cents(A) \in Nat /\ Cents(s \ {b}) \in Nat
    BY <1>1, <2>3, <2>4, CentsNat DEF Priced
  <2>10. Cents(A \cup s) = Cents(A) + Cents(s)
    <3> HIDE DEF T
    <3>1. Cents(A \cup s) = b.cents + (Cents(A) + Cents(s \ {b}))
      BY <2>5, <2>6, <2>7
    <3> QED BY <2>8, <2>9, <3>1
  <2> QED BY <2>1, <2>10
<1> QED BY <1>1, <1>2

\* Only an empty set sums to zero, where every allocation has some cents.
LEMMA CentsZero ==
  ASSUME NEW A, IsFiniteSet(A), \A a \in A : a.cents \in Nat \ {0}
  PROVE  Cents(A) \in Nat /\ (Cents(A) = 0 <=> A = {})
<1>1. Priced(A) /\ Cents(A) \in Nat
  BY CentsNat DEF Priced
<1>2. ASSUME NEW x \in A PROVE Cents(A) # 0
  <2>1. Cents(A) = x.cents + Cents(A \ {x})
    BY <1>1, CentsLess
  <2>2. Cents(A \ {x}) \in Nat
    BY FS_Subset, CentsNat DEF Priced
  <2> QED BY <2>1, <2>2
<1> QED BY <1>1, <1>2, CentsOne

\* A single allocation.
LEMMA CentsSingle ==
  ASSUME NEW x, x.cents \in Nat
  PROVE  Priced({x}) /\ Cents({x}) = x.cents
<1>1. Priced({x})
  BY FS_Singleton DEF Priced
<1>2. Cents({x}) = x.cents + Cents({x} \ {x})
  BY <1>1, CentsLess
<1>3. {x} \ {x} = {} /\ Cents({}) = 0
  BY CentsOne, FS_EmptySet
<1> QED BY <1>1, <1>2, <1>3

\* The sum of what another set has one by one.
LEMMA CentsMapped ==
  ASSUME NEW A, Priced(A), NEW f, DOMAIN f = A,
         \A a \in A : f[a].cents = a.cents,
         \A a, b \in A : f[a] = f[b] => a = b
  PROVE  /\ Priced({f[a] : a \in A})
         /\ Cents({f[a] : a \in A}) = Cents(A)
<1> DEFINE Image(s) == {f[a] : a \in s}
           T == {s \in SUBSET A : Cents(Image(s)) # Cents(s)}
<1>1. \A s \in SUBSET A : Priced(s) /\ Priced(Image(s))
  <2> SUFFICES ASSUME NEW s \in SUBSET A PROVE Priced(s) /\ Priced(Image(s))
    OBVIOUS
  <2>1. Priced(s)
    BY FS_Subset DEF Priced
  <2>2. [a \in s |-> f[a]] \in Surjection(s, Image(s))
    BY DEF Surjection
  <2>3. IsFiniteSet(Image(s))
    BY <2>1, <2>2, FS_Surjection DEF Priced
  <2> QED BY <2>1, <2>3 DEF Priced
<1>2. T = {}
  <2> SUFFICES ASSUME T # {} PROVE FALSE
    OBVIOUS
  <2>1. PICK s \in T : \A t \in T : ~(t \subseteq s /\ t # s)
    <3>1. T \subseteq SUBSET A /\ IsFiniteSet(A)
      BY DEF Priced
    <3> HIDE DEF T
    <3> QED BY <3>1, LeastSubset
  <2>2. s # {}
    <3>1. Image({}) = {}
      OBVIOUS
    <3>2. Cents(Image(s)) # Cents(s)
      BY <2>1
    <3> HIDE DEF T, Image
    <3> QED BY <3>1, <3>2
  <2>3. PICK b : b \in s
    BY <2>2
  <2>4. s \ {b} \in SUBSET A /\ s \ {b} \notin T
    BY <2>1, <2>3
  <2>5. Cents(Image(s \ {b})) = Cents(s \ {b})
    BY <2>4
  <2>6. Image(s) \ {f[b]} = Image(s \ {b}) /\ f[b] \in Image(s)
    BY <2>1, <2>3
  <2>7. Cents(Image(s)) = f[b].cents + Cents(Image(s \ {b}))
    <3>1. Priced(Image(s))
      BY <1>1, <2>1
    <3> HIDE DEF T, Image
    <3>2. Cents(Image(s)) = f[b].cents + Cents(Image(s) \ {f[b]})
      BY <3>1, <2>6, CentsLess
    <3> QED BY <3>2, <2>6
  <2>8. Cents(s) = b.cents + Cents(s \ {b})
    BY <1>1, <2>3, CentsLess
  <2>9. f[b].cents = b.cents
    BY <2>3
  <2>10. Cents(Image(s)) = Cents(s)
    <3> HIDE DEF T, Image
    <3> QED BY <2>5, <2>7, <2>8, <2>9
  <2> QED BY <2>1, <2>10
<1>3. Cents(Image(A)) = Cents(A)
  BY <1>2
<1> QED BY <1>1, <1>3

=============================================================================
