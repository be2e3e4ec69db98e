----------------------------- MODULE SumProofs -----------------------------
(***************************************************************************)
(* Lemmas about least and greatest elements and about finite sums, for the *)
(* proofs about the two MCP servers.  MapThenSumSet is a recursive function *)
(* on the subsets of its set, and such a recursion has the value h[S] once *)
(* some h satisfies it: it has no other solution.  Here are the solutions  *)
(* that the transaction-graph server's sums need.                          *)
(***************************************************************************)
EXTENDS Naturals, FiniteSets, FiniteSetTheorems, TLAPS

\* A set of natural numbers has a least element.
LEMMA Least ==
  ASSUME NEW T, T \subseteq Nat, T # {}
  PROVE  \E n \in T : \A m \in T : n <= m
<1>1. \A m, n \in Nat : m < n => <<m, n>> \in OpToRel(<, Nat)
  BY DEF OpToRel
<1>2. IsWellFoundedOn(OpToRel(<, Nat), Nat)
  BY NatLessThanWellFounded
<1>3. \E n \in T : \A m \in T : ~ (<<m, n>> \in OpToRel(<, Nat))
  BY <1>2, WFMin, Zenon
<1>4. \E n \in T : \A m \in T : ~ (m < n)
  BY <1>1, <1>3
<1> QED
  BY <1>4

\* A finite set of them has a greatest.
LEMMA Greatest ==
  ASSUME NEW S, IsFiniteSet(S), S \subseteq Nat, S # {}
  PROVE  \E n \in S : \A m \in S : n >= m
<1> DEFINE Topped(U) == \E n \in U : \A m \in U : n >= m
           T == {n \in Nat : \E U \in SUBSET S : U # {} /\ Cardinality(U) = n /\ ~ Topped(U)}
<1>1. \A U \in SUBSET S : IsFiniteSet(U) /\ Cardinality(U) \in Nat
  BY FS_Subset, FS_CardinalityType
<1>2. T = {}
  <2> SUFFICES ASSUME T # {} PROVE FALSE
    OBVIOUS
  <2>1. PICK n \in T : \A m \in T : n <= m
    BY Least
  <2>2. PICK U \in SUBSET S : U # {} /\ Cardinality(U) = n /\ ~ Topped(U)
    BY <2>1
  <2>3. PICK x \in U : x \in Nat
    BY <2>2
  <2> DEFINE V == U \ {x}
  <2>4. V \in SUBSET S /\ Cardinality(V) = n - 1 /\ Cardinality(V) \in Nat
    BY <1>1, <2>2, <2>3, FS_RemoveElement
  <2>5. Topped(V) \/ V = {}
    <3>1. n - 1 \notin T
      BY <2>1, <2>4
    <3> QED
      BY <2>4, <3>1
  <2>6. CASE V = {}
    BY <2>2, <2>3, <2>6
  <2>7. CASE Topped(V)
    <3>1. PICK y \in V : \A m \in V : y >= m
      BY <2>7
    <3>2. \A m \in U : m \in Nat /\ (m = x \/ m \in V)
      OBVIOUS
    <3>3. CASE x >= y
      BY <2>2, <2>3, <3>1, <3>2, <3>3
    <3>4. CASE y >= x
      BY <2>2, <2>3, <3>1, <3>2, <3>4
    <3> QED
      BY <2>3, <3>1, <3>2, <3>3, <3>4
  <2> QED
    BY <2>5, <2>6, <2>7
<1> QED
  <2>1. ~ \E U \in SUBSET S : U # {} /\ Cardinality(U) \in Nat /\ ~ Topped(U)
    BY <1>2
  <2> QED
    BY <1>1, <2>1

-----------------------------------------------------------------------------
Chosen(s) == CHOOSE x \in s : TRUE

\* g is a solution of the recursion of MapThenSumSet, for the summands f.
IsSum(f, S, g) ==
  g = [s \in SUBSET S |-> IF s = {} THEN 0 ELSE f[Chosen(s)] + g[s \ {Chosen(s)}]]

LEMMA SumUnique ==
  ASSUME NEW S, IsFiniteSet(S), NEW f, NEW g, NEW h, IsSum(f, S, g), IsSum(f, S, h)
  PROVE  g[S] = h[S]
<1> DEFINE T == {n \in Nat : \E s \in SUBSET S : Cardinality(s) = n /\ g[s] # h[s]}
<1>1. \A s \in SUBSET S : IsFiniteSet(s) /\ Cardinality(s) \in Nat
  BY FS_Subset, FS_CardinalityType
<1>2. \A s \in SUBSET S : /\ g[s] = IF s = {} THEN 0 ELSE f[Chosen(s)] + g[s \ {Chosen(s)}]
                          /\ h[s] = IF s = {} THEN 0 ELSE f[Chosen(s)] + h[s \ {Chosen(s)}]
  BY DEF IsSum
<1>3. T = {}
  <2> SUFFICES ASSUME T # {} PROVE FALSE
    OBVIOUS
  <2>1. PICK n \in T : \A m \in T : n <= m
    BY Least
  <2>2. PICK s \in SUBSET S : Cardinality(s) = n /\ g[s] # h[s]
    BY <2>1
  <2>3. s # {}
    BY <1>2, <2>2
  <2> DEFINE x == Chosen(s)
             r == s \ {x}
  <2>4. x \in s
    BY <2>3 DEF Chosen
  <2>5. r \in SUBSET S /\ Cardinality(r) = n - 1 /\ Cardinality(r) \in Nat
    BY <1>1, <2>2, <2>4, FS_RemoveElement
  <2>6. g[r] # h[r]
    BY <1>2, <2>2, <2>3
  <2>7. n - 1 \in T
    BY <2>5, <2>6
  <2> QED
    BY <2>1, <2>7
<1> QED
  <2>1. ~ \E s \in SUBSET S : Cardinality(s) \in Nat /\ g[s] # h[s]
    BY <1>3
  <2> QED
    BY <1>1, <2>1

-----------------------------------------------------------------------------
(***************************************************************************)
(* The sum of the sizes of classes.                                        *)
(***************************************************************************)

Sizes(T, class, S) == [s \in SUBSET S |-> Cardinality({t \in T : class[t] \in s})]

\* class maps every member of T to its class.  The sizes of the classes in s add up to the
\* number of members whose class is in s.
LEMMA SumOfClasses ==
  ASSUME NEW S, NEW T, IsFiniteSet(T), NEW class, NEW f,
         \A x \in S : f[x] = Cardinality({t \in T : class[t] = x})
  PROVE  IsSum(f, S, Sizes(T, class, S))
<1> DEFINE in(s) == {t \in T : class[t] \in s}
           h     == [s \in SUBSET S |-> Cardinality(in(s))]
<1>1. ASSUME NEW s \in SUBSET S
      PROVE  h[s] = IF s = {} THEN 0 ELSE f[Chosen(s)] + h[s \ {Chosen(s)}]
  <2>1. CASE s = {}
    <3>1. in(s) = {}
      BY <2>1
    <3> QED
      BY <2>1, <3>1, FS_EmptySet
  <2>2. CASE s # {}
    <3> DEFINE x == Chosen(s)
               A == {t \in T : class[t] = x}
               B == in(s \ {x})
    <3>1. x \in s
      BY <2>2 DEF Chosen
    <3>2. in(s) = A \cup B /\ A \cap B = {}
      BY <3>1
    <3>3. IsFiniteSet(A) /\ IsFiniteSet(B)
      BY FS_Subset
    <3>4. h[s] = Cardinality(in(s)) /\ h[s \ {x}] = Cardinality(B) /\ f[x] = Cardinality(A)
      BY <3>1
    <3> HIDE DEF A, B, h, x
    <3>5. Cardinality(in(s)) = Cardinality(A) + Cardinality(B)
      <4>1. Cardinality(A \cup B) = Cardinality(A) + Cardinality(B) - Cardinality(A \cap B)
        BY <3>3, FS_Union
      <4>2. Cardinality(A) \in Nat /\ Cardinality(B) \in Nat /\ Cardinality(A \cap B) = 0
        BY <3>2, <3>3, FS_CardinalityType, FS_EmptySet
      <4> QED
        BY <3>2, <4>1, <4>2
    <3> QED
      BY <2>2, <3>4, <3>5 DEF x
  <2> QED
    BY <2>1, <2>2
<1>2. h = [s \in SUBSET S |-> IF s = {} THEN 0 ELSE f[Chosen(s)] + h[s \ {Chosen(s)}]]
  <2>1. h = [s \in SUBSET S |-> h[s]]
    OBVIOUS
  <2> HIDE DEF h
  <2> QED
    BY <1>1, <2>1
<1> HIDE DEF h
<1>3. IsSum(f, S, h)
  BY <1>2 DEF IsSum
<1> QED
  BY <1>3 DEF h, Sizes

-----------------------------------------------------------------------------
(***************************************************************************)
(* Any sum of natural numbers, as a cardinality: f[x] units for each x.    *)
(***************************************************************************)

Block(f, x)  == {x} \X (1 .. f[x])
Units(f, s)  == UNION {Block(f, x) : x \in s}
Total(f, s)  == Cardinality(Units(f, s))

LEMMA BlockSize ==
  ASSUME NEW f, NEW x, f[x] \in Nat
  PROVE  IsFiniteSet(Block(f, x)) /\ Cardinality(Block(f, x)) = f[x]
<1>1. IsFiniteSet({x}) /\ Cardinality({x}) = 1
  BY FS_Singleton
<1>2. IsFiniteSet(1 .. f[x]) /\ Cardinality(1 .. f[x]) = f[x]
  BY FS_Interval
<1>3. /\ IsFiniteSet({x} \X (1 .. f[x]))
      /\ Cardinality({x} \X (1 .. f[x])) = Cardinality({x}) * Cardinality(1 .. f[x])
  BY <1>1, <1>2, FS_Product
<1> QED
  BY <1>1, <1>2, <1>3 DEF Block

LEMMA UnitsFinite ==
  ASSUME NEW s, IsFiniteSet(s), NEW f, \A x \in s : f[x] \in Nat
  PROVE  IsFiniteSet(Units(f, s)) /\ Total(f, s) \in Nat
<1> DEFINE B == {Block(f, x) : x \in s}
           b == [x \in s |-> Block(f, x)]
<1>1. b \in Surjection(s, B)
  BY DEF Surjection
<1>2. IsFiniteSet(B)
  BY <1>1, FS_Surjection
<1>3. \A T \in B : IsFiniteSet(T)
  BY BlockSize
<1>4. IsFiniteSet(UNION B)
  BY <1>2, <1>3, FS_UNION
<1> QED
  BY <1>4, FS_CardinalityType DEF Units, Total

\* More summands, or the same: the sum is no smaller.
LEMMA TotalMono ==
  ASSUME NEW s, IsFiniteSet(s), NEW f, \A x \in s : f[x] \in Nat, NEW r \in SUBSET s
  PROVE  Total(f, r) <= Total(f, s)
<1>1. Units(f, r) \subseteq Units(f, s)
  BY DEF Units
<1> QED
  BY <1>1, UnitsFinite, FS_Subset DEF Total

LEMMA TotalStep ==
  ASSUME NEW s, IsFiniteSet(s), NEW f, \A x \in s : f[x] \in Nat, NEW x \in s
  PROVE  Total(f, s) = f[x] + Total(f, s \ {x})
<1> DEFINE A == Block(f, x)
           B == Units(f, s \ {x})
<1>1. Units(f, s) = A \cup B
  BY DEF Units
<1>2. A \cap B = {}
  BY DEF Block, Units
<1>3. IsFiniteSet(s \ {x})
  BY FS_RemoveElement
<1>4. /\ IsFiniteSet(A) /\ IsFiniteSet(B)
      /\ Cardinality(A) = f[x] /\ Cardinality(B) = Total(f, s \ {x})
  BY <1>3, BlockSize, UnitsFinite DEF Total
<1> HIDE DEF A, B
<1>5. Cardinality(A \cup B) = Cardinality(A) + Cardinality(B) - Cardinality(A \cap B)
  BY <1>4, FS_Union
<1>6. Cardinality(A) \in Nat /\ Cardinality(B) \in Nat /\ Cardinality(A \cap B) = 0
  BY <1>2, <1>4, FS_CardinalityType, FS_EmptySet
<1> QED
  BY <1>1, <1>4, <1>5, <1>6 DEF Total

\* Total solves the recursion.
LEMMA TotalIsSum ==
  ASSUME NEW S, IsFiniteSet(S), NEW f, \A x \in S : f[x] \in Nat
  PROVE  IsSum(f, S, [s \in SUBSET S |-> Total(f, s)])
<1> DEFINE h == [s \in SUBSET S |-> Total(f, s)]
<1>1. ASSUME NEW s \in SUBSET S
      PROVE  h[s] = IF s = {} THEN 0 ELSE f[Chosen(s)] + h[s \ {Chosen(s)}]
  <2>1. CASE s = {}
    <3>1. Units(f, s) = {}
      BY <2>1 DEF Units
    <3> QED
      BY <2>1, <3>1, FS_EmptySet DEF Total
  <2>2. CASE s # {}
    <3>1. Chosen(s) \in s
      BY <2>2 DEF Chosen
    <3>2. IsFiniteSet(s) /\ \A x \in s : f[x] \in Nat
      BY FS_Subset
    <3>3. Total(f, s) = f[Chosen(s)] + Total(f, s \ {Chosen(s)})
      BY <3>1, <3>2, TotalStep
    <3> QED
      BY <2>2, <3>3
  <2> QED
    BY <2>1, <2>2
<1>2. h = [s \in SUBSET S |-> IF s = {} THEN 0 ELSE f[Chosen(s)] + h[s \ {Chosen(s)}]]
  <2>1. h = [s \in SUBSET S |-> h[s]]
    OBVIOUS
  <2> HIDE DEF h
  <2> QED
    BY <1>1, <2>1
<1> HIDE DEF h
<1>3. IsSum(f, S, h)
  BY <1>2 DEF IsSum
<1> QED
  BY <1>3 DEF h
=============================================================================
