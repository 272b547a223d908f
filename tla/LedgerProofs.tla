---------------------------- MODULE LedgerProofs ----------------------------
(***************************************************************************)
(* Sums over finite sets, as the ledger and the balances use them.  What   *)
(* SumFunctionOnSet computes is proved by induction: a smallest finite set *)
(* for which the claim fails would have a smaller one.  So is what the     *)
(* fold of append_ledger_entries makes of a balance.                       *)
(***************************************************************************)
EXTENDS Ledger, FiniteSetTheorems, TLAPS

\* The induction over finite sets, without an operator for the induction
\* hypothesis: a set of finite sets has a smallest member.
LEMMA SmallestSet ==
  ASSUME NEW S, NEW C, C \subseteq FiniteSubsetsOf(S), C # {}
  PROVE  \E T \in C : \A U \in C : ~(U \subseteq T /\ U # T)
<1>1. IsWellFoundedOn(StrictSubsetOrdering(S), FiniteSubsetsOf(S))
  BY FS_StrictSubsetOrderingWellFounded
<1>2. PICK T \in C : \A U \in C : ~(<<U, T>> \in StrictSubsetOrdering(S))
  BY <1>1, WFMin
<1>3. \A U \in C : U \in SUBSET S BY DEF FiniteSubsetsOf
<1>4. QED BY <1>2, <1>3 DEF StrictSubsetOrdering

\* A set of numbers has a smallest.
LEMMA SmallestNat ==
  ASSUME NEW C, C \subseteq Nat, C # {}
  PROVE  \E n \in C : \A m \in C : n <= m
<1>1. PICK n \in C : \A m \in C : ~ (<<m, n>> \in OpToRel(<, Nat))
  BY NatLessThanWellFounded, WFMin, Zenon
<1>2. \A m \in C : m \in Nat
  OBVIOUS
<1>3. \A m \in C : ~ (m < n)
  BY <1>1, <1>2 DEF OpToRel
<1>4. QED
  BY <1>2, <1>3

\* Two sets that differ by at most one member.
LEMMA SetUpdate ==
  ASSUME NEW F, NEW G, NEW c, IsFiniteSet(F), G \ {c} = F \ {c}
  PROVE  /\ Cardinality(F) \in Nat
         /\ Cardinality(G) =
              Cardinality(F) + (IF c \in G THEN 1 ELSE 0) - (IF c \in F THEN 1 ELSE 0)
<1>1. Cardinality(F) \in Nat
  BY FS_CardinalityType
<1>2. IsFiniteSet(F \ {c}) /\ Cardinality(F \ {c}) = IF c \in F THEN Cardinality(F) - 1 ELSE Cardinality(F)
  BY FS_RemoveElement
<1>3. CASE c \in G
  <2>1. G = (F \ {c}) \cup {c}
    BY <1>3
  <2>2. Cardinality(G) = Cardinality(F \ {c}) + 1
    BY <1>2, <2>1, FS_AddElement
  <2>3. QED
    BY <1>1, <1>2, <1>3, <2>2
<1>4. CASE c \notin G
  <2>1. G = F \ {c}
    BY <1>4
  <2>2. QED
    BY <1>1, <1>2, <1>4, <2>1
<1>5. QED
  BY <1>3, <1>4

-----------------------------------------------------------------------------
(***************************************************************************)
(* SumFunctionOnSet takes the members of a set one by one.                 *)
(***************************************************************************)
Pick(s) == CHOOSE x \in s : TRUE

\* The element a fold takes first is one of the set.
LEMMA PickIsMember == \A s : s # {} => Pick(s) \in s
BY DEF Pick

Rest(s) == s \ {Pick(s)}

\* What is left is a smaller finite set.
LEMMA RestIsSmaller ==
  ASSUME NEW s, s # {}, IsFiniteSet(s)
  PROVE  /\ Pick(s) \in s
         /\ Rest(s) \subseteq s /\ Rest(s) # s /\ IsFiniteSet(Rest(s))
<1>1. Pick(s) \in s BY PickIsMember
<1>2. IsFiniteSet(s \ {Pick(s)}) BY FS_RemoveElement
<1>3. QED BY <1>1, <1>2 DEF Rest

\* g is the recursive function inside SumFunctionOnSet(f, T).
Iterates(g, f, T) ==
  g = [s \in SUBSET T |-> IF s = {} THEN 0 ELSE f[Pick(s)] + g[Rest(s)]]

\* The sum is the recursion of the community modules, by definition.
LEMMA SumIsIterate ==
  ASSUME NEW f, NEW T
  PROVE SumFunctionOnSet(f, T) = (CHOOSE g : Iterates(g, f, T))[T]
BY DEF SumFunctionOnSet, FoldFunctionOnSet, MapThenFoldSet, Iterates, Pick, Rest

\* Two such functions agree wherever both are defined.
LEMMA IterateUnique ==
  ASSUME NEW f, NEW T, NEW U, NEW g, NEW h, Iterates(g, f, T), Iterates(h, f, U)
  PROVE  \A s \in SUBSET (T \cap U) : IsFiniteSet(s) => g[s] = h[s]
<1> DEFINE C == {s \in FiniteSubsetsOf(T \cap U) : g[s] # h[s]}
<1>0. C \subseteq FiniteSubsetsOf(T \cap U) OBVIOUS
<1>1. ASSUME C # {} PROVE FALSE
  <2>1. PICK s \in C : \A u \in C : ~(u \subseteq s /\ u # s)
    <3> HIDE DEF C
    <3>1. QED BY <1>0, <1>1, SmallestSet
  <2>2. s \subseteq T /\ s \subseteq U /\ IsFiniteSet(s) /\ g[s] # h[s] BY <2>1 DEF FiniteSubsetsOf
  <2>g. g[s] = IF s = {} THEN 0 ELSE f[Pick(s)] + g[Rest(s)] BY <2>2 DEF Iterates
  <2>h. h[s] = IF s = {} THEN 0 ELSE f[Pick(s)] + h[Rest(s)] BY <2>2 DEF Iterates
  <2>3. s # {} BY <2>2, <2>g, <2>h
  <2>4. Rest(s) \in FiniteSubsetsOf(T \cap U) BY <2>2, <2>3, RestIsSmaller DEF FiniteSubsetsOf
  <2>5. g[Rest(s)] = h[Rest(s)] BY <2>1, <2>2, <2>3, <2>4, RestIsSmaller
  <2>6. QED BY <2>2, <2>3, <2>5, <2>g, <2>h
<1>2. QED BY <1>1 DEF FiniteSubsetsOf

\* There is one for every finite set.
LEMMA IterateExists ==
  ASSUME NEW f, NEW T, IsFiniteSet(T)
  PROVE  \E g : Iterates(g, f, T)
<1> DEFINE C == {s \in FiniteSubsetsOf(T) : ~ \E g : Iterates(g, f, s)}
<1>0. C \subseteq FiniteSubsetsOf(T) OBVIOUS
<1>1. ASSUME C # {} PROVE FALSE
  <2>1. PICK s \in C : \A u \in C : ~(u \subseteq s /\ u # s)
    <3> HIDE DEF C
    <3>1. QED BY <1>0, <1>1, SmallestSet
  <2>2. s \subseteq T /\ IsFiniteSet(s) /\ ~ \E g : Iterates(g, f, s) BY <2>1 DEF FiniteSubsetsOf
  <2>3. \A u \in SUBSET s : u # s => IsFiniteSet(u) /\ \E g : Iterates(g, f, u)
    <3> SUFFICES ASSUME NEW u \in SUBSET s, u # s
                 PROVE  IsFiniteSet(u) /\ \E g : Iterates(g, f, u)
      OBVIOUS
    <3>1. IsFiniteSet(u) BY <2>2, FS_Subset
    <3>2. u \in FiniteSubsetsOf(T) BY <2>2, <3>1 DEF FiniteSubsetsOf
    <3>3. QED BY <2>1, <3>1, <3>2
  <2> DEFINE G(u) == CHOOSE g : Iterates(g, f, u)
             V(u) == IF u = {} THEN 0 ELSE f[Pick(u)] + G(Rest(u))[Rest(u)]
             h == [u \in SUBSET s |-> V(u)]
  <2>4. \A u \in SUBSET s : u # s => Iterates(G(u), f, u) BY <2>3
  <2>5. \A u \in SUBSET s : u # s => G(u)[u] = V(u)
    <3> SUFFICES ASSUME NEW u \in SUBSET s, u # s PROVE G(u)[u] = V(u)
      OBVIOUS
    <3>1. Iterates(G(u), f, u) BY <2>4
    <3>2. G(u)[u] = IF u = {} THEN 0 ELSE f[Pick(u)] + G(u)[Rest(u)]
      <4> HIDE DEF G
      <4>1. QED BY <3>1 DEF Iterates
    <3>3. CASE u = {} BY <3>2, <3>3
    <3>4. CASE u # {}
      <4> DEFINE r == Rest(u)
      <4>1. r \subseteq u /\ r # u /\ IsFiniteSet(r) BY <2>3, <3>4, RestIsSmaller
      <4>2. r # s BY <4>1
      <4>3. Iterates(G(r), f, r) BY <2>4, <4>1, <4>2
      <4>4. G(r)[r] = G(u)[r]
        <5> HIDE DEF G, r
        <5>1. r \in SUBSET (r \cap u) BY <4>1
        <5>2. QED BY <3>1, <4>1, <4>3, <5>1, IterateUnique
      <4>5. QED BY <3>2, <3>4, <4>4
    <3>5. QED BY <3>3, <3>4
  <2>6. Iterates(h, f, s)
    <3>1. \A u \in SUBSET s : V(u) = IF u = {} THEN 0 ELSE f[Pick(u)] + h[Rest(u)]
      <4>1. ASSUME NEW u \in SUBSET s, u # {} PROVE V(u) = f[Pick(u)] + h[Rest(u)]
        <5> DEFINE r == Rest(u)
        <5>0. IsFiniteSet(u) BY <2>2, FS_Subset
        <5>1. r \in SUBSET s /\ r # s BY <4>1, <5>0, RestIsSmaller
        <5>2. h[r] = V(r) BY <5>1
        <5>3. G(r)[r] = V(r) BY <2>5, <5>1
        <5>4. V(u) = f[Pick(u)] + G(r)[r] BY <4>1
        <5> HIDE DEF h, G, V
        <5>5. QED BY <5>2, <5>3, <5>4
      <4>2. V({}) = 0 OBVIOUS
      <4> HIDE DEF h, V
      <4>3. QED BY <4>1, <4>2
    <3> HIDE DEF V
    <3>2. QED BY <3>1 DEF Iterates
  <2>7. QED BY <2>2, <2>6
<1>2. T \in FiniteSubsetsOf(T) BY DEF FiniteSubsetsOf
<1>3. QED BY <1>1, <1>2

\* So the recursion computes what it says.
LEMMA SumUnfolds ==
  ASSUME NEW f, NEW T, IsFiniteSet(T)
  PROVE  SumFunctionOnSet(f, T)
           = IF T = {} THEN 0 ELSE f[Pick(T)] + SumFunctionOnSet(f, Rest(T))
<1> DEFINE G(u) == CHOOSE g : Iterates(g, f, u)
<1>1. Iterates(G(T), f, T) BY IterateExists
<1>2. SumFunctionOnSet(f, T) = G(T)[T] BY SumIsIterate
<1>3. SumFunctionOnSet(f, Rest(T)) = G(Rest(T))[Rest(T)] BY SumIsIterate
<1>4. G(T)[T] = IF T = {} THEN 0 ELSE f[Pick(T)] + G(T)[Rest(T)]
  <2> HIDE DEF G
  <2>1. QED BY <1>1 DEF Iterates
<1>5. CASE T = {} BY <1>2, <1>4, <1>5
<1>6. CASE T # {}
  <2>1. Rest(T) \subseteq T /\ IsFiniteSet(Rest(T)) BY <1>6, RestIsSmaller
  <2>2. Iterates(G(Rest(T)), f, Rest(T)) BY <2>1, IterateExists
  <2>3. Rest(T) \in SUBSET (Rest(T) \cap T) BY <2>1
  <2>4. G(Rest(T))[Rest(T)] = G(T)[Rest(T)]
    <3> HIDE DEF G
    <3>1. QED BY <1>1, <2>1, <2>2, <2>3, IterateUnique
  <2>5. QED BY <1>2, <1>3, <1>4, <1>6, <2>4
<1>7. QED BY <1>5, <1>6

-----------------------------------------------------------------------------
(***************************************************************************)
(* The laws of sums.                                                       *)
(***************************************************************************)
\* f gives every member of S a natural number.
Counts(f, S) == \A x \in S : f[x] \in Nat

\* Nothing adds up to 0.
LEMMA SumEmpty == \A f : SumFunctionOnSet(f, {}) = 0
BY SumUnfolds, FS_EmptySet

\* Numbers add up to a number.
LEMMA SumType ==
  ASSUME NEW S, IsFiniteSet(S), NEW f, Counts(f, S)
  PROVE  SumFunctionOnSet(f, S) \in Nat
<1> DEFINE C == {s \in FiniteSubsetsOf(S) : SumFunctionOnSet(f, s) \notin Nat}
<1>0. C \subseteq FiniteSubsetsOf(S) OBVIOUS
<1>1. ASSUME C # {} PROVE FALSE
  <2>1. PICK s \in C : \A u \in C : ~(u \subseteq s /\ u # s)
    <3> HIDE DEF C
    <3>1. QED BY <1>0, <1>1, SmallestSet
  <2>2. s \subseteq S /\ IsFiniteSet(s) /\ SumFunctionOnSet(f, s) \notin Nat BY <2>1 DEF FiniteSubsetsOf
  <2>3. s # {} BY <2>2, SumEmpty
  <2>4. /\ Pick(s) \in s /\ Rest(s) \subseteq s /\ Rest(s) # s /\ IsFiniteSet(Rest(s))
        /\ SumFunctionOnSet(f, s) = f[Pick(s)] + SumFunctionOnSet(f, Rest(s))
    BY <2>2, <2>3, RestIsSmaller, SumUnfolds
  <2>5. Rest(s) \in FiniteSubsetsOf(S) BY <2>2, <2>4 DEF FiniteSubsetsOf
  <2>6. SumFunctionOnSet(f, Rest(s)) \in Nat BY <2>1, <2>4, <2>5
  <2>7. f[Pick(s)] \in Nat BY <2>2, <2>4 DEF Counts
  <2>8. QED BY <2>2, <2>4, <2>6, <2>7
<1>2. S \in FiniteSubsetsOf(S) BY DEF FiniteSubsetsOf
<1>3. QED BY <1>1, <1>2

\* Any member may be taken first.
LEMMA SumRemove ==
  ASSUME NEW S, IsFiniteSet(S), NEW f, Counts(f, S), NEW x \in S
  PROVE  SumFunctionOnSet(f, S) = f[x] + SumFunctionOnSet(f, S \ {x})
<1> DEFINE Splits(s) == \A y \in s : SumFunctionOnSet(f, s) = f[y] + SumFunctionOnSet(f, s \ {y})
           C == {s \in FiniteSubsetsOf(S) : ~Splits(s)}
<1>0. C \subseteq FiniteSubsetsOf(S) OBVIOUS
<1>1. ASSUME C # {} PROVE FALSE
  <2>1. PICK s \in C : \A u \in C : ~(u \subseteq s /\ u # s)
    <3> HIDE DEF C
    <3>1. QED BY <1>0, <1>1, SmallestSet
  <2>2. s \subseteq S /\ IsFiniteSet(s) /\ ~Splits(s) BY <2>1 DEF FiniteSubsetsOf
  <2>3. PICK y \in s : SumFunctionOnSet(f, s) # f[y] + SumFunctionOnSet(f, s \ {y}) BY <2>2
  <2>4. PICK p \in s : p = Pick(s) BY <2>3, PickIsMember
  <2>5. SumFunctionOnSet(f, s) = f[p] + SumFunctionOnSet(f, s \ {p})
    BY <2>2, <2>3, <2>4, SumUnfolds DEF Rest
  <2>6. p # y BY <2>3, <2>5
  <2> DEFINE q == s \ {p}
             r == s \ {y}
             t == q \ {y}
  <2>7. IsFiniteSet(q) /\ IsFiniteSet(r) /\ IsFiniteSet(t) BY <2>2, FS_RemoveElement
  <2>8. q \in FiniteSubsetsOf(S) /\ r \in FiniteSubsetsOf(S) BY <2>2, <2>7 DEF FiniteSubsetsOf
  <2>9. Splits(q) /\ Splits(r)
    <3> HIDE DEF Splits
    <3>1. q # s /\ r # s /\ q \subseteq s /\ r \subseteq s OBVIOUS
    <3>2. q \notin C /\ r \notin C
      <4> HIDE DEF C, q, r
      <4>1. QED BY <2>1, <3>1
    <3> HIDE DEF q, r
    <3>3. QED BY <2>8, <3>2
  <2>10. r \ {p} = t /\ y \in q /\ p \in r BY <2>6
  <2>11. SumFunctionOnSet(f, q) = f[y] + SumFunctionOnSet(f, t) BY <2>9, <2>10
  <2>12. SumFunctionOnSet(f, r) = f[p] + SumFunctionOnSet(f, t) BY <2>9, <2>10
  <2>13. f[p] \in Nat /\ f[y] \in Nat BY <2>2 DEF Counts
  <2>14. SumFunctionOnSet(f, t) \in Nat
    <3>1. Counts(f, t) BY <2>2 DEF Counts
    <3> HIDE DEF t
    <3>2. QED BY <2>7, <3>1, SumType
  <2> HIDE DEF q, r, t
  <2>15. SumFunctionOnSet(f, s) = f[p] + SumFunctionOnSet(f, q) BY <2>5 DEF q
  <2>16. SumFunctionOnSet(f, s) # f[y] + SumFunctionOnSet(f, r) BY <2>3 DEF r
  <2>17. QED BY <2>11, <2>12, <2>13, <2>14, <2>15, <2>16
<1>2. S \in FiniteSubsetsOf(S) BY DEF FiniteSubsetsOf
<1>3. Splits(S)
  <2> HIDE DEF Splits
  <2>1. QED BY <1>1, <1>2
<1>4. QED BY <1>3

\* One more element adds its number.
LEMMA SumAdd ==
  ASSUME NEW S, IsFiniteSet(S), NEW f, NEW x, x \notin S, Counts(f, S \cup {x})
  PROVE  SumFunctionOnSet(f, S \cup {x}) = f[x] + SumFunctionOnSet(f, S)
<1>1. IsFiniteSet(S \cup {x}) BY FS_AddElement
<1>2. (S \cup {x}) \ {x} = S OBVIOUS
<1>3. x \in S \cup {x} OBVIOUS
<1> DEFINE T == S \cup {x}
<1> HIDE DEF T
<1>4. SumFunctionOnSet(f, T) = f[x] + SumFunctionOnSet(f, T \ {x}) BY <1>1, <1>3, SumRemove DEF T
<1>5. QED BY <1>2, <1>4 DEF T

\* The sum depends on what f says of the members of S only.
LEMMA SumSame ==
  ASSUME NEW S, IsFiniteSet(S), NEW f, NEW g, \A x \in S : f[x] = g[x]
  PROVE  SumFunctionOnSet(f, S) = SumFunctionOnSet(g, S)
<1> DEFINE C == {s \in FiniteSubsetsOf(S) : SumFunctionOnSet(f, s) # SumFunctionOnSet(g, s)}
<1>0. C \subseteq FiniteSubsetsOf(S) OBVIOUS
<1>1. ASSUME C # {} PROVE FALSE
  <2>1. PICK s \in C : \A u \in C : ~(u \subseteq s /\ u # s)
    <3> HIDE DEF C
    <3>1. QED BY <1>0, <1>1, SmallestSet
  <2>2. s \subseteq S /\ IsFiniteSet(s) /\ SumFunctionOnSet(f, s) # SumFunctionOnSet(g, s)
    BY <2>1 DEF FiniteSubsetsOf
  <2>3. s # {} BY <2>2, SumEmpty
  <2>4. /\ Pick(s) \in s /\ Rest(s) \subseteq s /\ Rest(s) # s /\ IsFiniteSet(Rest(s))
        /\ SumFunctionOnSet(f, s) = f[Pick(s)] + SumFunctionOnSet(f, Rest(s))
        /\ SumFunctionOnSet(g, s) = g[Pick(s)] + SumFunctionOnSet(g, Rest(s))
    BY <2>2, <2>3, RestIsSmaller, SumUnfolds
  <2>5. Rest(s) \in FiniteSubsetsOf(S) BY <2>2, <2>4 DEF FiniteSubsetsOf
  <2>6. SumFunctionOnSet(f, Rest(s)) = SumFunctionOnSet(g, Rest(s)) BY <2>1, <2>4, <2>5
  <2>7. f[Pick(s)] = g[Pick(s)] BY <2>2, <2>4
  <2>8. QED BY <2>2, <2>4, <2>6, <2>7
<1>2. S \in FiniteSubsetsOf(S) BY DEF FiniteSubsetsOf
<1>3. QED BY <1>1, <1>2

\* A part of a set adds up to no more than the whole.
LEMMA SumPart ==
  ASSUME NEW S, IsFiniteSet(S), NEW f, Counts(f, S), NEW T \in SUBSET S
  PROVE  SumFunctionOnSet(f, T) <= SumFunctionOnSet(f, S)
<1> DEFINE C == {s \in FiniteSubsetsOf(S) : T \subseteq s /\ ~(SumFunctionOnSet(f, T) <= SumFunctionOnSet(f, s))}
<1>0. C \subseteq FiniteSubsetsOf(S) OBVIOUS
<1>t. SumFunctionOnSet(f, T) \in Nat
  <2>1. IsFiniteSet(T) /\ Counts(f, T) BY FS_Subset DEF Counts
  <2>2. QED BY <2>1, SumType
<1>1. ASSUME C # {} PROVE FALSE
  <2>1. PICK s \in C : \A u \in C : ~(u \subseteq s /\ u # s)
    <3> HIDE DEF C
    <3>1. QED BY <1>0, <1>1, SmallestSet
  <2>2. /\ s \subseteq S /\ IsFiniteSet(s) /\ T \subseteq s
        /\ ~(SumFunctionOnSet(f, T) <= SumFunctionOnSet(f, s))
    BY <2>1 DEF FiniteSubsetsOf
  <2>3. s # T BY <1>t, <2>2
  <2>4. PICK x \in s : x \notin T BY <2>2, <2>3
  <2> DEFINE r == s \ {x}
  <2>5. IsFiniteSet(r) /\ Counts(f, s) /\ Counts(f, r) BY <2>2, FS_RemoveElement DEF Counts
  <2>6. r \in FiniteSubsetsOf(S) /\ T \subseteq r /\ r \subseteq s /\ r # s
    BY <2>2, <2>4, <2>5 DEF FiniteSubsetsOf
  <2>7. SumFunctionOnSet(f, s) = f[x] + SumFunctionOnSet(f, r) BY <2>2, <2>5, SumRemove
  <2>8. SumFunctionOnSet(f, T) <= SumFunctionOnSet(f, r)
    <3> HIDE DEF r
    <3>1. QED BY <2>1, <2>6
  <2>9. SumFunctionOnSet(f, r) \in Nat /\ f[x] \in Nat
    <3>1. f[x] \in Nat BY <2>5 DEF Counts
    <3> HIDE DEF r
    <3>2. QED BY <2>5, <3>1, SumType
  <2> HIDE DEF r
  <2>10. SumFunctionOnSet(f, T) <= SumFunctionOnSet(f, s) BY <1>t, <2>7, <2>8, <2>9
  <2>11. QED BY <2>2, <2>10
<1>2. S \in FiniteSubsetsOf(S) BY DEF FiniteSubsetsOf
<1>3. QED BY <1>1, <1>2

-----------------------------------------------------------------------------
(***************************************************************************)
(* What rows of the ledger add up to.                                      *)
(***************************************************************************)
LEMMA TotalType ==
  ASSUME NEW R, IsFiniteSet(R), \A e \in R : e.amount \in Nat
  PROVE  TotalOf(R) \in Nat
<1> DEFINE f == [e \in R |-> e.amount]
<1>1. Counts(f, R) BY DEF Counts
<1> HIDE DEF f
<1>2. SumFunctionOnSet(f, R) \in Nat BY <1>1, SumType
<1>3. QED BY <1>2 DEF TotalOf, f

\* A new row adds its amount.
LEMMA TotalAdd ==
  ASSUME NEW R, IsFiniteSet(R), NEW e, e \notin R, \A x \in R \cup {e} : x.amount \in Nat
  PROVE  /\ IsFiniteSet(R \cup {e})
         /\ TotalOf(R \cup {e}) = e.amount + TotalOf(R)
<1> DEFINE f == [x \in R |-> x.amount]
           g == [x \in R \cup {e} |-> x.amount]
<1>1. Counts(g, R \cup {e}) /\ g[e] = e.amount /\ \A x \in R : f[x] = g[x] BY DEF Counts
<1> HIDE DEF f, g
<1>2. SumFunctionOnSet(g, R \cup {e}) = g[e] + SumFunctionOnSet(g, R) BY <1>1, SumAdd
<1>3. SumFunctionOnSet(f, R) = SumFunctionOnSet(g, R) BY <1>1, SumSame
<1>4. TotalOf(R \cup {e}) = SumFunctionOnSet(g, R \cup {e}) BY DEF TotalOf, g
<1>5. TotalOf(R) = SumFunctionOnSet(f, R) BY DEF TotalOf, f
<1>6. QED BY <1>1, <1>2, <1>3, <1>4, <1>5, FS_AddElement

-----------------------------------------------------------------------------
(***************************************************************************)
(* append_ledger_entries processes rows one by one.                        *)
(***************************************************************************)
\* g is the recursive function inside BalanceAfter(L, bal, T).
Applies(g, L, bal, T) ==
  g = [s \in SUBSET T |-> IF s = {} THEN bal ELSE ApplyEntry(L, g[Rest(s)], Pick(s))]

\* append_ledger_entries over rows is a recursion of the same shape.
LEMMA AfterIsApplied ==
  ASSUME NEW L, NEW bal, NEW T
  PROVE  BalanceAfter(L, bal, T) = (CHOOSE g : Applies(g, L, bal, T))[T]
BY DEF BalanceAfter, FoldSet, MapThenFoldSet, Applies, Pick, Rest

\* Two of its solutions agree where both are defined.
LEMMA ApplyUnique ==
  ASSUME NEW L, NEW bal, NEW T, NEW U, NEW g, NEW h, Applies(g, L, bal, T), Applies(h, L, bal, U)
  PROVE  \A s \in SUBSET (T \cap U) : IsFiniteSet(s) => g[s] = h[s]
<1> DEFINE C == {s \in FiniteSubsetsOf(T \cap U) : g[s] # h[s]}
<1>0. C \subseteq FiniteSubsetsOf(T \cap U) OBVIOUS
<1>1. ASSUME C # {} PROVE FALSE
  <2>1. PICK s \in C : \A u \in C : ~(u \subseteq s /\ u # s)
    <3> HIDE DEF C
    <3>1. QED BY <1>0, <1>1, SmallestSet
  <2>2. s \subseteq T /\ s \subseteq U /\ IsFiniteSet(s) /\ g[s] # h[s] BY <2>1 DEF FiniteSubsetsOf
  <2>g. g[s] = IF s = {} THEN bal ELSE ApplyEntry(L, g[Rest(s)], Pick(s)) BY <2>2 DEF Applies
  <2>h. h[s] = IF s = {} THEN bal ELSE ApplyEntry(L, h[Rest(s)], Pick(s)) BY <2>2 DEF Applies
  <2>3. s # {} BY <2>2, <2>g, <2>h
  <2>4. Rest(s) \in FiniteSubsetsOf(T \cap U) BY <2>2, <2>3, RestIsSmaller DEF FiniteSubsetsOf
  <2>5. g[Rest(s)] = h[Rest(s)] BY <2>1, <2>2, <2>3, <2>4, RestIsSmaller
  <2>6. QED BY <2>2, <2>3, <2>5, <2>g, <2>h
<1>2. QED BY <1>1 DEF FiniteSubsetsOf

\* It has a solution.
LEMMA ApplyExists ==
  ASSUME NEW L, NEW bal, NEW T, IsFiniteSet(T)
  PROVE  \E g : Applies(g, L, bal, T)
<1> DEFINE C == {s \in FiniteSubsetsOf(T) : ~ \E g : Applies(g, L, bal, s)}
<1>0. C \subseteq FiniteSubsetsOf(T) OBVIOUS
<1>1. ASSUME C # {} PROVE FALSE
  <2>1. PICK s \in C : \A u \in C : ~(u \subseteq s /\ u # s)
    <3> HIDE DEF C
    <3>1. QED BY <1>0, <1>1, SmallestSet
  <2>2. s \subseteq T /\ IsFiniteSet(s) /\ ~ \E g : Applies(g, L, bal, s) BY <2>1 DEF FiniteSubsetsOf
  <2>3. \A u \in SUBSET s : u # s => IsFiniteSet(u) /\ \E g : Applies(g, L, bal, u)
    <3> SUFFICES ASSUME NEW u \in SUBSET s, u # s
                 PROVE  IsFiniteSet(u) /\ \E g : Applies(g, L, bal, u)
      OBVIOUS
    <3>1. IsFiniteSet(u) BY <2>2, FS_Subset
    <3>2. u \in FiniteSubsetsOf(T) BY <2>2, <3>1 DEF FiniteSubsetsOf
    <3>3. QED BY <2>1, <3>1, <3>2
  <2> DEFINE G(u) == CHOOSE g : Applies(g, L, bal, u)
             V(u) == IF u = {} THEN bal ELSE ApplyEntry(L, G(Rest(u))[Rest(u)], Pick(u))
             h == [u \in SUBSET s |-> V(u)]
  <2>4. \A u \in SUBSET s : u # s => Applies(G(u), L, bal, u) BY <2>3
  <2>5. \A u \in SUBSET s : u # s => G(u)[u] = V(u)
    <3> SUFFICES ASSUME NEW u \in SUBSET s, u # s PROVE G(u)[u] = V(u)
      OBVIOUS
    <3>1. Applies(G(u), L, bal, u) BY <2>4
    <3>2. G(u)[u] = IF u = {} THEN bal ELSE ApplyEntry(L, G(u)[Rest(u)], Pick(u))
      <4> HIDE DEF G
      <4>1. QED BY <3>1 DEF Applies
    <3>3. CASE u = {} BY <3>2, <3>3
    <3>4. CASE u # {}
      <4> DEFINE r == Rest(u)
      <4>1. r \subseteq u /\ r # u /\ IsFiniteSet(r) BY <2>3, <3>4, RestIsSmaller
      <4>2. r # s BY <4>1
      <4>3. Applies(G(r), L, bal, r) BY <2>4, <4>1, <4>2
      <4>4. G(r)[r] = G(u)[r]
        <5> HIDE DEF G, r
        <5>1. r \in SUBSET (r \cap u) BY <4>1
        <5>2. QED BY <3>1, <4>1, <4>3, <5>1, ApplyUnique
      <4>5. QED BY <3>2, <3>4, <4>4
    <3>5. QED BY <3>3, <3>4
  <2>6. Applies(h, L, bal, s)
    <3>1. \A u \in SUBSET s : V(u) = IF u = {} THEN bal ELSE ApplyEntry(L, h[Rest(u)], Pick(u))
      <4>1. ASSUME NEW u \in SUBSET s, u # {} PROVE V(u) = ApplyEntry(L, h[Rest(u)], Pick(u))
        <5> DEFINE r == Rest(u)
        <5>0. IsFiniteSet(u) BY <2>2, FS_Subset
        <5>1. r \in SUBSET s /\ r # s BY <4>1, <5>0, RestIsSmaller
        <5>2. h[r] = V(r) BY <5>1
        <5>3. G(r)[r] = V(r) BY <2>5, <5>1
        <5>4. V(u) = ApplyEntry(L, G(r)[r], Pick(u)) BY <4>1
        <5> HIDE DEF h, G, V
        <5>5. QED BY <5>2, <5>3, <5>4
      <4>2. V({}) = bal OBVIOUS
      <4> HIDE DEF h, V
      <4>3. QED BY <4>1, <4>2
    <3> HIDE DEF V
    <3>2. QED BY <3>1 DEF Applies
  <2>7. QED BY <2>2, <2>6
<1>2. T \in FiniteSubsetsOf(T) BY DEF FiniteSubsetsOf
<1>3. QED BY <1>1, <1>2

\* Hence the balance after some rows is that after all but one, and that one.
LEMMA AfterUnfolds ==
  ASSUME NEW L, NEW bal, NEW T, IsFiniteSet(T)
  PROVE  BalanceAfter(L, bal, T)
           = IF T = {} THEN bal ELSE ApplyEntry(L, BalanceAfter(L, bal, Rest(T)), Pick(T))
<1> DEFINE G(u) == CHOOSE g : Applies(g, L, bal, u)
<1>1. Applies(G(T), L, bal, T) BY ApplyExists
<1>2. BalanceAfter(L, bal, T) = G(T)[T] BY AfterIsApplied
<1>3. BalanceAfter(L, bal, Rest(T)) = G(Rest(T))[Rest(T)] BY AfterIsApplied
<1>4. G(T)[T] = IF T = {} THEN bal ELSE ApplyEntry(L, G(T)[Rest(T)], Pick(T))
  <2> HIDE DEF G
  <2>1. QED BY <1>1 DEF Applies
<1>5. CASE T = {} BY <1>2, <1>4, <1>5
<1>6. CASE T # {}
  <2>1. Rest(T) \subseteq T /\ IsFiniteSet(Rest(T)) BY <1>6, RestIsSmaller
  <2>2. Applies(G(Rest(T)), L, bal, Rest(T)) BY <2>1, ApplyExists
  <2>3. Rest(T) \in SUBSET (Rest(T) \cap T) BY <2>1
  <2>4. G(Rest(T))[Rest(T)] = G(T)[Rest(T)]
    <3> HIDE DEF G
    <3>1. QED BY <1>1, <2>1, <2>2, <2>3, ApplyUnique
  <2>5. QED BY <1>2, <1>3, <1>4, <1>6, <2>4
<1>7. QED BY <1>5, <1>6

\* The balance after no row, and after one.
LEMMA AfterFew ==
  ASSUME NEW L, NEW bal
  PROVE  /\ BalanceAfter(L, bal, {}) = bal
         /\ \A e : BalanceAfter(L, bal, {e}) = ApplyEntry(L, bal, e)
<1>1. BalanceAfter(L, bal, {}) = bal BY AfterUnfolds, FS_EmptySet
<1>2. ASSUME NEW e PROVE BalanceAfter(L, bal, {e}) = ApplyEntry(L, bal, e)
  <2>1. IsFiniteSet({e}) BY FS_Singleton
  <2>2. Pick({e}) = e BY PickIsMember
  <2>3. Rest({e}) = {} BY <2>2 DEF Rest
  <2>4. QED BY <1>1, <2>1, <2>2, <2>3, AfterUnfolds
<1>3. QED BY <1>1, <1>2

-----------------------------------------------------------------------------
\* What the buckets of a balance add up to.
LEMMA BucketSum ==
  ASSUME NEW b \in Balance
  PROVE  SumFunction(b) = b["immature"] + b["confirmed"] + b["locked"] + b["paid"]
<1> DEFINE s1 == {"paid"}
           s2 == {"locked", "paid"}
           s3 == {"confirmed", "locked", "paid"}
<1>1. DOMAIN b = Buckets /\ \A x \in Buckets : b[x] \in Nat BY DEF Balance
<1>2. IsFiniteSet({}) /\ IsFiniteSet(s1) /\ IsFiniteSet(s2) /\ IsFiniteSet(s3)
  <2>1. IsFiniteSet({}) BY FS_EmptySet
  <2>2. IsFiniteSet({} \cup {"paid"}) BY <2>1, FS_AddElement
  <2>3. {} \cup {"paid"} = s1 OBVIOUS
  <2>4. IsFiniteSet(s1 \cup {"locked"}) BY <2>2, <2>3, FS_AddElement
  <2>5. s1 \cup {"locked"} = s2 OBVIOUS
  <2>6. IsFiniteSet(s2 \cup {"confirmed"}) BY <2>4, <2>5, FS_AddElement
  <2>7. s2 \cup {"confirmed"} = s3 OBVIOUS
  <2>8. QED BY <2>1, <2>2, <2>3, <2>4, <2>5, <2>6, <2>7
<1>3. SumFunctionOnSet(b, s1) = b["paid"] + SumFunctionOnSet(b, {})
  <2>1. Counts(b, {} \cup {"paid"}) BY <1>1 DEF Counts, Buckets
  <2>2. {} \cup {"paid"} = s1 OBVIOUS
  <2>3. SumFunctionOnSet(b, {} \cup {"paid"}) = b["paid"] + SumFunctionOnSet(b, {}) BY <1>2, <2>1, SumAdd
  <2>4. QED BY <2>2, <2>3
<1>4. SumFunctionOnSet(b, s2) = b["locked"] + SumFunctionOnSet(b, s1)
  <2>1. Counts(b, s1 \cup {"locked"}) BY <1>1 DEF Counts, Buckets
  <2>2. s1 \cup {"locked"} = s2 /\ "locked" \notin s1 OBVIOUS
  <2> HIDE DEF s1, s2
  <2>3. SumFunctionOnSet(b, s1 \cup {"locked"}) = b["locked"] + SumFunctionOnSet(b, s1) BY <1>2, <2>1, <2>2, SumAdd
  <2>4. QED BY <2>2, <2>3
<1>5. SumFunctionOnSet(b, s3) = b["confirmed"] + SumFunctionOnSet(b, s2)
  <2>1. Counts(b, s2 \cup {"confirmed"}) BY <1>1 DEF Counts, Buckets
  <2>2. s2 \cup {"confirmed"} = s3 /\ "confirmed" \notin s2 OBVIOUS
  <2> HIDE DEF s2, s3
  <2>3. SumFunctionOnSet(b, s2 \cup {"confirmed"}) = b["confirmed"] + SumFunctionOnSet(b, s2) BY <1>2, <2>1, <2>2, SumAdd
  <2>4. QED BY <2>2, <2>3
<1>6. SumFunctionOnSet(b, Buckets) = b["immature"] + SumFunctionOnSet(b, s3)
  <2>1. Counts(b, s3 \cup {"immature"}) BY <1>1 DEF Counts, Buckets
  <2>2. s3 \cup {"immature"} = Buckets /\ "immature" \notin s3 BY DEF Buckets
  <2> HIDE DEF s3
  <2>3. SumFunctionOnSet(b, s3 \cup {"immature"}) = b["immature"] + SumFunctionOnSet(b, s3) BY <1>2, <2>1, <2>2, SumAdd
  <2>4. QED BY <2>2, <2>3
<1>7. \A x \in Buckets : b[x] \in Nat BY <1>1
<1>8. SumFunctionOnSet(b, {}) = 0 BY SumEmpty
<1> HIDE DEF s1, s2, s3
<1>9. QED BY <1>1, <1>3, <1>4, <1>5, <1>6, <1>7, <1>8 DEF SumFunction, Buckets

-----------------------------------------------------------------------------
(***************************************************************************)
(* Totals of rows together and of rows made of others.                     *)
(***************************************************************************)
LEMMA TotalUnion ==
  ASSUME NEW A, IsFiniteSet(A), NEW B, IsFiniteSet(B), A \cap B = {},
         \A e \in A \cup B : e.amount \in Nat
  PROVE  /\ TotalOf(A) \in Nat /\ TotalOf(B) \in Nat
         /\ TotalOf(A \cup B) = TotalOf(A) + TotalOf(B)
<1> DEFINE Fits(s) == TotalOf(A \cup s) = TotalOf(A) + TotalOf(s)
           C == {s \in FiniteSubsetsOf(B) : ~Fits(s)}
<1>0. C \subseteq FiniteSubsetsOf(B) OBVIOUS
<1>t. TotalOf(A) \in Nat /\ TotalOf(B) \in Nat BY TotalType
<1>1. ASSUME C # {} PROVE FALSE
  <2>1. PICK s \in C : \A u \in C : ~(u \subseteq s /\ u # s)
    <3> HIDE DEF C
    <3>1. QED BY <1>0, <1>1, SmallestSet
  <2>2. s \subseteq B /\ IsFiniteSet(s) /\ ~Fits(s) BY <2>1 DEF FiniteSubsetsOf
  <2>3. s # {}
    <3>1. TotalOf({}) = 0 BY SumEmpty DEF TotalOf
    <3>2. A \cup {} = A OBVIOUS
    <3>3. Fits({}) BY <1>t, <3>1, <3>2
    <3> HIDE DEF Fits
    <3>4. QED BY <2>2, <3>3
  <2>4. PICK z \in s : TRUE BY <2>3
  <2> DEFINE r == s \ {z}
  <2>5. IsFiniteSet(r) /\ r \subseteq s /\ r # s /\ r \subseteq B BY <2>2, <2>4, FS_RemoveElement
  <2>6. r \in FiniteSubsetsOf(B) BY <2>5 DEF FiniteSubsetsOf
  <2>7. Fits(r)
    <3> HIDE DEF r, Fits
    <3>1. r \notin C
      <4> HIDE DEF C
      <4>1. QED BY <2>1, <2>5
    <3>2. QED BY <2>6, <3>1
  <2>8. s = r \cup {z} /\ A \cup s = (A \cup r) \cup {z} /\ z \notin r /\ z \notin A \cup r
    BY <2>2, <2>4
  <2>9. z.amount \in Nat /\ (\A x \in r \cup {z} : x.amount \in Nat)
        /\ \A x \in (A \cup r) \cup {z} : x.amount \in Nat
    BY <2>2, <2>4
  <2> HIDE DEF r
  <2>10. IsFiniteSet(A \cup r) BY <2>5, FS_Union
  <2>11. TotalOf(r \cup {z}) = z.amount + TotalOf(r) BY <2>5, <2>8, <2>9, TotalAdd
  <2>12. TotalOf((A \cup r) \cup {z}) = z.amount + TotalOf(A \cup r)
    <3> DEFINE U == A \cup r
    <3>1. IsFiniteSet(U) /\ z \notin U /\ \A x \in U \cup {z} : x.amount \in Nat
      BY <2>8, <2>9, <2>10
    <3> HIDE DEF U
    <3>2. TotalOf(U \cup {z}) = z.amount + TotalOf(U) BY <3>1, TotalAdd
    <3>3. QED BY <3>2 DEF U
  <2>13. TotalOf(r) \in Nat BY <2>5, <2>9, TotalType
  <2>14. TotalOf(A \cup r) = TotalOf(A) + TotalOf(r) BY <2>7
  <2>15. TotalOf(A \cup s) = TotalOf(A) + TotalOf(s)
    <3>1. TotalOf(A \cup s) = z.amount + TotalOf(A \cup r) /\ TotalOf(s) = z.amount + TotalOf(r)
      BY <2>8, <2>11, <2>12, Zenon
    <3> HIDE DEF Fits
    <3>2. QED BY <1>t, <2>9, <2>13, <2>14, <3>1
  <2>16. QED BY <2>2, <2>15
<1>2. Fits(B)
  <2>1. B \in FiniteSubsetsOf(B) BY DEF FiniteSubsetsOf
  <2> HIDE DEF Fits
  <2>2. QED BY <1>1, <2>1
<1>3. QED BY <1>2, <1>t

\* Some of the rows add up to no more than all of them.
LEMMA TotalPart ==
  ASSUME NEW B, IsFiniteSet(B), NEW A \in SUBSET B, \A e \in B : e.amount \in Nat
  PROVE  TotalOf(A) <= TotalOf(B)
<1> DEFINE D == B \ A
<1>1. D \in SUBSET B /\ A \cap D = {} /\ A \cup D = B OBVIOUS
<1> HIDE DEF D
<1>2. IsFiniteSet(A) /\ IsFiniteSet(D) BY <1>1, FS_Subset
<1>3. TotalOf(A) \in Nat /\ TotalOf(D) \in Nat /\ TotalOf(A \cup D) = TotalOf(A) + TotalOf(D)
  BY <1>1, <1>2, TotalUnion
<1>4. TotalOf(B) = TotalOf(A) + TotalOf(D) BY <1>1, <1>3, Zenon
<1>5. QED BY <1>3, <1>4

\* reward_mature rows move their amount from one bucket to the next, and nothing
\* is cut short if there is as much as they take.
LEMMA AfterMature ==
  ASSUME NEW L, NEW bal \in Balance, NEW R, IsFiniteSet(R),
         \A e \in R : e.kind = "reward_mature" /\ e.amount \in Nat,
         TotalOf(NewRows(L, R)) <= bal["immature"]
  PROVE  /\ BalanceAfter(L, bal, R) \in Balance
         /\ BalanceAfter(L, bal, R)["immature"] + TotalOf(NewRows(L, R)) = bal["immature"]
         /\ BalanceAfter(L, bal, R)["confirmed"] = bal["confirmed"] + TotalOf(NewRows(L, R))
         /\ BalanceAfter(L, bal, R)["locked"] = bal["locked"]
         /\ BalanceAfter(L, bal, R)["paid"] = bal["paid"]
<1> DEFINE N(s) == TotalOf(NewRows(L, s))
           A(s) == BalanceAfter(L, bal, s)
           Fits(s) == /\ A(s) \in Balance
                      /\ A(s)["immature"] + N(s) = bal["immature"]
                      /\ A(s)["confirmed"] = bal["confirmed"] + N(s)
                      /\ A(s)["locked"] = bal["locked"] /\ A(s)["paid"] = bal["paid"]
           C == {s \in FiniteSubsetsOf(R) : ~Fits(s)}
<1>0. C \subseteq FiniteSubsetsOf(R) OBVIOUS
<1>b. bal["immature"] \in Nat /\ bal["confirmed"] \in Nat /\ bal["locked"] \in Nat /\ bal["paid"] \in Nat
  BY DEF Balance, Buckets
<1>1. ASSUME C # {} PROVE FALSE
  <2>1. PICK s \in C : \A u \in C : ~(u \subseteq s /\ u # s)
    <3> HIDE DEF C
    <3>1. QED BY <1>0, <1>1, SmallestSet
  <2>2. s \subseteq R /\ IsFiniteSet(s) /\ ~Fits(s) BY <2>1 DEF FiniteSubsetsOf
  <2>3. s # {}
    <3>1. NewRows(L, {}) = {} BY DEF NewRows
    <3>2. N({}) = 0 BY <3>1, SumEmpty DEF TotalOf
    <3>3. A({}) = bal BY AfterFew
    <3>4. Fits({})
      <4> HIDE DEF A, N
      <4>1. QED BY <1>b, <3>2, <3>3
    <3> HIDE DEF Fits
    <3>5. QED BY <2>2, <3>4
  <2> DEFINE z == Pick(s)
             r == Rest(s)
  <2>5. z \in s /\ r \subseteq s /\ r # s /\ IsFiniteSet(r) /\ r = s \ {z}
    BY <2>2, <2>3, RestIsSmaller DEF Rest
  <2>6. r \in FiniteSubsetsOf(R) BY <2>2, <2>5 DEF FiniteSubsetsOf
  <2> HIDE DEF z, r
  <2>7. Fits(r)
    <3> HIDE DEF Fits
    <3>1. r \notin C
      <4> HIDE DEF C
      <4>1. QED BY <2>1, <2>5
    <3>2. QED BY <2>6, <3>1
  <2>8. A(s) = ApplyEntry(L, A(r), z) BY <2>2, <2>3, AfterUnfolds DEF z, r
  <2>9. z.kind = "reward_mature" /\ z.amount \in Nat BY <2>2, <2>5
  <2>10. IsFiniteSet(NewRows(L, r)) /\ \A e \in NewRows(L, r) \cup {z} : e.amount \in Nat
    <3>1. NewRows(L, r) \in SUBSET r BY DEF NewRows
    <3>2. IsFiniteSet(NewRows(L, r)) BY <2>5, <3>1, FS_Subset
    <3>3. QED BY <2>2, <2>5, <2>9, <3>1, <3>2
  <2>11. N(r) \in Nat BY <2>10, TotalType
  <2>12. A(r) \in Balance BY <2>7
  <2>13. CASE ~Inserts(L, z)
    <3>1. NewRows(L, s) = NewRows(L, r) BY <2>5, <2>13 DEF NewRows
    <3>2. A(s) = A(r) BY <2>8, <2>13 DEF ApplyEntry
    <3>3. Fits(s)
      <4>1. N(s) = N(r) BY <3>1
      <4> HIDE DEF A, N
      <4>2. QED BY <2>7, <3>2, <4>1
    <3> HIDE DEF Fits
    <3>4. QED BY <2>2, <3>3
  <2>14. CASE Inserts(L, z)
    <3>1. NewRows(L, s) = NewRows(L, r) \cup {z} /\ z \notin NewRows(L, r)
      BY <2>5, <2>14 DEF NewRows
    <3>2. N(s) = z.amount + N(r) BY <2>10, <3>1, TotalAdd
    <3>3. N(s) <= bal["immature"]
      <4>1. NewRows(L, s) \subseteq NewRows(L, R) BY <2>2 DEF NewRows
      <4>2. IsFiniteSet(NewRows(L, R)) /\ \A e \in NewRows(L, R) : e.amount \in Nat
        <5>1. NewRows(L, R) \in SUBSET R BY DEF NewRows
        <5>2. QED BY <5>1, FS_Subset
      <4>3. TotalOf(NewRows(L, s)) <= TotalOf(NewRows(L, R)) BY <4>1, <4>2, TotalPart
      <4>4. TotalOf(NewRows(L, R)) \in Nat BY <4>2, TotalType
      <4>5. N(s) \in Nat BY <2>9, <2>11, <3>2
      <4>6. QED BY <1>b, <4>3, <4>4, <4>5
    <3>4. A(s) = Move(A(r), "immature", "confirmed", z.amount)
      BY <2>8, <2>9, <2>14 DEF ApplyEntry, TakesFrom, AddsTo
    <3> DEFINE b == A(r)
    <3>5. b["immature"] + N(r) = bal["immature"] /\ b["confirmed"] = bal["confirmed"] + N(r)
          /\ b["locked"] = bal["locked"] /\ b["paid"] = bal["paid"]
      BY <2>7
    <3>6. b \in Balance BY <2>12
    <3> HIDE DEF b, N
    <3>7. z.amount <= b["immature"] /\ b["immature"] \in Nat
      <4>1. b["immature"] \in Nat BY <3>6 DEF Balance, Buckets
      <4>2. QED BY <1>b, <2>9, <2>11, <3>2, <3>3, <3>5, <4>1
    <3>8. A(s) = Move(b, "immature", "confirmed", z.amount) BY <3>4 DEF b
    <3>9. /\ A(s)["immature"] = b["immature"] - z.amount
          /\ A(s)["confirmed"] = b["confirmed"] + z.amount
          /\ A(s)["locked"] = b["locked"] /\ A(s)["paid"] = b["paid"]
      <4> HIDE DEF A
      <4>1. QED BY <3>7, <3>8 DEF Move, Monus, Buckets
    <3>10. A(s) \in Balance
      <4> HIDE DEF A
      <4>1. QED BY <2>9, <3>6, <3>7, <3>8 DEF Move, Monus, Balance, Buckets
    <3>11. Fits(s)
      <4> HIDE DEF A
      <4>1. A(s)["immature"] + N(s) = bal["immature"] BY <1>b, <2>9, <2>11, <3>2, <3>5, <3>7, <3>9
      <4>2. A(s)["confirmed"] = bal["confirmed"] + N(s) BY <1>b, <2>9, <2>11, <3>2, <3>5, <3>9
      <4>3. QED BY <3>5, <3>9, <3>10, <4>1, <4>2
    <3> HIDE DEF Fits
    <3>12. QED BY <2>2, <3>11
  <2>15. QED BY <2>13, <2>14
<1>2. Fits(R)
  <2>1. R \in FiniteSubsetsOf(R) BY DEF FiniteSubsetsOf
  <2> HIDE DEF Fits
  <2>2. QED BY <1>1, <2>1
<1>3. QED BY <1>2
=============================================================================
