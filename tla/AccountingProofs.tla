-------------------------- MODULE AccountingProofs --------------------------
(***************************************************************************)
(* What is proved of allocate_pplns and select_payouts, for windows and    *)
(* lists of any length: the parts of a reward add up to it and are the     *)
(* exact ones but for less than a unit a miner, one's own share never      *)
(* costs one anything, and the balances that are paid are the largest, in  *)
(* their order.                                                            *)
(***************************************************************************)
EXTENDS Accounting, LedgerProofs, SequenceTheorems

-----------------------------------------------------------------------------
(***************************************************************************)
(* Arithmetic of the divisions.                                            *)
(***************************************************************************)
\* A quotient is rounded down.
LEMMA DivBound ==
  ASSUME NEW x \in Nat, NEW d \in Nat, d > 0
  PROVE  x \div d \in Nat /\ d * (x \div d) <= x
OBVIOUS

\* A quotient is rounded down by less than one.
LEMMA DivAlmost ==
  ASSUME NEW x \in Nat, NEW d \in Nat, d > 0
  PROVE  x + 1 <= d * ((x \div d) + 1)
<1>1. x \div d \in Nat /\ x = d * (x \div d) + (x % d) /\ (x % d) < d /\ (x % d) \in Nat
  OBVIOUS
<1>2. d * ((x \div d) + 1) = d * (x \div d) + d
  BY <1>1
<1>3. d * (x \div d) \in Nat
  BY <1>1
<1>4. QED
  BY <1>1, <1>2, <1>3

\* A positive factor cancels.
LEMMA DivCancel ==
  ASSUME NEW d \in Nat, NEW t \in Nat, NEW s \in Nat, d > 0, d * s <= t * d
  PROVE  s <= t
<1>1. ASSUME s > t PROVE FALSE
  <2>1. PICK x \in Nat : s = t + 1 + x BY <1>1
  <2>2. d * s = d * t + d + d * x BY <2>1
  <2>3. d * x \in Nat /\ d * t = t * d OBVIOUS
  <2>4. QED BY <2>2, <2>3
<1>2. QED BY <1>1

\* Bounds on two parts give the bound on both.
LEMMA DivAdds ==
  ASSUME NEW d \in Nat, NEW t \in Nat, NEW q \in Nat, NEW s \in Nat, NEW w \in Nat, NEW v \in Nat,
         d * q <= t * w, d * s <= t * v
  PROVE  d * (q + s) <= t * (w + v)
OBVIOUS

\* The fee is no more than the reward.
LEMMA FeeBound ==
  ASSUME NEW reward \in Nat, NEW fee_bps \in Nat, fee_bps <= Bps
  PROVE  /\ PoolFee(reward, fee_bps) \in Nat
         /\ MinerTotal(reward, fee_bps) \in Nat
         /\ MinerTotal(reward, fee_bps) + PoolFee(reward, fee_bps) = reward
<1>1. reward * fee_bps \in Nat /\ reward * fee_bps <= reward * 10000 BY DEF Bps
<1>2. PoolFee(reward, fee_bps) \in Nat /\ PoolFee(reward, fee_bps) <= reward BY <1>1 DEF PoolFee, Bps
<1>3. QED BY <1>2 DEF MinerTotal, SaturatingSub

-----------------------------------------------------------------------------
(***************************************************************************)
(* Allocate divides the whole total.                                       *)
(***************************************************************************)
\* A finite set of numbers has a largest.
LEMMA MaxIsMember ==
  ASSUME NEW S, IsFiniteSet(S), S \subseteq Nat, S # {}
  PROVE  Max(S) \in S /\ \A x \in S : Max(S) >= x
<1> DEFINE Has(s) == s = {} \/ \E x \in s : \A y \in s : x >= y
           C == {s \in FiniteSubsetsOf(S) : ~Has(s)}
<1>0. C \subseteq FiniteSubsetsOf(S) OBVIOUS
<1>1. ASSUME C # {} PROVE FALSE
  <2>1. PICK s \in C : \A u \in C : ~(u \subseteq s /\ u # s)
    <3> HIDE DEF C
    <3>1. QED BY <1>0, <1>1, SmallestSet
  <2>2. s \subseteq Nat /\ s \subseteq S /\ IsFiniteSet(s) /\ ~Has(s) BY <2>1 DEF FiniteSubsetsOf
  <2>3. PICK z \in s : TRUE BY <2>2
  <2> DEFINE r == s \ {z}
  <2>4. r \in FiniteSubsetsOf(S) BY <2>2, FS_RemoveElement DEF FiniteSubsetsOf
  <2>5. Has(r)
    <3>1. r \subseteq s /\ r # s BY <2>3
    <3> HIDE DEF r, Has
    <3>2. r \notin C
      <4> HIDE DEF C
      <4>1. QED BY <2>1, <3>1
    <3>3. QED BY <2>4, <3>2
  <2>6. CASE r = {}
    <3>1. s = {z} BY <2>3, <2>6
    <3>2. z >= z BY <2>2, <2>3
    <3>3. QED BY <2>2, <3>1, <3>2
  <2>7. CASE r # {}
    <3>1. PICK x \in r : \A y \in r : x >= y BY <2>5, <2>7
    <3>2. x \in Nat /\ z \in Nat BY <2>2, <2>3, <3>1
    <3>3. \A y \in s : y \in Nat /\ (y \in r \/ y = z) BY <2>2
    <3>4. CASE x >= z
      <4>1. \A y \in s : x >= y BY <3>1, <3>3, <3>4
      <4>2. QED BY <2>2, <3>1, <4>1
    <3>5. CASE ~(x >= z)
      <4>1. \A y \in s : z >= y
        <5>1. \A y \in r : y \in Nat /\ x >= y BY <3>1, <3>3
        <5> HIDE DEF r
        <5>2. QED BY <3>2, <3>3, <3>5, <5>1
      <4>2. QED BY <2>2, <2>3, <4>1
    <3>6. QED BY <3>4, <3>5
  <2>8. QED BY <2>6, <2>7
<1>2. Has(S)
  <2>1. S \in FiniteSubsetsOf(S) BY DEF FiniteSubsetsOf
  <2> HIDE DEF Has
  <2>2. QED BY <1>1, <2>1
<1>3. \E x \in S : \A y \in S : x >= y BY <1>2
<1>4. QED BY <1>3 DEF Max

\* The parts rounded down add up to no more than the total.
LEMMA QuotasBound ==
  ASSUME NEW S, IsFiniteSet(S), NEW w, Counts(w, S), NEW q, Counts(q, S), NEW t \in Nat,
         NEW d \in Nat, \A m \in S : d * q[m] <= t * w[m]
  PROVE  d * SumFunctionOnSet(q, S) <= t * SumFunctionOnSet(w, S)
<1> DEFINE Small(s) == d * SumFunctionOnSet(q, s) <= t * SumFunctionOnSet(w, s)
           C == {s \in FiniteSubsetsOf(S) : ~Small(s)}
<1>0. C \subseteq FiniteSubsetsOf(S) OBVIOUS
<1>1. ASSUME C # {} PROVE FALSE
  <2>1. PICK s \in C : \A u \in C : ~(u \subseteq s /\ u # s)
    <3> HIDE DEF C
    <3>1. QED BY <1>0, <1>1, SmallestSet
  <2>2. s \subseteq S /\ IsFiniteSet(s) /\ ~Small(s) BY <2>1 DEF FiniteSubsetsOf
  <2>3. s # {}
    <3>1. d * 0 <= t * 0 OBVIOUS
    <3>2. QED BY <2>2, <3>1, SumEmpty
  <2>4. PICK z \in s : TRUE BY <2>3
  <2> DEFINE r == s \ {z}
  <2>5. IsFiniteSet(r) /\ r \subseteq s /\ r # s BY <2>2, <2>4, FS_RemoveElement
  <2>6. r \in FiniteSubsetsOf(S) BY <2>2, <2>5 DEF FiniteSubsetsOf
  <2>7. Counts(w, s) /\ Counts(q, s) /\ Counts(w, r) /\ Counts(q, r) BY <2>2 DEF Counts
  <2>8. /\ SumFunctionOnSet(w, s) = w[z] + SumFunctionOnSet(w, r)
        /\ SumFunctionOnSet(q, s) = q[z] + SumFunctionOnSet(q, r)
    BY <2>2, <2>4, <2>7, SumRemove
  <2>9. d * SumFunctionOnSet(q, r) <= t * SumFunctionOnSet(w, r)
    <3> HIDE DEF r, Small
    <3>1. r \notin C
      <4> HIDE DEF C
      <4>1. QED BY <2>1, <2>5
    <3>2. Small(r) BY <2>6, <3>1
    <3>3. QED BY <3>2 DEF Small
  <2>10. w[z] \in Nat /\ q[z] \in Nat /\ d * q[z] <= t * w[z] BY <2>2, <2>4 DEF Counts
  <2> HIDE DEF r
  <2>11. SumFunctionOnSet(w, r) \in Nat /\ SumFunctionOnSet(q, r) \in Nat BY <2>5, <2>7, SumType
  <2>12. d * (q[z] + SumFunctionOnSet(q, r)) <= t * (w[z] + SumFunctionOnSet(w, r))
    BY <2>9, <2>10, <2>11, DivAdds
  <2>13. QED BY <2>2, <2>8, <2>12
<1>2. Small(S)
  <2>1. S \in FiniteSubsetsOf(S) BY DEF FiniteSubsetsOf
  <2> HIDE DEF Small
  <2>2. QED BY <1>1, <2>1
<1>3. QED BY <1>2

\* "PPLNS allocation sums to reward minus fee" (docs/architecture.md).
LEMMA AllocateWhole ==
  ASSUME NEW S, IsFiniteSet(S), S \subseteq Nat, S # {}, NEW w \in [S -> Nat], NEW t \in Nat,
         SumFunction(w) # 0
  PROVE  /\ Allocate(t, w) \in [S -> Nat]
         /\ SumFunctionOnSet(Allocate(t, w), S) = t
<1> DEFINE d == SumFunction(w)
           q == [m \in S |-> Quota(t, w, m)]
           last == Max(S)
           others == S \ {last}
           done == SumFunctionOnSet(q, others)
           a == [q EXCEPT ![last] = SaturatingSub(t, done)]
<1>1. Allocate(t, w) = a BY DEF Allocate
<1>2. d = SumFunctionOnSet(w, S) BY DEF SumFunction
<1>3. Counts(w, S) BY DEF Counts
<1>4. d \in Nat /\ d > 0
  <2>1. d \in Nat BY <1>2, <1>3, SumType
  <2>2. QED BY <2>1
<1>5. \A m \in S : q[m] \in Nat /\ d * q[m] <= t * w[m]
  <2> SUFFICES ASSUME NEW m \in S PROVE q[m] \in Nat /\ d * q[m] <= t * w[m]
    OBVIOUS
  <2>1. q[m] = (t * w[m]) \div d BY DEF Quota
  <2>2. t * w[m] \in Nat
    <3>1. w[m] \in Nat OBVIOUS
    <3>2. QED BY <3>1
  <2> HIDE DEF d, q
  <2>3. QED BY <1>4, <2>1, <2>2, DivBound
<1>6. last \in S BY MaxIsMember
<1>7. IsFiniteSet(others) /\ others \subseteq S BY FS_RemoveElement
<1> HIDE DEF d, q, last
<1>8. Counts(q, S) /\ Counts(q, others) /\ Counts(w, others) BY <1>3, <1>5 DEF Counts
<1>9. done \in Nat
  <2> HIDE DEF others
  <2>1. QED BY <1>7, <1>8, SumType
<1>10. done <= t
  <2>1. d * done <= t * SumFunctionOnSet(w, others)
    <3>1. \A m \in others : d * q[m] <= t * w[m] BY <1>5, <1>7
    <3> HIDE DEF others
    <3>2. QED BY <1>4, <1>7, <1>8, <3>1, QuotasBound
  <2>2. SumFunctionOnSet(w, others) <= d
    <3> HIDE DEF others
    <3>1. QED BY <1>2, <1>3, <1>7, SumPart
  <2>3. SumFunctionOnSet(w, others) \in Nat
    <3> HIDE DEF others
    <3>1. QED BY <1>7, <1>8, SumType
  <2>4. t * SumFunctionOnSet(w, others) <= t * d BY <1>4, <2>2, <2>3
  <2> HIDE DEF done
  <2>5. d * done \in Nat /\ t * SumFunctionOnSet(w, others) \in Nat /\ t * d \in Nat BY <1>4, <1>9, <2>3
  <2>6. d * done <= t * d BY <2>1, <2>4, <2>5
  <2>7. QED BY <1>4, <1>9, <2>6, DivCancel
<1>11. a \in [S -> Nat] /\ a[last] = t - done /\ \A m \in others : a[m] = q[m]
  <2>1. SaturatingSub(t, done) = t - done /\ t - done \in Nat BY <1>9, <1>10 DEF SaturatingSub
  <2>2. q = [m \in S |-> q[m]] BY DEF q
  <2> HIDE DEF done
  <2>3. QED BY <1>5, <1>6, <2>1, <2>2
<1>12. SumFunctionOnSet(a, S) = a[last] + SumFunctionOnSet(a, others)
  <2>1. Counts(a, S) BY <1>11 DEF Counts
  <2> HIDE DEF a
  <2>2. QED BY <1>6, <2>1, SumRemove
<1>13. SumFunctionOnSet(a, others) = done
  <2> HIDE DEF a, others
  <2>1. QED BY <1>7, <1>11, SumSame
<1>14. SumFunctionOnSet(a, S) = t
  <2> HIDE DEF a, done
  <2>1. QED BY <1>9, <1>11, <1>12, <1>13
<1> HIDE DEF a
<1>15. QED BY <1>1, <1>11, <1>14

\* One more for each.
LEMMA SumOneMore ==
  ASSUME NEW S, IsFiniteSet(S), NEW q, Counts(q, S), NEW p, \A m \in S : p[m] = q[m] + 1
  PROVE  SumFunctionOnSet(p, S) = SumFunctionOnSet(q, S) + Cardinality(S)
<1> DEFINE More(s) == SumFunctionOnSet(p, s) = SumFunctionOnSet(q, s) + Cardinality(s)
           C == {s \in FiniteSubsetsOf(S) : ~ More(s)}
<1>0. C \subseteq FiniteSubsetsOf(S) OBVIOUS
<1>1. ASSUME C # {} PROVE FALSE
  <2>1. PICK s \in C : \A u \in C : ~(u \subseteq s /\ u # s)
    <3> HIDE DEF C
    <3>1. QED BY <1>0, <1>1, SmallestSet
  <2>2. s \subseteq S /\ IsFiniteSet(s) /\ ~ More(s) BY <2>1 DEF FiniteSubsetsOf
  <2>3. s # {} BY <2>2, SumEmpty, FS_EmptySet
  <2>4. PICK z \in s : TRUE BY <2>3
  <2> DEFINE r == s \ {z}
  <2>5. /\ IsFiniteSet(r) /\ r \subseteq s /\ r # s /\ Cardinality(s) \in Nat
        /\ Cardinality(r) = Cardinality(s) - 1
    BY <2>2, <2>4, FS_RemoveElement, FS_CardinalityType
  <2>6. r \in FiniteSubsetsOf(S) BY <2>2, <2>5 DEF FiniteSubsetsOf
  <2>7. Counts(p, s) /\ Counts(q, s) /\ Counts(q, r) BY <2>2 DEF Counts
  <2>8. /\ SumFunctionOnSet(p, s) = p[z] + SumFunctionOnSet(p, r)
        /\ SumFunctionOnSet(q, s) = q[z] + SumFunctionOnSet(q, r)
    BY <2>2, <2>4, <2>7, SumRemove
  <2>9. SumFunctionOnSet(p, r) = SumFunctionOnSet(q, r) + Cardinality(r)
    <3> HIDE DEF r, More
    <3>1. r \notin C
      <4> HIDE DEF C
      <4>1. QED BY <2>1, <2>5
    <3>2. More(r) BY <2>6, <3>1
    <3>3. QED BY <3>2 DEF More
  <2>10. q[z] \in Nat /\ p[z] = q[z] + 1 BY <2>2, <2>4 DEF Counts
  <2> HIDE DEF r
  <2>11. SumFunctionOnSet(q, r) \in Nat BY <2>5, <2>7, SumType
  <2>12. QED BY <2>2, <2>5, <2>8, <2>9, <2>10, <2>11
<1>2. More(S)
  <2>1. S \in FiniteSubsetsOf(S) BY DEF FiniteSubsetsOf
  <2> HIDE DEF More
  <2>2. QED BY <1>1, <2>1
<1>3. QED BY <1>2

\* The loop rounds everyone down but the last, who gets what is left, which is less than
\* a unit per miner.
LEMMA AllocateFair ==
  ASSUME NEW S, IsFiniteSet(S), S \subseteq Nat, S # {}, NEW w \in [S -> Nat], NEW t \in Nat,
         SumFunction(w) # 0
  PROVE  /\ \A m \in S : Quota(t, w, m) \in Nat
         /\ \A m \in S \ {Max(S)} : Allocate(t, w)[m] = Quota(t, w, m)
         /\ Quota(t, w, Max(S)) <= Allocate(t, w)[Max(S)]
         /\ Allocate(t, w)[Max(S)] < Quota(t, w, Max(S)) + Cardinality(S)
<1> DEFINE d == SumFunction(w)
           q == [m \in S |-> Quota(t, w, m)]
           p == [m \in S |-> Quota(t, w, m) + 1]
           last == Max(S)
           others == S \ {last}
           a == Allocate(t, w)
<1>1. a \in [S -> Nat] /\ SumFunctionOnSet(a, S) = t
  BY AllocateWhole
<1>2. \A m \in others : a[m] = q[m]
  BY DEF Allocate
<1>3. d = SumFunctionOnSet(w, S) BY DEF SumFunction
<1>4. Counts(w, S) BY DEF Counts
<1>5. d \in Nat /\ d > 0
  <2>1. d \in Nat BY <1>3, <1>4, SumType
  <2>2. QED BY <2>1
<1>6. \A m \in S : /\ q[m] \in Nat /\ p[m] = q[m] + 1 /\ w[m] \in Nat
                   /\ d * q[m] <= t * w[m] /\ t * w[m] + 1 <= d * p[m]
  <2> SUFFICES ASSUME NEW m \in S
               PROVE  /\ q[m] \in Nat /\ p[m] = q[m] + 1 /\ w[m] \in Nat
                      /\ d * q[m] <= t * w[m] /\ t * w[m] + 1 <= d * p[m]
    OBVIOUS
  <2>1. q[m] = (t * w[m]) \div d /\ p[m] = q[m] + 1 BY DEF Quota
  <2>2. w[m] \in Nat OBVIOUS
  <2>3. t * w[m] \in Nat BY <2>2
  <2> HIDE DEF d, q, p
  <2>4. q[m] \in Nat /\ d * q[m] <= t * w[m] BY <1>5, <2>1, <2>3, DivBound
  <2>5. t * w[m] + 1 <= d * p[m] BY <1>5, <2>1, <2>3, DivAlmost
  <2>6. QED BY <2>1, <2>2, <2>4, <2>5
<1>7. last \in S BY MaxIsMember
<1>8. /\ IsFiniteSet(others) /\ others \subseteq S /\ Cardinality(S) \in Nat
      /\ Cardinality(others) = Cardinality(S) - 1
  BY <1>7, FS_RemoveElement, FS_CardinalityType
<1>9. q[last] = Quota(t, w, last) /\ \A m \in S : q[m] = Quota(t, w, m) BY <1>7
<1> HIDE DEF d, q, p, last, a
<1>10. /\ Counts(a, S) /\ Counts(q, S) /\ Counts(q, others) /\ Counts(p, others) /\ Counts(w, others)
  BY <1>1, <1>6, <1>8 DEF Counts
<1>11. PICK done \in Nat : done = SumFunctionOnSet(q, others)
  <2> HIDE DEF others
  <2>1. QED BY <1>8, <1>10, SumType
<1>12. a[last] = t - done /\ a[last] \in Nat
  <2>1. SumFunctionOnSet(a, S) = a[last] + SumFunctionOnSet(a, others) BY <1>7, <1>10, SumRemove
  <2>2. SumFunctionOnSet(a, others) = done
    <3> HIDE DEF others
    <3>1. QED BY <1>2, <1>8, <1>11, SumSame
  <2>3. a[last] \in Nat BY <1>1, <1>7
  <2>4. QED BY <1>1, <1>11, <2>1, <2>2, <2>3
<1>13. PICK rest \in Nat : rest = SumFunctionOnSet(w, others) /\ d = w[last] + rest
  <2>1. d = w[last] + SumFunctionOnSet(w, others) BY <1>3, <1>4, <1>7, SumRemove
  <2>2. SumFunctionOnSet(w, others) \in Nat
    <3> HIDE DEF others
    <3>1. QED BY <1>8, <1>10, SumType
  <2>3. QED BY <2>1, <2>2
<1>14. q[last] \in Nat /\ w[last] \in Nat BY <1>6, <1>7
<1>15. q[last] <= t - done
  <2>1. d * SumFunctionOnSet(q, S) <= t * SumFunctionOnSet(w, S)
    BY <1>4, <1>5, <1>6, <1>10, QuotasBound
  <2>2. SumFunctionOnSet(q, S) = q[last] + done BY <1>7, <1>10, <1>11, SumRemove
  <2>3. d * (q[last] + done) <= t * d /\ q[last] + done \in Nat BY <1>3, <1>11, <1>14, <2>1, <2>2
  <2>4. q[last] + done <= t BY <1>5, <2>3, DivCancel
  <2>5. QED BY <1>11, <1>14, <2>4
<1>16. t < q[last] + done + Cardinality(S)
  <2>1. PICK more \in Nat : more = SumFunctionOnSet(p, others)
    <3> HIDE DEF others
    <3>1. QED BY <1>8, <1>10, SumType
  <2>2. t * rest <= d * more
    <3>1. \A m \in others : t * w[m] <= d * p[m]
      <4> SUFFICES ASSUME NEW m \in others PROVE t * w[m] <= d * p[m]
        OBVIOUS
      <4>1. w[m] \in Nat /\ p[m] \in Nat /\ t * w[m] + 1 <= d * p[m] BY <1>6, <1>8
      <4>2. t * w[m] \in Nat /\ d * p[m] \in Nat BY <1>5, <4>1
      <4>3. QED BY <4>1, <4>2
    <3> HIDE DEF others
    <3>2. t * SumFunctionOnSet(w, others) <= d * SumFunctionOnSet(p, others)
      BY <1>5, <1>8, <1>10, <3>1, QuotasBound
    <3>3. QED BY <1>13, <2>1, <3>2
  <2>3. t * w[last] + 1 <= d * (q[last] + 1) BY <1>6, <1>7
  <2>4. t * d + 1 <= d * (q[last] + 1 + more)
    <3>1. t * d = t * w[last] + t * rest BY <1>13, <1>14
    <3>2. d * (q[last] + 1 + more) = d * (q[last] + 1) + d * more BY <1>5, <1>14, <2>1
    <3>3. /\ t * w[last] \in Nat /\ t * rest \in Nat /\ d * (q[last] + 1) \in Nat /\ d * more \in Nat
      BY <1>5, <1>13, <1>14, <2>1
    <3>4. QED BY <2>2, <2>3, <3>1, <3>2, <3>3
  <2>5. more = done + Cardinality(others)
    <3>1. \A m \in others : p[m] = q[m] + 1 BY <1>6, <1>8
    <3> HIDE DEF others
    <3>2. QED BY <1>8, <1>10, <1>11, <2>1, <3>1, SumOneMore
  <2>6. PICK all \in Nat : all = q[last] + 1 + more BY <1>14, <2>1
  <2>7. t < all
    <3>1. SUFFICES ASSUME all <= t PROVE FALSE BY <2>6
    <3>2. d * all <= d * t BY <1>5, <2>6, <3>1
    <3>3. d * all \in Nat /\ d * t \in Nat /\ d * t = t * d BY <1>5, <2>6
    <3>4. QED BY <2>4, <2>6, <3>2, <3>3
  <2>8. QED BY <1>8, <1>11, <1>14, <2>5, <2>6, <2>7
<1>17. \A m \in S : Quota(t, w, m) \in Nat BY <1>6, <1>9
<1>18. \A m \in others : a[m] = Quota(t, w, m) BY <1>2, <1>8, <1>9
<1>19. Quota(t, w, last) <= a[last] BY <1>9, <1>12, <1>15
<1>20. a[last] < Quota(t, w, last) + Cardinality(S)
  BY <1>8, <1>9, <1>11, <1>12, <1>14, <1>16
<1>21. QED BY <1>17, <1>18, <1>19, <1>20 DEF a, last

-----------------------------------------------------------------------------
(***************************************************************************)
(* A window of shares.                                                     *)
(***************************************************************************)
\* Windows of shares of these miners.
Windows(S) == Seq([miner : S, difficulty : Nat])

\* The miners of a window and their weights.
LEMMA WeightsType ==
  ASSUME NEW Some, NEW shares \in Windows(Some), shares # <<>>
  PROVE  /\ IsFiniteSet(MinersOf(shares)) /\ MinersOf(shares) # {}
         /\ MinersOf(shares) \subseteq Some
         /\ Weights(shares) \in [MinersOf(shares) -> Nat]
<1>1. PICK n \in Nat : DOMAIN shares = 1 .. n /\ n # 0
  <2>1. Len(shares) \in Nat /\ DOMAIN shares = 1 .. Len(shares) BY DEF Windows
  <2>2. Len(shares) # 0 BY EmptySeq DEF Windows
  <2>3. QED BY <2>1, <2>2
<1>2. \A i \in DOMAIN shares : shares[i].miner \in Some /\ shares[i].difficulty \in Nat
  <2> DEFINE T == [miner : Some, difficulty : Nat]
  <2>1. shares \in Seq(T) BY DEF Windows
  <2> HIDE DEF T
  <2>2. \A i \in DOMAIN shares : shares[i] \in T BY <2>1
  <2>3. QED BY <2>2 DEF T
<1>3. IsFiniteSet(MinersOf(shares))
  <2> DEFINE f == [i \in 1 .. n |-> shares[i].miner]
  <2>1. f \in Surjection(1 .. n, MinersOf(shares)) BY <1>1 DEF MinersOf, Surjection
  <2>2. QED BY <2>1, FS_NatSurjection DEF ExistsSurjection
<1>4. MinersOf(shares) # {} /\ MinersOf(shares) \subseteq Some
  <2>1. 1 \in DOMAIN shares BY <1>1
  <2>2. QED BY <1>2, <2>1 DEF MinersOf
<1>5. ASSUME NEW m \in MinersOf(shares) PROVE Weights(shares)[m] \in Nat
  <2> DEFINE f == [i \in DOMAIN shares |-> shares[i].difficulty]
             own == {i \in DOMAIN shares : shares[i].miner = m}
  <2>1. IsFiniteSet(own)
    <3>1. own \in SUBSET (1 .. n) BY <1>1
    <3>2. IsFiniteSet(1 .. n) BY FS_Interval
    <3> HIDE DEF own
    <3>3. QED BY <3>1, <3>2, FS_Subset
  <2>2. Counts(f, own) BY <1>2 DEF Counts
  <2>3. Weights(shares)[m] = SumFunctionOnSet(f, own) BY DEF Weights
  <2> HIDE DEF f, own
  <2>4. QED BY <2>1, <2>2, <2>3, SumType
<1>6. Weights(shares) \in [MinersOf(shares) -> Nat]
  <2>1. Weights(shares) = [m \in MinersOf(shares) |-> Weights(shares)[m]] BY DEF Weights
  <2>2. QED BY <1>5, <2>1
<1>7. QED BY <1>3, <1>4, <1>6

\* allocate_pplns: a window that can be divided is divided among its miners, and what
\* they get and the pool's fee are the reward, to the unit.
THEOREM PplnsIsWhole ==
  ASSUME NEW reward \in Nat, NEW fee_bps \in Nat,
         NEW Some, Some \subseteq Nat, NEW shares \in Windows(Some),
         allocate_pplns(reward, fee_bps, shares).ok
  PROVE  LET result == allocate_pplns(reward, fee_bps, shares)
             payees == MinersOf(shares)
         IN  /\ IsFiniteSet(payees) /\ payees # {} /\ payees \subseteq Some
             /\ result.allocations \in [payees -> Nat]
             /\ result.fee \in Nat
             /\ SumFunctionOnSet(result.allocations, payees) + result.fee = reward
<1> DEFINE result == allocate_pplns(reward, fee_bps, shares)
           payees == MinersOf(shares)
           w == Weights(shares)
           t == MinerTotal(reward, fee_bps)
<1>1. ~(fee_bps > Bps) /\ shares # <<>> /\ SumFunction(w) # 0
  BY DEF allocate_pplns, PplnsError
<1>2. result.fee = PoolFee(reward, fee_bps) /\ result.allocations = Allocate(t, w)
  BY <1>1 DEF allocate_pplns
<1>3. fee_bps <= Bps BY <1>1 DEF Bps
<1>4. /\ PoolFee(reward, fee_bps) \in Nat /\ t \in Nat
      /\ t + PoolFee(reward, fee_bps) = reward
  BY <1>3, FeeBound
<1>5. /\ IsFiniteSet(payees) /\ payees # {} /\ payees \subseteq Some /\ payees \subseteq Nat
      /\ w \in [payees -> Nat]
  BY <1>1, WeightsType
<1> HIDE DEF result, payees, w, t
<1>6. /\ Allocate(t, w) \in [payees -> Nat]
      /\ SumFunctionOnSet(Allocate(t, w), payees) = t
  BY <1>1, <1>4, <1>5, AllocateWhole
<1>7. /\ IsFiniteSet(payees) /\ payees # {} /\ payees \subseteq Some
      /\ result.allocations \in [payees -> Nat] /\ result.fee \in Nat
      /\ SumFunctionOnSet(result.allocations, payees) + result.fee = reward
  BY <1>2, <1>4, <1>5, <1>6
<1>8. QED BY <1>7 DEF result, payees

\* allocate_pplns: in every window that can be divided nobody gets less than the whole
\* units of its part of the reward, and only the last miner of the loop gets more, by
\* less than one unit per miner.
THEOREM PplnsIsFair ==
  ASSUME NEW reward \in Nat, NEW fee_bps \in Nat,
         NEW Some, Some \subseteq Nat, NEW shares \in Windows(Some),
         allocate_pplns(reward, fee_bps, shares).ok
  PROVE  LET result == allocate_pplns(reward, fee_bps, shares)
             payees == MinersOf(shares)
             exact(m) == ((reward - result.fee) * Weights(shares)[m]) \div SumFunction(Weights(shares))
         IN  \A m \in payees :
               /\ exact(m) <= result.allocations[m]
               /\ m # Max(payees) => result.allocations[m] = exact(m)
               /\ result.allocations[m] < exact(m) + Cardinality(payees)
<1> DEFINE result == allocate_pplns(reward, fee_bps, shares)
           payees == MinersOf(shares)
           w == Weights(shares)
           t == MinerTotal(reward, fee_bps)
           exact(m) == ((reward - result.fee) * w[m]) \div SumFunction(w)
<1>1. ~(fee_bps > Bps) /\ shares # <<>> /\ SumFunction(w) # 0
  BY DEF allocate_pplns, PplnsError
<1>2. result.fee = PoolFee(reward, fee_bps) /\ result.allocations = Allocate(t, w)
  BY <1>1 DEF allocate_pplns
<1>3. fee_bps <= Bps BY <1>1 DEF Bps
<1>4. /\ PoolFee(reward, fee_bps) \in Nat /\ t \in Nat /\ t = reward - PoolFee(reward, fee_bps)
  BY <1>3, FeeBound
<1>5. /\ IsFiniteSet(payees) /\ payees # {} /\ payees \subseteq Nat /\ w \in [payees -> Nat]
  BY <1>1, WeightsType
<1>6. \A m \in payees : exact(m) = Quota(t, w, m)
  <2> HIDE DEF result, payees, w, t
  <2>1. QED BY <1>2, <1>4 DEF Quota
<1> HIDE DEF result, payees, w, t, exact
<1>7. /\ \A m \in payees : Quota(t, w, m) \in Nat
      /\ \A m \in payees \ {Max(payees)} : Allocate(t, w)[m] = Quota(t, w, m)
      /\ Quota(t, w, Max(payees)) <= Allocate(t, w)[Max(payees)]
      /\ Allocate(t, w)[Max(payees)] < Quota(t, w, Max(payees)) + Cardinality(payees)
  BY <1>1, <1>4, <1>5, AllocateFair
<1>8. Cardinality(payees) \in Nat /\ Cardinality(payees) # 0
  BY <1>5, FS_CardinalityType, FS_EmptySet
<1>9. ASSUME NEW m \in payees
      PROVE  /\ exact(m) <= result.allocations[m]
             /\ m # Max(payees) => result.allocations[m] = exact(m)
             /\ result.allocations[m] < exact(m) + Cardinality(payees)
  <2>1. CASE m = Max(payees)
    BY <1>2, <1>6, <1>7, <2>1
  <2>2. CASE m # Max(payees)
    <3>1. result.allocations[m] = exact(m) /\ exact(m) \in Nat
      BY <1>2, <1>6, <1>7, <2>2
    <3>2. QED
      BY <1>8, <2>2, <3>1
  <2>3. QED BY <2>1, <2>2
<1>10. QED BY <1>9 DEF result, payees, w, exact

-----------------------------------------------------------------------------
(***************************************************************************)
(* One more share.                                                         *)
(***************************************************************************)
\* The largest quotient.
LEMMA DivLargest ==
  ASSUME NEW x \in Nat, NEW d \in Nat, d > 0, NEW q \in Nat, d * q <= x
  PROVE  q <= x \div d
<1>1. PICK r \in Nat : r = x \div d
  BY DivBound
<1>2. x + 1 <= d * (r + 1)
  BY <1>1, DivAlmost
<1>3. SUFFICES ASSUME q > r PROVE FALSE
  BY <1>1
<1>4. PICK y \in Nat : q = r + 1 + y
  BY <1>3
<1>5. d * q = d * (r + 1) + d * y /\ d * y \in Nat /\ d * (r + 1) \in Nat
  BY <1>4
<1>6. d * q \in Nat
  OBVIOUS
<1>7. QED
  BY <1>2, <1>5, <1>6

\* A larger weight of one's own, and of the whole by as much, is a larger part.
LEMMA QuotaGrows ==
  ASSUME NEW t \in Nat, NEW w \in Nat, NEW total \in Nat, total > 0, w <= total, NEW d \in Nat
  PROVE  (t * w) \div total <= (t * (w + d)) \div (total + d)
<1>1. t * w \in Nat /\ t * (w + d) \in Nat /\ total + d \in Nat /\ total + d > 0
  OBVIOUS
<1>2. PICK q \in Nat : q = (t * w) \div total /\ total * q <= t * w
  BY <1>1, DivBound
<1>3. q <= t
  <2>1. t * w <= t * total
    <3>1. PICK y \in Nat : total = w + y
      OBVIOUS
    <3>2. t * total = t * w + t * y /\ t * y \in Nat
      BY <3>1
    <3>3. QED
      BY <1>1, <3>2
  <2>2. total * q \in Nat /\ t * total \in Nat
    BY <1>2
  <2>3. total * q <= t * total
    BY <1>1, <1>2, <2>1, <2>2
  <2>4. QED
    BY <1>2, <2>3, DivCancel
<1>4. d * q <= d * t
  <2>1. PICK y \in Nat : t = q + y
    BY <1>2, <1>3
  <2>2. d * t = d * q + d * y /\ d * y \in Nat /\ d * q \in Nat
    BY <1>2, <2>1
  <2>3. QED
    BY <2>2
<1>5. (total + d) * q <= t * (w + d)
  <2>1. (total + d) * q = total * q + d * q /\ t * (w + d) = t * w + d * t
    BY <1>2
  <2>2. total * q \in Nat /\ d * q \in Nat /\ d * t \in Nat
    BY <1>2
  <2>3. QED
    BY <1>1, <1>2, <1>4, <2>1, <2>2
<1>6. q <= (t * (w + d)) \div (total + d)
  BY <1>1, <1>2, <1>5, DivLargest
<1>7. QED
  BY <1>2, <1>6

\* A larger whole is a smaller part for the others.
LEMMA QuotaShrinks ==
  ASSUME NEW x \in Nat, NEW total \in Nat, total > 0, NEW d \in Nat
  PROVE  x \div (total + d) <= x \div total
<1>1. total + d \in Nat /\ total + d > 0
  OBVIOUS
<1>2. PICK q \in Nat : q = x \div (total + d) /\ (total + d) * q <= x
  BY <1>1, DivBound
<1>3. total * q <= x
  <2>1. (total + d) * q = total * q + d * q /\ d * q \in Nat /\ total * q \in Nat
    BY <1>2
  <2>2. QED
    BY <1>2, <2>1
<1>4. QED
  BY <1>2, <1>3, DivLargest

\* Allocate gives a miner whose weight grows no less.
LEMMA AllocateGrows ==
  ASSUME NEW S, IsFiniteSet(S), S \subseteq Nat, NEW m \in S, NEW w \in [S -> Nat],
         NEW v \in [S -> Nat], NEW d \in Nat, v[m] = w[m] + d, \A x \in S \ {m} : v[x] = w[x],
         SumFunction(w) # 0, NEW t \in Nat
  PROVE  /\ SumFunction(v) # 0
         /\ Allocate(t, w)[m] <= Allocate(t, v)[m]
<1> DEFINE total == SumFunction(w)
           others == S \ {m}
           a == Allocate(t, w)
           c == Allocate(t, v)
<1>1. total = SumFunctionOnSet(w, S) /\ SumFunction(v) = SumFunctionOnSet(v, S)
  BY DEF SumFunction
<1>2. Counts(w, S) /\ Counts(v, S) /\ Counts(w, others)
  BY DEF Counts
<1>3. IsFiniteSet(others) /\ others \subseteq S /\ S # {}
  BY FS_RemoveElement
<1>4. PICK rest \in Nat : rest = SumFunctionOnSet(w, others)
  <2> HIDE DEF others
  <2>1. QED
    BY <1>2, <1>3, SumType
<1>5. w[m] \in Nat /\ v[m] \in Nat
  OBVIOUS
<1>6. total = w[m] + rest /\ total \in Nat /\ total > 0 /\ w[m] <= total
  <2>1. total = w[m] + rest
    BY <1>1, <1>2, <1>4, SumRemove
  <2>2. total # 0
    OBVIOUS
  <2> HIDE DEF total
  <2>3. QED
    BY <1>4, <1>5, <2>1, <2>2
<1>7. SumFunction(v) = total + d
  <2>1. SumFunctionOnSet(v, S) = v[m] + SumFunctionOnSet(v, others)
    BY <1>2, SumRemove
  <2>2. SumFunctionOnSet(v, others) = rest
    <3>1. \A x \in others : v[x] = w[x]
      OBVIOUS
    <3> HIDE DEF others
    <3>2. QED
      BY <1>3, <1>4, <3>1, SumSame
  <2> HIDE DEF total, others
  <2>3. QED
    BY <1>1, <1>4, <1>5, <1>6, <2>1, <2>2
<1>8. SumFunction(v) # 0
  <2> HIDE DEF total
  <2>1. QED
    BY <1>6, <1>7
<1>9. /\ a \in [S -> Nat] /\ SumFunctionOnSet(a, S) = t
      /\ \A x \in S \ {Max(S)} : a[x] = Quota(t, w, x)
  <2>1. a \in [S -> Nat] /\ SumFunctionOnSet(a, S) = t
    BY <1>3, AllocateWhole
  <2>2. \A x \in S \ {Max(S)} : Allocate(t, w)[x] = Quota(t, w, x)
    BY <1>3, AllocateFair, ZenonT(30)
  <2>3. QED
    BY <2>1, <2>2
<1>10. /\ c \in [S -> Nat] /\ SumFunctionOnSet(c, S) = t
       /\ \A x \in S \ {Max(S)} : c[x] = Quota(t, v, x)
  <2>1. c \in [S -> Nat] /\ SumFunctionOnSet(c, S) = t
    BY <1>3, <1>8, AllocateWhole
  <2>2. \A x \in S \ {Max(S)} : Allocate(t, v)[x] = Quota(t, v, x)
    BY <1>3, <1>8, AllocateFair, ZenonT(30)
  <2>3. QED
    BY <2>1, <2>2
<1>11. CASE m # Max(S)
  <2>1. a[m] = (t * w[m]) \div total /\ c[m] = (t * (w[m] + d)) \div (total + d)
    BY <1>7, <1>9, <1>10, <1>11 DEF Quota
  <2> HIDE DEF total, a, c
  <2>2. a[m] <= c[m]
    BY <1>5, <1>6, <2>1, QuotaGrows, ZenonT(30)
  <2>3. QED
    BY <1>8, <2>2 DEF a, c
<1>12. CASE m = Max(S)
  <2>1. \A x \in others : c[x] <= a[x] /\ a[x] \in Nat /\ c[x] \in Nat
    <3> SUFFICES ASSUME NEW x \in others PROVE c[x] <= a[x] /\ a[x] \in Nat /\ c[x] \in Nat
      OBVIOUS
    <3>1. w[x] \in Nat /\ v[x] = w[x] /\ a[x] \in Nat /\ c[x] \in Nat
      BY <1>9, <1>10
    <3>2. a[x] = (t * w[x]) \div total /\ c[x] = (t * w[x]) \div (total + d)
      BY <1>7, <1>9, <1>10, <1>12, <3>1 DEF Quota
    <3>3. t * w[x] \in Nat
      BY <3>1
    <3> HIDE DEF total, a, c
    <3>4. c[x] <= a[x]
      BY <1>6, <3>2, <3>3, QuotaShrinks
    <3>5. QED
      BY <3>1, <3>4
  <2> HIDE DEF a, c
  <2>2. Counts(a, S) /\ Counts(c, S) /\ Counts(a, others) /\ Counts(c, others)
    BY <1>3, <1>9, <1>10 DEF Counts
  <2>3. /\ SumFunctionOnSet(a, S) = a[m] + SumFunctionOnSet(a, others)
        /\ SumFunctionOnSet(c, S) = c[m] + SumFunctionOnSet(c, others)
    BY <2>2, SumRemove
  <2> HIDE DEF others
  <2>4. PICK p \in Nat, q \in Nat : p = SumFunctionOnSet(a, others) /\ q = SumFunctionOnSet(c, others)
    BY <1>3, <2>2, SumType
  <2>5. q <= p
    <3>1. \A x \in others : 1 * c[x] <= 1 * a[x]
      BY <2>1
    <3>2. 1 * SumFunctionOnSet(c, others) <= 1 * SumFunctionOnSet(a, others)
      BY <1>3, <2>2, <3>1, QuotasBound
    <3>3. QED
      BY <2>4, <3>2
  <2>6. a[m] \in Nat /\ c[m] \in Nat
    BY <1>9, <1>10
  <2>7. a[m] <= c[m]
    BY <1>9, <1>10, <2>3, <2>4, <2>5, <2>6
  <2>8. QED
    BY <1>8, <2>7 DEF a, c
<1>13. QED
  BY <1>11, <1>12

\* The weights of a window and of the same window with one more share.
LEMMA WeightsGrow ==
  ASSUME NEW Some, NEW shares \in Windows(Some), NEW m \in Some, NEW d \in Nat
  PROVE  LET more == Append(shares, ShareWeight(m, d))
         IN  /\ more \in Windows(Some) /\ more # <<>>
             /\ MinersOf(more) = MinersOf(shares) \cup {m}
             /\ m \in MinersOf(shares) =>
                  /\ \A x \in MinersOf(shares) \ {m} : Weights(more)[x] = Weights(shares)[x]
                  /\ Weights(more)[m] = Weights(shares)[m] + d
<1>0. PICK more : more = Append(shares, ShareWeight(m, d))
  OBVIOUS
<1> DEFINE T == [miner : Some, difficulty : Nat]
           share == ShareWeight(m, d)
           n == Len(shares)
           f == [i \in DOMAIN shares |-> shares[i].difficulty]
           g == [i \in DOMAIN more |-> more[i].difficulty]
           Own(x) == {i \in DOMAIN shares : shares[i].miner = x}
<1>1. share \in T /\ share.miner = m /\ share.difficulty = d
  BY DEF ShareWeight
<1>2. shares \in Seq(T)
  BY DEF Windows
<1>3. /\ n \in Nat /\ DOMAIN shares = 1 .. n
      /\ \A i \in 1 .. n : shares[i] \in T /\ shares[i].difficulty \in Nat
  <2>1. \A r \in T : r.difficulty \in Nat
    OBVIOUS
  <2> HIDE DEF T
  <2>2. QED
    BY <1>2, <2>1
<1> HIDE DEF T, share
<1>4. /\ more \in Seq(T) /\ DOMAIN more = 1 .. n + 1 /\ more[n + 1] = share
      /\ \A i \in 1 .. n : more[i] = shares[i]
  BY <1>0, <1>1, <1>2 DEF share
<1>5. more # <<>>
  <2>1. 1 \in DOMAIN more
    BY <1>3, <1>4
  <2>2. QED
    BY <2>1
<1>6. 1 .. n + 1 = (1 .. n) \cup {n + 1} /\ n + 1 \notin 1 .. n
  BY <1>3
<1>7. MinersOf(more) = MinersOf(shares) \cup {m}
  BY <1>1, <1>3, <1>4, <1>6 DEF MinersOf
<1>8. \A x : Own(x) \subseteq 1 .. n /\ IsFiniteSet(Own(x))
  <2> SUFFICES ASSUME NEW x PROVE Own(x) \subseteq 1 .. n /\ IsFiniteSet(Own(x))
    OBVIOUS
  <2>1. Own(x) \subseteq 1 .. n
    BY <1>3
  <2>2. IsFiniteSet(1 .. n)
    BY <1>3, FS_Interval
  <2> HIDE DEF Own
  <2>3. QED
    BY <2>1, <2>2, FS_Subset
<1>9. /\ \A i \in 1 .. n : f[i] \in Nat /\ g[i] = f[i]
      /\ g[n + 1] = d
  <2>1. n + 1 \in DOMAIN more /\ \A i \in 1 .. n : i \in DOMAIN more
    BY <1>4, <1>6
  <2>2. g[n + 1] = d
    BY <1>1, <1>4, <2>1
  <2>3. \A i \in 1 .. n : f[i] \in Nat /\ g[i] = f[i]
    BY <1>3, <1>4, <2>1
  <2>4. QED
    BY <2>2, <2>3
<1>10. ASSUME NEW x \in MinersOf(shares) \ {m} PROVE Weights(more)[x] = Weights(shares)[x]
  <2>1. {i \in DOMAIN more : more[i].miner = x} = Own(x)
    BY <1>1, <1>3, <1>4, <1>6
  <2>2. Weights(more)[x] = SumFunctionOnSet(g, Own(x)) /\ Weights(shares)[x] = SumFunctionOnSet(f, Own(x))
    BY <1>7, <2>1 DEF Weights
  <2> HIDE DEF Own, f, g
  <2>3. \A i \in Own(x) : g[i] = f[i]
    BY <1>8, <1>9
  <2>4. QED
    BY <1>8, <2>2, <2>3, SumSame
<1>11. ASSUME m \in MinersOf(shares) PROVE Weights(more)[m] = Weights(shares)[m] + d
  <2>1. {i \in DOMAIN more : more[i].miner = m} = Own(m) \cup {n + 1}
    BY <1>1, <1>3, <1>4, <1>6
  <2>2. /\ Weights(more)[m] = SumFunctionOnSet(g, Own(m) \cup {n + 1})
        /\ Weights(shares)[m] = SumFunctionOnSet(f, Own(m))
    BY <1>7, <1>11, <2>1 DEF Weights
  <2> HIDE DEF Own, f, g
  <2>3. \A i \in Own(m) : g[i] = f[i] /\ f[i] \in Nat
    BY <1>8, <1>9
  <2>4. n + 1 \notin Own(m) /\ Counts(g, Own(m) \cup {n + 1}) /\ Counts(f, Own(m))
    BY <1>6, <1>8, <1>9, <2>3 DEF Counts
  <2>5. SumFunctionOnSet(g, Own(m) \cup {n + 1}) = g[n + 1] + SumFunctionOnSet(g, Own(m))
    BY <1>8, <2>4, SumAdd
  <2>6. SumFunctionOnSet(g, Own(m)) = SumFunctionOnSet(f, Own(m))
    BY <1>8, <2>3, SumSame
  <2>7. SumFunctionOnSet(f, Own(m)) \in Nat
    BY <1>8, <2>4, SumType
  <2>8. QED
    BY <1>9, <2>2, <2>5, <2>6, <2>7
<1>12. more \in Windows(Some)
  BY <1>4 DEF Windows, T
<1>13. QED
  BY <1>0, <1>5, <1>7, <1>10, <1>11, <1>12

\* allocate_pplns: a window that can be divided can be divided with one more share, and
\* the miner who found that share gets no less than before.
THEOREM OwnShareHelps ==
  ASSUME NEW reward \in Nat, NEW fee_bps \in Nat,
         NEW Some, Some \subseteq Nat, NEW shares \in Windows(Some),
         NEW m \in Some, NEW d \in Nat, m \in MinersOf(shares),
         allocate_pplns(reward, fee_bps, shares).ok
  PROVE  LET after == allocate_pplns(reward, fee_bps, Append(shares, ShareWeight(m, d)))
         IN  /\ after.ok
             /\ allocate_pplns(reward, fee_bps, shares).allocations[m] <= after.allocations[m]
<1> DEFINE more == Append(shares, ShareWeight(m, d))
           before == allocate_pplns(reward, fee_bps, shares)
           after == allocate_pplns(reward, fee_bps, more)
           S == MinersOf(shares)
           w == Weights(shares)
           v == Weights(more)
           t == MinerTotal(reward, fee_bps)
<1>1. ~(fee_bps > Bps) /\ shares # <<>> /\ SumFunction(w) # 0
  BY DEF allocate_pplns, PplnsError
<1>2. before.allocations = Allocate(t, w)
  BY <1>1 DEF allocate_pplns
<1>3. fee_bps <= Bps
  BY <1>1 DEF Bps
<1>4. t \in Nat
  BY <1>3, FeeBound
<1>5. /\ more \in Windows(Some) /\ more # <<>> /\ MinersOf(more) = S \cup {m}
      /\ \A x \in S \ {m} : v[x] = w[x]
      /\ v[m] = w[m] + d
  BY WeightsGrow, SMTT(30)
<1>6. MinersOf(more) = S
  BY <1>5
<1>7. IsFiniteSet(S) /\ S \subseteq Nat /\ w \in [S -> Nat]
  BY <1>1, WeightsType
<1>8. v \in [S -> Nat]
  <2> HIDE DEF more, S
  <2>1. QED
    BY <1>5, <1>6, WeightsType
<1>9. m \in S
  OBVIOUS
<1>10. SumFunction(v) # 0 /\ Allocate(t, w)[m] <= Allocate(t, v)[m]
  <2> HIDE DEF w, v, t, S
  <2>1. QED
    BY <1>1, <1>4, <1>5, <1>7, <1>8, <1>9, AllocateGrows
<1>11. after.ok /\ after.allocations = Allocate(t, v)
  <2> HIDE DEF more, t
  <2>1. QED
    BY <1>1, <1>5, <1>10 DEF allocate_pplns, t
<1> HIDE DEF before, after, w, v, t
<1>12. after.ok /\ before.allocations[m] <= after.allocations[m]
  BY <1>2, <1>10, <1>11
<1>13. QED
  BY <1>12 DEF before, after

-----------------------------------------------------------------------------
(***************************************************************************)
(* The order of payouts.                                                   *)
(***************************************************************************)
\* Balances at these positions, each of a miner of its own.
OneEach(b, E) ==
  /\ \A i \in E : b[i].confirmed \in Nat /\ b[i].miner \in Nat
  /\ \A i, j \in E : b[i].miner = b[j].miner => i = j

\* The positions paid before this one.
Ahead(b, E, i) == {j \in E : PaidBefore(b[j], b[i])}

\* Whom select_payouts pays first is a question with one answer for any two miners.
LEMMA PaidBeforeIsTotal ==
  ASSUME NEW b, NEW E, OneEach(b, E), NEW i \in E, NEW j \in E
  PROVE  /\ ~PaidBefore(b[i], b[i])
         /\ i # j => PaidBefore(b[i], b[j]) \/ PaidBefore(b[j], b[i])
         /\ \A k \in E : PaidBefore(b[k], b[i]) /\ PaidBefore(b[i], b[j]) => PaidBefore(b[k], b[j])
<1>1. /\ b[i].confirmed \in Nat /\ b[j].confirmed \in Nat /\ b[i].miner \in Nat /\ b[j].miner \in Nat
      /\ i # j => b[i].miner # b[j].miner
  BY DEF OneEach
<1>2. ~PaidBefore(b[i], b[i])
  BY <1>1 DEF PaidBefore
<1>3. i # j => PaidBefore(b[i], b[j]) \/ PaidBefore(b[j], b[i])
  BY <1>1 DEF PaidBefore
<1>4. ASSUME NEW k \in E, PaidBefore(b[k], b[i]), PaidBefore(b[i], b[j])
      PROVE  PaidBefore(b[k], b[j])
  <2>1. b[k].confirmed \in Nat /\ b[k].miner \in Nat
    BY DEF OneEach
  <2>2. QED
    BY <1>1, <1>4, <2>1 DEF PaidBefore
<1>5. QED
  BY <1>2, <1>3, <1>4

\* Who is paid later has more ahead.
LEMMA LaterHasMoreAhead ==
  ASSUME NEW b, NEW E, IsFiniteSet(E), OneEach(b, E), NEW i \in E, NEW j \in E
  PROVE  /\ IsFiniteSet(Ahead(b, E, i)) /\ Cardinality(Ahead(b, E, i)) \in Nat
         /\ Cardinality(Ahead(b, E, i)) + 1 <= Cardinality(E)
         /\ PaidBefore(b[i], b[j]) => Cardinality(Ahead(b, E, i)) < Cardinality(Ahead(b, E, j))
<1> DEFINE A == Ahead(b, E, i)
           B == Ahead(b, E, j)
<1>1. i \notin A /\ A \cup {i} \subseteq E /\ A \subseteq E /\ B \subseteq E
  BY PaidBeforeIsTotal DEF Ahead
<1>2. PaidBefore(b[i], b[j]) => A \cup {i} \subseteq B
  <2> SUFFICES ASSUME PaidBefore(b[i], b[j]), NEW k \in A \cup {i} PROVE k \in B
    OBVIOUS
  <2>1. CASE k = i
    BY <2>1 DEF Ahead
  <2>2. CASE k \in A
    <3>1. k \in E /\ PaidBefore(b[k], b[i])
      BY <2>2 DEF Ahead
    <3>2. PaidBefore(b[k], b[j])
      BY <3>1, PaidBeforeIsTotal
    <3>3. QED
      BY <3>1, <3>2 DEF Ahead
  <2>3. QED
    BY <2>1, <2>2
<1> HIDE DEF A, B
<1>3. IsFiniteSet(A) /\ IsFiniteSet(B)
  BY <1>1, FS_Subset
<1>4. Cardinality(A) \in Nat /\ Cardinality(B) \in Nat /\ Cardinality(E) \in Nat
  BY <1>3, FS_CardinalityType
<1>5. Cardinality(A \cup {i}) = Cardinality(A) + 1
  BY <1>1, <1>3, FS_AddElement
<1>6. Cardinality(A \cup {i}) <= Cardinality(E)
  BY <1>1, FS_Subset
<1>7. PaidBefore(b[i], b[j]) => Cardinality(A \cup {i}) <= Cardinality(B)
  BY <1>2, <1>3, FS_Subset
<1>8. QED
  BY <1>3, <1>4, <1>5, <1>6, <1>7 DEF A, B

\* An order of the positions as sort_by leaves them.
InOrder(b, order) ==
  \A i, j \in DOMAIN order : i < j => ~PaidBefore(b[order[j]], b[order[i]])

\* There is such an order: by the number of those ahead.
LEMMA OrderExists ==
  ASSUME NEW b, NEW E, IsFiniteSet(E), OneEach(b, E)
  PROVE  \E order \in Bijection(1 .. Cardinality(E), E) : InOrder(b, order)
<1> DEFINE n == Cardinality(E)
           place == [i \in E |-> Cardinality(Ahead(b, E, i)) + 1]
<1>1. n \in Nat
  BY FS_CardinalityType
<1>2. place \in [E -> 1 .. n]
  <2>1. ASSUME NEW i \in E PROVE Cardinality(Ahead(b, E, i)) + 1 \in 1 .. n
    BY <1>1, LaterHasMoreAhead
  <2>2. QED
    BY <2>1
<1>3. \A i, j \in E : PaidBefore(b[i], b[j]) => place[i] < place[j]
  <2> SUFFICES ASSUME NEW i \in E, NEW j \in E, PaidBefore(b[i], b[j]) PROVE place[i] < place[j]
    OBVIOUS
  <2>1. /\ Cardinality(Ahead(b, E, i)) \in Nat /\ Cardinality(Ahead(b, E, j)) \in Nat
        /\ Cardinality(Ahead(b, E, i)) < Cardinality(Ahead(b, E, j))
    BY LaterHasMoreAhead
  <2>2. QED
    BY <2>1
<1> HIDE DEF place, n
<1>4. \A i \in E : place[i] \in Nat
  BY <1>1, <1>2
<1>5. place \in Injection(E, 1 .. n)
  <2>1. ASSUME NEW i \in E, NEW j \in E, place[i] = place[j] PROVE i = j
    BY <1>3, <1>4, <2>1, PaidBeforeIsTotal
  <2>2. QED
    BY <1>2, <2>1 DEF Injection, IsInjective
<1>6. IsFiniteSet(1 .. n) /\ Cardinality(1 .. n) = n
  BY <1>1, FS_Interval
<1>7. place \in Surjection(E, 1 .. n)
  BY <1>5, <1>6, FS_Injection DEF n
<1> DEFINE order == [k \in 1 .. n |-> CHOOSE i \in E : place[i] = k]
<1>8. \A k \in 1 .. n : order[k] \in E /\ place[order[k]] = k
  BY <1>7 DEF Surjection
<1>9. order \in [1 .. n -> E]
  BY <1>8
<1>10. \A k, l \in 1 .. n : order[k] = order[l] => k = l
  BY <1>8
<1>11. \A i \in E : \E k \in 1 .. n : order[k] = i
  <2> SUFFICES ASSUME NEW i \in E PROVE \E k \in 1 .. n : order[k] = i
    OBVIOUS
  <2>1. place[i] \in 1 .. n
    BY <1>2
  <2>2. order[place[i]] \in E /\ place[order[place[i]]] = place[i]
    BY <1>8, <2>1
  <2>3. order[place[i]] = i
    BY <1>5, <2>2 DEF Injection, IsInjective
  <2>4. QED
    BY <2>1, <2>3
<1> HIDE DEF order
<1>12. order \in Bijection(1 .. n, E)
  BY <1>9, <1>10, <1>11 DEF Bijection, Injection, Surjection, IsInjective
<1>13. InOrder(b, order)
  <2> SUFFICES ASSUME NEW k \in 1 .. n, NEW l \in 1 .. n, k < l, PaidBefore(b[order[l]], b[order[k]])
               PROVE  FALSE
    BY <1>9 DEF InOrder
  <2>1. l < k
    BY <1>3, <1>8
  <2>2. QED
    BY <1>1, <2>1
<1>14. QED
  BY <1>12, <1>13 DEF n

\* In any such order, a position stands where the number of those ahead puts it.
LEMMA PlaceInOrder ==
  ASSUME NEW b, NEW E, IsFiniteSet(E), OneEach(b, E), NEW n \in Nat,
         NEW order \in Bijection(1 .. n, E), InOrder(b, order), NEW k \in 1 .. n
  PROVE  Cardinality(Ahead(b, E, order[k])) = k - 1
<1> DEFINE A == Ahead(b, E, order[k])
           h == [l \in 1 .. k - 1 |-> order[l]]
<1>1. /\ order \in [1 .. n -> E] /\ DOMAIN order = 1 .. n
      /\ \A i, j \in 1 .. n : order[i] = order[j] => i = j
      /\ \A i \in E : \E l \in 1 .. n : order[l] = i
  BY DEF Bijection, Injection, Surjection, IsInjective
<1>2. k \in Nat /\ k - 1 \in Nat /\ 1 .. k - 1 \subseteq 1 .. n
  OBVIOUS
<1>3. ASSUME NEW l \in 1 .. k - 1 PROVE order[l] \in A
  <2>1. l \in 1 .. n /\ l < k /\ l # k
    BY <1>2
  <2>2. order[l] \in E /\ order[k] \in E /\ order[l] # order[k]
    BY <1>1, <2>1
  <2>3. ~PaidBefore(b[order[k]], b[order[l]])
    BY <1>1, <2>1 DEF InOrder
  <2>4. PaidBefore(b[order[l]], b[order[k]])
    BY <2>2, <2>3, PaidBeforeIsTotal
  <2>5. QED
    BY <2>2, <2>4 DEF Ahead
<1>4. ASSUME NEW i \in A PROVE \E l \in 1 .. k - 1 : order[l] = i
  <2>1. i \in E /\ PaidBefore(b[i], b[order[k]])
    BY DEF Ahead
  <2>2. PICK l \in 1 .. n : order[l] = i
    BY <1>1, <2>1
  <2>3. l # k
    BY <2>1, <2>2, PaidBeforeIsTotal
  <2>4. ~(k < l)
    BY <1>1, <2>1, <2>2 DEF InOrder
  <2>5. l \in 1 .. k - 1
    BY <1>2, <2>3, <2>4
  <2>6. QED
    BY <2>2, <2>5
<1> HIDE DEF A
<1>5. h \in Bijection(1 .. k - 1, A)
  <2>1. h \in [1 .. k - 1 -> A]
    BY <1>3
  <2>2. \A i, j \in 1 .. k - 1 : h[i] = h[j] => i = j
    BY <1>1, <1>2
  <2>3. \A i \in A : \E l \in 1 .. k - 1 : h[l] = i
    BY <1>4
  <2> HIDE DEF h
  <2>4. QED
    BY <2>1, <2>2, <2>3 DEF Bijection, Injection, Surjection, IsInjective
<1>6. IsFiniteSet(1 .. k - 1) /\ Cardinality(1 .. k - 1) = k - 1
  BY <1>2, FS_Interval
<1> HIDE DEF h
<1>7. Cardinality(A) = k - 1
  BY <1>5, <1>6, FS_Bijection DEF ExistsBijection
<1>8. QED
  BY <1>7 DEF A

\* The smaller of two numbers.
LEMMA MinOfTwo ==
  ASSUME NEW x \in Nat, NEW y \in Nat
  PROVE  Min({x, y}) = IF x <= y THEN x ELSE y
<1>1. \E z \in {x, y} : \A u \in {x, y} : z <= u
  OBVIOUS
<1>2. Min({x, y}) \in {x, y} /\ \A u \in {x, y} : Min({x, y}) <= u
  BY <1>1 DEF Min
<1>3. QED
  BY <1>2

\* The positions whose balances reach the minimum.
Reaches(b, E, minimum) ==
  E \subseteq DOMAIN b /\ \A i \in DOMAIN b : i \in E <=> b[i].confirmed >= minimum

\* As many of them are paid as may be, each at the place its rank gives it.
Ranked(b, E, most, paid) ==
  /\ DOMAIN paid = 1 .. Min({most, Cardinality(E)}) /\ Cardinality(E) \in Nat
  /\ \A k \in DOMAIN paid : \E i \in E : paid[k] = b[i]
  /\ \A i \in E : Cardinality(Ahead(b, E, i)) < most =>
       /\ Cardinality(Ahead(b, E, i)) + 1 \in DOMAIN paid
       /\ paid[Cardinality(Ahead(b, E, i)) + 1] = b[i]

\* select_payouts: of balances of different miners, in whatever order they are listed,
\* as many are paid as may be, and each stands where its rank among the eligible puts
\* it: the largest first, and miners with equal balances in the order of their names.
THEOREM SelectionRanks ==
  ASSUME NEW b, IsFiniteSet(DOMAIN b), OneEach(b, DOMAIN b), NEW minimum, NEW most \in Nat,
         NEW E, Reaches(b, E, minimum)
  PROVE  Ranked(b, E, most, select_payouts(b, minimum, most))
<1> DEFINE paid == select_payouts(b, minimum, most)
           n == Cardinality(E)
           m == Min({most, n})
           order == SortBy(b, E)
<1>1. IsFiniteSet(E) /\ OneEach(b, E)
  <2>1. E \subseteq DOMAIN b
    BY DEF Reaches
  <2>2. QED
    BY <2>1, FS_Subset DEF OneEach
<1>2. paid = [k \in 1 .. m |-> b[order[k]]]
  <2>1. E = {i \in DOMAIN b : b[i].confirmed >= minimum}
    BY DEF Reaches
  <2>2. QED
    BY <2>1 DEF select_payouts
<1> HIDE DEF paid
<1>3. n \in Nat
  BY <1>1, FS_CardinalityType
<1>4. m \in Nat /\ m <= n /\ m <= most /\ m \in {most, n}
  BY <1>3, MinOfTwo
<1>5. order \in Bijection(1 .. n, E) /\ InOrder(b, order)
  BY <1>1, OrderExists DEF SortBy, InOrder
<1> HIDE DEF n, m, order
<1>6. /\ \A k \in 1 .. n : order[k] \in E
      /\ \A i \in E : \E k \in 1 .. n : order[k] = i
  BY <1>5 DEF Bijection, Injection, Surjection
<1>7. DOMAIN paid = 1 .. m
  BY <1>2
<1>8. \A k \in DOMAIN paid : \E i \in E : paid[k] = b[i]
  BY <1>2, <1>3, <1>4, <1>6, <1>7
<1>9. ASSUME NEW i \in E, Cardinality(Ahead(b, E, i)) < most
      PROVE  /\ Cardinality(Ahead(b, E, i)) + 1 \in DOMAIN paid
             /\ paid[Cardinality(Ahead(b, E, i)) + 1] = b[i]
  <2>1. PICK k \in 1 .. n : order[k] = i
    BY <1>6
  <2>2. Cardinality(Ahead(b, E, i)) = k - 1
    BY <1>1, <1>3, <1>5, <2>1, PlaceInOrder
  <2>3. k \in Nat /\ k - 1 < most /\ k \in 1 .. m
    BY <1>3, <1>4, <1>9, <2>1, <2>2
  <2>4. Cardinality(Ahead(b, E, i)) + 1 = k
    BY <2>2, <2>3
  <2>5. QED
    BY <1>2, <1>7, <2>1, <2>3, <2>4
<1>10. QED
  BY <1>3, <1>7, <1>8, <1>9 DEF Ranked, paid, n, m
=============================================================================
