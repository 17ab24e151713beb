----------------------------- MODULE ListProofs -----------------------------
(***************************************************************************)
(* Lemmas that the proofs of several parts share: about numbers, functions *)
(* defined by recursion on them, lists, and the operators of Lists.        *)
(***************************************************************************)
EXTENDS Lists, FiniteSetTheorems, SequenceTheorems, WellFoundedInduction, TLAPS

-----------------------------------------------------------------------------
(* Numbers, and functions defined by recursion on them.                    *)

\* A nonempty set of natural numbers has a least one.
LEMMA LeastExists ==
    ASSUME NEW places \in SUBSET Nat, places # {}
    PROVE  \E x \in places : \A y \in places : x <= y
<1>1. PICK x \in places : \A y \in places : ~(<<y, x>> \in OpToRel(<, Nat))
  BY NatLessThanWellFounded, WFMin
<1>2. \A y \in places : <<y, x>> \in OpToRel(<, Nat) <=> y < x
  BY DEF OpToRel
<1>3. \A y \in places : ~(y < x)
  BY <1>1, <1>2, Zenon
<1> QED BY <1>3

\* Min is the least of a set.
LEMMA Least ==
    ASSUME NEW places \in SUBSET Nat, places # {}
    PROVE  Min(places) \in places /\ \A y \in places : Min(places) <= y
<1>1. \E x \in places : \A y \in places : x <= y
  BY LeastExists
<1> QED BY <1>1, Zenon DEF Min

\* A set of numbers up to k that has 0, and the successor of each it has, has them all.
LEMMA AllUpTo ==
    ASSUME NEW k \in Nat, NEW good, 0 \in good, \A n \in 1..k : n - 1 \in good => n \in good
    PROVE  \A n \in 0..k : n \in good
<1> DEFINE bad == {n \in 0..k : n \notin good}
<1> SUFFICES ASSUME bad # {}
             PROVE  FALSE
  OBVIOUS
<1>1. bad \in SUBSET Nat
  OBVIOUS
<1>2. PICK n \in bad : \A m \in bad : n <= m
  BY <1>1, LeastExists
<1>3. n \in 1..k /\ n - 1 \in 0..k /\ ~(n <= n - 1)
  BY <1>2
<1>4. n - 1 \in good
  BY <1>2, <1>3
<1>5. n - 1 \in good => n \in good
  BY <1>3, Zenon
<1> QED BY <1>2, <1>4, <1>5

\* step is a way to go from each value, at each place up to k, to the next; f goes this way.
Follows(f, base, step, k) == f[0] = base /\ \A n \in 1..k : f[n] = step[n][f[n - 1]]

\* There is a function that begins with base and follows step.
LEMMA Recursion ==
    ASSUME NEW S, NEW base \in S, NEW k \in Nat, NEW step \in [1..k -> [S -> S]]
    PROVE  \E f \in [0..k -> S] : Follows(f, base, step, k)
<1> DEFINE good == {n \in 0..k : \E f \in [0..n -> S] : Follows(f, base, step, n)}
<1>1. 0 \in good
  <2>1. [m \in 0..0 |-> base] \in [0..0 -> S] /\ Follows([m \in 0..0 |-> base], base, step, 0)
    BY DEF Follows
  <2> QED BY <2>1
<1>2. ASSUME NEW n \in 1..k, n - 1 \in good
      PROVE  n \in good
  <2>1. PICK g \in [0..(n - 1) -> S] : Follows(g, base, step, n - 1)
    BY <1>2
  <2> DEFINE f == [m \in 0..n |-> IF m = n THEN step[n][g[n - 1]] ELSE g[m]]
  <2>2. step[n][g[n - 1]] \in S
    <3>1. g[n - 1] \in S
      OBVIOUS
    <3> QED BY <3>1
  <2>3. f \in [0..n -> S]
    BY <2>2
  <2>4. Follows(f, base, step, n)
    <3>1. f[0] = base
      BY <2>1 DEF Follows
    <3>2. ASSUME NEW m \in 1..n
          PROVE  f[m] = step[m][f[m - 1]]
      <4>1. CASE m = n
        BY <4>1
      <4>2. CASE m # n
        <5>1. m \in 1..(n - 1) /\ m - 1 \in 0..n /\ m - 1 # n
          BY <4>2
        <5>2. g[m] = step[m][g[m - 1]]
          BY <2>1, <5>1 DEF Follows
        <5>3. f[m] = g[m] /\ f[m - 1] = g[m - 1]
          BY <4>2, <5>1
        <5> QED BY <5>2, <5>3
      <4> QED BY <4>1, <4>2
    <3> HIDE DEF f
    <3> QED BY <3>1, <3>2 DEF Follows
  <2> HIDE DEF f
  <2>5. n \in 0..k
    OBVIOUS
  <2> QED BY <2>3, <2>4, <2>5
<1> HIDE DEF good
<1>3. k \in good
  <2>1. \A n \in 0..k : n \in good
    BY <1>1, <1>2, AllUpTo
  <2> QED BY <2>1
<1> QED BY <1>3 DEF good

-----------------------------------------------------------------------------
(* Lists.                                                                  *)

\* One more element.
LEMMA AppendAdds ==
    ASSUME NEW X, NEW l \in Seq(X), NEW x \in X
    PROVE  Append(l, x) \in Seq(X) /\ ToSet(Append(l, x)) = ToSet(l) \cup {x}
<1> DEFINE t == Append(l, x)
<1>1. t \in Seq(X) /\ Len(t) = Len(l) + 1 /\ t[Len(l) + 1] = x /\ \A i \in 1..Len(l) : t[i] = l[i]
  OBVIOUS
<1>2. DOMAIN t = 1..(Len(l) + 1) /\ DOMAIN l = 1..Len(l) /\ Len(l) \in Nat
  BY <1>1
<1> HIDE DEF t
<1>3. ToSet(t) = ToSet(l) \cup {x}
  BY <1>1, <1>2 DEF ToSet
<1> QED BY <1>1, <1>3 DEF t

\* Short lists, element by element.
LEMMA Tuples ==
    \A d, e, f : <<d>> = Append(<<>>, d) /\ <<d, e>> = Append(<<d>>, e) /\ <<d, e, f>> = Append(<<d, e>>, f)
OBVIOUS

\* f keeps, of the first n elements for every n, those at the places.
Retains(f, s, places) ==
    f = [n \in 0..Len(s) |->
            IF n = 0 THEN <<>> ELSE IF n \in places THEN Append(f[n - 1], s[n]) ELSE f[n - 1]]

\* There is such a function.
LEMMA RetainsExists ==
    ASSUME NEW X, NEW s \in Seq(X), NEW places
    PROVE  \E f \in [0..Len(s) -> Seq(X)] : Retains(f, s, places)
<1> DEFINE k == Len(s)
           step == [n \in 1..k |-> [l \in Seq(X) |-> IF n \in places THEN Append(l, s[n]) ELSE l]]
<1>1. k \in Nat /\ \A n \in 1..k : s[n] \in X
  OBVIOUS
<1> HIDE DEF k
<1>2. step \in [1..k -> [Seq(X) -> Seq(X)]]
  BY <1>1
<1>3. \A n \in 1..k, l \in Seq(X) : step[n][l] = IF n \in places THEN Append(l, s[n]) ELSE l
  OBVIOUS
<1> HIDE DEF step
<1>4. PICK f \in [0..k -> Seq(X)] : Follows(f, <<>>, step, k)
  <2>1. <<>> \in Seq(X)
    OBVIOUS
  <2> QED BY <1>1, <1>2, <2>1, Recursion
<1>5. \A n \in 0..k : f[n] = IF n = 0 THEN <<>> ELSE IF n \in places THEN Append(f[n - 1], s[n]) ELSE f[n - 1]
  <2> SUFFICES ASSUME NEW n \in 0..k
               PROVE  f[n] = IF n = 0 THEN <<>> ELSE IF n \in places THEN Append(f[n - 1], s[n]) ELSE f[n - 1]
    OBVIOUS
  <2>1. CASE n = 0
    BY <1>4, <2>1 DEF Follows
  <2>2. CASE n # 0
    <3>1. n \in 1..k /\ n - 1 \in 0..k
      BY <1>1, <2>2
    <3>2. f[n] = step[n][f[n - 1]] /\ f[n - 1] \in Seq(X)
      BY <1>4, <3>1 DEF Follows
    <3> QED BY <1>3, <2>2, <3>1, <3>2
  <2> QED BY <2>1, <2>2
<1>6. Retains(f, s, places)
  BY <1>5 DEF Retains, k
<1> QED BY <1>6 DEF k

\* What is retained is a list of the elements at the places.
LEMMA RetainedIs ==
    ASSUME NEW X, NEW s \in Seq(X), NEW places
    PROVE  /\ Retained(s, places) \in Seq(X)
           /\ ToSet(Retained(s, places)) = {s[i] : i \in places \cap DOMAIN s}
<1> DEFINE k == Len(s)
           f == CHOOSE f : Retains(f, s, places)
<1>1. k \in Nat /\ Retains(f, s, places) /\ DOMAIN s = 1..k
  <2>1. \E g : Retains(g, s, places)
    BY RetainsExists
  <2>2. Retains(f, s, places)
    BY <2>1, Zenon
  <2> QED BY <2>2
<1>2. Retained(s, places) = f[k]
  BY Zenon DEF Retained, Retains
<1> HIDE DEF f
<1>3. \A n \in 0..k : f[n] = IF n = 0 THEN <<>> ELSE IF n \in places THEN Append(f[n - 1], s[n]) ELSE f[n - 1]
  BY <1>1 DEF Retains
<1> DEFINE Good(n) == f[n] \in Seq(X) /\ ToSet(f[n]) = {s[i] : i \in places \cap 1..n}
           good == {n \in 0..k : Good(n)}
<1>4. 0 \in good
  <2>1. f[0] = <<>> /\ 0 \in 0..k
    BY <1>1, <1>3
  <2>2. <<>> \in Seq(X) /\ ToSet(<<>>) = {} /\ 1..0 = {}
    BY DEF ToSet
  <2> QED BY <2>1, <2>2
<1>5. ASSUME NEW n \in 1..k, n - 1 \in good
      PROVE  n \in good
  <2>1. n \in 0..k /\ n # 0 /\ s[n] \in X /\ Good(n - 1)
    BY <1>5
  <2>2. f[n] = IF n \in places THEN Append(f[n - 1], s[n]) ELSE f[n - 1]
    BY <1>3, <2>1
  <2>3. places \cap 1..n = IF n \in places THEN (places \cap 1..(n - 1)) \cup {n} ELSE places \cap 1..(n - 1)
    OBVIOUS
  <2>4. CASE n \in places
    <3> DEFINE l == f[n - 1]
    <3>1. l \in Seq(X) /\ f[n] = Append(l, s[n])
      BY <2>1, <2>2, <2>4
    <3> HIDE DEF l
    <3>2. Append(l, s[n]) \in Seq(X) /\ ToSet(Append(l, s[n])) = ToSet(l) \cup {s[n]}
      BY <2>1, <3>1, AppendAdds
    <3>3. {s[i] : i \in places \cap 1..n} = {s[i] : i \in places \cap 1..(n - 1)} \cup {s[n]}
      BY <2>3, <2>4
    <3>4. ToSet(l) = {s[i] : i \in places \cap 1..(n - 1)}
      BY <2>1 DEF l
    <3> QED BY <2>1, <3>1, <3>2, <3>3, <3>4
  <2>5. CASE n \notin places
    BY <2>1, <2>2, <2>3, <2>5
  <2> QED BY <2>4, <2>5
<1> HIDE DEF good
<1>6. k \in good
  <2>1. \A n \in 0..k : n \in good
    BY <1>1, <1>4, <1>5, AllUpTo
  <2> QED BY <1>1, <2>1
<1>7. Good(k)
  BY <1>6 DEF good
<1> QED BY <1>1, <1>2, <1>7

\* The values of a function on the numbers up to k are finitely many.
LEMMA FiniteValues ==
    ASSUME NEW k \in Nat, NEW f
    PROVE  IsFiniteSet({f[i] : i \in 1..k})
<1> DEFINE T == {f[i] : i \in 1..k}
           g == [i \in 1..k |-> f[i]]
<1>1. g \in Surjection(1..k, T)
  BY DEF Surjection
<1>2. IsFiniteSet(1..k)
  BY FS_Interval
<1> HIDE DEF g, T
<1>3. IsFiniteSet(T)
  BY <1>1, <1>2, FS_Surjection
<1> QED BY <1>3 DEF T

\* SetToSeq lists a finite set.
LEMMA SetListed ==
    ASSUME NEW S, IsFiniteSet(S)
    PROVE  SetToSeq(S) \in Seq(S) /\ ToSet(SetToSeq(S)) = S
<1> DEFINE k == Cardinality(S)
           f == CHOOSE f \in [1..k -> S] : IsInjective(f)
<1>1. k \in Nat /\ \E g : g \in Bijection(1..k, S)
  BY FS_CardinalityType DEF ExistsBijection
<1>2. \E g \in [1..k -> S] : IsInjective(g)
  BY <1>1 DEF Bijection, Injection
<1>3. f \in [1..k -> S] /\ IsInjective(f)
  BY <1>2, Zenon
<1>4. SetToSeq(S) = f
  BY DEF SetToSeq
<1> HIDE DEF f
<1>5. f \in Injection(1..k, S)
  BY <1>3 DEF Injection
<1>6. Cardinality(1..k) = k
  BY <1>1, FS_Interval
<1>7. f \in Surjection(1..k, S)
  BY <1>5, <1>6, FS_Injection
<1>8. f \in Seq(S)
  BY <1>1, <1>3
<1>9. DOMAIN f = 1..k
  BY <1>3
<1>10. ToSet(f) = S
  BY <1>3, <1>7, <1>9 DEF ToSet, Surjection
<1> QED BY <1>4, <1>8, <1>10

\* A number makes a name that the base with another number does not make.
LEMMA NumberedOnce ==
    ASSUME NEW X, NEW base \in Seq(X), NEW m \in Nat, NEW n \in Nat, Numbered(base, m) = Numbered(base, n)
    PROVE  m = n
<1> DEFINE Y == X \cup Nat
<1>1. base \in Seq(Y) /\ m \in Y /\ n \in Y
  BY SeqMonotonic
<1> HIDE DEF Y
<1>2. Len(base) # Len(base) + 1 /\ Len(Append(base, m)) = Len(base) + 1 /\ Len(Append(base, n)) = Len(base) + 1
  BY <1>1
<1>3. Append(base, m)[Len(base) + 1] = m /\ Append(base, n)[Len(base) + 1] = n
  BY <1>1
<1> QED BY <1>2, <1>3 DEF Numbered

\* The first free name is free.
LEMMA FreeIsFree ==
    ASSUME NEW X, NEW base \in Seq(X), NEW used, IsFiniteSet(used)
    PROVE  FirstFree(base, used) \notin used /\ \E n \in Nat \ {0} : FirstFree(base, used) = Numbered(base, n)
<1> DEFINE c == Cardinality(used)
           S == 1..(c + 1)
           free == {n \in S : Numbered(base, n) \notin used}
           f == [n \in S |-> Numbered(base, n)]
<1>1. c \in Nat
  BY FS_CardinalityType
<1>2. IsFiniteSet(S) /\ Cardinality(S) = c + 1
  <2> HIDE DEF c
  <2>1. 1 \in Int /\ c + 1 \in Int /\ ~(1 > c + 1)
    BY <1>1
  <2> QED BY <1>1, <2>1, FS_Interval
<1>3. free # {}
  <2> SUFFICES ASSUME free = {}
               PROVE  FALSE
    OBVIOUS
  <2>1. f \in [S -> used]
    OBVIOUS
  <2>2. \A m, n \in S : f[m] = f[n] => m = n
    <3> SUFFICES ASSUME NEW m \in S, NEW n \in S, f[m] = f[n]
                 PROVE  m = n
      OBVIOUS
    <3>1. Numbered(base, m) = Numbered(base, n) /\ m \in Nat /\ n \in Nat
      OBVIOUS
    <3> QED BY <3>1, NumberedOnce
  <2>3. Cardinality(used) < Cardinality(S)
    BY <1>1, <1>2
  <2> HIDE DEF f, S, free
  <2>4. \E x, y \in S : x # y /\ f[x] = f[y]
    BY <1>2, <2>1, <2>3, FS_PigeonHole
  <2> QED BY <2>2, <2>4
<1>4. Min(free) \in free
  <2>1. free \in SUBSET Nat
    OBVIOUS
  <2> HIDE DEF free
  <2> QED BY <1>3, <2>1, Least
<1>5. FirstFree(base, used) = Numbered(base, Min(free))
  BY Zenon DEF FirstFree
<1>6. \A n \in free : n \in Nat \ {0} /\ Numbered(base, n) \notin used
  OBVIOUS
<1> HIDE DEF free
<1> QED BY <1>4, <1>5, <1>6

\* One list after another.
LEMMA ConcatAdds ==
    ASSUME NEW X, NEW s \in Seq(X), NEW t \in Seq(X)
    PROVE  s \o t \in Seq(X) /\ ToSet(s \o t) = ToSet(s) \cup ToSet(t)
<1> DEFINE u == s \o t
           m == Len(s)
           n == Len(t)
<1>1. /\ u \in Seq(X) /\ m \in Nat /\ n \in Nat
      /\ DOMAIN u = 1..(m + n) /\ DOMAIN s = 1..m /\ DOMAIN t = 1..n
      /\ \A i \in 1..(m + n) : u[i] = IF i <= m THEN s[i] ELSE t[i - m]
  OBVIOUS
<1> HIDE DEF u, m, n
<1>2. ASSUME NEW x \in ToSet(u) PROVE x \in ToSet(s) \cup ToSet(t)
  <2>1. PICK i \in 1..(m + n) : x = u[i]
    BY <1>1 DEF ToSet
  <2>2. CASE i <= m
    BY <1>1, <2>1, <2>2 DEF ToSet
  <2>3. CASE ~(i <= m)
    <3>1. i - m \in 1..n
      BY <1>1, <2>3
    <3> QED BY <1>1, <2>1, <2>3, <3>1 DEF ToSet
  <2> QED BY <2>2, <2>3
<1>3. ASSUME NEW x \in ToSet(s) PROVE x \in ToSet(u)
  <2>1. PICK i \in 1..m : x = s[i]
    BY <1>1 DEF ToSet
  <2>2. i \in 1..(m + n) /\ i <= m
    BY <1>1
  <2> QED BY <1>1, <2>1, <2>2 DEF ToSet
<1>4. ASSUME NEW x \in ToSet(t) PROVE x \in ToSet(u)
  <2>1. PICK i \in 1..n : x = t[i]
    BY <1>1 DEF ToSet
  <2>2. m + i \in 1..(m + n) /\ ~(m + i <= m) /\ (m + i) - m = i
    BY <1>1
  <2>3. u[m + i] = t[i]
    BY <1>1, <2>2
  <2> QED BY <1>1, <2>1, <2>2, <2>3 DEF ToSet
<1>5. ToSet(u) = ToSet(s) \cup ToSet(t)
  BY <1>2, <1>3, <1>4
<1> QED BY <1>1, <1>5 DEF u
=============================================================================
