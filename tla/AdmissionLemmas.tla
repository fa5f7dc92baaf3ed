-------------------------- MODULE AdmissionLemmas --------------------------
(***************************************************************************)
(* What the proofs about the gates, the payload ledger and the admission   *)
(* path share: what appending to a queue, shifting its head and cutting    *)
(* out an entry do to the set of queued callers, for a queue without       *)
(* duplicates; induction over the naturals, as a set that contains 0 and   *)
(* is closed under + 1; sums over finite sets, which do not depend on the  *)
(* order of the elements; and what one drain of the payload queue does.    *)
(***************************************************************************)
EXTENDS PayloadOps, Functions, SequenceTheorems, FiniteSetTheorems,
        WellFoundedInduction, TLAPS

LEMMA AppendToSet ==
  ASSUME NEW S, NEW q \in Seq(S), NEW e \in S, IsInjective(q), e \notin ToSet(q)
  PROVE  /\ Append(q, e) \in Seq(S)
         /\ ToSet(Append(q, e)) = ToSet(q) \cup {e}
         /\ IsInjective(Append(q, e))
<1> DEFINE r == Append(q, e)
<1>1. /\ r \in Seq(S)
      /\ DOMAIN r = 1..(Len(q) + 1)
      /\ DOMAIN q = 1..Len(q)
      /\ \A i \in 1..Len(q) : r[i] = q[i]
      /\ r[Len(q) + 1] = e
      /\ Len(q) \in Nat
  BY AppendProperties, LenProperties
<1>2. ToSet(r) = ToSet(q) \cup {e}
  BY <1>1 DEF ToSet
<1>3. IsInjective(r)
  BY <1>1 DEF IsInjective, ToSet
<1> QED BY <1>1, <1>2, <1>3

LEMMA TailToSet ==
  ASSUME NEW S, NEW q \in Seq(S), q # <<>>, IsInjective(q)
  PROVE  /\ Tail(q) \in Seq(S)
         /\ Head(q) \in ToSet(q)
         /\ ToSet(Tail(q)) = ToSet(q) \ {Head(q)}
         /\ IsInjective(Tail(q))
<1> DEFINE r == Tail(q)
<1>1. /\ r \in Seq(S)
      /\ Len(q) \in Nat \ {0}
      /\ DOMAIN r = 1..(Len(q) - 1)
      /\ DOMAIN q = 1..Len(q)
      /\ \A i \in 1..(Len(q) - 1) : r[i] = q[i + 1]
      /\ Head(q) = q[1]
  BY HeadTailProperties, LenProperties, EmptySeq
<1>2. Head(q) \in ToSet(q)
  BY <1>1 DEF ToSet
<1>3. ToSet(r) \subseteq ToSet(q) \ {Head(q)}
  BY <1>1 DEF ToSet, IsInjective
<1>4. ASSUME NEW x \in ToSet(q) \ {Head(q)} PROVE x \in ToSet(r)
  <2>1. PICK i \in 1..Len(q) : q[i] = x
    BY <1>1 DEF ToSet
  <2>2. i # 1
    BY <1>1, <2>1
  <2>3. /\ i - 1 \in 1..(Len(q) - 1)
        /\ r[i - 1] = x
    BY <1>1, <2>1, <2>2
  <2> QED BY <1>1, <2>3 DEF ToSet
<1>5. IsInjective(r)
  BY <1>1 DEF IsInjective
<1> QED BY <1>1, <1>2, <1>3, <1>4, <1>5

\* Element by element, cutting out position n shifts what follows it by one.
LEMMA RemoveAtElements ==
  ASSUME NEW S, NEW q \in Seq(S), NEW n \in 1..Len(q)
  PROVE  /\ RemoveAt(q, n) \in Seq(S)
         /\ Len(RemoveAt(q, n)) = Len(q) - 1
         /\ \A i \in 1..(Len(q) - 1) :
              RemoveAt(q, n)[i] = IF i < n THEN q[i] ELSE q[i + 1]
<1> DEFINE a == SubSeq(q, 1, n - 1)
           b == SubSeq(q, n + 1, Len(q))
           c == a \o b
<1>0. Len(q) \in Nat /\ n \in Nat /\ n >= 1 /\ n <= Len(q)
  BY LenProperties
<1>1. \A i \in 1..Len(q) : q[i] \in S
  BY ElementOfSeq
<1>2. /\ a \in Seq(S) /\ Len(a) = n - 1
      /\ \A i \in 1..(n - 1) : a[i] = q[i]
  <2>1. \A i \in 1..(n - 1) : q[i] \in S
    BY <1>0, <1>1
  <2>2. 1 \in Int /\ n - 1 \in Int
    BY <1>0
  <2>3. /\ a \in Seq(S)
        /\ Len(a) = IF 1 <= n - 1 THEN (n - 1) - 1 + 1 ELSE 0
        /\ \A i \in 1..((n - 1) - 1 + 1) : a[i] = q[1 + i - 1]
    BY <2>1, <2>2, SubSeqProperties
  <2> QED BY <2>3, <1>0
<1>3. /\ b \in Seq(S) /\ Len(b) = Len(q) - n
      /\ \A i \in 1..(Len(q) - n) : b[i] = q[n + i]
  <2>1. \A i \in (n + 1)..Len(q) : q[i] \in S
    BY <1>0, <1>1
  <2>2. n + 1 \in Int /\ Len(q) \in Int
    BY <1>0
  <2>3. /\ b \in Seq(S)
        /\ Len(b) = IF n + 1 <= Len(q) THEN Len(q) - (n + 1) + 1 ELSE 0
        /\ \A i \in 1..(Len(q) - (n + 1) + 1) : b[i] = q[(n + 1) + i - 1]
    BY <2>1, <2>2, SubSeqProperties
  <2> QED BY <2>3, <1>0
<1> HIDE DEF a, b
<1>4. /\ c \in Seq(S)
      /\ Len(c) = Len(a) + Len(b)
      /\ \A i \in 1..(Len(a) + Len(b)) :
           c[i] = IF i <= Len(a) THEN a[i] ELSE b[i - Len(a)]
  BY <1>2, <1>3, ConcatProperties
<1> HIDE DEF c
<1>5. ASSUME NEW i \in 1..(Len(q) - 1)
      PROVE  c[i] = IF i < n THEN q[i] ELSE q[i + 1]
  <2>1. i \in 1..(Len(a) + Len(b)) /\ i \in Int
    BY <1>0, <1>2, <1>3
  <2>2. CASE i < n
    BY <1>0, <1>2, <1>4, <2>1, <2>2
  <2>3. CASE i >= n
    <3>1. c[i] = b[i - (n - 1)]
      BY <1>0, <1>2, <1>4, <2>1, <2>3
    <3>2. i - (n - 1) \in 1..(Len(q) - n) /\ n + (i - (n - 1)) = i + 1
      BY <1>0, <2>3
    <3>3. b[i - (n - 1)] = q[n + (i - (n - 1))]
      BY <1>3, <3>2
    <3> QED BY <1>0, <2>3, <3>1, <3>2, <3>3
  <2> QED BY <1>0, <2>2, <2>3
<1>6. RemoveAt(q, n) = c
  BY DEF RemoveAt, a, b, c
<1> QED BY <1>0, <1>2, <1>3, <1>4, <1>5, <1>6

LEMMA RemoveAtToSet ==
  ASSUME NEW S, NEW q \in Seq(S), NEW n \in 1..Len(q), IsInjective(q)
  PROVE  /\ RemoveAt(q, n) \in Seq(S)
         /\ ToSet(RemoveAt(q, n)) = ToSet(q) \ {q[n]}
         /\ IsInjective(RemoveAt(q, n))
<1> DEFINE r == RemoveAt(q, n)
           from(i) == IF i < n THEN i ELSE i + 1
<1>1. /\ Len(q) \in Nat /\ n \in Nat /\ n >= 1 /\ n <= Len(q)
      /\ DOMAIN q = 1..Len(q)
  BY LenProperties
<1>2. \A i, j \in 1..Len(q) : q[i] = q[j] => i = j
  BY <1>1 DEF IsInjective
<1>3. /\ r \in Seq(S)
      /\ DOMAIN r = 1..(Len(q) - 1)
      /\ \A i \in 1..(Len(q) - 1) : r[i] = q[from(i)]
  BY RemoveAtElements, LenProperties
<1>4. \A i \in 1..(Len(q) - 1) : from(i) \in 1..Len(q) /\ from(i) # n
  BY <1>1
<1>5. \A i, j \in 1..(Len(q) - 1) : from(i) = from(j) => i = j
  BY <1>1
<1>6. ASSUME NEW i \in 1..Len(q), i # n
      PROVE  \E j \in 1..(Len(q) - 1) : from(j) = i
  <2>1. CASE i < n
    BY <1>1, <2>1
  <2>2. CASE i > n
    <3>1. i - 1 \in 1..(Len(q) - 1) /\ from(i - 1) = i
      BY <1>1, <2>2
    <3> QED BY <3>1
  <2> QED BY <1>1, <1>6, <2>1, <2>2
<1> HIDE DEF r, from
<1>7. ToSet(r) = ToSet(q) \ {q[n]}
  <2>1. ASSUME NEW x \in ToSet(r) PROVE x \in ToSet(q) \ {q[n]}
    <3>1. PICK i \in 1..(Len(q) - 1) : r[i] = x
      BY <1>3 DEF ToSet
    <3>2. x = q[from(i)] /\ from(i) \in 1..Len(q) /\ from(i) # n
      BY <1>3, <1>4, <3>1
    <3>3. x # q[n]
      BY <1>2, <3>2
    <3> QED BY <1>1, <3>2, <3>3 DEF ToSet
  <2>2. ASSUME NEW x \in ToSet(q) \ {q[n]} PROVE x \in ToSet(r)
    <3>1. PICK i \in 1..Len(q) : q[i] = x /\ i # n
      BY <1>1 DEF ToSet
    <3>2. PICK j \in 1..(Len(q) - 1) : from(j) = i
      BY <1>6, <3>1
    <3> QED BY <1>3, <3>1, <3>2 DEF ToSet
  <2> QED BY <2>1, <2>2
<1>8. IsInjective(r)
  <2>1. SUFFICES ASSUME NEW i \in 1..(Len(q) - 1), NEW j \in 1..(Len(q) - 1),
                        r[i] = r[j]
                 PROVE  i = j
    BY <1>3 DEF IsInjective
  <2>2. from(i) = from(j)
    BY <1>2, <1>3, <1>4, <2>1
  <2> QED BY <1>5, <2>2
<1> QED BY <1>3, <1>7, <1>8 DEF r

\* An entry that takes itself out of its queue.
LEMMA CutOutToSet ==
  ASSUME NEW q \in Seq(Callers), NEW c \in ToSet(q), IsInjective(q)
  PROVE  /\ PlaceIn(q, c) \in 1..Len(q) /\ q[PlaceIn(q, c)] = c
         /\ CutOut(q, c) = RemoveAt(q, PlaceIn(q, c))
         /\ CutOut(q, c) \in Seq(Callers)
         /\ ToSet(CutOut(q, c)) = ToSet(q) \ {c}
         /\ IsInjective(CutOut(q, c))
<1> DEFINE n == PlaceIn(q, c)
<1>1. n \in 1..Len(q) /\ q[n] = c
  BY LenProperties DEF ToSet, PlaceIn
<1>2. CutOut(q, c) = RemoveAt(q, n)
  BY DEF CutOut
<1> HIDE DEF n
<1> QED BY <1>1, <1>2, RemoveAtToSet DEF n

-----------------------------------------------------------------------------
\* Every set of naturals that is not empty has a least element.
LEMMA LeastElement ==
  ASSUME NEW T, T \subseteq Nat, T # {}
  PROVE  \E n \in T : \A m \in T : n <= m
<1> DEFINE R == OpToRel(<, Nat)
<1>1. \E n \in T : \A m \in T : ~ (<<m, n>> \in R)
  BY NatLessThanWellFounded, WFMin
<1>2. \A n, m \in Nat : <<m, n>> \in R <=> m < n
  BY DEF OpToRel
<1> HIDE DEF R
<1>3. PICK n \in T : \A m \in T : ~ (<<m, n>> \in R)
  BY <1>1
<1>4. ASSUME NEW m \in T PROVE n <= m
  <2>1. n \in Nat /\ m \in Nat /\ ~ (m < n)
    BY <1>2, <1>3
  <2> QED BY <2>1
<1> QED BY <1>4

\* Induction over the naturals, for the set of those that have a property.
LEMMA SetInduction ==
  ASSUME NEW T, 0 \in T, \A n \in Nat : n \in T => n + 1 \in T
  PROVE  Nat \subseteq T
<1> SUFFICES ASSUME Nat \ T # {} PROVE FALSE
  OBVIOUS
<1>1. PICK n \in Nat \ T : \A m \in Nat \ T : n <= m
  BY LeastElement
<1>2. n # 0 /\ n - 1 \in Nat /\ n - 1 \in T /\ (n - 1) + 1 = n
  BY <1>1
<1> QED BY <1>1, <1>2

\* The recursion behind SumFunctionOnSet, with the elements in the order in which
\* they are chosen.
Picked(s) == CHOOSE x \in s : TRUE
Adds(h, f, s) == h[s] = IF s = {} THEN 0 ELSE f[Picked(s)] + h[s \ {Picked(s)}]
UpTo(S, n) == {s \in SUBSET S : Cardinality(s) <= n}
IntoNat(f, S) == \A z \in S : f[z] \in Nat
SumsUp(h, f, S) == h \in [SUBSET S -> Nat] /\ \A s \in SUBSET S : Adds(h, f, s)

LEMMA UpToFacts ==
  ASSUME NEW S, IsFiniteSet(S), NEW n \in Nat, NEW s \in UpTo(S, n + 1), s # {}
  PROVE  /\ Picked(s) \in s
         /\ \A x \in s : s \ {x} \in UpTo(S, n)
<1>1. Picked(s) \in s
  BY DEF Picked
<1>2. s \subseteq S /\ IsFiniteSet(s) /\ Cardinality(s) \in Nat /\ Cardinality(s) <= n + 1
  BY FS_Subset, FS_CardinalityType DEF UpTo
<1>3. ASSUME NEW x \in s
      PROVE  s \ {x} \in UpTo(S, n)
  <2>1. IsFiniteSet(s \ {x}) /\ Cardinality(s \ {x}) = Cardinality(s) - 1
    BY <1>2, FS_RemoveElement
  <2> QED BY <1>2, <2>1 DEF UpTo
<1> QED BY <1>1, <1>3

LEMMA UpToAll ==
  ASSUME NEW S, IsFiniteSet(S)
  PROVE  Cardinality(S) \in Nat /\ UpTo(S, Cardinality(S)) = SUBSET S
BY FS_Subset, FS_CardinalityType DEF UpTo

LEMMA UpToZero ==
  ASSUME NEW S, IsFiniteSet(S)
  PROVE  UpTo(S, 0) = {{}}
<1>1. Cardinality({}) = 0
  BY FS_EmptySet
<1>2. ASSUME NEW s \in UpTo(S, 0) PROVE s = {}
  <2>1. IsFiniteSet(s) /\ Cardinality(s) \in Nat /\ Cardinality(s) <= 0
    BY FS_Subset, FS_CardinalityType DEF UpTo
  <2> QED BY <2>1, FS_EmptySet
<1> QED BY <1>1, <1>2 DEF UpTo

LEMMA SumExists ==
  ASSUME NEW S, IsFiniteSet(S), NEW f, \A x \in S : f[x] \in Nat
  PROVE  \E h \in [SUBSET S -> Nat] : \A s \in SUBSET S : Adds(h, f, s)
<1> DEFINE Good(n) == \E h \in [UpTo(S, n) -> Nat] : \A s \in UpTo(S, n) : Adds(h, f, s)
           T == {n \in Nat : Good(n)}
<1>1. 0 \in T
  <2> DEFINE h == [s \in UpTo(S, 0) |-> 0]
  <2>1. h \in [UpTo(S, 0) -> Nat] /\ \A s \in UpTo(S, 0) : Adds(h, f, s)
    BY UpToZero DEF Adds
  <2> QED BY <2>1
<1>2. ASSUME NEW n \in Nat, n \in T PROVE n + 1 \in T
  <2>1. PICK h \in [UpTo(S, n) -> Nat] : \A s \in UpTo(S, n) : Adds(h, f, s)
    BY <1>2
  <2> DEFINE e(s) == IF s = {} THEN 0 ELSE f[Picked(s)] + h[s \ {Picked(s)}]
             g == [s \in UpTo(S, n + 1) |-> e(s)]
  <2>2. UpTo(S, n) \subseteq UpTo(S, n + 1)
    BY FS_Subset, FS_CardinalityType DEF UpTo
  <2>3. ASSUME NEW s \in UpTo(S, n + 1)
        PROVE  e(s) \in Nat
    <3>1. CASE s = {}
      BY <3>1
    <3>2. CASE s # {}
      <4>1. Picked(s) \in S /\ s \ {Picked(s)} \in UpTo(S, n)
        BY <3>2, UpToFacts DEF UpTo
      <4> QED BY <2>1, <3>2, <4>1
    <3> QED BY <3>1, <3>2
  <2>4. ASSUME NEW s \in UpTo(S, n) PROVE g[s] = h[s]
    BY <2>1, <2>2 DEF Adds
  <2>5. ASSUME NEW s \in UpTo(S, n + 1) PROVE Adds(g, f, s)
    <3>1. CASE s = {}
      BY <3>1 DEF Adds
    <3>2. CASE s # {}
      <4>1. s \ {Picked(s)} \in UpTo(S, n)
        BY <3>2, UpToFacts
      <4>2. g[s \ {Picked(s)}] = h[s \ {Picked(s)}]
        BY <2>4, <4>1
      <4>3. g[s] = f[Picked(s)] + h[s \ {Picked(s)}]
        BY <3>2
      <4> HIDE DEF g
      <4> QED BY <3>2, <4>2, <4>3 DEF Adds
    <3> QED BY <3>1, <3>2
  <2>6. g \in [UpTo(S, n + 1) -> Nat]
    BY <2>3
  <2> HIDE DEF g
  <2>7. n + 1 \in Nat
    OBVIOUS
  <2> QED BY <2>5, <2>6, <2>7
<1> HIDE DEF Good
<1>3. Nat \subseteq T
  BY <1>1, <1>2, SetInduction
<1>4. Good(Cardinality(S))
  BY <1>3, UpToAll
<1> QED BY <1>4, UpToAll DEF Good
\* In whichever order the elements are taken, the sum is the same.
LEMMA AnyFirst ==
  ASSUME NEW S, IsFiniteSet(S), NEW f, IntoNat(f, S), NEW h, SumsUp(h, f, S), NEW e \in S
  PROVE  h[S] = f[e] + h[S \ {e}]
<1> USE DEF IntoNat, SumsUp
<1> DEFINE AnyTaken(s) == \A x \in s : h[s] = f[x] + h[s \ {x}]
           T == {n \in Nat : \A s \in UpTo(S, n) : AnyTaken(s)}
<1>1. 0 \in T
  BY UpToZero
<1>2. ASSUME NEW n \in Nat, n \in T PROVE n + 1 \in T
  <2>1. ASSUME NEW s \in UpTo(S, n + 1), NEW x \in s
        PROVE  h[s] = f[x] + h[s \ {x}]
    <3> DEFINE y == Picked(s)
    <3>1. /\ s \in SUBSET S /\ y \in s /\ y \in S /\ x \in S /\ f[x] \in Nat /\ f[y] \in Nat
          /\ s \ {x} \in UpTo(S, n) /\ s \ {y} \in UpTo(S, n)
          /\ s \ {x} \in SUBSET S /\ s \ {y} \in SUBSET S /\ (s \ {x}) \ {y} \in SUBSET S
      BY UpToFacts DEF UpTo
    <3>2. h[s] = f[y] + h[s \ {y}]
      BY <3>1 DEF Adds
    <3> HIDE DEF y
    <3>3. CASE x = y
      BY <3>2, <3>3
    <3>4. CASE x # y
      <4> DEFINE r == (s \ {x}) \ {y}
      <4>1. (s \ {y}) \ {x} = r
        OBVIOUS
      <4>2. h[s \ {y}] = f[x] + h[r]
        <5>1. AnyTaken(s \ {y}) /\ x \in s \ {y}
          BY <1>2, <3>1, <3>4
        <5> QED BY <4>1, <5>1
      <4>3. h[s \ {x}] = f[y] + h[r]
        <5>1. AnyTaken(s \ {x}) /\ y \in s \ {x}
          BY <1>2, <3>1, <3>4
        <5> QED BY <5>1
      <4>4. h[r] \in Nat
        BY <3>1
      <4> HIDE DEF r
      <4>5. f[y] + (f[x] + h[r]) = f[x] + (f[y] + h[r])
        BY <3>1, <4>4
      <4> QED BY <3>2, <4>2, <4>3, <4>5
    <3> QED BY <3>3, <3>4
  <2>2. n + 1 \in Nat
    OBVIOUS
  <2> QED BY <2>1, <2>2
<1>3. Nat \subseteq T
  BY <1>1, <1>2, SetInduction
<1>4. Cardinality(S) \in T /\ UpTo(S, Cardinality(S)) = SUBSET S
  BY <1>3, UpToAll
<1> HIDE DEF AnyTaken
<1>5. \A s \in SUBSET S : AnyTaken(s)
  BY <1>4
<1> QED BY <1>5 DEF AnyTaken

\* Sums over a set and over one that contains it are made alike.
LEMMA SameSums ==
  ASSUME NEW S, IsFiniteSet(S), NEW f, NEW g, NEW h,
         \A s \in SUBSET S : Adds(g, f, s), \A s \in SUBSET S : Adds(h, f, s)
  PROVE  g[S] = h[S]
<1> DEFINE T == {n \in Nat : \A s \in UpTo(S, n) : g[s] = h[s]}
<1>1. 0 \in T
  <2>1. {} \in SUBSET S
    OBVIOUS
  <2>2. g[{}] = 0 /\ h[{}] = 0
    BY <2>1 DEF Adds
  <2> QED BY <2>2, UpToZero
<1>2. ASSUME NEW n \in Nat, n \in T PROVE n + 1 \in T
  <2>1. ASSUME NEW s \in UpTo(S, n + 1) PROVE g[s] = h[s]
    <3>1. Adds(g, f, s) /\ Adds(h, f, s)
      BY DEF UpTo
    <3>2. CASE s = {}
      BY <3>1, <3>2 DEF Adds
    <3>3. CASE s # {}
      <4>1. s \ {Picked(s)} \in UpTo(S, n)
        BY <3>3, UpToFacts
      <4>2. g[s \ {Picked(s)}] = h[s \ {Picked(s)}]
        BY <1>2, <4>1
      <4> QED BY <3>1, <3>3, <4>2 DEF Adds
    <3> QED BY <3>2, <3>3
  <2>2. n + 1 \in Nat
    OBVIOUS
  <2> QED BY <2>1, <2>2
<1>3. Nat \subseteq T
  BY <1>1, <1>2, SetInduction
<1>4. S \in UpTo(S, Cardinality(S)) /\ Cardinality(S) \in Nat
  BY UpToAll
<1> QED BY <1>3, <1>4

\* SumFunctionOnSet is a function with the recursion above.
LEMMA SumIsSum ==
  ASSUME NEW S, IsFiniteSet(S), NEW f, IntoNat(f, S)
  PROVE  \E h : SumsUp(h, f, S) /\ SumFunctionOnSet(f, S) = h[S]
<1> DEFINE Rec(h) == h = [s \in SUBSET S |-> IF s = {} THEN 0
                     ELSE f[CHOOSE x \in s : TRUE] + h[s \ {CHOOSE x \in s : TRUE}]]
           k == CHOOSE h : Rec(h)
<1>1. PICK h \in [SUBSET S -> Nat] : \A s \in SUBSET S : Adds(h, f, s)
  BY SumExists DEF IntoNat
<1>2. Rec(h)
  BY <1>1 DEF Adds, Picked
<1>3. SumFunctionOnSet(f, S) = k[S]
  BY Zenon DEF SumFunctionOnSet, FoldFunctionOnSet, MapThenFoldSet
<1>4. Rec(k)
  BY <1>2, Zenon
<1> HIDE DEF k
<1>5. ASSUME NEW s \in SUBSET S PROVE Adds(k, f, s)
  BY <1>4 DEF Adds, Picked
<1>6. k[S] = h[S]
  BY <1>1, <1>5, SameSums
<1> QED BY <1>1, <1>3, <1>6 DEF SumsUp

LEMMA SumOfNone == ASSUME NEW f PROVE SumFunctionOnSet(f, {}) = 0
<1>1. PICK h : SumsUp(h, f, {}) /\ SumFunctionOnSet(f, {}) = h[{}]
  BY SumIsSum, FS_EmptySet DEF IntoNat
<1> QED BY <1>1 DEF Adds, SumsUp

\* An element taken out of a sum takes its value with it.
LEMMA SumWithout ==
  ASSUME NEW S, IsFiniteSet(S), NEW f, IntoNat(f, S), NEW e \in S
  PROVE  /\ SumFunctionOnSet(f, S) \in Nat
         /\ SumFunctionOnSet(f, S \ {e}) \in Nat
         /\ SumFunctionOnSet(f, S) = f[e] + SumFunctionOnSet(f, S \ {e})
<1>1. IsFiniteSet(S \ {e}) /\ IntoNat(f, S \ {e})
  BY FS_RemoveElement DEF IntoNat
<1>2. PICK h : SumsUp(h, f, S) /\ SumFunctionOnSet(f, S) = h[S]
  BY SumIsSum
<1>3. PICK g : SumsUp(g, f, S \ {e}) /\ SumFunctionOnSet(f, S \ {e}) = g[S \ {e}]
  BY <1>1, SumIsSum
<1>4. g[S \ {e}] = h[S \ {e}]
  <2> DEFINE R == S \ {e}
  <2>1. /\ \A s \in SUBSET R : Adds(g, f, s)
        /\ \A s \in SUBSET R : Adds(h, f, s)
    BY <1>2, <1>3 DEF SumsUp
  <2>2. IsFiniteSet(R)
    BY <1>1
  <2> HIDE DEF R
  <2>3. g[R] = h[R]
    BY <2>1, <2>2, SameSums
  <2> QED BY <2>3 DEF R
<1>5. h[S] = f[e] + h[S \ {e}]
  BY <1>2, AnyFirst
<1>6. h[S] \in Nat /\ h[S \ {e}] \in Nat
  BY <1>2 DEF SumsUp
<1> QED BY <1>2, <1>3, <1>4, <1>5, <1>6

-----------------------------------------------------------------------------
\* The ledger is what the leases of the requests in H add up to.
Streams(H) == {c \in H : IsStream[c]}
Accounts(led, H) ==
  /\ led.bytes = SumFunctionOnSet(Bytes, H)
  /\ led.streams = Cardinality(Streams(H))
  /\ led.requests = Cardinality(H)

Budgeted(led) == led.bytes <= MaxPayloadBytes /\ led.streams <= MaxHeldStreams

Blocked(led) == led.queue # <<>> => ~ Fits(led, Head(led.queue))

\* r is what is left of queue q when some of its head entries are gone.
Suffix(r, q) ==
  /\ Len(r) <= Len(q)
  /\ \A i \in 1..Len(r) : r[i] = q[(Len(q) - Len(r)) + i]

LEMMA BytesFacts ==
  ASSUME NEW H \in SUBSET Callers
  PROVE  /\ IsFiniteSet(H) /\ IsFiniteSet(Streams(H))
         /\ IntoNat(Bytes, H)
         /\ SumFunctionOnSet(Bytes, H) \in Nat
         /\ Cardinality(H) \in Nat /\ Cardinality(Streams(H)) \in Nat
<1>1. IsFiniteSet(H) /\ IsFiniteSet(Streams(H))
  BY CallersAssumption, FS_Subset DEF Streams
<1>2. IntoNat(Bytes, H)
  BY PayloadAssumption DEF IntoNat
<1>3. SumFunctionOnSet(Bytes, H) \in Nat
  <2>1. CASE H = {}
    BY <2>1, SumOfNone
  <2>2. CASE H # {}
    BY <1>1, <1>2, <2>2, SumWithout
  <2> QED BY <2>1, <2>2
<1> QED BY <1>1, <1>2, <1>3, FS_CardinalityType

\* A lease more, or a lease less, in a set of holders.
LEMMA OneMore ==
  ASSUME NEW H \in SUBSET Callers, NEW c \in Callers \ H
  PROVE  /\ SumFunctionOnSet(Bytes, H \cup {c}) = SumFunctionOnSet(Bytes, H) + Bytes[c]
         /\ Cardinality(H \cup {c}) = Cardinality(H) + 1
         /\ Cardinality(Streams(H \cup {c})) =
              IF IsStream[c] THEN Cardinality(Streams(H)) + 1 ELSE Cardinality(Streams(H))
<1> DEFINE G == H \cup {c}
<1>1. G \in SUBSET Callers /\ c \in G /\ G \ {c} = H
  OBVIOUS
<1>2. /\ IsFiniteSet(H) /\ IsFiniteSet(Streams(H)) /\ IsFiniteSet(G) /\ IntoNat(Bytes, G)
      /\ Bytes[c] \in Nat
  BY <1>1, BytesFacts, PayloadAssumption
<1> HIDE DEF G
<1>3. /\ SumFunctionOnSet(Bytes, G \ {c}) \in Nat
      /\ SumFunctionOnSet(Bytes, G) = Bytes[c] + SumFunctionOnSet(Bytes, G \ {c})
  BY <1>1, <1>2, SumWithout
<1>4. SumFunctionOnSet(Bytes, G) = SumFunctionOnSet(Bytes, H) + Bytes[c]
  BY <1>1, <1>2, <1>3
<1>5. Cardinality(H \cup {c}) = Cardinality(H) + 1
  BY <1>2, FS_AddElement
<1>6. CASE IsStream[c]
  <2>1. Streams(H \cup {c}) = Streams(H) \cup {c} /\ c \notin Streams(H)
    BY <1>6 DEF Streams
  <2> QED BY <1>2, <1>4, <1>5, <1>6, <2>1, FS_AddElement DEF G
<1>7. CASE ~ IsStream[c]
  <2>1. Streams(H \cup {c}) = Streams(H)
    BY <1>7 DEF Streams
  <2> QED BY <1>4, <1>5, <1>7, <2>1 DEF G
<1> QED BY <1>6, <1>7

\* Fewer leases hold no more bytes.
LEMMA FewerBytes ==
  ASSUME NEW H \in SUBSET Callers, NEW G \in SUBSET H
  PROVE  SumFunctionOnSet(Bytes, G) <= SumFunctionOnSet(Bytes, H)
<1> DEFINE T == {n \in Nat : \A D \in UpTo(H, n) : G \subseteq D =>
                   SumFunctionOnSet(Bytes, G) <= SumFunctionOnSet(Bytes, D)}
<1>1. /\ IsFiniteSet(H) /\ G \in SUBSET Callers /\ SumFunctionOnSet(Bytes, G) \in Nat
  BY BytesFacts
<1>2. 0 \in T
  <2>1. ASSUME NEW D \in UpTo(H, 0), G \subseteq D
        PROVE  SumFunctionOnSet(Bytes, G) <= SumFunctionOnSet(Bytes, D)
    <3>1. D = G
      BY <1>1, <2>1, UpToZero
    <3> QED BY <1>1, <3>1
  <2> QED BY <2>1
<1>3. ASSUME NEW n \in Nat, n \in T PROVE n + 1 \in T
  <2>1. ASSUME NEW D \in UpTo(H, n + 1), G \subseteq D
        PROVE  SumFunctionOnSet(Bytes, G) <= SumFunctionOnSet(Bytes, D)
    <3>1. CASE D = G
      BY <1>1, <3>1
    <3>2. CASE D # G
      <4>1. PICK c \in D : c \notin G
        BY <2>1, <3>2
      <4> DEFINE E == D \ {c}
      <4>2. E \in UpTo(H, n) /\ G \subseteq E
        BY <1>1, <2>1, <4>1, UpToFacts
      <4>3. SumFunctionOnSet(Bytes, G) <= SumFunctionOnSet(Bytes, E)
        BY <1>3, <4>2
      <4>4. E \in SUBSET Callers /\ c \in Callers \ E /\ D = E \cup {c} /\ Bytes[c] \in Nat
        BY <4>1, PayloadAssumption DEF UpTo
      <4> HIDE DEF E
      <4>5. /\ SumFunctionOnSet(Bytes, E) \in Nat
            /\ SumFunctionOnSet(Bytes, D) = SumFunctionOnSet(Bytes, E) + Bytes[c]
        BY <4>4, BytesFacts, OneMore
      <4> QED BY <1>1, <4>3, <4>4, <4>5
    <3> QED BY <3>1, <3>2
  <2>2. n + 1 \in Nat
    OBVIOUS
  <2> QED BY <2>1, <2>2
<1>4. Nat \subseteq T
  BY <1>2, <1>3, SetInduction
<1>5. Cardinality(H) \in T /\ H \in UpTo(H, Cardinality(H))
  BY <1>1, <1>4, UpToAll
<1> QED BY <1>5

LEMMA AllocateAccounts ==
  ASSUME NEW led \in Ledger, NEW H \in SUBSET Callers, Accounts(led, H),
         NEW c \in Callers \ H
  PROVE  /\ Allocate(led, c) \in Ledger
         /\ Allocate(led, c).queue = led.queue
         /\ Accounts(Allocate(led, c), H \cup {c})
         /\ Fits(led, c) /\ Budgeted(led) => Budgeted(Allocate(led, c))
<1>1. Bytes[c] \in Nat /\ IsStream[c] \in BOOLEAN
  BY PayloadAssumption
<1> DEFINE streams == IF IsStream[c] THEN led.streams + 1 ELSE led.streams
<1>0. led.bytes + Bytes[c] \in Nat /\ streams \in Nat /\ led.requests + 1 \in Nat
  BY <1>1 DEF Ledger
<1> HIDE DEF streams
<1>2. /\ Allocate(led, c) \in Ledger
      /\ Allocate(led, c).queue = led.queue
      /\ Allocate(led, c).bytes = led.bytes + Bytes[c]
      /\ Allocate(led, c).streams = IF IsStream[c] THEN led.streams + 1 ELSE led.streams
      /\ Allocate(led, c).requests = led.requests + 1
  BY <1>0 DEF Allocate, Ledger, streams
<1>3. Accounts(Allocate(led, c), H \cup {c})
  BY <1>2, OneMore DEF Accounts
<1>4. Fits(led, c) /\ Budgeted(led) => Budgeted(Allocate(led, c))
  BY <1>1, <1>2 DEF Fits, Budgeted
<1> QED BY <1>2, <1>3, <1>4

LEMMA DeallocateAccounts ==
  ASSUME NEW led \in Ledger, NEW H \in SUBSET Callers, Accounts(led, H), NEW c \in H
  PROVE  /\ Deallocate(led, c) \in Ledger
         /\ Deallocate(led, c).queue = led.queue
         /\ Accounts(Deallocate(led, c), H \ {c})
         /\ Budgeted(led) => Budgeted(Deallocate(led, c))
<1> DEFINE R == H \ {c}
<1>1. /\ Bytes[c] \in Nat /\ IsStream[c] \in BOOLEAN
      /\ R \in SUBSET Callers /\ c \in Callers \ R /\ R \cup {c} = H
      /\ {MaxPayloadBytes, MaxHeldStreams} \subseteq Nat
  BY PayloadAssumption
<1>2. /\ SumFunctionOnSet(Bytes, R) \in Nat
      /\ Cardinality(R) \in Nat /\ Cardinality(Streams(R)) \in Nat
  BY <1>1, BytesFacts
<1>3. /\ led.bytes = SumFunctionOnSet(Bytes, R) + Bytes[c]
      /\ led.requests = Cardinality(R) + 1
      /\ led.streams = IF IsStream[c] THEN Cardinality(Streams(R)) + 1
                                      ELSE Cardinality(Streams(R))
  BY <1>1, OneMore DEF Accounts
<1> HIDE DEF R
<1> DEFINE streams == IF IsStream[c] THEN AtLeastZero(led.streams, 1) ELSE led.streams
<1>4a. /\ AtLeastZero(led.bytes, Bytes[c]) = SumFunctionOnSet(Bytes, R)
       /\ AtLeastZero(led.requests, 1) = Cardinality(R)
       /\ streams = Cardinality(Streams(R))
  BY <1>1, <1>2, <1>3 DEF AtLeastZero
<1>4b. Deallocate(led, c) = [led EXCEPT !.bytes = AtLeastZero(led.bytes, Bytes[c]),
           !.streams = streams, !.requests = AtLeastZero(led.requests, 1)]
  BY DEF Deallocate
<1> HIDE DEF streams
<1>4. /\ Deallocate(led, c).bytes = SumFunctionOnSet(Bytes, R)
      /\ Deallocate(led, c).requests = Cardinality(R)
      /\ Deallocate(led, c).streams = Cardinality(Streams(R))
      /\ Deallocate(led, c).queue = led.queue
  BY <1>4a, <1>4b DEF Ledger
<1>5. Deallocate(led, c) \in Ledger
  BY <1>2, <1>4a, <1>4b DEF Ledger
<1>6. Budgeted(led) => Budgeted(Deallocate(led, c))
  BY <1>1, <1>2, <1>3, <1>4 DEF Budgeted
<1> QED BY <1>4, <1>5, <1>6 DEF Accounts, R

LEMMA EmptyLedgerFacts ==
  /\ EmptyLedger \in Ledger /\ IsInjective(EmptyLedger.queue) /\ ToSet(EmptyLedger.queue) = {}
  /\ Accounts(EmptyLedger, {}) /\ Budgeted(EmptyLedger) /\ Blocked(EmptyLedger)
<1>1. EmptyLedger \in Ledger /\ EmptyLedger.queue = <<>>
  BY DEF EmptyLedger, Ledger
<1>2. IsInjective(<<>>) /\ ToSet(<<>>) = {}
  BY DEF IsInjective, ToSet
<1>3. Streams({}) = {}
  BY DEF Streams
<1>4. Accounts(EmptyLedger, {})
  BY <1>3, SumOfNone, FS_EmptySet DEF Accounts, EmptyLedger
<1>5. Budgeted(EmptyLedger)
  BY PayloadAssumption DEF Budgeted, EmptyLedger
<1> QED BY <1>1, <1>2, <1>4, <1>5 DEF Blocked

\* What stays in the queue and who left it, when r is what is left of q.
LEMMA SuffixSet ==
  ASSUME NEW q \in Seq(Callers), NEW r \in Seq(Callers), IsInjective(q), Suffix(r, q)
  PROVE  /\ IsInjective(r)
         /\ ToSet(r) \subseteq ToSet(q)
         /\ ToSet(SubSeq(q, 1, Len(q) - Len(r))) = ToSet(q) \ ToSet(r)
         /\ \A i, j \in 1..Len(q) : i < j /\ q[i] \in ToSet(r) => q[j] \in ToSet(r)
<1> DEFINE n == Len(q) - Len(r)
           s == SubSeq(q, 1, n)
<1>1. /\ Len(q) \in Nat /\ Len(r) \in Nat /\ n \in Nat /\ n <= Len(q) /\ n + Len(r) = Len(q)
      /\ DOMAIN q = 1..Len(q) /\ DOMAIN r = 1..Len(r)
      /\ \A i \in 1..Len(q) : q[i] \in Callers
      /\ \A i \in 1..Len(r) : r[i] = q[n + i]
  BY LenProperties, ElementOfSeq DEF Suffix
<1>2. \A i, j \in 1..Len(q) : q[i] = q[j] => i = j
  BY <1>1 DEF IsInjective
<1> HIDE DEF n
<1>3. /\ s \in Seq(Callers) /\ Len(s) = n
      /\ \A i \in 1..n : s[i] = q[i]
  <2>1. \A i \in 1..n : q[i] \in Callers
    BY <1>1
  <2>2. 1 \in Int /\ n \in Int
    BY <1>1
  <2>3. /\ s \in Seq(Callers)
        /\ Len(s) = IF 1 <= n THEN n - 1 + 1 ELSE 0
        /\ \A i \in 1..(n - 1 + 1) : s[i] = q[1 + i - 1]
    BY <2>1, <2>2, SubSeqProperties
  <2> QED BY <2>3, <1>1
<1>4. DOMAIN s = 1..n
  BY <1>3, LenProperties
<1> HIDE DEF s
<1>5. ToSet(q) = {q[i] : i \in 1..Len(q)} /\ ToSet(s) = {q[i] : i \in 1..n}
  BY <1>1, <1>3, <1>4 DEF ToSet
<1>6. ASSUME NEW i \in 1..Len(q)
      PROVE  q[i] \in ToSet(r) <=> i > n
  <2>1. ASSUME i > n PROVE q[i] \in ToSet(r)
    <3>1. i - n \in 1..Len(r) /\ n + (i - n) = i
      BY <1>1, <2>1
    <3>2. r[i - n] = q[i]
      BY <1>1, <3>1
    <3> QED BY <1>1, <3>1, <3>2 DEF ToSet
  <2>2. ASSUME q[i] \in ToSet(r) PROVE i > n
    <3>1. PICK k \in 1..Len(r) : r[k] = q[i]
      BY <1>1, <2>2 DEF ToSet
    <3>2. n + k \in 1..Len(q) /\ q[n + k] = q[i]
      BY <1>1, <3>1
    <3>3. n + k = i
      BY <1>2, <3>2
    <3> QED BY <1>1, <3>3
  <2> QED BY <2>1, <2>2
<1>7. IsInjective(r)
  <2>1. ASSUME NEW i \in 1..Len(r), NEW j \in 1..Len(r), r[i] = r[j] PROVE i = j
    <3>1. n + i \in 1..Len(q) /\ n + j \in 1..Len(q) /\ q[n + i] = q[n + j]
      BY <1>1, <2>1
    <3>2. n + i = n + j
      BY <1>2, <3>1
    <3> QED BY <1>1, <3>2
  <2> QED BY <1>1, <2>1 DEF IsInjective
<1>8. ToSet(r) \subseteq ToSet(q)
  <2>1. ASSUME NEW k \in 1..Len(r) PROVE r[k] \in ToSet(q)
    <3>1. n + k \in 1..Len(q) /\ r[k] = q[n + k]
      BY <1>1
    <3> QED BY <1>5, <3>1
  <2> QED BY <1>1, <2>1 DEF ToSet
<1>9. ToSet(s) = ToSet(q) \ ToSet(r)
  <2>1. ASSUME NEW i \in 1..Len(q) PROVE q[i] \in ToSet(s) <=> i <= n
    <3>1. ASSUME q[i] \in ToSet(s) PROVE i <= n
      <4>1. PICK k \in 1..n : q[k] = q[i]
        BY <1>5, <3>1
      <4>2. k = i
        BY <1>1, <1>2, <4>1
      <4> QED BY <4>2
    <3>2. ASSUME i <= n PROVE q[i] \in ToSet(s)
      BY <1>1, <1>5, <3>2
    <3> QED BY <3>1, <3>2
  <2>2. ToSet(s) \subseteq ToSet(q)
    BY <1>1, <1>5
  <2>3. \A i \in 1..Len(q) : i <= n <=> ~ (i > n)
    BY <1>1
  <2>4. ASSUME NEW x \in ToSet(q) PROVE x \in ToSet(s) <=> x \notin ToSet(r)
    <3>1. PICK i \in 1..Len(q) : q[i] = x
      BY <1>5
    <3> QED BY <1>6, <2>1, <2>3, <3>1
  <2> QED BY <2>2, <2>4
<1>10. \A i, j \in 1..Len(q) : i < j /\ q[i] \in ToSet(r) => q[j] \in ToSet(r)
  BY <1>1, <1>6
<1> QED BY <1>7, <1>8, <1>9, <1>10 DEF s, n

\* What a turn of drainQueue's loop keeps of a drain that started with queue q
\* and holders H.
Draining(led, q, H) ==
  /\ led \in Ledger
  /\ Suffix(led.queue, q)
  /\ Accounts(led, H \cup (ToSet(q) \ ToSet(led.queue)))
  /\ Budgeted(led)

LEMMA DrainTurn ==
  ASSUME NEW q \in Seq(Callers), IsInjective(q), NEW H \in SUBSET Callers,
         H \cap ToSet(q) = {}, NEW led, Draining(led, q, H)
  PROVE  /\ Draining(AdmitIfFits(led), q, H)
         /\ Blocked(led) => AdmitIfFits(led) = led
         /\ ~ Blocked(led) => Len(AdmitIfFits(led).queue) = Len(led.queue) - 1
<1> DEFINE r == led.queue
           c == Head(r)
           G == H \cup (ToSet(q) \ ToSet(r))
           short == [led EXCEPT !.queue = Tail(r)]
<1>1. CASE Blocked(led)
  <2>1. AdmitIfFits(led) = led
    BY <1>1 DEF Blocked, AdmitIfFits
  <2> QED BY <1>1, <2>1
<1>2. CASE ~ Blocked(led)
  <2>1. led.queue # <<>> /\ Fits(led, c)
    BY <1>2 DEF Blocked
  <2>2. AdmitIfFits(led) = Allocate(short, c)
    BY <2>1 DEF AdmitIfFits, AdmitHead
  <2>3. r \in Seq(Callers) /\ Suffix(r, q) /\ led \in Ledger /\ Budgeted(led) /\ Accounts(led, G)
    BY DEF Draining, Ledger
  <2>4. IsInjective(r) /\ ToSet(r) \subseteq ToSet(q) /\ ToSet(q) \subseteq Callers
    <3>1. ToSet(q) \subseteq Callers
      BY ElementOfSeq, LenProperties DEF ToSet
    <3> QED BY <2>3, <3>1, SuffixSet
  <2>5. /\ Tail(r) \in Seq(Callers) /\ c \in ToSet(r)
        /\ ToSet(Tail(r)) = ToSet(r) \ {c}
    BY <2>1, <2>3, <2>4, TailToSet
  <2>6. c \in Callers \ G /\ G \in SUBSET Callers
    BY <2>4, <2>5
  <2>7. G \cup {c} = H \cup (ToSet(q) \ ToSet(Tail(r)))
    BY <2>4, <2>5
  <2>8. /\ short \in Ledger /\ Accounts(short, G) /\ Fits(short, c) /\ Budgeted(short)
        /\ short.queue = Tail(r)
    BY <2>1, <2>3, <2>5 DEF Ledger, Accounts, Fits, Budgeted
  <2>9. /\ Len(Tail(r)) = Len(r) - 1 /\ Len(r) \in Nat \ {0} /\ Len(q) \in Nat
        /\ \A i \in 1..(Len(r) - 1) : Tail(r)[i] = r[i + 1]
    BY <2>1, <2>3, HeadTailProperties, LenProperties, EmptySeq
  <2>10. Suffix(Tail(r), q)
    <3>1. ASSUME NEW i \in 1..(Len(r) - 1)
          PROVE  Tail(r)[i] = q[(Len(q) - (Len(r) - 1)) + i]
      <4>1. i + 1 \in 1..Len(r)
        BY <2>9
      <4>2. r[i + 1] = q[(Len(q) - Len(r)) + (i + 1)]
        BY <2>3, <4>1 DEF Suffix
      <4>3. (Len(q) - Len(r)) + (i + 1) = (Len(q) - (Len(r) - 1)) + i
        BY <2>9
      <4> QED BY <2>9, <4>2, <4>3
    <3>2. Len(Tail(r)) <= Len(q)
      BY <2>3, <2>9 DEF Suffix
    <3> QED BY <2>9, <3>1, <3>2 DEF Suffix
  <2> HIDE DEF short, G, c
  <2>11. /\ Allocate(short, c) \in Ledger /\ Allocate(short, c).queue = Tail(r)
         /\ Accounts(Allocate(short, c), G \cup {c})
         /\ Budgeted(Allocate(short, c))
    BY <2>6, <2>8, AllocateAccounts
  <2> QED BY <1>2, <2>2, <2>7, <2>9, <2>10, <2>11 DEF Draining
<1> QED BY <1>1, <1>2

\* The function that Drain defines by recursion exists, so it has the recursion.
LEMMA DrainUnfolds ==
  ASSUME NEW led, Len(led.queue) \in Nat
  PROVE  \E after :
           /\ after[0] = led
           /\ \A n \in 1..Len(led.queue) : after[n] = AdmitIfFits(after[n - 1])
           /\ Drain(led) = after[Len(led.queue)]
<1> DEFINE Rec(h, m) == h = [n \in 0..m |-> IF n = 0 THEN led ELSE AdmitIfFits(h[n - 1])]
           T == {m \in Nat : \E h : Rec(h, m)}
           k == CHOOSE h : Rec(h, Len(led.queue))
<1>1. 0 \in T
  <2> DEFINE h == [n \in 0..0 |-> led]
  <2>1. Rec(h, 0)
    OBVIOUS
  <2> QED BY <2>1
<1>2. ASSUME NEW m \in Nat, m \in T PROVE m + 1 \in T
  <2>1. PICK h : Rec(h, m)
    BY <1>2
  <2> DEFINE e(n) == IF n = 0 THEN led ELSE AdmitIfFits(h[n - 1])
             g == [n \in 0..(m + 1) |-> e(n)]
  <2>2. \A n \in 0..m : h[n] = g[n]
    BY <2>1
  <2>3. \A n \in 0..(m + 1) : e(n) = IF n = 0 THEN led ELSE AdmitIfFits(g[n - 1])
    <3> SUFFICES ASSUME NEW n \in 0..(m + 1), n # 0 PROVE h[n - 1] = g[n - 1]
      BY Zenon
    <3>1. n - 1 \in 0..m
      OBVIOUS
    <3> HIDE DEF g
    <3> QED BY <2>2, <3>1
  <2>4. g = [n \in 0..(m + 1) |-> IF n = 0 THEN led ELSE AdmitIfFits(g[n - 1])]
    <3> HIDE DEF e
    <3>1. \A n \in 0..(m + 1) : g[n] = IF n = 0 THEN led ELSE AdmitIfFits(g[n - 1])
      BY <2>3
    <3>2. DOMAIN g = 0..(m + 1)
      OBVIOUS
    <3> QED BY <2>3, Zenon
  <2>5. Rec(g, m + 1)
    BY <2>4
  <2> HIDE DEF g, Rec
  <2>6. m + 1 \in Nat
    OBVIOUS
  <2> QED BY <2>5, <2>6
<1> HIDE DEF Rec
<1>3. Nat \subseteq T
  BY <1>1, <1>2, SetInduction
<1>4. \E h : Rec(h, Len(led.queue))
  BY <1>3
<1>5. Rec(k, Len(led.queue))
  BY <1>4, Zenon
<1>6. Drain(led) = k[Len(led.queue)]
  BY Zenon DEF Drain, Rec
<1> HIDE DEF k
<1>7. \A n \in 0..Len(led.queue) : k[n] = IF n = 0 THEN led ELSE AdmitIfFits(k[n - 1])
  BY <1>5, Zenon DEF Rec
<1>8. k[0] = led /\ \A n \in 1..Len(led.queue) : k[n] = AdmitIfFits(k[n - 1])
  BY <1>7
<1> QED BY <1>6, <1>8

\* drainQueue as a whole, begun with holders H: it lets a prefix of the queue in,
\* accounts for every request it lets in, keeps to the budget, and stops only at
\* a head that does not fit.
LEMMA DrainFacts ==
  ASSUME NEW led \in Ledger, IsInjective(led.queue), NEW H \in SUBSET Callers,
         H \cap ToSet(led.queue) = {}, Accounts(led, H), Budgeted(led)
  PROVE  /\ Drain(led) \in Ledger
         /\ IsInjective(Drain(led).queue)
         /\ ToSet(Drain(led).queue) \subseteq ToSet(led.queue)
         /\ DrainGrants(led) = ToSet(led.queue) \ ToSet(Drain(led).queue)
         /\ Accounts(Drain(led), H \cup DrainGrants(led))
         /\ Budgeted(Drain(led))
         /\ Blocked(Drain(led))
         /\ \A i, j \in 1..Len(led.queue) :
              i < j /\ led.queue[i] \in ToSet(Drain(led).queue)
                => led.queue[j] \in ToSet(Drain(led).queue)
<1> DEFINE q == led.queue
           N == Len(q)
<1>1. q \in Seq(Callers) /\ N \in Nat
  BY LenProperties DEF Ledger
<1>2. PICK after : /\ after[0] = led
                   /\ \A n \in 1..N : after[n] = AdmitIfFits(after[n - 1])
                   /\ Drain(led) = after[N]
  BY <1>1, DrainUnfolds
<1> DEFINE T == {n \in Nat : n <= N =>
                   /\ Draining(after[n], q, H)
                   /\ Blocked(after[n]) \/ Len(after[n].queue) = N - n}
<1>4. 0 \in T
  <2>1. Suffix(q, q)
    BY <1>1 DEF Suffix
  <2>2. H \cup (ToSet(q) \ ToSet(q)) = H
    OBVIOUS
  <2>3. Draining(led, q, H)
    BY <2>1, <2>2 DEF Draining
  <2> QED BY <1>1, <1>2, <2>3
<1>5. ASSUME NEW n \in Nat, n \in T PROVE n + 1 \in T
  <2> SUFFICES ASSUME n + 1 <= N
               PROVE  /\ Draining(after[n + 1], q, H)
                      /\ Blocked(after[n + 1]) \/ Len(after[n + 1].queue) = N - (n + 1)
    OBVIOUS
  <2>1. /\ Draining(after[n], q, H)
        /\ Blocked(after[n]) \/ Len(after[n].queue) = N - n
    BY <1>1, <1>5
  <2>2. after[n + 1] = AdmitIfFits(after[n])
    <3>1. n + 1 \in 1..N /\ (n + 1) - 1 = n
      BY <1>1
    <3> QED BY <1>2, <3>1
  <2>3. /\ Draining(AdmitIfFits(after[n]), q, H)
        /\ Blocked(after[n]) => AdmitIfFits(after[n]) = after[n]
        /\ ~ Blocked(after[n]) => Len(AdmitIfFits(after[n]).queue) = Len(after[n].queue) - 1
    BY <1>1, <2>1, DrainTurn
  <2>4. CASE Blocked(after[n])
    BY <2>2, <2>3, <2>4
  <2>5. CASE ~ Blocked(after[n])
    <3>1. Len(after[n + 1].queue) = N - (n + 1)
      <4>1. Len(AdmitIfFits(after[n]).queue) = (N - n) - 1
        BY <2>1, <2>3, <2>5
      <4>2. (N - n) - 1 = N - (n + 1)
        BY <1>1
      <4> QED BY <2>2, <4>1, <4>2
    <3> QED BY <2>2, <2>3, <3>1
  <2> QED BY <2>4, <2>5
<1>6. /\ Draining(Drain(led), q, H)
      /\ Blocked(Drain(led)) \/ Len(Drain(led).queue) = 0
  <2>1. N \in T
    BY <1>1, <1>4, <1>5, SetInduction
  <2> QED BY <1>1, <1>2, <2>1
<1>7. Drain(led).queue \in Seq(Callers) /\ Drain(led) \in Ledger
  BY <1>6 DEF Draining, Ledger
<1>8. Blocked(Drain(led))
  BY <1>6, <1>7, EmptySeq DEF Blocked
<1>9. /\ IsInjective(Drain(led).queue)
      /\ ToSet(Drain(led).queue) \subseteq ToSet(q)
      /\ ToSet(SubSeq(q, 1, Len(q) - Len(Drain(led).queue))) = ToSet(q) \ ToSet(Drain(led).queue)
      /\ \A i, j \in 1..Len(q) : i < j /\ q[i] \in ToSet(Drain(led).queue)
           => q[j] \in ToSet(Drain(led).queue)
  BY <1>1, <1>6, <1>7, SuffixSet DEF Draining
<1>10. DrainGrants(led) = ToSet(q) \ ToSet(Drain(led).queue)
  BY <1>9 DEF DrainGrants
<1> QED BY <1>6, <1>7, <1>8, <1>9, <1>10 DEF Draining

=============================================================================
