--------------------------- MODULE EvidenceProofs ---------------------------
(***************************************************************************)
(* Proofs about Evidence, for every SARIF file, snapshot, policy and       *)
(* supplement, and every change of the snapshot by another program: the    *)
(* context of an alert is honest about what it shows and what it leaves    *)
(* out (ContextsAreHonest), the registry is grounded (RegistryGrounds),    *)
(* only twin omissions end the run in its validator (OnlyTwinsCrash), and  *)
(* a location gets the path that it means (LocationsAreTrue).              *)
(*                                                                         *)
(* The builder is made of folds over sequences.  What a fold computes is   *)
(* told by the values it goes through (FoldRuns), so that an invariant of  *)
(* one step becomes one of the whole by induction over the sequence.  So   *)
(* does the climb over the bases of a location (AncestorsClimb).           *)
(***************************************************************************)
EXTENDS Evidence, FiniteSetTheorems, SequenceTheorems,
        WellFoundedInduction, TLAPS

-----------------------------------------------------------------------------
(* Induction over data. *)

\* A set of numbers that contains 0 and the successor of each of its numbers
\* contains all of them.
LEMMA Induction ==
    ASSUME NEW T, 0 \in T, \A n \in Nat : n \in T => n + 1 \in T
    PROVE  \A n \in Nat : n \in T
<1> DEFINE R == OpToRel(<, Nat)
<1>1. IsWellFoundedOn(R, Nat)
  BY NatLessThanWellFounded
<1>2. \A x, y \in Nat : y < x => <<y, x>> \in R
  BY DEF OpToRel
<1> HIDE DEF R
<1> SUFFICES ASSUME Nat \ T # {}
             PROVE  FALSE
  OBVIOUS
<1>3. PICK x \in Nat \ T : \A y \in Nat \ T : <<y, x>> \notin R
  BY <1>1, WFMin
<1>4. x - 1 \in Nat /\ x - 1 < x
  OBVIOUS
<1>5. x - 1 \in T
  BY <1>2, <1>3, <1>4
<1> QED
  BY <1>3, <1>4, <1>5

\* A nonempty set of small numbers has a greatest and a least one.
LEMMA Extremes ==
    ASSUME NEW n \in Nat, NEW u, u \subseteq 1 .. n, u # {}
    PROVE  /\ Max(u) \in u /\ \A y \in u : Max(u) >= y
           /\ Min(u) \in u /\ \A y \in u : Min(u) <= y
<1> DEFINE Has(v) == /\ \E x \in v : \A y \in v : x >= y
                     /\ \E x \in v : \A y \in v : x <= y
           T == {k \in Nat : \A v \in SUBSET (1 .. k) : v # {} => Has(v)}
<1>1. 0 \in T
  <2>1. 1 .. 0 = {}
    OBVIOUS
  <2>2. \A v \in SUBSET (1 .. 0) : v = {}
    BY <2>1
  <2> QED
    BY <2>2
<1>2. ASSUME NEW k \in Nat, k \in T
      PROVE  k + 1 \in T
  <2> SUFFICES ASSUME NEW v \in SUBSET (1 .. k + 1), v # {}
               PROVE  Has(v)
    OBVIOUS
  <2>1. CASE k + 1 \notin v
    <3>1. v \in SUBSET (1 .. k)
      BY <2>1
    <3> QED
      BY <3>1, <1>2
  <2>2. CASE v = {k + 1}
    BY <2>2
  <2>3. CASE k + 1 \in v /\ v # {k + 1}
    <3> DEFINE w == v \ {k + 1}
    <3>1. w \in SUBSET (1 .. k) /\ w # {}
      BY <2>3
    <3>2. Has(w)
      BY <3>1, <1>2
    <3>3. \A y \in w : y \in 1 .. k
      BY <3>1
    <3>4. \A y \in v : y = k + 1 \/ y \in w
      OBVIOUS
    <3>5. \A y \in v : k + 1 >= y
      BY <3>3, <3>4
    <3>6. PICK x \in w : \A y \in w : x <= y
      BY <3>2
    <3>7. x \in v /\ \A y \in v : x <= y
      BY <3>3, <3>4, <3>6
    <3> QED
      BY <2>3, <3>5, <3>7
  <2> QED
    BY <2>1, <2>2, <2>3
<1> HIDE DEF T
<1>3. n \in T
  BY <1>1, <1>2, Induction
<1>4. Has(u)
  BY <1>3 DEF T
<1> QED
  BY <1>4 DEF Max, Min

-----------------------------------------------------------------------------
(* Folds. *)

\* The last of the first n numbers is the greatest.
LEMMA LastIndex ==
    ASSUME NEW n \in Nat, n >= 1
    PROVE  /\ 1 .. n # {} /\ (1 .. n) \ {n} = 1 .. n - 1
           /\ Max(1 .. n) = n
<1>1. n \in 1 .. n /\ (1 .. n) \ {n} = 1 .. n - 1
  OBVIOUS
<1>2. Max(1 .. n) \in 1 .. n /\ \A y \in 1 .. n : Max(1 .. n) >= y
  BY <1>1, Extremes
<1> QED
  BY <1>1, <1>2

\* What a fold from the left computes over the subsets of the indices.
Iterates(it, F, base, s) ==
    it = [u \in SUBSET DOMAIN s |->
            IF u = {} THEN base ELSE F[<<it[u \ {Max(u)}], s[Max(u)]>>]]

\* The recursion of a fold has a solution.
LEMMA Foldable ==
    ASSUME NEW A, NEW S, NEW F \in [A \X S -> A], NEW base \in A, NEW s \in Seq(S)
    PROVE  \E it \in [SUBSET DOMAIN s -> A] : Iterates(it, F, base, s)
<1> DEFINE Iter(it, D) ==
             it = [u \in SUBSET D |->
                     IF u = {} THEN base ELSE F[<<it[u \ {Max(u)}], s[Max(u)]>>]]
           N == Len(s)
           T == {k \in Nat : k <= N =>
                   \E it \in [SUBSET (1 .. k) -> A] : Iter(it, 1 .. k)}
<1>0. DOMAIN s = 1 .. N /\ N \in Nat /\ \A n \in 1 .. N : s[n] \in S
  OBVIOUS
<1>1. 0 \in T
  <2> DEFINE f == [u \in SUBSET (1 .. 0) |-> base]
  <2>1. \A u \in SUBSET (1 .. 0) : u = {}
    <3>1. 1 .. 0 = {}
      OBVIOUS
    <3> QED
      BY <3>1
  <2>2. Iter(f, 1 .. 0) /\ f \in [SUBSET (1 .. 0) -> A]
    BY <2>1
  <2> QED
    BY <2>2
<1>2. ASSUME NEW k \in Nat, k \in T, k + 1 <= N
      PROVE  \E it \in [SUBSET (1 .. k + 1) -> A] : Iter(it, 1 .. k + 1)
  <2>0. k <= N
    BY <1>0, <1>2
  <2>1. PICK f \in [SUBSET (1 .. k) -> A] : Iter(f, 1 .. k)
    BY <1>2, <2>0
  <2> DEFINE g == [u \in SUBSET (1 .. k + 1) |->
                     IF k + 1 \in u THEN F[<<f[u \ {k + 1}], s[k + 1]>>] ELSE f[u]]
  <2>2. ASSUME NEW u \in SUBSET (1 .. k + 1)
        PROVE  /\ g[u] \in A
               /\ g[u] = IF u = {} THEN base
                         ELSE F[<<g[u \ {Max(u)}], s[Max(u)]>>]
    <3>1. CASE k + 1 \in u
      <4>1. Max(u) = k + 1
        <5>1. Max(u) \in u /\ \A y \in u : Max(u) >= y
          <6>1. k + 1 \in Nat /\ u # {} /\ u \subseteq 1 .. k + 1
            BY <3>1
          <6> HIDE DEF g
          <6> QED
            BY <6>1, Extremes
        <5>2. \A y \in u : y \in 1 .. k + 1
          OBVIOUS
        <5>3. \A y \in 1 .. k + 1 : y >= k + 1 => y = k + 1
          OBVIOUS
        <5> HIDE DEF g
        <5> QED
          BY <3>1, <5>1, <5>2, <5>3
      <4>2. u \ {k + 1} \in SUBSET (1 .. k)
        OBVIOUS
      <4>3. g[u \ {k + 1}] = f[u \ {k + 1}] /\ f[u \ {k + 1}] \in A
        BY <4>2
      <4>4. s[k + 1] \in S
        <5>1. k + 1 \in 1 .. N
          BY <1>0, <1>2
        <5> HIDE DEF g, N
        <5> QED
          BY <1>0, <5>1
      <4> QED
        BY <3>1, <4>1, <4>3, <4>4
    <3>2. CASE k + 1 \notin u
      <4>1. u \in SUBSET (1 .. k)
        BY <3>2
      <4>2. u # {} => Max(u) \in u
        <5> HIDE DEF g
        <5> QED
          BY <4>1, Extremes
      <4>3. f[u] = IF u = {} THEN base ELSE F[<<f[u \ {Max(u)}], s[Max(u)]>>]
        BY <4>1, <2>1
      <4>4. g[u] = f[u] /\ g[u \ {Max(u)}] = f[u \ {Max(u)}] /\ f[u] \in A
        BY <3>2, <4>1
      <4> QED
        BY <4>3, <4>4
    <3> QED
      BY <3>1, <3>2
  <2>3. g \in [SUBSET (1 .. k + 1) -> A] /\ Iter(g, 1 .. k + 1)
    <3>1. \A u \in SUBSET (1 .. k + 1) :
            /\ g[u] \in A
            /\ g[u] = IF u = {} THEN base ELSE F[<<g[u \ {Max(u)}], s[Max(u)]>>]
      BY <2>2
    <3>2. g = [u \in SUBSET (1 .. k + 1) |-> g[u]]
      OBVIOUS
    <3> HIDE DEF g
    <3> QED
      BY <3>1, <3>2
  <2> HIDE DEF g, Iter
  <2> QED
    BY <2>3
<1> HIDE DEF Iter
<1>3. ASSUME NEW k \in Nat, k \in T
      PROVE  k + 1 \in T
  <2>1. k + 1 \in Nat
    OBVIOUS
  <2> QED
    BY <1>2, <1>3, <2>1
<1> HIDE DEF T
<1>4. N \in T
  BY <1>0, <1>1, <1>3, Induction
<1> HIDE DEF N
<1>a. N <= N
  BY <1>0
<1>5. PICK it \in [SUBSET (1 .. N) -> A] : Iter(it, 1 .. N)
  BY <1>a, <1>4 DEF T
<1> QED
  BY <1>0, <1>5 DEF Iter, Iterates

\* Along the sequence, a solution is a step for each element.
LEMMA Folded ==
    ASSUME NEW S, NEW s \in Seq(S), NEW it, NEW n \in 1 .. Len(s)
    PROVE  /\ (1 .. n) \in SUBSET DOMAIN s /\ (1 .. n - 1) \in SUBSET DOMAIN s
           /\ 1 .. n # {} /\ (1 .. n) \ {n} = 1 .. n - 1 /\ Max(1 .. n) = n
<1>1. DOMAIN s = 1 .. Len(s) /\ Len(s) \in Nat
  OBVIOUS
<1> DEFINE N == Len(s)
<1> HIDE DEF N
<1>2. N \in Nat /\ n \in 1 .. N /\ DOMAIN s = 1 .. N
  BY <1>1 DEF N
<1>3. n \in Nat /\ n >= 1 /\ n <= N
  BY <1>2
<1>4. \A y \in 1 .. n : y \in 1 .. N
  BY <1>2, <1>3
<1>5. \A y \in 1 .. n - 1 : y \in 1 .. N
  BY <1>2, <1>3
<1> QED
  BY <1>2, <1>3, <1>4, <1>5, LastIndex

\* The same, value by value.
Solves(it, A, S, F, base, s) ==
    /\ it \in [SUBSET DOMAIN s -> A]
    /\ \A u \in SUBSET DOMAIN s :
         IF u = {} THEN it[u] = base
         ELSE /\ s[Max(u)] \in S /\ it[u \ {Max(u)}] \in A
              /\ it[u] = F[<<it[u \ {Max(u)}], s[Max(u)]>>]

\* What a fold takes last is an element of its sequence.
LEMMA FoldElement ==
    ASSUME NEW S, NEW s \in Seq(S), NEW u \in SUBSET DOMAIN s, u # {}
    PROVE  s[Max(u)] \in S
<1>1. DOMAIN s = 1 .. Len(s) /\ Len(s) \in Nat /\ \A n \in DOMAIN s : s[n] \in S
  OBVIOUS
<1>2. Max(u) \in u
  BY <1>1, Extremes
<1> QED
  BY <1>1, <1>2

\* The equations of a fold over a sequence have a solution.
LEMMA FoldSolution ==
    ASSUME NEW A, NEW S, NEW F \in [A \X S -> A], NEW base \in A, NEW s \in Seq(S)
    PROVE  \E it : Solves(it, A, S, F, base, s)
<1>1. PICK it \in [SUBSET DOMAIN s -> A] : Iterates(it, F, base, s)
  BY Foldable
<1>2. \A u \in SUBSET DOMAIN s : u # {} => s[Max(u)] \in S
  BY FoldElement
<1> QED
  BY <1>1, <1>2 DEF Iterates, Solves

\* A solution that may be no function into A steps through A all the same.
Follows(it, A, F, base, s) ==
    /\ it[{}] = base
    /\ \A u \in SUBSET DOMAIN s : u # {} /\ it[u \ {Max(u)}] \in A =>
         it[u] = F[<<it[u \ {Max(u)}], s[Max(u)]>>]

\* The values a fold goes through, from the base over each element.
Runs(acc, A, S, F, base, s, result) ==
    /\ acc[0] = base /\ acc[Len(s)] = result
    /\ \A n \in 0 .. Len(s) : acc[n] \in A
    /\ \A n \in 1 .. Len(s) :
         s[n] \in S /\ acc[n - 1] \in A /\ acc[n] = F[<<acc[n - 1], s[n]>>]

\* A fold goes through the values that its function gives, one element
\* after the other.
LEMMA FoldRuns ==
    ASSUME NEW A, NEW S, NEW F \in [A \X S -> A], NEW base \in A, NEW s \in Seq(S),
           NEW it, Follows(it, A, F, base, s)
    PROVE  \E acc : Runs(acc, A, S, F, base, s, it[DOMAIN s])
<1> DEFINE acc == [n \in 0 .. Len(s) |-> it[1 .. n]]
           N == Len(s)
<1>1. DOMAIN s = 1 .. N /\ N \in Nat /\ 1 .. 0 = {}
      /\ \A n \in 1 .. N : s[n] \in S
  OBVIOUS
<1>2. acc[0] = base /\ acc[N] = it[DOMAIN s]
  BY <1>1 DEF Follows
<1>3. ASSUME NEW n \in 1 .. N, acc[n - 1] \in A
      PROVE  acc[n] = F[<<acc[n - 1], s[n]>>] /\ acc[n] \in A
  <2>1. acc[n - 1] = it[1 .. n - 1] /\ acc[n] = it[1 .. n]
    BY <1>1
  <2> HIDE DEF acc
  <2>2. /\ (1 .. n) \in SUBSET DOMAIN s /\ 1 .. n # {}
        /\ (1 .. n) \ {n} = 1 .. n - 1 /\ Max(1 .. n) = n
    BY Folded
  <2>3. it[1 .. n] = F[<<it[1 .. n - 1], s[n]>>]
    BY <1>3, <2>1, <2>2 DEF Follows
  <2> QED
    BY <1>1, <1>3, <2>1, <2>3
<1> HIDE DEF acc, N
<1>4. \A n \in 0 .. N : acc[n] \in A
  <2> DEFINE T == {n \in Nat : n <= N => acc[n] \in A}
  <2>1. 0 \in T
    BY <1>2
  <2>2. ASSUME NEW n \in Nat, n \in T
        PROVE  n + 1 \in T
    <3>1. ASSUME n + 1 <= N
          PROVE  acc[n + 1] \in A
      <4>1. n + 1 \in 1 .. N /\ (n + 1) - 1 = n /\ n <= N
        BY <1>1, <3>1
      <4>2. acc[n] \in A
        BY <2>2, <4>1
      <4> QED
        BY <4>1, <4>2, <1>3
    <3> QED
      BY <3>1
  <2> HIDE DEF T
  <2>3. \A n \in Nat : n \in T
    BY <2>1, <2>2, Induction
  <2> QED
    BY <2>3, <1>1 DEF T
<1>5. \A n \in 1 .. N : n - 1 \in 0 .. N
  BY <1>1
<1>6. Runs(acc, A, S, F, base, s, it[DOMAIN s])
  BY <1>1, <1>2, <1>3, <1>4, <1>5 DEF Runs, N
<1> QED
  BY <1>6

-----------------------------------------------------------------------------
(* Sequences. *)

\* The elements of a sequence.
LEMMA Elements ==
    ASSUME NEW S, NEW s \in Seq(S)
    PROVE  /\ DOMAIN s = 1 .. Len(s) /\ Len(s) \in Nat
           /\ Range(s) \subseteq S /\ \A n \in DOMAIN s : s[n] \in S
           /\ s \in Seq(Range(s))
<1>1. DOMAIN s = 1 .. Len(s) /\ Len(s) \in Nat /\ \A n \in DOMAIN s : s[n] \in S
  OBVIOUS
<1>2. s \in [1 .. Len(s) -> Range(s)]
  BY <1>1 DEF Range
<1>3. s \in Seq(Range(s))
  BY <1>1, <1>2
<1> QED
  BY <1>1, <1>3 DEF Range

\* The elements of an appended sequence.
LEMMA Appended ==
    ASSUME NEW S, NEW s \in Seq(S), NEW x \in S
    PROVE  Range(Append(s, x)) = Range(s) \cup {x}
<1>1. /\ DOMAIN Append(s, x) = 1 .. Len(s) + 1 /\ DOMAIN s = 1 .. Len(s)
      /\ Len(s) \in Nat /\ Append(s, x)[Len(s) + 1] = x
      /\ \A n \in 1 .. Len(s) : Append(s, x)[n] = s[n]
  OBVIOUS
<1> DEFINE t == Append(s, x)
           N == Len(s)
<1> HIDE DEF t, N
<1>2. /\ DOMAIN t = 1 .. N + 1 /\ DOMAIN s = 1 .. N /\ N \in Nat /\ t[N + 1] = x
      /\ \A n \in 1 .. N : t[n] = s[n]
  BY <1>1 DEF t, N
<1>3. 1 .. N + 1 = (1 .. N) \cup {N + 1}
  BY <1>2
<1>4. Range(t) = Range(s) \cup {x}
  BY <1>2, <1>3 DEF Range
<1> QED
  BY <1>4 DEF t

\* The elements of a concatenation, and when they are distinct.
LEMMA Concatenated ==
    ASSUME NEW S, NEW s \in Seq(S), NEW t \in Seq(S)
    PROVE  /\ s \o t \in Seq(S) /\ Range(s \o t) = Range(s) \cup Range(t)
           /\ IsInjective(s) /\ IsInjective(t) /\ Range(s) \cap Range(t) = {}
                => IsInjective(s \o t)
<1> DEFINE c == s \o t
           M == Len(s)
           N == Len(t)
<1>1. /\ c \in Seq(S) /\ Len(c) = M + N /\ DOMAIN c = 1 .. Len(c)
      /\ \A i \in 1 .. M + N : c[i] = IF i <= M THEN s[i] ELSE t[i - M]
      /\ DOMAIN s = 1 .. M /\ DOMAIN t = 1 .. N /\ M \in Nat /\ N \in Nat
  BY ConcatProperties
<1> HIDE DEF c, M, N
<1>2. \A i \in DOMAIN c : (i \in DOMAIN s /\ c[i] = s[i])
                         \/ (i - M \in DOMAIN t /\ c[i] = t[i - M])
  BY <1>1
<1>3. \A i \in DOMAIN s : i \in DOMAIN c /\ c[i] = s[i]
  BY <1>1
<1>4. \A i \in DOMAIN t : i + M \in DOMAIN c /\ c[i + M] = t[i]
  <2> SUFFICES ASSUME NEW i \in DOMAIN t
               PROVE  i + M \in DOMAIN c /\ c[i + M] = t[i]
    OBVIOUS
  <2>1. i + M \in 1 .. M + N /\ ~(i + M <= M) /\ (i + M) - M = i
    BY <1>1
  <2> QED
    BY <1>1, <2>1
<1>5. Range(c) = Range(s) \cup Range(t)
  <2>1. Range(c) \subseteq Range(s) \cup Range(t)
    BY <1>2 DEF Range
  <2>2. Range(s) \subseteq Range(c)
    BY <1>3 DEF Range
  <2>3. Range(t) \subseteq Range(c)
    BY <1>4 DEF Range
  <2> QED
    BY <2>1, <2>2, <2>3
<1>6. ASSUME IsInjective(s), IsInjective(t), Range(s) \cap Range(t) = {}
      PROVE  IsInjective(c)
  <2> SUFFICES ASSUME NEW i \in DOMAIN c, NEW j \in DOMAIN c, c[i] = c[j]
               PROVE  i = j
    BY DEF IsInjective
  <2>1. CASE i \in DOMAIN s /\ c[i] = s[i] /\ j \in DOMAIN s /\ c[j] = s[j]
    BY <2>1, <1>6 DEF IsInjective
  <2>2. CASE /\ i - M \in DOMAIN t /\ c[i] = t[i - M]
             /\ j - M \in DOMAIN t /\ c[j] = t[j - M]
    <3>1. i - M = j - M
      BY <2>2, <1>6 DEF IsInjective
    <3> QED
      BY <3>1, <1>1
  <2>3. \A k \in DOMAIN s, l \in DOMAIN t : s[k] # t[l]
    BY <1>6 DEF Range
  <2> QED
    BY <1>2, <2>1, <2>2, <2>3
<1> QED
  BY <1>1, <1>5, <1>6 DEF c

\* A finite set is the range of a sequence without repetitions.
LEMMA Listed ==
    ASSUME NEW S, IsFiniteSet(S)
    PROVE  /\ SetToSeq(S) \in Seq(S) /\ Range(SetToSeq(S)) = S
           /\ IsInjective(SetToSeq(S)) /\ Len(SetToSeq(S)) = Cardinality(S)
<1> DEFINE n == Cardinality(S)
<1>1. n \in Nat /\ ExistsBijection(1 .. n, S)
  BY FS_CardinalityType, FS_CountingElements
<1>2. PICK f \in Bijection(1 .. n, S) : TRUE
  BY <1>1 DEF ExistsBijection
<1>3. f \in [1 .. n -> S] /\ IsInjective(f)
  BY <1>2 DEF Bijection, Injection, Surjection, IsInjective
<1> DEFINE g == SetToSeq(S)
<1>4. g \in [1 .. n -> S] /\ IsInjective(g)
  BY <1>3 DEF SetToSeq
<1> HIDE DEF g, n
<1>5. g \in Seq(S) /\ Len(g) = n
  BY <1>1, <1>4
<1>6. Range(g) = S
  <2>1. g \in Injection(1 .. n, S)
    BY <1>4 DEF Injection, IsInjective
  <2>2. Cardinality(1 .. n) = n /\ IsFiniteSet(1 .. n)
    BY <1>1, FS_Interval
  <2>3. g \in Surjection(1 .. n, S)
    BY <2>1, <2>2, FS_Injection DEF n
  <2> QED
    BY <2>3, <1>4 DEF Surjection, Range
<1> QED
  BY <1>4, <1>5, <1>6 DEF g, n

\* Flattening concatenates the parts from the left.
LEMMA Flattens ==
    ASSUME NEW S, NEW ss \in Seq(Seq(S))
    PROVE  \E fl : /\ fl[0] = <<>> /\ fl[Len(ss)] = FlattenSeq(ss)
                   /\ \A n \in 0 .. Len(ss) : fl[n] \in Seq(S)
                   /\ \A n \in 1 .. Len(ss) : fl[n] = fl[n - 1] \o ss[n]
<1> DEFINE N == Len(ss)
           Parts(f, k) == f[0] = <<>> /\ \A n \in 1 .. k : f[n] = f[n - 1] \o ss[n]
           Solution(g) == g = [i \in 1 .. N |-> IF i = 1 THEN ss[i] ELSE g[i - 1] \o ss[i]]
           T == {k \in Nat : k <= N => \E f \in [0 .. k -> Seq(S)] : Parts(f, k)}
<1>0. N \in Nat /\ \A n \in 1 .. N : ss[n] \in Seq(S)
  OBVIOUS
<1> HIDE DEF N
<1>1. 0 \in T
  <2> DEFINE f == [n \in 0 .. 0 |-> <<>>]
  <2>1. f \in [0 .. 0 -> Seq(S)] /\ Parts(f, 0)
    OBVIOUS
  <2> QED
    BY <2>1
<1>2. ASSUME NEW k \in Nat, k \in T, k + 1 <= N
      PROVE  \E f \in [0 .. k + 1 -> Seq(S)] : Parts(f, k + 1)
  <2>1. k <= N /\ k + 1 \in 1 .. N
    BY <1>0, <1>2
  <2>2. PICK f \in [0 .. k -> Seq(S)] : Parts(f, k)
    BY <1>2, <2>1
  <2> DEFINE e == f[k] \o ss[k + 1]
             g == [n \in 0 .. k + 1 |-> IF n = k + 1 THEN e ELSE f[n]]
  <2>3. e \in Seq(S)
    <3>1. f[k] \in Seq(S) /\ ss[k + 1] \in Seq(S)
      BY <1>0, <2>1, <2>2
    <3> QED
      BY <3>1, ConcatProperties
  <2> HIDE DEF e
  <2>4. g \in [0 .. k + 1 -> Seq(S)]
    <3>1. \A n \in 0 .. k + 1 : n # k + 1 => n \in 0 .. k
      OBVIOUS
    <3> QED
      BY <2>2, <2>3, <3>1
  <2>5. Parts(g, k + 1)
    <3>1. g[0] = <<>>
      BY <2>2
    <3>2. ASSUME NEW n \in 1 .. k + 1
          PROVE  g[n] = g[n - 1] \o ss[n]
      <4>1. n - 1 \in 0 .. k /\ g[n - 1] = f[n - 1]
        OBVIOUS
      <4>2. CASE n = k + 1
        <5>1. g[n] = e /\ n - 1 = k
          BY <4>2
        <5>2. e = f[n - 1] \o ss[n]
          BY <4>2, <5>1 DEF e
        <5> HIDE DEF g
        <5> QED
          BY <4>1, <5>1, <5>2
      <4>3. CASE n # k + 1
        <5>1. n \in 1 .. k /\ g[n] = f[n]
          BY <4>3
        <5> QED
          BY <4>1, <5>1, <2>2
      <4> QED
        BY <4>2, <4>3
    <3> HIDE DEF g
    <3> QED
      BY <3>1, <3>2
  <2> HIDE DEF g, Parts
  <2> QED
    BY <2>4, <2>5
<1> HIDE DEF Parts
<1>3. ASSUME NEW k \in Nat, k \in T
      PROVE  k + 1 \in T
  <2>1. k + 1 \in Nat
    OBVIOUS
  <2> QED
    BY <1>2, <1>3, <2>1
<1> HIDE DEF T
<1>4. N \in T
  BY <1>0, <1>1, <1>3, Induction
<1>a. N <= N
  BY <1>0
<1>5. PICK fl \in [0 .. N -> Seq(S)] : Parts(fl, N)
  BY <1>4, <1>a DEF T
<1>6. \A n \in 0 .. N : fl[n] \in Seq(S)
  BY <1>5
<1>7. fl[0] = <<>> /\ \A n \in 1 .. N : fl[n] = fl[n - 1] \o ss[n]
  BY <1>5 DEF Parts
<1>8. fl[N] = FlattenSeq(ss)
  <2>1. CASE N = 0
    BY <1>7, <2>1 DEF FlattenSeq, N
  <2>2. CASE N # 0
    <3> DEFINE flatten == CHOOSE g : Solution(g)
               h == [i \in 1 .. N |-> fl[i]]
    <3>1. Solution(h)
      <4>1. ASSUME NEW i \in 1 .. N
            PROVE  h[i] = IF i = 1 THEN ss[i] ELSE h[i - 1] \o ss[i]
        <5>1. CASE i = 1
          <6>0. 1 \in 1 .. N /\ 1 - 1 = 0
            BY <5>1
          <6>1. fl[1] = fl[0] \o ss[1] /\ ss[1] \in Seq(S)
            BY <1>0, <1>7, <6>0
          <6>2. <<>> \o ss[1] = ss[1]
            BY <6>1, ConcatEmptySeq
          <6> QED
            BY <5>1, <6>1, <6>2, <1>7
        <5>2. CASE i # 1
          <6>1. i - 1 \in 1 .. N
            BY <1>0, <5>2
          <6> QED
            BY <5>2, <6>1, <1>7
        <5> QED
          BY <5>1, <5>2
      <4> QED
        BY <4>1
    <3> HIDE DEF h
    <3>2. Solution(flatten)
      BY <3>1
    <3>3. FlattenSeq(ss) = flatten[N]
      BY <2>2 DEF FlattenSeq, N
    <3> HIDE DEF flatten
    <3> DEFINE U == {n \in Nat : n + 1 <= N => flatten[n + 1] = fl[n + 1]}
    <3>4. \A i \in 1 .. N :
            flatten[i] = IF i = 1 THEN ss[i] ELSE flatten[i - 1] \o ss[i]
      BY <3>2
    <3>5. 0 \in U
      <4>1. 1 \in 1 .. N
        BY <1>0, <2>2
      <4>a. 1 - 1 = 0
        OBVIOUS
      <4>2. fl[1] = fl[0] \o ss[1] /\ ss[1] \in Seq(S)
        BY <1>0, <1>7, <4>1, <4>a
      <4>3. <<>> \o ss[1] = ss[1]
        BY <4>2, ConcatEmptySeq
      <4>4. flatten[1] = fl[1]
        BY <3>4, <4>1, <4>2, <4>3, <1>7
      <4> QED
        BY <4>4
    <3>6. ASSUME NEW n \in Nat, n \in U
          PROVE  n + 1 \in U
      <4>1. ASSUME (n + 1) + 1 <= N
            PROVE  flatten[(n + 1) + 1] = fl[(n + 1) + 1]
        <5> DEFINE m == (n + 1) + 1
        <5>1. m \in 1 .. N /\ m # 1 /\ m - 1 = n + 1 /\ n + 1 <= N
          BY <1>0, <4>1
        <5>2. flatten[n + 1] = fl[n + 1]
          BY <3>6, <5>1
        <5> HIDE DEF m
        <5>3. flatten[m] = flatten[m - 1] \o ss[m] /\ fl[m] = fl[m - 1] \o ss[m]
          BY <3>4, <5>1, <1>7
        <5>4. flatten[m - 1] = fl[m - 1]
          BY <5>1, <5>2
        <5>5. flatten[m] = fl[m]
          BY <5>3, <5>4
        <5> QED
          BY <5>5 DEF m
      <4> QED
        BY <4>1
    <3> HIDE DEF U
    <3>7. N - 1 \in U
      <4>1. N - 1 \in Nat
        BY <1>0, <2>2
      <4> QED
        BY <4>1, <3>5, <3>6, Induction
    <3>8. (N - 1) + 1 = N /\ N <= N
      BY <1>0
    <3>9. flatten[N] = fl[N]
      BY <3>7, <3>8 DEF U
    <3> QED
      BY <3>3, <3>9
  <2> QED
    BY <2>1, <2>2
<1> QED
  BY <1>6, <1>7, <1>8 DEF N


\* Flattening the first parts, one more at a time.
LEMMA FlattenSteps ==
    ASSUME NEW S, NEW ss \in Seq(Seq(S))
    PROVE  /\ FlattenSeq(SubSeq(ss, 1, 0)) = <<>> /\ SubSeq(ss, 1, Len(ss)) = ss
           /\ \A n \in 0 .. Len(ss) : FlattenSeq(SubSeq(ss, 1, n)) \in Seq(S)
           /\ \A n \in 1 .. Len(ss) :
                FlattenSeq(SubSeq(ss, 1, n)) = FlattenSeq(SubSeq(ss, 1, n - 1)) \o ss[n]
<1> DEFINE N == Len(ss)
           Parts(f, s) == /\ f[0] = <<>> /\ f[Len(s)] = FlattenSeq(s)
                          /\ \A n \in 0 .. Len(s) : f[n] \in Seq(S)
                          /\ \A n \in 1 .. Len(s) : f[n] = f[n - 1] \o s[n]
<1>0. N \in Nat /\ DOMAIN ss = 1 .. N
  OBVIOUS
<1>1. PICK fl : Parts(fl, ss)
  BY Flattens
<1>2. ASSUME NEW k \in 0 .. N
      PROVE  FlattenSeq(SubSeq(ss, 1, k)) = fl[k]
  <2> DEFINE t == SubSeq(ss, 1, k)
  <2>1. t \in Seq(Seq(S)) /\ Len(t) = k /\ \A n \in 1 .. k : t[n] = ss[n]
    OBVIOUS
  <2> HIDE DEF t
  <2>2. PICK g : Parts(g, t)
    BY <2>1, Flattens
  <2> DEFINE T == {n \in Nat : n <= k => g[n] = fl[n]}
  <2>3. 0 \in T
    BY <1>1, <2>2
  <2>4. ASSUME NEW n \in Nat, n \in T
        PROVE  n + 1 \in T
    <3>1. ASSUME n + 1 <= k
          PROVE  g[n + 1] = fl[n + 1]
      <4>1. n + 1 \in 1 .. k /\ n + 1 \in 1 .. N /\ (n + 1) - 1 = n /\ n <= k
        BY <1>0, <3>1
      <4>2. g[n] = fl[n]
        BY <2>4, <4>1
      <4>3. g[n + 1] = g[n] \o t[n + 1]
        BY <2>1, <2>2, <4>1
      <4>4. fl[n + 1] = fl[n] \o ss[n + 1]
        BY <1>1, <4>1
      <4> QED
        BY <2>1, <4>1, <4>2, <4>3, <4>4
    <3> QED
      BY <3>1
  <2> HIDE DEF T
  <2>a. k \in Nat /\ k <= k
    BY <1>0
  <2>5. k \in T
    BY <2>a, <2>3, <2>4, Induction
  <2>6. g[k] = fl[k]
    BY <2>5, <2>a DEF T
  <2> QED
    BY <2>1, <2>2, <2>6 DEF t
<1>3. SubSeq(ss, 1, N) = ss
  <2> DEFINE t == SubSeq(ss, 1, N)
  <2>1. /\ t \in Seq(Seq(S)) /\ Len(t) = N /\ \A n \in 1 .. N : t[n] = ss[n]
    BY <1>0
  <2> HIDE DEF t
  <2>2. t = ss
    BY <1>0, <2>1
  <2> QED
    BY <2>2 DEF t
<1>4. 0 \in 0 .. N /\ \A n \in 1 .. N : n \in 0 .. N /\ n - 1 \in 0 .. N
  BY <1>0
<1> HIDE DEF N
<1>5. \A n \in 1 .. N : FlattenSeq(SubSeq(ss, 1, n)) = FlattenSeq(SubSeq(ss, 1, n - 1)) \o ss[n]
  BY <1>1, <1>2, <1>4 DEF N
<1>6. \A n \in 0 .. N : FlattenSeq(SubSeq(ss, 1, n)) \in Seq(S)
  BY <1>1, <1>2 DEF N
<1>7. FlattenSeq(SubSeq(ss, 1, 0)) = <<>>
  BY <1>1, <1>2, <1>4
<1> QED
  BY <1>3, <1>5, <1>6, <1>7 DEF N

\* Where the parts are in the whole.
Offset(ss, o) == Len(FlattenSeq(SubSeq(ss, 1, o - 1)))

\* Each element of each part has a place of its own, and there is no other.
Placed(ss) ==
    /\ \A o \in DOMAIN ss : Offset(ss, o) \in Nat
    /\ \A o \in DOMAIN ss : \A k \in DOMAIN ss[o] :
         Offset(ss, o) + k \in DOMAIN FlattenSeq(ss)
         /\ FlattenSeq(ss)[Offset(ss, o) + k] = ss[o][k]
    /\ \A j \in DOMAIN FlattenSeq(ss) : \E o \in DOMAIN ss : \E k \in DOMAIN ss[o] :
         j = Offset(ss, o) + k

\* A flattened sequence has each element of each part in its place.
LEMMA Flattened ==
    ASSUME NEW S, NEW ss \in Seq(Seq(S))
    PROVE  FlattenSeq(ss) \in Seq(S) /\ Placed(ss)
<1> DEFINE N == Len(ss)
           P(n) == FlattenSeq(SubSeq(ss, 1, n))
           Put(n) == /\ \A o \in 1 .. n : \A k \in DOMAIN ss[o] :
                          /\ Len(P(o - 1)) + k \in DOMAIN P(n)
                          /\ P(n)[Len(P(o - 1)) + k] = ss[o][k]
                     /\ \A j \in DOMAIN P(n) : \E o \in 1 .. n : \E k \in DOMAIN ss[o] :
                          j = Len(P(o - 1)) + k
           T == {n \in Nat : n <= N => Put(n)}
<1>0. N \in Nat /\ DOMAIN ss = 1 .. N /\ \A n \in 1 .. N : ss[n] \in Seq(S)
  OBVIOUS
<1>1. /\ P(0) = <<>> /\ P(N) = FlattenSeq(ss)
      /\ \A n \in 0 .. N : P(n) \in Seq(S)
      /\ \A n \in 1 .. N : P(n) = P(n - 1) \o ss[n]
  BY FlattenSteps
<1> HIDE DEF P, N
<1>2. 0 \in T
  <2>1. DOMAIN P(0) = {} /\ 1 .. 0 = {}
    BY <1>1
  <2> QED
    BY <2>1
<1>3. ASSUME NEW n \in Nat, n + 1 <= N, Put(n)
      PROVE  Put(n + 1)
  <2> DEFINE m == n + 1
             s == P(n)
             t == ss[m]
  <2>0. n \in 0 .. N /\ m \in 1 .. N /\ m - 1 = n /\ m \in Nat
    BY <1>0, <1>3
  <2>1. s \in Seq(S) /\ t \in Seq(S) /\ P(m) = s \o t
    BY <1>0, <1>1, <2>0
  <2>2. /\ DOMAIN P(m) = 1 .. Len(s) + Len(t) /\ Len(s) \in Nat /\ Len(t) \in Nat
        /\ DOMAIN s = 1 .. Len(s) /\ DOMAIN t = 1 .. Len(t)
        /\ \A i \in 1 .. Len(s) + Len(t) :
             P(m)[i] = IF i <= Len(s) THEN s[i] ELSE t[i - Len(s)]
    <3> HIDE DEF m, s, t
    <3> QED
      BY <2>1, ConcatProperties
  <2>3. \A o \in 1 .. m : o \in 1 .. n \/ o = m
    BY <2>0
  <2>4. \A o \in 1 .. n : o \in 1 .. m
    BY <2>0
  <2>5. Put(n)
    BY <1>3
  <2>6. ASSUME NEW o \in 1 .. m, NEW k \in DOMAIN ss[o]
        PROVE  Len(P(o - 1)) + k \in DOMAIN P(m) /\ P(m)[Len(P(o - 1)) + k] = ss[o][k]
    <3>1. CASE o \in 1 .. n
      <4>1. Len(P(o - 1)) + k \in DOMAIN s /\ s[Len(P(o - 1)) + k] = ss[o][k]
        BY <3>1, <2>5
      <4> HIDE DEF s, t, m, Put
      <4> QED
        BY <4>1, <2>2
    <3>2. CASE o = m
      <4>1. Len(P(o - 1)) = Len(s) /\ k \in DOMAIN t /\ ss[o] = t
        BY <3>2, <2>0
      <4> HIDE DEF s, t, m, Put
      <4>2. Len(s) + k \in 1 .. Len(s) + Len(t) /\ ~(Len(s) + k <= Len(s))
            /\ (Len(s) + k) - Len(s) = k
        BY <4>1, <2>2
      <4> QED
        BY <4>1, <4>2, <2>2
    <3> QED
      BY <3>1, <3>2, <2>3
  <2>7. ASSUME NEW j \in DOMAIN P(m)
        PROVE  \E o \in 1 .. m : \E k \in DOMAIN ss[o] : j = Len(P(o - 1)) + k
    <3>1. CASE j \in DOMAIN s
      BY <3>1, <2>5, <2>4
    <3>2. CASE j \notin DOMAIN s
      <4>1. j - Len(s) \in DOMAIN t /\ j = Len(s) + (j - Len(s))
        <5> HIDE DEF s, t, m, Put
        <5> QED
          BY <3>2, <2>2
      <4>2. Len(P(m - 1)) = Len(s) /\ m \in 1 .. m
        BY <2>0
      <4> QED
        BY <4>1, <4>2
    <3> QED
      BY <3>1, <3>2
  <2> QED
    BY <2>6, <2>7
<1> HIDE DEF Put
<1>4. ASSUME NEW n \in Nat, n \in T
      PROVE  n + 1 \in T
  <2>1. n + 1 <= N => n <= N
    BY <1>0
  <2> QED
    BY <1>3, <1>4, <2>1
<1> HIDE DEF T
<1>5. N \in T
  BY <1>0, <1>2, <1>4, Induction
<1>6. Put(N)
  <2>1. N <= N
    BY <1>0
  <2> QED
    BY <1>5, <2>1 DEF T
<1>7. \A o \in DOMAIN ss : Offset(ss, o) = Len(P(o - 1)) /\ P(o - 1) \in Seq(S)
  <2>1. \A o \in 1 .. N : o - 1 \in 0 .. N
    BY <1>0
  <2> QED
    BY <2>1, <1>0, <1>1 DEF Offset, P
<1>8. \A o \in DOMAIN ss : Len(P(o - 1)) \in Nat
  BY <1>7
<1>9. N \in 0 .. N
  BY <1>0
<1>a. FlattenSeq(ss) \in Seq(S)
  BY <1>1, <1>9
<1>b. ASSUME NEW o \in DOMAIN ss, NEW k \in DOMAIN ss[o]
      PROVE  /\ Offset(ss, o) + k \in DOMAIN FlattenSeq(ss)
             /\ FlattenSeq(ss)[Offset(ss, o) + k] = ss[o][k]
  <2>1. Len(P(o - 1)) + k \in DOMAIN P(N) /\ P(N)[Len(P(o - 1)) + k] = ss[o][k]
    BY <1>0, <1>6 DEF Put
  <2> QED
    BY <2>1, <1>1, <1>7
<1>c. ASSUME NEW j \in DOMAIN FlattenSeq(ss)
      PROVE  \E o \in DOMAIN ss : \E k \in DOMAIN ss[o] : j = Offset(ss, o) + k
  <2>1. PICK o \in 1 .. N : \E k \in DOMAIN ss[o] : j = Len(P(o - 1)) + k
    BY <1>1, <1>6 DEF Put
  <2>2. Offset(ss, o) = Len(P(o - 1)) /\ o \in DOMAIN ss
    BY <1>0, <1>7
  <2> QED
    BY <2>1, <2>2
<1> QED
  BY <1>7, <1>8, <1>a, <1>b, <1>c DEF Placed

-----------------------------------------------------------------------------
(* Sequences of whatever they consist of. *)

\* A function on the first numbers is a sequence.
LEMMA SequenceOf ==
    ASSUME NEW n \in Nat, NEW f, f = [i \in 1 .. n |-> f[i]]
    PROVE  /\ IsSequence(f) /\ Len(f) = n /\ DOMAIN f = 1 .. n
           /\ \A S : (\A i \in 1 .. n : f[i] \in S) => f \in Seq(S) /\ Range(f) \subseteq S
<1>1. DOMAIN f = 1 .. n /\ f \in [1 .. n -> Range(f)]
  BY DEF Range
<1>2. f \in Seq(Range(f)) /\ Len(f) = n
  BY <1>1
<1>3. ASSUME NEW S, \A i \in 1 .. n : f[i] \in S
      PROVE  f \in Seq(S) /\ Range(f) \subseteq S
  <2>1. f \in [1 .. n -> S]
    BY <1>3
  <2> QED
    BY <2>1 DEF Range
<1> QED
  BY <1>1, <1>2, <1>3 DEF IsSequence

\* A sequence has its elements in any set that has them all.
LEMMA Sequences ==
    ASSUME NEW s, IsSequence(s)
    PROVE  /\ DOMAIN s = 1 .. Len(s) /\ Len(s) \in Nat /\ s = [i \in 1 .. Len(s) |-> s[i]]
           /\ \A i \in DOMAIN s : s[i] \in Range(s)
           /\ \A S : Range(s) \subseteq S => s \in Seq(S)
<1>1. s \in Seq(Range(s))
  BY DEF IsSequence
<1>2. DOMAIN s = 1 .. Len(s) /\ Len(s) \in Nat /\ s = [i \in 1 .. Len(s) |-> s[i]]
      /\ \A i \in DOMAIN s : s[i] \in Range(s)
  BY <1>1
<1>3. ASSUME NEW S, Range(s) \subseteq S
      PROVE  s \in Seq(S)
  BY <1>1, <1>3
<1> QED
  BY <1>2, <1>3

\* The empty sequence.
LEMMA EmptySequence == IsSequence(<<>>) /\ Range(<<>>) = {} /\ IsInjective(<<>>)
<1>1. Range(<<>>) = {}
  BY DEF Range
<1> QED
  BY <1>1 DEF IsSequence, IsInjective

\* A sequence of one element.
LEMMA OneElement ==
    ASSUME NEW x
    PROVE  IsSequence(<<x>>) /\ Range(<<x>>) = {x} /\ IsInjective(<<x>>) /\ Len(<<x>>) = 1
<1>1. DOMAIN <<x>> = {1} /\ <<x>>[1] = x /\ Len(<<x>>) = 1
  OBVIOUS
<1>2. Range(<<x>>) = {x}
  BY <1>1 DEF Range
<1>3. <<x>> \in Seq({x})
  OBVIOUS
<1>4. IsInjective(<<x>>)
  BY <1>1 DEF IsInjective
<1> QED
  BY <1>1, <1>2, <1>3, <1>4 DEF IsSequence

\* A sequence with one element more.
LEMMA Longer ==
    ASSUME NEW s, IsSequence(s), NEW x
    PROVE  /\ IsSequence(Append(s, x)) /\ Range(Append(s, x)) = Range(s) \cup {x}
           /\ IsInjective(s) /\ x \notin Range(s) => IsInjective(Append(s, x))
           /\ Len(Append(s, x)) = Len(s) + 1
           /\ \A i \in DOMAIN s : i \in DOMAIN Append(s, x) /\ Append(s, x)[i] = s[i]
<1> DEFINE S == Range(s) \cup {x}
           t == Append(s, x)
<1>1. s \in Seq(S) /\ x \in S
  BY Sequences
<1>2. /\ t \in Seq(S) /\ Len(t) = Len(s) + 1 /\ DOMAIN t = 1 .. Len(s) + 1
      /\ DOMAIN s = 1 .. Len(s) /\ Len(s) \in Nat /\ t[Len(s) + 1] = x
      /\ \A i \in 1 .. Len(s) : t[i] = s[i]
  <2> HIDE DEF S
  <2> QED
    BY <1>1
<1>3. Range(t) = S
  <2> HIDE DEF S
  <2>1. Range(Append(s, x)) = Range(s) \cup {x}
    BY <1>1, Appended
  <2> QED
    BY <2>1 DEF S
<1> HIDE DEF t
<1>4. ASSUME IsInjective(s), x \notin Range(s)
      PROVE  IsInjective(t)
  <2>1. \A i \in 1 .. Len(s) + 1 : i \in 1 .. Len(s) \/ i = Len(s) + 1
    BY <1>2
  <2>2. \A i \in 1 .. Len(s) : s[i] # x
    BY <1>2, <1>4 DEF Range
  <2> QED
    BY <1>2, <1>4, <2>1, <2>2 DEF IsInjective
<1>5. \A i \in DOMAIN s : i \in DOMAIN t /\ t[i] = s[i]
  BY <1>2
<1> QED
  BY <1>2, <1>3, <1>4, <1>5 DEF t, IsSequence

\* One sequence after another.
LEMMA Joined ==
    ASSUME NEW s, NEW t, IsSequence(s), IsSequence(t)
    PROVE  /\ IsSequence(s \o t) /\ Range(s \o t) = Range(s) \cup Range(t)
           /\ IsInjective(s) /\ IsInjective(t) /\ Range(s) \cap Range(t) = {}
                => IsInjective(s \o t)
           /\ Len(s \o t) = Len(s) + Len(t)
           /\ \A i \in DOMAIN s : i \in DOMAIN (s \o t) /\ (s \o t)[i] = s[i]
           /\ \A i \in DOMAIN t : Len(s) + i \in DOMAIN (s \o t)
                                  /\ (s \o t)[Len(s) + i] = t[i]
           /\ \A j \in DOMAIN (s \o t) :
                j \in DOMAIN s \/ \E i \in DOMAIN t : j = Len(s) + i
<1> DEFINE S == Range(s) \cup Range(t)
           c == s \o t
<1>1. s \in Seq(S) /\ t \in Seq(S)
  BY Sequences
<1> HIDE DEF S
<1>2. /\ c \in Seq(S) /\ Range(c) = Range(s) \cup Range(t)
      /\ IsInjective(s) /\ IsInjective(t) /\ Range(s) \cap Range(t) = {}
           => IsInjective(c)
  BY <1>1, Concatenated
<1>3. /\ Len(c) = Len(s) + Len(t) /\ DOMAIN c = 1 .. Len(c)
      /\ \A i \in 1 .. Len(s) + Len(t) : c[i] = IF i <= Len(s) THEN s[i] ELSE t[i - Len(s)]
      /\ DOMAIN s = 1 .. Len(s) /\ DOMAIN t = 1 .. Len(t)
      /\ Len(s) \in Nat /\ Len(t) \in Nat
  BY <1>1, ConcatProperties
<1> HIDE DEF c
<1>4. \A i \in DOMAIN s : i \in DOMAIN c /\ c[i] = s[i]
  BY <1>3
<1>5. ASSUME NEW i \in DOMAIN t
      PROVE  Len(s) + i \in DOMAIN c /\ c[Len(s) + i] = t[i]
  <2>1. Len(s) + i \in 1 .. Len(s) + Len(t) /\ ~(Len(s) + i <= Len(s))
        /\ (Len(s) + i) - Len(s) = i
    BY <1>3
  <2> QED
    BY <1>3, <2>1
<1>6. ASSUME NEW j \in DOMAIN c, j \notin DOMAIN s
      PROVE  \E i \in DOMAIN t : j = Len(s) + i
  <2>1. j - Len(s) \in DOMAIN t /\ j = Len(s) + (j - Len(s))
    BY <1>3, <1>6
  <2> QED
    BY <2>1
<1> QED
  BY <1>2, <1>3, <1>4, <1>5, <1>6 DEF c, S, IsSequence

\* A sequence of sequences, and what it is flat.
Nested(ss) == IsSequence(ss) /\ \A o \in DOMAIN ss : IsSequence(ss[o])

\* What a flattened sequence is, for parts of any kind.
LEMMA Flat ==
    ASSUME NEW ss, Nested(ss)
    PROVE  /\ IsSequence(FlattenSeq(ss)) /\ Placed(ss)
           /\ Range(FlattenSeq(ss)) = UNION {Range(ss[o]) : o \in DOMAIN ss}
<1> DEFINE S == UNION {Range(ss[o]) : o \in DOMAIN ss}
           f == FlattenSeq(ss)
<1>1. \A o \in DOMAIN ss : Range(ss[o]) \subseteq S
  OBVIOUS
<1>2. \A o \in DOMAIN ss : ss[o] \in Seq(S)
  <2> HIDE DEF S
  <2> QED
    BY <1>1, Sequences DEF Nested
<1>3. ss \in Seq(Seq(S))
  <2>1. \A x \in Range(ss) : x \in Seq(S)
    BY <1>2 DEF Range
  <2> HIDE DEF S
  <2> QED
    BY <2>1, Sequences DEF Nested
<1>4. f \in Seq(S) /\ Placed(ss)
  <2> HIDE DEF S
  <2> QED
    BY <1>3, Flattened
<1>5. f \in Seq(Range(f)) /\ Range(f) \subseteq S
  <2> HIDE DEF S, f
  <2> QED
    BY <1>4, Elements
<1>6. \A o \in DOMAIN ss : \A k \in DOMAIN ss[o] : ss[o][k] \in Range(f)
  BY <1>4 DEF Placed, Range
<1>7. S \subseteq Range(f)
  <2> HIDE DEF f
  <2> QED
    BY <1>6 DEF Range
<1> QED
  BY <1>4, <1>5, <1>7 DEF IsSequence

\* Flat, parts without repetitions and without common elements are without
\* repetitions.
LEMMA FlatDistinct ==
    ASSUME NEW ss, Nested(ss),
           \A o \in DOMAIN ss : IsInjective(ss[o]),
           \A o, p \in DOMAIN ss : o # p => Range(ss[o]) \cap Range(ss[p]) = {}
    PROVE  IsInjective(FlattenSeq(ss))
<1> DEFINE f == FlattenSeq(ss)
<1>1. Placed(ss)
  BY Flat
<1> SUFFICES ASSUME NEW i \in DOMAIN f, NEW j \in DOMAIN f, f[i] = f[j]
             PROVE  i = j
  BY DEF IsInjective
<1>2. PICK o \in DOMAIN ss : \E k \in DOMAIN ss[o] : i = Offset(ss, o) + k
  BY <1>1 DEF Placed
<1>3. PICK k \in DOMAIN ss[o] : i = Offset(ss, o) + k
  BY <1>2
<1>4. PICK p \in DOMAIN ss : \E l \in DOMAIN ss[p] : j = Offset(ss, p) + l
  BY <1>1 DEF Placed
<1>5. PICK l \in DOMAIN ss[p] : j = Offset(ss, p) + l
  BY <1>4
<1>6. ss[o][k] = ss[p][l]
  BY <1>1, <1>3, <1>5 DEF Placed
<1>7. o = p
  BY <1>6 DEF Range
<1>8. k = l
  BY <1>6, <1>7 DEF IsInjective
<1> QED
  BY <1>3, <1>5, <1>7, <1>8

\* Parts of the same lengths have the same places.
LEMMA SameOffsets ==
    ASSUME NEW ss, NEW tt, Nested(ss), Nested(tt), Len(ss) = Len(tt),
           \A o \in DOMAIN ss : Len(ss[o]) = Len(tt[o])
    PROVE  \A o \in DOMAIN ss : Offset(ss, o) = Offset(tt, o)
<1> DEFINE N == Len(ss)
           P(u, n) == FlattenSeq(SubSeq(u, 1, n))
           T == {n \in Nat : n <= N => Len(P(ss, n)) = Len(P(tt, n))}
<1>0. N \in Nat /\ DOMAIN ss = 1 .. N /\ DOMAIN tt = 1 .. N
  BY Sequences DEF Nested
<1>1. ASSUME NEW u, Nested(u), Len(u) = N
      PROVE  /\ P(u, 0) = <<>>
             /\ \A n \in 1 .. N : Len(P(u, n)) = Len(P(u, n - 1)) + Len(u[n])
  <2> DEFINE S == UNION {Range(u[o]) : o \in DOMAIN u}
  <2>1. u \in Seq(Seq(S))
    <3>1. \A o \in DOMAIN u : Range(u[o]) \subseteq S
      OBVIOUS
    <3>2. \A o \in DOMAIN u : u[o] \in Seq(S)
      <4> HIDE DEF S
      <4> QED
        BY <3>1, <1>1, Sequences DEF Nested
    <3>3. \A x \in Range(u) : x \in Seq(S)
      BY <3>2 DEF Range
    <3> HIDE DEF S
    <3> QED
      BY <3>3, <1>1, Sequences DEF Nested
  <2> HIDE DEF S
  <2>2. /\ P(u, 0) = <<>> /\ \A n \in 0 .. N : P(u, n) \in Seq(S)
        /\ \A n \in 1 .. N : P(u, n) = P(u, n - 1) \o u[n]
    BY <2>1, <1>1, FlattenSteps
  <2>3. \A n \in 1 .. N : u[n] \in Seq(S) /\ n - 1 \in 0 .. N
    BY <2>1, <1>0, <1>1
  <2> HIDE DEF P, N
  <2>4. ASSUME NEW n \in 1 .. N
        PROVE  Len(P(u, n)) = Len(P(u, n - 1)) + Len(u[n])
    <3>1. P(u, n - 1) \in Seq(S) /\ u[n] \in Seq(S) /\ P(u, n) = P(u, n - 1) \o u[n]
      BY <2>2, <2>3
    <3> QED
      BY <3>1, ConcatProperties
  <2> QED
    BY <2>2, <2>4
<1>2. P(ss, 0) = <<>> /\ P(tt, 0) = <<>>
  BY <1>1
<1>3. \A n \in 1 .. N : /\ Len(P(ss, n)) = Len(P(ss, n - 1)) + Len(ss[n])
                        /\ Len(P(tt, n)) = Len(P(tt, n - 1)) + Len(tt[n])
  BY <1>1
<1> HIDE DEF P, N
<1>4. 0 \in T
  BY <1>2
<1>5. ASSUME NEW n \in Nat, n \in T
      PROVE  n + 1 \in T
  <2>1. ASSUME n + 1 <= N
        PROVE  Len(P(ss, n + 1)) = Len(P(tt, n + 1))
    <3>1. n + 1 \in 1 .. N /\ (n + 1) - 1 = n /\ n <= N
      BY <1>0, <2>1
    <3>2. Len(ss[n + 1]) = Len(tt[n + 1]) /\ Len(P(ss, n)) = Len(P(tt, n))
      BY <1>0, <1>5, <3>1
    <3>3. Len(P(ss, n + 1)) = Len(P(ss, n)) + Len(ss[n + 1])
          /\ Len(P(tt, n + 1)) = Len(P(tt, n)) + Len(tt[n + 1])
      BY <1>3, <3>1
    <3> QED
      BY <3>2, <3>3
  <2> QED
    BY <2>1
<1> HIDE DEF T
<1>6. \A n \in Nat : n \in T
  BY <1>4, <1>5, Induction
<1>7. \A o \in 1 .. N : Len(P(ss, o - 1)) = Len(P(tt, o - 1))
  <2>1. \A o \in 1 .. N : o - 1 \in Nat /\ o - 1 <= N
    BY <1>0
  <2> QED
    BY <2>1, <1>6 DEF T
<1> QED
  BY <1>0, <1>7 DEF Offset, P

-----------------------------------------------------------------------------
(* The items of one alert. *)

\* The image of a finite set is finite.
LEMMA FiniteImage ==
    ASSUME NEW S, IsFiniteSet(S), NEW f, NEW T, T = {f[x] : x \in S}
    PROVE  IsFiniteSet(T)
<1> DEFINE g == [x \in S |-> f[x]]
<1>1. g \in Surjection(S, T)
  BY DEF Surjection
<1> HIDE DEF g
<1> QED
  BY <1>1, FS_Surjection

\* The selections of a slice (domain/evidence.py) and the codes of an omission.
Selections == {"fixed_window", "enclosing_function"}
Codes == {"source_file_missing", "source_not_regular", "binary_source",
          "source_too_large", "unsupported_encoding", "coordinate_out_of_bounds",
          "source_digest_mismatch", "function_boundary_unresolved",
          "token_budget_exceeded", "resource_context_bound"}

\* Slices that the builder takes for one.
SameSlice(s, t) == SameLines(s, t) /\ s.selection = t.selection

\* What the registry takes for granted of an alert and its context.
Sliced(alert, context) ==
    /\ alert.resource \in BOOLEAN /\ IsSequence(alert.paths)
    /\ IsSequence(context.slices) /\ IsSequence(context.omitted)
    /\ IsInjective(context.omitted)
    /\ context.complete <=> context.omitted = <<>>
    /\ context.candidates = Candidates(context.slices)
    /\ \A s \in Range(context.slices) :
         /\ s.digest \in DOMAIN Documents /\ s.selection \in Selections
         /\ PathsOf(s) \subseteq DOMAIN alert.paths
    /\ \A i, j \in DOMAIN context.slices :
         SameSlice(context.slices[i], context.slices[j]) => i = j
    /\ \A o \in Range(context.omitted) :
         o.code \in Codes /\ o = Omission(o.code, o.path, o.detail)

\* A slice has finitely many resource lines.
LEMMA FiniteTraces ==
    ASSUME NEW a, NEW s, s.digest \in DOMAIN Documents
    PROVE  IsFiniteSet(TraceItems(a, s))
<1> DEFINE S == {u \in Documents[s.digest].traces : s.first <= u.line /\ u.line <= s.last}
           f == [t \in S |-> Item(a, t.type, <<s.path, t.line, t.line>>, SliceFile(a),
                                  <<s.selection, <<s.first, s.last>>>>)]
<1>1. IsFiniteSet(S)
  <2>1. IsFiniteSet(Documents[s.digest].traces)
    BY SliceContextAssumption DEF IsDocument
  <2>2. S \in SUBSET Documents[s.digest].traces
    OBVIOUS
  <2> HIDE DEF S
  <2> QED
    BY <2>1, <2>2, FS_Subset
<1>2. TraceItems(a, s) = {f[t] : t \in S}
  BY DEF TraceItems
<1> HIDE DEF S, f
<1> QED
  BY <1>1, <1>2, FiniteImage

\* Slices show finitely many guards and sanitizers.
LEMMA FiniteCandidates ==
    ASSUME NEW slices, IsSequence(slices),
           \A s \in Range(slices) : s.digest \in DOMAIN Documents
    PROVE  IsFiniteSet(Candidates(slices))
<1> DEFINE M(i) == {n \in Documents[slices[i].digest].marks :
                      slices[i].first <= n.line /\ n.line <= slices[i].last}
           R(i, m) == [path |-> slices[i].path, line |-> m.line, kind |-> m.kind]
           f(i) == [m \in M(i) |-> R(i, m)]
           g == [i \in DOMAIN slices |-> {f(i)[m] : m \in M(i)}]
<1>1. ASSUME NEW i \in DOMAIN slices
      PROVE  IsFiniteSet(g[i])
  <2>1. slices[i].digest \in DOMAIN Documents
    BY Sequences
  <2>2. IsFiniteSet(Documents[slices[i].digest].marks)
    BY <2>1, SliceContextAssumption DEF IsDocument
  <2>3. M(i) \in SUBSET Documents[slices[i].digest].marks
    OBVIOUS
  <2>4. g[i] = {f(i)[m] : m \in M(i)}
    OBVIOUS
  <2> HIDE DEF M, f, g
  <2>5. IsFiniteSet(M(i))
    BY <2>2, <2>3, FS_Subset
  <2> QED
    BY <2>4, <2>5, FiniteImage
<1> DEFINE C(i) == {R(i, m) : m \in M(i)}
<1>a. \A i \in DOMAIN slices : g[i] = C(i)
  <2> SUFFICES ASSUME NEW i \in DOMAIN slices
               PROVE  g[i] = C(i)
    OBVIOUS
  <2>1. g[i] = {f(i)[m] : m \in M(i)}
    OBVIOUS
  <2>2. \A m \in M(i) : f(i)[m] = R(i, m)
    OBVIOUS
  <2>3. \A x : x \in C(i) <=> \E m \in M(i) : x = R(i, m)
    OBVIOUS
  <2>4. \A x : x \in g[i] <=> \E m \in M(i) : x = f(i)[m]
    BY <2>1
  <2> HIDE DEF M, f, g, C, R
  <2>5. \A x : x \in g[i] <=> x \in C(i)
    BY <2>2, <2>3, <2>4
  <2> QED
    BY <2>5
<1>b. Candidates(slices) = UNION {C(i) : i \in DOMAIN slices}
  BY DEF Candidates
<1>2. Candidates(slices) = UNION {g[i] : i \in DOMAIN slices}
  <2> HIDE DEF C, g
  <2> QED
    BY <1>a, <1>b
<1> HIDE DEF M, f, g, C, R
<1>3. IsFiniteSet(DOMAIN slices)
  <2>1. DOMAIN slices = 1 .. Len(slices) /\ Len(slices) \in Nat
    BY Sequences
  <2> QED
    BY <2>1, FS_Interval
<1>4. IsFiniteSet({g[i] : i \in DOMAIN slices})
  BY <1>3, FiniteImage
<1>5. \A T \in {g[i] : i \in DOMAIN slices} : IsFiniteSet(T)
  BY <1>1
<1> QED
  BY <1>2, <1>4, <1>5, FS_UNION

\* The parts an alert's items consist of.
SliceParts(a, alert, context) ==
    [i \in DOMAIN context.slices |->
       <<SourceItem(a, alert, context.slices[i])>>
       \o (IF alert.resource THEN SetToSeq(TraceItems(a, context.slices[i]))
           ELSE <<>>)]

\* The parts of AlertItems.
PathItems(a, alert) == [o \in DOMAIN alert.paths |-> PathItem(a, alert, o)]
GapItems(a, alert, context) ==
    IF alert.resource
    THEN [i \in DOMAIN context.omitted |-> GapItem(a, context.omitted[i])]
    ELSE <<>>
CandidateItems(a, context) == {CandidateItem(a, c) : c \in context.candidates}

\* The items that are taken from a slice.
SliceItems(a, alert, s) ==
    {SourceItem(a, alert, s)} \cup (IF alert.resource THEN TraceItems(a, s) ELSE {})

\* The excerpt and the resource lines of a slice, as AlertItems lists them.
LEMMA SourceParts ==
    ASSUME NEW a, NEW alert, NEW context, Sliced(alert, context)
    PROVE  LET parts == SliceParts(a, alert, context)
           IN  /\ Nested(parts) /\ DOMAIN parts = DOMAIN context.slices
               /\ \A i \in DOMAIN parts :
                    /\ Range(parts[i]) = SliceItems(a, alert, context.slices[i])
                    /\ IsInjective(parts[i])
<1> DEFINE parts == SliceParts(a, alert, context)
<1>1. ASSUME NEW i \in DOMAIN context.slices
      PROVE  LET p == parts[i]
             IN  /\ IsSequence(p) /\ IsInjective(p)
                 /\ Range(p) = SliceItems(a, alert, context.slices[i])
  <2> DEFINE s == context.slices[i]
             x == SourceItem(a, alert, s)
             t == IF alert.resource THEN SetToSeq(TraceItems(a, s)) ELSE <<>>
             X == IF alert.resource THEN TraceItems(a, s) ELSE {}
  <2>1. s.digest \in DOMAIN Documents
    <3>1. s \in Range(context.slices)
      BY Sequences DEF Sliced
    <3> QED
      BY <3>1 DEF Sliced
  <2>2. parts[i] = <<x>> \o t
    BY DEF SliceParts
  <2>3. x \notin X
    <3>1. \A y \in TraceItems(a, s) : y.about[2] = <<s.first, s.last>>
      BY DEF TraceItems, Item
    <3>2. x.about[2] = <<>>
      BY DEF SourceItem, Item
    <3> QED
      BY <3>1, <3>2
  <2>4. IsSequence(t) /\ IsInjective(t) /\ Range(t) = X
    <3> HIDE DEF s, x
    <3>1. CASE alert.resource
      <4>1. IsFiniteSet(TraceItems(a, s))
        BY <2>1, FiniteTraces
      <4> QED
        BY <3>1, <4>1, Listed DEF IsSequence
    <3>2. CASE ~alert.resource
      BY <3>2, EmptySequence
    <3> QED
      BY <3>1, <3>2
  <2>5. SliceItems(a, alert, s) = {x} \cup X
    BY DEF SliceItems
  <2> HIDE DEF s, x, t, X, parts
  <2>6. IsSequence(<<x>>) /\ IsInjective(<<x>>) /\ Range(<<x>>) = {x}
    BY OneElement
  <2>7. {x} \cap X = {}
    BY <2>3
  <2>8. IsSequence(<<x>> \o t) /\ IsInjective(<<x>> \o t) /\ Range(<<x>> \o t) = {x} \cup X
    BY <2>4, <2>6, <2>7, Joined
  <2> QED
    BY <2>2, <2>5, <2>8 DEF s
<1>2. IsSequence(parts) /\ DOMAIN parts = DOMAIN context.slices
  <2>1. DOMAIN context.slices = 1 .. Len(context.slices) /\ Len(context.slices) \in Nat
    BY Sequences DEF Sliced
  <2>2. parts = [i \in 1 .. Len(context.slices) |-> parts[i]]
        /\ DOMAIN parts = DOMAIN context.slices
    BY <2>1 DEF SliceParts
  <2> HIDE DEF parts
  <2> QED
    BY <2>1, <2>2, SequenceOf
<1> HIDE DEF parts
<1>3. Nested(parts)
  BY <1>1, <1>2 DEF Nested
<1> QED
  BY <1>1, <1>2, <1>3 DEF parts

\* All items of an alert.
ItemsOf(a, alert, context) ==
    {RuleItem(a, alert)} \cup {PathItem(a, alert, o) : o \in DOMAIN alert.paths}
    \cup (UNION {SliceItems(a, alert, s) : s \in Range(context.slices)})
    \cup (IF alert.resource THEN {GapItem(a, o) : o \in Range(context.omitted)} ELSE {})
    \cup CandidateItems(a, context)

\* Two omissions that differ in nothing but their file.
Twins(context) ==
    \E o, q \in Range(context.omitted) :
       o.path # q.path /\ o.code = q.code /\ o.detail = q.detail

\* The items of a part, told from those of other parts by what they are about.
LEMMA ItemParts ==
    ASSUME NEW a, NEW alert, NEW context, Sliced(alert, context)
    PROVE  /\ IsSequence(PathItems(a, alert)) /\ IsInjective(PathItems(a, alert))
           /\ Range(PathItems(a, alert)) = {PathItem(a, alert, o) : o \in DOMAIN alert.paths}
           /\ IsSequence(GapItems(a, alert, context))
           /\ Range(GapItems(a, alert, context)) =
                IF alert.resource THEN {GapItem(a, o) : o \in Range(context.omitted)} ELSE {}
           /\ ~(alert.resource /\ Twins(context)) => IsInjective(GapItems(a, alert, context))
           /\ IsFiniteSet(CandidateItems(a, context))
<1>1. /\ IsSequence(PathItems(a, alert)) /\ DOMAIN PathItems(a, alert) = DOMAIN alert.paths
      /\ \A o \in DOMAIN alert.paths : PathItems(a, alert)[o] = PathItem(a, alert, o)
  <2> DEFINE p == PathItems(a, alert)
             n == Len(alert.paths)
  <2>1. DOMAIN alert.paths = 1 .. n /\ n \in Nat
    BY Sequences DEF Sliced
  <2>2. /\ p = [i \in 1 .. n |-> p[i]] /\ DOMAIN p = DOMAIN alert.paths
        /\ \A o \in DOMAIN alert.paths : p[o] = PathItem(a, alert, o)
    BY <2>1 DEF PathItems
  <2> HIDE DEF p, n
  <2>3. IsSequence(p)
    BY <2>1, <2>2, SequenceOf
  <2> QED
    BY <2>2, <2>3 DEF p
<1>2. IsInjective(PathItems(a, alert))
  <2>1. \A o \in DOMAIN alert.paths : PathItem(a, alert, o).about[2] = <<o>>
    BY DEF PathItem, Item
  <2>2. \A o, p \in DOMAIN alert.paths : <<o>> = <<p>> => o = p
    OBVIOUS
  <2> QED
    BY <1>1, <2>1, <2>2 DEF IsInjective
<1>3. Range(PathItems(a, alert)) = {PathItem(a, alert, o) : o \in DOMAIN alert.paths}
  BY <1>1 DEF Range
<1>8. IsFiniteSet(CandidateItems(a, context))
  <2> DEFINE f == [c \in context.candidates |-> CandidateItem(a, c)]
  <2>1. IsFiniteSet(context.candidates)
    BY FiniteCandidates DEF Sliced
  <2>2. CandidateItems(a, context) = {f[c] : c \in context.candidates}
    BY DEF CandidateItems
  <2> HIDE DEF f
  <2> QED
    BY <2>1, <2>2, FiniteImage
<1>4. CASE ~alert.resource
  <2>1. GapItems(a, alert, context) = <<>>
    BY <1>4 DEF GapItems
  <2> QED
    BY <1>1, <1>2, <1>3, <1>4, <1>8, <2>1, EmptySequence
<1>5. CASE alert.resource
  <2> DEFINE p == GapItems(a, alert, context)
             w == context.omitted
             n == Len(w)
  <2>1. DOMAIN w = 1 .. n /\ n \in Nat /\ \A i \in DOMAIN w : w[i] \in Range(w)
    BY Sequences DEF Sliced
  <2>2. /\ p = [i \in 1 .. n |-> p[i]] /\ DOMAIN p = DOMAIN w
        /\ \A i \in DOMAIN w : p[i] = GapItem(a, w[i])
    BY <1>5, <2>1 DEF GapItems
  <2> HIDE DEF p, n
  <2>3. IsSequence(p)
    BY <2>1, <2>2, SequenceOf
  <2>4. Range(p) = {GapItem(a, o) : o \in Range(w)}
    BY <2>2 DEF Range
  <2>5. ASSUME ~Twins(context)
        PROVE  IsInjective(p)
    <3> SUFFICES ASSUME NEW i \in DOMAIN w, NEW j \in DOMAIN w, p[i] = p[j]
                 PROVE  i = j
      BY <2>2 DEF IsInjective
    <3>a. GapItem(a, w[i]).about = <<w[i].code, w[i].detail>>
      BY DEF GapItem, Item
    <3>b. GapItem(a, w[j]).about = <<w[j].code, w[j].detail>>
      BY DEF GapItem, Item
    <3>1. p[i].about = <<w[i].code, w[i].detail>> /\ p[j].about = <<w[j].code, w[j].detail>>
      BY <2>2, <3>a, <3>b
    <3>2. w[i].code = w[j].code /\ w[i].detail = w[j].detail
      BY <3>1
    <3>3. w[i].path = w[j].path
      BY <2>1, <2>5, <3>2 DEF Twins
    <3>4. /\ w[i] = Omission(w[i].code, w[i].path, w[i].detail)
          /\ w[j] = Omission(w[j].code, w[j].path, w[j].detail)
      BY <2>1 DEF Sliced
    <3>5. w[i] = w[j]
      BY <3>2, <3>3, <3>4
    <3> QED
      BY <3>5 DEF Sliced, IsInjective
  <2> QED
    BY <1>1, <1>2, <1>3, <1>5, <1>8, <2>3, <2>4, <2>5 DEF p
<1> QED
  BY <1>4, <1>5 DEF Sliced

\* What tells the items of a part from those of the others.
About(items, names) == \A i \in items : i.about[1] \in names

\* What the items of each part are about.
LEMMA PartsAreAbout ==
    ASSUME NEW a, NEW alert, NEW context, Sliced(alert, context)
    PROVE  /\ About({RuleItem(a, alert)}, {"rule"})
           /\ About({PathItem(a, alert, o) : o \in DOMAIN alert.paths}, {"path"})
           /\ About(UNION {SliceItems(a, alert, s) : s \in Range(context.slices)}, Selections)
           /\ About({GapItem(a, o) : o \in Range(context.omitted)}, Codes)
           /\ About(CandidateItems(a, context), {"lexical"})
<1>1. About({RuleItem(a, alert)}, {"rule"})
  BY DEF About, RuleItem, Item
<1>2. About({PathItem(a, alert, o) : o \in DOMAIN alert.paths}, {"path"})
  BY DEF About, PathItem, Item
<1>3. About(UNION {SliceItems(a, alert, s) : s \in Range(context.slices)}, Selections)
  <2> SUFFICES ASSUME NEW s \in Range(context.slices), NEW x \in SliceItems(a, alert, s)
               PROVE  x.about[1] \in Selections
    BY DEF About
  <2>1. x.about[1] = s.selection
    <3>1. SourceItem(a, alert, s).about[1] = s.selection
      BY DEF SourceItem, Item
    <3>2. \A y \in TraceItems(a, s) : y.about[1] = s.selection
      BY DEF TraceItems, Item
    <3> QED
      BY <3>1, <3>2 DEF SliceItems
  <2> QED
    BY <2>1 DEF Sliced
<1>4. About({GapItem(a, o) : o \in Range(context.omitted)}, Codes)
  BY DEF About, GapItem, Item, Sliced
<1>5. About(CandidateItems(a, context), {"lexical"})
  BY DEF About, CandidateItems, CandidateItem, Item
<1> QED
  BY <1>1, <1>2, <1>3, <1>4, <1>5

\* Items about different things are different.
LEMMA ApartByAbout ==
    ASSUME NEW X, NEW Y, NEW m, NEW n, About(X, m), About(Y, n), m \cap n = {}
    PROVE  X \cap Y = {}
BY DEF About

\* The excerpts of two slices are different items.
LEMMA SlicesApart ==
    ASSUME NEW a, NEW alert, NEW s, NEW t, NEW x,
           x \in SliceItems(a, alert, s), x \in SliceItems(a, alert, t)
    PROVE  SameSlice(s, t)
<1> DEFINE Source(u) == x.at = <<u.path, u.first, u.last>> /\ x.about = <<u.selection, <<>>>>
           Trace(u) == x.at[1] = u.path /\ x.about = <<u.selection, <<u.first, u.last>>>>
<1>1. \A u : x \in SliceItems(a, alert, u) => Source(u) \/ Trace(u)
  <2> SUFFICES ASSUME NEW u, x \in SliceItems(a, alert, u)
               PROVE  Source(u) \/ Trace(u)
    OBVIOUS
  <2>1. x = SourceItem(a, alert, u) => Source(u)
    BY DEF SourceItem, Item, At
  <2>2. x \in TraceItems(a, u) => Trace(u)
    BY DEF TraceItems, Item
  <2> QED
    BY <2>1, <2>2 DEF SliceItems
<1>2. CASE Source(s) /\ Source(t)
  BY <1>2 DEF SameSlice, SameLines
<1>3. CASE Trace(s) /\ Trace(t)
  BY <1>3 DEF SameSlice, SameLines
<1>4. \A u, v : Source(u) => ~Trace(v)
  <2> SUFFICES ASSUME NEW u, NEW v, Source(u), Trace(v)
               PROVE  FALSE
    OBVIOUS
  <2> DEFINE y == x.about
             c == u.selection
             d == v.selection
             w == <<v.first, v.last>>
  <2>1. y = <<c, <<>>>> /\ y = <<d, w>>
    OBVIOUS
  <2>2. w # <<>>
    OBVIOUS
  <2> HIDE DEF y, c, d, w, Source, Trace
  <2>3. <<c, <<>>>> = <<d, w>>
    BY <2>1
  <2>4. w = <<>>
    BY <2>3
  <2> QED
    BY <2>2, <2>4
<1> HIDE DEF Source, Trace
<1> QED
  BY <1>1, <1>2, <1>3, <1>4

\* The items of an alert, and when no two of them are the same.
LEMMA ItemsOfAlert ==
    ASSUME NEW a, NEW alert, NEW context, Sliced(alert, context)
    PROVE  /\ IsSequence(AlertItems(a, alert, context))
           /\ Range(AlertItems(a, alert, context)) = ItemsOf(a, alert, context)
           /\ ~(alert.resource /\ Twins(context)) => IsInjective(AlertItems(a, alert, context))
<1> DEFINE r == <<RuleItem(a, alert)>>
           p == PathItems(a, alert)
           parts == SliceParts(a, alert, context)
           s == FlattenSeq(parts)
           g == GapItems(a, alert, context)
           c == SetToSeq(CandidateItems(a, context))
           A1 == {RuleItem(a, alert)}
           A2 == {PathItem(a, alert, o) : o \in DOMAIN alert.paths}
           A3 == UNION {SliceItems(a, alert, t) : t \in Range(context.slices)}
           gaps == {GapItem(a, o) : o \in Range(context.omitted)}
           A4 == IF alert.resource THEN gaps ELSE {}
           A5 == CandidateItems(a, context)
<1>1. AlertItems(a, alert, context) = (((r \o p) \o s) \o g) \o c
  BY DEF AlertItems, PathItems, SliceParts, GapItems, CandidateItems
<1>2. IsSequence(r) /\ IsInjective(r) /\ Range(r) = A1
  BY OneElement
<1>3. /\ IsSequence(p) /\ IsInjective(p)
      /\ Range(p) = A2
  BY ItemParts
<1>4. /\ IsSequence(s) /\ IsInjective(s)
      /\ Range(s) = A3
  <2>1. /\ Nested(parts) /\ DOMAIN parts = DOMAIN context.slices
        /\ \A i \in DOMAIN parts :
             /\ Range(parts[i]) = SliceItems(a, alert, context.slices[i])
             /\ IsInjective(parts[i])
    BY SourceParts
  <2> HIDE DEF parts
  <2>2. ASSUME NEW i \in DOMAIN parts, NEW j \in DOMAIN parts, i # j
        PROVE  Range(parts[i]) \cap Range(parts[j]) = {}
    <3> SUFFICES ASSUME NEW x \in Range(parts[i]), x \in Range(parts[j])
                 PROVE  FALSE
      OBVIOUS
    <3>1. SameSlice(context.slices[i], context.slices[j])
      BY <2>1, SlicesApart
    <3> QED
      BY <2>1, <2>2, <3>1 DEF Sliced
  <2>3. IsInjective(s)
    BY <2>1, <2>2, FlatDistinct
  <2>4. IsSequence(s) /\ Range(s) = UNION {Range(parts[i]) : i \in DOMAIN parts}
    BY <2>1, Flat
  <2>5. \A x : x \in Range(s) <=> \E t \in Range(context.slices) : x \in SliceItems(a, alert, t)
    <3> HIDE DEF s
    <3>1. ASSUME NEW i \in DOMAIN parts
          PROVE  context.slices[i] \in Range(context.slices)
      BY <2>1 DEF Range
    <3>2. ASSUME NEW t \in Range(context.slices)
          PROVE  \E i \in DOMAIN parts : context.slices[i] = t
      BY <2>1 DEF Range
    <3>3. \A x : x \in Range(s) <=> \E i \in DOMAIN parts : x \in Range(parts[i])
      BY <2>4
    <3>4. \A x : x \in Range(s)
                 <=> \E i \in DOMAIN parts : x \in SliceItems(a, alert, context.slices[i])
      BY <2>1, <3>3
    <3> QED
      BY <3>1, <3>2, <3>4
  <2> HIDE DEF s
  <2> QED
    BY <2>3, <2>4, <2>5
<1>5. /\ IsSequence(g)
      /\ Range(g) = A4
      /\ ~(alert.resource /\ Twins(context)) => IsInjective(g)
  BY ItemParts
<1>6. IsSequence(c) /\ IsInjective(c) /\ Range(c) = A5
  <2>1. IsFiniteSet(CandidateItems(a, context))
    BY ItemParts
  <2> QED
    BY <2>1, Listed DEF IsSequence
<1>7. /\ About(Range(r), {"rule"}) /\ About(Range(p), {"path"})
      /\ About(Range(s), Selections) /\ About(Range(g), Codes)
      /\ About(Range(c), {"lexical"})
  <2>1. About(A4, Codes)
    <3>1. CASE alert.resource
      BY <3>1, PartsAreAbout
    <3>2. CASE ~alert.resource
      BY <3>2 DEF About
    <3> QED
      BY <3>1, <3>2
  <2>2. About(A1, {"rule"}) /\ About(A2, {"path"}) /\ About(A3, Selections)
        /\ About(A5, {"lexical"})
    BY PartsAreAbout
  <2> HIDE DEF r, p, s, g, c, A1, A2, A3, A4, A5
  <2> QED
    BY <2>1, <2>2, <1>2, <1>3, <1>4, <1>5, <1>6
<1>a. ItemsOf(a, alert, context) = A1 \cup A2 \cup A3 \cup A4 \cup A5
  BY DEF ItemsOf
<1> HIDE DEF r, p, s, g, c, A1, A2, A3, A4, A5
<1>8. \A X, Y, m, n : About(X, m) /\ About(Y, n) => About(X \cup Y, m \cup n)
  BY DEF About
<1> DEFINE m1 == {"rule"} \cup {"path"}
           m2 == m1 \cup Selections
           m3 == m2 \cup Codes
           rp == r \o p
           rps == rp \o s
           rpsg == rps \o g
<1>9. /\ {"rule"} \cap {"path"} = {} /\ m1 \cap Selections = {} /\ m2 \cap Codes = {}
      /\ m3 \cap {"lexical"} = {}
  BY DEF Selections, Codes
<1> HIDE DEF m1, m2, m3
<1>10. /\ IsSequence(rp) /\ Range(rp) = Range(r) \cup Range(p) /\ IsInjective(rp)
       /\ About(Range(rp), m1)
  <2>1. Range(r) \cap Range(p) = {}
    BY <1>7, <1>9, ApartByAbout
  <2>2. About(Range(r) \cup Range(p), m1)
    BY <1>7, <1>8 DEF m1
  <2> QED
    BY <1>2, <1>3, <2>1, <2>2, Joined
<1> HIDE DEF rp
<1>11. /\ IsSequence(rps) /\ Range(rps) = Range(rp) \cup Range(s) /\ IsInjective(rps)
       /\ About(Range(rps), m2)
  <2>1. Range(rp) \cap Range(s) = {}
    BY <1>7, <1>9, <1>10, ApartByAbout
  <2>2. About(Range(rp) \cup Range(s), m2)
    BY <1>7, <1>8, <1>10 DEF m2
  <2> QED
    BY <1>4, <1>10, <2>1, <2>2, Joined
<1> HIDE DEF rps
<1>12. /\ IsSequence(rpsg) /\ Range(rpsg) = Range(rps) \cup Range(g)
       /\ IsInjective(g) => IsInjective(rpsg)
       /\ About(Range(rpsg), m3)
  <2>1. Range(rps) \cap Range(g) = {}
    BY <1>7, <1>9, <1>11, ApartByAbout
  <2>2. About(Range(rps) \cup Range(g), m3)
    BY <1>7, <1>8, <1>11 DEF m3
  <2> QED
    BY <1>5, <1>11, <2>1, <2>2, Joined
<1> HIDE DEF rpsg
<1>13. /\ IsSequence(rpsg \o c) /\ Range(rpsg \o c) = Range(rpsg) \cup Range(c)
       /\ IsInjective(g) => IsInjective(rpsg \o c)
  <2>1. Range(rpsg) \cap Range(c) = {}
    BY <1>7, <1>9, <1>12, ApartByAbout
  <2> QED
    BY <1>6, <1>12, <2>1, Joined
<1>14. AlertItems(a, alert, context) = rpsg \o c
  BY <1>1 DEF rpsg, rps, rp
<1>15. Range(rpsg \o c) = ItemsOf(a, alert, context)
  BY <1>2, <1>3, <1>4, <1>5, <1>6, <1>10, <1>11, <1>12, <1>13, <1>a
<1> QED
  BY <1>5, <1>13, <1>14, <1>15

-----------------------------------------------------------------------------
(* The edges of one alert. *)

\* A candidate is in a slice that shows its line.
LEMMA CandidateIsShown ==
    ASSUME NEW slices, IsSequence(slices), NEW c \in Candidates(slices)
    PROVE  /\ Containing(slices, c) \in Range(slices)
           /\ c.kind \in {"guard", "sanitizer"}
              \/ \E s \in Range(slices) : s.digest \notin DOMAIN Documents
<1> DEFINE In(i) == /\ slices[i].path = c.path /\ slices[i].first <= c.line
                    /\ c.line <= slices[i].last
           S == {i \in DOMAIN slices : In(i)}
<1>0. DOMAIN slices = 1 .. Len(slices) /\ Len(slices) \in Nat
      /\ \A i \in DOMAIN slices : slices[i] \in Range(slices)
  BY Sequences
<1>1. PICK i \in DOMAIN slices :
        \E m \in {n \in Documents[slices[i].digest].marks :
                    slices[i].first <= n.line /\ n.line <= slices[i].last} :
          c = [path |-> slices[i].path, line |-> m.line, kind |-> m.kind]
  BY DEF Candidates
<1>2. PICK m \in Documents[slices[i].digest].marks :
         /\ slices[i].first <= m.line /\ m.line <= slices[i].last
         /\ c = [path |-> slices[i].path, line |-> m.line, kind |-> m.kind]
  BY <1>1
<1>3. i \in S
  BY <1>2
<1>4. Min(S) \in S
  <2>1. S \subseteq 1 .. Len(slices) /\ S # {}
    BY <1>0, <1>3
  <2> HIDE DEF S
  <2> QED
    BY <1>0, <2>1, Extremes
<1>5. Containing(slices, c) = slices[Min(S)]
  BY DEF Containing
<1>6. c.kind \in {"guard", "sanitizer"} \/ slices[i].digest \notin DOMAIN Documents
  <2>1. CASE slices[i].digest \in DOMAIN Documents
    <3>1. m.kind \in {"guard", "sanitizer"}
      BY <2>1, SliceContextAssumption DEF IsDocument
    <3> QED
      BY <3>1, <1>2
  <2> QED
    BY <2>1
<1>7. Containing(slices, c) \in Range(slices)
  <2>1. Min(S) \in DOMAIN slices
    BY <1>4
  <2> HIDE DEF S
  <2> QED
    BY <1>0, <1>5, <2>1
<1> QED
  BY <1>0, <1>6, <1>7

\* What an item is given when it is one of an alert.
LEMMA AmongTheItems ==
    ASSUME NEW a, NEW alert, NEW context
    PROVE  /\ RuleItem(a, alert) \in ItemsOf(a, alert, context)
           /\ \A o \in DOMAIN alert.paths : PathItem(a, alert, o) \in ItemsOf(a, alert, context)
           /\ \A s \in Range(context.slices) :
                /\ SourceItem(a, alert, s) \in ItemsOf(a, alert, context)
                /\ alert.resource =>
                     \A t \in TraceItems(a, s) : t \in ItemsOf(a, alert, context)
           /\ alert.resource =>
                \A o \in Range(context.omitted) : GapItem(a, o) \in ItemsOf(a, alert, context)
           /\ \A c \in context.candidates : CandidateItem(a, c) \in ItemsOf(a, alert, context)
<1>1. \A s \in Range(context.slices) : \A x \in SliceItems(a, alert, s) :
        x \in ItemsOf(a, alert, context)
  BY DEF ItemsOf
<1>2. \A s : SourceItem(a, alert, s) \in SliceItems(a, alert, s)
             /\ (alert.resource => TraceItems(a, s) \subseteq SliceItems(a, alert, s))
  BY DEF SliceItems
<1>3. \A s \in Range(context.slices) :
        /\ SourceItem(a, alert, s) \in ItemsOf(a, alert, context)
        /\ alert.resource => \A t \in TraceItems(a, s) : t \in ItemsOf(a, alert, context)
  BY <1>1, <1>2
<1>4. \A c \in context.candidates : CandidateItem(a, c) \in ItemsOf(a, alert, context)
  BY DEF ItemsOf, CandidateItems
<1>5. alert.resource =>
        \A o \in Range(context.omitted) : GapItem(a, o) \in ItemsOf(a, alert, context)
  BY DEF ItemsOf
<1>6. \A o \in DOMAIN alert.paths : PathItem(a, alert, o) \in ItemsOf(a, alert, context)
  BY DEF ItemsOf
<1>7. RuleItem(a, alert) \in ItemsOf(a, alert, context)
  BY DEF ItemsOf
<1> QED
  BY <1>3, <1>4, <1>5, <1>6, <1>7

\* The kinds of dependencies, told by what depends.
Depends(e, a, alert, context) ==
    \/ \E o \in DOMAIN alert.paths : e = <<PathItem(a, alert, o), RuleItem(a, alert)>>
    \/ \E s \in Range(context.slices) :
         \/ /\ PathsOf(s) = {} /\ e = <<SourceItem(a, alert, s), RuleItem(a, alert)>>
         \/ \E o \in PathsOf(s) : e = <<SourceItem(a, alert, s), PathItem(a, alert, o)>>
         \/ /\ alert.resource
            /\ \E t \in TraceItems(a, s) : e = <<t, SourceItem(a, alert, s)>>
    \/ /\ alert.resource
       /\ \E o \in Range(context.omitted) : e = <<GapItem(a, o), RuleItem(a, alert)>>
    \/ \E c \in context.candidates :
         e = <<CandidateItem(a, c), SourceItem(a, alert, Containing(context.slices, c))>>

\* The edges of an alert, case by case.
LEMMA EdgesOfAlert ==
    ASSUME NEW a, NEW alert, NEW context, NEW e
    PROVE  e \in AlertEdges(a, alert, context) <=> Depends(e, a, alert, context)
<1> DEFINE slices == Range(context.slices)
           rule == RuleItem(a, alert)
           E1 == {<<PathItem(a, alert, o), rule>> : o \in DOMAIN alert.paths}
           E2 == UNION {SourceEdges(a, alert, s) : s \in slices}
           E3 == UNION {{<<t, SourceItem(a, alert, s)>> : t \in TraceItems(a, s)} : s \in slices}
           E4 == {<<GapItem(a, o), rule>> : o \in Range(context.omitted)}
           E5 == {<<CandidateItem(a, c),
                    SourceItem(a, alert, Containing(context.slices, c))>> :
                    c \in context.candidates}
<1>1. AlertEdges(a, alert, context) =
        E1 \cup E2 \cup (IF alert.resource THEN E3 \cup E4 ELSE {}) \cup E5
  BY DEF AlertEdges
<1>2. e \in E1 <=> \E o \in DOMAIN alert.paths : e = <<PathItem(a, alert, o), rule>>
  OBVIOUS
<1>3. e \in E2 <=> \E s \in slices :
         \/ /\ PathsOf(s) = {} /\ e = <<SourceItem(a, alert, s), rule>>
         \/ \E o \in PathsOf(s) : e = <<SourceItem(a, alert, s), PathItem(a, alert, o)>>
  <2>1. ASSUME NEW s
        PROVE  e \in SourceEdges(a, alert, s) <=>
                 \/ /\ PathsOf(s) = {} /\ e = <<SourceItem(a, alert, s), rule>>
                 \/ \E o \in PathsOf(s) : e = <<SourceItem(a, alert, s), PathItem(a, alert, o)>>
    <3>1. CASE PathsOf(s) = {}
      BY <3>1 DEF SourceEdges
    <3>2. CASE PathsOf(s) # {}
      BY <3>2 DEF SourceEdges
    <3> QED
      BY <3>1, <3>2
  <2>2. e \in E2 <=> \E s \in slices : e \in SourceEdges(a, alert, s)
    OBVIOUS
  <2> QED
    BY <2>1, <2>2
<1>4. e \in E3 <=> \E s \in slices : \E t \in TraceItems(a, s) :
                      e = <<t, SourceItem(a, alert, s)>>
  OBVIOUS
<1>5. e \in E4 <=> \E o \in Range(context.omitted) : e = <<GapItem(a, o), rule>>
  OBVIOUS
<1>6. e \in E5 <=> \E c \in context.candidates :
         e = <<CandidateItem(a, c), SourceItem(a, alert, Containing(context.slices, c))>>
  OBVIOUS
<1> HIDE DEF E1, E2, E3, E4, E5
<1>7. e \in AlertEdges(a, alert, context) <=>
        e \in E1 \/ e \in E2 \/ (alert.resource /\ (e \in E3 \/ e \in E4)) \/ e \in E5
  BY <1>1
<1> QED
  BY <1>2, <1>3, <1>4, <1>5, <1>6, <1>7 DEF Depends

\* An edge of an alert joins two of its items.
LEMMA EdgesStayInside ==
    ASSUME NEW a, NEW alert, NEW context, Sliced(alert, context),
           NEW e \in AlertEdges(a, alert, context)
    PROVE  e[1] \in ItemsOf(a, alert, context) /\ e[2] \in ItemsOf(a, alert, context)
<1>1. Depends(e, a, alert, context)
  BY EdgesOfAlert
<1>2. CASE \E o \in DOMAIN alert.paths : e = <<PathItem(a, alert, o), RuleItem(a, alert)>>
  BY <1>2, AmongTheItems
<1>3. ASSUME NEW s \in Range(context.slices),
             \/ /\ PathsOf(s) = {} /\ e = <<SourceItem(a, alert, s), RuleItem(a, alert)>>
             \/ \E o \in PathsOf(s) : e = <<SourceItem(a, alert, s), PathItem(a, alert, o)>>
             \/ /\ alert.resource
                /\ \E t \in TraceItems(a, s) : e = <<t, SourceItem(a, alert, s)>>
      PROVE  e[1] \in ItemsOf(a, alert, context) /\ e[2] \in ItemsOf(a, alert, context)
  <2>1. PathsOf(s) \subseteq DOMAIN alert.paths
    BY DEF Sliced
  <2> QED
    BY <1>3, <2>1, AmongTheItems
<1>4. CASE /\ alert.resource
           /\ \E o \in Range(context.omitted) : e = <<GapItem(a, o), RuleItem(a, alert)>>
  BY <1>4, AmongTheItems
<1>5. CASE \E c \in context.candidates :
             e = <<CandidateItem(a, c), SourceItem(a, alert, Containing(context.slices, c))>>
  <2>1. PICK c \in context.candidates :
          e = <<CandidateItem(a, c), SourceItem(a, alert, Containing(context.slices, c))>>
    BY <1>5
  <2>2. Containing(context.slices, c) \in Range(context.slices)
    BY CandidateIsShown DEF Sliced
  <2> QED
    BY <2>1, <2>2, AmongTheItems
<1> QED
  BY <1>1, <1>2, <1>3, <1>4, <1>5 DEF Depends

-----------------------------------------------------------------------------
(* The registry of all alerts. *)

\* Alerts and a context for each of them.
Inputs(as, cs) ==
    /\ IsSequence(as) /\ IsSequence(cs) /\ Len(as) = Len(cs)
    /\ \A a \in DOMAIN as : Sliced(as[a], cs[a])

\* The item is of the alert, and taken from a file of the run.
OfAlert(x, a) == x.alert = a /\ (x.artifact = Normalized \/ x.artifact = SliceFile(a))

\* An item says which alert it is of, and which file it is taken from.
LEMMA ItemsTellTheirAlert ==
    ASSUME NEW a, NEW alert, NEW context, NEW x \in ItemsOf(a, alert, context)
    PROVE  OfAlert(x, a)
<1> DEFINE Of(y) == OfAlert(y, a)
<1>1. Of(RuleItem(a, alert))
  BY DEF OfAlert, RuleItem, Item
<1>2. \A o : Of(PathItem(a, alert, o))
  BY DEF OfAlert, PathItem, Item
<1>3. \A s : Of(SourceItem(a, alert, s))
  BY DEF OfAlert, SourceItem, Item
<1>4. \A s : \A t \in TraceItems(a, s) : Of(t)
  BY DEF OfAlert, TraceItems, Item
<1>5. \A o : Of(GapItem(a, o))
  BY DEF OfAlert, GapItem, Item
<1>6. \A c : Of(CandidateItem(a, c))
  BY DEF OfAlert, CandidateItem, Item
<1> HIDE DEF Of
<1>7. Of(x)
  BY <1>1, <1>2, <1>3, <1>4, <1>5, <1>6 DEF ItemsOf, SliceItems, CandidateItems
<1> QED
  BY <1>7 DEF Of

\* The items of the registry are those of its alerts, each once when no
\* resource alert has twin omissions.
LEMMA ItemsBuilt ==
    ASSUME NEW as, NEW cs, Inputs(as, cs)
    PROVE  /\ IsSequence(Build(as, cs).items)
           /\ \A x : x \in Range(Build(as, cs).items)
                       <=> \E a \in DOMAIN as : x \in ItemsOf(a, as[a], cs[a])
           /\ (\A a \in DOMAIN as : ~(as[a].resource /\ Twins(cs[a])))
                => IsInjective(Build(as, cs).items)
<1> DEFINE parts == [a \in DOMAIN as |-> AlertItems(a, as[a], cs[a])]
<1>0. Build(as, cs).items = FlattenSeq(parts)
  BY DEF Build
<1>1. \A a \in DOMAIN as :
         /\ IsSequence(parts[a]) /\ Range(parts[a]) = ItemsOf(a, as[a], cs[a])
         /\ ~(as[a].resource /\ Twins(cs[a])) => IsInjective(parts[a])
  BY ItemsOfAlert DEF Inputs
<1>2. IsSequence(parts) /\ DOMAIN parts = DOMAIN as
  <2> DEFINE n == Len(as)
  <2>1. DOMAIN as = 1 .. n /\ n \in Nat
    BY Sequences DEF Inputs
  <2>2. parts = [i \in 1 .. n |-> parts[i]] /\ DOMAIN parts = DOMAIN as
    BY <2>1
  <2> HIDE DEF parts, n
  <2> QED
    BY <2>1, <2>2, SequenceOf
<1> HIDE DEF parts
<1>3. Nested(parts)
  BY <1>1, <1>2 DEF Nested
<1>4. IsSequence(FlattenSeq(parts))
      /\ Range(FlattenSeq(parts)) = UNION {Range(parts[o]) : o \in DOMAIN parts}
  BY <1>3, Flat
<1>5. \A x : x \in Range(FlattenSeq(parts))
               <=> \E a \in DOMAIN as : x \in ItemsOf(a, as[a], cs[a])
  BY <1>1, <1>2, <1>4
<1>6. ASSUME \A a \in DOMAIN as : ~(as[a].resource /\ Twins(cs[a]))
      PROVE  IsInjective(FlattenSeq(parts))
  <2>1. \A a \in DOMAIN parts : IsInjective(parts[a])
    BY <1>1, <1>2, <1>6
  <2>2. \A a, b \in DOMAIN parts : a # b => Range(parts[a]) \cap Range(parts[b]) = {}
    <3> SUFFICES ASSUME NEW a \in DOMAIN parts, NEW b \in DOMAIN parts,
                        NEW x \in Range(parts[a]), x \in Range(parts[b])
                 PROVE  a = b
      OBVIOUS
    <3>1. x \in ItemsOf(a, as[a], cs[a]) /\ x \in ItemsOf(b, as[b], cs[b])
      BY <1>1, <1>2
    <3>2. OfAlert(x, a) /\ OfAlert(x, b)
      BY <3>1, ItemsTellTheirAlert
    <3> QED
      BY <3>2 DEF OfAlert
  <2> QED
    BY <1>3, <2>1, <2>2, FlatDistinct
<1> QED
  BY <1>0, <1>4, <1>5, <1>6

\* The edges of the registry are those of its alerts.
LEMMA EdgesBuilt ==
    ASSUME NEW as, NEW cs, NEW e
    PROVE  e \in Build(as, cs).edges
             <=> \E a \in DOMAIN as : e \in AlertEdges(a, as[a], cs[a])
BY DEF Build

\* The artifacts of the registry are the normalized alerts and the slice
\* files, each once.
LEMMA ArtifactsBuilt ==
    ASSUME NEW as, NEW cs, IsSequence(cs)
    PROVE  /\ IsSequence(Build(as, cs).artifacts) /\ IsInjective(Build(as, cs).artifacts)
           /\ \A x : x \in Range(Build(as, cs).artifacts)
                       <=> x = Normalized \/ \E a \in DOMAIN cs : x = SliceFile(a)
<1> DEFINE f == [a \in DOMAIN cs |-> SliceFile(a)]
           n == Len(cs)
<1>1. DOMAIN cs = 1 .. n /\ n \in Nat
  BY Sequences
<1>2. /\ f = [i \in 1 .. n |-> f[i]] /\ DOMAIN f = DOMAIN cs
      /\ \A a \in DOMAIN f : f[a] = SliceFile(a)
  BY <1>1
<1>3. Build(as, cs).artifacts = <<Normalized>> \o f
  BY DEF Build
<1> HIDE DEF f, n
<1>4. IsSequence(f)
  BY <1>1, <1>2, SequenceOf
<1>5. IsInjective(f)
  <2>1. \A a, b : SliceFile(a) = SliceFile(b) => a = b
    BY DEF SliceFile
  <2> QED
    BY <1>2, <2>1 DEF IsInjective
<1>6. \A x : x \in Range(f) <=> \E a \in DOMAIN cs : x = SliceFile(a)
  BY <1>2 DEF Range
<1>7. \A a : SliceFile(a) # Normalized
  BY DEF SliceFile, Normalized
<1>8. {Normalized} \cap Range(f) = {}
  BY <1>6, <1>7
<1>9. IsSequence(<<Normalized>>) /\ IsInjective(<<Normalized>>)
      /\ Range(<<Normalized>>) = {Normalized}
  BY OneElement
<1>10. /\ IsSequence(<<Normalized>> \o f) /\ IsInjective(<<Normalized>> \o f)
       /\ Range(<<Normalized>> \o f) = {Normalized} \cup Range(f)
  BY <1>4, <1>5, <1>8, <1>9, Joined
<1> QED
  BY <1>3, <1>6, <1>10

\* A registry without twins passes its validator.
LEMMA BuiltIsClosed ==
    ASSUME NEW as, NEW cs, Inputs(as, cs),
           \A a \in DOMAIN as : ~(as[a].resource /\ Twins(cs[a]))
    PROVE  Closed(Build(as, cs))
<1> DEFINE reg == Build(as, cs)
<1>1. IsInjective(reg.artifacts)
      /\ \A x : x \in Range(reg.artifacts)
                  <=> x = Normalized \/ \E a \in DOMAIN cs : x = SliceFile(a)
  BY ArtifactsBuilt DEF Inputs
<1>2. /\ IsSequence(reg.items) /\ IsInjective(reg.items)
      /\ \A x : x \in Range(reg.items) <=> \E a \in DOMAIN as : x \in ItemsOf(a, as[a], cs[a])
  BY ItemsBuilt
<1>3. \A e : e \in reg.edges <=> \E a \in DOMAIN as : e \in AlertEdges(a, as[a], cs[a])
  BY EdgesBuilt
<1> HIDE DEF reg
<1>4. DOMAIN as = DOMAIN cs
  BY Sequences DEF Inputs
<1>5. ASSUME NEW i \in DOMAIN reg.items
      PROVE  reg.items[i].artifact \in Range(reg.artifacts)
  <2>1. reg.items[i] \in Range(reg.items)
    BY <1>2, Sequences
  <2>2. PICK a \in DOMAIN as : reg.items[i] \in ItemsOf(a, as[a], cs[a])
    BY <1>2, <2>1
  <2>3. reg.items[i].artifact = Normalized \/ reg.items[i].artifact = SliceFile(a)
    <3> DEFINE x == reg.items[i]
    <3>1. x \in ItemsOf(a, as[a], cs[a])
      BY <2>2
    <3> HIDE DEF x
    <3>2. OfAlert(x, a)
      BY <3>1, ItemsTellTheirAlert
    <3> QED
      BY <3>2 DEF x, OfAlert
  <2> QED
    BY <1>1, <1>4, <2>3
<1>6. ASSUME NEW e \in reg.edges
      PROVE  {e[1], e[2]} \subseteq Range(reg.items)
  <2>1. PICK a \in DOMAIN as : e \in AlertEdges(a, as[a], cs[a])
    BY <1>3
  <2>2. e[1] \in ItemsOf(a, as[a], cs[a]) /\ e[2] \in ItemsOf(a, as[a], cs[a])
    BY <2>1, EdgesStayInside DEF Inputs
  <2> QED
    BY <1>2, <2>2
<1> QED
  BY <1>1, <1>2, <1>5, <1>6 DEF Closed, reg

-----------------------------------------------------------------------------
(* What the items rest on. *)

\* The item is the gap of an omission.
IsGap(x, a, alert, context) ==
    alert.resource /\ \E o \in Range(context.omitted) : x = GapItem(a, o)

\* The gaps are the only items of their type.
LEMMA GapsAreOmissions ==
    ASSUME NEW a, NEW alert, NEW context, Sliced(alert, context),
           NEW x \in ItemsOf(a, alert, context), x.type = "context_gap"
    PROVE  IsGap(x, a, alert, context)
<1>1. RuleItem(a, alert).type # "context_gap"
  BY DEF RuleItem, Item
<1>2. \A o : PathItem(a, alert, o).type # "context_gap"
  BY DEF PathItem, Item
<1>3. \A s : SourceItem(a, alert, s).type # "context_gap"
  <2> SUFFICES ASSUME NEW s
               PROVE  SourceItem(a, alert, s).type # "context_gap"
    OBVIOUS
  <2>1. SourceItem(a, alert, s).type = "resource_lifecycle"
        \/ SourceItem(a, alert, s).type = "data_flow"
    BY DEF SourceItem, Item
  <2> QED
    BY <2>1
<1>4. \A s \in Range(context.slices) : \A t \in TraceItems(a, s) : t.type # "context_gap"
  <2> SUFFICES ASSUME NEW s \in Range(context.slices), NEW t \in TraceItems(a, s)
               PROVE  t.type # "context_gap"
    OBVIOUS
  <2>1. s.digest \in DOMAIN Documents
    BY DEF Sliced
  <2>2. PICK u \in Documents[s.digest].traces : t.type = u.type
    BY DEF TraceItems, Item
  <2>3. u.type # "context_gap"
    BY <2>1, SliceContextAssumption DEF IsDocument
  <2> QED
    BY <2>2, <2>3
<1>5. \A c \in context.candidates : CandidateItem(a, c).type # "context_gap"
  <2> SUFFICES ASSUME NEW c \in context.candidates
               PROVE  CandidateItem(a, c).type # "context_gap"
    OBVIOUS
  <2>1. CandidateItem(a, c).type = c.kind
    BY DEF CandidateItem, Item
  <2>2. \/ c.kind \in {"guard", "sanitizer"}
        \/ \E s \in Range(context.slices) : s.digest \notin DOMAIN Documents
    BY CandidateIsShown DEF Sliced
  <2>3. c.kind \in {"guard", "sanitizer"}
    BY <2>2 DEF Sliced
  <2> QED
    BY <2>1, <2>3
<1> QED
  BY <1>1, <1>2, <1>3, <1>4, <1>5 DEF ItemsOf, SliceItems, CandidateItems, IsGap

\* One step along the dependencies.
Resting(S, edges) == S \cup {e[1] : e \in {d \in edges : d[2] \in S}}

\* What rests on a set of items.
LEMMA Rest ==
    ASSUME NEW S, NEW edges
    PROVE  /\ S \subseteq Resting(S, edges)
           /\ \A x, y : <<x, y>> \in edges /\ y \in S => x \in Resting(S, edges)
<1>1. S \subseteq Resting(S, edges)
  BY DEF Resting
<1>2. ASSUME NEW x, NEW y, <<x, y>> \in edges, y \in S
      PROVE  x \in Resting(S, edges)
  <2>1. <<x, y>>[2] \in S /\ <<x, y>>[1] = x
    BY <1>2
  <2> QED
    BY <1>2, <2>1 DEF Resting
<1> QED
  BY <1>1, <1>2

\* All items of an alert are reached from its rule.
LEMMA ItemsRest ==
    ASSUME NEW a, NEW alert, NEW context, Sliced(alert, context),
           NEW items, NEW edges,
           ItemsOf(a, alert, context) \subseteq items,
           AlertEdges(a, alert, context) \subseteq edges
    PROVE  ItemsOf(a, alert, context) \subseteq Reached(items, edges)
<1> DEFINE R0 == {i \in items : i.type = "rule_semantics"}
           R1 == Resting(R0, edges)
           R2 == Resting(R1, edges)
           R3 == Resting(R2, edges)
           R4 == Resting(R3, edges)
           rule == RuleItem(a, alert)
<1>1. Reached(items, edges) = R4
  BY DEF Reached, Resting
<1>2. rule \in R0
  <2>1. rule.type = "rule_semantics"
    BY DEF RuleItem, Item
  <2>2. rule \in items
    BY AmongTheItems
  <2> QED
    BY <2>1, <2>2
<1> HIDE DEF R0, rule
<1>3. \A o \in DOMAIN alert.paths : PathItem(a, alert, o) \in R1
  <2> SUFFICES ASSUME NEW o \in DOMAIN alert.paths
               PROVE  PathItem(a, alert, o) \in R1
    OBVIOUS
  <2>1. <<PathItem(a, alert, o), rule>> \in AlertEdges(a, alert, context)
    BY EdgesOfAlert DEF Depends, rule
  <2> HIDE DEF R1
  <2> QED
    BY <1>2, <2>1, Rest DEF R1
<1>4. alert.resource => \A o \in Range(context.omitted) : GapItem(a, o) \in R1
  <2> SUFFICES ASSUME alert.resource, NEW o \in Range(context.omitted)
               PROVE  GapItem(a, o) \in R1
    OBVIOUS
  <2>1. <<GapItem(a, o), rule>> \in AlertEdges(a, alert, context)
    BY EdgesOfAlert DEF Depends, rule
  <2> QED
    BY <1>2, <2>1, Rest
<1>5. rule \in R1
  BY <1>2, Rest
<1> HIDE DEF R1
<1>6. \A s \in Range(context.slices) : SourceItem(a, alert, s) \in R2
  <2> SUFFICES ASSUME NEW s \in Range(context.slices)
               PROVE  SourceItem(a, alert, s) \in R2
    OBVIOUS
  <2>1. CASE PathsOf(s) = {}
    <3>1. <<SourceItem(a, alert, s), rule>> \in AlertEdges(a, alert, context)
      BY <2>1, EdgesOfAlert DEF Depends, rule
    <3> QED
      BY <1>5, <3>1, Rest
  <2>2. CASE PathsOf(s) # {}
    <3>1. PICK o \in PathsOf(s) : TRUE
      BY <2>2
    <3>2. <<SourceItem(a, alert, s), PathItem(a, alert, o)>> \in AlertEdges(a, alert, context)
      BY <3>1, EdgesOfAlert DEF Depends
    <3>3. o \in DOMAIN alert.paths
      BY <3>1 DEF Sliced
    <3> QED
      BY <1>3, <3>2, <3>3, Rest
  <2> QED
    BY <2>1, <2>2
<1>7. R1 \subseteq R2
  BY Rest
<1> HIDE DEF R2
<1>8. alert.resource =>
        \A s \in Range(context.slices) : \A t \in TraceItems(a, s) : t \in R3
  <2> SUFFICES ASSUME alert.resource, NEW s \in Range(context.slices),
                      NEW t \in TraceItems(a, s)
               PROVE  t \in R3
    OBVIOUS
  <2>1. <<t, SourceItem(a, alert, s)>> \in AlertEdges(a, alert, context)
    BY EdgesOfAlert DEF Depends
  <2> QED
    BY <1>6, <2>1, Rest
<1>9. \A c \in context.candidates : CandidateItem(a, c) \in R3
  <2> SUFFICES ASSUME NEW c \in context.candidates
               PROVE  CandidateItem(a, c) \in R3
    OBVIOUS
  <2> DEFINE s == Containing(context.slices, c)
  <2>1. s \in Range(context.slices)
    BY CandidateIsShown DEF Sliced
  <2>2. <<CandidateItem(a, c), SourceItem(a, alert, s)>> \in AlertEdges(a, alert, context)
    BY EdgesOfAlert DEF Depends
  <2> HIDE DEF s
  <2> QED
    BY <1>6, <2>1, <2>2, Rest
<1>10. R2 \subseteq R3 /\ R3 \subseteq R4
  BY Rest
<1> HIDE DEF R3, R4
<1>11. ItemsOf(a, alert, context) \subseteq R4
  <2> SUFFICES ASSUME NEW x \in ItemsOf(a, alert, context)
               PROVE  x \in R4
    OBVIOUS
  <2>1. CASE x = RuleItem(a, alert)
    BY <2>1, <1>5, <1>7, <1>10 DEF rule
  <2>2. CASE \E o \in DOMAIN alert.paths : x = PathItem(a, alert, o)
    BY <2>2, <1>3, <1>7, <1>10
  <2>3. CASE \E s \in Range(context.slices) : x \in SliceItems(a, alert, s)
    <3>1. PICK s \in Range(context.slices) : x \in SliceItems(a, alert, s)
      BY <2>3
    <3>2. x = SourceItem(a, alert, s) \/ (alert.resource /\ x \in TraceItems(a, s))
      BY <3>1 DEF SliceItems
    <3> QED
      BY <3>2, <1>6, <1>8, <1>10
  <2>4. CASE alert.resource /\ \E o \in Range(context.omitted) : x = GapItem(a, o)
    BY <2>4, <1>4, <1>7, <1>10
  <2>5. CASE \E c \in context.candidates : x = CandidateItem(a, c)
    BY <2>5, <1>9, <1>10
  <2> QED
    BY <2>1, <2>2, <2>3, <2>4, <2>5 DEF ItemsOf, CandidateItems
<1> QED
  BY <1>1, <1>11

\* What RegistryIsGrounded says, of a registry with these items and edges.
Grounded(items, edges, as, cs) ==
    /\ {i \in items : i.artifact # Supplement} \subseteq Reached(items, edges)
    /\ \A e \in edges : e[1].alert = e[2].alert
    /\ \A a \in DOMAIN as :
         as[a].resource =>
           ({i \in items : i.alert = a /\ i.type = "context_gap"
                           /\ i.artifact # Supplement} = {}
              <=> cs[a].complete)
    /\ \A i \in items : i.alert \in DOMAIN as

\* A registry that has the items and the edges of its alerts, and of outside
\* only observations about one of them, is grounded.
LEMMA Grounds ==
    ASSUME NEW as, NEW cs, Inputs(as, cs), NEW items, NEW edges,
           \A a \in DOMAIN as : ItemsOf(a, as[a], cs[a]) \subseteq items,
           \A x \in items : \/ \E a \in DOMAIN as : x \in ItemsOf(a, as[a], cs[a])
                            \/ x.artifact = Supplement /\ x.alert \in DOMAIN as,
           \A e : e \in edges <=> \E a \in DOMAIN as : e \in AlertEdges(a, as[a], cs[a])
    PROVE  Grounded(items, edges, as, cs)
<1>1. \A a \in DOMAIN as : ItemsOf(a, as[a], cs[a]) \subseteq Reached(items, edges)
  <2> SUFFICES ASSUME NEW a \in DOMAIN as
               PROVE  ItemsOf(a, as[a], cs[a]) \subseteq Reached(items, edges)
    OBVIOUS
  <2>1. Sliced(as[a], cs[a]) /\ ItemsOf(a, as[a], cs[a]) \subseteq items
        /\ AlertEdges(a, as[a], cs[a]) \subseteq edges
    BY DEF Inputs
  <2> QED
    BY <2>1, ItemsRest
<1>2. \A i \in {i \in items : i.artifact # Supplement} : i \in Reached(items, edges)
  BY <1>1
<1>3. \A e \in edges : e[1].alert = e[2].alert
  <2> SUFFICES ASSUME NEW e \in edges
               PROVE  e[1].alert = e[2].alert
    OBVIOUS
  <2>1. PICK a \in DOMAIN as : e \in AlertEdges(a, as[a], cs[a])
    OBVIOUS
  <2>2. e[1] \in ItemsOf(a, as[a], cs[a]) /\ e[2] \in ItemsOf(a, as[a], cs[a])
    BY <2>1, EdgesStayInside DEF Inputs
  <2> DEFINE x == e[1]
             y == e[2]
  <2>3. x \in ItemsOf(a, as[a], cs[a]) /\ y \in ItemsOf(a, as[a], cs[a])
    BY <2>2
  <2> HIDE DEF x, y
  <2>4. OfAlert(x, a) /\ OfAlert(y, a)
    BY <2>3, ItemsTellTheirAlert
  <2> QED
    BY <2>4 DEF x, y, OfAlert
<1>4. ASSUME NEW a \in DOMAIN as, as[a].resource
      PROVE  {i \in items : i.alert = a /\ i.type = "context_gap"
                            /\ i.artifact # Supplement} = {}
               <=> cs[a].complete
  <2>0. Sliced(as[a], cs[a])
    BY DEF Inputs
  <2>1. cs[a].complete <=> Range(cs[a].omitted) = {}
    <3>1. IsSequence(cs[a].omitted) /\ (cs[a].complete <=> cs[a].omitted = <<>>)
      BY <2>0 DEF Sliced
    <3> DEFINE w == cs[a].omitted
    <3>2. IsSequence(w)
      BY <3>1
    <3> HIDE DEF w
    <3>3. Range(w) = {} => w = <<>>
      <4>1. DOMAIN w = 1 .. Len(w) /\ Len(w) \in Nat /\ w \in Seq(Range(w))
        BY <3>2, Sequences DEF IsSequence
      <4>2. Len(w) # 0 => 1 \in DOMAIN w
        BY <4>1
      <4>3. 1 \in DOMAIN w => w[1] \in Range(w)
        BY DEF Range
      <4> QED
        BY <4>1, <4>2, <4>3
    <3> QED
      BY <3>1, <3>3, EmptySequence DEF w
  <2>2. ASSUME NEW o \in Range(cs[a].omitted)
        PROVE  \E i \in items : i.alert = a /\ i.type = "context_gap" /\ i.artifact # Supplement
    <3>1. GapItem(a, o) \in ItemsOf(a, as[a], cs[a])
      BY <1>4, AmongTheItems
    <3>2. GapItem(a, o) \in items
      BY <3>1
    <3>3. GapItem(a, o).alert = a /\ GapItem(a, o).type = "context_gap"
          /\ GapItem(a, o).artifact # Supplement
      BY DEF GapItem, Item, SliceFile, Supplement
    <3> QED
      BY <3>2, <3>3
  <2>3. ASSUME NEW i \in items, i.alert = a, i.type = "context_gap", i.artifact # Supplement
        PROVE  Range(cs[a].omitted) # {}
    <3>1. PICK b \in DOMAIN as : i \in ItemsOf(b, as[b], cs[b])
      BY <2>3
    <3>2. OfAlert(i, b)
      BY <3>1, ItemsTellTheirAlert
    <3>3. i \in ItemsOf(a, as[a], cs[a])
      BY <2>3, <3>1, <3>2 DEF OfAlert
    <3>4. IsGap(i, a, as[a], cs[a])
      BY <2>0, <2>3, <3>3, GapsAreOmissions
    <3> QED
      BY <3>4 DEF IsGap
  <2> QED
    BY <2>1, <2>2, <2>3
<1>5. \A i \in items : i.alert \in DOMAIN as
  <2> SUFFICES ASSUME NEW i \in items
               PROVE  i.alert \in DOMAIN as
    OBVIOUS
  <2>1. CASE \E a \in DOMAIN as : i \in ItemsOf(a, as[a], cs[a])
    <3>1. PICK a \in DOMAIN as : i \in ItemsOf(a, as[a], cs[a])
      BY <2>1
    <3>2. OfAlert(i, a)
      BY <3>1, ItemsTellTheirAlert
    <3> QED
      BY <3>2 DEF OfAlert
  <2> QED
    BY <2>1
<1> QED
  BY <1>2, <1>3, <1>4, <1>5 DEF Grounded

-----------------------------------------------------------------------------
(* The references of an alert. *)

\* The shape of an alert, and of a result of a SARIF file.
Shaped(alert) ==
    /\ IsSequence(alert.additional) /\ IsSequence(alert.related) /\ Nested(alert.paths)
    /\ alert.resource \in BOOLEAN /\ alert.bytes \in Nat

\* The reference at a place, and where that is.
Refers(alert, j, r) ==
    \/ j = 1 /\ r = Named("primary", 0, alert.primary)
    \/ \E i \in DOMAIN alert.additional :
         j = 1 + i /\ r = Named("additional", 0, alert.additional[i])
    \/ \E i \in DOMAIN alert.related :
         j = 1 + Len(alert.additional) + i /\ r = Named("related", 0, alert.related[i])
    \/ \E o \in DOMAIN alert.paths : \E k \in DOMAIN alert.paths[o] :
         /\ j = 1 + Len(alert.additional) + Len(alert.related) + Offset(alert.paths, o) + k
         /\ r = Named(StepKind(alert.paths[o], k), o, alert.paths[o][k])

\* What Joined says of c, the join of s and t.
IsJoin(c, s, t) ==
    /\ IsSequence(c) /\ Len(c) = Len(s) + Len(t)
    /\ \A i \in DOMAIN s : i \in DOMAIN c /\ c[i] = s[i]
    /\ \A i \in DOMAIN t : Len(s) + i \in DOMAIN c /\ c[Len(s) + i] = t[i]
    /\ \A j \in DOMAIN c : j \in DOMAIN s \/ \E i \in DOMAIN t : j = Len(s) + i

\* One sequence after another is a join of the two.
LEMMA JoinIs ==
    ASSUME NEW s, NEW t, IsSequence(s), IsSequence(t)
    PROVE  IsJoin(s \o t, s, t)
<1> DEFINE c == s \o t
<1>1. IsSequence(c) /\ Len(c) = Len(s) + Len(t)
  BY Joined
<1>2. \A i \in DOMAIN s : i \in DOMAIN c /\ c[i] = s[i]
  BY Joined
<1>3. \A i \in DOMAIN t : Len(s) + i \in DOMAIN c /\ c[Len(s) + i] = t[i]
  BY Joined
<1>4. \A j \in DOMAIN c : j \in DOMAIN s \/ \E i \in DOMAIN t : j = Len(s) + i
  BY Joined
<1> HIDE DEF c
<1>5. IsJoin(c, s, t)
  BY <1>1, <1>2, <1>3, <1>4 DEF IsJoin
<1> QED
  BY <1>5 DEF c

\* The references of an alert: its primary location, the additional and the
\* related ones, and the steps of its paths, in this order.
LEMMA ReferencesAre ==
    ASSUME NEW alert, Shaped(alert)
    PROVE  /\ IsSequence(References(alert))
           /\ \A j \in DOMAIN References(alert) : Refers(alert, j, References(alert)[j])
           /\ \A j, r : Refers(alert, j, r) => /\ j \in DOMAIN References(alert)
                                              /\ References(alert)[j] = r
<1> DEFINE p == <<Named("primary", 0, alert.primary)>>
           a == [i \in DOMAIN alert.additional |->
                   Named("additional", 0, alert.additional[i])]
           b == [i \in DOMAIN alert.related |-> Named("related", 0, alert.related[i])]
           parts == [o \in DOMAIN alert.paths |->
                       [i \in DOMAIN alert.paths[o] |->
                          Named(StepKind(alert.paths[o], i), o, alert.paths[o][i])]]
           f == FlattenSeq(parts)
           m == Len(alert.additional)
           n == Len(alert.related)
           refs == References(alert)
<1>1. refs = ((p \o a) \o b) \o f
  BY DEF References
<1>2. /\ DOMAIN alert.additional = 1 .. m /\ m \in Nat
      /\ DOMAIN alert.related = 1 .. n /\ n \in Nat
  BY Sequences DEF Shaped
<1>3. /\ a = [i \in 1 .. m |-> a[i]] /\ b = [i \in 1 .. n |-> b[i]]
      /\ \A i \in DOMAIN alert.additional : a[i] = Named("additional", 0, alert.additional[i])
      /\ \A i \in DOMAIN alert.related : b[i] = Named("related", 0, alert.related[i])
  BY <1>2
<1>4. IsSequence(p) /\ Len(p) = 1 /\ DOMAIN p = {1} /\ p[1] = Named("primary", 0, alert.primary)
  <2>1. IsSequence(p) /\ Len(p) = 1
    BY OneElement
  <2> QED
    BY <2>1
<1>5. IsSequence(a) /\ IsSequence(b) /\ Len(a) = m /\ Len(b) = n
      /\ DOMAIN a = 1 .. m /\ DOMAIN b = 1 .. n
  <2> HIDE DEF a, b
  <2> QED
    BY <1>2, <1>3, SequenceOf
<1>6. /\ Nested(parts) /\ DOMAIN parts = DOMAIN alert.paths
      /\ \A o \in DOMAIN alert.paths :
           /\ DOMAIN parts[o] = DOMAIN alert.paths[o]
           /\ Len(parts[o]) = Len(alert.paths[o])
           /\ \A k \in DOMAIN alert.paths[o] :
                parts[o][k] = Named(StepKind(alert.paths[o], k), o, alert.paths[o][k])
      /\ \A o \in DOMAIN alert.paths : Offset(parts, o) = Offset(alert.paths, o)
  <2> DEFINE N == Len(alert.paths)
  <2>1. DOMAIN alert.paths = 1 .. N /\ N \in Nat
        /\ \A o \in DOMAIN alert.paths : /\ IsSequence(alert.paths[o])
                                         /\ DOMAIN alert.paths[o] = 1 .. Len(alert.paths[o])
                                         /\ Len(alert.paths[o]) \in Nat
    BY Sequences DEF Shaped, Nested
  <2>2. parts = [i \in 1 .. N |-> parts[i]] /\ DOMAIN parts = DOMAIN alert.paths
    BY <2>1
  <2>3. ASSUME NEW o \in DOMAIN alert.paths
        PROVE  /\ DOMAIN parts[o] = DOMAIN alert.paths[o]
               /\ parts[o] = [i \in 1 .. Len(alert.paths[o]) |-> parts[o][i]]
               /\ \A k \in DOMAIN alert.paths[o] :
                    parts[o][k] = Named(StepKind(alert.paths[o], k), o, alert.paths[o][k])
    BY <2>1
  <2> HIDE DEF parts, N
  <2>4. \A o \in DOMAIN alert.paths : /\ IsSequence(parts[o])
                                      /\ Len(parts[o]) = Len(alert.paths[o])
    BY <2>1, <2>3, SequenceOf
  <2>5. IsSequence(parts) /\ Len(parts) = N
    BY <2>1, <2>2, SequenceOf
  <2>6. Nested(parts)
    BY <2>2, <2>4, <2>5 DEF Nested
  <2>7. \A o \in DOMAIN parts : Offset(parts, o) = Offset(alert.paths, o)
    <3>1. Nested(alert.paths) /\ Len(parts) = Len(alert.paths)
          /\ \A o \in DOMAIN parts : Len(parts[o]) = Len(alert.paths[o])
      BY <2>2, <2>4, <2>5 DEF Shaped, N
    <3> QED
      BY <2>6, <3>1, SameOffsets
  <2> QED
    BY <2>2, <2>3, <2>4, <2>6, <2>7
<1>7. IsSequence(f) /\ Placed(parts)
  BY <1>6, Flat
<1> HIDE DEF p, a, b, parts, m, n, refs
<1> DEFINE pa == p \o a
           pab == pa \o b
<1>8. /\ IsSequence(pa) /\ Len(pa) = 1 + m
      /\ pa[1] = p[1] /\ 1 \in DOMAIN pa
      /\ \A i \in 1 .. m : 1 + i \in DOMAIN pa /\ pa[1 + i] = a[i]
      /\ \A j \in DOMAIN pa : j = 1 \/ \E i \in 1 .. m : j = 1 + i
  <2>1. IsJoin(pa, p, a)
    BY <1>4, <1>5, JoinIs
  <2> HIDE DEF pa, f
  <2>2. /\ IsSequence(pa) /\ Len(pa) = Len(p) + Len(a)
        /\ \A j \in DOMAIN p : j \in DOMAIN pa /\ pa[j] = p[j]
        /\ \A i \in DOMAIN a : Len(p) + i \in DOMAIN pa /\ pa[Len(p) + i] = a[i]
        /\ \A j \in DOMAIN pa : j \in DOMAIN p \/ \E i \in DOMAIN a : j = Len(p) + i
    BY <2>1 DEF IsJoin
  <2>3. Len(p) = 1 /\ DOMAIN p = {1} /\ Len(a) = m /\ DOMAIN a = 1 .. m
    BY <1>4, <1>5
  <2> QED
    BY <2>2, <2>3
<1> HIDE DEF pa
<1>9. /\ IsSequence(pab) /\ Len(pab) = 1 + m + n
      /\ \A j \in DOMAIN pa : j \in DOMAIN pab /\ pab[j] = pa[j]
      /\ \A i \in 1 .. n : 1 + m + i \in DOMAIN pab /\ pab[1 + m + i] = b[i]
      /\ \A j \in DOMAIN pab : j \in DOMAIN pa \/ \E i \in 1 .. n : j = 1 + m + i
  <2>1. IsJoin(pab, pa, b)
    BY <1>5, <1>8, JoinIs
  <2> HIDE DEF pab, f
  <2>2. /\ IsSequence(pab) /\ Len(pab) = Len(pa) + Len(b)
        /\ \A j \in DOMAIN pa : j \in DOMAIN pab /\ pab[j] = pa[j]
        /\ \A i \in DOMAIN b : Len(pa) + i \in DOMAIN pab /\ pab[Len(pa) + i] = b[i]
        /\ \A j \in DOMAIN pab : j \in DOMAIN pa \/ \E i \in DOMAIN b : j = Len(pa) + i
    BY <2>1 DEF IsJoin
  <2>3. Len(pa) = 1 + m /\ Len(b) = n /\ DOMAIN b = 1 .. n
    BY <1>5, <1>8
  <2> QED
    BY <2>2, <2>3
<1> HIDE DEF pab
<1> HIDE DEF f
<1>10. /\ IsSequence(refs)
       /\ \A j \in DOMAIN pab : j \in DOMAIN refs /\ refs[j] = pab[j]
       /\ \A i \in DOMAIN f : 1 + m + n + i \in DOMAIN refs /\ refs[1 + m + n + i] = f[i]
       /\ \A j \in DOMAIN refs : j \in DOMAIN pab \/ \E i \in DOMAIN f : j = 1 + m + n + i
  <2>1. refs = pab \o f
    BY <1>1 DEF pab, pa
  <2>2. IsJoin(pab \o f, pab, f)
    BY <1>7, <1>9, JoinIs
  <2>3. IsJoin(refs, pab, f)
    BY <2>1, <2>2
  <2>4. /\ IsSequence(refs)
        /\ \A j \in DOMAIN pab : j \in DOMAIN refs /\ refs[j] = pab[j]
        /\ \A i \in DOMAIN f : Len(pab) + i \in DOMAIN refs /\ refs[Len(pab) + i] = f[i]
        /\ \A j \in DOMAIN refs : j \in DOMAIN pab \/ \E i \in DOMAIN f : j = Len(pab) + i
    BY <2>3 DEF IsJoin
  <2>5. Len(pab) = 1 + m + n
    BY <1>9
  <2> QED
    BY <2>4, <2>5
<1>11. ASSUME NEW o \in DOMAIN alert.paths, NEW k \in DOMAIN alert.paths[o]
       PROVE  LET j == 1 + m + n + Offset(alert.paths, o) + k
              IN  /\ j \in DOMAIN refs
                  /\ refs[j] = Named(StepKind(alert.paths[o], k), o, alert.paths[o][k])
  <2> DEFINE x == Offset(alert.paths, o)
  <2>1. x + k \in DOMAIN f /\ f[x + k] = parts[o][k] /\ x \in Nat
    BY <1>6, <1>7 DEF Placed, f
  <2>2. 1 + m + n + (x + k) = 1 + m + n + x + k
    <3>1. k \in Nat
      <4>1. IsSequence(alert.paths[o])
        BY DEF Shaped, Nested
      <4>2. DOMAIN alert.paths[o] = 1 .. Len(alert.paths[o]) /\ Len(alert.paths[o]) \in Nat
        BY <4>1, Sequences
      <4> QED
        BY <4>2
    <3> HIDE DEF x
    <3> QED
      BY <1>2, <2>1, <3>1
  <2> HIDE DEF x
  <2>3. refs[1 + m + n + x + k] = parts[o][k] /\ 1 + m + n + x + k \in DOMAIN refs
    BY <1>10, <2>1, <2>2
  <2> QED
    BY <1>6, <2>3 DEF x
<1>12. ASSUME NEW j, NEW r, Refers(alert, j, r)
       PROVE  j \in DOMAIN refs /\ refs[j] = r
  <2>1. CASE j = 1 /\ r = Named("primary", 0, alert.primary)
    BY <2>1, <1>4, <1>8, <1>9, <1>10
  <2>2. CASE \E i \in DOMAIN alert.additional :
               j = 1 + i /\ r = Named("additional", 0, alert.additional[i])
    BY <2>2, <1>2, <1>3, <1>8, <1>9, <1>10
  <2>3. CASE \E i \in DOMAIN alert.related :
               j = 1 + m + i /\ r = Named("related", 0, alert.related[i])
    BY <2>3, <1>2, <1>3, <1>9, <1>10
  <2>4. CASE \E o \in DOMAIN alert.paths : \E k \in DOMAIN alert.paths[o] :
               /\ j = 1 + m + n + Offset(alert.paths, o) + k
               /\ r = Named(StepKind(alert.paths[o], k), o, alert.paths[o][k])
    BY <2>4, <1>11
  <2> QED
    BY <1>12, <2>1, <2>2, <2>3, <2>4 DEF Refers, m, n
<1>13. ASSUME NEW j \in DOMAIN refs
       PROVE  \E r : Refers(alert, j, r)
  <2>1. CASE j = 1
    BY <2>1 DEF Refers
  <2>2. CASE \E i \in 1 .. m : j = 1 + i
    BY <2>2, <1>2 DEF Refers
  <2>3. CASE \E i \in 1 .. n : j = 1 + m + i
    BY <2>3, <1>2 DEF Refers, m
  <2>4. CASE \E i \in DOMAIN f : j = 1 + m + n + i
    <3>1. PICK i \in DOMAIN f : j = 1 + m + n + i
      BY <2>4
    <3>2. PICK o \in DOMAIN parts : \E k \in DOMAIN parts[o] : i = Offset(parts, o) + k
      BY <3>1, <1>7 DEF Placed, f
    <3>3. PICK k \in DOMAIN parts[o] : i = Offset(parts, o) + k
      BY <3>2
    <3>4. o \in DOMAIN alert.paths /\ k \in DOMAIN alert.paths[o]
          /\ i = Offset(alert.paths, o) + k /\ k \in Nat /\ Offset(alert.paths, o) \in Nat
      <4>1. IsSequence(parts[o])
        BY <1>6 DEF Nested
      <4>2. k \in Nat
        BY <4>1, Sequences
      <4> QED
        BY <1>6, <1>7, <3>3, <4>2 DEF Placed
    <3>5. j = 1 + m + n + Offset(alert.paths, o) + k
      BY <1>2, <3>1, <3>4
    <3> QED
      BY <3>4, <3>5 DEF Refers, m, n
  <2> QED
    BY <1>8, <1>9, <1>10, <2>1, <2>2, <2>3, <2>4
<1>14. \A j \in DOMAIN refs : Refers(alert, j, refs[j])
  BY <1>12, <1>13
<1> QED
  BY <1>10, <1>12, <1>14 DEF refs

-----------------------------------------------------------------------------
(* The folds of SliceContext, as the values they go through.  Each lemma is *)
(* FoldRuns for one operator, of which F is the part from A and S to A.     *)

\* One step of each fold.
AddBytes(n, b) == n + b
AddTokens(n, slice) == n + SliceTokens(slice)
AdmitSelected(acc, s) ==
    Admit(acc, s, <<s.first, s.last, SliceTokens(s), Max({0, Budget - acc.tokens})>>)
Keep(kept, o) == IF Contains(kept, o) THEN kept ELSE Append(kept, o)

\* The folds.
BytesFrom(base, s) == FoldLeft(+, base, s)
TokensFrom(base, s) == FoldLeft(LAMBDA n, t : n + SliceTokens(t), base, s)
AdmittedFrom(base, s) ==
    FoldLeft(LAMBDA a, t : Admit(a, t, <<t.first, t.last, SliceTokens(t),
                                         Max({0, Budget - a.tokens})>>), base, s)
CalleesFrom(base, s) == FoldLeft(AdmitCallee, base, s)
AllCalleesFrom(base, s) == FoldLeft(WithCalleesOf, base, s)
KeptFrom(base, s) == FoldLeft(LAMBDA k, o : IF Contains(k, o) THEN k ELSE Append(k, o), base, s)

\* The bytes of some lines.
LEMMA BytesFold ==
    ASSUME NEW A, NEW S, NEW s \in Seq(S), NEW base \in A, NEW F \in [A \X S -> A],
           \A a \in A, x \in S : F[<<a, x>>] = AddBytes(a, x)
    PROVE  \E acc : Runs(acc, A, S, F, base, s, BytesFrom(base, s))
<1> DEFINE P(it) == it = [u \in SUBSET DOMAIN s |->
                            IF u = {} THEN base ELSE AddBytes(it[u \ {Max(u)}], s[Max(u)])]
           fold == CHOOSE it : P(it)
<1>1. \E it : P(it)
  <2>1. PICK it : Solves(it, A, S, F, base, s)
    BY FoldSolution
  <2>2. \A u \in SUBSET DOMAIN s :
           it[u] = IF u = {} THEN base ELSE AddBytes(it[u \ {Max(u)}], s[Max(u)])
    BY <2>1 DEF Solves
  <2>3. P(it)
    BY <2>1, <2>2 DEF Solves
  <2> QED
    BY <2>3
<1>2. BytesFrom(base, s) = fold[DOMAIN s]
  BY DEF BytesFrom, FoldLeft, MapThenFoldSet, AddBytes
<1>3. P(fold)
  BY <1>1
<1> HIDE DEF fold
<1>4. Follows(fold, A, F, base, s)
  <2>1. {} \in SUBSET DOMAIN s
    OBVIOUS
  <2>2. \A u \in SUBSET DOMAIN s : u # {} => s[Max(u)] \in S
    BY FoldElement
  <2> QED
    BY <2>1, <2>2, <1>3 DEF Follows
<1>5. \E acc : Runs(acc, A, S, F, base, s, fold[DOMAIN s])
  <2> HIDE DEF P
  <2> QED
    BY <1>4, FoldRuns
<1> QED
  BY <1>2, <1>5

\* The tokens of some slices.
LEMMA TokensFold ==
    ASSUME NEW A, NEW S, NEW s \in Seq(S), NEW base \in A, NEW F \in [A \X S -> A],
           \A a \in A, x \in S : F[<<a, x>>] = AddTokens(a, x)
    PROVE  \E acc : Runs(acc, A, S, F, base, s, TokensFrom(base, s))
<1> DEFINE P(it) == it = [u \in SUBSET DOMAIN s |->
                            IF u = {} THEN base ELSE AddTokens(it[u \ {Max(u)}], s[Max(u)])]
           fold == CHOOSE it : P(it)
<1>1. \E it : P(it)
  <2>1. PICK it : Solves(it, A, S, F, base, s)
    BY FoldSolution
  <2>2. \A u \in SUBSET DOMAIN s :
           it[u] = IF u = {} THEN base ELSE AddTokens(it[u \ {Max(u)}], s[Max(u)])
    BY <2>1 DEF Solves
  <2>3. P(it)
    BY <2>1, <2>2 DEF Solves
  <2> QED
    BY <2>3
<1>2. TokensFrom(base, s) = fold[DOMAIN s]
  BY DEF TokensFrom, FoldLeft, MapThenFoldSet, AddTokens
<1>3. P(fold)
  BY <1>1
<1> HIDE DEF fold
<1>4. Follows(fold, A, F, base, s)
  <2>1. {} \in SUBSET DOMAIN s
    OBVIOUS
  <2>2. \A u \in SUBSET DOMAIN s : u # {} => s[Max(u)] \in S
    BY FoldElement
  <2> QED
    BY <2>1, <2>2, <1>3 DEF Follows
<1>5. \E acc : Runs(acc, A, S, F, base, s, fold[DOMAIN s])
  <2> HIDE DEF P
  <2> QED
    BY <1>4, FoldRuns
<1> QED
  BY <1>2, <1>5

\* The slices admitted to a budget.
LEMMA AdmittedFold ==
    ASSUME NEW A, NEW S, NEW s \in Seq(S), NEW base \in A, NEW F \in [A \X S -> A],
           \A a \in A, x \in S : F[<<a, x>>] = AdmitSelected(a, x)
    PROVE  \E acc : Runs(acc, A, S, F, base, s, AdmittedFrom(base, s))
<1> DEFINE P(it) == it = [u \in SUBSET DOMAIN s |->
                            IF u = {} THEN base ELSE AdmitSelected(it[u \ {Max(u)}], s[Max(u)])]
           fold == CHOOSE it : P(it)
<1>1. \E it : P(it)
  <2>1. PICK it : Solves(it, A, S, F, base, s)
    BY FoldSolution
  <2>2. \A u \in SUBSET DOMAIN s :
           it[u] = IF u = {} THEN base ELSE AdmitSelected(it[u \ {Max(u)}], s[Max(u)])
    BY <2>1 DEF Solves
  <2>3. P(it)
    BY <2>1, <2>2 DEF Solves
  <2> QED
    BY <2>3
<1>2. AdmittedFrom(base, s) = fold[DOMAIN s]
  BY DEF AdmittedFrom, FoldLeft, MapThenFoldSet, AdmitSelected
<1>3. P(fold)
  BY <1>1
<1> HIDE DEF fold
<1>4. Follows(fold, A, F, base, s)
  <2>1. {} \in SUBSET DOMAIN s
    OBVIOUS
  <2>2. \A u \in SUBSET DOMAIN s : u # {} => s[Max(u)] \in S
    BY FoldElement
  <2> QED
    BY <2>1, <2>2, <1>3 DEF Follows
<1>5. \E acc : Runs(acc, A, S, F, base, s, fold[DOMAIN s])
  <2> HIDE DEF P
  <2> QED
    BY <1>4, FoldRuns
<1> QED
  BY <1>2, <1>5

\* The callees of one slice.
LEMMA CalleesFold ==
    ASSUME NEW A, NEW S, NEW s \in Seq(S), NEW base \in A, NEW F \in [A \X S -> A],
           \A a \in A, x \in S : F[<<a, x>>] = AdmitCallee(a, x)
    PROVE  \E acc : Runs(acc, A, S, F, base, s, CalleesFrom(base, s))
<1> DEFINE P(it) == it = [u \in SUBSET DOMAIN s |->
                            IF u = {} THEN base ELSE AdmitCallee(it[u \ {Max(u)}], s[Max(u)])]
           fold == CHOOSE it : P(it)
<1>1. \E it : P(it)
  <2>1. PICK it : Solves(it, A, S, F, base, s)
    BY FoldSolution
  <2>2. \A u \in SUBSET DOMAIN s :
           it[u] = IF u = {} THEN base ELSE AdmitCallee(it[u \ {Max(u)}], s[Max(u)])
    BY <2>1 DEF Solves
  <2>3. P(it)
    BY <2>1, <2>2 DEF Solves
  <2> QED
    BY <2>3
<1>2. CalleesFrom(base, s) = fold[DOMAIN s]
  BY DEF CalleesFrom, FoldLeft, MapThenFoldSet
<1>3. P(fold)
  BY <1>1
<1> HIDE DEF fold
<1>4. Follows(fold, A, F, base, s)
  <2>1. {} \in SUBSET DOMAIN s
    OBVIOUS
  <2>2. \A u \in SUBSET DOMAIN s : u # {} => s[Max(u)] \in S
    BY FoldElement
  <2> QED
    BY <2>1, <2>2, <1>3 DEF Follows
<1>5. \E acc : Runs(acc, A, S, F, base, s, fold[DOMAIN s])
  <2> HIDE DEF P
  <2> QED
    BY <1>4, FoldRuns
<1> QED
  BY <1>2, <1>5

\* The callees of all slices.
LEMMA AllCalleesFold ==
    ASSUME NEW A, NEW S, NEW s \in Seq(S), NEW base \in A, NEW F \in [A \X S -> A],
           \A a \in A, x \in S : F[<<a, x>>] = WithCalleesOf(a, x)
    PROVE  \E acc : Runs(acc, A, S, F, base, s, AllCalleesFrom(base, s))
<1> DEFINE P(it) == it = [u \in SUBSET DOMAIN s |->
                            IF u = {} THEN base ELSE WithCalleesOf(it[u \ {Max(u)}], s[Max(u)])]
           fold == CHOOSE it : P(it)
<1>1. \E it : P(it)
  <2>1. PICK it : Solves(it, A, S, F, base, s)
    BY FoldSolution
  <2>2. \A u \in SUBSET DOMAIN s :
           it[u] = IF u = {} THEN base ELSE WithCalleesOf(it[u \ {Max(u)}], s[Max(u)])
    BY <2>1 DEF Solves
  <2>3. P(it)
    BY <2>1, <2>2 DEF Solves
  <2> QED
    BY <2>3
<1>2. AllCalleesFrom(base, s) = fold[DOMAIN s]
  BY DEF AllCalleesFrom, FoldLeft, MapThenFoldSet
<1>3. P(fold)
  BY <1>1
<1> HIDE DEF fold
<1>4. Follows(fold, A, F, base, s)
  <2>1. {} \in SUBSET DOMAIN s
    OBVIOUS
  <2>2. \A u \in SUBSET DOMAIN s : u # {} => s[Max(u)] \in S
    BY FoldElement
  <2> QED
    BY <2>1, <2>2, <1>3 DEF Follows
<1>5. \E acc : Runs(acc, A, S, F, base, s, fold[DOMAIN s])
  <2> HIDE DEF P
  <2> QED
    BY <1>4, FoldRuns
<1> QED
  BY <1>2, <1>5

\* The omissions that are kept.
LEMMA KeptFold ==
    ASSUME NEW A, NEW S, NEW s \in Seq(S), NEW base \in A, NEW F \in [A \X S -> A],
           \A a \in A, x \in S : F[<<a, x>>] = Keep(a, x)
    PROVE  \E acc : Runs(acc, A, S, F, base, s, KeptFrom(base, s))
<1> DEFINE P(it) == it = [u \in SUBSET DOMAIN s |->
                            IF u = {} THEN base ELSE Keep(it[u \ {Max(u)}], s[Max(u)])]
           fold == CHOOSE it : P(it)
<1>1. \E it : P(it)
  <2>1. PICK it : Solves(it, A, S, F, base, s)
    BY FoldSolution
  <2>2. \A u \in SUBSET DOMAIN s :
           it[u] = IF u = {} THEN base ELSE Keep(it[u \ {Max(u)}], s[Max(u)])
    BY <2>1 DEF Solves
  <2>3. P(it)
    BY <2>1, <2>2 DEF Solves
  <2> QED
    BY <2>3
<1>2. KeptFrom(base, s) = fold[DOMAIN s]
  BY DEF KeptFrom, FoldLeft, MapThenFoldSet, Keep
<1>3. P(fold)
  BY <1>1
<1> HIDE DEF fold
<1>4. Follows(fold, A, F, base, s)
  <2>1. {} \in SUBSET DOMAIN s
    OBVIOUS
  <2>2. \A u \in SUBSET DOMAIN s : u # {} => s[Max(u)] \in S
    BY FoldElement
  <2> QED
    BY <2>1, <2>2, <1>3 DEF Follows
<1>5. \E acc : Runs(acc, A, S, F, base, s, fold[DOMAIN s])
  <2> HIDE DEF P
  <2> QED
    BY <1>4, FoldRuns
<1> QED
  BY <1>2, <1>5

-----------------------------------------------------------------------------
(* Tokens. *)

\* The size of some lines is a number.
LEMMA BytesAreNumbers ==
    ASSUME NEW s \in Seq(Nat)
    PROVE  FoldLeft(+, 0, s) \in Nat
<1> DEFINE F == [p \in Nat \X Nat |-> AddBytes(p[1], p[2])]
<1>1. /\ F \in [Nat \X Nat -> Nat]
      /\ \A a \in Nat, x \in Nat : F[<<a, x>>] = AddBytes(a, x)
  BY DEF AddBytes
<1> HIDE DEF F
<1>2. PICK acc : Runs(acc, Nat, Nat, F, 0, s, BytesFrom(0, s))
  BY <1>1, BytesFold
<1>3. Len(s) \in 0 .. Len(s)
  OBVIOUS
<1>4. BytesFrom(0, s) \in Nat
  BY <1>2, <1>3 DEF Runs
<1> QED
  BY <1>4 DEF BytesFrom

\* So is the estimate of the tokens of a slice of a document.
LEMMA EstimatesAreNumbers ==
    ASSUME NEW s, s.digest \in DOMAIN Documents, s.first \in Nat \ {0}, s.last \in Nat,
           s.last <= Len(Documents[s.digest].bytes)
    PROVE  SliceTokens(s) \in Nat
<1> DEFINE bytes == Documents[s.digest].bytes
           lines == SubSeq(bytes, s.first, s.last)
<1>1. bytes \in Seq(Nat)
  BY SliceContextAssumption DEF IsDocument
<1> HIDE DEF bytes
<1>2. lines \in Seq(Nat)
  <2>1. s.last <= Len(bytes)
    BY DEF bytes
  <2> QED
    BY <1>1, <2>1
<1> HIDE DEF lines
<1>3. FoldLeft(+, 0, lines) \in Nat
  BY <1>2, BytesAreNumbers
<1>4. \A n \in Nat : Tokens(n) \in Nat
  BY DEF Tokens
<1>5. Tokens(FoldLeft(+, 0, lines)) \in Nat
  BY <1>3, <1>4
<1> QED
  BY <1>5 DEF SliceTokens, lines, bytes

\* The tokens of slices.
Total(slices) == TokensFrom(0, slices)

Estimated(slices) == IsSequence(slices) /\ \A s \in Range(slices) : SliceTokens(s) \in Nat

\* The tokens of slices are those of each, added up.
LEMMA TotalSteps ==
    ASSUME NEW slices, Estimated(slices)
    PROVE  \E acc : /\ acc[0] = 0 /\ acc[Len(slices)] = Total(slices)
                    /\ \A n \in 0 .. Len(slices) : acc[n] \in Nat
                    /\ \A n \in 1 .. Len(slices) :
                         acc[n] = acc[n - 1] + SliceTokens(slices[n])
<1> DEFINE S == Range(slices)
           F == [p \in Nat \X S |-> AddTokens(p[1], p[2])]
<1>1. slices \in Seq(S)
  BY DEF Estimated, IsSequence
<1>2. /\ F \in [Nat \X S -> Nat]
      /\ \A a \in Nat, x \in S : F[<<a, x>>] = AddTokens(a, x)
  BY DEF Estimated, AddTokens
<1> HIDE DEF S, F
<1>3. PICK acc : Runs(acc, Nat, S, F, 0, slices, TokensFrom(0, slices))
  BY <1>1, <1>2, TokensFold
<1>4. \A n \in 1 .. Len(slices) : acc[n] = acc[n - 1] + SliceTokens(slices[n])
  BY <1>2, <1>3 DEF Runs, AddTokens
<1> QED
  BY <1>3, <1>4 DEF Total, Runs

\* The tokens of slices and one more.
LEMMA TotalGrows ==
    ASSUME NEW slices, Estimated(slices), NEW x, SliceTokens(x) \in Nat
    PROVE  /\ Total(slices) \in Nat /\ Estimated(Append(slices, x))
           /\ Total(Append(slices, x)) = Total(slices) + SliceTokens(x)
<1> DEFINE more == Append(slices, x)
           N == Len(slices)
<1>1. /\ IsSequence(more) /\ Range(more) = Range(slices) \cup {x} /\ Len(more) = N + 1
      /\ IsSequence(slices)
      /\ \A i \in DOMAIN slices : more[i] = slices[i]
  BY Longer DEF Estimated
<1>2. N \in Nat /\ DOMAIN slices = 1 .. N
  BY <1>1, Sequences
<1>3. more[N + 1] = x
  BY <1>1 DEF IsSequence
<1>4. Estimated(more)
  BY <1>1 DEF Estimated
<1> HIDE DEF more
<1>5. PICK f : /\ f[0] = 0 /\ f[N] = Total(slices)
               /\ \A n \in 0 .. N : f[n] \in Nat
               /\ \A n \in 1 .. N : f[n] = f[n - 1] + SliceTokens(slices[n])
  BY TotalSteps DEF N
<1>6. PICK g : /\ g[0] = 0 /\ g[N + 1] = Total(more)
               /\ \A n \in 0 .. N + 1 : g[n] \in Nat
               /\ \A n \in 1 .. N + 1 : g[n] = g[n - 1] + SliceTokens(more[n])
  <2> HIDE DEF N
  <2> QED
    BY <1>1, <1>4, TotalSteps
<1> DEFINE T == {n \in Nat : n <= N => f[n] = g[n]}
<1> HIDE DEF N
<1>7. \A n \in Nat : n \in T
  <2>1. 0 \in T
    BY <1>5, <1>6
  <2>2. ASSUME NEW n \in Nat, n \in T
        PROVE  n + 1 \in T
    <3>1. CASE n + 1 <= N
      <4>1. n + 1 \in 1 .. N /\ n + 1 \in 1 .. N + 1 /\ n <= N /\ (n + 1) - 1 = n
            /\ n + 1 \in Nat
        BY <3>1, <1>2
      <4>2. f[n + 1] = f[n] + SliceTokens(slices[n + 1])
        BY <1>5, <4>1
      <4>3. g[n + 1] = g[n] + SliceTokens(more[n + 1])
        BY <1>6, <4>1
      <4>4. more[n + 1] = slices[n + 1]
        BY <1>1, <1>2, <4>1
      <4> QED
        BY <2>2, <4>1, <4>2, <4>3, <4>4
    <3> QED
      BY <3>1
  <2> HIDE DEF T
  <2> QED
    BY <2>1, <2>2, Induction
<1>8. f[N] = g[N]
  <2>1. N \in T /\ N <= N
    BY <1>2, <1>7
  <2> QED
    BY <2>1
<1>9. g[N + 1] = g[N] + SliceTokens(x)
  <2>1. N + 1 \in 1 .. N + 1 /\ (N + 1) - 1 = N
    BY <1>2
  <2> QED
    BY <1>3, <1>6, <2>1
<1>10. Total(slices) \in Nat
  <2>1. N \in 0 .. N
    BY <1>2
  <2> QED
    BY <1>5, <2>1
<1> QED
  BY <1>4, <1>5, <1>6, <1>8, <1>9, <1>10 DEF more

\* No slices have no tokens.
LEMMA NoTokens == Estimated(<<>>) /\ Total(<<>>) = 0
<1>1. Estimated(<<>>)
  BY EmptySequence DEF Estimated
<1>2. PICK acc : acc[0] = 0 /\ acc[Len(<<>>)] = Total(<<>>)
  BY <1>1, TotalSteps
<1> QED
  BY <1>1, <1>2

-----------------------------------------------------------------------------
(* Names in alphabetical order. *)

\* A finite set of numbers has a largest one.
LEMMA Largest ==
    ASSUME NEW S, IsFiniteSet(S), S \subseteq Nat, S # {}
    PROVE  \E m \in S : \A y \in S : y <= m
<1> DEFINE Tops(u) == \E m \in u : \A y \in u : y <= m
           Sized(u, n) == u \in SUBSET Nat /\ IsFiniteSet(u) /\ Cardinality(u) = n
           T == {n \in Nat : \A u : Sized(u, n) /\ u # {} => Tops(u)}
<1>1. 0 \in T
  BY FS_EmptySet
<1>2. ASSUME NEW n \in Nat, n \in T
      PROVE  n + 1 \in T
  <2> SUFFICES ASSUME NEW u, Sized(u, n + 1), u # {}
               PROVE  Tops(u)
    OBVIOUS
  <2>1. PICK x \in u : TRUE
    OBVIOUS
  <2>2. Sized(u \ {x}, n)
    <3>1. IsFiniteSet(u \ {x})
      BY FS_RemoveElement
    <3>2. Cardinality(u \ {x}) = Cardinality(u) - 1
      BY <2>1, FS_RemoveElement
    <3> QED
      BY <3>1, <3>2
  <2>3. CASE u \ {x} = {}
    BY <2>1, <2>3
  <2>4. CASE u \ {x} # {}
    <3>1. Tops(u \ {x})
      <4> HIDE DEF Tops, Sized
      <4> QED
        BY <1>2, <2>2, <2>4
    <3>2. PICK m \in u \ {x} : \A y \in u \ {x} : y <= m
      BY <3>1
    <3> QED
      BY <2>1, <3>2
  <2> QED
    BY <2>3, <2>4
<1> HIDE DEF T
<1>3. \A n \in Nat : n \in T
  BY <1>1, <1>2, Induction
<1>4. Sized(S, Cardinality(S)) /\ Cardinality(S) \in Nat
  BY FS_CardinalityType
<1>5. Cardinality(S) \in T
  BY <1>3, <1>4
<1>6. Tops(S)
  <2> HIDE DEF Tops, Sized
  <2> QED
    BY <1>4, <1>5 DEF T
<1> QED
  BY <1>6

\* s puts the elements of u in order.
Orders(s, u) ==
    /\ s \in SetToSeqs(u)
    /\ \A i, j \in DOMAIN s : i < j => s[i] < s[j]

\* A finite set of names can be put in order.
LEMMA Orderable ==
    ASSUME NEW S, IsFiniteSet(S), S \subseteq Nat
    PROVE  \E s : Orders(s, S)
<1> DEFINE Sized(u, n) == u \in SUBSET Nat /\ IsFiniteSet(u) /\ Cardinality(u) = n
           T == {n \in Nat : \A u : Sized(u, n) => \E s : Orders(s, u)}
<1>1. 0 \in T
  <2> SUFFICES ASSUME NEW u, Sized(u, 0)
               PROVE  \E s : Orders(s, u)
    OBVIOUS
  <2>1. u = {}
    BY FS_EmptySet
  <2>2. Cardinality(u) = 0
    OBVIOUS
  <2>3. <<>> \in [1 .. 0 -> u]
    OBVIOUS
  <2>4. Orders(<<>>, u)
    BY <2>2, <2>3 DEF Orders, SetToSeqs
  <2> QED
    BY <2>4
<1>2. ASSUME NEW n \in Nat, n \in T
      PROVE  n + 1 \in T
  <2> SUFFICES ASSUME NEW u, Sized(u, n + 1)
               PROVE  \E s : Orders(s, u)
    OBVIOUS
  <2>1. u # {}
    BY FS_EmptySet
  <2>2. PICK m \in u : \A y \in u : y <= m
    BY <2>1, Largest
  <2>3. Sized(u \ {m}, n)
    <3>1. IsFiniteSet(u \ {m})
      BY FS_RemoveElement
    <3>2. Cardinality(u \ {m}) = Cardinality(u) - 1
      BY <2>2, FS_RemoveElement
    <3> QED
      BY <3>1, <3>2
  <2>4. PICK s : Orders(s, u \ {m})
    <3> HIDE DEF Sized
    <3> QED
      BY <1>2, <2>3
  <2> DEFINE t == [i \in 1 .. n + 1 |-> IF i <= n THEN s[i] ELSE m]
  <2>5. /\ s \in [1 .. n -> u \ {m}]
        /\ \A i, j \in 1 .. n : i # j => s[i] # s[j]
        /\ \A i, j \in 1 .. n : i < j => s[i] < s[j]
    BY <2>3, <2>4 DEF Orders, SetToSeqs
  <2>6. t \in [1 .. n + 1 -> u]
    BY <2>2, <2>5
  <2>7. \A i, j \in 1 .. n + 1 : i < j => t[i] < t[j]
    <3> SUFFICES ASSUME NEW i \in 1 .. n + 1, NEW j \in 1 .. n + 1, i < j
                 PROVE  t[i] < t[j]
      OBVIOUS
    <3>1. i \in 1 .. n /\ t[i] = s[i] /\ s[i] \in u \ {m}
      BY <2>5
    <3>2. CASE j \in 1 .. n
      BY <2>5, <3>1, <3>2
    <3>3. CASE j \notin 1 .. n
      <4>1. t[j] = m
        BY <3>3
      <4>2. s[i] <= m /\ s[i] # m /\ s[i] \in Nat /\ m \in Nat
        BY <2>2, <3>1
      <4> QED
        BY <3>1, <4>1, <4>2
    <3> QED
      BY <3>2, <3>3
  <2>8. \A i, j \in 1 .. n + 1 : i # j => t[i] # t[j]
    <3>1. \A i \in 1 .. n + 1 : t[i] \in Nat
      BY <2>6
    <3> HIDE DEF t
    <3> QED
      BY <2>7, <3>1
  <2>9. DOMAIN t = 1 .. n + 1 /\ Cardinality(u) = n + 1
    OBVIOUS
  <2> HIDE DEF t
  <2>10. Orders(t, u)
    BY <2>6, <2>7, <2>8, <2>9 DEF Orders, SetToSeqs
  <2> QED
    BY <2>10
<1> HIDE DEF T
<1>3. \A n \in Nat : n \in T
  BY <1>1, <1>2, Induction
<1>4. Sized(S, Cardinality(S)) /\ Cardinality(S) \in Nat
  BY FS_CardinalityType
<1>5. Cardinality(S) \in T
  BY <1>3, <1>4
<1> QED
  <2> HIDE DEF Sized
  <2> QED
    BY <1>4, <1>5 DEF T

\* InOrder gives a sequence of the names.
LEMMA OrderedNames ==
    ASSUME NEW S, IsFiniteSet(S), S \subseteq Nat
    PROVE  IsSequence(InOrder(S)) /\ \A i \in DOMAIN InOrder(S) : InOrder(S)[i] \in S
<1> DEFINE s == InOrder(S)
<1>1. Orders(s, S)
  BY Orderable DEF InOrder, Orders
<1>2. s \in [1 .. Cardinality(S) -> S] /\ Cardinality(S) \in Nat
  BY <1>1, FS_CardinalityType DEF Orders, SetToSeqs
<1> HIDE DEF s
<1>3. s = [i \in 1 .. Cardinality(S) |-> s[i]] /\ \A i \in DOMAIN s : s[i] \in S
  BY <1>2
<1>4. IsSequence(s)
  BY <1>2, <1>3, SequenceOf
<1> QED
  BY <1>3, <1>4 DEF s

-----------------------------------------------------------------------------
(* Slices and omissions.  C is what was read of each file so far.           *)

\* A slice shows lines of what was read of its file, for reasons that the
\* alert gives.
IsSlice(s, paths, C) ==
    /\ s = [path |-> s.path, digest |-> s.digest, selection |-> s.selection,
            first |-> s.first, last |-> s.last, name |-> s.name,
            references |-> s.references]
    /\ s.path \in DOMAIN C /\ s.digest = C[s.path] /\ s.digest \in DOMAIN Documents
    /\ s.selection \in Selections
    /\ s.first \in Nat \ {0} /\ s.last \in Nat
    /\ s.last <= Len(Documents[s.digest].bytes)
    /\ IsSequence(s.references)
    /\ \A k \in DOMAIN s.references :
         /\ s.references[k].ordinal \in {0} \cup DOMAIN paths
         /\ s.references[k].location.digest \in {"none", s.digest}

\* An omission that the builder may declare.
IsOmission(o) == o.code \in Codes /\ o = Omission(o.code, o.path, o.detail)

\* The tokens of a slice are a number.
LEMMA SliceCounts ==
    ASSUME NEW s, NEW paths, NEW C, IsSlice(s, paths, C)
    PROVE  SliceTokens(s) \in Nat
BY EstimatesAreNumbers DEF IsSlice

\* The smaller of two numbers.
LEMMA SmallerOfTwo ==
    ASSUME NEW a \in Nat, NEW b \in Nat
    PROVE  Min({a, b}) \in Nat /\ Min({a, b}) <= a /\ Min({a, b}) <= b
<1>1. \E x \in {a, b} : \A y \in {a, b} : x <= y
  <2>1. CASE a <= b
    BY <2>1
  <2>2. CASE ~ (a <= b)
    BY <2>2
  <2> QED
    BY <2>1, <2>2
<1> QED
  BY <1>1 DEF Min

\* An omission of a known code is one.
LEMMA OmissionIs ==
    ASSUME NEW code \in Codes, NEW path, NEW detail
    PROVE  IsOmission(Omission(code, path, detail))
BY DEF IsOmission, Omission

\* A callable of the document of a slice, shown because the slice calls it.
LEMMA CalleeIsSlice ==
    ASSUME NEW s, NEW paths, NEW C, IsSlice(s, paths, C), NEW name,
           NEW f \in Documents[s.digest].functions
    PROVE  IsSlice([Enclosing(s.path, s.digest, f)
                      EXCEPT !.references = <<CallSite(s, name)>>], paths, C)
<1> DEFINE r == CallSite(s, name)
           t == [path |-> s.path, digest |-> s.digest, selection |-> "enclosing_function",
                 first |-> f.first, last |-> f.last, name |-> f.name, references |-> <<r>>]
           lines == 1 .. Len(Documents[s.digest].bytes)
<1>1. r.ordinal = 0 /\ r.location.digest = s.digest
  BY DEF CallSite, Named
<1> HIDE DEF r
<1>2. [Enclosing(s.path, s.digest, f) EXCEPT !.references = <<r>>] = t
  BY DEF Enclosing, Slice
<1>3. f.first \in lines /\ f.last \in lines
  BY SliceContextAssumption DEF IsSlice, IsDocument
<1>4. Documents[s.digest].bytes \in Seq(Nat)
  BY SliceContextAssumption DEF IsSlice, IsDocument
<1>5. Len(Documents[s.digest].bytes) \in Nat
  BY <1>4
<1>6. f.first \in Nat \ {0} /\ f.last \in Nat /\ f.last <= Len(Documents[s.digest].bytes)
  BY <1>3, <1>5
<1>7. /\ IsSequence(<<r>>)
      /\ \A k \in DOMAIN <<r>> : <<r>>[k] = r
  BY OneElement
<1>8. \A k \in DOMAIN <<r>> : <<r>>[k].ordinal \in {0} \cup DOMAIN paths
                              /\ <<r>>[k].location.digest \in {"none", s.digest}
  BY <1>1, <1>7
<1>9. s.path \in DOMAIN C /\ s.digest = C[s.path] /\ s.digest \in DOMAIN Documents
  BY DEF IsSlice
<1>10. "enclosing_function" \in Selections
  BY DEF Selections
<1>11. IsSlice(t, paths, C)
  BY <1>6, <1>7, <1>8, <1>9, <1>10 DEF IsSlice
<1> QED
  BY <1>2, <1>11 DEF r

\* The names that a slice calls can be put in order.
LEMMA CalledNamesAre ==
    ASSUME NEW s, s.digest \in DOMAIN Documents, NEW S, S \subseteq CalledNames(s)
    PROVE  IsFiniteSet(S) /\ S \subseteq Nat
<1> DEFINE calls == Documents[s.digest].calls
           here == {d \in calls : s.first <= d.line /\ d.line <= s.last}
           f == [c \in calls |-> c.name]
           names == {f[c] : c \in here}
<1>1. IsFiniteSet(calls) /\ \A c \in calls : c.name \in Nat
  BY SliceContextAssumption DEF IsDocument
<1> HIDE DEF calls
<1>2. IsFiniteSet(here) /\ here \subseteq calls
  BY <1>1, FS_Subset
<1>3. names = {c.name : c \in here}
  BY <1>2
<1>4. IsFiniteSet(names)
  <2> HIDE DEF here, f
  <2> QED
    BY <1>2, FiniteImage
<1>5. S \subseteq names
  BY <1>3 DEF CalledNames, calls
<1>6. names \subseteq Nat
  BY <1>1, <1>2
<1> HIDE DEF names
<1> QED
  BY <1>4, <1>5, <1>6, FS_Subset

\* What a slice calls, and what of it is left out.
LEMMA CalleesAre ==
    ASSUME NEW s, NEW paths, NEW C, IsSlice(s, paths, C)
    PROVE  /\ IsSequence(Callees(s).slices) /\ IsSequence(Callees(s).omissions)
           /\ \A t \in Range(Callees(s).slices) : IsSlice(t, paths, C)
           /\ \A o \in Range(Callees(s).omissions) : IsOmission(o)
<1> DEFINE Of(n) == Definitions(s.digest, n)
           U == {n \in CalledNames(s) : Cardinality(Of(n)) = 1}
           M == {n \in CalledNames(s) : Cardinality(Of(n)) > 1}
           unique == InOrder(U)
           many == InOrder(M)
           k == Min({Len(unique), MaximumCallees})
           kept == SubSeq(unique, 1, k)
           Callee(n) == [Enclosing(s.path, s.digest, CHOOSE f \in Of(n) : TRUE)
                           EXCEPT !.references = <<CallSite(s, n)>>]
           slices == [i \in DOMAIN kept |-> Callee(kept[i])]
           twice == [i \in DOMAIN many |->
                       Omission("function_boundary_unresolved", s.path, <<0, many[i]>>)]
           more == IF Len(unique) <= MaximumCallees THEN <<>>
                   ELSE <<Omission("resource_context_bound", s.path,
                                   <<Len(unique) - MaximumCallees>>)>>
<1>1. Callees(s) = [slices |-> slices, omissions |-> twice \o more]
  BY DEF Callees
<1>2. s.digest \in DOMAIN Documents /\ U \subseteq CalledNames(s) /\ M \subseteq CalledNames(s)
  BY DEF IsSlice
<1>3. \A n \in U : IsSlice(Callee(n), paths, C)
  <2> SUFFICES ASSUME NEW n \in U
               PROVE  IsSlice(Callee(n), paths, C)
    OBVIOUS
  <2>1. Of(n) # {}
    BY FS_EmptySet
  <2> DEFINE g == CHOOSE f \in Of(n) : TRUE
  <2>2. g \in Of(n)
    BY <2>1
  <2>3. g \in Documents[s.digest].functions
    BY <2>2 DEF Definitions
  <2> HIDE DEF g
  <2>4. IsSlice([Enclosing(s.path, s.digest, g) EXCEPT !.references = <<CallSite(s, n)>>],
                paths, C)
    BY <2>3, CalleeIsSlice
  <2> QED
    BY <2>4 DEF g
<1> HIDE DEF U, M, Callee
<1>4. /\ IsSequence(unique) /\ \A i \in DOMAIN unique : unique[i] \in U
      /\ IsSequence(many)
  BY <1>2, CalledNamesAre, OrderedNames
<1> HIDE DEF unique, many
<1>5. DOMAIN unique = 1 .. Len(unique) /\ Len(unique) \in Nat
      /\ DOMAIN many = 1 .. Len(many) /\ Len(many) \in Nat
  BY <1>4, Sequences
<1>6. k \in Nat /\ k <= Len(unique)
  BY <1>5, SmallerOfTwo, SliceContextAssumption
<1> HIDE DEF k
<1>7. DOMAIN kept = 1 .. k /\ \A i \in 1 .. k : kept[i] = unique[i] /\ kept[i] \in U
  BY <1>4, <1>5, <1>6
<1> HIDE DEF kept
<1>8. slices = [i \in 1 .. k |-> slices[i]] /\ \A i \in 1 .. k : slices[i] = Callee(kept[i])
  BY <1>7
<1> HIDE DEF slices
<1>9. IsSequence(slices) /\ \A t \in Range(slices) : IsSlice(t, paths, C)
  <2>1. IsSequence(slices) /\ DOMAIN slices = 1 .. k
    BY <1>6, <1>8, SequenceOf
  <2> QED
    BY <2>1, <1>3, <1>7, <1>8 DEF Range
<1>10. /\ twice = [i \in 1 .. Len(many) |-> twice[i]]
       /\ \A i \in 1 .. Len(many) : twice[i] = Omission("function_boundary_unresolved",
                                                        s.path, <<0, many[i]>>)
  BY <1>5
<1> HIDE DEF twice
<1>11. IsSequence(twice) /\ \A o \in Range(twice) : IsOmission(o)
  <2>1. IsSequence(twice) /\ DOMAIN twice = 1 .. Len(many)
    BY <1>5, <1>10, SequenceOf
  <2>2. "function_boundary_unresolved" \in Codes
    BY DEF Codes
  <2>3. \A i \in 1 .. Len(many) : IsOmission(twice[i])
    BY <1>10, <2>2, OmissionIs
  <2> QED
    BY <2>1, <2>3 DEF Range
<1>12. IsSequence(more) /\ \A o \in Range(more) : IsOmission(o)
  <2> DEFINE o == Omission("resource_context_bound", s.path,
                           <<Len(unique) - MaximumCallees>>)
  <2>1. "resource_context_bound" \in Codes
    BY DEF Codes
  <2>2. IsOmission(o)
    BY <2>1, OmissionIs
  <2>3. more = <<>> \/ more = <<o>>
    OBVIOUS
  <2> HIDE DEF o, more
  <2>4. CASE more = <<>>
    BY <2>4, EmptySequence
  <2>5. CASE more = <<o>>
    BY <2>2, <2>5, OneElement
  <2> QED
    BY <2>3, <2>4, <2>5
<1> HIDE DEF more
<1>13. IsSequence(twice \o more) /\ Range(twice \o more) = Range(twice) \cup Range(more)
  BY <1>11, <1>12, Joined
<1> QED
  BY <1>1, <1>9, <1>11, <1>12, <1>13

-----------------------------------------------------------------------------
(* The budget. *)

\* No two slices are taken for one.
Distinct(slices) ==
    \A i, j \in DOMAIN slices : SameSlice(slices[i], slices[j]) => i = j

\* The tokens are counted, and within the budget when anything is shown.
Spent(a, own) ==
    /\ a.tokens = own + Total(a.slices)
    /\ a.slices = <<>> \/ a.tokens <= Budget

\* What Admit goes on with: slices of S and omissions of O, within the budget.
Accumulators(S, O, own) ==
    {a \in [slices : Seq(S), tokens : Nat, omissions : Seq(O)] : Spent(a, own)}

\* The omissions of slices that the budget does not allow.
Exceeded(S, reasons) ==
    {Omission("token_budget_exceeded", x.path, r) : x \in S, r \in reasons}

\* Nothing that was shown or declared is lost.
Grown(a, b) ==
    Range(a.slices) \subseteq Range(b.slices) /\ Range(a.omissions) \subseteq Range(b.omissions)

\* The slice is shown, or an omission is declared for its file.
Met(x, a) == x \in Range(a.slices) \/ \E o \in Range(a.omissions) : o.path = x.path

\* What one call of Admit does.
Admits(a, x, reason, b) ==
    \/ /\ b.slices = a.slices
       /\ b.omissions = Append(a.omissions,
                               Omission("token_budget_exceeded", x.path, reason))
    \/ b.slices = Append(a.slices, x) /\ b.omissions = a.omissions

\* The updates of an accumulator.
LeftOut(a, y) == [a EXCEPT !.omissions = y]
TakenIn(a, y, z) == [a EXCEPT !.slices = y, !.tokens = z]

\* What an update of an accumulator gives.
LEMMA RecordUpdates ==
    ASSUME NEW a, NEW y, NEW z,
           a = [slices |-> a.slices, tokens |-> a.tokens, omissions |-> a.omissions]
    PROVE  /\ LeftOut(a, y) = [slices |-> a.slices, tokens |-> a.tokens, omissions |-> y]
           /\ TakenIn(a, y, z) = [slices |-> y, tokens |-> z, omissions |-> a.omissions]
<1> DEFINE u == a.slices
           v == a.tokens
           w == a.omissions
           r == [a EXCEPT !.slices = y]
<1>1. a = [slices |-> u, tokens |-> v, omissions |-> w]
  OBVIOUS
<1> HIDE DEF u, v, w
<1>2. LeftOut(a, y) = [slices |-> u, tokens |-> v, omissions |-> y]
  BY <1>1 DEF LeftOut
<1>3. r = [slices |-> y, tokens |-> v, omissions |-> w]
  BY <1>1
<1> HIDE DEF r
<1>4. [r EXCEPT !.tokens = z] = [slices |-> y, tokens |-> z, omissions |-> w]
  BY <1>3
<1>5. TakenIn(a, y, z) = [slices |-> y, tokens |-> z, omissions |-> w]
  BY <1>4 DEF r, TakenIn
<1> QED
  BY <1>2, <1>5 DEF u, v, w

\* Admit keeps within the budget, whatever the slice.
LEMMA AdmitStays ==
    ASSUME NEW S, NEW O, NEW own \in Nat, \A x \in S : SliceTokens(x) \in Nat,
           NEW a \in Accumulators(S, O, own), NEW x \in S, NEW reason,
           Omission("token_budget_exceeded", x.path, reason) \in O
    PROVE  /\ Admit(a, x, reason) \in Accumulators(S, O, own)
           /\ Admits(a, x, reason, Admit(a, x, reason))
<1> DEFINE o == Omission("token_budget_exceeded", x.path, reason)
           t == SliceTokens(x)
           left == [slices |-> a.slices, tokens |-> a.tokens,
                    omissions |-> Append(a.omissions, o)]
           entered == [slices |-> Append(a.slices, x), tokens |-> a.tokens + t,
                     omissions |-> a.omissions]
<1>1. /\ a = [slices |-> a.slices, tokens |-> a.tokens, omissions |-> a.omissions]
      /\ a.slices \in Seq(S) /\ a.tokens \in Nat /\ a.omissions \in Seq(O)
      /\ Spent(a, own)
  BY DEF Accumulators
<1>2. t \in Nat /\ Budget \in Nat /\ o \in O
  BY SliceContextAssumption
<1>3. Admit(a, x, reason) = IF a.tokens + t > Budget THEN left ELSE entered
  <2>1. Omit(a, o) = left
    <3>1. LeftOut(a, Append(a.omissions, o)) = left
      BY <1>1, RecordUpdates
    <3> QED
      BY <3>1 DEF Omit, LeftOut
  <2>2. [a EXCEPT !.slices = Append(a.slices, x), !.tokens = a.tokens + t] = entered
    <3>1. TakenIn(a, Append(a.slices, x), a.tokens + t) = entered
      BY <1>1, RecordUpdates
    <3> QED
      BY <3>1 DEF TakenIn
  <2> HIDE DEF left, entered
  <2> QED
    BY <2>1, <2>2 DEF Admit
<1>4. CASE a.tokens + t > Budget
  <2>1. Admit(a, x, reason) = left
    BY <1>3, <1>4
  <2> HIDE DEF o, t
  <2>2. left \in [slices : Seq(S), tokens : Nat, omissions : Seq(O)]
    BY <1>1, <1>2
  <2>3. Spent(left, own)
    BY <1>1 DEF Spent
  <2>4. Admits(a, x, reason, left)
    BY DEF Admits, o
  <2> HIDE DEF left
  <2> QED
    BY <2>1, <2>2, <2>3, <2>4 DEF Accumulators
<1>5. CASE ~ (a.tokens + t > Budget)
  <2>1. Admit(a, x, reason) = entered
    BY <1>3, <1>5
  <2>2. entered.tokens <= Budget
    BY <1>1, <1>2, <1>5
  <2> HIDE DEF o
  <2>3. entered \in [slices : Seq(S), tokens : Nat, omissions : Seq(O)]
    <3> HIDE DEF t
    <3> QED
      BY <1>1, <1>2
  <2>4. Estimated(a.slices)
    <3>1. a.slices \in Seq(Range(a.slices)) /\ Range(a.slices) \subseteq S
      BY <1>1, Elements
    <3> QED
      BY <3>1 DEF Estimated, IsSequence
  <2>5. Total(a.slices) \in Nat /\ Total(Append(a.slices, x)) = Total(a.slices) + t
    BY <1>2, <2>4, TotalGrows
  <2>6. Spent(entered, own)
    <3>1. a.tokens + t = own + Total(Append(a.slices, x))
      <4> HIDE DEF t
      <4> QED
        BY <1>1, <1>2, <2>5 DEF Spent
    <3> QED
      BY <2>2, <3>1 DEF Spent
  <2>7. Admits(a, x, reason, entered)
    BY DEF Admits
  <2> HIDE DEF entered
  <2> QED
    BY <2>1, <2>3, <2>6, <2>7 DEF Accumulators
<1> QED
  BY <1>4, <1>5

\* What Admit does to what was shown and left out.
LEMMA AdmitMeets ==
    ASSUME NEW S, NEW O, NEW own, NEW a \in Accumulators(S, O, own), NEW x \in S,
           NEW reason, NEW b \in Accumulators(S, O, own), Admits(a, x, reason, b),
           Omission("token_budget_exceeded", x.path, reason) \in O
    PROVE  /\ Grown(a, b) /\ Met(x, b)
           /\ Range(b.slices) \subseteq Range(a.slices) \cup {x}
<1> DEFINE o == Omission("token_budget_exceeded", x.path, reason)
<1>1. a.slices \in Seq(S) /\ a.omissions \in Seq(O) /\ o \in O
  BY DEF Accumulators
<1>2. o.path = x.path
  BY DEF Omission
<1> HIDE DEF o
<1>3. CASE b.slices = a.slices /\ b.omissions = Append(a.omissions, o)
  <2>1. Range(b.omissions) = Range(a.omissions) \cup {o}
    BY <1>1, <1>3, Appended
  <2> QED
    BY <1>2, <1>3, <2>1 DEF Grown, Met
<1>4. CASE b.slices = Append(a.slices, x) /\ b.omissions = a.omissions
  <2>1. Range(b.slices) = Range(a.slices) \cup {x}
    BY <1>1, <1>4, Appended
  <2> QED
    BY <1>4, <2>1 DEF Grown, Met
<1> QED
  BY <1>3, <1>4 DEF Admits, o

\* A slice that is none of the others is added to distinct ones.
LEMMA DistinctGrows ==
    ASSUME NEW slices, IsSequence(slices), Distinct(slices), NEW x,
           \A i \in DOMAIN slices : ~SameSlice(slices[i], x)
    PROVE  Distinct(Append(slices, x))
<1> DEFINE more == Append(slices, x)
           N == Len(slices)
<1>1. /\ IsSequence(more) /\ Len(more) = N + 1 /\ more[N + 1] = x
      /\ \A i \in DOMAIN slices : more[i] = slices[i]
      /\ DOMAIN slices = 1 .. N /\ N \in Nat
  BY Longer, Sequences DEF IsSequence
<1>2. DOMAIN more = 1 .. N + 1
  BY <1>1, Sequences
<1> HIDE DEF more, N
<1>3. \A i \in DOMAIN more : i = N + 1 \/ i \in DOMAIN slices
  BY <1>1, <1>2
<1>4. \A i \in DOMAIN slices : ~SameSlice(x, slices[i])
  BY DEF SameSlice, SameLines
<1>5. Distinct(more)
  BY <1>1, <1>3, <1>4 DEF Distinct
<1> QED
  BY <1>5 DEF more

\* The same of Admit.
LEMMA AdmitDistinct ==
    ASSUME NEW S, NEW O, NEW own, NEW a \in Accumulators(S, O, own), Distinct(a.slices),
           NEW x, \A i \in DOMAIN a.slices : ~SameSlice(a.slices[i], x),
           NEW reason, NEW b, Admits(a, x, reason, b)
    PROVE  Distinct(b.slices)
<1>1. IsSequence(a.slices)
  <2>1. a.slices \in Seq(S)
    BY DEF Accumulators
  <2> QED
    BY <2>1, Elements DEF IsSequence
<1> QED
  BY <1>1, DistinctGrows DEF Admits

-----------------------------------------------------------------------------
(* WithinBudget and WithCallees. *)

\* Slices and omissions as ContextBuilder makes them, within the budget.
Good(w, own, paths, C) ==
    /\ w = [slices |-> w.slices, tokens |-> w.tokens, omissions |-> w.omissions]
    /\ IsSequence(w.slices) /\ Distinct(w.slices)
    /\ \A s \in Range(w.slices) : IsSlice(s, paths, C)
    /\ IsSequence(w.omissions) /\ \A o \in Range(w.omissions) : IsOmission(o)
    /\ w.tokens \in Nat /\ Spent(w, own)

\* Omissions made of the right parts are omissions.
LEMMA ExceededAre ==
    ASSUME NEW S, NEW reasons, NEW o \in Exceeded(S, reasons)
    PROVE  IsOmission(o)
<1>1. "token_budget_exceeded" \in Codes
  BY DEF Codes
<1>2. PICK x \in S, r \in reasons : o = Omission("token_budget_exceeded", x.path, r)
  BY DEF Exceeded
<1> QED
  BY <1>1, <1>2, OmissionIs

\* A good accumulator is one over any sets that hold its elements.
LEMMA GoodIsAccumulator ==
    ASSUME NEW w, NEW own, NEW paths, NEW C, Good(w, own, paths, C),
           NEW S, Range(w.slices) \subseteq S, NEW O, Range(w.omissions) \subseteq O
    PROVE  w \in Accumulators(S, O, own)
<1>1. w.slices \in Seq(S) /\ w.omissions \in Seq(O) /\ w.tokens \in Nat
  BY Sequences DEF Good
<1>2. w \in [slices : Seq(S), tokens : Nat, omissions : Seq(O)]
  BY <1>1 DEF Good
<1> QED
  BY <1>2 DEF Good, Accumulators

\* What Admit has collected is good, read as a member of Accumulators.
LEMMA AccumulatorIsGood ==
    ASSUME NEW S, NEW O, NEW own, NEW w \in Accumulators(S, O, own), Distinct(w.slices),
           NEW paths, NEW C, \A s \in S : IsSlice(s, paths, C),
           \A o \in O : IsOmission(o)
    PROVE  Good(w, own, paths, C)
<1>1. /\ w = [slices |-> w.slices, tokens |-> w.tokens, omissions |-> w.omissions]
      /\ w.slices \in Seq(S) /\ w.tokens \in Nat /\ w.omissions \in Seq(O) /\ Spent(w, own)
  BY DEF Accumulators
<1>2. /\ w.slices \in Seq(Range(w.slices)) /\ Range(w.slices) \subseteq S
      /\ w.omissions \in Seq(Range(w.omissions)) /\ Range(w.omissions) \subseteq O
  BY <1>1, Elements
<1> QED
  BY <1>1, <1>2 DEF Good, IsSequence

\* The budget admits the selected slices or says which it left out.
LEMMA BudgetIs ==
    ASSUME NEW alert, alert.bytes \in Nat, NEW paths, NEW C,
           NEW selected, IsSequence(selected), Distinct(selected),
           \A s \in Range(selected) : IsSlice(s, paths, C),
           NEW omissions, IsSequence(omissions), \A o \in Range(omissions) : IsOmission(o)
    PROVE  /\ Good(WithinBudget(alert, omissions, selected), Tokens(alert.bytes), paths, C)
           /\ Range(omissions)
                \subseteq Range(WithinBudget(alert, omissions, selected).omissions)
           /\ \A s \in Range(selected) : Met(s, WithinBudget(alert, omissions, selected))
<1> DEFINE own == Tokens(alert.bytes)
           S == Range(selected)
           Why(x, n) == <<x.first, x.last, SliceTokens(x), Max({0, Budget - n})>>
           reasons == {Why(x, n) : x \in S, n \in Nat}
           over == Omission("token_budget_exceeded", alert.primary.path, <<own>>)
           O == Range(omissions) \cup {over} \cup Exceeded(S, reasons)
           start == [slices |-> <<>>, tokens |-> own, omissions |-> omissions]
           base == IF own > Budget THEN Omit(start, over) ELSE start
           A == Accumulators(S, O, own)
           F == [p \in A \X S |-> AdmitSelected(p[1], p[2])]
           w == WithinBudget(alert, omissions, selected)
           N == Len(selected)
           Reason(a, x) == Why(x, a.tokens)
<1>1. own \in Nat /\ Budget \in Nat
  BY SliceContextAssumption DEF Tokens
<1>2. w = AdmittedFrom(base, selected)
  BY DEF WithinBudget, AdmittedFrom
<1>3. \A o \in O : IsOmission(o)
  <2>1. "token_budget_exceeded" \in Codes
    BY DEF Codes
  <2>2. IsOmission(over)
    BY <2>1, OmissionIs
  <2> HIDE DEF over, reasons
  <2> QED
    BY <2>2, ExceededAre
<1> HIDE DEF Why
<1>4. \A a \in A, x \in S : Omission("token_budget_exceeded", x.path, Reason(a, x)) \in O
  <2>1. \A a \in A : a.tokens \in Nat
    BY DEF Accumulators
  <2> HIDE DEF A
  <2>2. \A a \in A, x \in S : Reason(a, x) \in reasons
    BY <2>1
  <2> HIDE DEF reasons, Reason
  <2>3. \A a \in A, x \in S :
           Omission("token_budget_exceeded", x.path, Reason(a, x)) \in Exceeded(S, reasons)
    BY <2>2 DEF Exceeded
  <2> QED
    BY <2>3
<1>5. base \in A /\ base.slices = <<>> /\ Range(omissions) \subseteq Range(base.omissions)
  <2>1. start.slices = <<>> /\ start.tokens = own /\ start.omissions = omissions
    OBVIOUS
  <2>2. <<>> \in Seq(S) /\ omissions \in Seq(O)
    <3>1. Range(omissions) \subseteq O
      OBVIOUS
    <3> HIDE DEF O
    <3> QED
      BY <3>1, Sequences
  <2>3. own = own + Total(<<>>)
    BY <1>1, NoTokens
  <2>4. CASE ~ (own > Budget)
    <3>1. base = start
      BY <2>4
    <3>2. start \in [slices : Seq(S), tokens : Nat, omissions : Seq(O)]
      <4> HIDE DEF S, O, own
      <4> QED
        BY <1>1, <2>2
    <3>3. Spent(start, own)
      BY <2>3 DEF Spent
    <3> HIDE DEF O, S, start, base
    <3> QED
      BY <2>1, <3>1, <3>2, <3>3 DEF Accumulators
  <2>5. CASE own > Budget
    <3> DEFINE full == [slices |-> <<>>, tokens |-> own, omissions |-> Append(omissions, over)]
    <3>1. base = full
      <4>1. base = Omit(start, over)
        BY <2>5
      <4>2. Omit(start, over) = full
        <5>1. start = [slices |-> start.slices, tokens |-> start.tokens,
                       omissions |-> start.omissions]
          OBVIOUS
        <5> DEFINE y == Append(start.omissions, over)
        <5> HIDE DEF start, over
        <5>2. LeftOut(start, y)
                = [slices |-> start.slices, tokens |-> start.tokens, omissions |-> y]
          BY <5>1, RecordUpdates
        <5>3. Omit(start, over) = LeftOut(start, y)
          BY DEF Omit, LeftOut
        <5> QED
          BY <2>1, <5>2, <5>3
      <4> QED
        BY <4>1, <4>2
    <3>2. Append(omissions, over) \in Seq(O)
          /\ Range(Append(omissions, over)) = Range(omissions) \cup {over}
      <4>1. over \in O
        OBVIOUS
      <4> HIDE DEF O, over
      <4> QED
        BY <2>2, <4>1, Appended
    <3>3. full \in [slices : Seq(S), tokens : Nat, omissions : Seq(O)]
      <4> HIDE DEF S, O, own, over
      <4> QED
        BY <1>1, <2>2, <3>2
    <3>4. Spent(full, own)
      BY <2>3 DEF Spent
    <3>5. full.slices = <<>> /\ Range(omissions) \subseteq Range(full.omissions)
      BY <3>2
    <3> HIDE DEF O, S, full, base
    <3> QED
      BY <3>1, <3>3, <3>4, <3>5 DEF Accumulators
  <2> QED
    BY <2>4, <2>5
<1>6. selected \in Seq(S) /\ \A x \in S : SliceTokens(x) \in Nat
  BY SliceCounts DEF IsSequence
<1> HIDE DEF own, S, O, base, w
<1>7. \A a \in A, x \in S :
         /\ AdmitSelected(a, x) \in A
         /\ Admits(a, x, Reason(a, x), AdmitSelected(a, x))
  <2> SUFFICES ASSUME NEW a \in A, NEW x \in S
               PROVE  /\ AdmitSelected(a, x) \in A
                      /\ Admits(a, x, Reason(a, x), AdmitSelected(a, x))
    OBVIOUS
  <2> DEFINE r == Reason(a, x)
  <2>1. AdmitSelected(a, x) = Admit(a, x, r)
    BY DEF AdmitSelected, Why
  <2>2. Omission("token_budget_exceeded", x.path, r) \in O
    BY <1>4
  <2> HIDE DEF r
  <2>3. Admit(a, x, r) \in A /\ Admits(a, x, r, Admit(a, x, r))
    BY <1>1, <1>6, <2>2, AdmitStays
  <2> QED
    BY <2>1, <2>3 DEF r
<1>8. F \in [A \X S -> A] /\ \A a \in A, x \in S : F[<<a, x>>] = AdmitSelected(a, x)
  <2>1. \A a \in A, x \in S : AdmitSelected(a, x) \in A
    BY <1>7
  <2> HIDE DEF A
  <2> QED
    BY <2>1
<1>9. PICK acc : Runs(acc, A, S, F, base, selected, w)
  <2> HIDE DEF A, F
  <2> QED
    BY <1>2, <1>5, <1>6, <1>8, AdmittedFold
<1> HIDE DEF F, Reason
<1>10. N \in Nat /\ DOMAIN selected = 1 .. N /\ \A n \in 1 .. N : selected[n] \in S
  BY <1>6
<1> DEFINE Seen(n) ==
             /\ Distinct(acc[n].slices)
             /\ \A s \in Range(acc[n].slices) : \E m \in 1 .. n : s = selected[m]
             /\ Range(omissions) \subseteq Range(acc[n].omissions)
             /\ \A m \in 1 .. n : Met(selected[m], acc[n])
           T == {n \in Nat : n <= N => Seen(n)}
<1> HIDE DEF N
<1>11. 0 \in T
  <2>1. acc[0] = base
    BY <1>9 DEF Runs
  <2>2. Distinct(acc[0].slices) /\ Range(acc[0].slices) = {}
    BY <1>5, <2>1, EmptySequence DEF Distinct
  <2> QED
    BY <1>5, <2>1, <2>2
<1>12. ASSUME NEW n \in Nat, n \in T
       PROVE  n + 1 \in T
  <2> SUFFICES ASSUME n + 1 <= N
               PROVE  Seen(n + 1)
    OBVIOUS
  <2> DEFINE k == n + 1
  <2>1. k \in 1 .. N /\ n <= N /\ k - 1 = n /\ n \in 0 .. N /\ k \in 0 .. N
        /\ \A m \in 1 .. k : m = k \/ m \in 1 .. n
    BY <1>10
  <2>2. Seen(n)
    BY <1>12, <2>1
  <2> HIDE DEF k, Seen
  <2> DEFINE a == acc[n]
             b == acc[k]
             x == selected[k]
  <2>3. a \in A /\ b \in A /\ x \in S /\ b = AdmitSelected(a, x)
    BY <1>8, <1>9, <1>10, <2>1 DEF Runs, N
  <2>4. Admits(a, x, Reason(a, x), b)
        /\ Omission("token_budget_exceeded", x.path, Reason(a, x)) \in O
    <3> HIDE DEF A, a, b, x
    <3> QED
      BY <1>4, <1>7, <2>3
  <2>5. /\ Grown(a, b) /\ Met(x, b)
        /\ Range(b.slices) \subseteq Range(a.slices) \cup {x}
    <3> HIDE DEF a, b, x
    <3> QED
      BY <2>3, <2>4, AdmitMeets
  <2>6. \A i \in DOMAIN a.slices : ~SameSlice(a.slices[i], x)
    <3> SUFFICES ASSUME NEW i \in DOMAIN a.slices, SameSlice(a.slices[i], x)
                 PROVE  FALSE
      OBVIOUS
    <3>1. a.slices[i] \in Range(a.slices)
      BY DEF Range
    <3>2. PICK m \in 1 .. n : a.slices[i] = selected[m]
      BY <2>2, <3>1 DEF Seen
    <3>3. m \in DOMAIN selected /\ k \in DOMAIN selected /\ m # k
      BY <1>10, <2>1
    <3> QED
      BY <3>2, <3>3 DEF Distinct
  <2>7. Distinct(b.slices)
    <3>1. Distinct(a.slices)
      BY <2>2 DEF Seen
    <3> HIDE DEF a, b, x
    <3> QED
      BY <2>3, <2>4, <2>6, <3>1, AdmitDistinct
  <2>8. \A s \in Range(b.slices) : \E m \in 1 .. k : s = selected[m]
    <3>1. k \in 1 .. k /\ 1 .. n \subseteq 1 .. k
      BY <2>1
    <3> QED
      BY <2>2, <2>5, <3>1 DEF Seen
  <2>9. \A m \in 1 .. k : Met(selected[m], b)
    <3>1. \A y : Met(y, a) => Met(y, b)
      BY <2>5 DEF Met, Grown
    <3> QED
      BY <2>1, <2>2, <2>5, <3>1 DEF Seen
  <2>10. Range(omissions) \subseteq Range(b.omissions)
    BY <2>2, <2>5 DEF Seen, Grown
  <2>11. Seen(k)
    BY <2>7, <2>8, <2>9, <2>10 DEF Seen
  <2> QED
    BY <2>11 DEF k
<1>13. Seen(N)
  <2>1. \A n \in Nat : n \in T
    <3> HIDE DEF T
    <3> QED
      BY <1>11, <1>12, Induction
  <2>2. N \in T /\ N <= N
    BY <1>10, <2>1
  <2> QED
    BY <2>2
<1>14. acc[N] = w /\ w \in A
  <2>1. N \in 0 .. N
    BY <1>10
  <2> QED
    BY <1>9, <2>1 DEF Runs, N
<1>15. Good(w, own, paths, C)
  <2>1. Distinct(w.slices)
    BY <1>13, <1>14
  <2>2. \A s \in S : IsSlice(s, paths, C)
    BY DEF S
  <2> HIDE DEF A
  <2>3. w \in Accumulators(S, O, own)
    BY <1>14 DEF A
  <2> QED
    BY <1>3, <2>1, <2>2, <2>3, AccumulatorIsGood
<1>16. /\ Range(omissions) \subseteq Range(w.omissions)
       /\ \A s \in S : Met(s, w)
  <2>1. \A s \in S : \E m \in 1 .. N : s = selected[m]
    BY <1>10 DEF S, Range
  <2> QED
    BY <1>13, <1>14, <2>1
<1> QED
  BY <1>15, <1>16 DEF own, S, w

\* The callees keep what was shown and within the budget.
LEMMA WithCalleesIs ==
    ASSUME NEW w, NEW own \in Nat, NEW paths, NEW C, Good(w, own, paths, C)
    PROVE  Good(WithCallees(w), own, paths, C) /\ Grown(w, WithCallees(w))
<1> DEFINE B == Range(w.slices)
           S == B \cup (UNION {Range(Callees(s).slices) : s \in B})
           Why(x) == <<x.name>>
           reasons == {Why(x) : x \in S}
           O == Range(w.omissions) \cup (UNION {Range(Callees(s).omissions) : s \in B})
                  \cup Exceeded(S, reasons)
           All == Accumulators(S, O, own)
           A == {a \in All : Distinct(a.slices) /\ Grown(w, a)}
           F == [p \in A \X S |-> AdmitCallee(p[1], p[2])]
           G == [p \in A \X B |-> WithCalleesOf(p[1], p[2])]
<1>1. \A s \in B : IsSlice(s, paths, C)
  BY DEF Good
<1>2. \A s \in B : /\ IsSequence(Callees(s).slices) /\ IsSequence(Callees(s).omissions)
                   /\ \A t \in Range(Callees(s).slices) : IsSlice(t, paths, C)
                   /\ \A o \in Range(Callees(s).omissions) : IsOmission(o)
  BY <1>1, CalleesAre
<1>3. \A s \in S : IsSlice(s, paths, C)
  <2> HIDE DEF B
  <2> QED
    BY <1>1, <1>2
<1>4. \A o \in O : IsOmission(o)
  <2>1. \A o \in Range(w.omissions) : IsOmission(o)
    BY DEF Good
  <2> HIDE DEF B, reasons, S
  <2> QED
    BY <1>2, <2>1, ExceededAre
<1>5. /\ B \subseteq S /\ \A s \in B : Range(Callees(s).slices) \subseteq S
      /\ Range(w.omissions) \subseteq O
      /\ \A s \in B : Range(Callees(s).omissions) \subseteq O
      /\ \A x \in S : Omission("token_budget_exceeded", x.path, Why(x)) \in O
  <2>1. /\ B \subseteq S /\ \A s \in B : Range(Callees(s).slices) \subseteq S
        /\ Range(w.omissions) \subseteq O
        /\ \A s \in B : Range(Callees(s).omissions) \subseteq O
    <3> HIDE DEF B, reasons
    <3> QED
      OBVIOUS
  <2> HIDE DEF S, Why
  <2>2. \A x \in S : Why(x) \in reasons
    OBVIOUS
  <2> HIDE DEF reasons
  <2>3. \A x \in S : Omission("token_budget_exceeded", x.path, Why(x)) \in O
    BY <2>2 DEF Exceeded
  <2> QED
    BY <2>1, <2>3
<1>6. w \in A
  <2>1. B = Range(w.slices)
    OBVIOUS
  <2> HIDE DEF B, S, O
  <2>2. w \in All
    BY <1>5, <2>1, GoodIsAccumulator
  <2>3. Distinct(w.slices) /\ Grown(w, w)
    BY DEF Good, Grown
  <2> HIDE DEF All
  <2> QED
    BY <2>2, <2>3
<1> HIDE DEF S, O, B, reasons
<1>7. \A a \in A, x \in S : AdmitCallee(a, x) \in A
  <2> SUFFICES ASSUME NEW a \in A, NEW x \in S
               PROVE  AdmitCallee(a, x) \in A
    OBVIOUS
  <2> DEFINE y == Why(x)
             b == Admit(a, x, y)
  <2>1. CASE \E i \in DOMAIN a.slices : SameLines(a.slices[i], x)
    BY <2>1 DEF AdmitCallee
  <2>2. CASE ~ \E i \in DOMAIN a.slices : SameLines(a.slices[i], x)
    <3>1. AdmitCallee(a, x) = b
      BY <2>2 DEF AdmitCallee
    <3>2. a \in Accumulators(S, O, own) /\ Distinct(a.slices) /\ Grown(w, a)
      OBVIOUS
    <3>3. Omission("token_budget_exceeded", x.path, y) \in O
      BY <1>5
    <3> HIDE DEF y, A, All
    <3>4. b \in Accumulators(S, O, own) /\ Admits(a, x, y, b)
      <4>1. \A z \in S : SliceTokens(z) \in Nat
        BY <1>3, SliceCounts
      <4> QED
        BY <3>2, <3>3, <4>1, AdmitStays
    <3> HIDE DEF b
    <3>5. Grown(a, b)
      BY <3>2, <3>3, <3>4, AdmitMeets
    <3>6. \A i \in DOMAIN a.slices : ~SameSlice(a.slices[i], x)
      BY <2>2 DEF SameSlice
    <3>7. Distinct(b.slices)
      BY <3>2, <3>4, <3>6, AdmitDistinct
    <3>8. Grown(w, b)
      BY <3>2, <3>5 DEF Grown
    <3> QED
      BY <3>1, <3>4, <3>7, <3>8 DEF A, All
  <2> QED
    BY <2>1, <2>2
<1>8. F \in [A \X S -> A] /\ \A a \in A, x \in S : F[<<a, x>>] = AdmitCallee(a, x)
  <2> HIDE DEF A
  <2> QED
    BY <1>7
<1> HIDE DEF F
<1>9. \A a \in A, s \in B : WithCalleesOf(a, s) \in A
  <2> SUFFICES ASSUME NEW a \in A, NEW s \in B
               PROVE  WithCalleesOf(a, s) \in A
    OBVIOUS
  <2> DEFINE more == Callees(s).omissions
             calls == Callees(s).slices
             y == a.omissions \o more
             b == LeftOut(a, y)
             c == [slices |-> a.slices, tokens |-> a.tokens, omissions |-> y]
  <2>1. more \in Seq(O) /\ calls \in Seq(S)
    BY <1>2, <1>5, Sequences
  <2>2. WithCalleesOf(a, s) = CalleesFrom(b, calls)
    BY DEF WithCalleesOf, CalleesFrom, LeftOut
  <2>3. /\ a = [slices |-> a.slices, tokens |-> a.tokens, omissions |-> a.omissions]
        /\ a.slices \in Seq(S) /\ a.tokens \in Nat /\ a.omissions \in Seq(O)
        /\ Spent(a, own) /\ Distinct(a.slices) /\ Grown(w, a)
    BY DEF Accumulators
  <2> HIDE DEF more, calls
  <2>4. y \in Seq(O) /\ Range(y) = Range(a.omissions) \cup Range(more)
    BY <2>1, <2>3, Concatenated
  <2> HIDE DEF y
  <2>5. b = c
    BY <2>3, RecordUpdates
  <2>6. c \in [slices : Seq(S), tokens : Nat, omissions : Seq(O)]
    BY <2>3, <2>4
  <2>7. Spent(c, own) /\ Distinct(c.slices) /\ Grown(w, c)
    BY <2>3, <2>4 DEF Spent, Grown
  <2> HIDE DEF b, c
  <2>8. b \in A
    BY <2>5, <2>6, <2>7 DEF Accumulators
  <2> HIDE DEF A
  <2>9. PICK acc : Runs(acc, A, S, F, b, calls, CalleesFrom(b, calls))
    BY <1>8, <2>1, <2>8, CalleesFold
  <2>10. Len(calls) \in 0 .. Len(calls)
    BY <2>1
  <2>11. CalleesFrom(b, calls) \in A
    BY <2>9, <2>10 DEF Runs
  <2> QED
    BY <2>2, <2>11
<1>10. G \in [A \X B -> A] /\ \A a \in A, s \in B : G[<<a, s>>] = WithCalleesOf(a, s)
  <2> HIDE DEF A
  <2> QED
    BY <1>9
<1> HIDE DEF G
<1>11. WithCallees(w) \in A
  <2>1. w.slices \in Seq(B)
    BY DEF Good, IsSequence, B
  <2>2. WithCallees(w) = AllCalleesFrom(w, w.slices)
    BY DEF WithCallees, AllCalleesFrom
  <2> HIDE DEF A
  <2>3. PICK acc : Runs(acc, A, B, G, w, w.slices, AllCalleesFrom(w, w.slices))
    BY <1>6, <1>10, <2>1, AllCalleesFold
  <2>4. Len(w.slices) \in 0 .. Len(w.slices)
    BY <2>1
  <2> QED
    BY <2>2, <2>3, <2>4 DEF Runs
<1>12. /\ WithCallees(w) \in Accumulators(S, O, own)
       /\ Distinct(WithCallees(w).slices) /\ Grown(w, WithCallees(w))
  BY <1>11
<1> QED
  BY <1>3, <1>4, <1>12, AccumulatorIsGood

-----------------------------------------------------------------------------
(* Deduplicated. *)

\* Every omission is kept, once.
LEMMA DeduplicatedIs ==
    ASSUME NEW s, IsSequence(s)
    PROVE  /\ IsSequence(Deduplicated(s)) /\ IsInjective(Deduplicated(s))
           /\ Range(Deduplicated(s)) = Range(s)
<1> DEFINE O == Range(s)
           A == {q \in Seq(O) : IsInjective(q)}
           F == [p \in A \X O |-> Keep(p[1], p[2])]
           d == Deduplicated(s)
           N == Len(s)
<1>1. s \in Seq(O) /\ N \in Nat /\ DOMAIN s = 1 .. N
  BY Sequences DEF IsSequence
<1>2. d = KeptFrom(<<>>, s)
  BY DEF Deduplicated, KeptFrom
<1>3. <<>> \in A
  BY EmptySequence
<1> HIDE DEF O, d
<1>4. \A q \in A, o \in O : /\ Keep(q, o) \in A /\ Range(q) \subseteq Range(Keep(q, o))
                            /\ o \in Range(Keep(q, o))
  <2> SUFFICES ASSUME NEW q \in A, NEW o \in O
               PROVE  /\ Keep(q, o) \in A /\ Range(q) \subseteq Range(Keep(q, o))
                      /\ o \in Range(Keep(q, o))
    OBVIOUS
  <2>1. Contains(q, o) <=> o \in Range(q)
    BY DEF Contains, Range
  <2>2. CASE o \in Range(q)
    BY <2>1, <2>2 DEF Keep
  <2>3. CASE o \notin Range(q)
    <3>1. Keep(q, o) = Append(q, o)
      BY <2>1, <2>3 DEF Keep
    <3>2. q \in Seq(O) /\ IsInjective(q) /\ Append(q, o) \in Seq(O)
      OBVIOUS
    <3>3. IsSequence(q)
      BY <3>2, Elements DEF IsSequence
    <3>4. IsInjective(Append(q, o)) /\ Range(Append(q, o)) = Range(q) \cup {o}
      BY <2>3, <3>2, <3>3, Longer
    <3> QED
      BY <3>1, <3>2, <3>4
  <2> QED
    BY <2>2, <2>3
<1>5. F \in [A \X O -> A] /\ \A q \in A, o \in O : F[<<q, o>>] = Keep(q, o)
  <2> HIDE DEF A
  <2> QED
    BY <1>4
<1>6. PICK acc : Runs(acc, A, O, F, <<>>, s, d)
  <2> HIDE DEF A, F
  <2> QED
    BY <1>1, <1>2, <1>3, <1>5, KeptFold
<1> DEFINE T == {n \in Nat : n <= N => \A m \in 1 .. n : s[m] \in Range(acc[n])}
<1> HIDE DEF F, N
<1>7. \A n \in Nat : n \in T
  <2>1. 0 \in T
    OBVIOUS
  <2>2. ASSUME NEW n \in Nat, n \in T
        PROVE  n + 1 \in T
    <3> SUFFICES ASSUME n + 1 <= N
                 PROVE  \A m \in 1 .. n + 1 : s[m] \in Range(acc[n + 1])
      OBVIOUS
    <3> DEFINE k == n + 1
    <3>1. k \in 1 .. N /\ n <= N /\ k - 1 = n /\ \A m \in 1 .. k : m = k \/ m \in 1 .. n
      BY <1>1
    <3>2. \A m \in 1 .. n : s[m] \in Range(acc[n])
      BY <2>2, <3>1
    <3> HIDE DEF k
    <3>3. acc[n] \in A /\ s[k] \in O /\ acc[k] = Keep(acc[n], s[k])
      <4> HIDE DEF A
      <4> QED
        BY <1>5, <1>6, <3>1 DEF Runs, N
    <3>4. Range(acc[n]) \subseteq Range(acc[k]) /\ s[k] \in Range(acc[k])
      <4> HIDE DEF A
      <4> QED
        BY <1>4, <3>3
    <3>5. \A m \in 1 .. k : s[m] \in Range(acc[k])
      BY <3>1, <3>2, <3>4
    <3> QED
      BY <3>5 DEF k
  <2> HIDE DEF T
  <2> QED
    BY <2>1, <2>2, Induction
<1>8. acc[N] = d /\ d \in A
  <2>1. N \in 0 .. N
    BY <1>1
  <2> QED
    BY <1>6, <2>1 DEF Runs, N
<1>9. O \subseteq Range(d)
  <2>1. N \in T /\ N <= N
    BY <1>1, <1>7
  <2> QED
    BY <1>1, <1>8, <2>1 DEF O, Range
<1>10. IsSequence(d) /\ IsInjective(d) /\ Range(d) \subseteq O
  BY <1>8, Elements DEF IsSequence
<1> QED
  BY <1>9, <1>10 DEF d, O

-----------------------------------------------------------------------------
(* Taking a reference. *)

\* A slice shows the place of a reference and gives it as a reason.
Shows(s, r) ==
    /\ \E k \in DOMAIN s.references :
         /\ s.references[k].kind = r.kind
         /\ s.references[k].ordinal = r.ordinal
         /\ s.references[k].location.first = r.location.first
    /\ s.path = r.location.path
    /\ s.first <= r.location.first /\ r.location.first <= s.last

\* The place is shown, or an omission is declared for its file.
Handled(r, slices, omissions) ==
    \/ \E s \in Range(slices) : Shows(s, r)
    \/ \E o \in Range(omissions) : o.path = r.location.path

\* The lines of a location.
Positioned(at) ==
    at.first \in Nat \ {0} /\ at.last \in Nat /\ at.first <= at.last

\* An alert of the normalizer.
WellFormed(alert) ==
    /\ Shaped(alert)
    /\ \A i \in DOMAIN References(alert) : Positioned(References(alert)[i].location)

\* The slices and omissions of the references that were taken, as sequences.
Kept(selected, omissions, paths, C) ==
    /\ IsSequence(selected) /\ Distinct(selected)
    /\ \A s \in Range(selected) : IsSlice(s, paths, C)
    /\ IsSequence(omissions) /\ \A o \in Range(omissions) : IsOmission(o)

\* The larger of two numbers.
LEMMA LargerOfTwo ==
    ASSUME NEW a \in Int, NEW b \in Int
    PROVE  /\ Max({a, b}) \in Int /\ Max({a, b}) >= a /\ Max({a, b}) >= b
           /\ Max({a, b}) = a \/ Max({a, b}) = b
<1>1. \E x \in {a, b} : \A y \in {a, b} : x >= y
  <2>1. CASE a <= b
    BY <2>1
  <2>2. CASE ~ (a <= b)
    BY <2>2
  <2> QED
    BY <2>1, <2>2
<1>2. Max({a, b}) \in {a, b} /\ \A y \in {a, b} : Max({a, b}) >= y
  BY <1>1 DEF Max
<1> QED
  BY <1>2

\* The lines of a slice around a place.
Covers(s, at, digest) ==
    /\ s = Slice(at.path, digest, s.selection, s.first, s.last, s.name)
    /\ s.selection \in Selections
    /\ s.first \in Nat \ {0} /\ s.last \in Nat /\ s.last <= Len(Documents[digest].bytes)
    /\ s.first <= at.first /\ at.first <= s.last

\* Select shows the first line of a place that is in the file.
LEMMA SelectCovers ==
    ASSUME NEW digest \in DOMAIN Documents, NEW at, Positioned(at),
           CoordinateError(Documents[digest], at) = <<>>, NEW policy
    PROVE  Covers(Select(policy, digest, at), at, digest)
<1> DEFINE document == Documents[digest]
           count == Len(document.bytes)
           first == Max({1, at.first - Radius})
           last == Min({count, at.last + Radius})
<1>1. document.bytes \in Seq(Nat)
      /\ document.functions \subseteq [first : 1 .. count, last : 1 .. count, name : Nat]
  BY SliceContextAssumption DEF IsDocument
<1>2. count \in Nat /\ Radius \in Nat
  BY <1>1, SliceContextAssumption
<1>3. at.first <= count /\ at.last <= count
  <2>1. ~(at.first > count \/ at.last > count)
    <3> SUFFICES ASSUME at.first > count \/ at.last > count
                 PROVE  FALSE
      OBVIOUS
    <3>1. CoordinateError(document, at) = <<at.first, at.last, count>>
      BY DEF CoordinateError
    <3> QED
      BY <3>1
  <2> HIDE DEF count
  <2> QED
    BY <1>2, <2>1 DEF Positioned
<1>4. /\ at.first \in Nat \ {0} /\ at.last \in Nat /\ at.first <= at.last
  BY DEF Positioned
<1> HIDE DEF count
<1>5. first \in Nat \ {0} /\ first <= at.first
  <2>1. at.first - Radius \in Int /\ at.first - Radius <= at.first /\ 1 \in Int
    BY <1>2, <1>4
  <2>2. first \in Int /\ first >= 1 /\ (first = 1 \/ first = at.first - Radius)
    BY <2>1, LargerOfTwo
  <2> HIDE DEF first
  <2> QED
    BY <1>4, <2>1, <2>2
<1>6. last \in Nat /\ last <= count /\ at.first <= last
  <2>1. at.last + Radius \in Nat /\ at.first <= at.last + Radius
    BY <1>2, <1>4
  <2>2. last \in {count, at.last + Radius} /\ last <= count
    <3>1. \E x \in {count, at.last + Radius} : \A y \in {count, at.last + Radius} : x <= y
      <4>1. CASE count <= at.last + Radius
        BY <4>1, <1>2, <2>1
      <4>2. CASE ~ (count <= at.last + Radius)
        BY <4>2, <1>2, <2>1
      <4> QED
        BY <4>1, <4>2
    <3> QED
      BY <3>1 DEF Min
  <2> HIDE DEF last
  <2> QED
    BY <1>2, <1>3, <2>1, <2>2
<1>7. Covers(FixedWindow(digest, at), at, digest)
  <2>1. FixedWindow(digest, at) = Slice(at.path, digest, "fixed_window", first, last, 0)
    BY DEF FixedWindow, count
  <2> HIDE DEF first, last
  <2>2. Covers(Slice(at.path, digest, "fixed_window", first, last, 0), at, digest)
    BY <1>5, <1>6 DEF Covers, Slice, Selections, count
  <2> QED
    BY <2>1, <2>2
<1>8. ASSUME NEW f \in EnclosingFunction(document, at.first)
      PROVE  Covers(Enclosing(at.path, digest, f), at, digest)
  <2>1. f \in document.functions /\ f.first <= at.first /\ at.first <= f.last
    BY DEF EnclosingFunction
  <2>2. f.first \in Nat \ {0} /\ f.last \in Nat /\ f.last <= count
    BY <1>1, <1>2, <2>1
  <2> QED
    BY <2>1, <2>2 DEF Covers, Enclosing, Slice, Selections, count
<1>9. CASE EnclosingFunction(document, at.first) # {}
  <2> DEFINE g == CHOOSE f \in EnclosingFunction(document, at.first) : TRUE
  <2>1. g \in EnclosingFunction(document, at.first)
    BY <1>9
  <2> HIDE DEF g
  <2>2. Covers(Enclosing(at.path, digest, g), at, digest)
    BY <1>8, <2>1
  <2> QED
    BY <1>7, <2>2 DEF Select, g
<1>10. CASE EnclosingFunction(document, at.first) = {}
  BY <1>7, <1>10 DEF Select
<1> QED
  BY <1>9, <1>10

\* b says what a says of the same lines, and perhaps more.
Extended(a, b) ==
    \A s \in Range(a) : \E x \in Range(b) :
       /\ SameLines(s, x)
       /\ \A k \in DOMAIN s.references :
            k \in DOMAIN x.references /\ x.references[k] = s.references[k]

\* What is taken of an alert is a record of these three.
Fields(t) == t = [next |-> t.next, selected |-> t.selected, omissions |-> t.omissions]

\* What is shown stays shown.
LEMMA StaysShown ==
    ASSUME NEW a, NEW b, Extended(a, b), NEW s \in Range(a), NEW r, Shows(s, r)
    PROVE  \E x \in Range(b) : Shows(x, r)
<1>1. PICK k \in DOMAIN s.references :
         /\ s.references[k].kind = r.kind
         /\ s.references[k].ordinal = r.ordinal
         /\ s.references[k].location.first = r.location.first
  BY DEF Shows
<1>2. PICK x \in Range(b) :
         /\ SameLines(s, x)
         /\ \A j \in DOMAIN s.references :
              j \in DOMAIN x.references /\ x.references[j] = s.references[j]
  BY DEF Extended
<1>3. k \in DOMAIN x.references /\ x.references[k] = s.references[k]
  BY <1>1, <1>2
<1>4. Shows(x, r)
  BY <1>1, <1>2, <1>3 DEF Shows, SameLines
<1> QED
  BY <1>4

\* A reference may give the reason for a slice of its file.
Reason(r, paths, digest) ==
    r.ordinal \in {0} \cup DOMAIN paths /\ r.location.digest \in {"none", digest}

\* A slice with one reference more.
WithReference(s, r) == [s EXCEPT !.references = Append(s.references, r)]

\* What is the same and what is new in a slice with one reference more.
OneMore(s, y, r, paths, C) ==
    /\ IsSlice(y, paths, C) /\ SameSlice(s, y)
    /\ \A k \in DOMAIN s.references :
         k \in DOMAIN y.references /\ y.references[k] = s.references[k]
    /\ \E k \in DOMAIN y.references : y.references[k] = r

\* A slice with one reference more.
LEMMA OneMoreReference ==
    ASSUME NEW s, NEW paths, NEW C, IsSlice(s, paths, C),
           NEW r, Reason(r, paths, s.digest)
    PROVE  OneMore(s, WithReference(s, r), r, paths, C)
<1> DEFINE u == s.references
           v == Append(u, r)
           p == s.path
           d == s.digest
           c == s.selection
           f == s.first
           l == s.last
           m == s.name
           y == WithReference(s, r)
<1>1. s = [path |-> p, digest |-> d, selection |-> c, first |-> f, last |-> l,
           name |-> m, references |-> u]
  BY DEF IsSlice
<1>2. /\ IsSequence(v) /\ Len(v) = Len(u) + 1 /\ Len(u) \in Nat
      /\ \A k \in DOMAIN u : k \in DOMAIN v /\ v[k] = u[k]
      /\ v[Len(u) + 1] = r
  <2>1. IsSequence(u)
    BY DEF IsSlice
  <2> HIDE DEF u
  <2> QED
    BY <2>1, Longer, Sequences DEF IsSequence
<1>3. DOMAIN v = 1 .. Len(u) + 1
  <2> HIDE DEF v
  <2> QED
    BY <1>2, Sequences
<1>4. DOMAIN u = 1 .. Len(u)
  BY Sequences DEF IsSlice
<1> HIDE DEF v
<1>5. \A k \in DOMAIN v : k \in DOMAIN u \/ v[k] = r
  <2>1. \A k \in 1 .. Len(u) + 1 : k \in 1 .. Len(u) \/ k = Len(u) + 1
    BY <1>2
  <2> QED
    BY <1>2, <1>3, <1>4, <2>1
<1>6. Len(u) + 1 \in DOMAIN v
  BY <1>2, <1>3
<1>7. \A k \in DOMAIN v : /\ v[k].ordinal \in {0} \cup DOMAIN paths
                          /\ v[k].location.digest \in {"none", d}
  <2>1. \A k \in DOMAIN u : /\ u[k].ordinal \in {0} \cup DOMAIN paths
                            /\ u[k].location.digest \in {"none", d}
    BY DEF IsSlice
  <2>2. r.ordinal \in {0} \cup DOMAIN paths /\ r.location.digest \in {"none", d}
    BY DEF Reason
  <2> HIDE DEF u, d
  <2> QED
    BY <1>2, <1>5, <2>1, <2>2
<1>8. /\ p \in DOMAIN C /\ d = C[p] /\ d \in DOMAIN Documents /\ c \in Selections
      /\ f \in Nat \ {0} /\ l \in Nat /\ l <= Len(Documents[d].bytes)
  BY DEF IsSlice
<1>9. y = [s EXCEPT !.references = v]
  BY DEF v, WithReference
<1> HIDE DEF y
<1>10. y = [path |-> p, digest |-> d, selection |-> c, first |-> f, last |-> l,
            name |-> m, references |-> v]
  <2> HIDE DEF p, d, c, f, l, m, u
  <2> QED
    BY <1>1, <1>9
<1>11. IsSlice(y, paths, C)
  <2> HIDE DEF p, d, c, f, l, m, u
  <2>1. /\ y.path = p /\ y.digest = d /\ y.selection = c /\ y.first = f /\ y.last = l
        /\ y.name = m /\ y.references = v
    BY <1>10
  <2>2. y = [path |-> y.path, digest |-> y.digest, selection |-> y.selection,
             first |-> y.first, last |-> y.last, name |-> y.name,
             references |-> y.references]
    BY <1>10, <2>1
  <2> QED
    BY <1>2, <1>7, <1>8, <2>1, <2>2 DEF IsSlice
<1>12. SameSlice(s, y) /\ y.references = v
  BY <1>10 DEF SameSlice, SameLines
<1> QED
  BY <1>2, <1>6, <1>11, <1>12 DEF y, OneMore

\* A slice of a readable file, with its first reference.
LEMMA FirstReference ==
    ASSUME NEW s, NEW at, NEW digest \in DOMAIN Documents, Covers(s, at, digest),
           NEW paths, NEW C, at.path \in DOMAIN C, C[at.path] = digest,
           NEW r, Reason(r, paths, digest),
           NEW y, y = [s EXCEPT !.references = <<r>>]
    PROVE  /\ IsSlice(y, paths, C) /\ SameSlice(s, y) /\ y.path = at.path
           /\ \E k \in DOMAIN y.references : y.references[k] = r
<1> DEFINE v == <<r>>
           p == at.path
           c == s.selection
           f == s.first
           l == s.last
           m == s.name
<1>1. s = [path |-> p, digest |-> digest, selection |-> c, first |-> f, last |-> l,
           name |-> m, references |-> <<>>]
  BY DEF Covers, Slice
<1>2. /\ c \in Selections /\ f \in Nat \ {0} /\ l \in Nat
      /\ l <= Len(Documents[digest].bytes)
  BY DEF Covers
<1>3. /\ IsSequence(v) /\ 1 \in DOMAIN v /\ v[1] = r
      /\ \A k \in DOMAIN v : v[k] = r
  BY OneElement
<1>4. y = [s EXCEPT !.references = v]
  OBVIOUS
<1> HIDE DEF v, p, c, f, l, m
<1>5. y = [path |-> p, digest |-> digest, selection |-> c, first |-> f, last |-> l,
           name |-> m, references |-> v]
  BY <1>1, <1>4
<1>6. \A k \in DOMAIN v : /\ v[k].ordinal \in {0} \cup DOMAIN paths
                          /\ v[k].location.digest \in {"none", digest}
  BY <1>3 DEF Reason
<1>7. p \in DOMAIN C /\ digest = C[p]
  BY DEF p
<1>8. IsSlice(y, paths, C)
  <2>1. /\ y.path = p /\ y.digest = digest /\ y.selection = c /\ y.first = f
        /\ y.last = l /\ y.name = m /\ y.references = v
    BY <1>5
  <2>2. y = [path |-> y.path, digest |-> y.digest, selection |-> y.selection,
             first |-> y.first, last |-> y.last, name |-> y.name,
             references |-> y.references]
    BY <1>5, <2>1
  <2> QED
    BY <1>2, <1>3, <1>6, <1>7, <2>1, <2>2 DEF IsSlice
<1>9. SameSlice(s, y) /\ y.references = v /\ y.path = p
  BY <1>1, <1>5 DEF SameSlice, SameLines
<1> QED
  BY <1>3, <1>8, <1>9 DEF p

\* A slice of the selected ones says more.
LEMMA ReplacedSlice ==
    ASSUME NEW selected, IsSequence(selected), Distinct(selected), NEW paths, NEW C,
           \A s \in Range(selected) : IsSlice(s, paths, C),
           NEW i \in DOMAIN selected, NEW y, IsSlice(y, paths, C),
           SameSlice(selected[i], y),
           \A k \in DOMAIN selected[i].references :
              k \in DOMAIN y.references
              /\ y.references[k] = selected[i].references[k],
           NEW more, more = [selected EXCEPT ![i] = y]
    PROVE  /\ IsSequence(more) /\ Distinct(more) /\ y \in Range(more)
           /\ \A s \in Range(more) : IsSlice(s, paths, C)
           /\ Extended(selected, more)
<1>1. /\ DOMAIN more = DOMAIN selected /\ more[i] = y
      /\ \A j \in DOMAIN selected : j # i => more[j] = selected[j]
  OBVIOUS
<1>2. DOMAIN selected = 1 .. Len(selected) /\ Len(selected) \in Nat
  BY Sequences
<1>3. IsSequence([selected EXCEPT ![i] = y])
  <2> DEFINE n == Len(selected)
             g == [selected EXCEPT ![i] = y]
  <2>1. n \in Nat /\ g = [j \in 1 .. n |-> g[j]]
    BY <1>2
  <2> HIDE DEF n, g
  <2>2. IsSequence(g)
    BY <2>1, SequenceOf
  <2> QED
    BY <2>2 DEF g
<1>4. IsSequence(more)
  BY <1>3
<1>5. \A j \in DOMAIN selected : SameSlice(selected[j], more[j])
  BY <1>1 DEF SameSlice, SameLines
<1>6. Distinct(more)
  <2>1. \A j, k \in DOMAIN selected : SameSlice(more[j], more[k])
           => SameSlice(selected[j], selected[k])
    BY <1>5 DEF SameSlice, SameLines
  <2> QED
    BY <1>1, <2>1 DEF Distinct
<1>7. y \in Range(more)
  BY <1>1 DEF Range
<1>8. \A s \in Range(more) : IsSlice(s, paths, C)
  BY <1>1 DEF Range
<1>9. Extended(selected, more)
  <2> SUFFICES ASSUME NEW s \in Range(selected)
               PROVE  \E x \in Range(more) :
                        /\ SameLines(s, x)
                        /\ \A k \in DOMAIN s.references :
                             k \in DOMAIN x.references /\ x.references[k] = s.references[k]
    BY DEF Extended
  <2>1. PICK j \in DOMAIN selected : s = selected[j]
    BY DEF Range
  <2>2. more[j] \in Range(more)
    BY <1>1 DEF Range
  <2>3. CASE j = i
    BY <1>1, <1>7, <2>1, <2>3 DEF SameSlice
  <2>4. CASE j # i
    <3>1. more[j] = s /\ SameLines(s, s)
      BY <1>1, <2>1, <2>4 DEF SameLines
    <3> QED
      BY <2>2, <3>1
  <2> QED
    BY <2>3, <2>4
<1> QED
  BY <1>4, <1>6, <1>7, <1>8, <1>9

\* What is known of u, after the reference r was taken from t.
Referred(t, u, r, paths, C) ==
    /\ Fields(u) /\ u.next = t.next /\ Kept(u.selected, u.omissions, paths, C)
    /\ Extended(t.selected, u.selected)
    /\ Range(t.omissions) \subseteq Range(u.omissions)
    /\ Handled(r, u.selected, u.omissions)

\* A longer sequence of slices says at least as much.
LEMMA LongerExtends ==
    ASSUME NEW a, NEW b, Range(a) \subseteq Range(b)
    PROVE  Extended(a, b)
BY DEF Extended, SameLines

\* Collect adds a slice, or a reason to the one it has of the same lines.
LEMMA CollectIs ==
    ASSUME NEW t, Fields(t), NEW paths, NEW C, Kept(t.selected, t.omissions, paths, C),
           NEW r, NEW s, NEW digest \in DOMAIN Documents, Covers(s, r.location, digest),
           r.location.path \in DOMAIN C, C[r.location.path] = digest,
           Reason(r, paths, digest)
    PROVE  Referred(t, Collect(t, s, r), r, paths, C)
<1> DEFINE at == r.location
           selected == t.selected
           omissions == t.omissions
           next == t.next
           known == {i \in DOMAIN selected :
                       SameLines(selected[i], s) /\ selected[i].selection = s.selection}
           u == Collect(t, s, r)
<1>1. t = [next |-> next, selected |-> selected, omissions |-> omissions]
  BY DEF Fields
<1>2. /\ IsSequence(selected) /\ Distinct(selected)
      /\ \A x \in Range(selected) : IsSlice(x, paths, C)
      /\ IsSequence(omissions) /\ \A o \in Range(omissions) : IsOmission(o)
  BY DEF Kept
<1>3. \A i \in DOMAIN selected : i \in known <=> SameSlice(selected[i], s)
  BY DEF SameSlice
<1> HIDE DEF selected, omissions, next
<1>4. ASSUME NEW more, u = [next |-> next, selected |-> more, omissions |-> omissions],
             IsSequence(more), Distinct(more), \A x \in Range(more) : IsSlice(x, paths, C),
             Extended(selected, more),
             NEW y \in Range(more), SameSlice(s, y),
             \E k \in DOMAIN y.references : y.references[k] = r
      PROVE  Referred(t, u, r, paths, C)
  <2> HIDE DEF u
  <2>1. u.next = next /\ u.selected = more /\ u.omissions = omissions /\ Fields(u)
    BY <1>4 DEF Fields
  <2>2. Shows(y, r)
    <3>1. s.path = at.path /\ s.first <= at.first /\ at.first <= s.last
      BY DEF Covers, Slice
    <3>2. y.path = s.path /\ y.first = s.first /\ y.last = s.last
      BY <1>4 DEF SameSlice, SameLines
    <3>3. PICK k \in DOMAIN y.references : y.references[k] = r
      BY <1>4
    <3>4. /\ y.references[k].kind = r.kind
          /\ y.references[k].ordinal = r.ordinal
          /\ y.references[k].location.first = r.location.first
      BY <3>3
    <3> QED
      BY <3>1, <3>2, <3>4 DEF Shows
  <2>3. Kept(more, omissions, paths, C)
    BY <1>2, <1>4 DEF Kept
  <2>4. Handled(r, more, omissions)
    BY <1>4, <2>2 DEF Handled
  <2>5. next = t.next /\ selected = t.selected /\ omissions = t.omissions
    BY DEF next, selected, omissions
  <2> QED
    BY <1>4, <2>1, <2>3, <2>4, <2>5 DEF Referred
<1>5. CASE known = {}
  <2> DEFINE y == [s EXCEPT !.references = <<r>>]
             more == Append(selected, y)
  <2>1. u = [t EXCEPT !.selected = Append(t.selected, y)]
    BY <1>5 DEF Collect, selected
  <2>2. IsSlice(y, paths, C) /\ SameSlice(s, y)
        /\ \E k \in DOMAIN y.references : y.references[k] = r
    BY FirstReference
  <2> HIDE DEF y, u
  <2>3. [t EXCEPT !.selected = more] = [next |-> next, selected |-> more, omissions |-> omissions]
    BY <1>1
  <2>4. u = [next |-> next, selected |-> more, omissions |-> omissions]
    BY <2>1, <2>3 DEF selected
  <2>5. IsSequence(more) /\ Range(more) = Range(selected) \cup {y}
    BY <1>2, Longer
  <2>6. \A i \in DOMAIN selected : ~SameSlice(selected[i], y)
    <3>1. \A i \in DOMAIN selected : ~SameSlice(selected[i], s)
      BY <1>3, <1>5
    <3> QED
      BY <2>2, <3>1 DEF SameSlice, SameLines
  <2>7. Distinct(more)
    BY <1>2, <2>6, DistinctGrows
  <2>8. \A x \in Range(more) : IsSlice(x, paths, C)
    BY <1>2, <2>2, <2>5
  <2> HIDE DEF more
  <2>9. Extended(selected, more)
    BY <2>5, LongerExtends
  <2>10. y \in Range(more)
    BY <2>5
  <2> QED
    BY <1>4, <2>2, <2>4, <2>5, <2>7, <2>8, <2>9, <2>10 DEF u
<1>6. CASE known # {}
  <2> DEFINE i == CHOOSE j \in known : TRUE
             y == [selected[i] EXCEPT !.references = Append(selected[i].references, r)]
             more == [selected EXCEPT ![i] = y]
  <2>1. i \in known /\ i \in DOMAIN selected
    BY <1>6
  <2>2. SameSlice(selected[i], s)
    BY <1>3, <2>1
  <2>3. u = [t EXCEPT !.selected[i].references = Append(@, r)]
    BY <1>6 DEF Collect, selected
  <2> HIDE DEF i, u, known
  <2>4. u = [next |-> next, selected |-> more, omissions |-> omissions]
    BY <1>1, <2>3
  <2>5. IsSlice(selected[i], paths, C)
    BY <1>2, <2>1 DEF Range
  <2>6. selected[i].digest = digest
    <3>1. selected[i].path = s.path
      BY <2>2 DEF SameSlice, SameLines
    <3>2. s.path = at.path
      BY DEF Covers, Slice
    <3> QED
      BY <2>5, <3>1, <3>2 DEF IsSlice
  <2>7. /\ IsSlice(y, paths, C) /\ SameSlice(selected[i], y)
        /\ \A k \in DOMAIN selected[i].references :
             k \in DOMAIN y.references /\ y.references[k] = selected[i].references[k]
        /\ \E k \in DOMAIN y.references : y.references[k] = r
    <3> DEFINE x == selected[i]
    <3>1. IsSlice(x, paths, C) /\ Reason(r, paths, x.digest)
      BY <2>5, <2>6
    <3>2. y = WithReference(x, r)
      BY DEF WithReference
    <3> HIDE DEF x, y
    <3>3. OneMore(x, y, r, paths, C)
      BY <3>1, <3>2, OneMoreReference
    <3> QED
      BY <3>3 DEF x, OneMore
  <2>8. SameSlice(s, y)
    BY <2>2, <2>7 DEF SameSlice, SameLines
  <2> HIDE DEF y
  <2>9. more = [selected EXCEPT ![i] = y]
    OBVIOUS
  <2> HIDE DEF more
  <2>10. /\ IsSequence(more) /\ Distinct(more) /\ y \in Range(more)
         /\ \A x \in Range(more) : IsSlice(x, paths, C)
         /\ Extended(selected, more)
    BY <1>2, <2>1, <2>7, <2>9, ReplacedSlice
  <2> QED
    BY <1>4, <2>4, <2>7, <2>8, <2>10 DEF u
<1> QED
  BY <1>5, <1>6

\* An omission of a known code is added.
LEMMA OmitIs ==
    ASSUME NEW t, Fields(t), NEW paths, NEW C, Kept(t.selected, t.omissions, paths, C),
           NEW code \in Codes, NEW path, NEW detail,
           NEW u, u = Omit(t, Omission(code, path, detail))
    PROVE  /\ Fields(u) /\ u.next = t.next /\ u.selected = t.selected
           /\ Kept(u.selected, u.omissions, paths, C)
           /\ Range(t.omissions) \subseteq Range(u.omissions)
           /\ \E o \in Range(u.omissions) : o.path = path
<1> DEFINE o == Omission(code, path, detail)
           next == t.next
           selected == t.selected
           omissions == t.omissions
           more == Append(omissions, o)
<1>1. t = [next |-> next, selected |-> selected, omissions |-> omissions]
  BY DEF Fields
<1>2. IsOmission(o) /\ o.path = path
  BY OmissionIs DEF Omission
<1>3. u = [t EXCEPT !.omissions = more]
  BY DEF Omit
<1>4. IsSequence(more) /\ Range(more) = Range(omissions) \cup {o}
  <2>1. IsSequence(omissions)
    BY DEF Kept
  <2> HIDE DEF omissions, o
  <2> QED
    BY <2>1, Longer
<1> HIDE DEF o, more
<1>5. u = [next |-> next, selected |-> selected, omissions |-> more]
  <2> HIDE DEF next, selected, omissions
  <2> QED
    BY <1>1, <1>3
<1>6. u.next = next /\ u.selected = selected /\ u.omissions = more /\ Fields(u)
  BY <1>5 DEF Fields
<1>7. Kept(selected, more, paths, C)
  BY <1>2, <1>4 DEF Kept
<1> QED
  BY <1>2, <1>4, <1>6, <1>7

\* Whatever the file holds, a reference is shown or said to be left out.
LEMMA ReferIs ==
    ASSUME NEW t, Fields(t), NEW paths, NEW C, Kept(t.selected, t.omissions, paths, C),
           NEW r, Positioned(r.location), r.ordinal \in {0} \cup DOMAIN paths,
           NEW content \in Contents, r.location.path \in DOMAIN C,
           C[r.location.path] = content, NEW policy
    PROVE  Referred(t, Refer(t, policy, r, content), r, paths, C)
<1> DEFINE at == r.location
           u == Refer(t, policy, r, content)
<1>1. ASSUME NEW code \in Codes, NEW detail, u = Omit(t, Omission(code, at.path, detail))
      PROVE  Referred(t, u, r, paths, C)
  <2> HIDE DEF u
  <2>1. /\ Fields(u) /\ u.next = t.next /\ u.selected = t.selected
        /\ Kept(u.selected, u.omissions, paths, C)
        /\ Range(t.omissions) \subseteq Range(u.omissions)
        /\ \E o \in Range(u.omissions) : o.path = at.path
    BY <1>1, OmitIs
  <2>2. Extended(t.selected, u.selected)
    BY <2>1, LongerExtends
  <2> QED
    BY <2>1, <2>2 DEF Referred, Handled
<1>2. CASE content \notin DOMAIN Documents
  <2>1. u = Omit(t, Omission(ReadFailures[content].code, at.path,
                             ReadFailures[content].detail))
    BY <1>2 DEF Refer
  <2>2. ReadFailures[content].code \in Codes
    BY <1>2 DEF Contents, ReadFailures, Unreadable, Codes
  <2> QED
    BY <1>1, <2>1, <2>2
<1>3. CASE /\ content \in DOMAIN Documents
           /\ CoordinateError(Documents[content], at) # <<>>
  <2>1. u = Omit(t, Omission("coordinate_out_of_bounds", at.path,
                             CoordinateError(Documents[content], at)))
    BY <1>3 DEF Refer
  <2>2. "coordinate_out_of_bounds" \in Codes
    BY DEF Codes
  <2> QED
    BY <1>1, <2>1, <2>2
<1>4. CASE /\ content \in DOMAIN Documents
           /\ CoordinateError(Documents[content], at) = <<>>
           /\ at.digest # "none" /\ at.digest # content
  <2>1. u = Omit(t, Omission("source_digest_mismatch", at.path, <<>>))
    BY <1>4 DEF Refer
  <2>2. "source_digest_mismatch" \in Codes
    BY DEF Codes
  <2> QED
    BY <1>1, <2>1, <2>2
<1>5. CASE /\ content \in DOMAIN Documents
           /\ CoordinateError(Documents[content], at) = <<>>
           /\ ~ (at.digest # "none" /\ at.digest # content)
  <2> DEFINE fallback == policy = "path_function_slice"
                         /\ EnclosingFunction(Documents[content], at.first) = {}
             said == Omit(t, Omission("function_boundary_unresolved", at.path, <<at.first>>))
             v == IF fallback THEN said ELSE t
             s == Select(policy, content, at)
  <2>1. u = Collect(v, s, r)
    BY <1>5 DEF Refer
  <2>2. Covers(s, at, content) /\ Reason(r, paths, content)
    BY <1>5, SelectCovers DEF Reason
  <2>3. /\ Fields(v) /\ v.next = t.next /\ v.selected = t.selected
        /\ Kept(v.selected, v.omissions, paths, C)
        /\ Range(t.omissions) \subseteq Range(v.omissions)
    <3>1. CASE fallback
      <4>1. "function_boundary_unresolved" \in Codes
        BY DEF Codes
      <4>2. v = said
        BY <3>1
      <4> HIDE DEF v, fallback
      <4> QED
        BY <4>1, <4>2, OmitIs
    <3>2. CASE ~fallback
      <4>1. v = t
        BY <3>2
      <4> QED
        BY <4>1
    <3> QED
      BY <3>1, <3>2
  <2> HIDE DEF v, s, u
  <2>4. Referred(v, Collect(v, s, r), r, paths, C)
    BY <1>5, <2>2, <2>3, CollectIs
  <2> QED
    BY <2>1, <2>3, <2>4 DEF Referred, u
<1> QED
  BY <1>2, <1>3, <1>4, <1>5

-----------------------------------------------------------------------------
(* An alert and its context. *)

\* The references before the next one are handled.
TakenInv(t, alert, C) ==
    /\ Fields(t) /\ t.next \in Nat \ {0}
    /\ Kept(t.selected, t.omissions, alert.paths, C)
    /\ \A i \in DOMAIN References(alert) :
         i < t.next => Handled(References(alert)[i], t.selected, t.omissions)

\* The place is shown by the context, or its file is declared as left out.
Told(r, context) ==
    \/ \E s \in Range(context.slices) : Shows(s, r)
    \/ ~context.complete /\ \E o \in Range(context.omitted) : o.path = r.location.path

\* A context that is honest about its alert, of what was read so far.
IsContext(context, alert, C) ==
    /\ Sliced(alert, context)
    /\ \A s \in Range(context.slices) : IsSlice(s, alert.paths, C)
    /\ \A i \in DOMAIN References(alert) : Told(References(alert)[i], context)
    /\ context.slices # <<>> => Tokens(alert.bytes) + Total(context.slices) <= Budget

\* What was read before is not read again.
Later(C, D) == \A p \in DOMAIN C : p \in DOMAIN D /\ D[p] = C[p]

\* Reading another file changes nothing that was made of those before.
LEMMA SlicesStay ==
    ASSUME NEW C, NEW D, Later(C, D), NEW s, NEW paths, IsSlice(s, paths, C)
    PROVE  IsSlice(s, paths, D)
BY DEF IsSlice, Later

\* So do the references of an alert that were taken before it.
LEMMA TakenStays ==
    ASSUME NEW C, NEW D, Later(C, D), NEW t, NEW alert, TakenInv(t, alert, C)
    PROVE  TakenInv(t, alert, D)
BY SlicesStay DEF TakenInv, Kept

\* So do the contexts that were built before it.
LEMMA ContextStays ==
    ASSUME NEW C, NEW D, Later(C, D), NEW c, NEW alert, IsContext(c, alert, C)
    PROVE  IsContext(c, alert, D)
BY SlicesStay DEF IsContext

\* What is shown or left out stays so.
LEMMA StaysHandled ==
    ASSUME NEW r, NEW a, NEW o, NEW b, NEW p, Handled(r, a, o), Extended(a, b),
           Range(o) \subseteq Range(p)
    PROVE  Handled(r, b, p)
<1>1. CASE \E s \in Range(a) : Shows(s, r)
  BY <1>1, StaysShown DEF Handled
<1>2. CASE \E q \in Range(o) : q.path = r.location.path
  BY <1>2 DEF Handled
<1> QED
  BY <1>1, <1>2 DEF Handled

\* The references of an alert give its paths as reasons, and no others.
LEMMA OrdinalsAre ==
    ASSUME NEW alert, Shaped(alert), NEW i \in DOMAIN References(alert)
    PROVE  References(alert)[i].ordinal \in {0} \cup DOMAIN alert.paths
<1>1. Refers(alert, i, References(alert)[i])
  BY ReferencesAre
<1> DEFINE r == References(alert)[i]
<1> HIDE DEF r
<1>2. Refers(alert, i, r)
  BY <1>1 DEF r
<1>3. r.ordinal = 0 \/ \E o \in DOMAIN alert.paths : r.ordinal = o
  <2>1. \A kind, location : Named(kind, 0, location).ordinal = 0
    BY DEF Named
  <2>2. \A kind, o, location : Named(kind, o, location).ordinal = o
    BY DEF Named
  <2>3. CASE \E o \in DOMAIN alert.paths : \E k \in DOMAIN alert.paths[o] :
               r = Named(StepKind(alert.paths[o], k), o, alert.paths[o][k])
    <3>1. PICK o \in DOMAIN alert.paths : \E k \in DOMAIN alert.paths[o] :
            r = Named(StepKind(alert.paths[o], k), o, alert.paths[o][k])
      BY <2>3
    <3>2. r.ordinal = o
      BY <2>2, <3>1
    <3> QED
      BY <3>2
  <2>4. CASE \E kind, location : r = Named(kind, 0, location)
    <3>1. PICK kind, location : r = Named(kind, 0, location)
      BY <2>4
    <3> QED
      BY <2>1, <3>1
  <2> QED
    BY <1>2, <2>3, <2>4 DEF Refers
<1> QED
  BY <1>3 DEF r

\* Taking the next reference.
LEMMA TakenStep ==
    ASSUME NEW alert, WellFormed(alert), NEW t, NEW C, TakenInv(t, alert, C),
           t.next \in DOMAIN References(alert), NEW content \in Contents,
           References(alert)[t.next].location.path \in DOMAIN C,
           C[References(alert)[t.next].location.path] = content, NEW policy
    PROVE  TakenInv([Refer(t, policy, References(alert)[t.next], content)
                       EXCEPT !.next = @ + 1], alert, C)
<1> DEFINE refs == References(alert)
           k == t.next
           r == refs[k]
           u == Refer(t, policy, r, content)
           v == [u EXCEPT !.next = u.next + 1]
<1>1. Fields(t) /\ k \in Nat \ {0} /\ Kept(t.selected, t.omissions, alert.paths, C)
      /\ \A i \in DOMAIN refs : i < k => Handled(refs[i], t.selected, t.omissions)
  BY DEF TakenInv
<1>2. Positioned(r.location) /\ r.ordinal \in {0} \cup DOMAIN alert.paths
  BY OrdinalsAre DEF WellFormed
<1>3. r.location.path \in DOMAIN C /\ C[r.location.path] = content /\ k \in DOMAIN refs
  OBVIOUS
<1>4. DOMAIN refs = 1 .. Len(refs) /\ Len(refs) \in Nat
  BY ReferencesAre, Sequences DEF WellFormed
<1>5. k = t.next /\ r = refs[k]
  OBVIOUS
<1> HIDE DEF refs, k, r
<1>6. Referred(t, u, r, alert.paths, C)
  BY <1>1, <1>2, <1>3, ReferIs
<1> HIDE DEF u
<1>7. u = [next |-> k, selected |-> u.selected, omissions |-> u.omissions]
  BY <1>5, <1>6 DEF Referred, Fields
<1>8. v = [next |-> k + 1, selected |-> u.selected, omissions |-> u.omissions]
  <2> DEFINE a == u.selected
             o == u.omissions
  <2>1. u = [next |-> k, selected |-> a, omissions |-> o]
    BY <1>7
  <2> HIDE DEF a, o
  <2>2. v = [next |-> k + 1, selected |-> a, omissions |-> o]
    BY <2>1
  <2> QED
    BY <2>2 DEF a, o
<1> HIDE DEF v
<1>9. Fields(v) /\ v.next = k + 1 /\ v.selected = u.selected /\ v.omissions = u.omissions
  BY <1>8 DEF Fields
<1>10. ASSUME NEW i \in DOMAIN refs, i < k + 1
       PROVE  Handled(refs[i], u.selected, u.omissions)
  <2>1. i = k \/ i < k
    BY <1>1, <1>4, <1>10
  <2>2. CASE i = k
    BY <1>5, <1>6, <2>2 DEF Referred
  <2>3. CASE i < k
    <3>1. Handled(refs[i], t.selected, t.omissions)
      BY <1>1, <2>3
    <3> QED
      BY <1>6, <3>1, StaysHandled DEF Referred
  <2> QED
    BY <2>1, <2>2, <2>3
<1>11. TakenInv(v, alert, C)
  <2>1. Kept(v.selected, v.omissions, alert.paths, C)
    BY <1>6, <1>9 DEF Referred
  <2>2. v.next \in Nat \ {0}
    BY <1>1, <1>9
  <2>3. \A i \in DOMAIN refs : i < v.next => Handled(refs[i], v.selected, v.omissions)
    BY <1>9, <1>10
  <2> QED
    BY <1>9, <2>1, <2>2, <2>3 DEF TakenInv, refs
<1> QED
  BY <1>11 DEF v, u, r, k, refs

\* Nothing is taken yet.
LEMMA NothingTaken ==
    ASSUME NEW alert, Shaped(alert), NEW C
    PROVE  TakenInv([next |-> 1, selected |-> <<>>, omissions |-> <<>>], alert, C)
<1> DEFINE t == [next |-> 1, selected |-> <<>>, omissions |-> <<>>]
<1>1. t.next = 1 /\ t.selected = <<>> /\ t.omissions = <<>> /\ Fields(t)
  BY DEF Fields
<1> HIDE DEF t
<1>2. Kept(<<>>, <<>>, alert.paths, C)
  BY EmptySequence DEF Kept, Distinct
<1>3. \A i \in DOMAIN References(alert) : ~(i < 1)
  <2>1. DOMAIN References(alert) = 1 .. Len(References(alert))
        /\ Len(References(alert)) \in Nat
    BY ReferencesAre, Sequences
  <2> QED
    BY <2>1
<1>4. TakenInv(t, alert, C)
  BY <1>1, <1>2, <1>3 DEF TakenInv
<1> QED
  BY <1>4 DEF t

\* Only the empty sequence has no elements.
LEMMA EmptyRange ==
    ASSUME NEW s, IsSequence(s)
    PROVE  s = <<>> <=> Range(s) = {}
<1>1. Range(<<>>) = {}
  BY EmptySequence
<1>2. ASSUME Range(s) = {}
      PROVE  s = <<>>
  <2>1. DOMAIN s = 1 .. Len(s) /\ Len(s) \in Nat /\ s \in Seq(Range(s))
    BY Sequences DEF IsSequence
  <2>2. DOMAIN s = {}
    BY <1>2 DEF Range
  <2>3. Len(s) = 0
    BY <2>1, <2>2
  <2> QED
    BY <2>1, <2>3
<1> QED
  BY <1>1, <1>2

\* The context made of all references.
LEMMA ContextIs ==
    ASSUME NEW alert, WellFormed(alert), NEW t, NEW C, TakenInv(t, alert, C),
           t.next > Len(References(alert))
    PROVE  IsContext(Context(alert, t), alert, C)
<1> DEFINE refs == References(alert)
           own == Tokens(alert.bytes)
           within == WithinBudget(alert, t.omissions, t.selected)
           all == IF alert.resource THEN WithCallees(within) ELSE within
           omitted == Deduplicated(all.omissions)
           c == Context(alert, t)
<1>1. alert.bytes \in Nat /\ alert.resource \in BOOLEAN /\ Shaped(alert)
      /\ IsSequence(alert.paths)
  BY DEF WellFormed, Shaped, Nested
<1>2. own \in Nat
  BY <1>1 DEF Tokens
<1>3. Kept(t.selected, t.omissions, alert.paths, C)
      /\ \A i \in DOMAIN refs : Handled(refs[i], t.selected, t.omissions)
  <2>1. DOMAIN refs = 1 .. Len(refs) /\ Len(refs) \in Nat /\ t.next \in Nat
    BY <1>1, ReferencesAre, Sequences DEF TakenInv
  <2>2. \A i \in DOMAIN refs : i < t.next
    BY <2>1
  <2> QED
    BY <2>2 DEF TakenInv
<1>4. c = [slices |-> all.slices, tokens |-> all.tokens,
           candidates |-> Candidates(all.slices),
           complete |-> all.omissions = <<>>, omitted |-> omitted]
  BY DEF Context
<1> HIDE DEF own, within, refs
<1>5. /\ Good(within, own, alert.paths, C)
      /\ Range(t.omissions) \subseteq Range(within.omissions)
      /\ \A s \in Range(t.selected) : Met(s, within)
  <2>1. /\ IsSequence(t.selected) /\ Distinct(t.selected)
        /\ \A s \in Range(t.selected) : IsSlice(s, alert.paths, C)
        /\ IsSequence(t.omissions) /\ \A o \in Range(t.omissions) : IsOmission(o)
    BY <1>3 DEF Kept
  <2>2. /\ Good(WithinBudget(alert, t.omissions, t.selected), Tokens(alert.bytes),
                alert.paths, C)
        /\ Range(t.omissions)
             \subseteq Range(WithinBudget(alert, t.omissions, t.selected).omissions)
        /\ \A s \in Range(t.selected) :
             Met(s, WithinBudget(alert, t.omissions, t.selected))
    BY <1>1, <2>1, BudgetIs
  <2> QED
    BY <2>2 DEF within, own
<1>6. Good(all, own, alert.paths, C) /\ Grown(within, all)
  <2>1. Good(WithCallees(within), own, alert.paths, C) /\ Grown(within, WithCallees(within))
    BY <1>2, <1>5, WithCalleesIs
  <2>2. Grown(within, within)
    BY DEF Grown
  <2>3. all = WithCallees(within) \/ all = within
    OBVIOUS
  <2> QED
    BY <1>5, <2>1, <2>2, <2>3
<1> HIDE DEF all
<1>7. /\ IsSequence(omitted) /\ IsInjective(omitted)
      /\ Range(omitted) = Range(all.omissions)
  BY <1>6, DeduplicatedIs DEF Good
<1> HIDE DEF omitted, c
<1>8. c.slices = all.slices /\ c.candidates = Candidates(all.slices)
      /\ (c.complete <=> all.omissions = <<>>) /\ c.omitted = omitted
  BY <1>4
<1>9. c.complete <=> c.omitted = <<>>
  BY <1>6, <1>7, <1>8, EmptyRange DEF Good
<1>10. Sliced(alert, c)
  <2>1. \A s \in Range(c.slices) :
          /\ s.digest \in DOMAIN Documents /\ s.selection \in Selections
          /\ PathsOf(s) \subseteq DOMAIN alert.paths
    <3> SUFFICES ASSUME NEW s \in Range(c.slices)
                 PROVE  /\ s.digest \in DOMAIN Documents /\ s.selection \in Selections
                        /\ PathsOf(s) \subseteq DOMAIN alert.paths
      OBVIOUS
    <3>1. IsSlice(s, alert.paths, C)
      BY <1>6, <1>8 DEF Good
    <3>2. PathsOf(s) \subseteq DOMAIN alert.paths
      BY <3>1 DEF IsSlice, PathsOf
    <3> QED
      BY <3>1, <3>2 DEF IsSlice
  <2>2. \A o \in Range(c.omitted) : o.code \in Codes /\ o = Omission(o.code, o.path, o.detail)
    BY <1>6, <1>7, <1>8 DEF Good, IsOmission
  <2>3. \A i, j \in DOMAIN c.slices : SameSlice(c.slices[i], c.slices[j]) => i = j
    BY <1>6, <1>8 DEF Good, Distinct
  <2>4. IsSequence(c.slices) /\ IsSequence(c.omitted) /\ IsInjective(c.omitted)
        /\ c.candidates = Candidates(c.slices)
    BY <1>6, <1>7, <1>8 DEF Good
  <2> QED
    BY <1>1, <1>9, <2>1, <2>2, <2>3, <2>4 DEF Sliced
<1>11. ASSUME NEW i \in DOMAIN refs
       PROVE  Told(refs[i], c)
  <2> DEFINE r == refs[i]
  <2>1. Handled(r, t.selected, t.omissions)
    BY <1>3
  <2> SUFFICES Told(r, c)
    OBVIOUS
  <2> HIDE DEF r
  <2>2. ASSUME NEW o \in Range(all.omissions), o.path = r.location.path
        PROVE  Told(r, c)
    <3>1. all.omissions # <<>>
      BY <1>6, EmptyRange DEF Good
    <3> QED
      BY <1>7, <1>8, <2>2, <3>1 DEF Told
  <2>3. CASE \E s \in Range(t.selected) : Shows(s, r)
    <3>1. PICK s \in Range(t.selected) : Shows(s, r)
      BY <2>3
    <3>2. Met(s, within)
      BY <1>5
    <3>3. CASE s \in Range(within.slices)
      <4>1. s \in Range(c.slices)
        BY <1>6, <1>8, <3>3 DEF Grown
      <4> QED
        BY <3>1, <4>1 DEF Told
    <3>4. CASE \E o \in Range(within.omissions) : o.path = s.path
      <4>1. PICK o \in Range(within.omissions) : o.path = s.path
        BY <3>4
      <4>2. o \in Range(all.omissions) /\ o.path = r.location.path
        BY <1>6, <3>1, <4>1 DEF Grown, Shows
      <4> QED
        BY <2>2, <4>2
    <3> QED
      BY <3>2, <3>3, <3>4 DEF Met
  <2>4. CASE \E o \in Range(t.omissions) : o.path = r.location.path
    <3>1. PICK o \in Range(t.omissions) : o.path = r.location.path
      BY <2>4
    <3>2. o \in Range(all.omissions)
      BY <1>5, <1>6, <3>1 DEF Grown
    <3> QED
      BY <2>2, <3>1, <3>2
  <2> QED
    BY <2>1, <2>3, <2>4 DEF Handled
<1>12. \A s \in Range(c.slices) : IsSlice(s, alert.paths, C)
  BY <1>6, <1>8 DEF Good
<1>13. c.slices # <<>> => own + Total(c.slices) <= Budget
  BY <1>6, <1>8 DEF Good, Spent
<1> QED
  BY <1>10, <1>11, <1>12, <1>13 DEF IsContext, refs, own, c

-----------------------------------------------------------------------------
(* The alert of a result. *)

\* The places of a result are those the parser made of it.
LEMMA SpotsAre ==
    ASSUME NEW result, Shaped(result), NEW i \in DOMAIN References(result)
    PROVE  References(result)[i].location \in Spots(result)
<1> DEFINE r == References(result)[i]
<1>1. Refers(result, i, r)
  BY ReferencesAre
<1> HIDE DEF r
<1>2. \A kind, o, location : Named(kind, o, location).location = location
  BY DEF Named
<1>3. CASE r = Named("primary", 0, result.primary)
  BY <1>2, <1>3 DEF Spots, r
<1>4. CASE \E k \in DOMAIN result.additional : r = Named("additional", 0, result.additional[k])
  <2>1. PICK k \in DOMAIN result.additional : r = Named("additional", 0, result.additional[k])
    BY <1>4
  <2>2. r.location = result.additional[k]
    BY <1>2, <2>1
  <2>3. result.additional[k] \in Range(result.additional)
    BY DEF Range
  <2> QED
    BY <2>2, <2>3 DEF Spots, r
<1>5. CASE \E k \in DOMAIN result.related : r = Named("related", 0, result.related[k])
  <2>1. PICK k \in DOMAIN result.related : r = Named("related", 0, result.related[k])
    BY <1>5
  <2>2. r.location = result.related[k]
    BY <1>2, <2>1
  <2>3. result.related[k] \in Range(result.related)
    BY DEF Range
  <2> QED
    BY <2>2, <2>3 DEF Spots, r
<1>6. CASE \E o \in DOMAIN result.paths : \E k \in DOMAIN result.paths[o] :
             r = Named(StepKind(result.paths[o], k), o, result.paths[o][k])
  <2>1. PICK o \in DOMAIN result.paths : \E k \in DOMAIN result.paths[o] :
             r = Named(StepKind(result.paths[o], k), o, result.paths[o][k])
    BY <1>6
  <2>2. PICK k \in DOMAIN result.paths[o] :
             r = Named(StepKind(result.paths[o], k), o, result.paths[o][k])
    BY <2>1
  <2>3. r.location = result.paths[o][k]
    BY <1>2, <2>2
  <2>4. result.paths[o][k] \in Range(result.paths[o])
    BY DEF Range
  <2> QED
    BY <2>3, <2>4 DEF Spots, r
<1> QED
  BY <1>1, <1>3, <1>4, <1>5, <1>6 DEF Refers

\* Two things with references of the same number and kinds.
SameShape(a, b) ==
    /\ DOMAIN a.additional = DOMAIN b.additional /\ Len(a.additional) = Len(b.additional)
    /\ DOMAIN a.related = DOMAIN b.related /\ Len(a.related) = Len(b.related)
    /\ DOMAIN a.paths = DOMAIN b.paths
    /\ \A o \in DOMAIN a.paths : /\ DOMAIN a.paths[o] = DOMAIN b.paths[o]
                                 /\ Offset(a.paths, o) = Offset(b.paths, o)

\* Alerts of one shape have references in the same places.
LEMMA SameReferences ==
    ASSUME NEW a, NEW b, Shaped(a), Shaped(b), SameShape(a, b),
           NEW j \in DOMAIN References(a)
    PROVE  j \in DOMAIN References(b)
<1>1. Refers(a, j, References(a)[j])
  BY ReferencesAre
<1>2. \A r : Refers(b, j, r) => j \in DOMAIN References(b)
  BY ReferencesAre
<1>3. \E r : Refers(b, j, r)
  <2>1. CASE j = 1
    <3>1. Refers(b, j, Named("primary", 0, b.primary))
      BY <2>1 DEF Refers
    <3> QED
      BY <3>1
  <2>2. CASE \E i \in DOMAIN a.additional : j = 1 + i
    <3>1. PICK i \in DOMAIN b.additional : j = 1 + i
      BY <2>2 DEF SameShape
    <3>2. Refers(b, j, Named("additional", 0, b.additional[i]))
      BY <3>1 DEF Refers
    <3> QED
      BY <3>2
  <2>3. CASE \E i \in DOMAIN a.related : j = 1 + Len(a.additional) + i
    <3>1. PICK i \in DOMAIN b.related : j = 1 + Len(b.additional) + i
      BY <2>3 DEF SameShape
    <3>2. Refers(b, j, Named("related", 0, b.related[i]))
      BY <3>1 DEF Refers
    <3> QED
      BY <3>2
  <2>4. CASE \E o \in DOMAIN a.paths : \E k \in DOMAIN a.paths[o] :
               j = 1 + Len(a.additional) + Len(a.related) + Offset(a.paths, o) + k
    <3>1. PICK o \in DOMAIN a.paths : \E k \in DOMAIN a.paths[o] :
               j = 1 + Len(a.additional) + Len(a.related) + Offset(a.paths, o) + k
      BY <2>4
    <3>2. PICK k \in DOMAIN a.paths[o] :
               j = 1 + Len(a.additional) + Len(a.related) + Offset(a.paths, o) + k
      BY <3>1
    <3>3. o \in DOMAIN b.paths /\ k \in DOMAIN b.paths[o]
          /\ j = 1 + Len(b.additional) + Len(b.related) + Offset(b.paths, o) + k
      BY <3>2 DEF SameShape
    <3>4. Refers(b, j, Named(StepKind(b.paths[o], k), o, b.paths[o][k]))
      BY <3>3 DEF Refers
    <3> QED
      BY <3>4
  <2> QED
    BY <1>1, <2>1, <2>2, <2>3, <2>4 DEF Refers
<1> QED
  BY <1>2, <1>3

\* The references of the alert of a result are to the places that were located.
LEMMA NormalizedReferences ==
    ASSUME NEW result, Shaped(result), IsSequence(located),
           Len(located) = Len(References(result)),
           \A i \in DOMAIN located : Positioned(located[i])
    PROVE  /\ WellFormed(NormalizedAlert(result))
           /\ DOMAIN References(NormalizedAlert(result)) = DOMAIN References(result)
           /\ \A i \in DOMAIN References(result) :
                References(NormalizedAlert(result))[i].location = located[i]
<1> DEFINE m == Len(result.additional)
           n == Len(result.related)
           steps(o) == Len(FlattenSeq(SubSeq(result.paths, 1, o - 1)))
           Place(x, sequence) == [i \in DOMAIN sequence |-> located[x + i]]
           more == Place(1, result.additional)
           related == Place(1 + m, result.related)
           paths == [o \in DOMAIN result.paths |-> Place(1 + m + n + steps(o), result.paths[o])]
           alert == NormalizedAlert(result)
<1>1. alert = [resource |-> result.resource, bytes |-> result.bytes, primary |-> located[1],
               additional |-> more, related |-> related, paths |-> paths]
  BY DEF NormalizedAlert
<1>2. /\ alert.resource = result.resource /\ alert.bytes = result.bytes
      /\ alert.primary = located[1] /\ alert.additional = more
      /\ alert.related = related /\ alert.paths = paths
  <2> HIDE DEF more, related, paths, alert
  <2> QED
    BY <1>1
<1> HIDE DEF alert
<1>3. /\ IsSequence(result.additional) /\ IsSequence(result.related)
      /\ IsSequence(result.paths) /\ Nested(result.paths)
      /\ \A o \in DOMAIN result.paths : IsSequence(result.paths[o])
  BY DEF Shaped, Nested
<1>4. ASSUME NEW x, NEW sequence, IsSequence(sequence)
      PROVE  /\ IsSequence(Place(x, sequence)) /\ Len(Place(x, sequence)) = Len(sequence)
             /\ DOMAIN Place(x, sequence) = DOMAIN sequence
             /\ \A i \in DOMAIN sequence : Place(x, sequence)[i] = located[x + i]
  <2> DEFINE g == Place(x, sequence)
  <2>1. DOMAIN sequence = 1 .. Len(sequence) /\ Len(sequence) \in Nat
    BY <1>4, Sequences
  <2>2. g = [i \in 1 .. Len(sequence) |-> g[i]] /\ DOMAIN g = DOMAIN sequence
        /\ \A i \in DOMAIN sequence : g[i] = located[x + i]
    BY <2>1
  <2> HIDE DEF g
  <2>3. IsSequence(g) /\ Len(g) = Len(sequence)
    BY <2>1, <2>2, SequenceOf
  <2> QED
    BY <2>2, <2>3 DEF g
<1> HIDE DEF Place
<1>5. /\ IsSequence(more) /\ Len(more) = m /\ DOMAIN more = DOMAIN result.additional
      /\ IsSequence(related) /\ Len(related) = n /\ DOMAIN related = DOMAIN result.related
      /\ \A i \in DOMAIN result.additional : more[i] = located[1 + i]
      /\ \A i \in DOMAIN result.related : related[i] = located[1 + m + i]
  BY <1>3, <1>4
<1>6. /\ Nested(paths) /\ DOMAIN paths = DOMAIN result.paths
      /\ \A o \in DOMAIN result.paths :
           /\ Len(paths[o]) = Len(result.paths[o])
           /\ DOMAIN paths[o] = DOMAIN result.paths[o]
           /\ \A k \in DOMAIN result.paths[o] :
                paths[o][k] = located[1 + m + n + steps(o) + k]
      /\ Len(paths) = Len(result.paths)
  <2> DEFINE N == Len(result.paths)
  <2>1. DOMAIN result.paths = 1 .. N /\ N \in Nat
    BY <1>3, Sequences
  <2>2. paths = [o \in 1 .. N |-> paths[o]] /\ DOMAIN paths = DOMAIN result.paths
        /\ \A o \in DOMAIN result.paths :
             paths[o] = Place(1 + m + n + steps(o), result.paths[o])
    BY <2>1
  <2> HIDE DEF paths, N
  <2>3. IsSequence(paths) /\ Len(paths) = N
    BY <2>1, <2>2, SequenceOf
  <2>4. ASSUME NEW o \in DOMAIN result.paths
        PROVE  /\ IsSequence(paths[o]) /\ Len(paths[o]) = Len(result.paths[o])
               /\ DOMAIN paths[o] = DOMAIN result.paths[o]
               /\ \A k \in DOMAIN result.paths[o] :
                    paths[o][k] = located[1 + m + n + steps(o) + k]
    <3> DEFINE x == 1 + m + n + steps(o)
    <3>1. paths[o] = Place(x, result.paths[o]) /\ IsSequence(result.paths[o])
      BY <1>3, <2>2
    <3> HIDE DEF x
    <3>2. /\ IsSequence(paths[o]) /\ Len(paths[o]) = Len(result.paths[o])
          /\ DOMAIN paths[o] = DOMAIN result.paths[o]
          /\ \A k \in DOMAIN result.paths[o] : paths[o][k] = located[x + k]
      BY <1>4, <3>1
    <3> QED
      BY <3>2 DEF x
  <2> QED
    BY <2>2, <2>3, <2>4 DEF Nested, N
<1> HIDE DEF more, related, paths
<1>7. \A o \in DOMAIN paths : Offset(paths, o) = Offset(result.paths, o)
  BY <1>3, <1>6, SameOffsets
<1>8. \A o : steps(o) = Offset(result.paths, o)
  BY DEF Offset
<1> HIDE DEF steps
<1>9. Shaped(alert)
  BY <1>2, <1>5, <1>6 DEF Shaped
<1>10. SameShape(alert, result) /\ SameShape(result, alert)
  BY <1>2, <1>5, <1>6, <1>7 DEF SameShape
<1>11. DOMAIN References(alert) = DOMAIN References(result)
  BY <1>9, <1>10, SameReferences
<1>12. ASSUME NEW j \in DOMAIN References(alert)
       PROVE  References(alert)[j].location = located[j]
  <2> DEFINE r == References(alert)[j]
  <2>1. Refers(alert, j, r)
    BY <1>9, ReferencesAre
  <2> SUFFICES r.location = located[j]
    OBVIOUS
  <2> HIDE DEF r
  <2>2. \A kind, o, location : Named(kind, o, location).location = location
    BY DEF Named
  <2>3. CASE j = 1 /\ r = Named("primary", 0, alert.primary)
    <3>1. r.location = alert.primary
      BY <2>2, <2>3
    <3> QED
      BY <1>2, <2>3, <3>1
  <2>4. CASE \E i \in DOMAIN alert.additional :
               j = 1 + i /\ r = Named("additional", 0, alert.additional[i])
    <3>1. PICK i \in DOMAIN alert.additional :
               j = 1 + i /\ r = Named("additional", 0, alert.additional[i])
      BY <2>4
    <3>2. r.location = alert.additional[i]
      BY <2>2, <3>1
    <3> QED
      BY <1>2, <1>5, <3>1, <3>2
  <2>5. CASE \E i \in DOMAIN alert.related :
               /\ j = 1 + Len(alert.additional) + i
               /\ r = Named("related", 0, alert.related[i])
    <3>1. PICK i \in DOMAIN alert.related :
               /\ j = 1 + Len(alert.additional) + i
               /\ r = Named("related", 0, alert.related[i])
      BY <2>5
    <3>2. r.location = alert.related[i]
      BY <2>2, <3>1
    <3> QED
      BY <1>2, <1>5, <3>1, <3>2
  <2>6. CASE \E o \in DOMAIN alert.paths : \E k \in DOMAIN alert.paths[o] :
               /\ j = 1 + Len(alert.additional) + Len(alert.related)
                        + Offset(alert.paths, o) + k
               /\ r = Named(StepKind(alert.paths[o], k), o, alert.paths[o][k])
    <3>1. PICK o \in DOMAIN alert.paths : \E k \in DOMAIN alert.paths[o] :
               /\ j = 1 + Len(alert.additional) + Len(alert.related)
                        + Offset(alert.paths, o) + k
               /\ r = Named(StepKind(alert.paths[o], k), o, alert.paths[o][k])
      BY <2>6
    <3>2. PICK k \in DOMAIN alert.paths[o] :
               /\ j = 1 + Len(alert.additional) + Len(alert.related)
                        + Offset(alert.paths, o) + k
               /\ r = Named(StepKind(alert.paths[o], k), o, alert.paths[o][k])
      BY <3>1
    <3>3. r.location = paths[o][k]
      BY <1>2, <2>2, <3>2
    <3>4. o \in DOMAIN paths /\ o \in DOMAIN result.paths /\ k \in DOMAIN result.paths[o]
          /\ Len(alert.additional) = m /\ Len(alert.related) = n /\ alert.paths = paths
      BY <1>2, <1>5, <1>6
    <3>5. j = 1 + m + n + steps(o) + k
      BY <1>7, <1>8, <3>2, <3>4
    <3>6. paths[o][k] = located[1 + m + n + steps(o) + k]
      BY <1>6, <3>4
    <3> QED
      BY <3>3, <3>5, <3>6
  <2> QED
    BY <2>1, <2>3, <2>4, <2>5, <2>6 DEF Refers
<1>13. DOMAIN located = DOMAIN References(result)
  <2>1. /\ DOMAIN References(result) = 1 .. Len(References(result))
        /\ DOMAIN located = 1 .. Len(located)
    BY ReferencesAre, Sequences
  <2> QED
    BY <2>1
<1>14. WellFormed(alert)
  BY <1>9, <1>11, <1>12, <1>13 DEF WellFormed
<1> QED
  BY <1>11, <1>12, <1>14 DEF alert

-----------------------------------------------------------------------------
(* The inductive invariant. *)

\* The types of what the stages share.
Types ==
    /\ setup \in Setups /\ tree \in [Paths -> Contents]
    /\ Range(hashes) \subseteq {"none"} \cup Contents
    /\ pc \in {"normalize", "slice", "register", "merge", "ready", "refused", "crashed"}
    /\ changes \in 0 .. MaxChanges

\* What the normalizer has made.
Normalizing ==
    /\ IsSequence(located) /\ \A i \in DOMAIN located : Positioned(located[i])
    /\ IsSequence(alerts) /\ Len(alerts) <= Len(setup.results)
    /\ \A a \in DOMAIN alerts : WellFormed(alerts[a])

\* What ContextBuilder has made: a context for each of the first alerts, and
\* some references of the next one.
Building ==
    /\ \A p \in DOMAIN cache : cache[p] \in Contents
    /\ IsSequence(contexts) /\ Len(contexts) <= Len(alerts)
    /\ \A a \in DOMAIN contexts : IsContext(contexts[a], alerts[a], cache)

\* What is taken of the next alert while its context is built.
Taking ==
    /\ pc = "slice" =>
         Len(contexts) < Len(alerts) /\ TakenInv(taken, alerts[Len(contexts) + 1], cache)
    /\ pc # "slice" => taken = Nothing

\* What the registry is made of.
Staged ==
    /\ pc = "normalize" => contexts = <<>>
    /\ pc \in {"register", "merge", "ready", "crashed"} => Len(contexts) = Len(alerts)
    /\ pc = "merge" => registry = Build(alerts, contexts)
    /\ pc = "ready" =>
         \/ registry = Build(alerts, contexts)
         \/ /\ registry = Merged(Build(alerts, contexts), setup.supplement.entries)
            /\ Acceptable(setup.supplement)
    /\ pc = "crashed" => ~Closed(Build(alerts, contexts))

\* All of it.
Inv == Types /\ Normalizing /\ Building /\ Taking /\ Staged

\* The results of a SARIF file have the shape of an alert.
LEMMA ResultsAre ==
    ASSUME setup \in Setups, NEW n \in DOMAIN setup.results
    PROVE  /\ IsSequence(setup.results) /\ IsSequence(setup.supplement.entries)
           /\ Shaped(setup.results[n])
           /\ \A l \in Spots(setup.results[n]) : l.first \in Nat \ {0} /\ l.last \in Nat
<1> DEFINE r == setup.results[n]
<1>1. IsSequence(setup.results) /\ IsSequence(setup.supplement.entries)
      /\ r \in Range(setup.results)
  BY EvidenceAssumption DEF Range
<1> HIDE DEF r
<1>2. /\ r.bytes \in Nat /\ r.resource \in BOOLEAN
      /\ IsSequence(r.additional) /\ IsSequence(r.related)
      /\ IsSequence(r.paths) /\ \A o \in DOMAIN r.paths : IsSequence(r.paths[o])
      /\ \A l \in Spots(r) : l.first \in Nat \ {0} /\ l.last \in Nat
  BY <1>1, EvidenceAssumption
<1>3. Shaped(r)
  BY <1>2 DEF Shaped, Nested
<1> QED
  BY <1>1, <1>2, <1>3 DEF r

\* The results and the entries of an input are sequences.
LEMMA SetupsAre ==
    ASSUME setup \in Setups
    PROVE  IsSequence(setup.results) /\ IsSequence(setup.supplement.entries)
BY EvidenceAssumption

\* A place that resolves to a path is one of the result.
LEMMA PlacesAre ==
    ASSUME NEW run, NEW known, NEW result, NEW location \in Spots(result),
           Resolve(run, known, result, location).path # <<>>
    PROVE  (CHOOSE l \in Physical(result, location) : TRUE) \in Spots(result)
<1>1. Physical(result, location) # {}
  BY DEF Resolve
<1>2. Physical(result, location) \subseteq Spots(result)
  <2>1. Physical(result, location) \subseteq {location} \cup Range(result.related)
    BY DEF Physical
  <2>2. Range(result.related) \subseteq Spots(result)
    BY DEF Spots
  <2> QED
    BY <2>1, <2>2
<1> QED
  BY <1>1, <1>2

\* What is in a file of the snapshot, or not there.
LEMMA ContentIs ==
    ASSUME Types, NEW path
    PROVE  Content(path) \in Contents
<1>1. "absent" \in Contents
  BY DEF Contents, ReadFailures
<1> QED
  BY <1>1 DEF Content, Types

\* The digest of a file is that of some content, or none.
LEMMA HashIs ==
    ASSUME Types, NEW path
    PROVE  Hash(path) \in {"none"} \cup Contents
<1>1. Content(path) \in Contents
  BY ContentIs
<1>2. path \in DOMAIN hashes => hashes[path] \in {"none"} \cup Contents
  BY DEF Types, Range
<1> QED
  BY <1>1, <1>2 DEF Hash

\* A cache with one value more.
LEMMA Remembered ==
    ASSUME NEW f, NEW x, NEW y
    PROVE  /\ DOMAIN Remember(f, x, y) = DOMAIN f \cup {x}
           /\ \A z \in DOMAIN f : Remember(f, x, y)[z] = f[z]
           /\ x \notin DOMAIN f => Remember(f, x, y)[x] = y
           /\ Range(Remember(f, x, y)) \subseteq Range(f) \cup {y}
BY DEF Remember, Range

-----------------------------------------------------------------------------
(* It holds at first, and every action keeps it. *)

\* Nothing is made yet.
LEMMA InvInit == Init => Inv
<1> SUFFICES ASSUME Init
             PROVE  Inv
  OBVIOUS
<1>1. tree \in [Paths -> Contents] /\ 0 \in 0 .. MaxChanges
  BY EvidenceAssumption DEF Init
<1>2. /\ hashes = <<>> /\ located = <<>> /\ alerts = <<>> /\ cache = <<>>
      /\ taken = Nothing /\ contexts = <<>> /\ pc = "normalize" /\ changes = 0
      /\ setup \in Setups
  BY DEF Init
<1>3. Types
  BY <1>1, <1>2, EmptySequence DEF Types
<1>4. Normalizing
  <2>1. 0 <= Len(setup.results)
    <3>1. Len(setup.results) \in Nat
      BY <1>2, SetupsAre, Sequences
    <3> QED
      BY <3>1
  <2> QED
    BY <1>2, <2>1, EmptySequence DEF Normalizing
<1>5. Building
  BY <1>2, EmptySequence DEF Building
<1>6. Taking /\ Staged
  BY <1>2 DEF Taking, Staged
<1> QED
  BY <1>3, <1>4, <1>5, <1>6 DEF Inv

\* The alerts that were there keep what they are.
LEMMA Grows ==
    ASSUME NEW s, NEW x, IsSequence(s)
    PROVE  /\ DOMAIN Append(s, x) = DOMAIN s \cup {Len(s) + 1}
           /\ Append(s, x)[Len(s) + 1] = x
           /\ \A i \in DOMAIN s : Append(s, x)[i] = s[i]
<1> DEFINE S == Range(s) \cup {x}
<1>1. s \in Seq(S) /\ x \in S
  BY Sequences
<1> HIDE DEF S
<1>2. DOMAIN s = 1 .. Len(s) /\ Len(s) \in Nat /\ DOMAIN Append(s, x) = 1 .. Len(s) + 1
  BY <1>1
<1>3. DOMAIN Append(s, x) = DOMAIN s \cup {Len(s) + 1}
  BY <1>2
<1> QED
  BY <1>1, <1>2, <1>3

\* A location more.
LEMMA LocateKeeps == Inv /\ Locate => Inv'
<1> SUFFICES ASSUME Inv, Locate
             PROVE  Inv'
  OBVIOUS
<1> DEFINE path == Resolution.path
           place == PhysicalPlace
           at == SourceLocation(place, path)
<1>1. Types /\ Normalizing /\ Building /\ Taking /\ Staged
  BY DEF Inv
<1>2. pc = "normalize" /\ UNCHANGED <<setup, tree, alerts, building, registry, changes>>
  BY DEF Locate
<1>3. CASE UNCHANGED <<located, bases, hashes>> /\ pc' = "refused"
  <2>1. Types'
    BY <1>1, <1>2, <1>3 DEF Types
  <2>2. Normalizing' /\ Building'
    BY <1>1, <1>2, <1>3 DEF Normalizing, Building, building
  <2>3. Taking'
    BY <1>1, <1>2, <1>3 DEF Taking, building
  <2>4. Staged'
    BY <1>1, <1>2, <1>3 DEF Staged, building
  <2> QED
    BY <2>1, <2>2, <2>3, <2>4 DEF Inv
<1>4. CASE /\ Contained(path) /\ Ordered(place) /\ located' = Append(located, at)
           /\ hashes' = Remember(hashes, path, Hash(path)) /\ UNCHANGED pc
  <2>1. Positioned(at)
    <3>1. Len(alerts) + 1 \in DOMAIN setup.results
      <4>1. DOMAIN setup.results = 1 .. Len(setup.results) /\ Len(setup.results) \in Nat
        BY <1>1, SetupsAre, Sequences DEF Types
      <4>2. Len(alerts) \in Nat
        BY <1>1, Sequences DEF Normalizing
      <4>3. Len(alerts) < Len(setup.results)
        BY DEF Locate
      <4> QED
        BY <4>1, <4>2, <4>3
    <3>2. /\ Shaped(Result)
          /\ \A l \in Spots(Result) : l.first \in Nat \ {0} /\ l.last \in Nat
      BY <1>1, <3>1, ResultsAre DEF Types, Result
    <3>3. RawLocation \in Spots(Result)
      <4>1. Len(located) + 1 \in DOMAIN References(Result)
        <5>1. DOMAIN References(Result) = 1 .. Len(References(Result))
              /\ Len(References(Result)) \in Nat
          BY <3>2, ReferencesAre, Sequences
        <5>2. Len(located) \in Nat
          BY <1>1, Sequences DEF Normalizing
        <5>3. Len(located) < Len(References(Result))
          BY DEF Locate
        <5> QED
          BY <5>1, <5>2, <5>3
      <4> QED
        BY <3>2, <4>1, SpotsAre DEF RawLocation
    <3>4. Resolve(Run, bases, Result, RawLocation).path # <<>>
      BY <1>4 DEF Contained, Resolution
    <3>5. place \in Spots(Result)
      BY <3>3, <3>4, PlacesAre DEF PhysicalPlace
    <3>6. Positioned(place)
      BY <1>4, <3>2, <3>5 DEF Positioned, Ordered
    <3> HIDE DEF place
    <3>7. at.first = place.first /\ at.last = place.last
      BY DEF SourceLocation
    <3> QED
      BY <3>6, <3>7 DEF Positioned
  <2>2. Types'
    <3>1. Hash(path) \in {"none"} \cup Contents
      BY <1>1, HashIs
    <3> HIDE DEF path
    <3>2. Range(Remember(hashes, path, Hash(path))) \subseteq Range(hashes) \cup {Hash(path)}
      BY Remembered
    <3>3. Range(hashes) \subseteq {"none"} \cup Contents
      BY <1>1 DEF Types
    <3>4. Range(hashes') \subseteq {"none"} \cup Contents
      BY <1>4, <3>1, <3>2, <3>3
    <3> QED
      BY <1>1, <1>2, <1>4, <3>4 DEF Types
  <2> HIDE DEF at
  <2>3. Normalizing'
    <3>1. IsSequence(located) /\ \A i \in DOMAIN located : Positioned(located[i])
      BY <1>1 DEF Normalizing
    <3>2. IsSequence(located')
      BY <1>4, <3>1, Longer
    <3>3. /\ DOMAIN located' = DOMAIN located \cup {Len(located) + 1}
          /\ located'[Len(located) + 1] = at
          /\ \A i \in DOMAIN located : located'[i] = located[i]
      BY <1>4, <3>1, Grows
    <3>4. \A i \in DOMAIN located' : Positioned(located'[i])
      BY <2>1, <3>1, <3>3
    <3> QED
      BY <1>1, <1>2, <3>2, <3>4 DEF Normalizing
  <2>4. Building' /\ Taking' /\ Staged'
    BY <1>1, <1>2, <1>4 DEF Building, Taking, Staged, building
  <2> QED
    BY <2>2, <2>3, <2>4 DEF Inv
<1>5. \/ UNCHANGED <<located, bases, hashes>> /\ pc' = "refused"
      \/ /\ Contained(path) /\ Ordered(place) /\ located' = Append(located, at)
         /\ hashes' = Remember(hashes, path, Hash(path)) /\ UNCHANGED pc
  BY DEF Locate
<1> QED
  BY <1>3, <1>4, <1>5

\* An alert more.
LEMMA AddAlertKeeps == Inv /\ AddAlert => Inv'
<1> SUFFICES ASSUME Inv, AddAlert
             PROVE  Inv'
  OBVIOUS
<1>1. Types /\ Normalizing /\ Building /\ Taking /\ Staged
  BY DEF Inv
<1>2. pc = "normalize" /\ UNCHANGED <<setup, tree, building, registry, changes>>
  BY DEF AddAlert
<1>3. CASE UNCHANGED normalizing /\ pc' = "refused"
  <2>1. Types' /\ Normalizing' /\ Building' /\ Taking' /\ Staged'
    BY <1>1, <1>2, <1>3
       DEF Types, Normalizing, Building, Taking, Staged, building, normalizing
  <2> QED
    BY <2>1 DEF Inv
<1>4. CASE /\ alerts' = Append(alerts, NormalizedAlert(Result)) /\ NextResolver
           /\ located' = <<>> /\ UNCHANGED pc
  <2> DEFINE alert == NormalizedAlert(Result)
  <2>1. /\ DOMAIN setup.results = 1 .. Len(setup.results) /\ Len(setup.results) \in Nat
        /\ Len(alerts) \in Nat /\ Len(alerts) < Len(setup.results)
    <3>1. Len(alerts) < Len(setup.results)
      BY DEF AddAlert
    <3>2. IsSequence(setup.results) /\ IsSequence(alerts)
      BY <1>1, SetupsAre DEF Types, Normalizing
    <3> QED
      BY <3>1, <3>2, Sequences
  <2>2. WellFormed(alert)
    <3>1. Len(alerts) + 1 \in DOMAIN setup.results
      BY <2>1
    <3>2. Shaped(Result)
      BY <1>1, <3>1, ResultsAre DEF Types, Result
    <3>3. Len(located) = Len(References(Result))
      BY DEF AddAlert
    <3>4. IsSequence(located) /\ \A i \in DOMAIN located : Positioned(located[i])
      BY <1>1 DEF Normalizing
    <3> QED
      BY <3>2, <3>3, <3>4, NormalizedReferences
  <2> HIDE DEF alert
  <2>3. alerts' = Append(alerts, alert)
    BY <1>4 DEF alert
  <2>4. Types'
    <3>1. Range(hashes') \subseteq {"none"} \cup Contents
      <4>1. hashes' = hashes \/ hashes' = <<>>
        BY <1>4 DEF NextResolver
      <4> QED
        BY <1>1, <4>1, EmptySequence DEF Types
    <3> QED
      BY <1>1, <1>2, <1>4, <3>1 DEF Types
  <2>5. Normalizing'
    <3>1. IsSequence(alerts) /\ \A a \in DOMAIN alerts : WellFormed(alerts[a])
      BY <1>1 DEF Normalizing
    <3>2. IsSequence(alerts') /\ Len(alerts') = Len(alerts) + 1
      BY <2>3, <3>1, Longer
    <3>3. /\ DOMAIN alerts' = DOMAIN alerts \cup {Len(alerts) + 1}
          /\ alerts'[Len(alerts) + 1] = alert
          /\ \A a \in DOMAIN alerts : alerts'[a] = alerts[a]
      BY <2>3, <3>1, Grows
    <3>4. \A a \in DOMAIN alerts' : WellFormed(alerts'[a])
      BY <2>2, <3>1, <3>3
    <3>5. Len(alerts') <= Len(setup'.results)
      BY <1>2, <2>1, <3>2
    <3>6. IsSequence(located') /\ DOMAIN located' = {}
      BY <1>4, EmptySequence
    <3> QED
      BY <3>2, <3>4, <3>5, <3>6 DEF Normalizing
  <2>6. Building'
    <3>1. contexts' = <<>> /\ cache' = cache
      BY <1>1, <1>2 DEF Staged, building
    <3>2. Len(contexts') <= Len(alerts')
      <4>1. IsSequence(alerts') /\ Len(contexts') = 0
        BY <2>5, <3>1 DEF Normalizing
      <4>2. Len(alerts') \in Nat
        BY <4>1, Sequences
      <4> QED
        BY <4>1, <4>2
    <3>3. IsSequence(contexts') /\ DOMAIN contexts' = {}
      BY <3>1, EmptySequence
    <3> QED
      BY <1>1, <3>1, <3>2, <3>3 DEF Building
  <2>7. Taking' /\ Staged'
    BY <1>1, <1>2, <1>4 DEF Taking, Staged, building
  <2> QED
    BY <2>4, <2>5, <2>6, <2>7 DEF Inv
<1>5. \/ UNCHANGED normalizing /\ pc' = "refused"
      \/ /\ alerts' = Append(alerts, NormalizedAlert(Result)) /\ NextResolver
         /\ located' = <<>> /\ UNCHANGED pc
  BY DEF AddAlert
<1> QED
  BY <1>3, <1>4, <1>5

\* The alert that is next has no context yet.
LEMMA NextAlert ==
    ASSUME IsSequence(alerts), IsSequence(contexts), Len(contexts) < Len(alerts)
    PROVE  /\ Len(contexts) + 1 \in DOMAIN alerts /\ Len(contexts) + 1 \notin DOMAIN contexts
           /\ Len(contexts) \in Nat /\ Len(alerts) \in Nat
           /\ Len(contexts) + 1 <= Len(alerts)
<1>1. /\ DOMAIN alerts = 1 .. Len(alerts) /\ Len(alerts) \in Nat
      /\ DOMAIN contexts = 1 .. Len(contexts) /\ Len(contexts) \in Nat
  BY Sequences
<1> QED
  BY <1>1

\* The normalizer is done.
LEMMA NormalizeKeeps == Inv /\ Normalize => Inv'
<1> SUFFICES ASSUME Inv, Normalize
             PROVE  Inv'
  OBVIOUS
<1>1. Types /\ Normalizing /\ Building /\ Taking /\ Staged
  BY DEF Inv
<1>2. /\ pc = "normalize" /\ pc' = IF alerts = <<>> THEN "register" ELSE "slice"
      /\ UNCHANGED <<setup, tree, normalizing, building, registry, changes>>
  BY DEF Normalize
<1>3. contexts = <<>> /\ taken = Nothing /\ Len(contexts) = 0 /\ IsSequence(alerts)
  <2>1. contexts = <<>>
    BY <1>1, <1>2 DEF Staged
  <2> QED
    BY <1>1, <1>2, <2>1 DEF Taking, Normalizing
<1>4. Types' /\ Normalizing' /\ Building'
  BY <1>1, <1>2 DEF Types, Normalizing, Building, normalizing, building
<1>5. CASE alerts = <<>>
  <2>1. pc' = "register" /\ Len(contexts) = Len(alerts)
    BY <1>2, <1>3, <1>5
  <2>2. Taking' /\ Staged'
    BY <1>1, <1>2, <1>3, <2>1 DEF Taking, Staged, normalizing, building
  <2> QED
    BY <1>4, <2>2 DEF Inv
<1>6. CASE alerts # <<>>
  <2>1. pc' = "slice"
    BY <1>2, <1>6
  <2>2. 0 < Len(alerts)
    BY <1>3, <1>6, Sequences
  <2>3. 1 \in DOMAIN alerts /\ 0 + 1 = 1
    <3>1. DOMAIN alerts = 1 .. Len(alerts) /\ Len(alerts) \in Nat
      BY <1>3, Sequences
    <3> QED
      BY <2>2, <3>1
  <2>4. Shaped(alerts[1])
    BY <1>1, <2>3 DEF Normalizing, WellFormed
  <2>5. TakenInv(Nothing, alerts[1], cache)
    BY <2>4, NothingTaken DEF Nothing
  <2>6. alerts[Len(contexts) + 1] = alerts[1]
    BY <1>3, <2>3
  <2>7. TakenInv(taken, alerts[Len(contexts) + 1], cache)
    BY <1>3, <2>5, <2>6
  <2>8. Taking'
    BY <1>2, <1>3, <2>1, <2>2, <2>7 DEF Taking, normalizing, building
  <2>9. Staged'
    BY <1>2, <2>1 DEF Staged
  <2> QED
    BY <1>4, <2>8, <2>9 DEF Inv
<1> QED
  BY <1>5, <1>6

\* A reference more.
LEMMA TakeReferenceKeeps == Inv /\ TakeReference => Inv'
<1> SUFFICES ASSUME Inv, TakeReference
             PROVE  Inv'
  OBVIOUS
<1> DEFINE p == NextReference.location.path
           content == ReadSource(p)
           D == Remember(cache, p, content)
<1>1. Types /\ Normalizing /\ Building /\ Taking /\ Staged
  BY DEF Inv
<1>2. /\ pc = "slice" /\ cache' = D
      /\ taken' = [Refer(taken, setup.policy, NextReference, content) EXCEPT !.next = @ + 1]
      /\ UNCHANGED <<setup, tree, normalizing, contexts, registry, pc, changes>>
  BY DEF TakeReference
<1>3. /\ Len(contexts) < Len(alerts) /\ TakenInv(taken, Current, cache)
      /\ IsSequence(alerts) /\ IsSequence(contexts)
  BY <1>1, <1>2 DEF Taking, Normalizing, Building, Current
<1>4. WellFormed(Current)
  BY <1>1, <1>3, NextAlert DEF Current, Normalizing
<1>5. content \in Contents
  <2>1. p \in DOMAIN cache => cache[p] \in Contents
    BY <1>1 DEF Building
  <2>2. Content(p) \in Contents
    BY <1>1, ContentIs
  <2> QED
    BY <2>1, <2>2 DEF ReadSource
<1>6. p \in DOMAIN cache => content = cache[p]
  BY DEF ReadSource
<1>7. NextReference = References(Current)[taken.next]
      /\ p = References(Current)[taken.next].location.path
  BY DEF NextReference
<1>8. taken.next \in DOMAIN References(Current)
  <2>1. DOMAIN References(Current) = 1 .. Len(References(Current))
        /\ Len(References(Current)) \in Nat
    BY <1>4, ReferencesAre, Sequences DEF WellFormed
  <2>2. taken.next \in Nat \ {0} /\ taken.next <= Len(References(Current))
    BY <1>3 DEF TakenInv, TakeReference
  <2> QED
    BY <2>1, <2>2
<1> HIDE DEF content
<1>9. D[p] = content /\ p \in DOMAIN D /\ Later(cache, D)
      /\ \A q \in DOMAIN D : D[q] \in Contents
  <2> HIDE DEF p
  <2>1. /\ DOMAIN D = DOMAIN cache \cup {p} /\ \A q \in DOMAIN cache : D[q] = cache[q]
        /\ p \notin DOMAIN cache => D[p] = content
    BY DEF Remember
  <2> HIDE DEF D
  <2>2. D[p] = content
    BY <1>6, <2>1
  <2>3. Later(cache, D)
    BY <2>1 DEF Later
  <2> QED
    BY <1>1, <1>5, <2>1, <2>2, <2>3 DEF Building
<1> HIDE DEF p, D
<1>10. TakenInv(taken, Current, D)
  BY <1>3, <1>9, TakenStays
<1>11. /\ References(Current)[taken.next].location.path \in DOMAIN D
       /\ D[References(Current)[taken.next].location.path] = content
  BY <1>7, <1>9
<1>12. TakenInv([Refer(taken, setup.policy, References(Current)[taken.next], content)
                   EXCEPT !.next = @ + 1], Current, D)
  BY <1>4, <1>5, <1>8, <1>10, <1>11, TakenStep
<1>13. TakenInv(taken', Current, D)
  BY <1>2, <1>7, <1>12
<1>14. Types' /\ Normalizing' /\ Staged'
  BY <1>1, <1>2 DEF Types, Normalizing, Staged, normalizing
<1>15. Building'
  <2>1. \A a \in DOMAIN contexts : IsContext(contexts[a], alerts[a], D)
    BY <1>1, <1>9, ContextStays DEF Building
  <2> QED
    BY <1>1, <1>2, <1>9, <2>1 DEF Building, normalizing
<1>16. Taking'
  <2>1. Current = alerts[Len(contexts) + 1]
    BY DEF Current
  <2> QED
    BY <1>2, <1>3, <1>13, <2>1 DEF Taking, normalizing
<1> QED
  BY <1>14, <1>15, <1>16 DEF Inv

\* A context more.
LEMMA BuildAlertKeeps == Inv /\ BuildAlert => Inv'
<1> SUFFICES ASSUME Inv, BuildAlert
             PROVE  Inv'
  OBVIOUS
<1> DEFINE c == Context(Current, taken)
           n == Len(contexts) + 1
<1>1. Types /\ Normalizing /\ Building /\ Taking /\ Staged
  BY DEF Inv
<1>2. /\ pc = "slice" /\ contexts' = Append(contexts, c) /\ taken' = Nothing
      /\ pc' = IF Len(contexts') = Len(alerts) THEN "register" ELSE pc
      /\ UNCHANGED <<setup, tree, normalizing, cache, registry, changes>>
  BY DEF BuildAlert
<1>3. /\ Len(contexts) < Len(alerts) /\ TakenInv(taken, Current, cache)
      /\ IsSequence(alerts) /\ IsSequence(contexts) /\ Current = alerts[n]
  BY <1>1, <1>2 DEF Taking, Normalizing, Building, Current
<1>4. /\ n \in DOMAIN alerts /\ n <= Len(alerts) /\ n \in Nat /\ Len(alerts) \in Nat
      /\ Len(contexts) \in Nat
  BY <1>3, NextAlert
<1>5. WellFormed(Current)
  BY <1>1, <1>3, <1>4 DEF Normalizing
<1>6. taken.next > Len(References(Current))
  BY DEF BuildAlert
<1>7. IsContext(c, Current, cache)
  BY <1>3, <1>5, <1>6, ContextIs
<1> HIDE DEF c
<1>8. /\ IsSequence(contexts') /\ Len(contexts') = n
      /\ DOMAIN contexts' = DOMAIN contexts \cup {n} /\ contexts'[n] = c
      /\ \A a \in DOMAIN contexts : contexts'[a] = contexts[a]
  BY <1>2, <1>3, Longer, Grows
<1>9. Building'
  <2>1. \A a \in DOMAIN contexts' : IsContext(contexts'[a], alerts[a], cache)
    BY <1>1, <1>3, <1>7, <1>8 DEF Building
  <2> QED
    BY <1>1, <1>2, <1>4, <1>8, <2>1 DEF Building, normalizing
<1>10. Normalizing'
  BY <1>1, <1>2 DEF Normalizing, normalizing
<1>11. CASE n = Len(alerts)
  <2>1. pc' = "register" /\ Len(contexts') = Len(alerts)
    BY <1>2, <1>8, <1>11
  <2>2. Types' /\ Taking' /\ Staged'
    BY <1>1, <1>2, <2>1 DEF Types, Taking, Staged, normalizing
  <2> QED
    BY <1>9, <1>10, <2>2 DEF Inv
<1>12. CASE n # Len(alerts)
  <2>1. pc' = "slice"
    BY <1>2, <1>8, <1>12
  <2>2. n < Len(alerts) /\ n + 1 \in DOMAIN alerts
    <3>1. DOMAIN alerts = 1 .. Len(alerts)
      BY <1>3, Sequences
    <3>2. n \in Nat /\ Len(alerts) \in Nat /\ n <= Len(alerts) /\ n # Len(alerts)
      BY <1>4, <1>12
    <3> HIDE DEF n
    <3>3. n < Len(alerts) /\ n + 1 \in 1 .. Len(alerts)
      BY <3>2
    <3> QED
      BY <3>1, <3>3
  <2>3. Shaped(alerts[n + 1])
    BY <1>1, <2>2 DEF Normalizing, WellFormed
  <2>4. TakenInv(Nothing, alerts[n + 1], cache)
    BY <2>3, NothingTaken DEF Nothing
  <2>5. Len(contexts') < Len(alerts) /\ alerts[Len(contexts') + 1] = alerts[n + 1]
    BY <1>8, <2>2
  <2>6. Taking'
    BY <1>2, <2>1, <2>4, <2>5 DEF Taking, normalizing
  <2>7. Types' /\ Staged'
    BY <1>1, <1>2, <2>1 DEF Types, Staged, normalizing
  <2> QED
    BY <1>9, <1>10, <2>6, <2>7 DEF Inv
<1> QED
  BY <1>11, <1>12

\* The registry.
LEMMA RegisterKeeps == Inv /\ Register => Inv'
<1> SUFFICES ASSUME Inv, Register
             PROVE  Inv'
  OBVIOUS
<1>1. Types /\ Normalizing /\ Building /\ Taking /\ Staged
  BY DEF Inv
<1>2. pc = "register" /\ UNCHANGED <<setup, tree, normalizing, building, changes>>
  BY DEF Register
<1>3. \/ registry' = Build(alerts, contexts) /\ pc' \in {"merge", "ready"}
      \/ ~Closed(Build(alerts, contexts)) /\ pc' = "crashed"
  BY DEF Register
<1>4. pc' \in {"merge", "ready", "crashed"}
  BY <1>3
<1>5. Types' /\ Normalizing' /\ Building' /\ Taking'
  BY <1>1, <1>2, <1>4 DEF Types, Normalizing, Building, Taking, normalizing, building
<1>6. Staged'
  BY <1>1, <1>2, <1>3 DEF Staged, normalizing, building
<1> QED
  BY <1>5, <1>6 DEF Inv

\* The supplement.
LEMMA MergeKeeps == Inv /\ Merge => Inv'
<1> SUFFICES ASSUME Inv, Merge
             PROVE  Inv'
  OBVIOUS
<1>1. Types /\ Normalizing /\ Building /\ Taking /\ Staged
  BY DEF Inv
<1>2. pc = "merge" /\ UNCHANGED <<setup, tree, normalizing, building, changes>>
  BY DEF Merge
<1>3. \/ /\ Acceptable(setup.supplement) /\ pc' = "ready"
         /\ registry' = Merged(registry, setup.supplement.entries)
      \/ pc' = "refused"
  BY DEF Merge
<1>4. pc' \in {"ready", "refused"}
  BY <1>3
<1>5. Types' /\ Normalizing' /\ Building' /\ Taking'
  BY <1>1, <1>2, <1>4 DEF Types, Normalizing, Building, Taking, normalizing, building
<1>6. Acceptable(setup.supplement) => Acceptable(setup.supplement)'
  BY <1>2 DEF Acceptable, normalizing
<1>7. registry = Build(alerts, contexts)
  BY <1>1, <1>2 DEF Staged
<1>8. Staged'
  BY <1>1, <1>2, <1>3, <1>6, <1>7 DEF Staged, normalizing, building
<1> QED
  BY <1>5, <1>8 DEF Inv

\* Another program's change.
LEMMA ChangeKeeps ==
    ASSUME Inv, NEW p \in Paths, NEW content \in InitialContents, Change(p, content)
    PROVE  Inv'
<1>1. Types /\ Normalizing /\ Building /\ Taking /\ Staged
  BY DEF Inv
<1>2. /\ changes < MaxChanges /\ tree' = [tree EXCEPT ![p] = content]
      /\ changes' = changes + 1
      /\ UNCHANGED <<setup, normalizing, building, registry, pc>>
  BY DEF Change
<1>3. tree' \in [Paths -> Contents]
  BY <1>1, <1>2, EvidenceAssumption DEF Types
<1>4. changes' \in 0 .. MaxChanges
  BY <1>1, <1>2, EvidenceAssumption DEF Types
<1>5. Types'
  BY <1>1, <1>2, <1>3, <1>4 DEF Types, normalizing
<1>6. Normalizing' /\ Building' /\ Taking' /\ Staged'
  BY <1>1, <1>2 DEF Normalizing, Building, Taking, Staged, Acceptable, normalizing, building
<1> QED
  BY <1>5, <1>6 DEF Inv

\* Every step keeps the invariant.
LEMMA InvNext == Inv /\ [Next]_vars => Inv'
<1> SUFFICES ASSUME Inv, [Next]_vars
             PROVE  Inv'
  OBVIOUS
<1>1. CASE UNCHANGED vars
  BY <1>1 DEF Inv, Types, Normalizing, Building, Taking, Staged, Acceptable, vars,
              normalizing, building
<1>2. CASE Next
  BY <1>2, LocateKeeps, AddAlertKeeps, NormalizeKeeps, TakeReferenceKeeps, BuildAlertKeeps,
     RegisterKeeps, MergeKeeps, ChangeKeeps DEF Next
<1> QED
  BY <1>1, <1>2

\* The invariant holds of every behaviour.
THEOREM EvidenceInv == Spec => []Inv
BY InvInit, InvNext, PTL DEF Spec

-----------------------------------------------------------------------------
(* What the invariant says. *)

\* The types.
LEMMA TypesHold == Inv => TypeOK
<1> SUFFICES ASSUME Inv
             PROVE  TypeOK
  OBVIOUS
<1>1. Types /\ Normalizing /\ Building /\ Taking
  BY DEF Inv
<1>2. Range(cache) \subseteq Contents
  BY <1>1 DEF Building, Range
<1>3. taken.next \in Nat \ {0}
  <2>1. CASE pc = "slice"
    BY <1>1, <2>1 DEF Taking, TakenInv
  <2>2. CASE pc # "slice"
    BY <1>1, <2>2 DEF Taking, Nothing
  <2> QED
    BY <2>1, <2>2
<1> QED
  BY <1>1, <1>2, <1>3 DEF TypeOK, Types, Normalizing, Building

\* The alert of a context.
LEMMA ContextsAre ==
    ASSUME Inv, NEW a \in DOMAIN contexts
    PROVE  a \in DOMAIN alerts /\ IsContext(contexts[a], alerts[a], cache)
<1>1. Normalizing /\ Building
  BY DEF Inv
<1>2. IsContext(contexts[a], alerts[a], cache)
  BY <1>1 DEF Building
<1>3. /\ DOMAIN alerts = 1 .. Len(alerts) /\ Len(alerts) \in Nat
      /\ DOMAIN contexts = 1 .. Len(contexts) /\ Len(contexts) \in Nat
  BY <1>1, Sequences DEF Normalizing, Building
<1>4. Len(contexts) <= Len(alerts)
  BY <1>1 DEF Building
<1>5. a \in DOMAIN alerts
  BY <1>3, <1>4
<1> QED
  BY <1>2, <1>5

\* All slices of a file are of what the cache has of it.
LEMMA VersionsAgree == Inv => OneVersion
<1> SUFFICES ASSUME Inv, NEW a \in DOMAIN contexts, NEW b \in DOMAIN contexts,
                    NEW s \in Range(contexts[a].slices), NEW t \in Range(contexts[b].slices)
             PROVE  /\ s.path = t.path => s.digest = t.digest
                    /\ \A k \in DOMAIN s.references :
                         s.references[k].location.digest \in {"none", s.digest}
  BY DEF OneVersion
<1>1. IsSlice(s, alerts[a].paths, cache)
  BY ContextsAre DEF IsContext
<1>2. IsSlice(t, alerts[b].paths, cache)
  BY ContextsAre DEF IsContext
<1> QED
  BY <1>1, <1>2 DEF IsSlice

\* A context accounts for every place of its alert and stays within the budget.
LEMMA ContextsAccount ==
    ASSUME Inv, NEW a \in DOMAIN contexts
    PROVE  Accounted(a) /\ WithinTheBudget(a)
<1>1. IsContext(contexts[a], alerts[a], cache)
  BY ContextsAre
<1>2. Accounted(a)
  <2>1. \A i \in DOMAIN References(alerts[a]) : Told(References(alerts[a])[i], contexts[a])
    BY <1>1 DEF IsContext
  <2> QED
    BY <2>1 DEF Accounted, Told, Shows
<1>3. WithinTheBudget(a)
  <2>1. contexts[a].slices # <<>> =>
          Tokens(alerts[a].bytes) + Total(contexts[a].slices) <= Budget
    BY <1>1 DEF IsContext
  <2>2. Total(contexts[a].slices)
          = FoldLeft(LAMBDA n, s : n + SliceTokens(s), 0, contexts[a].slices)
    BY DEF Total, TokensFrom
  <2> QED
    BY <2>1, <2>2 DEF WithinTheBudget
<1> QED
  BY <1>2, <1>3

\* The context of an alert is honest about what it shows and what it leaves
\* out: for every snapshot, every alert and every change that another program
\* makes between the normalizer and the last alert (evidence/builder.py:200-290).
THEOREM ContextsAreHonest == Spec => []ContextIsHonest
<1>1. Inv => ContextIsHonest
  BY TypesHold, VersionsAgree, ContextsAccount DEF ContextIsHonest
<1> QED
  BY <1>1, EvidenceInv, PTL

\* The registry is built of contexts that fit their alerts.
LEMMA RegistryInputs ==
    ASSUME Inv, Len(contexts) = Len(alerts)
    PROVE  Inputs(alerts, contexts) /\ DOMAIN contexts = DOMAIN alerts
<1>1. IsSequence(alerts) /\ IsSequence(contexts)
  BY DEF Inv, Normalizing, Building
<1>2. DOMAIN alerts = DOMAIN contexts
  BY <1>1, Sequences
<1>3. \A a \in DOMAIN alerts : Sliced(alerts[a], contexts[a])
  BY <1>2, ContextsAre DEF IsContext
<1> QED
  BY <1>1, <1>2, <1>3 DEF Inputs

\* A run ends in the validator of the registry only when two omissions of one
\* resource alert differ in nothing but their file (evidence/registry.py:175-205,
\* domain/evidence.py).
THEOREM OnlyTwinsCrash == Spec => []OnlyTwinGapsCrash
<1>1. Inv => OnlyTwinGapsCrash
  <2> SUFFICES ASSUME Inv, pc = "crashed"
               PROVE  \E a \in DOMAIN contexts :
                         /\ alerts[a].resource
                         /\ \E o, q \in Range(contexts[a].omitted) :
                              o.path # q.path /\ o.code = q.code /\ o.detail = q.detail
    BY DEF OnlyTwinGapsCrash
  <2>1. Len(contexts) = Len(alerts) /\ ~Closed(Build(alerts, contexts))
    BY DEF Inv, Staged
  <2>2. Inputs(alerts, contexts) /\ DOMAIN contexts = DOMAIN alerts
    BY <2>1, RegistryInputs
  <2>3. PICK a \in DOMAIN alerts : alerts[a].resource /\ Twins(contexts[a])
    BY <2>1, <2>2, BuiltIsClosed
  <2> QED
    BY <2>2, <2>3 DEF Twins
<1> QED
  BY <1>1, EvidenceInv, PTL

\* What the supplement adds.
LEMMA MergedIs ==
    ASSUME NEW as, NEW cs, NEW entries
    PROVE  /\ Merged(Build(as, cs), entries).items
                = Build(as, cs).items \o [i \in DOMAIN entries |-> EntryItem(entries[i])]
           /\ Merged(Build(as, cs), entries).edges = Build(as, cs).edges
<1> DEFINE u == Build(as, cs).artifacts
           v == Build(as, cs).items
           w == Build(as, cs).edges
           x == Append(u, Supplement)
           y == v \o [i \in DOMAIN entries |-> EntryItem(entries[i])]
           b == Build(as, cs)
           r == [b EXCEPT !.artifacts = x]
<1>1. Build(as, cs) = [artifacts |-> u, items |-> v, edges |-> w]
  BY DEF Build
<1>2. Merged(Build(as, cs), entries) = [b EXCEPT !.artifacts = x, !.items = y]
  BY DEF Merged
<1>3. b = [artifacts |-> u, items |-> v, edges |-> w]
  BY <1>1
<1> HIDE DEF u, v, w, x, y
<1>4. b.artifacts = u /\ b.items = v
  BY <1>3
<1> HIDE DEF b
<1>5. r = [artifacts |-> x, items |-> v, edges |-> w]
  BY <1>3
<1> HIDE DEF r
<1>6. [r EXCEPT !.items = y] = [artifacts |-> x, items |-> y, edges |-> w]
  BY <1>5
<1>7. Merged(Build(as, cs), entries) = [artifacts |-> x, items |-> y, edges |-> w]
  BY <1>2, <1>6 DEF r
<1>8. /\ Merged(Build(as, cs), entries).items = y /\ Merged(Build(as, cs), entries).edges = w
      /\ Build(as, cs).items = v /\ Build(as, cs).edges = w
  BY <1>1, <1>7
<1> QED
  BY <1>8 DEF y

\* The registry, with the supplement or without.
THEOREM RegistryGrounds == Spec => []RegistryIsGrounded
<1>1. Inv => RegistryIsGrounded
  <2> SUFFICES ASSUME Inv, pc = "ready"
               PROVE  Grounded(Range(registry.items), registry.edges, alerts, contexts)
    BY DEF RegistryIsGrounded, Grounded
  <2>1. /\ Len(contexts) = Len(alerts)
        /\ \/ registry = Build(alerts, contexts)
           \/ /\ registry = Merged(Build(alerts, contexts), setup.supplement.entries)
              /\ Acceptable(setup.supplement)
    BY DEF Inv, Staged
  <2>2. Inputs(alerts, contexts)
    BY <2>1, RegistryInputs
  <2> DEFINE built == Range(Build(alerts, contexts).items)
             items == Range(registry.items)
  <2>3. /\ \A a \in DOMAIN alerts : ItemsOf(a, alerts[a], contexts[a]) \subseteq built
        /\ \A x \in built : \E a \in DOMAIN alerts : x \in ItemsOf(a, alerts[a], contexts[a])
        /\ IsSequence(Build(alerts, contexts).items)
    BY <2>2, ItemsBuilt
  <2>4. /\ registry.edges = Build(alerts, contexts).edges
        /\ \A x \in built : x \in items
        /\ \A x \in items : x \in built \/ (x.artifact = Supplement /\ x.alert \in DOMAIN alerts)
    <3>1. CASE registry = Build(alerts, contexts)
      BY <3>1
    <3>2. CASE /\ registry = Merged(Build(alerts, contexts), setup.supplement.entries)
               /\ Acceptable(setup.supplement)
      <4> DEFINE entries == setup.supplement.entries
                 more == [i \in DOMAIN entries |-> EntryItem(entries[i])]
                 old == Build(alerts, contexts).items
      <4>1. registry.items = old \o more /\ registry.edges = Build(alerts, contexts).edges
        <5>1. registry = Merged(Build(alerts, contexts), entries)
          BY <3>2
        <5> HIDE DEF entries
        <5> QED
          BY <5>1, MergedIs
      <4>2. IsSequence(more)
        <5>1. IsSequence(entries)
          BY SetupsAre DEF Inv, Types
        <5>2. DOMAIN entries = 1 .. Len(entries) /\ Len(entries) \in Nat
          BY <5>1, Sequences
        <5>3. more = [i \in 1 .. Len(entries) |-> more[i]]
          BY <5>2
        <5> HIDE DEF more
        <5> QED
          BY <5>2, <5>3, SequenceOf
      <4>3. \A x \in Range(more) : x.artifact = Supplement /\ x.alert \in DOMAIN alerts
        <5> SUFFICES ASSUME NEW i \in DOMAIN entries
                     PROVE  /\ EntryItem(entries[i]).artifact = Supplement
                            /\ EntryItem(entries[i]).alert \in DOMAIN alerts
          BY DEF Range
        <5>1. entries[i].alert \in DOMAIN alerts
          BY <3>2 DEF Acceptable
        <5> QED
          BY <5>1 DEF EntryItem, Item
      <4> HIDE DEF more
      <4>4. Range(old \o more) = Range(old) \cup Range(more)
        BY <2>3, <4>2, Joined
      <4> QED
        BY <4>1, <4>3, <4>4
    <3> QED
      BY <2>1, <3>1, <3>2
  <2>5. \A e : e \in registry.edges
                 <=> \E a \in DOMAIN alerts : e \in AlertEdges(a, alerts[a], contexts[a])
    BY <2>4, EdgesBuilt
  <2> HIDE DEF built, items
  <2>6. \A a \in DOMAIN alerts : ItemsOf(a, alerts[a], contexts[a]) \subseteq items
    BY <2>3, <2>4
  <2>7. \A x \in items : \/ \E a \in DOMAIN alerts : x \in ItemsOf(a, alerts[a], contexts[a])
                         \/ x.artifact = Supplement /\ x.alert \in DOMAIN alerts
    BY <2>3, <2>4
  <2>8. Grounded(items, registry.edges, alerts, contexts)
    BY <2>2, <2>5, <2>6, <2>7, Grounds
  <2> QED
    BY <2>8 DEF items
<1> QED
  BY <1>1, EvidenceInv, PTL

-----------------------------------------------------------------------------
(* The bases of a SARIF run, from the inner to the outer.                    *)

\* Where the climb over the bases ends.
Ends(run, known, id) == id \in known \/ Parent(run, id) = NoBase

\* One base more, if there is one.
OneUp(run, known, c) ==
    IF Ends(run, known, Last(c)) THEN c ELSE Append(c, Parent(run, Last(c)))

\* The climb over the bases, step by step.
LEMMA AncestorsSteps ==
    ASSUME NEW run, NEW id, NEW known, NEW limit \in Nat
    PROVE  \E up : /\ up[0] = <<id>> /\ up[limit] = Ancestors(run, id, known, limit)
                   /\ \A n \in 1 .. limit : up[n] = OneUp(run, known, up[n - 1])
<1> DEFINE Next1(n, f) == IF n = 0 THEN <<id>> ELSE OneUp(run, known, f[n - 1])
           Solution(f) == f = [n \in 0 .. limit |-> Next1(n, f)]
           T == {k \in Nat : \E f : f = [n \in 0 .. k |-> Next1(n, f)]}
           up == CHOOSE f : Solution(f)
<1>1. 0 \in T
  <2> DEFINE f == [n \in 0 .. 0 |-> <<id>>]
  <2>1. f = [n \in 0 .. 0 |-> Next1(n, f)]
    OBVIOUS
  <2> HIDE DEF f
  <2> QED
    BY <2>1
<1>2. ASSUME NEW k \in Nat, k \in T
      PROVE  k + 1 \in T
  <2>1. PICK f : f = [n \in 0 .. k |-> Next1(n, f)]
    BY <1>2
  <2> DEFINE g == [n \in 0 .. k + 1 |-> IF n = k + 1 THEN OneUp(run, known, f[k]) ELSE f[n]]
  <2>2. ASSUME NEW n \in 0 .. k + 1
        PROVE  g[n] = Next1(n, g)
    <3>1. CASE n = k + 1
      <4>1. g[n] = OneUp(run, known, f[k]) /\ n # 0 /\ n - 1 = k /\ k \in 0 .. k + 1 /\ k # k + 1
        BY <3>1
      <4>2. g[n - 1] = f[k]
        BY <4>1
      <4> HIDE DEF g
      <4> QED
        BY <4>1, <4>2
    <3>2. CASE n # k + 1
      <4>1. n \in 0 .. k /\ g[n] = f[n]
        BY <3>2
      <4>2. f[n] = Next1(n, f)
        BY <2>1, <4>1
      <4>3. CASE n = 0
        BY <4>1, <4>2, <4>3
      <4>4. CASE n # 0
        <5>1. n - 1 \in 0 .. k + 1 /\ n - 1 # k + 1
          BY <4>1, <4>4
        <5>2. g[n - 1] = f[n - 1]
          BY <5>1
        <5> HIDE DEF g
        <5> QED
          BY <4>1, <4>2, <4>4, <5>2
      <4> QED
        BY <4>3, <4>4
    <3> QED
      BY <3>1, <3>2
  <2>3. g = [n \in 0 .. k + 1 |-> Next1(n, g)]
    <3>1. g = [n \in 0 .. k + 1 |-> g[n]]
      OBVIOUS
    <3> HIDE DEF g, Next1
    <3> QED
      BY <2>2, <3>1
  <2>4. k + 1 \in Nat
    OBVIOUS
  <2> HIDE DEF g, Next1
  <2> QED
    BY <2>3, <2>4
<1>3. limit \in T
  <2> HIDE DEF T
  <2> QED
    BY <1>1, <1>2, Induction
<1>4. Solution(up)
  <2>1. \E f : Solution(f)
    BY <1>3
  <2> HIDE DEF Solution
  <2> QED
    BY <2>1
<1>5. Ancestors(run, id, known, limit) = up[limit]
  BY DEF Ancestors, OneUp, Ends
<1> HIDE DEF up
<1>6. up[0] = <<id>>
  <2>1. 0 \in 0 .. limit
    OBVIOUS
  <2> QED
    BY <1>4, <2>1
<1>7. ASSUME NEW n \in 1 .. limit
      PROVE  up[n] = OneUp(run, known, up[n - 1])
  <2>1. n \in 0 .. limit /\ n # 0
    OBVIOUS
  <2> QED
    BY <1>4, <2>1
<1> QED
  BY <1>5, <1>6, <1>7

\* The ids of a climb of at most n steps.
Climbs(run, id, known, n, c) ==
    /\ IsSequence(c) /\ Len(c) \in Nat /\ 1 <= Len(c) /\ Len(c) <= n + 1 /\ c[1] = id
    /\ \A i \in 1 .. Len(c) - 1 :
         ~Ends(run, known, c[i]) /\ c[i + 1] = Parent(run, c[i])
    /\ Len(c) <= n => Ends(run, known, c[Len(c)])

\* A step of the climb.
LEMMA OneUpClimbs ==
    ASSUME NEW run, NEW id, NEW known, NEW n \in Nat, NEW c,
           Climbs(run, id, known, n, c)
    PROVE  Climbs(run, id, known, n + 1, OneUp(run, known, c))
<1> DEFINE m == Len(c)
           p == Parent(run, Last(c))
<1>1. /\ IsSequence(c) /\ m \in Nat /\ 1 <= m /\ m <= n + 1 /\ c[1] = id
      /\ \A i \in 1 .. m - 1 : ~Ends(run, known, c[i]) /\ c[i + 1] = Parent(run, c[i])
      /\ m <= n => Ends(run, known, c[m])
  BY DEF Climbs
<1>2. Last(c) = c[m]
  BY DEF Last
<1>3. CASE Ends(run, known, Last(c))
  <2>1. OneUp(run, known, c) = c
    BY <1>3 DEF OneUp
  <2>2. m <= (n + 1) + 1 /\ (m <= n + 1 => Ends(run, known, c[m]))
    BY <1>1, <1>2, <1>3
  <2> QED
    BY <1>1, <2>1, <2>2 DEF Climbs
<1>4. CASE ~Ends(run, known, Last(c))
  <2> DEFINE d == Append(c, p)
  <2>1. OneUp(run, known, c) = d
    BY <1>4 DEF OneUp
  <2>2. IsSequence(d) /\ Len(d) = m + 1
    BY <1>1, Longer
  <2>3. d[m + 1] = p /\ \A i \in 1 .. m : d[i] = c[i]
    <3>1. DOMAIN c = 1 .. m
      BY <1>1, Sequences
    <3> QED
      BY <1>1, <3>1, Grows
  <2>4. m = n + 1
    BY <1>1, <1>2, <1>4
  <2> HIDE DEF d, p, m
  <2>5. /\ 1 \in 1 .. m /\ m \in 1 .. m /\ (m + 1) - 1 = m
        /\ \A i \in 1 .. m : i = m \/ (i \in 1 .. m - 1 /\ i + 1 \in 1 .. m)
        /\ ~(m + 1 <= n + 1) /\ m + 1 <= (n + 1) + 1 /\ 1 <= m + 1 /\ m + 1 \in Nat
    BY <1>1, <2>4
  <2>6. ASSUME NEW i \in 1 .. m
        PROVE  ~Ends(run, known, d[i]) /\ d[i + 1] = Parent(run, d[i])
    <3>1. CASE i = m
      <4>1. d[i] = c[m] /\ d[i + 1] = p /\ p = Parent(run, c[m]) /\ ~Ends(run, known, c[m])
        BY <1>2, <1>4, <2>3, <3>1 DEF p
      <4> QED
        BY <4>1
    <3>2. CASE i # m
      <4>1. i \in 1 .. m - 1 /\ i + 1 \in 1 .. m
        BY <2>5, <3>2
      <4>2. d[i] = c[i] /\ d[i + 1] = c[i + 1]
        BY <2>3, <4>1
      <4> QED
        BY <1>1, <4>1, <4>2
    <3> QED
      BY <3>1, <3>2
  <2>7. d[1] = id
    BY <1>1, <2>3, <2>5
  <2>8. Climbs(run, id, known, n + 1, d)
    BY <2>2, <2>5, <2>6, <2>7 DEF Climbs
  <2> QED
    BY <2>1, <2>8
<1> QED
  BY <1>3, <1>4

\* The ids that are looked at are a climb.
LEMMA AncestorsClimb ==
    ASSUME NEW run, NEW id, NEW known, NEW limit \in Nat
    PROVE  Climbs(run, id, known, limit, Ancestors(run, id, known, limit))
<1>1. PICK up : /\ up[0] = <<id>> /\ up[limit] = Ancestors(run, id, known, limit)
                /\ \A n \in 1 .. limit : up[n] = OneUp(run, known, up[n - 1])
  BY AncestorsSteps
<1> DEFINE T == {n \in Nat : n <= limit => Climbs(run, id, known, n, up[n])}
<1>2. 0 \in T
  <2> DEFINE c == <<id>>
  <2>1. IsSequence(c) /\ Len(c) = 1 /\ c[1] = id
    BY OneElement
  <2> HIDE DEF c
  <2>2. 1 .. Len(c) - 1 = {} /\ ~(Len(c) <= 0) /\ Len(c) \in Nat /\ 1 <= Len(c) /\ Len(c) <= 0 + 1
    BY <2>1
  <2>3. Climbs(run, id, known, 0, c)
    BY <2>1, <2>2 DEF Climbs
  <2>4. up[0] = c
    BY <1>1 DEF c
  <2> QED
    BY <2>3, <2>4
<1>3. ASSUME NEW n \in Nat, n \in T
      PROVE  n + 1 \in T
  <2> SUFFICES ASSUME n + 1 <= limit
               PROVE  Climbs(run, id, known, n + 1, up[n + 1])
    OBVIOUS
  <2>1. n <= limit /\ n + 1 \in 1 .. limit /\ (n + 1) - 1 = n
    OBVIOUS
  <2>2. Climbs(run, id, known, n, up[n])
    BY <1>3, <2>1
  <2>3. up[n + 1] = OneUp(run, known, up[n])
    BY <1>1, <2>1
  <2> HIDE DEF T
  <2> QED
    BY <2>2, <2>3, OneUpClimbs
<1> HIDE DEF T
<1>4. limit \in T /\ limit <= limit
  BY <1>2, <1>3, Induction
<1> QED
  BY <1>1, <1>4 DEF T

\* Two climbs from one id meet the same ids, as far as both go.
LEMMA SameClimb ==
    ASSUME NEW run, NEW id, NEW known, NEW m, NEW c, Climbs(run, id, known, m, c),
           NEW other, NEW n, NEW d, Climbs(run, id, other, n, d)
    PROVE  \A i \in 1 .. Len(c) : i <= Len(d) => c[i] = d[i]
<1> DEFINE M == Len(c)
           N == Len(d)
           T == {k \in Nat : k + 1 <= M /\ k + 1 <= N => c[k + 1] = d[k + 1]}
<1>1. /\ M \in Nat /\ c[1] = id /\ \A i \in 1 .. M - 1 : c[i + 1] = Parent(run, c[i])
      /\ N \in Nat /\ d[1] = id /\ \A i \in 1 .. N - 1 : d[i + 1] = Parent(run, d[i])
  BY DEF Climbs
<1> HIDE DEF M, N
<1>2. 0 \in T
  BY <1>1
<1>3. ASSUME NEW k \in Nat, k \in T
      PROVE  k + 1 \in T
  <2> SUFFICES ASSUME (k + 1) + 1 <= M, (k + 1) + 1 <= N
               PROVE  c[(k + 1) + 1] = d[(k + 1) + 1]
    OBVIOUS
  <2> DEFINE j == k + 1
  <2>1. j \in 1 .. M - 1 /\ j \in 1 .. N - 1 /\ j <= M /\ j <= N
    BY <1>1
  <2>2. c[j] = d[j]
    BY <1>3, <2>1
  <2> HIDE DEF j
  <2>3. c[j + 1] = Parent(run, c[j]) /\ d[j + 1] = Parent(run, d[j])
    BY <1>1, <2>1
  <2>4. c[j + 1] = d[j + 1]
    BY <2>2, <2>3
  <2> QED
    BY <2>4 DEF j
<1> HIDE DEF T
<1>4. \A k \in Nat : k \in T
  BY <1>2, <1>3, Induction
<1>5. ASSUME NEW i \in 1 .. M, i <= N
      PROVE  c[i] = d[i]
  <2>1. i - 1 \in Nat /\ (i - 1) + 1 = i /\ i <= M
    BY <1>1
  <2>2. i - 1 \in T
    BY <1>4, <2>1
  <2> QED
    BY <1>5, <2>1, <2>2 DEF T
<1> QED
  BY <1>5 DEF M, N

\* What a base adds to the path: its URI, or nothing.
BaseUri(run, id) ==
    IF id \in DOMAIN run.bases THEN run.bases[id].uri ELSE Uri("relative", "", <<>>)

\* The ids from a base to the one that has no parent; all are declared.
Line(run, id, c) ==
    /\ IsSequence(c) /\ Len(c) \in Nat /\ 1 <= Len(c) /\ c[1] = id
    /\ \A i \in 1 .. Len(c) - 1 : Parent(run, c[i]) # NoBase /\ c[i + 1] = Parent(run, c[i])
    /\ Parent(run, c[Len(c)]) = NoBase
    /\ \A i \in 1 .. Len(c) : Declared(run, c[i])

\* No id is twice on a line: the way up from both would be the same.
LEMMA LineIsInjective ==
    ASSUME NEW run, NEW id, NEW c, Line(run, id, c),
           NEW i \in 1 .. Len(c), NEW j \in 1 .. Len(c), i < j
    PROVE  c[i] # c[j]
<1> DEFINE N == Len(c)
           T == {k \in Nat : j + k <= N => c[i + k] = c[j + k]}
<1>1. /\ N \in Nat /\ Parent(run, c[N]) = NoBase
      /\ \A k \in 1 .. N - 1 : Parent(run, c[k]) # NoBase /\ c[k + 1] = Parent(run, c[k])
  BY DEF Line
<1>2. i \in 1 .. N /\ j \in 1 .. N /\ i < j
  OBVIOUS
<1> HIDE DEF N
<1> SUFFICES ASSUME c[i] = c[j]
             PROVE  FALSE
  OBVIOUS
<1>3. 0 \in T
  BY <1>1, <1>2
<1>4. ASSUME NEW k \in Nat, k \in T
      PROVE  k + 1 \in T
  <2> SUFFICES ASSUME j + (k + 1) <= N
               PROVE  c[i + (k + 1)] = c[j + (k + 1)]
    OBVIOUS
  <2> DEFINE a == i + k
             b == j + k
  <2>1. /\ a \in 1 .. N - 1 /\ b \in 1 .. N - 1 /\ j + k <= N
        /\ i + (k + 1) = a + 1 /\ j + (k + 1) = b + 1
    BY <1>1, <1>2
  <2>2. c[a] = c[b]
    BY <1>4, <2>1
  <2> HIDE DEF a, b
  <2>3. c[a + 1] = c[b + 1]
    BY <1>1, <2>1, <2>2
  <2> QED
    BY <2>1, <2>3
<1> HIDE DEF T
<1>5. N - j \in T /\ j + (N - j) <= N /\ j + (N - j) = N /\ i + (N - j) \in 1 .. N - 1
  <2>1. N - j \in Nat /\ j + (N - j) <= N /\ j + (N - j) = N /\ i + (N - j) \in 1 .. N - 1
    BY <1>1, <1>2
  <2> QED
    BY <1>3, <1>4, <2>1, Induction
<1>6. c[i + (N - j)] = c[N]
  BY <1>5 DEF T
<1> QED
  BY <1>1, <1>5, <1>6

\* A line is no longer than there are bases, and one.
LEMMA LineIsShort ==
    ASSUME NEW run, NEW id, NEW c, Line(run, id, c), IsFiniteSet(DOMAIN run.bases)
    PROVE  Len(c) <= Cardinality(DOMAIN run.bases) + 1
<1> DEFINE N == Len(c)
           S == DOMAIN run.bases
           f == [i \in 1 .. N - 1 |-> c[i]]
<1>1. /\ N \in Nat /\ 1 <= N
      /\ \A k \in 1 .. N - 1 : Parent(run, c[k]) # NoBase
  BY DEF Line
<1>2. \A i \in 1 .. N - 1, j \in 1 .. N - 1 : i < j => c[i] # c[j]
  BY LineIsInjective
<1> HIDE DEF N
<1>3. \A i \in 1 .. N - 1 : c[i] \in S
  BY <1>1 DEF Parent
<1>4. f \in Injection(1 .. N - 1, S)
  <2>1. ASSUME NEW i \in 1 .. N - 1, NEW j \in 1 .. N - 1, c[i] = c[j]
        PROVE  i = j
    <3>1. i < j \/ j < i \/ i = j
      BY <1>1
    <3> QED
      BY <1>2, <2>1, <3>1
  <2>2. f \in [1 .. N - 1 -> S] /\ \A i \in 1 .. N - 1 : f[i] = c[i]
    BY <1>3
  <2> HIDE DEF f, S
  <2>3. IsInjective(f)
    BY <2>1, <2>2 DEF IsInjective
  <2> QED
    BY <2>1, <2>2, <2>3 DEF Injection
<1> HIDE DEF f
<1>5. /\ IsFiniteSet(1 .. N - 1) /\ Cardinality(1 .. N - 1) = N - 1
      /\ Cardinality(S) \in Nat
  <2> DEFINE m == N - 1
  <2>1. m \in Nat
    BY <1>1
  <2> HIDE DEF m
  <2>2. Cardinality(1 .. m) = m /\ IsFiniteSet(1 .. m)
    BY <2>1, FS_Interval
  <2> QED
    BY <2>2, FS_CardinalityType DEF m
<1>6. Cardinality(1 .. N - 1) <= Cardinality(S)
  <2> HIDE DEF S
  <2>1. IsFiniteSet(S)
    BY DEF S
  <2> QED
    BY <1>4, <2>1, FS_Injection
<1>7. N <= Cardinality(S) + 1
  <2> HIDE DEF S
  <2> QED
    BY <1>1, <1>5, <1>6
<1> QED
  BY <1>7 DEF N

\* The climb from a base that has a line is that line.
LEMMA ClimbIsLine ==
    ASSUME NEW run, NEW id, NEW c, Line(run, id, c), NEW n \in Nat, Len(c) <= n + 1,
           NEW d, Climbs(run, id, {}, n, d)
    PROVE  Len(d) = Len(c) /\ \A i \in 1 .. Len(c) : d[i] = c[i]
<1> DEFINE M == Len(c)
           N == Len(d)
<1>1. /\ M \in Nat /\ 1 <= M /\ Parent(run, c[M]) = NoBase
      /\ \A i \in 1 .. M - 1 : Parent(run, c[i]) # NoBase
  BY DEF Line
<1>2. /\ N \in Nat /\ 1 <= N /\ N <= n + 1
      /\ N <= n => Parent(run, d[N]) = NoBase
      /\ \A i \in 1 .. N - 1 : Parent(run, d[i]) # NoBase
  BY DEF Climbs, Ends
<1>3. Climbs(run, id, {}, M - 1, c)
  <2>1. (M - 1) + 1 = M /\ ~(M <= M - 1)
    BY <1>1
  <2>2. \A i \in 1 .. M - 1 : ~Ends(run, {}, c[i])
    BY <1>1 DEF Ends
  <2> HIDE DEF M
  <2> QED
    BY <1>1, <2>1, <2>2 DEF Climbs, Line, M
<1>4. \A i \in 1 .. M : i <= N => c[i] = d[i]
  BY <1>3, SameClimb
<1>5. M <= n + 1
  OBVIOUS
<1> HIDE DEF M, N
<1>6. M \in 1 .. M /\ 1 \in 1 .. M
  BY <1>1
<1>7. ~(N < M)
  <2> SUFFICES ASSUME N < M
               PROVE  FALSE
    OBVIOUS
  <2>1. N \in 1 .. M - 1 /\ N <= n /\ N \in 1 .. M /\ N <= N
    BY <1>1, <1>2, <1>5
  <2>2. c[N] = d[N]
    BY <1>4, <2>1
  <2> QED
    BY <1>1, <1>2, <2>1, <2>2
<1>8. ~(M < N)
  <2> SUFFICES ASSUME M < N
               PROVE  FALSE
    OBVIOUS
  <2>1. M \in 1 .. N - 1 /\ M <= N
    BY <1>1, <1>2
  <2>2. c[M] = d[M]
    BY <1>4, <1>6, <2>1
  <2> QED
    BY <1>1, <1>2, <2>1, <2>2
<1>9. N = M
  BY <1>1, <1>2, <1>7, <1>8
<1>10. \A i \in 1 .. M : i <= N
  BY <1>9, <1>1
<1> QED
  BY <1>4, <1>9, <1>10 DEF M, N

-----------------------------------------------------------------------------
(* The cache of the bases.                                                   *)

\* A cache that has a path for each id it knows, with those of all its parents.
Coherent(run, known) ==
    \A id \in DOMAIN known :
       /\ known[id] = BasePath(run, known, id)
       /\ Parent(run, id) # NoBase => Parent(run, id) \in DOMAIN known
       /\ \E c : Line(run, id, c)

\* The line of a base that has no parent.
LEMMA LineStarts ==
    ASSUME NEW run, NEW id, Declared(run, id), Parent(run, id) = NoBase
    PROVE  \E c : Line(run, id, c)
<1> DEFINE c == <<id>>
<1>1. IsSequence(c) /\ Len(c) = 1 /\ c[1] = id
  BY OneElement
<1> HIDE DEF c
<1>2. Len(c) \in Nat /\ 1 <= Len(c) /\ 1 .. Len(c) - 1 = {} /\ \A i \in 1 .. Len(c) : i = 1
  BY <1>1
<1>3. Line(run, id, c)
  BY <1>1, <1>2 DEF Line
<1> QED
  BY <1>3

\* The line of a base within another.
LEMMA LineGrows ==
    ASSUME NEW run, NEW id, Declared(run, id), Parent(run, id) # NoBase,
           NEW c, Line(run, Parent(run, id), c)
    PROVE  \E d : Line(run, id, d)
<1> DEFINE N == Len(c)
           d == [i \in 1 .. N + 1 |-> IF i = 1 THEN id ELSE c[i - 1]]
<1>1. /\ N \in Nat /\ 1 <= N /\ c[1] = Parent(run, id)
      /\ \A i \in 1 .. N - 1 : Parent(run, c[i]) # NoBase /\ c[i + 1] = Parent(run, c[i])
      /\ Parent(run, c[N]) = NoBase /\ \A i \in 1 .. N : Declared(run, c[i])
  BY DEF Line
<1> HIDE DEF N
<1>2. d = [i \in 1 .. N + 1 |-> d[i]] /\ N + 1 \in Nat
  BY <1>1
<1>3. d[1] = id /\ \A i \in 1 .. N : i + 1 \in 1 .. N + 1 /\ d[i + 1] = c[i]
  <2>1. 1 \in 1 .. N + 1
    BY <1>1
  <2>2. ASSUME NEW i \in 1 .. N
        PROVE  i + 1 \in 1 .. N + 1 /\ d[i + 1] = c[i]
    <3>1. i + 1 \in 1 .. N + 1 /\ i + 1 # 1 /\ (i + 1) - 1 = i
      BY <1>1
    <3> QED
      BY <3>1
  <2> QED
    BY <2>1, <2>2
<1> HIDE DEF d
<1>4. IsSequence(d) /\ Len(d) = N + 1
  BY <1>2, SequenceOf
<1>5. /\ 1 <= N + 1 /\ (N + 1) - 1 = N /\ N \in 1 .. N /\ 1 \in 1 .. N
      /\ \A i \in 1 .. N + 1 : i = 1 \/ (i - 1 \in 1 .. N /\ (i - 1) + 1 = i)
      /\ \A i \in 1 .. N : i = 1 \/ (i - 1 \in 1 .. N - 1 /\ i - 1 \in 1 .. N
                                     /\ (i - 1) + 1 = i)
  BY <1>1
<1>6. ASSUME NEW i \in 1 .. N
      PROVE  Parent(run, d[i]) # NoBase /\ d[i + 1] = Parent(run, d[i])
  <2>1. CASE i = 1
    BY <2>1, <1>1, <1>3, <1>5
  <2>2. CASE i # 1
    <3> DEFINE k == i - 1
    <3>1. k \in 1 .. N - 1 /\ k \in 1 .. N /\ k + 1 = i
      BY <1>5, <2>2
    <3> HIDE DEF k
    <3>2. d[i] = c[k] /\ d[i + 1] = c[i]
      BY <1>3, <3>1
    <3>3. Parent(run, c[k]) # NoBase /\ c[i] = Parent(run, c[k])
      BY <1>1, <3>1
    <3> QED
      BY <3>2, <3>3
  <2> QED
    BY <2>1, <2>2
<1>7. Parent(run, d[N + 1]) = NoBase
  BY <1>1, <1>3, <1>5
<1>8. \A i \in 1 .. N + 1 : Declared(run, d[i])
  BY <1>1, <1>3, <1>5
<1>9. Line(run, id, d)
  BY <1>2, <1>3, <1>4, <1>5, <1>6, <1>7, <1>8 DEF Line
<1> QED
  BY <1>9

\* A base that is known, or declared within a known one or none.
Learnable(run, known, id) ==
    \/ id \in DOMAIN known
    \/ /\ Declared(run, id)
       /\ Parent(run, id) = NoBase \/ Parent(run, id) \in DOMAIN known

\* A base more in a coherent cache.
LEMMA LearnKeeps ==
    ASSUME NEW run, NEW known, Coherent(run, known), NEW id, Learnable(run, known, id)
    PROVE  Coherent(run, Learn(run, known, id))
           /\ DOMAIN Learn(run, known, id) = DOMAIN known \cup {id}
<1> DEFINE later == Learn(run, known, id)
           value == BasePath(run, known, id)
<1>1. /\ DOMAIN later = DOMAIN known \cup {id}
      /\ \A k \in DOMAIN known : later[k] = known[k]
      /\ id \notin DOMAIN known => later[id] = value
  <2>1. later = Remember(known, id, value)
    BY DEF Learn
  <2> HIDE DEF later, value
  <2>2. /\ DOMAIN Remember(known, id, value) = DOMAIN known \cup {id}
        /\ \A k \in DOMAIN known : Remember(known, id, value)[k] = known[k]
        /\ id \notin DOMAIN known => Remember(known, id, value)[id] = value
    BY DEF Remember
  <2> QED
    BY <2>1, <2>2
<1> HIDE DEF later
<1>2. \A k : (Parent(run, k) = NoBase \/ Parent(run, k) \in DOMAIN known)
               => BasePath(run, later, k) = BasePath(run, known, k)
  BY <1>1 DEF BasePath
<1>3. ASSUME NEW k \in DOMAIN known
      PROVE  /\ later[k] = BasePath(run, later, k)
             /\ Parent(run, k) # NoBase => Parent(run, k) \in DOMAIN later
             /\ \E c : Line(run, k, c)
  <2>1. /\ known[k] = BasePath(run, known, k)
        /\ Parent(run, k) # NoBase => Parent(run, k) \in DOMAIN known
        /\ \E c : Line(run, k, c)
    BY DEF Coherent
  <2> QED
    BY <2>1, <1>1, <1>2
<1>4. ASSUME id \notin DOMAIN known
      PROVE  /\ later[id] = BasePath(run, later, id)
             /\ Parent(run, id) # NoBase => Parent(run, id) \in DOMAIN later
             /\ \E c : Line(run, id, c)
  <2>1. /\ Declared(run, id)
        /\ Parent(run, id) = NoBase \/ Parent(run, id) \in DOMAIN known
    BY <1>4 DEF Learnable
  <2>2. later[id] = BasePath(run, later, id)
    BY <1>1, <1>2, <1>4, <2>1
  <2>3. CASE Parent(run, id) = NoBase
    <3>1. \E c : Line(run, id, c)
      BY <2>1, <2>3, LineStarts
    <3> QED
      BY <2>2, <2>3, <3>1
  <2>4. CASE Parent(run, id) # NoBase
    <3>1. Parent(run, id) \in DOMAIN known
      BY <2>1, <2>4
    <3>2. PICK c : Line(run, Parent(run, id), c)
      BY <3>1 DEF Coherent
    <3>3. \E d : Line(run, id, d)
      BY <2>1, <2>4, <3>2, LineGrows
    <3> QED
      BY <1>1, <2>2, <3>1, <3>3
  <2> QED
    BY <2>3, <2>4
<1>5. Coherent(run, later)
  BY <1>1, <1>3, <1>4 DEF Coherent
<1> QED
  BY <1>1, <1>5 DEF later

\* The bases of a climb are learned one after the other.
LEMMA LearnedSteps ==
    ASSUME NEW run, NEW known, NEW id, Len(Chain(run, known, id)) \in Nat
    PROVE  \E after : /\ after[0] = known
                      /\ after[Len(Chain(run, known, id))] = Learned(run, known, id)
                      /\ \A n \in 1 .. Len(Chain(run, known, id)) :
                           after[n] = Learn(run, after[n - 1],
                                            Chain(run, known, id)[Len(Chain(run, known, id)) + 1 - n])
<1> DEFINE chain == Chain(run, known, id)
           N == Len(chain)
           Next1(n, f) == IF n = 0 THEN known ELSE Learn(run, f[n - 1], chain[N + 1 - n])
           Solution(f) == f = [n \in 0 .. N |-> Next1(n, f)]
           T == {k \in Nat : \E f : f = [n \in 0 .. k |-> Next1(n, f)]}
           after == CHOOSE f : Solution(f)
<1>0. N \in Nat
  OBVIOUS
<1>5. Learned(run, known, id) = after[N]
  BY DEF Learned
<1> HIDE DEF chain, N
<1>1. 0 \in T
  <2> DEFINE f == [n \in 0 .. 0 |-> known]
  <2>1. f = [n \in 0 .. 0 |-> Next1(n, f)]
    OBVIOUS
  <2> HIDE DEF f
  <2> QED
    BY <2>1
<1>2. ASSUME NEW k \in Nat, k \in T
      PROVE  k + 1 \in T
  <2>1. PICK f : f = [n \in 0 .. k |-> Next1(n, f)]
    BY <1>2
  <2> DEFINE e == Learn(run, f[k], chain[N + 1 - (k + 1)])
             g == [n \in 0 .. k + 1 |-> IF n = k + 1 THEN e ELSE f[n]]
  <2>2. ASSUME NEW n \in 0 .. k + 1
        PROVE  g[n] = Next1(n, g)
    <3>1. CASE n = k + 1
      <4>1. g[n] = e /\ n # 0 /\ n - 1 = k /\ k \in 0 .. k + 1 /\ k # k + 1
        BY <3>1
      <4>2. g[n - 1] = f[k]
        BY <4>1
      <4>3. e = Learn(run, f[k], chain[N + 1 - n])
        BY <3>1
      <4> HIDE DEF g, e
      <4> QED
        BY <4>1, <4>2, <4>3
    <3>2. CASE n # k + 1
      <4>1. n \in 0 .. k /\ g[n] = f[n]
        BY <3>2
      <4>2. f[n] = Next1(n, f)
        BY <2>1, <4>1
      <4>3. CASE n = 0
        BY <4>1, <4>2, <4>3
      <4>4. CASE n # 0
        <5>1. n - 1 \in 0 .. k + 1 /\ n - 1 # k + 1
          BY <4>1, <4>4
        <5>2. g[n - 1] = f[n - 1]
          BY <5>1
        <5> HIDE DEF g
        <5> QED
          BY <4>1, <4>2, <4>4, <5>2
      <4> QED
        BY <4>3, <4>4
    <3> QED
      BY <3>1, <3>2
  <2>3. g = [n \in 0 .. k + 1 |-> Next1(n, g)]
    <3>1. g = [n \in 0 .. k + 1 |-> g[n]]
      OBVIOUS
    <3> HIDE DEF g, Next1
    <3> QED
      BY <2>2, <3>1
  <2>4. k + 1 \in Nat
    OBVIOUS
  <2> HIDE DEF g, Next1
  <2> QED
    BY <2>3, <2>4
<1>3. N \in T
  <2> HIDE DEF T
  <2> QED
    BY <1>0, <1>1, <1>2, Induction
<1>4. Solution(after)
  <2>1. \E f : Solution(f)
    BY <1>3
  <2> HIDE DEF Solution
  <2> QED
    BY <2>1
<1> HIDE DEF after
<1>6. after[0] = known
  <2>1. 0 \in 0 .. N
    BY <1>0
  <2> QED
    BY <1>4, <2>1
<1>7. ASSUME NEW n \in 1 .. N
      PROVE  after[n] = Learn(run, after[n - 1], chain[N + 1 - n])
  <2>1. n \in 0 .. N /\ n # 0
    BY <1>0
  <2> QED
    BY <1>4, <2>1
<1> QED
  BY <1>5, <1>6, <1>7 DEF chain, N

\* A base that resolves is known afterwards.
LEMMA LearnedIs ==
    ASSUME NEW run, NEW known, Coherent(run, known), NEW id, BaseResolves(run, known, id)
    PROVE  Coherent(run, Learned(run, known, id)) /\ id \in DOMAIN Learned(run, known, id)
<1> DEFINE chain == Chain(run, known, id)
           N == Len(chain)
<1>1. Climbs(run, id, DOMAIN known, MaximumDepth, chain)
  BY SarifLocationsAssumption, AncestorsClimb DEF Chain
<1>2. N <= MaximumDepth /\ \A i \in DOMAIN chain : chain[i] \in DOMAIN known
                                                   \/ Declared(run, chain[i])
  BY DEF BaseResolves
<1>3. /\ N \in Nat /\ 1 <= N /\ chain[1] = id /\ DOMAIN chain = 1 .. N
      /\ \A i \in 1 .. N - 1 : chain[i + 1] = Parent(run, chain[i])
      /\ chain[N] \in DOMAIN known \/ Parent(run, chain[N]) = NoBase
  <2>1. IsSequence(chain)
    BY <1>1 DEF Climbs
  <2> QED
    BY <1>1, <1>2, <2>1, Sequences DEF Climbs, Ends
<1>4. PICK after : /\ after[0] = known /\ after[N] = Learned(run, known, id)
                   /\ \A n \in 1 .. N : after[n] = Learn(run, after[n - 1], chain[N + 1 - n])
  BY <1>3, LearnedSteps
<1> HIDE DEF chain, N
<1> DEFINE P(n) == /\ Coherent(run, after[n]) /\ DOMAIN known \subseteq DOMAIN after[n]
                   /\ \A k \in 1 .. N : k > N - n => chain[k] \in DOMAIN after[n]
           T == {n \in Nat : n <= N => P(n)}
<1>5. 0 \in T
  <2>1. \A k \in 1 .. N : ~(k > N - 0)
    BY <1>3
  <2> QED
    BY <1>4, <2>1
<1>6. ASSUME NEW n \in Nat, n \in T
      PROVE  n + 1 \in T
  <2> SUFFICES ASSUME n + 1 <= N
               PROVE  P(n + 1)
    OBVIOUS
  <2> DEFINE j == N - n
             b == chain[j]
             before == after[n]
  <2>1. /\ j \in 1 .. N /\ N + 1 - (n + 1) = j /\ n + 1 \in 1 .. N /\ (n + 1) - 1 = n
        /\ n <= N /\ \A k \in 1 .. N : k > N - (n + 1) => k > N - n \/ k = j
    BY <1>3
  <2>2. /\ Coherent(run, before) /\ DOMAIN known \subseteq DOMAIN before
        /\ \A k \in 1 .. N : k > N - n => chain[k] \in DOMAIN before
    BY <1>6, <2>1
  <2>3. after[n + 1] = Learn(run, before, b)
    BY <1>4, <2>1
  <2>4. \/ b \in DOMAIN before
        \/ /\ Declared(run, b)
           /\ Parent(run, b) = NoBase \/ Parent(run, b) \in DOMAIN before
    <3>1. CASE b \in DOMAIN known
      BY <2>2, <3>1
    <3>2. CASE b \notin DOMAIN known
      <4>1. Declared(run, b)
        BY <1>2, <1>3, <2>1, <3>2
      <4>2. CASE j = N
        BY <1>3, <3>2, <4>1, <4>2
      <4>3. CASE j # N
        <5>1. j \in 1 .. N - 1 /\ j + 1 \in 1 .. N /\ j + 1 > N - n
          BY <1>3, <2>1, <4>3
        <5>2. chain[j + 1] = Parent(run, b)
          BY <1>3, <5>1
        <5>3. chain[j + 1] \in DOMAIN before
          <6> HIDE DEF before, j, b
          <6> QED
            BY <2>2, <5>1
        <5> QED
          BY <4>1, <5>2, <5>3
      <4> QED
        BY <4>2, <4>3
    <3> QED
      BY <3>1, <3>2
  <2> HIDE DEF before, b, j
  <2>5. Coherent(run, after[n + 1]) /\ DOMAIN after[n + 1] = DOMAIN before \cup {b}
    <3>1. Coherent(run, before)
      BY <2>2
    <3>2. Coherent(run, Learn(run, before, b))
          /\ DOMAIN Learn(run, before, b) = DOMAIN before \cup {b}
      <4>1. Learnable(run, before, b)
        BY <2>4 DEF Learnable
      <4> QED
        BY <3>1, <4>1, LearnKeeps
    <3> QED
      BY <2>3, <3>2
  <2>6. \A k \in 1 .. N : k > N - (n + 1) => chain[k] \in DOMAIN after[n + 1]
    BY <2>1, <2>2, <2>5 DEF b
  <2> QED
    BY <2>2, <2>5, <2>6
<1> HIDE DEF P
<1>7. N \in T /\ N <= N
  <2> HIDE DEF T
  <2> QED
    BY <1>3, <1>5, <1>6, Induction
<1>8. P(N)
  BY <1>7
<1>9. 1 \in 1 .. N /\ 1 > N - N
  BY <1>3
<1> QED
  BY <1>3, <1>4, <1>8, <1>9 DEF P

-----------------------------------------------------------------------------
(* What the URIs of a location mean.                                         *)

\* The first absolute URI, or the last one; and the parts from it inwards.
Absolute(uris) == {i \in DOMAIN uris : uris[i].form = "absolute"}
Outer(uris) == IF Absolute(uris) = {} THEN Len(uris) ELSE Min(Absolute(uris))
Reversed(uris) == [i \in 1 .. Outer(uris) |-> uris[Outer(uris) + 1 - i].parts]
PartsOf(uris) == FlattenSeq(Reversed(uris))
Root(uris) == IF Absolute(uris) = {} THEN uris[Outer(uris)]
              ELSE IF Len(uris) > 1 /\ Last(uris).form = "absolute" THEN Last(uris)
              ELSE Snapshot

\* URIs, each relative to the next.
Uris(uris) ==
    /\ IsSequence(uris) /\ Len(uris) \in Nat /\ 1 <= Len(uris)
    /\ \A i \in 1 .. Len(uris) : IsSequence(uris[i].parts)

\* No URI before the outer one is absolute; it is, if there is one.
LEMMA OuterIs ==
    ASSUME NEW uris, Uris(uris)
    PROVE  /\ Outer(uris) \in 1 .. Len(uris)
           /\ \A i \in 1 .. Outer(uris) - 1 : uris[i].form # "absolute"
           /\ Absolute(uris) = {} => /\ Outer(uris) = Len(uris)
                                     /\ uris[Outer(uris)].form # "absolute"
                                     /\ uris[Len(uris)].form # "absolute"
           /\ Absolute(uris) # {} => uris[Outer(uris)].form = "absolute"
<1> DEFINE n == Len(uris)
           u == Absolute(uris)
           o == Outer(uris)
<1>1. /\ DOMAIN uris = 1 .. n /\ n \in Nat /\ 1 <= n /\ n \in 1 .. n
      /\ \A i \in 1 .. n : i \in u <=> uris[i].form = "absolute"
      /\ u \subseteq 1 .. n
  <2>1. DOMAIN uris = 1 .. n /\ n \in Nat /\ 1 <= n
    BY Sequences DEF Uris
  <2>2. n \in 1 .. n
    BY <2>1
  <2> HIDE DEF n
  <2> QED
    BY <2>1, <2>2 DEF Absolute
<1>2. o = IF u = {} THEN n ELSE Min(u)
  BY DEF Outer
<1> HIDE DEF n, u, o
<1>3. CASE u = {}
  <2>1. \A i \in 1 .. n : uris[i].form # "absolute"
    BY <1>1, <1>3
  <2>2. o = n
    BY <1>2, <1>3
  <2>3. \A i \in 1 .. n - 1 : i \in 1 .. n
    BY <1>1
  <2> QED
    BY <1>1, <1>3, <2>1, <2>2, <2>3 DEF n, u, o
<1>4. CASE u # {}
  <2>1. o \in u /\ \A y \in u : o <= y
    BY <1>1, <1>2, <1>4, Extremes
  <2>2. o \in 1 .. n
    BY <1>1, <2>1
  <2>3. \A i \in 1 .. o - 1 : i \in 1 .. n /\ ~(o <= i)
    BY <1>1, <2>2
  <2>4. \A i \in 1 .. o - 1 : uris[i].form # "absolute"
    BY <1>1, <2>1, <2>3
  <2> QED
    BY <1>1, <1>4, <2>1, <2>2, <2>4 DEF n, u, o
<1> QED
  BY <1>3, <1>4

\* The parts are sequences of names.
LEMMA ReversedIs ==
    ASSUME NEW uris, Uris(uris)
    PROVE  \E S : /\ Reversed(uris) \in Seq(Seq(S)) /\ Len(Reversed(uris)) = Outer(uris)
                  /\ \A i \in 1 .. Len(uris) : uris[i].parts \in Seq(S)
<1> DEFINE n == Len(uris)
           o == Outer(uris)
           S == UNION {Range(uris[i].parts) : i \in 1 .. n}
<1>1. n \in Nat /\ o \in 1 .. n
  BY OuterIs DEF Uris
<1>2. ASSUME NEW i \in 1 .. n
      PROVE  uris[i].parts \in Seq(S)
  <2>1. IsSequence(uris[i].parts) /\ Range(uris[i].parts) \subseteq S
    BY DEF Uris
  <2> HIDE DEF S
  <2> QED
    BY <2>1, Sequences
<1> HIDE DEF n, S, o
<1>3. \A i \in 1 .. o : o + 1 - i \in 1 .. n
  BY <1>1
<1>4. Reversed(uris) \in [1 .. o -> Seq(S)]
  BY <1>2, <1>3 DEF Reversed, o
<1>5. o \in Nat
  BY <1>1
<1> DEFINE r == Reversed(uris)
<1> HIDE DEF r
<1>6. r \in Seq(Seq(S)) /\ Len(r) = o
  BY <1>4, <1>5 DEF r
<1> QED
  BY <1>2, <1>6 DEF r, n, o

\* Joined one with the other from the outside, URIs give the outer one with
\* the parts of all that are inside it.
LEMMA JoinsAre ==
    ASSUME NEW uris, Uris(uris), NEW full, full[Len(uris)] = uris[Len(uris)],
           \A i \in 1 .. Len(uris) - 1 : full[i] = Join(full[i + 1], uris[i])
    PROVE  /\ full[1].form = uris[Outer(uris)].form
           /\ full[1].drive = uris[Outer(uris)].drive
           /\ full[1].parts = PartsOf(uris)
<1> DEFINE n == Len(uris)
           o == Outer(uris)
           ss == Reversed(uris)
           P(m) == FlattenSeq(SubSeq(ss, 1, m))
           Is(m) == /\ full[o - m].form = uris[o].form
                    /\ full[o - m].drive = uris[o].drive
                    /\ full[o - m].parts = P(m + 1)
           T == {m \in Nat : m + 1 <= o => Is(m)}
<1>1. /\ n \in Nat /\ o \in 1 .. n
      /\ \A i \in 1 .. o - 1 : uris[i].form # "absolute"
      /\ o = n \/ uris[o].form = "absolute"
  BY OuterIs DEF Uris
<1>2. PICK S : ss \in Seq(Seq(S)) /\ Len(ss) = o
  BY ReversedIs
<1>3. /\ P(0) = <<>> /\ P(o) = PartsOf(uris)
      /\ \A m \in 1 .. o : P(m) = P(m - 1) \o ss[m]
  BY <1>2, FlattenSteps DEF PartsOf
<1>4. \A m \in 1 .. o : ss[m] = uris[o + 1 - m].parts
  BY DEF Reversed
<1>5. \A i \in 1 .. n - 1 : full[i] = Join(full[i + 1], uris[i])
  OBVIOUS
<1>6. full[n] = uris[n]
  OBVIOUS
<1>7. \A m \in 1 .. o : ss[m] \in Seq(S)
  BY <1>2
<1> HIDE DEF n, o, ss, P
<1>8. 0 \in T
  <2>1. 1 \in 1 .. o /\ o + 1 - 1 = o /\ o - 0 = o /\ 1 - 1 = 0 /\ 0 + 1 = 1
    BY <1>1
  <2>2. P(1) = <<>> \o ss[1] /\ ss[1] = uris[o].parts /\ ss[1] \in Seq(S)
    BY <1>3, <1>4, <1>7, <2>1
  <2>3. <<>> \o ss[1] = ss[1]
    BY <2>2, ConcatEmptySeq
  <2>4. P(1) = uris[o].parts
    BY <2>2, <2>3
  <2>5. full[o] = uris[o]
    <3>1. CASE o = n
      BY <1>6, <3>1
    <3>2. CASE o # n
      <4>1. uris[o].form = "absolute" /\ o \in 1 .. n - 1
        BY <1>1, <3>2
      <4> QED
        BY <1>5, <4>1 DEF Join
    <3> QED
      BY <3>1, <3>2
  <2>6. Is(0)
    BY <2>1, <2>4, <2>5
  <2> QED
    BY <2>6
<1>9. ASSUME NEW m \in Nat, m \in T
      PROVE  m + 1 \in T
  <2> SUFFICES ASSUME (m + 1) + 1 <= o
               PROVE  Is(m + 1)
    OBVIOUS
  <2> DEFINE i == o - (m + 1)
             w == full[i + 1]
  <2>1. /\ i \in 1 .. o - 1 /\ i \in 1 .. n - 1 /\ i + 1 = o - m /\ m + 1 <= o
        /\ m + 2 \in 1 .. o /\ (m + 2) - 1 = m + 1 /\ o + 1 - (m + 2) = i
        /\ (m + 1) + 1 = m + 2
    BY <1>1
  <2>2. w.form = uris[o].form /\ w.drive = uris[o].drive /\ w.parts = P(m + 1)
    BY <1>9, <2>1
  <2>3. full[i] = Join(w, uris[i]) /\ uris[i].form # "absolute"
    BY <1>1, <1>5, <2>1
  <2>4. ss[m + 2] = uris[i].parts /\ P(m + 2) = P(m + 1) \o ss[m + 2]
    BY <1>3, <1>4, <2>1
  <2> HIDE DEF w, i
  <2>5. full[i] = Uri(w.form, w.drive, w.parts \o uris[i].parts)
    BY <2>3 DEF Join
  <2>6. /\ full[i].form = w.form /\ full[i].drive = w.drive
        /\ full[i].parts = w.parts \o uris[i].parts
    <3> DEFINE e == w.parts \o uris[i].parts
               v == full[i]
    <3>1. v = Uri(w.form, w.drive, e)
      BY <2>5
    <3> HIDE DEF e, v
    <3>2. v.form = w.form /\ v.drive = w.drive /\ v.parts = e
      BY <3>1 DEF Uri
    <3> QED
      BY <3>2 DEF e, v
  <2>7. full[i].parts = P(m + 2)
    BY <2>2, <2>4, <2>6
  <2> QED
    BY <2>1, <2>2, <2>6, <2>7 DEF i
<1> HIDE DEF Is
<1>10. o - 1 \in T /\ (o - 1) + 1 <= o /\ o - (o - 1) = 1 /\ (o - 1) + 1 = o
  <2>1. o - 1 \in Nat /\ (o - 1) + 1 <= o /\ o - (o - 1) = 1 /\ (o - 1) + 1 = o
    BY <1>1
  <2> HIDE DEF T
  <2> QED
    BY <1>8, <1>9, <2>1, Induction
<1>11. Is(o - 1)
  BY <1>10
<1>12. /\ full[1].form = uris[o].form /\ full[1].drive = uris[o].drive
       /\ full[1].parts = P(o)
  BY <1>10, <1>11 DEF Is
<1> QED
  BY <1>3, <1>12 DEF o

\* What is left of a sequence after its first elements.
LEMMA RestOf ==
    ASSUME NEW S, NEW p \in Seq(S), NEW m \in Nat, m <= Len(p)
    PROVE  /\ SubSeq(p, m + 1, Len(p)) \in Seq(S)
           /\ Len(SubSeq(p, m + 1, Len(p))) = Len(p) - m
           /\ \A i \in 1 .. Len(p) - m : SubSeq(p, m + 1, Len(p))[i] = p[m + i]
<1> DEFINE n == Len(p)
           k == m + 1
           s == SubSeq(p, k, n)
<1>1. n \in Nat /\ \A i \in 1 .. n : p[i] \in S
  OBVIOUS
<1> HIDE DEF n
<1>2. k \in Int /\ n \in Int /\ \A i \in k .. n : i \in 1 .. n
  BY <1>1
<1>3. \A i \in k .. n : p[i] \in S
  BY <1>1, <1>2
<1> HIDE DEF k
<1>4. s \in Seq(S)
  BY <1>2, <1>3, SubSeqProperties
<1>5. Len(s) = IF k <= n THEN n - k + 1 ELSE 0
  BY <1>2, <1>3, SubSeqProperties
<1>6. \A i \in 1 .. n - k + 1 : s[i] = p[k + i - 1]
  BY <1>2, <1>3, SubSeqProperties
<1> HIDE DEF s
<1>7. m <= n /\ k = m + 1
  BY DEF n, k
<1>8. n - k + 1 = n - m /\ \A i \in 1 .. n - m : k + i - 1 = m + i
  BY <1>1, <1>7
<1>9. Len(s) = n - m
  BY <1>1, <1>5, <1>7
<1> QED
  BY <1>4, <1>6, <1>8, <1>9 DEF s, n, k

\* What is left of a sequence below another one.
LEMMA RestIs ==
    ASSUME NEW S, NEW r \in Seq(S), NEW p \in Seq(S)
    PROVE  {q \in Suffixes(p) \ {<<>>} : p = r \o q}
             = IF IsPrefix(r, p) /\ SubSeq(p, Len(r) + 1, Len(p)) # <<>>
               THEN {SubSeq(p, Len(r) + 1, Len(p))} ELSE {}
<1> DEFINE M == Len(r)
           N == Len(p)
           rest == SubSeq(p, M + 1, N)
<1>1. M \in Nat /\ N \in Nat /\ DOMAIN p = 1 .. N /\ DOMAIN r = 1 .. M
  OBVIOUS
<1>2. ASSUME NEW q \in Suffixes(p), p = r \o q
      PROVE  IsPrefix(r, p) /\ q = rest
  <2>1. q \in Seq(S)
    <3>1. CASE q = <<>>
      BY <3>1
    <3>2. CASE \E l \in 1 .. N : q = SubSeq(p, l, N)
      <4>1. PICK l \in 1 .. N : q = SubSeq(p, l, N)
        BY <3>2
      <4> QED
        BY <4>1
    <3> QED
      BY <3>1, <3>2 DEF Suffixes
  <2> DEFINE K == Len(q)
  <2>2. K \in Nat /\ DOMAIN q = 1 .. K
    BY <2>1
  <2>3. N = M + K
    BY <1>2, <2>1, ConcatProperties
  <2>4. \A i \in 1 .. M + K : p[i] = IF i <= M THEN r[i] ELSE q[i - M]
    BY <1>2, <2>1, ConcatProperties
  <2>5. IsPrefix(r, p)
    <3>1. M <= N
      BY <1>1, <2>2, <2>3
    <3> DEFINE a == SubSeq(r, 1, M)
               b == SubSeq(p, 1, M)
    <3>2. a \in Seq(S) /\ Len(a) = M /\ \A i \in 1 .. M : a[i] = r[i]
      OBVIOUS
    <3>3. b \in Seq(S) /\ Len(b) = M /\ \A i \in 1 .. M : b[i] = p[i]
      BY <1>1, <3>1
    <3> HIDE DEF a, b, M, N, K
    <3>4. \A i \in 1 .. M : p[i] = r[i]
      <4>1. \A i \in 1 .. M : i \in 1 .. M + K /\ i <= M
        BY <1>1, <2>2
      <4> QED
        BY <2>4, <4>1
    <3>5. a = b
      BY <3>2, <3>3, <3>4
    <3> QED
      BY <3>1, <3>5 DEF IsPrefix, a, b, M, N
  <2>6. q = rest
    <3>1. rest \in Seq(S) /\ Len(rest) = N - M /\ \A i \in 1 .. N - M : rest[i] = p[M + i]
      <4>1. M <= N
        BY <1>1, <2>2, <2>3
      <4> QED
        BY <1>1, <4>1, RestOf
    <3> HIDE DEF rest, M, N, K
    <3>2. N - M = K
      BY <1>1, <2>2, <2>3
    <3>3. \A i \in 1 .. K : q[i] = p[M + i]
      <4>1. \A i \in 1 .. K : M + i \in 1 .. M + K /\ ~(M + i <= M) /\ (M + i) - M = i
        BY <1>1, <2>2
      <4> QED
        BY <2>4, <4>1
    <3>4. Len(q) = K
      BY DEF K
    <3> QED
      BY <2>1, <3>1, <3>2, <3>3, <3>4
  <2> QED
    BY <2>5, <2>6
<1>3. ASSUME IsPrefix(r, p), rest # <<>>
      PROVE  rest \in Suffixes(p) \ {<<>>} /\ p = r \o rest
  <2>1. M <= N /\ SubSeq(r, 1, M) = SubSeq(p, 1, M)
    BY <1>3 DEF IsPrefix
  <2>2. \A i \in 1 .. M : r[i] = p[i]
    <3>1. \A i \in 1 .. M : SubSeq(r, 1, M)[i] = r[i]
      OBVIOUS
    <3>2. \A i \in 1 .. M : SubSeq(p, 1, M)[i] = p[i]
      BY <1>1, <2>1
    <3> QED
      BY <2>1, <3>1, <3>2
  <2>3. /\ rest \in Seq(S) /\ Len(rest) = N - M
        /\ \A i \in 1 .. N - M : rest[i] = p[M + i]
    BY <1>1, <2>1, RestOf
  <2>4. M + 1 \in 1 .. N
    <3>0. Len(rest) = N - M
      BY <2>3
    <3>1. M # N
      <4> SUFFICES ASSUME M = N
                   PROVE  FALSE
        OBVIOUS
      <4>1. Len(rest) = 0
        BY <1>1, <3>0
      <4> HIDE DEF rest
      <4>2. rest = <<>>
        BY <2>3, <4>1
      <4> QED
        BY <1>3, <4>2
    <3> HIDE DEF M, N
    <3> QED
      BY <1>1, <2>1, <3>1
  <2>5. rest \in Suffixes(p)
    BY <2>4 DEF Suffixes
  <2>6. p = r \o rest
    <3> DEFINE c == r \o rest
    <3> HIDE DEF rest
    <3>1. /\ c \in Seq(S) /\ Len(c) = M + Len(rest)
          /\ \A i \in 1 .. M + Len(rest) : c[i] = IF i <= M THEN r[i] ELSE rest[i - M]
      BY <2>3, ConcatProperties
    <3> HIDE DEF c, M, N
    <3>2. M + (N - M) = N
      BY <1>1
    <3>3. Len(c) = N
      BY <2>3, <3>1, <3>2
    <3>4. ASSUME NEW i \in 1 .. N
          PROVE  c[i] = p[i]
      <4>1. i \in 1 .. M + Len(rest)
        BY <2>3, <3>2
      <4>2. CASE i <= M
        <5>1. i \in 1 .. M
          BY <1>1, <4>2
        <5> QED
          BY <2>2, <3>1, <4>1, <4>2, <5>1
      <4>3. CASE ~(i <= M)
        <5>1. i - M \in 1 .. N - M /\ M + (i - M) = i
          BY <1>1, <4>3
        <5>2. c[i] = rest[i - M]
          BY <3>1, <4>1, <4>3
        <5>3. rest[i - M] = p[M + (i - M)]
          BY <2>3, <5>1
        <5> QED
          BY <5>1, <5>2, <5>3
      <4> QED
        BY <4>2, <4>3
    <3>5. Len(p) = N
      BY DEF N
    <3>6. c = p
      BY <3>1, <3>3, <3>4, <3>5
    <3> QED
      BY <3>6 DEF c
  <2> QED
    BY <1>3, <2>5, <2>6
<1> HIDE DEF rest
<1> DEFINE Q == {q \in Suffixes(p) \ {<<>>} : p = r \o q}
<1>4. CASE IsPrefix(r, p) /\ rest # <<>>
  <2>1. Q = {rest}
    BY <1>2, <1>3, <1>4
  <2> QED
    BY <1>4, <2>1 DEF rest
<1>5. CASE ~(IsPrefix(r, p) /\ rest # <<>>)
  <2>1. Q = {}
    BY <1>2, <1>5
  <2> QED
    BY <1>5, <2>1 DEF rest
<1> QED
  BY <1>4, <1>5

\* The path of a URI below a root; none if it is not below.
PathBelow(uri, root) ==
    IF uri.form # "absolute" THEN uri.parts
    ELSE IF Below(uri, root) THEN SubSeq(uri.parts, Len(root.parts) + 1, Len(uri.parts))
    ELSE <<>>

\* A set of the path, if there is one.
Only(path) == IF path = <<>> THEN {} ELSE {path}

\* The root of the URIs that start from an absolute one.
RootOf(uris) ==
    IF Len(uris) > 1 /\ Last(uris).form = "absolute" THEN Last(uris) ELSE Snapshot

\* The meaning, in the terms of the lemmas.
LEMMA MeaningOf ==
    ASSUME NEW uris
    PROVE  Meaning(uris) =
             {path \in Suffixes(PartsOf(uris)) \ {<<>>} :
                /\ \A i \in DOMAIN uris : Parsed(uris[i])
                /\ Root(uris).drive = uris[Outer(uris)].drive
                /\ PartsOf(uris) = (IF Absolute(uris) = {} THEN <<>> ELSE Root(uris).parts)
                                     \o path}
BY DEF Meaning, Absolute, Outer, Reversed, PartsOf, Root

\* URIs one of which is refused mean nothing.
LEMMA UnparsedMeansNothing ==
    ASSUME NEW uris, NEW i \in DOMAIN uris, ~Parsed(uris[i])
    PROVE  Meaning(uris) = {}
<1>1. \A path \in Meaning(uris) : \A k \in DOMAIN uris : Parsed(uris[k])
  BY MeaningOf
<1> QED
  BY <1>1

\* URIs mean the path of what they join to, below the root.
LEMMA MeaningIs ==
    ASSUME NEW uris, Uris(uris), \A i \in DOMAIN uris : Parsed(uris[i]), NEW f,
           f.form = uris[Outer(uris)].form, f.drive = uris[Outer(uris)].drive,
           f.parts = PartsOf(uris)
    PROVE  Meaning(uris) = Only(PathBelow(f, RootOf(uris)))
<1> DEFINE p == PartsOf(uris)
           root == RootOf(uris)
           Q(r) == {q \in Suffixes(p) \ {<<>>} : p = r \o q}
<1>1. PICK S : /\ Reversed(uris) \in Seq(Seq(S))
               /\ \A i \in 1 .. Len(uris) : uris[i].parts \in Seq(S)
  BY ReversedIs
<1>2. p \in Seq(S)
  BY <1>1, Flattened DEF PartsOf
<1> HIDE DEF p
<1>3. CASE Absolute(uris) = {}
  <2>1. f.form # "absolute"
    BY <1>3, OuterIs
  <2>2. PathBelow(f, root) = p
    BY <2>1 DEF PathBelow, p
  <2>3. Meaning(uris) = Q(<<>>)
    <3>1. Root(uris) = uris[Outer(uris)]
      BY <1>3 DEF Root
    <3>2. Meaning(uris) =
             {path \in Suffixes(p) \ {<<>>} :
                /\ \A i \in DOMAIN uris : Parsed(uris[i])
                /\ Root(uris).drive = uris[Outer(uris)].drive
                /\ p = (IF Absolute(uris) = {} THEN <<>> ELSE Root(uris).parts) \o path}
      BY MeaningOf DEF p
    <3> QED
      BY <1>3, <3>1, <3>2
  <2>4. IsPrefix(<<>>, p) /\ SubSeq(p, Len(<<>>) + 1, Len(p)) = p
    <3>1. Len(<<>>) = 0 /\ 0 <= Len(p) /\ SubSeq(<<>>, 1, 0) = <<>> /\ SubSeq(p, 1, 0) = <<>>
      BY <1>2
    <3>2. SubSeq(p, 1, Len(p)) = p
      BY <1>2, SubSeqFull
    <3>3. Len(<<>>) + 1 = 1
      BY <3>1
    <3> QED
      BY <3>1, <3>2, <3>3 DEF IsPrefix
  <2>5. <<>> \in Seq(S)
    OBVIOUS
  <2>6. Q(<<>>) = IF IsPrefix(<<>>, p) /\ SubSeq(p, Len(<<>>) + 1, Len(p)) # <<>>
                  THEN {SubSeq(p, Len(<<>>) + 1, Len(p))} ELSE {}
    BY <1>2, <2>5, RestIs
  <2> QED
    BY <2>2, <2>3, <2>4, <2>6 DEF Only
<1>4. CASE Absolute(uris) # {}
  <2>1. f.form = "absolute"
    BY <1>4, OuterIs
  <2>2. root = Root(uris)
    BY <1>4 DEF Root, RootOf
  <2>3. root.form = "absolute" /\ IsSequence(root.parts)
    <3>1. IsSequence(Snapshot.parts) /\ Snapshot.form = "absolute"
      BY SarifLocationsAssumption DEF IsSequence
    <3>2. IsSequence(Last(uris).parts)
      <4>1. Len(uris) \in 1 .. Len(uris)
        BY DEF Uris
      <4> QED
        BY <4>1 DEF Last, Uris
    <3> QED
      BY <3>1, <3>2 DEF RootOf
  <2> DEFINE r == root.parts
             R == S \cup Range(r)
             rest == SubSeq(p, Len(r) + 1, Len(p))
  <2>4. p \in Seq(R) /\ r \in Seq(R)
    BY <1>2, <2>3, Sequences
  <2>5. Meaning(uris) =
             {path \in Suffixes(p) \ {<<>>} :
                /\ \A i \in DOMAIN uris : Parsed(uris[i])
                /\ Root(uris).drive = uris[Outer(uris)].drive
                /\ p = (IF Absolute(uris) = {} THEN <<>> ELSE Root(uris).parts) \o path}
    BY MeaningOf DEF p
  <2>6. Q(r) = IF IsPrefix(r, p) /\ rest # <<>> THEN {rest} ELSE {}
    <3> HIDE DEF r, R
    <3> QED
      BY <2>4, RestIs
  <2>7. Below(f, root) <=> root.drive = f.drive /\ IsPrefix(r, p)
    BY <2>1, <2>3 DEF Below, p
  <2>8. PathBelow(f, root) = IF root.drive = f.drive /\ IsPrefix(r, p) THEN rest ELSE <<>>
    BY <2>1, <2>7 DEF PathBelow, p
  <2>9. CASE root.drive = f.drive
    <3>1. Meaning(uris) = Q(r)
      BY <1>4, <2>2, <2>5, <2>9
    <3> HIDE DEF Q, r, rest, root
    <3> QED
      BY <2>6, <2>8, <2>9, <3>1 DEF Only, root
  <2>10. CASE root.drive # f.drive
    <3>1. Meaning(uris) = {}
      BY <2>2, <2>5, <2>10
    <3> HIDE DEF r, rest, root
    <3> QED
      BY <2>8, <2>10, <3>1 DEF Only, root
  <2> QED
    BY <2>9, <2>10
<1> QED
  BY <1>3, <1>4

-----------------------------------------------------------------------------
(* The spelling of a location.                                               *)

\* What a SARIF run declares: sequences, and finitely many bases.
Declares(run) ==
    /\ IsSequence(run.artifacts) /\ IsFiniteSet(DOMAIN run.bases)
    /\ \A a \in Range(run.artifacts) : IsSequence(a.uri.parts)
    /\ \A id \in DOMAIN run.bases : IsSequence(run.bases[id].uri.parts)

\* The ids of the bases of a file, and the URI of the i-th.
BaseIds(run, named) ==
    IF named.base = NoBase THEN <<>>
    ELSE Ancestors(run, named.base, {}, Cardinality(DOMAIN run.bases))
UriOf(run, ids, i) ==
    IF i = Cardinality(DOMAIN run.bases) + 1 /\ Parent(run, ids[i]) # NoBase
    THEN NoArtifact.uri
    ELSE IF ids[i] \in DOMAIN run.bases THEN run.bases[ids[i]].uri
    ELSE IF ids[i] = SourceRoot THEN Uri("relative", "", <<>>)
    ELSE NoArtifact.uri

\* The URIs of a location are its own and those of its bases.
LEMMA SpellingIs ==
    ASSUME NEW run, Declares(run), NEW named, IsSequence(named.uri.parts)
    PROVE  /\ Uris(Spelling(run, named))
           /\ IsSequence(BaseIds(run, named))
           /\ Len(Spelling(run, named)) = Len(BaseIds(run, named)) + 1
           /\ Spelling(run, named)[1] = named.uri
           /\ \A i \in 1 .. Len(BaseIds(run, named)) :
                Spelling(run, named)[i + 1] = UriOf(run, BaseIds(run, named), i)
<1> DEFINE ids == BaseIds(run, named)
           n == Len(ids)
           s == <<named.uri>>
           t == [i \in DOMAIN ids |-> UriOf(run, ids, i)]
           u == Spelling(run, named)
<1>1. u = s \o t
  BY DEF Spelling, BaseIds, UriOf
<1>2. IsSequence(ids) /\ n \in Nat /\ DOMAIN ids = 1 .. n
  <2>1. IsSequence(ids)
    <3>1. CASE named.base = NoBase
      BY <3>1, EmptySequence DEF BaseIds
    <3>2. CASE named.base # NoBase
      <4>1. Cardinality(DOMAIN run.bases) \in Nat
        BY FS_CardinalityType DEF Declares
      <4>2. Climbs(run, named.base, {}, Cardinality(DOMAIN run.bases), ids)
        BY <3>2, <4>1, AncestorsClimb DEF BaseIds
      <4> QED
        BY <4>2 DEF Climbs
    <3> QED
      BY <3>1, <3>2
  <2> HIDE DEF ids
  <2> QED
    BY <2>1, Sequences
<1>3. IsSequence(s) /\ Len(s) = 1 /\ DOMAIN s = {1} /\ s[1] = named.uri
  BY OneElement
<1> HIDE DEF ids, n, u, s
<1>4. \A i \in 1 .. n : t[i] = UriOf(run, ids, i)
  BY <1>2
<1>5. t = [i \in 1 .. n |-> t[i]]
  BY <1>2
<1> HIDE DEF t
<1>6. IsSequence(t) /\ Len(t) = n /\ DOMAIN t = 1 .. n
  BY <1>2, <1>5, SequenceOf
<1>7. IsJoin(u, s, t)
  BY <1>1, <1>3, <1>6, JoinIs
<1>8. /\ IsSequence(u) /\ Len(u) = 1 + n
      /\ u[1] = s[1] /\ \A i \in 1 .. n : u[1 + i] = t[i]
  <2>1. /\ IsSequence(u) /\ Len(u) = Len(s) + Len(t)
        /\ \A i \in DOMAIN s : u[i] = s[i]
        /\ \A i \in DOMAIN t : u[Len(s) + i] = t[i]
    BY <1>7 DEF IsJoin
  <2> QED
    BY <1>3, <1>6, <2>1
<1>9. \A i \in 1 .. n : 1 + i = i + 1
  BY <1>2
<1>10. u[1] = named.uri /\ \A i \in 1 .. n : u[i + 1] = UriOf(run, ids, i)
  BY <1>3, <1>4, <1>8, <1>9
<1>11. ASSUME NEW i \in 1 .. n
       PROVE  IsSequence(UriOf(run, ids, i).parts)
  <2>1. NoArtifact.uri.parts = <<>> /\ Uri("relative", "", <<>>).parts = <<>>
    BY DEF NoArtifact, Uri
  <2> QED
    BY <2>1, EmptySequence DEF UriOf, Declares
<1>12. Len(u) \in Nat /\ 1 <= Len(u)
       /\ \A i \in 1 .. Len(u) : i = 1 \/ (i - 1 \in 1 .. n /\ (i - 1) + 1 = i)
  BY <1>2, <1>8
<1>13. ASSUME NEW i \in 1 .. Len(u)
       PROVE  IsSequence(u[i].parts)
  <2>1. CASE i = 1
    BY <1>10, <2>1
  <2>2. CASE i # 1
    <3> DEFINE k == i - 1
    <3>1. k \in 1 .. n /\ k + 1 = i
      BY <1>12, <2>2
    <3> HIDE DEF k
    <3>2. u[i] = UriOf(run, ids, k)
      BY <1>10, <3>1
    <3> QED
      BY <1>11, <3>1, <3>2
  <2> QED
    BY <2>1, <2>2
<1>14. Uris(u)
  BY <1>8, <1>12, <1>13 DEF Uris
<1>15. 1 + n = n + 1
  BY <1>2
<1> QED
  BY <1>2, <1>8, <1>10, <1>14, <1>15 DEF u, ids, n

\* The path of a file without a base is what its URI means.
LEMMA AlonePath ==
    ASSUME NEW run, Declares(run), NEW named, IsSequence(named.uri.parts),
           named.base = NoBase, Parsed(named.uri), NEW known
    PROVE  Meaning(Spelling(run, named)) = Only(SourcePath(named, known))
<1> DEFINE u == Spelling(run, named)
           f == named.uri
<1>1. BaseIds(run, named) = <<>> /\ Len(<<>>) = 0
  BY DEF BaseIds
<1>2. Uris(u) /\ Len(u) = 1 /\ u[1] = f
  <2>1. Uris(u) /\ Len(u) = Len(BaseIds(run, named)) + 1 /\ u[1] = f
    BY SpellingIs
  <2> QED
    BY <1>1, <2>1
<1> HIDE DEF u, f
<1>3. Outer(u) = 1
  <2>1. Outer(u) \in 1 .. Len(u)
    BY <1>2, OuterIs
  <2> QED
    BY <1>2, <2>1
<1>4. DOMAIN u = 1 .. 1 /\ \A i \in DOMAIN u : i = 1
  <2>1. DOMAIN u = 1 .. Len(u)
    BY <1>2, Sequences DEF Uris
  <2> QED
    BY <1>2, <2>1
<1>5. \A i \in DOMAIN u : Parsed(u[i])
  BY <1>2, <1>4 DEF f
<1>6. /\ f.form = u[Outer(u)].form /\ f.drive = u[Outer(u)].drive
      /\ f.parts = PartsOf(u)
  <2> DEFINE full == [i \in {1} |-> f]
  <2>1. full[Len(u)] = u[Len(u)] /\ full[1] = f
    BY <1>2
  <2>2. \A i \in 1 .. Len(u) - 1 : full[i] = Join(full[i + 1], u[i])
    BY <1>2
  <2> HIDE DEF full
  <2> QED
    BY <1>2, <2>1, <2>2, JoinsAre
<1>7. Meaning(u) = Only(PathBelow(f, RootOf(u)))
  BY <1>2, <1>5, <1>6, MeaningIs
<1>8. RootOf(u) = Snapshot
  BY <1>2 DEF RootOf
<1>9. SourcePath(named, known) = PathBelow(f, Snapshot)
  BY DEF SourcePath, PathBelow, f
<1> QED
  BY <1>7, <1>8, <1>9 DEF u

\* What a coherent cache knows of the bases on a line: their paths are joined
\* from the outside, and their anchor is the outermost one.
LEMMA KnownLine ==
    ASSUME NEW run, NEW known, Coherent(run, known), NEW id \in DOMAIN known,
           NEW c, Line(run, id, c)
    PROVE  /\ \A i \in 1 .. Len(c) : c[i] \in DOMAIN known
           /\ known[c[Len(c)]].path = BaseUri(run, c[Len(c)])
           /\ \A i \in 1 .. Len(c) - 1 :
                known[c[i]].path = Join(known[c[i + 1]].path, BaseUri(run, c[i]))
           /\ known[id].anchor = BaseUri(run, c[Len(c)])
<1> DEFINE N == Len(c)
           T == {k \in Nat : k + 1 <= N =>
                   c[k + 1] \in DOMAIN known /\ known[c[k + 1]].anchor = known[id].anchor}
<1>1. /\ N \in Nat /\ 1 <= N /\ c[1] = id /\ Parent(run, c[N]) = NoBase
      /\ \A i \in 1 .. N - 1 : Parent(run, c[i]) # NoBase /\ c[i + 1] = Parent(run, c[i])
  BY DEF Line
<1> HIDE DEF N
<1>2. \A k \in DOMAIN known : Parent(run, k) # NoBase =>
         /\ Parent(run, k) \in DOMAIN known
         /\ known[k].path = Join(known[Parent(run, k)].path, BaseUri(run, k))
         /\ known[k].anchor = known[Parent(run, k)].anchor
  <2> SUFFICES ASSUME NEW k \in DOMAIN known, Parent(run, k) # NoBase
               PROVE  /\ Parent(run, k) \in DOMAIN known
                      /\ known[k].path = Join(known[Parent(run, k)].path, BaseUri(run, k))
                      /\ known[k].anchor = known[Parent(run, k)].anchor
    OBVIOUS
  <2> DEFINE a == Join(known[Parent(run, k)].path, BaseUri(run, k))
             b == known[Parent(run, k)].anchor
  <2>1. known[k] = BasePath(run, known, k) /\ Parent(run, k) \in DOMAIN known
    BY DEF Coherent
  <2>2. BasePath(run, known, k) = [path |-> a, anchor |-> b]
    BY DEF BasePath, BaseUri
  <2> HIDE DEF a, b
  <2>3. known[k].path = a /\ known[k].anchor = b
    BY <2>1, <2>2
  <2> QED
    BY <2>1, <2>3 DEF a, b
<1>3. \A k \in DOMAIN known : Parent(run, k) = NoBase =>
         known[k].path = BaseUri(run, k) /\ known[k].anchor = BaseUri(run, k)
  <2> SUFFICES ASSUME NEW k \in DOMAIN known, Parent(run, k) = NoBase
               PROVE  known[k].path = BaseUri(run, k) /\ known[k].anchor = BaseUri(run, k)
    OBVIOUS
  <2> DEFINE a == BaseUri(run, k)
  <2>1. known[k] = BasePath(run, known, k)
    BY DEF Coherent
  <2>2. BasePath(run, known, k) = [path |-> a, anchor |-> a]
    BY DEF BasePath, BaseUri
  <2> HIDE DEF a
  <2>3. known[k].path = a /\ known[k].anchor = a
    BY <2>1, <2>2
  <2> QED
    BY <2>3 DEF a
<1>4. 0 \in T
  BY <1>1
<1>5. ASSUME NEW k \in Nat, k \in T
      PROVE  k + 1 \in T
  <2> SUFFICES ASSUME (k + 1) + 1 <= N
               PROVE  /\ c[(k + 1) + 1] \in DOMAIN known
                      /\ known[c[(k + 1) + 1]].anchor = known[id].anchor
    OBVIOUS
  <2> DEFINE j == k + 1
  <2>1. j \in 1 .. N - 1 /\ j <= N
    BY <1>1
  <2>2. c[j] \in DOMAIN known /\ known[c[j]].anchor = known[id].anchor
    BY <1>5, <2>1
  <2> HIDE DEF j
  <2>3. Parent(run, c[j]) # NoBase /\ c[j + 1] = Parent(run, c[j])
    BY <1>1, <2>1
  <2>4. c[j + 1] \in DOMAIN known /\ known[c[j + 1]].anchor = known[id].anchor
    BY <1>2, <2>2, <2>3
  <2> QED
    BY <2>4 DEF j
<1> HIDE DEF T
<1>6. \A k \in Nat : k \in T
  BY <1>4, <1>5, Induction
<1>7. ASSUME NEW i \in 1 .. N
      PROVE  c[i] \in DOMAIN known /\ known[c[i]].anchor = known[id].anchor
  <2>1. i - 1 \in Nat /\ (i - 1) + 1 = i /\ i <= N
    BY <1>1
  <2>2. i - 1 \in T
    BY <1>6, <2>1
  <2> QED
    BY <2>1, <2>2 DEF T
<1>8. N \in 1 .. N /\ \A i \in 1 .. N - 1 : i \in 1 .. N
  BY <1>1
<1>9. known[c[N]].path = BaseUri(run, c[N]) /\ known[c[N]].anchor = BaseUri(run, c[N])
  BY <1>1, <1>3, <1>7, <1>8
<1>10. known[id].anchor = BaseUri(run, c[N])
  BY <1>7, <1>8, <1>9
<1>11. \A i \in 1 .. N - 1 :
          known[c[i]].path = Join(known[c[i + 1]].path, BaseUri(run, c[i]))
  BY <1>1, <1>2, <1>7, <1>8
<1> QED
  BY <1>7, <1>9, <1>10, <1>11 DEF N

\* On a line, what is told of a base is its URI, which is accepted.
LEMMA UriOfIs ==
    ASSUME NEW run, NEW id, NEW c, Line(run, id, c),
           Len(c) <= Cardinality(DOMAIN run.bases) + 1, NEW i \in 1 .. Len(c),
           NEW ids, ids[i] = c[i]
    PROVE  UriOf(run, ids, i) = BaseUri(run, c[i]) /\ Parsed(BaseUri(run, c[i]))
<1> DEFINE count == Cardinality(DOMAIN run.bases)
<1>1. Declared(run, c[i]) /\ Len(c) \in Nat /\ Parent(run, c[Len(c)]) = NoBase
  BY DEF Line
<1>2. i = count + 1 => i = Len(c)
  <2> HIDE DEF count
  <2>1. Len(c) <= count + 1
    BY DEF count
  <2> QED
    BY <1>1, <2>1
<1>3. ~(i = count + 1 /\ Parent(run, ids[i]) # NoBase)
  BY <1>1, <1>2
<1>4. Uri("relative", "", <<>>).form = "relative"
  BY DEF Uri
<1> QED
  BY <1>1, <1>3, <1>4 DEF UriOf, BaseUri, Declared, Parsed

\* The path of a file below a base that is known is what its URIs mean.
LEMMA BasedPath ==
    ASSUME NEW run, Declares(run), NEW known, Coherent(run, known),
           NEW named, IsSequence(named.uri.parts), Parsed(named.uri),
           named.base # NoBase, named.base \in DOMAIN known
    PROVE  Meaning(Spelling(run, named)) = Only(SourcePath(named, known))
<1> DEFINE u == Spelling(run, named)
           ids == BaseIds(run, named)
           count == Cardinality(DOMAIN run.bases)
           f == Join(known[named.base].path, named.uri)
<1>1. PICK c : Line(run, named.base, c)
  BY DEF Coherent
<1> DEFINE N == Len(c)
<1>2. count \in Nat /\ N \in Nat /\ 1 <= N /\ c[1] = named.base /\ N <= count + 1
  <2>1. count \in Nat /\ N \in Nat /\ 1 <= N /\ c[1] = named.base
    BY <1>1, FS_CardinalityType DEF Declares, Line
  <2>2. N <= count + 1
    BY <1>1, LineIsShort DEF Declares
  <2> QED
    BY <2>1, <2>2
<1>3. Len(ids) = N /\ \A i \in 1 .. N : ids[i] = c[i]
  <2>1. Climbs(run, named.base, {}, count, ids)
    BY <1>2, AncestorsClimb DEF BaseIds
  <2> HIDE DEF ids, count
  <2> QED
    BY <1>1, <1>2, <2>1, ClimbIsLine
<1>4. /\ Uris(u) /\ Len(u) = Len(ids) + 1 /\ u[1] = named.uri
      /\ \A i \in 1 .. Len(ids) : u[i + 1] = UriOf(run, ids, i)
  BY SpellingIs
<1>5. \A i \in 1 .. N : u[i + 1] = BaseUri(run, c[i]) /\ Parsed(u[i + 1])
  <2> SUFFICES ASSUME NEW i \in 1 .. N
               PROVE  u[i + 1] = BaseUri(run, c[i]) /\ Parsed(u[i + 1])
    OBVIOUS
  <2>1. N <= count + 1 /\ ids[i] = c[i]
    BY <1>2, <1>3
  <2> HIDE DEF ids, u
  <2>2. UriOf(run, ids, i) = BaseUri(run, c[i]) /\ Parsed(BaseUri(run, c[i]))
    BY <1>1, <2>1, UriOfIs
  <2> QED
    BY <1>3, <1>4, <2>2
<1>6. /\ \A i \in 1 .. N : c[i] \in DOMAIN known
      /\ known[c[N]].path = BaseUri(run, c[N])
      /\ \A i \in 1 .. N - 1 :
           known[c[i]].path = Join(known[c[i + 1]].path, BaseUri(run, c[i]))
      /\ known[named.base].anchor = BaseUri(run, c[N])
  BY <1>1, KnownLine
<1> HIDE DEF u, ids, count, N
<1> DEFINE full == [i \in 1 .. N + 1 |-> IF i = 1 THEN f ELSE known[c[i - 1]].path]
<1>7. full[1] = f /\ \A i \in 1 .. N : full[i + 1] = known[c[i]].path
  <2>1. 1 \in 1 .. N + 1 /\ \A i \in 1 .. N : /\ i + 1 \in 1 .. N + 1
                                              /\ i + 1 # 1 /\ (i + 1) - 1 = i
    BY <1>2
  <2> QED
    BY <2>1
<1> HIDE DEF full
<1>8. Len(u) = N + 1 /\ N \in 1 .. N /\ 1 \in 1 .. N
  BY <1>2, <1>3, <1>4
<1>9. full[Len(u)] = u[Len(u)]
  BY <1>5, <1>6, <1>7, <1>8
<1>10. ASSUME NEW i \in 1 .. Len(u) - 1
       PROVE  full[i] = Join(full[i + 1], u[i])
  <2>1. CASE i = 1
    <3>1. full[i + 1] = known[named.base].path
      BY <1>2, <1>7, <1>8, <2>1
    <3> QED
      BY <1>4, <1>7, <2>1, <3>1 DEF f
  <2>2. CASE i # 1
    <3> DEFINE k == i - 1
    <3>1. k \in 1 .. N - 1 /\ k \in 1 .. N /\ k + 1 = i /\ k + 1 \in 1 .. N
      BY <1>2, <1>8, <2>2
    <3> HIDE DEF k
    <3>2. full[i] = known[c[k]].path /\ full[i + 1] = known[c[k + 1]].path
      BY <1>7, <3>1
    <3>3. u[i] = BaseUri(run, c[k])
      BY <1>5, <3>1
    <3>4. known[c[k]].path = Join(known[c[k + 1]].path, BaseUri(run, c[k]))
      BY <1>6, <3>1
    <3> QED
      BY <3>2, <3>3, <3>4
  <2> QED
    BY <2>1, <2>2
<1>11. /\ f.form = u[Outer(u)].form /\ f.drive = u[Outer(u)].drive
       /\ f.parts = PartsOf(u)
  <2> HIDE DEF f
  <2>1. /\ full[1].form = u[Outer(u)].form /\ full[1].drive = u[Outer(u)].drive
        /\ full[1].parts = PartsOf(u)
    BY <1>4, <1>9, <1>10, JoinsAre
  <2> QED
    BY <1>7, <2>1
<1>12. \A i \in DOMAIN u : Parsed(u[i])
  <2>1. DOMAIN u = 1 .. N + 1
    BY <1>4, <1>8, Sequences DEF Uris
  <2>2. ASSUME NEW i \in 1 .. N + 1
        PROVE  Parsed(u[i])
    <3>1. CASE i = 1
      BY <1>4, <3>1
    <3>2. CASE i # 1
      <4> DEFINE k == i - 1
      <4>1. k \in 1 .. N /\ k + 1 = i
        BY <1>2, <3>2
      <4> HIDE DEF k
      <4> QED
        BY <1>5, <4>1
    <3> QED
      BY <3>1, <3>2
  <2> QED
    BY <2>1, <2>2
<1>13. Meaning(u) = Only(PathBelow(f, RootOf(u)))
  <2> HIDE DEF f
  <2> QED
    BY <1>4, <1>11, <1>12, MeaningIs
<1>14. /\ Last(u) = known[named.base].anchor
       /\ Len(u) > 1
  <2>1. Last(u) = BaseUri(run, c[N])
    BY <1>5, <1>8 DEF Last
  <2> QED
    BY <1>2, <1>6, <1>8, <2>1
<1>15. RootOf(u) = IF known[named.base].anchor.form = "absolute"
                   THEN known[named.base].anchor ELSE Snapshot
  BY <1>14 DEF RootOf
<1>16. SourcePath(named, known) = PathBelow(f, RootOf(u))
  BY <1>15 DEF SourcePath, PathBelow, f
<1> QED
  BY <1>13, <1>16 DEF u

-----------------------------------------------------------------------------
(* What is refused, and what is not.                                         *)

\* A way up that ends too soon for the one without a cache is refused there.
LEMMA ShortClimb ==
    ASSUME NEW run, NEW id, NEW known, NEW m, NEW c, Climbs(run, id, known, m, c),
           NEW n \in Nat, NEW d, Climbs(run, id, {}, n, d), Len(d) < Len(c)
    PROVE  Len(d) \in Nat /\ Len(d) = n + 1 /\ Parent(run, d[Len(d)]) # NoBase
<1> DEFINE M == Len(c)
           N == Len(d)
<1>1. /\ M \in Nat /\ \A i \in 1 .. M - 1 : ~Ends(run, known, c[i])
      /\ N \in Nat /\ 1 <= N /\ N <= n + 1 /\ (N <= n => Ends(run, {}, d[N]))
  BY DEF Climbs
<1>2. N < M
  OBVIOUS
<1>3. \A i \in 1 .. M : i <= N => c[i] = d[i]
  BY SameClimb
<1> HIDE DEF M, N
<1>4. N \in 1 .. M - 1 /\ N \in 1 .. M /\ N <= N
  BY <1>1, <1>2
<1>5. c[N] = d[N] /\ ~Ends(run, known, c[N])
  BY <1>1, <1>3, <1>4
<1>6. Parent(run, d[N]) # NoBase
  BY <1>5 DEF Ends
<1>7. ~Ends(run, {}, d[N])
  BY <1>6 DEF Ends
<1>8. N = n + 1
  BY <1>1, <1>7
<1> QED
  BY <1>1, <1>6, <1>8 DEF N

\* There is no URI where there is none to tell.
LEMMA NothingTold ==
    ASSUME NEW run, NEW ids, NEW i,
           \/ i = Cardinality(DOMAIN run.bases) + 1 /\ Parent(run, ids[i]) # NoBase
           \/ ~Declared(run, ids[i])
    PROVE  ~Parsed(UriOf(run, ids, i))
<1>1. ~Parsed(NoArtifact.uri)
  BY DEF NoArtifact, Parsed, Uri
<1> QED
  BY <1>1 DEF UriOf, Declared

\* A location whose base is refused means nothing, or is nested too deep.
LEMMA Unresolved ==
    ASSUME NEW run, Declares(run), NEW known, NEW named, IsSequence(named.uri.parts),
           named.base # NoBase, ~BaseResolves(run, known, named.base)
    PROVE  \/ Meaning(Spelling(run, named)) = {}
           \/ Len(Spelling(run, named)) > MaximumDepth + 1
<1> DEFINE u == Spelling(run, named)
           c == Chain(run, known, named.base)
           d == BaseIds(run, named)
           count == Cardinality(DOMAIN run.bases)
<1>1. count \in Nat /\ MaximumDepth \in Nat
  BY FS_CardinalityType, SarifLocationsAssumption DEF Declares
<1>2. Climbs(run, named.base, DOMAIN known, MaximumDepth, c)
  BY <1>1, AncestorsClimb DEF Chain
<1>3. Climbs(run, named.base, {}, count, d)
  BY <1>1, AncestorsClimb DEF BaseIds
<1>4. /\ Uris(u) /\ Len(u) = Len(d) + 1
      /\ \A i \in 1 .. Len(d) : u[i + 1] = UriOf(run, d, i)
  BY SpellingIs
<1>5. \/ ~(Len(c) <= MaximumDepth)
      \/ \E i \in DOMAIN c : c[i] \notin DOMAIN known /\ ~Declared(run, c[i])
  BY DEF BaseResolves
<1>6. DOMAIN c = 1 .. Len(c) /\ Len(c) \in Nat /\ Len(d) \in Nat /\ 1 <= Len(d)
  BY <1>2, <1>3, Sequences DEF Climbs
<1>7. DOMAIN u = 1 .. Len(d) + 1
  BY <1>4, Sequences DEF Uris
<1> HIDE DEF u, c, d
<1>8. ASSUME NEW i \in 1 .. Len(d), ~Parsed(UriOf(run, d, i))
      PROVE  Meaning(u) = {}
  <2>1. i + 1 \in DOMAIN u
    BY <1>6, <1>7
  <2>2. ~Parsed(u[i + 1])
    BY <1>4, <1>8
  <2> QED
    BY <2>1, <2>2, UnparsedMeansNothing
<1>9. CASE Len(d) < Len(c)
  <2>1. Len(d) = count + 1 /\ Parent(run, d[Len(d)]) # NoBase
    BY <1>1, <1>2, <1>3, <1>9, ShortClimb
  <2>2. ~Parsed(UriOf(run, d, Len(d)))
    BY <2>1, NothingTold
  <2>3. Len(d) \in 1 .. Len(d)
    BY <1>6
  <2> QED
    BY <1>8, <2>2, <2>3 DEF u
<1>10. CASE ~(Len(d) < Len(c)) /\ ~(Len(c) <= MaximumDepth)
  <2>1. Len(u) > MaximumDepth + 1
    BY <1>1, <1>4, <1>6, <1>10
  <2> QED
    BY <2>1 DEF u
<1>11. CASE /\ ~(Len(d) < Len(c))
            /\ \E i \in DOMAIN c : c[i] \notin DOMAIN known /\ ~Declared(run, c[i])
  <2>1. PICK i \in DOMAIN c : c[i] \notin DOMAIN known /\ ~Declared(run, c[i])
    BY <1>11
  <2>2. i \in 1 .. Len(c) /\ i \in 1 .. Len(d) /\ i <= Len(d)
    BY <1>6, <1>11, <2>1
  <2>3. c[i] = d[i]
    BY <1>2, <1>3, <2>2, SameClimb
  <2>4. ~Parsed(UriOf(run, d, i))
    BY <2>1, <2>3, NothingTold
  <2> QED
    BY <1>8, <2>2, <2>4 DEF u
<1> QED
  BY <1>5, <1>9, <1>10, <1>11

\* A location says what it says.
SaidBy(name) == name.index \in Nat /\ IsSequence(name.uri.parts)

\* The parts of the URI of a file are a sequence.
LEMMA NamedParts ==
    ASSUME NEW run, Declares(run), NEW name, SaidBy(name), name.index <= Len(run.artifacts)
    PROVE  IsSequence(NamedFile(run, name).uri.parts)
<1> DEFINE a == IF name.index = 0 THEN NoArtifact ELSE run.artifacts[name.index]
           b == IF name.uri.form = "missing" THEN a.uri ELSE name.uri
           e == IF name.uri.form = "missing" /\ name.base = NoBase THEN a.base ELSE name.base
           g == a.hash
           f == NamedFile(run, name)
<1>1. f = [uri |-> b, base |-> e, hash |-> g]
  BY DEF NamedFile
<1>2. IsSequence(a.uri.parts)
  <2>1. CASE name.index = 0
    <3>1. NoArtifact.uri.parts = <<>>
      BY DEF NoArtifact, Uri
    <3> QED
      BY <2>1, <3>1, EmptySequence
  <2>2. CASE name.index # 0
    <3>1. DOMAIN run.artifacts = 1 .. Len(run.artifacts) /\ Len(run.artifacts) \in Nat
          /\ \A i \in DOMAIN run.artifacts : run.artifacts[i] \in Range(run.artifacts)
      BY Sequences DEF Declares
    <3>2. name.index \in DOMAIN run.artifacts
      BY <2>2, <3>1 DEF SaidBy
    <3> QED
      BY <2>2, <3>1, <3>2 DEF Declares
  <2> QED
    BY <2>1, <2>2
<1>3. IsSequence(b.parts)
  BY <1>2 DEF SaidBy
<1> HIDE DEF a, b, e, f, g
<1>4. f.uri = b
  BY <1>1
<1> QED
  BY <1>3, <1>4 DEF f

\* The place a location stands for.
PlaceOf(result, location) == CHOOSE l \in Physical(result, location) : TRUE
FileOf(run, result, location) == NamedFile(run, PlaceOf(result, location).name)

\* A path is what the location means, and the cache stays coherent; a location
\* that is refused means nothing or is nested too deep.
LEMMA ResolveIs ==
    ASSUME NEW run, Declares(run), NEW known, Coherent(run, known),
           NEW result, NEW location, Physical(result, location) # {},
           SaidBy(PlaceOf(result, location).name),
           PlaceOf(result, location).name.index <= Len(run.artifacts)
    PROVE  /\ Resolve(run, known, result, location).path # <<>> =>
                /\ Coherent(run, Resolve(run, known, result, location).known)
                /\ Resolve(run, known, result, location).hash
                     = FileOf(run, result, location).hash
                /\ Meaning(Spelling(run, FileOf(run, result, location)))
                     = {Resolve(run, known, result, location).path}
           /\ Resolve(run, known, result, location).path = <<>> =>
                \/ Meaning(Spelling(run, FileOf(run, result, location))) = {}
                \/ Len(Spelling(run, FileOf(run, result, location))) > MaximumDepth + 1
<1> DEFINE named == FileOf(run, result, location)
           name == PlaceOf(result, location).name
           u == Spelling(run, named)
           r == Resolve(run, known, result, location)
           learned == IF named.base = NoBase THEN known ELSE Learned(run, known, named.base)
           Refuses == ~Parsed(named.uri) \/ (named.base # NoBase
                                             /\ ~BaseResolves(run, known, named.base))
           path == SourcePath(named, learned)
           g == named.hash
<1>1. r = IF Refuses THEN [path |-> <<>>, hash |-> "none", known |-> known]
          ELSE [path |-> path, hash |-> g, known |-> learned]
  <2>1. ~(name.index > Len(run.artifacts))
    <3>1. Len(run.artifacts) \in Nat
      BY Sequences DEF Declares
    <3> QED
      BY <3>1 DEF SaidBy
  <2> QED
    BY <2>1 DEF Resolve, FileOf, PlaceOf
<1>2. IsSequence(named.uri.parts)
  BY NamedParts DEF FileOf
<1> HIDE DEF named, u, r
<1>3. CASE ~Parsed(named.uri)
  <2>1. Uris(u) /\ u[1] = named.uri
    BY <1>2, SpellingIs DEF u
  <2>2. 1 \in DOMAIN u
    <3>1. DOMAIN u = 1 .. Len(u) /\ Len(u) \in Nat /\ 1 <= Len(u)
      BY <2>1, Sequences DEF Uris
    <3> QED
      BY <3>1
  <2>3. Meaning(u) = {}
    BY <1>3, <2>1, <2>2, UnparsedMeansNothing
  <2>4. r.path = <<>>
    BY <1>1, <1>3
  <2> QED
    BY <2>3, <2>4 DEF u, r, named
<1>4. CASE named.base # NoBase /\ ~BaseResolves(run, known, named.base)
  <2>1. Meaning(u) = {} \/ Len(u) > MaximumDepth + 1
    BY <1>2, <1>4, Unresolved DEF u
  <2>2. r.path = <<>>
    BY <1>1, <1>4
  <2> QED
    BY <2>1, <2>2 DEF u, r, named
<1>5. CASE ~Refuses
  <2>1. Meaning(u) = Only(path) /\ Coherent(run, learned)
    <3>1. CASE named.base = NoBase
      <4>1. Meaning(u) = Only(SourcePath(named, known))
        BY <1>2, <1>5, <3>1, AlonePath DEF u
      <4> QED
        BY <3>1, <4>1
    <3>2. CASE named.base # NoBase
      <4> DEFINE later == Learned(run, known, named.base)
      <4>1. Coherent(run, later) /\ named.base \in DOMAIN later
        BY <1>5, <3>2, LearnedIs
      <4> HIDE DEF later
      <4>2. Meaning(u) = Only(SourcePath(named, later))
        BY <1>2, <1>5, <3>2, <4>1, BasedPath DEF u
      <4>3. learned = later
        BY <3>2 DEF later
      <4> QED
        BY <4>1, <4>2, <4>3
    <3> QED
      BY <3>1, <3>2
  <2> HIDE DEF learned, path, g
  <2>2. r = [path |-> path, hash |-> g, known |-> learned]
    BY <1>1, <1>5
  <2>3. r.path = path /\ r.hash = g /\ r.known = learned
    BY <2>2
  <2>4. CASE path = <<>>
    BY <2>1, <2>3, <2>4 DEF Only, u, r, named
  <2>5. CASE path # <<>>
    BY <2>1, <2>3, <2>5 DEF Only, u, r, named, g
  <2> QED
    BY <2>4, <2>5
<1> QED
  BY <1>3, <1>4, <1>5

\* No path without a place.
LEMMA PlacelessIs ==
    ASSUME NEW run, NEW known, NEW result, NEW location,
           \/ Physical(result, location) = {}
           \/ PlaceOf(result, location).name.index > Len(run.artifacts)
    PROVE  Resolve(run, known, result, location).path = <<>>
BY DEF Resolve, PlaceOf

-----------------------------------------------------------------------------
(* The locations of a run. *)

\* The places a location may stand for, and a path that is what one means.
Said(run, result, location) ==
    {l \in Physical(result, location) : l.name.index <= Len(run.artifacts)}
Means(run, result, location, path) ==
    \E l \in Said(run, result, location) :
       Meaning(Spelling(run, NamedFile(run, l.name))) = {path}
Truthful(run, result, alert) ==
    \A i \in DOMAIN References(alert) :
       Means(run, result, References(result)[i].location,
             References(alert)[i].location.path)

\* What a resolver that has made no mistake leaves behind: its cache is
\* coherent, what it has located is what the result names, and so are the
\* alerts.
Locating ==
    /\ pc = "normalize" /\ Len(alerts) < Len(setup.results) =>
         /\ Coherent(Run, bases)
         /\ \A i \in DOMAIN located :
              Means(Run, Result, References(Result)[i].location, located[i].path)
    /\ pc \in {"slice", "register", "merge"} => Len(alerts) = Len(setup.results)
    /\ \A a \in DOMAIN alerts :
         Truthful(setup.runs[setup.results[a].run], setup.results[a], alerts[a])
    /\ RefusalsAreReal

\* It says that paths are true.
LEMMA LocatingIsTrue == Locating => LocationsMeanWhatTheyName
<1> SUFFICES ASSUME Locating
             PROVE  PathsAreTrue /\ RefusalsAreReal
  BY DEF LocationsMeanWhatTheyName
<1>1. ASSUME NEW a \in DOMAIN alerts, NEW i \in DOMAIN References(alerts[a])
      PROVE  \E said \in Spelled(setup.results[a],
                                 References(setup.results[a])[i].location) :
                Meaning(said.uris) = {References(alerts[a])[i].location.path}
  <2> DEFINE result == setup.results[a]
             run == setup.runs[result.run]
             location == References(result)[i].location
             path == References(alerts[a])[i].location.path
  <2>1. Means(run, result, location, path)
    BY DEF Locating, Truthful
  <2> HIDE DEF path, location, result
  <2>2. PICK l \in Said(run, result, location) :
               Meaning(Spelling(run, NamedFile(run, l.name))) = {path}
    BY <2>1 DEF Means
  <2> DEFINE e == Spelling(run, NamedFile(run, l.name))
             g == NamedFile(run, l.name).hash
             said == [uris |-> e, hash |-> g]
  <2>3. said \in Spelled(result, location)
    BY <2>2 DEF Spelled, Said
  <2> HIDE DEF e, g
  <2>4. said.uris = e
    OBVIOUS
  <2>5. Meaning(said.uris) = {path}
    BY <2>2, <2>4 DEF e
  <2> HIDE DEF said
  <2>6. \E x \in Spelled(result, location) : Meaning(x.uris) = {path}
    BY <2>3, <2>5
  <2> QED
    BY <2>6 DEF result, location, path
<1> QED
  BY <1>1 DEF Locating, PathsAreTrue

\* The SARIF run of a result is declared, and its places say what they say.
LEMMA RunsDeclare ==
    ASSUME setup \in Setups, NEW n \in DOMAIN setup.results
    PROVE  /\ Declares(setup.runs[setup.results[n].run])
           /\ \A l \in Spots(setup.results[n]) : SaidBy(l.name)
           /\ setup.results[n].sound =>
                \A l, k \in Range(setup.results[n].related) :
                   l.id = k.id /\ l.id # 0 => l = k
<1> DEFINE r == setup.results[n]
           run == setup.runs[r.run]
<1>1. r \in Range(setup.results)
  BY DEF Range
<1> HIDE DEF r
<1>2. /\ r.run \in DOMAIN setup.runs
      /\ \A l \in Spots(r) : l.name.index \in Nat /\ IsSequence(l.name.uri.parts)
      /\ r.sound => \A l, k \in Range(r.related) : l.id = k.id /\ l.id # 0 => l = k
  BY <1>1, EvidenceAssumption
<1>3. /\ IsSequence(run.artifacts) /\ IsFiniteSet(DOMAIN run.bases)
      /\ \A a \in Range(run.artifacts) : IsSequence(a.uri.parts)
      /\ \A id \in DOMAIN run.bases : IsSequence(run.bases[id].uri.parts)
  BY <1>2, EvidenceAssumption
<1>4. Declares(run)
  BY <1>3 DEF Declares
<1> QED
  BY <1>2, <1>4 DEF r, SaidBy

\* The places of a location are places of its result; a sound one has one.
LEMMA PlacesOf ==
    ASSUME NEW result, NEW location \in Spots(result)
    PROVE  /\ Physical(result, location) \subseteq Spots(result)
           /\ (\A l, k \in Range(result.related) : l.id = k.id /\ l.id # 0 => l = k) =>
                \A l, k \in Physical(result, location) : l = k
<1>1. Range(result.related) \subseteq Spots(result)
  BY DEF Spots
<1>2. \/ Physical(result, location) = {location}
      \/ Physical(result, location) =
           {r \in Range(result.related) : r.physical /\ r.id = location.id /\ r.id # 0}
  BY DEF Physical
<1>3. Physical(result, location) \subseteq Spots(result)
  BY <1>1, <1>2
<1>4. ASSUME \A l, k \in Range(result.related) : l.id = k.id /\ l.id # 0 => l = k,
             NEW l \in Physical(result, location), NEW k \in Physical(result, location)
      PROVE  l = k
  BY <1>2, <1>4
<1> QED
  BY <1>3, <1>4

\* What there is to know of the location that is next.
LEMMA NextLocation ==
    ASSUME Inv, Len(alerts) < Len(setup.results), Len(located) < Len(References(Result))
    PROVE  /\ Declares(Run) /\ RawLocation \in Spots(Result)
           /\ \A l \in Physical(Result, RawLocation) : SaidBy(l.name)
           /\ Result.sound => \A l, k \in Physical(Result, RawLocation) : l = k
<1>1. Types /\ Normalizing
  BY DEF Inv
<1>2. Len(alerts) + 1 \in DOMAIN setup.results
  <2>1. DOMAIN setup.results = 1 .. Len(setup.results) /\ Len(setup.results) \in Nat
    BY <1>1, SetupsAre, Sequences DEF Types
  <2>2. Len(alerts) \in Nat
    BY <1>1, Sequences DEF Normalizing
  <2> QED
    BY <2>1, <2>2
<1>3. /\ Declares(Run) /\ \A l \in Spots(Result) : SaidBy(l.name)
      /\ Result.sound => \A l, k \in Range(Result.related) : l.id = k.id /\ l.id # 0 => l = k
  BY <1>1, <1>2, RunsDeclare DEF Types, Run, Result
<1>4. Shaped(Result)
  BY <1>1, <1>2, ResultsAre DEF Types, Result
<1>5. Len(located) + 1 \in DOMAIN References(Result)
  <2>1. DOMAIN References(Result) = 1 .. Len(References(Result))
        /\ Len(References(Result)) \in Nat
    BY <1>4, ReferencesAre, Sequences
  <2>2. Len(located) \in Nat
    BY <1>1, Sequences DEF Normalizing
  <2> QED
    BY <2>1, <2>2
<1>6. RawLocation \in Spots(Result)
  BY <1>4, <1>5, SpotsAre DEF RawLocation
<1>7. /\ Physical(Result, RawLocation) \subseteq Spots(Result)
      /\ (\A l, k \in Range(Result.related) : l.id = k.id /\ l.id # 0 => l = k) =>
           \A l, k \in Physical(Result, RawLocation) : l = k
  BY <1>6, PlacesOf
<1> QED
  BY <1>3, <1>6, <1>7

\* A path that the resolver gives is what the location means.
LEMMA LocatedIsMeant ==
    ASSUME Inv, Locating, pc = "normalize", Len(alerts) < Len(setup.results),
           Len(located) < Len(References(Result)), Resolution.path # <<>>
    PROVE  /\ Coherent(Run, Resolution.known)
           /\ Means(Run, Result, RawLocation, Resolution.path)
<1> DEFINE place == PlaceOf(Result, RawLocation)
           file == FileOf(Run, Result, RawLocation)
<1>1. /\ Declares(Run) /\ \A l \in Physical(Result, RawLocation) : SaidBy(l.name)
  BY NextLocation
<1>2. /\ Physical(Result, RawLocation) # {}
      /\ ~(place.name.index > Len(Run.artifacts))
  BY PlacelessIs DEF Resolution
<1>3. place \in Physical(Result, RawLocation)
  BY <1>2 DEF PlaceOf
<1>4. SaidBy(place.name) /\ place.name.index <= Len(Run.artifacts)
  <2>1. SaidBy(place.name)
    BY <1>1, <1>3
  <2>2. Len(Run.artifacts) \in Nat /\ place.name.index \in Nat
    BY <1>1, <2>1, Sequences DEF Declares, SaidBy
  <2> QED
    BY <1>2, <2>1, <2>2
<1>5. Coherent(Run, bases)
  BY DEF Locating
<1>6. /\ Coherent(Run, Resolution.known)
      /\ Meaning(Spelling(Run, file)) = {Resolution.path}
  BY <1>1, <1>2, <1>4, <1>5, ResolveIs DEF Resolution
<1>7. place \in Said(Run, Result, RawLocation)
  BY <1>3, <1>4 DEF Said
<1>8. file = NamedFile(Run, place.name)
  BY DEF FileOf
<1> HIDE DEF place, file
<1> QED
  BY <1>6, <1>7, <1>8 DEF Means

\* What a location that is refused means.
Justified ==
    Result.sound =>
       \A said \in Spelled(Result, RawLocation) :
          \/ Len(said.uris) > MaximumDepth + 1
          \/ \A path \in Meaning(said.uris) :
               Content(path) \in {"link", "special"} \/ said.hash \notin {"none", Hash(path)}
          \/ ~Ordered(PhysicalPlace)

\* A location that is refused means nothing, or what it means is not there.
LEMMA RefusedIsJustified ==
    ASSUME Inv, Locating, pc = "normalize", Len(alerts) < Len(setup.results),
           Len(located) < Len(References(Result)),
           ~(/\ Contained(Resolution.path) /\ Confirms(Resolution.path, Resolution.hash)
             /\ Ordered(PhysicalPlace))
    PROVE  Justified
<1> DEFINE place == PlaceOf(Result, RawLocation)
           file == FileOf(Run, Result, RawLocation)
<1> SUFFICES ASSUME Result.sound, NEW said \in Spelled(Result, RawLocation),
                    Ordered(PhysicalPlace)
             PROVE  \/ Len(said.uris) > MaximumDepth + 1
                    \/ \A path \in Meaning(said.uris) :
                         Content(path) \in {"link", "special"} \/ said.hash \notin {"none", Hash(path)}
  BY DEF Justified
<1>1. /\ Declares(Run) /\ \A l \in Physical(Result, RawLocation) : SaidBy(l.name)
      /\ \A l, k \in Physical(Result, RawLocation) : l = k
  BY NextLocation
<1>2. PICK l \in Physical(Result, RawLocation) :
             /\ l.name.index <= Len(Run.artifacts)
             /\ said = [uris |-> Spelling(Run, NamedFile(Run, l.name)),
                        hash |-> NamedFile(Run, l.name).hash]
  BY DEF Spelled, Run
<1>3. place \in Physical(Result, RawLocation)
  BY <1>2 DEF PlaceOf
<1>4. l = place
  BY <1>1, <1>2, <1>3
<1>5. file = NamedFile(Run, place.name)
  BY DEF FileOf
<1> DEFINE e == Spelling(Run, file)
           g == file.hash
<1>6. said = [uris |-> e, hash |-> g]
  BY <1>2, <1>4, <1>5
<1>7. SaidBy(place.name) /\ place.name.index <= Len(Run.artifacts)
  BY <1>1, <1>2, <1>3, <1>4
<1>8. Coherent(Run, bases)
  BY DEF Locating
<1>9. /\ Resolution.path # <<>> =>
           Resolution.hash = file.hash /\ Meaning(Spelling(Run, file)) = {Resolution.path}
      /\ Resolution.path = <<>> =>
           \/ Meaning(Spelling(Run, file)) = {}
           \/ Len(Spelling(Run, file)) > MaximumDepth + 1
  BY <1>1, <1>3, <1>7, <1>8, ResolveIs DEF Resolution
<1>10. /\ Resolution.path # <<>> => Resolution.hash = g /\ Meaning(e) = {Resolution.path}
       /\ Resolution.path = <<>> => Meaning(e) = {} \/ Len(e) > MaximumDepth + 1
  BY <1>9
<1> HIDE DEF e, g, file, place
<1>11. said.uris = e /\ said.hash = g
  BY <1>6
<1>12. CASE Resolution.path = <<>>
  BY <1>10, <1>11, <1>12
<1>13. CASE Resolution.path # <<>>
  <2>1. Resolution.hash = g /\ Meaning(e) = {Resolution.path}
    BY <1>10, <1>13
  <2>2. \/ Content(Resolution.path) \in {"link", "special"}
        \/ g \notin {"none", Hash(Resolution.path)}
    BY <1>13, <2>1 DEF Contained, Confirms
  <2> QED
    BY <1>11, <2>1, <2>2
<1> QED
  BY <1>12, <1>13

\* No place is named yet.
LEMMA LocatingInit == Init => Locating
<1> SUFFICES ASSUME Init
             PROVE  Locating
  OBVIOUS
<1>1. bases = <<>> /\ located = <<>> /\ alerts = <<>> /\ pc = "normalize"
  BY DEF Init
<1>2. DOMAIN <<>> = {}
  BY EmptySequence
<1>3. Coherent(Run, bases)
  BY <1>1, <1>2 DEF Coherent
<1> QED
  BY <1>1, <1>2, <1>3 DEF Locating, RefusalsAreReal

\* A location more, or a refusal.
LEMMA LocateLocates == Inv /\ Locating /\ Locate => Locating'
<1> SUFFICES ASSUME Inv, Locating, Locate
             PROVE  Locating'
  OBVIOUS
<1> DEFINE path == Resolution.path
           at == SourceLocation(PhysicalPlace, path)
           Accepts == /\ Contained(path) /\ Confirms(path, Resolution.hash)
                      /\ Ordered(PhysicalPlace)
<1>1. /\ pc = "normalize" /\ Len(alerts) < Len(setup.results)
      /\ Len(located) < Len(References(Result))
      /\ setup' = setup /\ tree' = tree /\ alerts' = alerts
  BY DEF Locate
<1>2. \A a \in DOMAIN alerts' :
         Truthful(setup'.runs[setup'.results[a].run], setup'.results[a], alerts'[a])
  BY <1>1 DEF Locating
<1>3. CASE ~Accepts
  <2>1. pc' = "refused" /\ located' = located /\ bases' = bases /\ hashes' = hashes
    BY <1>3 DEF Locate
  <2>2. Justified
    BY <1>1, <1>3, RefusedIsJustified
  <2>3. Justified'
    BY <1>1, <2>1, <2>2
       DEF Justified, Result, Run, RawLocation, PhysicalPlace, Spelled, Content, Hash
  <2>4. RefusalsAreReal'
    BY <2>3 DEF Justified, RefusalsAreReal
  <2> QED
    BY <1>2, <2>1, <2>4 DEF Locating
<1>4. CASE Accepts
  <2>1. pc' = pc /\ located' = Append(located, at) /\ bases' = Resolution.known
    BY <1>4 DEF Locate
  <2>2. /\ Coherent(Run, Resolution.known)
        /\ Means(Run, Result, RawLocation, path)
    BY <1>1, <1>4, LocatedIsMeant DEF Contained
  <2>3. at.path = path
    BY DEF SourceLocation
  <2> HIDE DEF at, path
  <2>4. IsSequence(located)
    BY DEF Inv, Normalizing
  <2>5. /\ DOMAIN located' = DOMAIN located \cup {Len(located) + 1}
        /\ located'[Len(located) + 1] = at
        /\ \A i \in DOMAIN located : located'[i] = located[i]
    BY <2>1, <2>4, Grows
  <2>6. \A i \in DOMAIN located :
           Means(Run, Result, References(Result)[i].location, located[i].path)
    BY <1>1 DEF Locating
  <2>7. Means(Run, Result, References(Result)[Len(located) + 1].location,
              located'[Len(located) + 1].path)
    BY <2>2, <2>3, <2>5 DEF RawLocation
  <2>8. \A i \in DOMAIN located' :
           Means(Run, Result, References(Result)[i].location, located'[i].path)
    BY <2>5, <2>6, <2>7
  <2>9. Run' = Run /\ Result' = Result
    BY <1>1 DEF Run, Result
  <2>10. RefusalsAreReal'
    BY <1>1, <2>1 DEF RefusalsAreReal
  <2> QED
    BY <1>1, <1>2, <2>1, <2>2, <2>8, <2>9, <2>10 DEF Locating
<1> QED
  BY <1>3, <1>4

\* An alert more, or a refusal of a result that is not sound.
LEMMA AddAlertLocates == Inv /\ Locating /\ AddAlert => Locating'
<1> SUFFICES ASSUME Inv, Locating, AddAlert
             PROVE  Locating'
  OBVIOUS
<1>1. /\ pc = "normalize" /\ Len(alerts) < Len(setup.results)
      /\ Len(located) = Len(References(Result))
      /\ setup' = setup /\ tree' = tree
  BY DEF AddAlert
<1>2. CASE ~Result.sound
  <2>1. /\ pc' = "refused" /\ located' = located /\ alerts' = alerts
        /\ bases' = bases /\ hashes' = hashes
    BY <1>2 DEF AddAlert, normalizing
  <2>2. ~Result'.sound
    BY <1>1, <1>2, <2>1 DEF Result
  <2>3. RefusalsAreReal'
    BY <2>2 DEF RefusalsAreReal
  <2> QED
    BY <1>1, <2>1, <2>3 DEF Locating
<1>3. CASE Result.sound
  <2> DEFINE alert == NormalizedAlert(Result)
             n == Len(alerts) + 1
  <2>1. /\ alerts' = Append(alerts, alert) /\ NextResolver
        /\ located' = <<>> /\ pc' = pc
    BY <1>3 DEF AddAlert
  <2>2. Types /\ Normalizing
    BY DEF Inv
  <2>3. IsSequence(setup.results) /\ IsSequence(alerts) /\ IsSequence(located)
    BY <2>2, SetupsAre DEF Types, Normalizing
  <2>4. n \in DOMAIN setup.results
    <3>1. /\ DOMAIN setup.results = 1 .. Len(setup.results) /\ Len(setup.results) \in Nat
          /\ Len(alerts) \in Nat
      BY <2>3, Sequences
    <3> QED
      BY <1>1, <3>1
  <2>5. Shaped(Result)
    BY <2>2, <2>4, ResultsAre DEF Types, Result
  <2>6. /\ DOMAIN References(alert) = DOMAIN References(Result)
        /\ \A i \in DOMAIN References(Result) : References(alert)[i].location = located[i]
    <3>1. \A i \in DOMAIN located : Positioned(located[i])
      BY <2>2 DEF Normalizing
    <3> QED
      BY <1>1, <2>3, <2>5, <3>1, NormalizedReferences
  <2>7. DOMAIN located = DOMAIN References(Result)
    <3>1. /\ DOMAIN References(Result) = 1 .. Len(References(Result))
          /\ DOMAIN located = 1 .. Len(located)
      BY <2>3, <2>5, ReferencesAre, Sequences
    <3> QED
      BY <1>1, <3>1
  <2>8. Truthful(Run, Result, alert)
    <3>1. \A i \in DOMAIN located :
             Means(Run, Result, References(Result)[i].location, located[i].path)
      BY <1>1 DEF Locating
    <3> HIDE DEF alert
    <3> QED
      BY <2>6, <2>7, <3>1 DEF Truthful
  <2>9. Run = setup.runs[setup.results[n].run] /\ Result = setup.results[n]
    BY DEF Run, Result
  <2> HIDE DEF alert, n
  <2>10. /\ DOMAIN alerts' = DOMAIN alerts \cup {n} /\ alerts'[n] = alert
         /\ \A a \in DOMAIN alerts : alerts'[a] = alerts[a]
    BY <2>1, <2>3, Grows DEF n
  <2>11. \A a \in DOMAIN alerts' :
            Truthful(setup'.runs[setup'.results[a].run], setup'.results[a], alerts'[a])
    <3>1. \A a \in DOMAIN alerts :
             Truthful(setup.runs[setup.results[a].run], setup.results[a], alerts[a])
      BY DEF Locating
    <3> QED
      BY <1>1, <2>8, <2>9, <2>10, <3>1
  <2>12. DOMAIN located' = {}
    BY <2>1, EmptySequence
  <2>13. Len(alerts') < Len(setup'.results) => Coherent(Run', bases')
    <3> SUFFICES ASSUME Len(alerts') < Len(setup.results)
                 PROVE  Coherent(Run', bases')
      BY <1>1
    <3>1. CASE setup.results[Len(alerts') + 1].run = Result.run
      <4>1. bases' = bases
        BY <2>1, <3>1 DEF NextResolver
      <4>2. Run' = Run
        BY <1>1, <3>1 DEF Run, Result
      <4>3. Coherent(Run, bases)
        BY <1>1 DEF Locating
      <4> QED
        BY <4>1, <4>2, <4>3
    <3>2. CASE setup.results[Len(alerts') + 1].run # Result.run
      <4>1. bases' = <<>>
        BY <2>1, <3>2 DEF NextResolver
      <4> QED
        BY <4>1, EmptySequence DEF Coherent
    <3> QED
      BY <3>1, <3>2
  <2>14. RefusalsAreReal'
    BY <1>1, <2>1 DEF RefusalsAreReal
  <2> QED
    BY <1>1, <2>1, <2>11, <2>12, <2>13, <2>14 DEF Locating
<1> QED
  BY <1>2, <1>3

\* After the normalizer nothing is located or refused for its place.
LEMMA LaterLocates ==
    ASSUME Locating, IsSequence(alerts), setup' = setup, alerts' = alerts,
           Len(alerts) = Len(setup.results), pc' # "normalize"
    PROVE  Locating'
<1>1. \A a \in DOMAIN alerts' :
         Truthful(setup'.runs[setup'.results[a].run], setup'.results[a], alerts'[a])
  BY DEF Locating
<1>2. ~(Len(alerts) < Len(setup.results))
  <2>1. Len(alerts) \in Nat
    BY Sequences
  <2> QED
    BY <2>1
<1>3. RefusalsAreReal'
  BY <1>2 DEF RefusalsAreReal
<1> QED
  BY <1>1, <1>2, <1>3 DEF Locating

\* Every step keeps it.
LEMMA LocatingNext == Inv /\ Locating /\ [Next]_vars => Locating'
<1> SUFFICES ASSUME Inv, Locating, [Next]_vars
             PROVE  Locating'
  OBVIOUS
<1>0. IsSequence(alerts)
  BY DEF Inv, Normalizing
<1>1. CASE UNCHANGED vars
  <2>1. /\ setup' = setup /\ tree' = tree /\ bases' = bases /\ hashes' = hashes
        /\ located' = located /\ alerts' = alerts /\ pc' = pc
    BY <1>1 DEF vars, normalizing
  <2>2. Run' = Run /\ Result' = Result
    BY <2>1 DEF Run, Result
  <2>3. RefusalsAreReal'
    <3>1. RefusalsAreReal
      BY DEF Locating
    <3> QED
      BY <2>1, <3>1 DEF RefusalsAreReal, Result, Run, RawLocation, PhysicalPlace,
                        Spelled, Content, Hash
  <2> QED
    BY <2>1, <2>2, <2>3 DEF Locating
<1>2. CASE Locate
  BY <1>2, LocateLocates
<1>3. CASE AddAlert
  BY <1>3, AddAlertLocates
<1>4. CASE Normalize
  <2>1. /\ setup' = setup /\ alerts' = alerts /\ Len(alerts) = Len(setup.results)
        /\ pc' # "normalize"
    BY <1>4 DEF Normalize, normalizing
  <2> QED
    BY <1>0, <2>1, LaterLocates
<1>5. CASE TakeReference \/ BuildAlert \/ Register \/ Merge
  <2>1. /\ setup' = setup /\ alerts' = alerts /\ pc' # "normalize"
        /\ pc \in {"slice", "register", "merge"}
    BY <1>5 DEF TakeReference, BuildAlert, Register, Merge, normalizing
  <2>2. Len(alerts) = Len(setup.results)
    BY <2>1 DEF Locating
  <2> QED
    BY <1>0, <2>1, <2>2, LaterLocates
<1>6. CASE \E p \in Paths, c \in InitialContents : Change(p, c)
  <2>1. /\ setup' = setup /\ bases' = bases /\ located' = located /\ alerts' = alerts
        /\ pc' = pc /\ pc \in {"normalize", "slice"}
    BY <1>6 DEF Change, normalizing
  <2>2. Run' = Run /\ Result' = Result
    BY <2>1 DEF Run, Result
  <2>3. RefusalsAreReal'
    BY <2>1 DEF RefusalsAreReal
  <2> QED
    BY <2>1, <2>2, <2>3 DEF Locating
<1> QED
  BY <1>1, <1>2, <1>3, <1>4, <1>5, <1>6 DEF Next

\* A location gets the path it means, whatever was resolved before it, and is
\* refused only when it means none, is nested too deep, ends before it begins,
\* or names a link or a file that is not the one that was analyzed.
THEOREM LocationsAreTrue == Spec => []LocationsMeanWhatTheyName
<1>1. Init => Inv /\ Locating
  BY InvInit, LocatingInit
<1>2. (Inv /\ Locating) /\ [Next]_vars => (Inv /\ Locating)'
  BY InvNext, LocatingNext
<1>3. Inv /\ Locating => LocationsMeanWhatTheyName
  BY LocatingIsTrue
<1> QED
  BY <1>1, <1>2, <1>3, PTL DEF Spec

=============================================================================
