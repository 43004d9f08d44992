---------------------------- MODULE SequenceFacts ----------------------------
(***************************************************************************)
(* What the proofs about converters need to know of sequences: induction   *)
(* over numbers and over sequences, stated for a set in place of a         *)
(* predicate, and what Filter keeps, in which order.                       *)
(***************************************************************************)
EXTENDS Filters, SequencesExt, SequenceTheorems, WellFoundedInduction, TLAPS

(* A set of naturals that is not empty has a least element.                *)
LEMMA LeastNatural ==
  ASSUME NEW T \in SUBSET Nat, T # {}
  PROVE  \E n \in T : \A m \in T : n <= m
<1> DEFINE R == OpToRel(<, Nat)
<1>1. \E x \in T : \A y \in T : ~ (<<y, x>> \in R)
  BY NatLessThanWellFounded, WFMin
<1>2. \A x, y \in Nat : y < x => <<y, x>> \in R
  BY DEF OpToRel
<1>3. \E x \in T : \A y \in T : ~ (y < x)
  BY <1>1, <1>2, Zenon
<1> QED
  BY <1>3

(* Induction: a set with 0 and with n + 1 for each n has every natural.    *)
LEMMA NaturalsBySteps ==
  ASSUME NEW T, 0 \in T, \A n \in Nat : n \in T => n + 1 \in T
  PROVE  Nat \subseteq T
<1> DEFINE Missing == Nat \ T
<1>1. SUFFICES ASSUME Missing # {} PROVE FALSE
  OBVIOUS
<1>2. PICK n \in Missing : \A m \in Missing : n <= m
  BY <1>1, LeastNatural
<1>3. n # 0 /\ n - 1 \in Nat /\ n - 1 \notin Missing
  BY <1>2
<1> QED
  BY <1>2, <1>3

(* Induction: a set with <<>>, and with each sequence every longer by one. *)
LEMMA SequencesBySteps ==
  ASSUME NEW E, NEW T, <<>> \in T,
         \A s \in Seq(E), e \in E : s \in T => Append(s, e) \in T
  PROVE  Seq(E) \subseteq T
<1> DEFINE N == {n \in Nat : \A s \in Seq(E) : Len(s) = n => s \in T}
<1>1. 0 \in N
  <2> SUFFICES ASSUME NEW s \in Seq(E), Len(s) = 0 PROVE s \in T
    OBVIOUS
  <2>1. s = <<>>
    BY EmptySeq
  <2> QED
    BY <2>1
<1>2. ASSUME NEW n \in Nat, n \in N PROVE n + 1 \in N
  <2> SUFFICES ASSUME NEW s \in Seq(E), Len(s) = n + 1 PROVE s \in T
    OBVIOUS
  <2>1. s # <<>>
    OBVIOUS
  <2>2. PICK t \in Seq(E), e \in E : s = Append(t, e)
    BY <2>1, SequenceEmptyOrAppend
  <2>3. Len(t) = n
    BY <2>2
  <2> QED
    BY <1>2, <2>2, <2>3
<1>3. Nat \subseteq N
  BY <1>1, <1>2, NaturalsBySteps
<1> QED
  BY <1>3

(* k is what the recursive function in Filter(s, S) is meant to be.        *)
Kept(s, S, k) ==
  k = [i \in 0..Len(s) |->
         IF i = 0 THEN <<>>
         ELSE IF s[i] \in S THEN Append(k[i - 1], s[i]) ELSE k[i - 1]]

(* It grows by what is in the set.                                         *)
LEMMA KeptSteps ==
  ASSUME NEW E, NEW s \in Seq(E), NEW S, NEW k, Kept(s, S, k)
  PROVE  /\ k[0] = <<>>
         /\ \A i \in 1..Len(s) : s[i] \in S => k[i] = Append(k[i - 1], s[i])
         /\ \A i \in 1..Len(s) : s[i] \notin S => k[i] = k[i - 1]
<1>1. k[0] = <<>>
  BY DEF Kept
<1>2. ASSUME NEW i \in 1..Len(s)
      PROVE  /\ s[i] \in S => k[i] = Append(k[i - 1], s[i])
             /\ s[i] \notin S => k[i] = k[i - 1]
  <2>1. i \in 0..Len(s) /\ i # 0
    OBVIOUS
  <2>2. k[i] = IF s[i] \in S THEN Append(k[i - 1], s[i]) ELSE k[i - 1]
    BY <2>1 DEF Kept
  <2> QED
    BY <2>2
<1> QED
  BY <1>1, <1>2

(* What is not in the set adds nothing to it.                              *)
LEMMA KeptGap ==
  ASSUME NEW E, NEW s \in Seq(E), NEW S, NEW k, Kept(s, S, k),
         NEW a \in 0..Len(s), NEW b \in a..Len(s), \A i \in (a + 1)..b : s[i] \notin S
  PROVE  k[b] = k[a]
<1> DEFINE T == {n \in Nat : n <= b - a => k[a + n] = k[a]}
<1>1. 0 \in T
  OBVIOUS
<1>2. ASSUME NEW n \in Nat, n \in T PROVE n + 1 \in T
  <2> SUFFICES ASSUME n + 1 <= b - a PROVE k[a + (n + 1)] = k[a]
    OBVIOUS
  <2>1. a + (n + 1) \in (a + 1)..b /\ a + (n + 1) \in 1..Len(s) /\ (a + (n + 1)) - 1 = a + n
    OBVIOUS
  <2>2. k[a + (n + 1)] = k[(a + (n + 1)) - 1]
    BY <2>1, KeptSteps
  <2> QED
    BY <1>2, <2>1, <2>2
<1>3. Nat \subseteq T
  BY <1>1, <1>2, NaturalsBySteps
<1>4. b - a \in Nat /\ a + (b - a) = b /\ b - a <= b - a
  OBVIOUS
<1>5. b - a \in T
  BY <1>3, <1>4
<1> QED
  BY <1>4, <1>5

(* b is the first place after a with an element in the set.                *)
Follows(s, S, a, b) ==
  /\ a \in 0..Len(s) /\ b \in 1..Len(s) /\ a < b
  /\ \A i \in 1..Len(s) : a < i /\ i < b => s[i] \notin S
  /\ s[b] \in S

(* After what is not in the set comes the next that is.                    *)
LEMMA KeptNext ==
  ASSUME NEW E, NEW s \in Seq(E), NEW S, NEW k, Kept(s, S, k), NEW a, NEW b, Follows(s, S, a, b)
  PROVE  k[b] = Append(k[a], s[b])
<1>1. /\ a \in 0..Len(s) /\ b \in 1..Len(s) /\ b - 1 \in a..Len(s) /\ s[b] \in S
      /\ \A i \in (a + 1)..(b - 1) : s[i] \notin S
  BY DEF Follows
<1>2. k[b - 1] = k[a]
  BY <1>1, KeptGap
<1>3. k[b] = Append(k[b - 1], s[b])
  BY <1>1, KeptSteps
<1> QED
  BY <1>2, <1>3

(* There is such a function, so that the definition of Filter has a value. *)
LEMMA KeptExists ==
  ASSUME NEW E, NEW s \in Seq(E), NEW S
  PROVE  \E k : Kept(s, S, k)
<1> DEFINE T == {t \in Seq(E) : \E k : Kept(t, S, k)}
<1>1. <<>> \in T
  <2>1. Kept(<<>>, S, [i \in 0..0 |-> <<>>])
    BY DEF Kept
  <2> QED
    BY <2>1
<1>2. ASSUME NEW t \in Seq(E), NEW e \in E, t \in T PROVE Append(t, e) \in T
  <2>1. PICK k : Kept(t, S, k)
    BY <1>2
  <2> DEFINE n == Len(t)
             q == [i \in 0..(n + 1) |-> IF i <= n THEN k[i]
                      ELSE IF e \in S THEN Append(k[n], e) ELSE k[n]]
  <2>2. n \in Nat /\ Len(Append(t, e)) = n + 1 /\ Append(t, e)[n + 1] = e
        /\ \A i \in 1..n : Append(t, e)[i] = t[i]
    OBVIOUS
  <2>3. \A i \in 0..n : k[i] = IF i = 0 THEN <<>>
         ELSE IF t[i] \in S THEN Append(k[i - 1], t[i]) ELSE k[i - 1]
    BY <2>1 DEF Kept
  <2>4. Kept(Append(t, e), S, q)
    <3>1. \A i \in 0..(n+1) : q[i] = IF i = 0 THEN <<>>
         ELSE IF Append(t, e)[i] \in S THEN Append(q[i - 1], Append(t, e)[i]) ELSE q[i - 1]
      BY <2>2, <2>3
    <3> HIDE DEF q
    <3>2. q = [i \in 0..(n+1) |-> q[i]] BY DEF q
    <3> QED BY <2>2, <3>1, <3>2 DEF Kept
  <2> QED
    BY <2>4
<1>3. Seq(E) \subseteq T
  BY <1>1, <1>2, SequencesBySteps
<1> QED
  BY <1>3

(* What is kept of the beginning of a sequence is decided there.           *)
LEMMA KeptAgree ==
  ASSUME NEW E, NEW s \in Seq(E), NEW t \in Seq(E), NEW S, NEW k, NEW q, Kept(s, S, k), Kept(t, S, q),
         Len(s) <= Len(t), \A i \in 1..Len(s) : t[i] = s[i]
  PROVE  \A i \in 0..Len(s) : k[i] = q[i]
<1> DEFINE N == {n \in Nat : n <= Len(s) => k[n] = q[n]}
<1>1. 0 \in N
  BY DEF Kept
<1>2. ASSUME NEW n \in Nat, n \in N PROVE n + 1 \in N
  <2> SUFFICES ASSUME n + 1 <= Len(s) PROVE k[n + 1] = q[n + 1]
    OBVIOUS
  <2>1. n + 1 \in 0..Len(s) /\ n + 1 \in 0..Len(t) /\ n + 1 # 0 /\ (n + 1) - 1 = n
    OBVIOUS
  <2>2. k[n + 1] = IF s[n + 1] \in S THEN Append(k[n], s[n + 1]) ELSE k[n]
    BY <2>1 DEF Kept
  <2>3. q[n + 1] = IF t[n + 1] \in S THEN Append(q[n], t[n + 1]) ELSE q[n]
    BY <2>1 DEF Kept
  <2> QED
    BY <1>2, <2>1, <2>2, <2>3
<1>3. Nat \subseteq N
  BY <1>1, <1>2, NaturalsBySteps
<1> QED
  BY <1>3

(* Filter is the last value of such a function.                            *)
LEMMA FilterIsKept ==
  ASSUME NEW E, NEW s \in Seq(E), NEW S
  PROVE  \E k : Kept(s, S, k) /\ Filter(s, S) = k[Len(s)]
<1>1. Filter(s, S) = (CHOOSE k : Kept(s, S, k))[Len(s)]
  BY DEF Filter, Kept
<1> QED
  BY <1>1, KeptExists

(* Nothing is kept of nothing.                                             *)
LEMMA FilterEmpty == \A S : Filter(<<>>, S) = <<>>
<1> SUFFICES ASSUME NEW S PROVE Filter(<<>>, S) = <<>>
  OBVIOUS
<1>0. <<>> \in Seq({})
  OBVIOUS
<1>1. PICK k : Kept(<<>>, S, k) /\ Filter(<<>>, S) = k[Len(<<>>)]
  BY <1>0, FilterIsKept
<1> QED
  BY <1>1 DEF Kept

(* The last element is kept, last, exactly if it is in the set.            *)
LEMMA FilterAppend ==
  ASSUME NEW E, NEW s \in Seq(E), NEW e \in E, NEW S
  PROVE  Filter(Append(s, e), S) =
           IF e \in S THEN Append(Filter(s, S), e) ELSE Filter(s, S)
<1> DEFINE t == Append(s, e)
           n == Len(s)
<1>0. t \in Seq(E) /\ n \in Nat /\ Len(t) = n + 1 /\ t[n + 1] = e
      /\ \A i \in 1..n : t[i] = s[i]
  OBVIOUS
<1> HIDE DEF t
<1>1. PICK k : Kept(s, S, k) /\ Filter(s, S) = k[n]
  BY FilterIsKept
<1>2. PICK q : Kept(t, S, q) /\ Filter(t, S) = q[Len(t)]
  BY <1>0, FilterIsKept
<1>3. k[n] = q[n]
  BY <1>0, <1>1, <1>2, KeptAgree
<1>4. n + 1 \in 0..Len(t) /\ n + 1 # 0 /\ (n + 1) - 1 = n
  BY <1>0
<1>5. q[n + 1] = IF t[n + 1] \in S THEN Append(q[n], t[n + 1]) ELSE q[n]
  BY <1>2, <1>4 DEF Kept
<1> QED
  BY <1>0, <1>1, <1>2, <1>3, <1>5 DEF t

(* The empty sequence is one over any set.                                 *)
LEMMA EmptyIsSeq == \A E : <<>> \in Seq(E)
  OBVIOUS

(* Filter makes a sequence of a sequence.                                  *)
LEMMA FilterType ==
  ASSUME NEW E, NEW s \in Seq(E), NEW S
  PROVE  Filter(s, S) \in Seq(E)
<1> DEFINE T == {t \in Seq(E) : Filter(t, S) \in Seq(E)}
<1>1. <<>> \in T
  BY EmptyIsSeq, FilterEmpty, Zenon
<1>2. ASSUME NEW t \in Seq(E), NEW e \in E, t \in T PROVE Append(t, e) \in T
  <2>1. Filter(Append(t, e), S) = IF e \in S THEN Append(Filter(t, S), e) ELSE Filter(t, S)
    BY FilterAppend
  <2> QED
    BY <1>2, <2>1
<1>3. Seq(E) \subseteq T
  BY <1>1, <1>2, SequencesBySteps
<1> QED
  BY <1>3

(* Two sequences behind one another are filtered one by one.               *)
LEMMA FilterConcat ==
  ASSUME NEW E, NEW s \in Seq(E), NEW t \in Seq(E), NEW S
  PROVE  Filter(s \o t, S) = Filter(s, S) \o Filter(t, S)
<1> DEFINE T == {u \in Seq(E) : Filter(s \o u, S) = Filter(s, S) \o Filter(u, S)}
<1>0. Filter(s, S) \in Seq(E)
  BY FilterType
<1>1. <<>> \in T
  <2>1. s \o <<>> = s /\ Filter(s, S) \o <<>> = Filter(s, S)
    BY <1>0, ConcatEmptySeq
  <2> QED
    BY <2>1, EmptyIsSeq, FilterEmpty, Zenon
<1>2. ASSUME NEW u \in Seq(E), NEW e \in E, u \in T PROVE Append(u, e) \in T
  <2>1. Filter(Append(u, e), S) = IF e \in S THEN Append(Filter(u, S), e) ELSE Filter(u, S)
    BY FilterAppend
  <2>2. s \o Append(u, e) = Append(s \o u, e) /\ s \o u \in Seq(E)
    OBVIOUS
  <2>3. Filter(Append(s \o u, e), S) = IF e \in S THEN Append(Filter(s \o u, S), e) ELSE Filter(s \o u, S)
    BY <2>2, FilterAppend
  <2>4. Filter(u, S) \in Seq(E)
    BY FilterType
  <2>5. ASSUME NEW a \in Seq(E), NEW b \in Seq(E)
        PROVE  a \o Append(b, e) = Append(a \o b, e)
    OBVIOUS
  <2>6. Append(Filter(s, S) \o Filter(u, S), e) = Filter(s, S) \o Append(Filter(u, S), e)
    BY <1>0, <2>4, <2>5, Zenon
  <2>7. Append(u, e) \in Seq(E)
    OBVIOUS
  <2> QED
    BY <1>2, <2>1, <2>2, <2>3, <2>6, <2>7, Zenon
<1>3. Seq(E) \subseteq T
  BY <1>1, <1>2, SequencesBySteps
<1> QED
  BY <1>3

(* All is kept, in place, if all of it is in the set.                      *)
LEMMA FilterAll ==
  ASSUME NEW E, NEW s \in Seq(E), NEW S, \A i \in 1..Len(s) : s[i] \in S
  PROVE  Filter(s, S) = s
<1> DEFINE T == {t \in Seq(E) : (\A i \in 1..Len(t) : t[i] \in S) => Filter(t, S) = t}
<1>1. <<>> \in T
  BY FilterEmpty
<1>2. ASSUME NEW t \in Seq(E), NEW e \in E, t \in T PROVE Append(t, e) \in T
  <2>0. Append(t, e) \in Seq(E)
    OBVIOUS
  <2> SUFFICES ASSUME \A i \in 1..Len(Append(t, e)) : Append(t, e)[i] \in S
               PROVE  Filter(Append(t, e), S) = Append(t, e)
    BY <2>0, Zenon
  <2>1. e \in S /\ \A i \in 1..Len(t) : t[i] \in S
    OBVIOUS
  <2> QED
    BY <1>2, <2>1, FilterAppend
<1>3. Seq(E) \subseteq T
  BY <1>1, <1>2, SequencesBySteps
<1> QED
  BY <1>3

(* Nothing is kept if nothing is in the set.                               *)
LEMMA FilterNone ==
  ASSUME NEW E, NEW s \in Seq(E), NEW S, \A i \in 1..Len(s) : s[i] \notin S
  PROVE  Filter(s, S) = <<>>
<1> DEFINE T == {t \in Seq(E) : (\A i \in 1..Len(t) : t[i] \notin S) => Filter(t, S) = <<>>}
<1>1. <<>> \in T
  BY FilterEmpty
<1>2. ASSUME NEW t \in Seq(E), NEW e \in E, t \in T PROVE Append(t, e) \in T
  <2>0. Append(t, e) \in Seq(E)
    OBVIOUS
  <2> SUFFICES ASSUME \A i \in 1..Len(Append(t, e)) : Append(t, e)[i] \notin S
               PROVE  Filter(Append(t, e), S) = <<>>
    BY <2>0, Zenon
  <2>1. e \notin S /\ \A i \in 1..Len(t) : t[i] \notin S
    OBVIOUS
  <2> QED
    BY <1>2, <2>1, FilterAppend
<1>3. Seq(E) \subseteq T
  BY <1>1, <1>2, SequencesBySteps
<1> QED
  BY <1>3

(* What is between two sequences of which nothing is kept.                 *)
LEMMA FilterThree ==
  ASSUME NEW E, NEW S, NEW u \in Seq(E), NEW v \in Seq(E), NEW w \in Seq(E)
  PROVE  Filter(u \o v \o w, S) = Filter(u, S) \o Filter(v, S) \o Filter(w, S)
<1>1. Filter(u \o v, S) = Filter(u, S) \o Filter(v, S)
  BY FilterConcat
<1>2. u \o v \in Seq(E)
  OBVIOUS
<1>3. PICK a \in Seq(E) : a = u \o v
  BY <1>2, Zenon
<1>4. Filter(a \o w, S) = Filter(a, S) \o Filter(w, S)
  BY FilterConcat, SMTT(30)
<1> QED
  BY <1>1, <1>3, <1>4, Zenon

LEMMA FilterMiddle ==
  ASSUME NEW E, NEW S, NEW x \in Seq(E), NEW y \in Seq(E), NEW z \in Seq(E),
         \A k \in 1..Len(x) : x[k] \notin S,
         \A k \in 1..Len(y) : y[k] \in S,
         \A k \in 1..Len(z) : z[k] \notin S
  PROVE  Filter((x \o y) \o z, S) = y
<1>1. Filter(x, S) = <<>> /\ Filter(z, S) = <<>> /\ Filter(y, S) = y
  BY FilterAll, FilterNone
<1>2. Filter((x \o y) \o z, S) = (Filter(x, S) \o Filter(y, S)) \o Filter(z, S)
  BY FilterThree, SMTT(30)
<1>3. <<>> \o y = y /\ y \o <<>> = y
  BY ConcatEmptySeq
<1> QED
  BY <1>1, <1>2, <1>3, Zenon

(* What is kept is what was there and is in the set.                       *)
LEMMA FilterRange ==
  ASSUME NEW E, NEW s \in Seq(E), NEW S
  PROVE  Range(Filter(s, S)) = Range(s) \cap S
<1> DEFINE T == {t \in Seq(E) : Range(Filter(t, S)) = Range(t) \cap S}
<1>1. <<>> \in T
  BY FilterEmpty DEF Range
<1>2. ASSUME NEW t \in Seq(E), NEW e \in E, t \in T PROVE Append(t, e) \in T
  <2>1. \A u \in Seq(E) : Range(Append(u, e)) = Range(u) \cup {e}
    <3> SUFFICES ASSUME NEW u \in Seq(E) PROVE Range(Append(u, e)) = Range(u) \cup {e}
      OBVIOUS
    <3>1. DOMAIN u = 1..Len(u) /\ DOMAIN Append(u, e) = 1..(Len(u) + 1) /\ Len(u) \in Nat
      OBVIOUS
    <3>2. \A i \in 1..Len(u) : Append(u, e)[i] = u[i]
      OBVIOUS
    <3>3. Append(u, e)[Len(u) + 1] = e
      OBVIOUS
    <3> QED
      BY <3>1, <3>2, <3>3 DEF Range
  <2>2. Filter(Append(t, e), S) = IF e \in S THEN Append(Filter(t, S), e) ELSE Filter(t, S)
    BY FilterAppend
  <2>3. Filter(t, S) \in Seq(E) /\ Append(t, e) \in Seq(E)
    BY FilterType
  <2>4. Range(Append(t, e)) = Range(t) \cup {e}
    BY <2>1
  <2>5. Range(Append(Filter(t, S), e)) = Range(Filter(t, S)) \cup {e}
    BY <2>1, <2>3
  <2>6. Range(Filter(Append(t, e), S)) = Range(Append(t, e)) \cap S
    <3>1. CASE e \in S
      BY <1>2, <2>2, <2>4, <2>5, <3>1
    <3>2. CASE e \notin S
      BY <1>2, <2>2, <2>4, <2>5, <3>2
    <3> QED
      BY <3>1, <3>2
  <2> QED
    BY <2>3, <2>6
<1>3. Seq(E) \subseteq T
  BY <1>1, <1>2, SequencesBySteps
<1> QED
  BY <1>3

(* What occurred once is not kept twice.                                   *)
LEMMA FilterInjective ==
  ASSUME NEW E, NEW s \in Seq(E), NEW S, IsInjective(s)
  PROVE  IsInjective(Filter(s, S))
<1> DEFINE T == {t \in Seq(E) : IsInjective(t) => IsInjective(Filter(t, S))}
<1>1. <<>> \in T
  BY FilterEmpty DEF IsInjective
<1>2. ASSUME NEW t \in Seq(E), NEW e \in E, t \in T PROVE Append(t, e) \in T
  <2> SUFFICES ASSUME IsInjective(Append(t, e)) PROVE IsInjective(Filter(Append(t, e), S))
    OBVIOUS
  <2>0. DOMAIN t = 1..Len(t) /\ DOMAIN Append(t, e) = 1..(Len(t) + 1) /\ Len(t) \in Nat
        /\ (\A i \in 1..Len(t) : Append(t, e)[i] = t[i]) /\ Append(t, e)[Len(t) + 1] = e
    OBVIOUS
  <2>1. IsInjective(t) /\ e \notin Range(t)
    BY <2>0 DEF IsInjective, Range
  <2>2. Filter(Append(t, e), S) = IF e \in S THEN Append(Filter(t, S), e) ELSE Filter(t, S)
    BY FilterAppend
  <2> DEFINE u == Filter(t, S)
  <2>3. u \in Seq(E) /\ e \notin Range(u) /\ IsInjective(u)
    BY <1>2, <2>1, FilterType, FilterRange
  <2> HIDE DEF u
  <2>4. DOMAIN u = 1..Len(u) /\ DOMAIN Append(u, e) = 1..(Len(u) + 1) /\ Len(u) \in Nat
        /\ (\A i \in 1..Len(u) : Append(u, e)[i] = u[i]) /\ Append(u, e)[Len(u) + 1] = e
    BY <2>3
  <2>5. IsInjective(Append(u, e))
    BY <2>3, <2>4 DEF IsInjective, Range
  <2> QED
    BY <2>2, <2>3, <2>5 DEF u
<1>3. Seq(E) \subseteq T
  BY <1>1, <1>2, SequencesBySteps
<1> QED
  BY <1>3

(* A beginning that is in the set stays the beginning.                     *)
LEMMA FilterPrefix ==
  ASSUME NEW E, NEW s \in Seq(E), NEW S, NEW n \in 0..Len(s),
         \A i \in 1..n : s[i] \in S
  PROVE  /\ Filter(s, S) \in Seq(E)
         /\ n <= Len(Filter(s, S))
         /\ \A i \in 1..n : Filter(s, S)[i] = s[i]
<1> DEFINE p == SubSeq(s, 1, n)
           q == SubSeq(s, n + 1, Len(s))
           f == Filter(q, S)
<1>1. /\ n \in Nat /\ Len(s) \in Nat
      /\ p \in Seq(E) /\ Len(p) = n /\ \A i \in 1..n : p[i] = s[i]
      /\ q \in Seq(E)
  OBVIOUS
<1>2. p \o q = s
  <2>1. SubSeq(s, 1, n) \o SubSeq(s, n + 1, Len(s)) = SubSeq(s, 1, Len(s))
    <3>1. 1 \in 1..(Len(s) + 1) /\ n \in (1 - 1)..Len(s) /\ Len(s) \in n..Len(s)
      BY <1>1
    <3> QED
      BY <3>1, ConcatAdjacentSubSeq, Zenon
  <2>2. SubSeq(s, 1, Len(s)) = s
    BY SubSeqFull
  <2> QED
    BY <2>1, <2>2, Zenon
<1> HIDE DEF p, q
<1>3. f \in Seq(E)
  BY <1>1, FilterType
<1>4. Filter(p, S) = p
  BY <1>1, FilterAll
<1>5. Filter(s, S) = p \o f
  <2>1. Filter(p \o q, S) = Filter(p, S) \o Filter(q, S)
    BY <1>1, FilterConcat
  <2> QED
    BY <1>2, <1>4, <2>1, Zenon
<1>6. ASSUME NEW a \in Seq(E), NEW b \in Seq(E)
      PROVE  /\ a \o b \in Seq(E)
             /\ Len(a \o b) = Len(a) + Len(b)
             /\ \A i \in 1..Len(a) : (a \o b)[i] = a[i]
  OBVIOUS
<1> HIDE DEF f
<1>7. /\ p \o f \in Seq(E)
      /\ Len(p \o f) = n + Len(f)
      /\ \A i \in 1..n : (p \o f)[i] = s[i]
  BY <1>1, <1>3, <1>6
<1>8. Len(f) \in Nat
  BY <1>3
<1> QED
  BY <1>1, <1>5, <1>7, <1>8

(* Keeping some of what was kept is keeping what is in both sets.          *)
LEMMA FilterTwice ==
  ASSUME NEW E, NEW s \in Seq(E), NEW S, NEW U
  PROVE  Filter(Filter(s, S), U) = Filter(s, S \cap U)
<1> DEFINE T == {t \in Seq(E) : Filter(Filter(t, S), U) = Filter(t, S \cap U)}
<1>1. <<>> \in T
  BY EmptyIsSeq, FilterEmpty, Zenon
<1>2. ASSUME NEW t \in Seq(E), NEW e \in E, t \in T PROVE Append(t, e) \in T
  <2>1. Append(t, e) \in Seq(E) /\ Filter(t, S) \in Seq(E)
    BY FilterType
  <2>2. Filter(Append(t, e), S) = IF e \in S THEN Append(Filter(t, S), e) ELSE Filter(t, S)
    BY FilterAppend
  <2>3. Filter(Append(t, e), S \cap U)
          = IF e \in S \cap U THEN Append(Filter(t, S \cap U), e) ELSE Filter(t, S \cap U)
    BY FilterAppend
  <2>4. Filter(Append(Filter(t, S), e), U)
          = IF e \in U THEN Append(Filter(Filter(t, S), U), e) ELSE Filter(Filter(t, S), U)
    BY <2>1, FilterAppend
  <2>5. Filter(Filter(Append(t, e), S), U) = Filter(Append(t, e), S \cap U)
    <3>1. Filter(Filter(t, S), U) = Filter(t, S \cap U)
      BY <1>2
    <3>2. e \in S \cap U <=> e \in S /\ e \in U
      OBVIOUS
    <3>3. CASE e \in S /\ e \in U
      BY <2>2, <2>3, <2>4, <3>1, <3>2, <3>3, Zenon
    <3>4. CASE e \in S /\ e \notin U
      BY <2>2, <2>3, <2>4, <3>1, <3>2, <3>4, Zenon
    <3>5. CASE e \notin S
      BY <2>2, <2>3, <3>1, <3>2, <3>5, Zenon
    <3> QED
      BY <3>3, <3>4, <3>5
  <2> QED
    BY <2>1, <2>5
<1>3. Seq(E) \subseteq T
  BY <1>1, <1>2, SequencesBySteps
<1> QED
  BY <1>3

(* What is not in the sequence makes no difference to the set.             *)
LEMMA FilterOwn ==
  ASSUME NEW E, NEW s \in Seq(E), NEW S
  PROVE  Filter(s, S) = Filter(s, Range(s) \cap S)
<1>1. \A i \in 1..Len(s) : s[i] \in Range(s)
  BY DEF Range
<1>2. Filter(s, Range(s)) = s
  BY <1>1, FilterAll
<1>3. Filter(Filter(s, Range(s)), S) = Filter(s, Range(s) \cap S)
  BY FilterTwice
<1> QED
  BY <1>2, <1>3, Zenon


-----------------------------------------------------------------------------
(* f is what the recursive function in FlattenSeq(ss) is meant to be.      *)
Flattening(ss, f) ==
  f = [i \in 1..Len(ss) |-> IF i = 1 THEN ss[i] ELSE f[i - 1] \o ss[i]]

(* There is such a function.                                               *)
LEMMA FlatteningExists ==
  ASSUME NEW E, NEW ss \in Seq(E)
  PROVE  \E f : Flattening(ss, f)
<1> DEFINE T == {t \in Seq(E) : \E f : Flattening(t, f)}
<1>1. <<>> \in T
  <2>1. Flattening(<<>>, [i \in 1..0 |-> <<>>])
    BY DEF Flattening
  <2> QED
    BY <2>1
<1>2. ASSUME NEW t \in Seq(E), NEW e \in E, t \in T PROVE Append(t, e) \in T
  <2>1. PICK f : Flattening(t, f)
    BY <1>2
  <2> DEFINE n == Len(t)
             g == [i \in 1..(n + 1) |-> IF i <= n THEN f[i]
                     ELSE IF n = 0 THEN e ELSE f[n] \o e]
  <2>2. n \in Nat /\ Len(Append(t, e)) = n + 1 /\ Append(t, e)[n + 1] = e
        /\ \A i \in 1..n : Append(t, e)[i] = t[i]
    OBVIOUS
  <2>3. \A i \in 1..n : f[i] = IF i = 1 THEN t[i] ELSE f[i - 1] \o t[i]
    BY <2>1 DEF Flattening
  <2>4. Flattening(Append(t, e), g)
    <3>1. \A i \in 1..(n + 1) :
            g[i] = IF i = 1 THEN Append(t, e)[i] ELSE g[i - 1] \o Append(t, e)[i]
      BY <2>2, <2>3
    <3> HIDE DEF g
    <3>2. g = [i \in 1..(n + 1) |-> g[i]]
      BY DEF g
    <3> QED
      BY <2>2, <3>1, <3>2 DEF Flattening
  <2> QED
    BY <2>4
<1>3. Seq(E) \subseteq T
  BY <1>1, <1>2, SequencesBySteps
<1> QED
  BY <1>3

(* A flattened beginning is a beginning.                                   *)
LEMMA FlatteningAgrees ==
  ASSUME NEW E, NEW s \in Seq(E), NEW t \in Seq(E), NEW f, NEW g, Flattening(s, f),
         Flattening(t, g), Len(s) <= Len(t), \A i \in 1..Len(s) : t[i] = s[i]
  PROVE  \A i \in 1..Len(s) : f[i] = g[i]
<1> DEFINE N == {n \in Nat : n \in 1..Len(s) => f[n] = g[n]}
<1>1. 0 \in N
  OBVIOUS
<1>2. ASSUME NEW n \in Nat, n \in N PROVE n + 1 \in N
  <2> SUFFICES ASSUME n + 1 <= Len(s) PROVE f[n + 1] = g[n + 1]
    OBVIOUS
  <2>1. n + 1 \in 1..Len(s) /\ n + 1 \in 1..Len(t) /\ (n + 1) - 1 = n
    OBVIOUS
  <2>2. f[n + 1] = IF n + 1 = 1 THEN s[n + 1] ELSE f[n] \o s[n + 1]
    BY <2>1 DEF Flattening
  <2>3. g[n + 1] = IF n + 1 = 1 THEN t[n + 1] ELSE g[n] \o t[n + 1]
    BY <2>1 DEF Flattening
  <2> QED
    BY <1>2, <2>1, <2>2, <2>3
<1>3. Nat \subseteq N
  BY <1>1, <1>2, NaturalsBySteps
<1> QED
  BY <1>3

(* FlattenSeq is the last value of such a function.                        *)
LEMMA FlattenIsFlattening ==
  ASSUME NEW E, NEW ss \in Seq(E), ss # <<>>
  PROVE  \E f : Flattening(ss, f) /\ FlattenSeq(ss) = f[Len(ss)]
<1>1. Len(ss) # 0
  BY EmptySeq
<1>2. FlattenSeq(ss) = (CHOOSE f : Flattening(ss, f))[Len(ss)]
  BY <1>1 DEF FlattenSeq, Flattening
<1> QED
  BY <1>2, FlatteningExists

(* Nothing is flattened to nothing.                                        *)
LEMMA FlattenEmpty == FlattenSeq(<<>>) = <<>>
BY DEF FlattenSeq

(* One more sequence is put behind the others.                             *)
LEMMA FlattenAppend ==
  ASSUME NEW D, NEW ss \in Seq(D), NEW e \in D, <<>> \o e = e
  PROVE  FlattenSeq(Append(ss, e)) = FlattenSeq(ss) \o e
<1> DEFINE t == Append(ss, e)
           n == Len(ss)
<1>0. t \in Seq(D) /\ n \in Nat /\ Len(t) = n + 1 /\ t[n + 1] = e /\ t # <<>>
      /\ \A i \in 1..n : t[i] = ss[i]
  OBVIOUS
<1> HIDE DEF t
<1>1. PICK g : Flattening(t, g) /\ FlattenSeq(t) = g[Len(t)]
  BY <1>0, FlattenIsFlattening
<1>2. n + 1 \in 1..Len(t) /\ (n + 1) - 1 = n
  BY <1>0
<1>3. g[n + 1] = IF n + 1 = 1 THEN t[n + 1] ELSE g[n] \o t[n + 1]
  BY <1>1, <1>2 DEF Flattening
<1>4. CASE ss = <<>>
  <2>2. n = 0 /\ FlattenSeq(ss) = <<>>
    BY <1>4, FlattenEmpty
  <2> QED
    BY <1>0, <1>1, <1>3, <2>2 DEF t
<1>5. CASE ss # <<>>
  <2>1. PICK f : Flattening(ss, f) /\ FlattenSeq(ss) = f[n]
    BY <1>5, FlattenIsFlattening
  <2>2. n # 0 /\ n \in 1..n
    BY <1>5, EmptySeq
  <2>3. f[n] = g[n]
    BY <1>0, <1>1, <2>1, <2>2, FlatteningAgrees
  <2> QED
    BY <1>0, <1>1, <1>3, <2>1, <2>2, <2>3 DEF t
<1> QED
  BY <1>4, <1>5

(* FlattenSeq makes a sequence of sequences of them.                       *)
LEMMA FlattenType ==
  ASSUME NEW E, NEW D, D = Seq(E), NEW ss \in Seq(D)
  PROVE  FlattenSeq(ss) \in Seq(E)
<1> DEFINE T == {t \in Seq(D) : FlattenSeq(t) \in Seq(E)}
<1>1. <<>> \in T
  <2>1. <<>> \in Seq(D) /\ <<>> \in Seq(E)
    BY EmptyIsSeq
  <2> QED
    BY <2>1, FlattenEmpty, Zenon
<1>2. ASSUME NEW t \in Seq(D), NEW e \in D, t \in T PROVE Append(t, e) \in T
  <2>1. FlattenSeq(Append(t, e)) = FlattenSeq(t) \o e
    <3>1. <<>> \o e = e
      BY ConcatEmptySeq
    <3> QED
      BY <3>1, FlattenAppend
  <2>2. FlattenSeq(t) \o e \in Seq(E)
    BY <1>2, ConcatProperties
  <2>3. Append(t, e) \in Seq(D)
    OBVIOUS
  <2> QED
    BY <2>1, <2>2, <2>3
<1>3. Seq(D) \subseteq T
  BY <1>1, <1>2, SequencesBySteps
<1> QED
  BY <1>3


-----------------------------------------------------------------------------
(* Two sequences put together of two parts each.                           *)
SameConcat(E, x, y, u, v) ==
  /\ x \in Seq(E) /\ y \in Seq(E) /\ u \in Seq(E) /\ v \in Seq(E)
  /\ x \o u = y \o v

(* Two concatenations that are equal and end in parts of the same length   *)
(* are equal part by part.                                                 *)
LEMMA SameEnds ==
  ASSUME NEW E, NEW x, NEW y, NEW u, NEW v, SameConcat(E, x, y, u, v), Len(u) = Len(v)
  PROVE  x = y /\ u = v
<1>0. x \in Seq(E) /\ y \in Seq(E) /\ u \in Seq(E) /\ v \in Seq(E) /\ x \o u = y \o v
  BY DEF SameConcat
<1>1. Len(x) = Len(y) /\ Len(x) \in Nat /\ Len(u) \in Nat
  <2>1. Len(x \o u) = Len(x) + Len(u) /\ Len(y \o v) = Len(y) + Len(v)
    BY <1>0, ConcatProperties
  <2> QED
    BY <1>0, <2>1
<1>2. \A i \in 1..Len(x) : x[i] = y[i]
  <2> SUFFICES ASSUME NEW i \in 1..Len(x) PROVE x[i] = y[i]
    OBVIOUS
  <2>1. (x \o u)[i] = x[i] /\ (y \o v)[i] = y[i]
    BY <1>0, <1>1
  <2> QED
    BY <1>0, <2>1
<1>3. \A i \in 1..Len(u) : u[i] = v[i]
  <2> SUFFICES ASSUME NEW i \in 1..Len(u) PROVE u[i] = v[i]
    OBVIOUS
  <2>0. /\ Len(x) + i \in 1..(Len(x) + Len(u)) /\ ~(Len(x) + i <= Len(x))
        /\ (Len(x) + i) - Len(x) = i
    BY <1>1
  <2>1. (x \o u)[Len(x) + i] = u[i]
    BY <1>0, <2>0, ConcatProperties
  <2>2. (y \o v)[Len(x) + i] = v[i]
    BY <1>0, <1>1, <2>0, ConcatProperties
  <2> QED
    BY <1>0, <2>1, <2>2
<1> QED
  BY <1>0, <1>1, <1>2, <1>3, SeqEqual

(* And so are those that begin with parts of the same length.              *)
LEMMA SameBeginnings ==
  ASSUME NEW E, NEW x, NEW y, NEW u, NEW v, SameConcat(E, x, y, u, v), Len(x) = Len(y)
  PROVE  x = y /\ u = v
<1>0. x \in Seq(E) /\ y \in Seq(E) /\ u \in Seq(E) /\ v \in Seq(E) /\ x \o u = y \o v
  BY DEF SameConcat
<1>1. Len(x \o u) = Len(x) + Len(u) /\ Len(y \o v) = Len(y) + Len(v)
  BY <1>0, ConcatProperties
<1>2. Len(u) = Len(v)
  BY <1>0, <1>1
<1> QED
  BY <1>2, SameEnds

(* Two concatenations that are equal have the same last element.           *)
LEMMA SameLast ==
  ASSUME NEW E, NEW x, NEW y, NEW u, NEW v, SameConcat(E, x, y, u, v), Len(u) > 0, Len(v) > 0
  PROVE  u[Len(u)] = v[Len(v)]
<1>0. x \in Seq(E) /\ y \in Seq(E) /\ u \in Seq(E) /\ v \in Seq(E) /\ x \o u = y \o v
  BY DEF SameConcat
<1>1. Len(x \o u) = Len(x) + Len(u) /\ Len(y \o v) = Len(y) + Len(v)
  BY <1>0, ConcatProperties
<1>2. (x \o u)[Len(x) + Len(u)] = u[Len(u)]
  BY <1>0
<1>3. (y \o v)[Len(y) + Len(v)] = v[Len(v)]
  BY <1>0
<1> QED
  BY <1>0, <1>1, <1>2, <1>3

(* A function on 1..n is a sequence.                                       *)
LEMMA FunctionIsSeq ==
  ASSUME NEW D, NEW n \in Nat, NEW f, f = [k \in 1..n |-> f[k]],
         \A k \in 1..n : f[k] \in D
  PROVE  f \in Seq(D) /\ Len(f) = n
<1>1. f \in [1..n -> D]
  OBVIOUS
<1> QED
  BY <1>1

(* What F makes of each element, one behind the other.                     *)
FlatMap(F, s) == FlattenSeq([k \in DOMAIN s |-> F[s[k]]])

LEMMA FlatMapEmpty == \A F : FlatMap(F, <<>>) = <<>>
<1> SUFFICES ASSUME NEW F PROVE FlatMap(F, <<>>) = <<>>
  OBVIOUS
<1>1. [k \in DOMAIN <<>> |-> F[<<>>[k]]] = <<>>
  OBVIOUS
<1> QED
  BY <1>1, FlattenEmpty DEF FlatMap

LEMMA FlatMapAppend ==
  ASSUME NEW C, NEW E, NEW F \in [C -> Seq(E)], NEW s \in Seq(C), NEW c \in C
  PROVE  FlatMap(F, Append(s, c)) = FlatMap(F, s) \o F[c]
<1> DEFINE m == [k \in DOMAIN s |-> F[s[k]]]
           D == Seq(E)
           n == [k \in DOMAIN Append(s, c) |-> F[Append(s, c)[k]]]
<1>1. F[c] \in D /\ <<>> \o F[c] = F[c] /\ \A k \in 1..Len(s) : F[s[k]] \in D
  BY ConcatEmptySeq
<1> HIDE DEF D
<1>2. m \in Seq(D)
  <2>1. Len(s) \in Nat /\ m = [k \in 1..Len(s) |-> m[k]] /\ \A k \in 1..Len(s) : m[k] \in D
    BY <1>1
  <2> HIDE DEF m
  <2> QED
    BY <2>1, FunctionIsSeq
<1>3. n = Append(m, F[c])
  <2>1. Append(s, c) \in Seq(C)
    OBVIOUS
  <2>2. Len(Append(s, c)) = Len(s) + 1 /\ Len(s) \in Nat /\ DOMAIN s = 1..Len(s)
        /\ DOMAIN Append(s, c) = 1..(Len(s) + 1)
        /\ Append(s, c)[Len(s) + 1] = c /\ \A k \in 1..Len(s) : Append(s, c)[k] = s[k]
    OBVIOUS
  <2>3. \A k \in 1..(Len(s) + 1) : F[Append(s, c)[k]] \in D
    BY <1>1, <2>2
  <2>4. n \in Seq(D) /\ Len(n) = Len(s) + 1
    BY <2>2, <2>3
  <2>5. Append(m, F[c]) \in Seq(D) /\ Len(Append(m, F[c])) = Len(s) + 1
    BY <1>1, <1>2
  <2>6. \A k \in 1..(Len(s) + 1) : n[k] = Append(m, F[c])[k]
    <3> SUFFICES ASSUME NEW k \in 1..(Len(s) + 1) PROVE n[k] = Append(m, F[c])[k]
      OBVIOUS
    <3>1. CASE k = Len(s) + 1
      BY <1>1, <1>2, <2>2, <3>1
    <3>2. CASE k \in 1..Len(s)
      BY <1>1, <1>2, <2>2, <3>2
    <3> QED
      BY <3>1, <3>2, <2>2
  <2> HIDE DEF m, n
  <2> QED
    BY <2>4, <2>5, <2>6, SeqEqual
<1> HIDE DEF m, n
<1>4. FlattenSeq(n) = FlattenSeq(m) \o F[c]
  BY <1>1, <1>2, <1>3, FlattenAppend
<1> QED
  BY <1>4 DEF FlatMap, m, n

LEMMA FlatMapType ==
  ASSUME NEW C, NEW E, NEW F \in [C -> Seq(E)], NEW s \in Seq(C)
  PROVE  FlatMap(F, s) \in Seq(E)
<1> DEFINE T == {t \in Seq(C) : FlatMap(F, t) \in Seq(E)}
<1>1. <<>> \in T
  BY EmptyIsSeq, FlatMapEmpty, Zenon
<1>2. ASSUME NEW t \in Seq(C), NEW c \in C, t \in T PROVE Append(t, c) \in T
  <2>1. FlatMap(F, Append(t, c)) = FlatMap(F, t) \o F[c]
    BY FlatMapAppend
  <2>2. FlatMap(F, t) \o F[c] \in Seq(E)
    BY <1>2, ConcatProperties
  <2>3. Append(t, c) \in Seq(C)
    OBVIOUS
  <2> QED
    BY <2>1, <2>2, <2>3
<1>3. Seq(C) \subseteq T
  BY <1>1, <1>2, SequencesBySteps
<1> QED
  BY <1>3


(* What F writes of two last elements can be told from the end: it is the  *)
(* same only if what is before is, and if G reads the same of both.        *)
ToldFromTheEnd(C, E, F, G) ==
  \A c, d \in C : \A x, y \in Seq(E) :
    F[c] # <<>> /\ F[d] # <<>> /\ x \o F[c] = y \o F[d] => x = y /\ G[c] = G[d]

(* G reads of an element no more than F writes of it.                      *)
Readings(C, E, D, F, G) ==
  /\ F \in [C -> Seq(E)]
  /\ G \in [C -> Seq(D)]
  /\ ToldFromTheEnd(C, E, F, G)
  /\ \A c \in C : F[c] = <<>> => G[c] = <<>>

(* Then the whole can be read: if F writes the same of two sequences, G    *)
(* reads the same in both.                                                 *)
LEMMA UniquelyRead ==
  ASSUME NEW C, NEW E, NEW D, NEW F, NEW G, Readings(C, E, D, F, G),
         NEW s \in Seq(C), NEW t \in Seq(C), FlatMap(F, s) = FlatMap(F, t)
  PROVE  FlatMap(G, s) = FlatMap(G, t)
<1>0. /\ F \in [C -> Seq(E)]
      /\ G \in [C -> Seq(D)]
      /\ ToldFromTheEnd(C, E, F, G)
      /\ \A c \in C : F[c] = <<>> => G[c] = <<>>
  BY Zenon DEF Readings
<1> USE <1>0
<1> DEFINE Same(u, v, n) ==
      Len(u) + Len(v) <= n /\ FlatMap(F, u) = FlatMap(F, v) => FlatMap(G, u) = FlatMap(G, v)
<1> DEFINE N == {n \in Nat : \A u, v \in Seq(C) : Same(u, v, n)}
<1>1. 0 \in N
  <2> SUFFICES ASSUME NEW u \in Seq(C), NEW v \in Seq(C), Len(u) + Len(v) <= 0 PROVE u = v
    OBVIOUS
  <2>1. Len(u) \in Nat /\ Len(v) \in Nat
    OBVIOUS
  <2>2. Len(u) = 0 /\ Len(v) = 0
    BY <2>1
  <2> QED
    BY <2>2, EmptySeq
<1>2. ASSUME NEW n \in Nat, n \in N PROVE n + 1 \in N
  <2> SUFFICES ASSUME NEW u \in Seq(C), NEW v \in Seq(C), Len(u) + Len(v) <= n + 1,
                      FlatMap(F, u) = FlatMap(F, v)
               PROVE  FlatMap(G, u) = FlatMap(G, v)
    OBVIOUS
  <2>0. \A a, b \in Seq(C) : Same(a, b, n)
    BY <1>2
  <2> HIDE DEF N
  <2>1. ASSUME NEW a \in Seq(C), NEW c \in C
        PROVE  /\ FlatMap(F, Append(a, c)) = FlatMap(F, a) \o F[c]
               /\ FlatMap(G, Append(a, c)) = FlatMap(G, a) \o G[c]
               /\ FlatMap(F, a) \in Seq(E) /\ FlatMap(G, a) \in Seq(D)
               /\ F[c] \in Seq(E) /\ G[c] \in Seq(D)
               /\ Len(Append(a, c)) = Len(a) + 1 /\ Len(a) \in Nat
    <3>1. FlatMap(F, Append(a, c)) = FlatMap(F, a) \o F[c]
      BY FlatMapAppend
    <3>2. FlatMap(G, Append(a, c)) = FlatMap(G, a) \o G[c]
      BY FlatMapAppend
    <3>3. FlatMap(F, a) \in Seq(E)
      BY FlatMapType
    <3>4. FlatMap(G, a) \in Seq(D)
      BY FlatMapType
    <3>5. F[c] \in Seq(E) /\ G[c] \in Seq(D)
      OBVIOUS
    <3>6. Len(Append(a, c)) = Len(a) + 1 /\ Len(a) \in Nat
      OBVIOUS
    <3> QED
      BY <3>1, <3>2, <3>3, <3>4, <3>5, <3>6
  <2>2. ASSUME NEW a \in Seq(C), NEW c \in C, F[c] = <<>>
        PROVE  /\ FlatMap(F, Append(a, c)) = FlatMap(F, a)
               /\ FlatMap(G, Append(a, c)) = FlatMap(G, a)
    <3>1. FlatMap(F, a) \o <<>> = FlatMap(F, a)
      BY <2>1, ConcatEmptySeq
    <3>2. FlatMap(G, a) \o <<>> = FlatMap(G, a)
      BY <2>1, ConcatEmptySeq
    <3>3. G[c] = <<>>
      BY <2>2
    <3> QED
      BY <2>1, <2>2, <3>1, <3>2, <3>3
  <2>3. ASSUME NEW a \in Seq(C), NEW c \in C, u = Append(a, c), F[c] = <<>>
        PROVE  FlatMap(G, u) = FlatMap(G, v)
    <3>1. Len(a) + Len(v) <= n
      BY <2>1, <2>3
    <3> QED
      BY <2>0, <2>2, <2>3, <3>1
  <2>4. ASSUME NEW b \in Seq(C), NEW d \in C, v = Append(b, d), F[d] = <<>>
        PROVE  FlatMap(G, u) = FlatMap(G, v)
    <3>1. Len(u) + Len(b) <= n
      BY <2>1, <2>4
    <3> QED
      BY <2>0, <2>2, <2>4, <3>1
  <2>5. ASSUME NEW a \in Seq(C), NEW c \in C, FlatMap(F, Append(a, c)) = <<>>
        PROVE  F[c] = <<>>
    <3>1. FlatMap(F, a) \o F[c] = <<>> /\ FlatMap(F, a) \in Seq(E) /\ F[c] \in Seq(E)
      BY <2>1, <2>5
    <3> QED
      BY <3>1, ConcatEqualIffEmpty
  <2>6. ASSUME NEW a \in Seq(C), NEW c \in C, u = Append(a, c), F[c] # <<>>,
               NEW b \in Seq(C), NEW d \in C, v = Append(b, d), F[d] # <<>>
        PROVE  FlatMap(G, u) = FlatMap(G, v)
    <3>a. /\ FlatMap(F, u) = FlatMap(F, a) \o F[c] /\ FlatMap(F, a) \in Seq(E)
          /\ FlatMap(G, u) = FlatMap(G, a) \o G[c]
      BY <2>1, <2>6, Zenon
    <3>b. /\ FlatMap(F, v) = FlatMap(F, b) \o F[d] /\ FlatMap(F, b) \in Seq(E)
          /\ FlatMap(G, v) = FlatMap(G, b) \o G[d]
      BY <2>1, <2>6, Zenon
    <3>1. FlatMap(F, a) \o F[c] = FlatMap(F, b) \o F[d]
      BY <3>a, <3>b, Zenon
    <3>2. FlatMap(F, a) = FlatMap(F, b) /\ G[c] = G[d]
      BY <2>6, <3>1, <3>a, <3>b, Zenon DEF ToldFromTheEnd
    <3>3. Len(a) + Len(b) <= n
      BY <2>1, <2>6
    <3>4. FlatMap(G, a) = FlatMap(G, b)
      BY <2>0, <3>2, <3>3
    <3> QED
      BY <3>2, <3>4, <3>a, <3>b, Zenon
  <2>7. CASE u = <<>>
    <3>1. CASE v = <<>>
      BY <2>7, <3>1
    <3>2. CASE v # <<>>
      <4>1. PICK b \in Seq(C), d \in C : v = Append(b, d)
        BY <3>2, SequenceEmptyOrAppend
      <4>2. FlatMap(F, Append(b, d)) = <<>>
        BY <2>7, <4>1, FlatMapEmpty
      <4> QED
        BY <2>4, <2>5, <4>1, <4>2
    <3> QED
      BY <3>1, <3>2
  <2>8. CASE u # <<>>
    <3>1. PICK a \in Seq(C), c \in C : u = Append(a, c)
      BY <2>8, SequenceEmptyOrAppend
    <3>2. CASE F[c] = <<>>
      BY <2>3, <3>1, <3>2
    <3>3. CASE F[c] # <<>>
      <4>1. CASE v = <<>>
        <5>1. FlatMap(F, Append(a, c)) = <<>>
          BY <3>1, <4>1, FlatMapEmpty
        <5> QED
          BY <2>5, <3>3, <5>1
      <4>2. CASE v # <<>>
        <5>1. PICK b \in Seq(C), d \in C : v = Append(b, d)
          BY <4>2, SequenceEmptyOrAppend
        <5> QED
          BY <2>4, <2>6, <3>1, <3>3, <5>1
      <4> QED
        BY <4>1, <4>2
    <3> QED
      BY <3>2, <3>3
  <2> QED
    BY <2>7, <2>8
<1>3. Nat \subseteq N
  BY <1>1, <1>2, NaturalsBySteps
<1>4. Len(s) + Len(t) \in N
  BY <1>3
<1> QED
  BY <1>4


(* If the last element tells the length of a part, the parts are the same. *)
LEMMA LastTellsLength ==
  ASSUME NEW E, NEW x, NEW y, NEW u, NEW v, SameConcat(E, x, y, u, v), Len(u) > 0, Len(v) > 0,
         u[Len(u)] = v[Len(v)] => Len(u) = Len(v)
  PROVE  x = y /\ u = v
<1>1. u[Len(u)] = v[Len(v)]
  BY SameLast
<1>2. Len(u) = Len(v)
  BY <1>1
<1> QED
  BY <1>2, SameEnds

(* Short tuples are sequences over their own elements.                     *)
LEMMA ShortTuples ==
  /\ <<>> \in Seq(Range(<<>>))
  /\ \A a : <<a>> \in Seq(Range(<<a>>))
  /\ \A a, b, c, d : <<a, b, c, d>> \in Seq(Range(<<a, b, c, d>>))
<1>1. <<>> \in Seq(Range(<<>>))
  BY EmptyIsSeq
<1>2. \A a : <<a>> \in Seq({a})
  OBVIOUS
<1>3. \A a, b, c, d : <<a, b, c, d>> \in Seq({a, b, c, d})
  OBVIOUS
<1> QED
  BY <1>1, <1>2, <1>3, SeqOfRange

LEMMA SixTuple ==
  \A a, b, c, d, e, f : /\ <<a, b, c, d, e, f>> \in Seq(Range(<<a, b, c, d, e, f>>))
                        /\ Len(<<a, b, c, d, e, f>>) = 6
<1>1. \A a, b, c, d, e, f : <<a, b, c, d, e, f>> \in Seq({a, b, c, d, e, f})
  OBVIOUS
<1>2. \A a, b, c, d, e, f : Len(<<a, b, c, d, e, f>>) = 6
  OBVIOUS
<1> QED
  BY <1>1, <1>2, SeqOfRange

-----------------------------------------------------------------------------
(* Where the elements that are kept are next to each other, they are what  *)
(* is left.                                                                *)
KeptBetween(s, S, a, b) ==
  /\ a \in Nat /\ b \in Nat /\ a <= b /\ b <= Len(s)
  /\ \A i \in 1..Len(s) : s[i] \in S <=> a < i /\ i <= b

LEMMA FilterInterval ==
  ASSUME NEW E, NEW s \in Seq(E), NEW S, NEW a, NEW b, KeptBetween(s, S, a, b)
  PROVE  Filter(s, S) = SubSeq(s, a + 1, b) /\ Len(Filter(s, S)) = b - a
<1> USE DEF KeptBetween
<1> DEFINE n == Len(s)
           x == SubSeq(s, 1, a)
           y == SubSeq(s, a + 1, b)
           z == SubSeq(s, b + 1, n)
<1>1. /\ x \in Seq(E) /\ \A i \in 1..Len(x) : x[i] = s[i] /\ Len(x) = a
      /\ y \in Seq(E) /\ Len(y) = b - a /\ \A i \in 1..(b - a) : y[i] = s[a + i]
      /\ z \in Seq(E) /\ Len(z) = n - b /\ \A i \in 1..(n - b) : z[i] = s[b + i]
      /\ a \in Nat /\ b \in Nat /\ a <= b /\ n \in Nat /\ b <= n /\ Len(x) = a
  OBVIOUS
<1>2. s = (x \o y) \o z
  <2>0. 1 \in 1..(n + 1) /\ a \in (1 - 1)..n /\ b \in a..n /\ b \in (1 - 1)..n /\ n \in b..n
    OBVIOUS
  <2>1. x \o y = SubSeq(s, 1, b)
    BY <2>0, ConcatAdjacentSubSeq, Zenon
  <2>2. SubSeq(s, 1, b) \o z = SubSeq(s, 1, n)
    BY <2>0, ConcatAdjacentSubSeq, Zenon
  <2>3. SubSeq(s, 1, n) = s
    BY SubSeqFull
  <2> QED
    BY <2>1, <2>2, <2>3, Zenon
<1> HIDE DEF x, y, z, n
<1>3. Filter(x, S) = <<>>
  <2>1. \A i \in 1..Len(x) : x[i] \notin S
    BY <1>1 DEF n
  <2> QED
    BY <1>1, <2>1, FilterNone
<1>4. Filter(y, S) = y
  <2>1. \A i \in 1..Len(y) : y[i] \in S
    <3> SUFFICES ASSUME NEW i \in 1..Len(y) PROVE y[i] \in S
      OBVIOUS
    <3>1. a + i \in 1..Len(s) /\ a < a + i /\ a + i <= b /\ y[i] = s[a + i]
      BY <1>1 DEF n
    <3> QED
      BY <3>1
  <2> QED
    BY <1>1, <2>1, FilterAll
<1>5. Filter(z, S) = <<>>
  <2>1. \A i \in 1..Len(z) : z[i] \notin S
    <3> SUFFICES ASSUME NEW i \in 1..Len(z) PROVE z[i] \notin S
      OBVIOUS
    <3>1. b + i \in 1..Len(s) /\ ~(b + i <= b) /\ z[i] = s[b + i]
      BY <1>1 DEF n
    <3> QED
      BY <3>1
  <2> QED
    BY <1>1, <2>1, FilterNone
<1>6. x \in Seq(E) /\ y \in Seq(E) /\ z \in Seq(E) /\ x \o y \in Seq(E)
  BY <1>1
<1>0. \A u, v \in Seq(E) : Filter(u \o v, S) = Filter(u, S) \o Filter(v, S)
  BY FilterConcat
<1>7. Filter((x \o y) \o z, S) = Filter(x \o y, S) \o Filter(z, S)
  BY <1>0, <1>6, Zenon
<1>8. Filter(x \o y, S) = Filter(x, S) \o Filter(y, S)
  BY <1>0, <1>6, Zenon
<1>9. <<>> \o y = y /\ y \o <<>> = y
  BY <1>1, ConcatEmptySeq
<1>10. Filter(s, S) = y
  BY <1>2, <1>3, <1>4, <1>5, <1>7, <1>8, <1>9, Zenon
<1> QED
  BY <1>1, <1>10 DEF y

(* FlattenSeq of four sequences is one behind the other.                   *)
LEMMA FlattenFour ==
  ASSUME NEW E, NEW ss \in Seq(Seq(E)), Len(ss) = 4
  PROVE  FlattenSeq(ss) = ss[1] \o ss[2] \o ss[3] \o ss[4]
<1> DEFINE D == Seq(E)
           a == ss[1]
           b == ss[2]
           c == ss[3]
           d == ss[4]
<1>1. \A e \in D : <<>> \o e = e
  BY ConcatEmptySeq
<1>2. a \in D /\ b \in D /\ c \in D /\ d \in D
  OBVIOUS
<1>9. ss = <<a, b, c, d>>
  OBVIOUS
<1> HIDE DEF D, a, b, c, d
<1>3. <<>> \in Seq(D) /\ <<a>> \in Seq(D) /\ <<a, b>> \in Seq(D) /\ <<a, b, c>> \in Seq(D)
  BY <1>2, EmptyIsSeq
<1>4. /\ <<a>> = Append(<<>>, a) /\ <<a, b>> = Append(<<a>>, b)
      /\ <<a, b, c>> = Append(<<a, b>>, c) /\ <<a, b, c, d>> = Append(<<a, b, c>>, d)
  OBVIOUS
<1>5. \A u \in Seq(D), e \in D : FlattenSeq(Append(u, e)) = FlattenSeq(u) \o e
  BY <1>1, FlattenAppend
<1>6. FlattenSeq(<<a>>) = a
  BY <1>1, <1>2, <1>3, <1>4, <1>5, FlattenEmpty, Zenon
<1>7. FlattenSeq(<<a, b>>) = a \o b
  BY <1>2, <1>3, <1>4, <1>5, <1>6, Zenon
<1>8. FlattenSeq(<<a, b, c>>) = a \o b \o c
  BY <1>2, <1>3, <1>4, <1>5, <1>7, Zenon
<1> QED
  BY <1>2, <1>3, <1>4, <1>5, <1>8, <1>9, Zenon DEF a, b, c, d

-----------------------------------------------------------------------------
(* Two sequences whose elements at the same place are in a relation.       *)
Related(x, y, R) == Len(x) = Len(y) /\ \A j \in 1..Len(x) : <<x[j], y[j]>> \in R

LEMMA RelatedConcat ==
  ASSUME NEW E, NEW D, NEW R, NEW x \in Seq(E), NEW u \in Seq(E), NEW y \in Seq(D),
         NEW v \in Seq(D), Related(x, y, R), Related(u, v, R)
  PROVE  Related(x \o u, y \o v, R)
<1> DEFINE n == Len(x)
<1>1. n \in Nat /\ Len(u) \in Nat /\ Len(y) = n /\ Len(v) = Len(u)
  BY DEF Related
<1>2. Len(x \o u) = n + Len(u) /\ Len(y \o v) = n + Len(u)
  <2>1. Len(x \o u) = Len(x) + Len(u) /\ Len(y \o v) = Len(y) + Len(v)
    BY ConcatProperties
  <2> QED
    BY <1>1, <2>1
<1>3. ASSUME NEW j \in 1..(n + Len(u)) PROVE <<(x \o u)[j], (y \o v)[j]>> \in R
  <2>1. CASE j <= n
    <3>1. (x \o u)[j] = x[j] /\ (y \o v)[j] = y[j] /\ j \in 1..Len(x)
      BY <1>1, <2>1
    <3> QED
      BY <3>1 DEF Related
  <2>2. CASE ~(j <= n)
    <3>1. (x \o u)[j] = u[j - n] /\ (y \o v)[j] = v[j - n] /\ j - n \in 1..Len(u)
      BY <1>1, <2>2
    <3> QED
      BY <3>1 DEF Related
  <2> QED
    BY <2>1, <2>2
<1> QED
  BY <1>2, <1>3 DEF Related

(* If what F and G make of each element is related, so is what they make   *)
(* of a sequence.                                                          *)
LEMMA FlatMapRelated ==
  ASSUME NEW C, NEW E, NEW D, NEW R, NEW F \in [C -> Seq(E)], NEW G \in [C -> Seq(D)],
         \A c \in C : Related(F[c], G[c], R), NEW s \in Seq(C)
  PROVE  Related(FlatMap(F, s), FlatMap(G, s), R)
<1> DEFINE T == {t \in Seq(C) : Related(FlatMap(F, t), FlatMap(G, t), R)}
<1>1. <<>> \in T
  <2>1. FlatMap(F, <<>>) = <<>> /\ FlatMap(G, <<>>) = <<>>
    BY FlatMapEmpty, Zenon
  <2>2. Related(<<>>, <<>>, R)
    BY DEF Related
  <2> QED
    BY <2>1, <2>2, EmptyIsSeq, Zenon
<1>2. ASSUME NEW t \in Seq(C), NEW c \in C, t \in T PROVE Append(t, c) \in T
  <2>1. FlatMap(F, Append(t, c)) = FlatMap(F, t) \o F[c]
    BY FlatMapAppend
  <2>2. FlatMap(G, Append(t, c)) = FlatMap(G, t) \o G[c]
    BY FlatMapAppend
  <2>3. FlatMap(F, t) \in Seq(E)
    BY FlatMapType
  <2>4. FlatMap(G, t) \in Seq(D)
    BY FlatMapType
  <2>5. F[c] \in Seq(E) /\ G[c] \in Seq(D)
    OBVIOUS
  <2>6. Related(FlatMap(F, t), FlatMap(G, t), R) /\ Related(F[c], G[c], R)
    BY <1>2, Zenon
  <2>7. Related(FlatMap(F, t) \o F[c], FlatMap(G, t) \o G[c], R)
    BY <2>3, <2>4, <2>5, <2>6, RelatedConcat
  <2>8. Append(t, c) \in Seq(C)
    OBVIOUS
  <2> QED
    BY <2>1, <2>2, <2>7, <2>8, Zenon
<1>3. Seq(C) \subseteq T
  BY <1>1, <1>2, SequencesBySteps
<1> QED
  BY <1>3

(* Filter as a map: to each element itself, or nothing.                    *)
Chosen(C, S) == [c \in C |-> IF c \in S THEN <<c>> ELSE <<>>]

LEMMA FilterIsFlatMap ==
  ASSUME NEW C, NEW S, NEW s \in Seq(C)
  PROVE  Chosen(C, S) \in [C -> Seq(C)] /\ FlatMap(Chosen(C, S), s) = Filter(s, S)
<1> DEFINE F == Chosen(C, S)
           T == {t \in Seq(C) : FlatMap(F, t) = Filter(t, S)}
<1>0. F \in [C -> Seq(C)]
  BY EmptyIsSeq DEF Chosen
<1>1. <<>> \in T
  BY FlatMapEmpty, FilterEmpty, EmptyIsSeq, Zenon
<1>2. ASSUME NEW t \in Seq(C), NEW c \in C, t \in T PROVE Append(t, c) \in T
  <2> HIDE DEF F
  <2>1. FlatMap(F, Append(t, c)) = FlatMap(F, t) \o F[c]
    BY <1>0, FlatMapAppend
  <2>2. Filter(Append(t, c), S) = IF c \in S THEN Append(Filter(t, S), c) ELSE Filter(t, S)
    BY FilterAppend
  <2>3. F[c] = IF c \in S THEN <<c>> ELSE <<>>
    BY DEF F, Chosen
  <2>4. FlatMap(F, t) = Filter(t, S)
    BY <1>2
  <2>5. Filter(t, S) \in Seq(C)
    BY FilterType
  <2>6. Filter(t, S) \o <<c>> = Append(Filter(t, S), c) /\ Filter(t, S) \o <<>> = Filter(t, S)
    BY <2>5, ConcatEmptySeq, AppendIsConcat
  <2>7. Append(t, c) \in Seq(C)
    OBVIOUS
  <2> QED
    BY <2>1, <2>2, <2>3, <2>4, <2>6, <2>7
<1>3. Seq(C) \subseteq T
  BY <1>1, <1>2, SequencesBySteps
<1> QED
  BY <1>0, <1>3

(* If F makes one element of each that is in the set, and nothing of the   *)
(* others, then it makes one of each that Filter keeps.                    *)
LEMMA FlatMapPicks ==
  ASSUME NEW C, NEW s \in Seq(C), NEW D, NEW F, F = [c \in C |-> F[c]],
         \A c \in C : IF c \in D THEN F[c] = <<F[c][1]>> ELSE F[c] = <<>>
  PROVE  LET t == FlatMap(F, s)
             kept == Filter(s, D)
         IN  /\ t \in Seq(Range(t)) /\ kept \in Seq(C)
             /\ Len(t) = Len(kept)
             /\ \A k \in 1..Len(t) : kept[k] \in C \cap D /\ F[kept[k]] = <<t[k]>>
<1> DEFINE E == {F[c][1] : c \in C}
           R == {p \in E \X C : F[p[2]] = <<p[1]>>}
           t == FlatMap(F, s)
           kept == Filter(s, D)
<1>1. ASSUME NEW c \in C
      PROVE  F[c] \in Seq(E) /\ Related(F[c], Chosen(C, D)[c], R)
  <2>1. Chosen(C, D)[c] = IF c \in D THEN <<c>> ELSE <<>>
    BY DEF Chosen
  <2>2. F[c][1] \in E
    OBVIOUS
  <2>3. CASE c \in D
    <3>1. F[c] = <<F[c][1]>>
      BY <2>3
    <3>2. <<F[c][1], c>> \in R
      BY <2>2, <3>1
    <3> HIDE DEF R, E
    <3>3. \A x \in E : <<x>> \in Seq(E) /\ (<<x, c>> \in R => Related(<<x>>, <<c>>, R))
      BY DEF Related
    <3> QED
      BY <2>1, <2>2, <2>3, <3>1, <3>2, <3>3
  <2>4. CASE c \notin D
    <3>1. F[c] = <<>> /\ Chosen(C, D)[c] = <<>>
      BY <2>1, <2>4
    <3>2. Related(<<>>, <<>>, R) /\ <<>> \in Seq(E)
      BY EmptyIsSeq DEF Related
    <3> HIDE DEF R, E
    <3> QED
      BY <3>1, <3>2
  <2> QED
    BY <2>3, <2>4
<1>2. F \in [C -> Seq(E)]
  <2> HIDE DEF E
  <2> QED
    BY <1>1
<1>3. \A x, c : <<x, c>> \in R => F[c] = <<x>>
  OBVIOUS
<1> HIDE DEF E, R
<1>4. Chosen(C, D) \in [C -> Seq(C)] /\ FlatMap(Chosen(C, D), s) = kept
  BY FilterIsFlatMap
<1>5. Related(t, kept, R)
  BY <1>1, <1>2, <1>4, FlatMapRelated
<1>6. t \in Seq(E)
  BY <1>2, FlatMapType
<1>7. kept \in Seq(C) /\ Range(kept) = Range(s) \cap D
  BY FilterType, FilterRange
<1> HIDE DEF t, kept
<1>8. t \in Seq(Range(t))
  BY <1>6, SeqOfRange
<1>9. \A k \in 1..Len(kept) : kept[k] \in C \cap D
  BY <1>7 DEF Range
<1>10. Len(t) = Len(kept) /\ \A k \in 1..Len(t) : F[kept[k]] = <<t[k]>>
  BY <1>3, <1>5 DEF Related
<1> QED
  BY <1>7, <1>8, <1>9, <1>10 DEF t, kept

(* Sequences of the same length, filtered alike, stay side by side.        *)
LEMMA FilterTogether ==
  ASSUME NEW E, NEW D, NEW R, NEW S, NEW T, NEW s \in Seq(E), NEW t \in Seq(D), Len(s) = Len(t),
         \A k \in 1..Len(s) : /\ s[k] \in S <=> t[k] \in T
                              /\ s[k] \in S => <<s[k], t[k]>> \in R
  PROVE  Related(Filter(s, S), Filter(t, T), R)
<1> DEFINE Alike(x, y) ==
             \A k \in 1..Len(x) : /\ x[k] \in S <=> y[k] \in T
                                  /\ x[k] \in S => <<x[k], y[k]>> \in R
           Q == {x \in Seq(E) : \A y \in Seq(D) :
                   Len(x) = Len(y) /\ Alike(x, y) => Related(Filter(x, S), Filter(y, T), R)}
<1>1. <<>> \in Q
  <2> SUFFICES ASSUME NEW y \in Seq(D), Len(<<>>) = Len(y)
               PROVE  Related(Filter(<<>>, S), Filter(y, T), R)
    BY EmptyIsSeq, Zenon
  <2>1. y = <<>>
    OBVIOUS
  <2>2. Related(<<>>, <<>>, R)
    BY DEF Related
  <2>3. Filter(<<>>, S) = <<>> /\ Filter(y, T) = <<>>
    BY <2>1, FilterEmpty
  <2> QED
    BY <2>2, <2>3
<1>2. ASSUME NEW x \in Seq(E), NEW e \in E, x \in Q PROVE Append(x, e) \in Q
  <2> SUFFICES ASSUME NEW y \in Seq(D), Len(Append(x, e)) = Len(y), Alike(Append(x, e), y)
               PROVE  Related(Filter(Append(x, e), S), Filter(y, T), R)
    BY AppendProperties, Zenon
  <2>1. y # <<>>
    OBVIOUS
  <2>2. PICK z \in Seq(D), d \in D : y = Append(z, d)
    BY <2>1, SequenceEmptyOrAppend
  <2>3. /\ Len(x) = Len(z) /\ Len(x) \in Nat
        /\ \A k \in 1..Len(x) : Append(x, e)[k] = x[k] /\ y[k] = z[k] /\ k \in 1..Len(Append(x, e))
        /\ Append(x, e)[Len(x) + 1] = e /\ y[Len(x) + 1] = d
        /\ Len(x) + 1 \in 1..Len(Append(x, e))
    BY <2>2
  <2>4. Alike(x, z)
    BY <2>3
  <2>5. (e \in S <=> d \in T) /\ (e \in S => <<e, d>> \in R)
    BY <2>3
  <2> HIDE DEF Alike
  <2>6. Related(Filter(x, S), Filter(z, T), R)
    BY <1>2, <2>3, <2>4
  <2>7. Filter(Append(x, e), S) = IF e \in S THEN Append(Filter(x, S), e) ELSE Filter(x, S)
    BY FilterAppend
  <2>8. Filter(y, T) = IF d \in T THEN Append(Filter(z, T), d) ELSE Filter(z, T)
    BY <2>2, FilterAppend
  <2>9. CASE e \in S
    <3> DEFINE f == Filter(x, S)
               g == Filter(z, T)
    <3>1. f \in Seq(E) /\ g \in Seq(D)
      BY FilterType
    <3> HIDE DEF f, g
    <3>0. <<e, d>> \in R
      BY <2>5, <2>9
    <3>2. <<e>> \in Seq(E) /\ <<d>> \in Seq(D) /\ Related(<<e>>, <<d>>, R)
      <4>1. <<e>> \in Seq(E) /\ <<d>> \in Seq(D)
        OBVIOUS
      <4>2. /\ Len(<<e>>) = 1 /\ Len(<<d>>) = 1
            /\ \A k \in 1..1 : <<e>>[k] = e /\ <<d>>[k] = d
        OBVIOUS
      <4> QED
        BY <3>0, <4>1, <4>2 DEF Related
    <3>3. Related(f \o <<e>>, g \o <<d>>, R)
      BY <2>6, <3>1, <3>2, RelatedConcat DEF f, g
    <3>4. Append(f, e) = f \o <<e>> /\ Append(g, d) = g \o <<d>>
      BY <3>1, AppendIsConcat
    <3> QED
      BY <2>5, <2>7, <2>8, <2>9, <3>3, <3>4 DEF f, g
  <2>10. CASE e \notin S
    BY <2>5, <2>6, <2>7, <2>8, <2>10
  <2> QED
    BY <2>9, <2>10
<1>3. Seq(E) \subseteq Q
  <2> HIDE DEF Q
  <2> QED
    BY <1>1, <1>2, SequencesBySteps
<1> QED
  BY <1>3

-----------------------------------------------------------------------------
(* A function that is defined by recursion: F says what each value is if   *)
(* the values of smaller elements are known, and asks for no others.       *)
Recursion(D, R, rank, F) ==
  /\ rank \in [D -> Nat]
  /\ F \in [[D -> R] -> [D -> R]]
  /\ \A g, h \in [D -> R] : \A d \in D :
       (\A e \in D : rank[e] < rank[d] => g[e] = h[e]) => F[g][d] = F[h][d]

(* Then there is a function that is what F says of it.                     *)
LEMMA RecursionExists ==
  ASSUME NEW D, NEW R, NEW rank, NEW F, R # {}, Recursion(D, R, rank, F)
  PROVE  \E g \in [D -> R] : g = F[g]
<1>0. /\ rank \in [D -> Nat]
      /\ F \in [[D -> R] -> [D -> R]]
      /\ \A g, h \in [D -> R] : \A d \in D :
           (\A e \in D : rank[e] < rank[d] => g[e] = h[e]) => F[g][d] = F[h][d]
  BY DEF Recursion
<1> DEFINE Up(n) == {g \in [D -> R] : \A d \in D : rank[d] < n => g[d] = F[g][d]}
<1>1. \A n \in Nat : Up(n) # {}
  <2> DEFINE N == {n \in Nat : Up(n) # {}}
  <2>1. 0 \in N
    <3>1. PICK r \in R : TRUE
      OBVIOUS
    <3>2. [d \in D |-> r] \in Up(0)
      BY <1>0
    <3> QED
      BY <3>2
  <2>2. ASSUME NEW n \in Nat, n \in N PROVE n + 1 \in N
    <3>1. PICK g \in Up(n) : TRUE
      BY <2>2
    <3>2. g \in [D -> R] /\ F[g] \in [D -> R] /\ \A d \in D : rank[d] < n => g[d] = F[g][d]
      BY <1>0, <3>1
    <3>3. ASSUME NEW d \in D, rank[d] < n + 1 PROVE F[g][d] = F[F[g]][d]
      <4>1. \A e \in D : rank[e] < rank[d] => g[e] = F[g][e]
        BY <1>0, <3>2, <3>3
      <4> QED
        BY <1>0, <3>2, <4>1
    <3>4. F[g] \in Up(n + 1)
      BY <3>2, <3>3
    <3> QED
      BY <3>4
  <2>3. Nat \subseteq N
    <3> HIDE DEF N
    <3> QED
      BY <2>1, <2>2, NaturalsBySteps
  <2> QED
    BY <2>3
<1>2. \A n \in Nat : \A g, h \in Up(n) : \A d \in D : rank[d] < n => g[d] = h[d]
  <2> DEFINE N == {n \in Nat : \A g, h \in Up(n) : \A d \in D : rank[d] < n => g[d] = h[d]}
  <2>1. 0 \in N
    BY <1>0
  <2>2. ASSUME NEW n \in Nat, n \in N PROVE n + 1 \in N
    <3> SUFFICES ASSUME NEW g \in Up(n + 1), NEW h \in Up(n + 1), NEW d \in D, rank[d] < n + 1
                 PROVE  g[d] = h[d]
      OBVIOUS
    <3>1. g \in Up(n) /\ h \in Up(n)
      BY <1>0
    <3>2. \A e \in D : rank[e] < n => g[e] = h[e]
      BY <2>2, <3>1
    <3>3. \A e \in D : rank[e] < rank[d] => rank[e] < n
      BY <1>0
    <3>4. g \in [D -> R] /\ h \in [D -> R] /\ g[d] = F[g][d] /\ h[d] = F[h][d]
      OBVIOUS
    <3> HIDE DEF Up, N
    <3> QED
      BY <1>0, <3>2, <3>3, <3>4
  <2>3. Nat \subseteq N
    <3> HIDE DEF N
    <3> QED
      BY <2>1, <2>2, NaturalsBySteps
  <2> QED
    BY <2>3
<1>3. \A m, n \in Nat : m <= n => Up(n) \subseteq Up(m)
  BY <1>0
<1> DEFINE h == [d \in D |-> (CHOOSE g : g \in Up(rank[d] + 1))[d]]
<1>4. ASSUME NEW n \in Nat, NEW g \in Up(n), NEW d \in D, rank[d] < n
      PROVE  h[d] = g[d]
  <2> DEFINE k == CHOOSE f : f \in Up(rank[d] + 1)
  <2>1. rank[d] \in Nat /\ rank[d] + 1 \in Nat /\ rank[d] + 1 <= n
    BY <1>0, <1>4
  <2>2. k \in Up(rank[d] + 1)
    BY <1>1, <2>1
  <2>3. g \in Up(rank[d] + 1)
    BY <1>3, <2>1
  <2>4. h[d] = k[d]
    OBVIOUS
  <2> HIDE DEF k, h, Up
  <2> QED
    BY <1>2, <2>1, <2>2, <2>3, <2>4
<1>5. h \in [D -> R]
  <2>1. ASSUME NEW d \in D PROVE h[d] \in R
    <3>1. rank[d] + 1 \in Nat /\ rank[d] < rank[d] + 1
      BY <1>0
    <3>2. PICK g \in Up(rank[d] + 1) : TRUE
      BY <1>1, <3>1
    <3>3. h[d] = g[d]
      BY <1>4, <3>1, <3>2
    <3> QED
      BY <3>2, <3>3
  <2> HIDE DEF Up
  <2> QED
    BY <2>1
<1>6. ASSUME NEW d \in D PROVE h[d] = F[h][d]
  <2>1. rank[d] + 1 \in Nat /\ rank[d] < rank[d] + 1
        /\ \A e \in D : rank[e] < rank[d] => rank[e] < rank[d] + 1
    BY <1>0
  <2>2. PICK g \in Up(rank[d] + 1) : TRUE
    BY <1>1, <2>1
  <2>3. h[d] = g[d]
    BY <1>4, <2>1, <2>2
  <2>4. \A e \in D : rank[e] < rank[d] => h[e] = g[e]
    BY <1>4, <2>1, <2>2
  <2>5. g \in [D -> R] /\ g[d] = F[g][d]
    BY <2>1, <2>2
  <2> HIDE DEF h
  <2> QED
    BY <1>0, <1>5, <2>3, <2>4, <2>5
<1>7. h = F[h]
  <2>1. F[h] \in [D -> R]
    BY <1>0, <1>5
  <2> HIDE DEF h
  <2> QED
    BY <1>5, <1>6, <2>1
<1> QED
  BY <1>5, <1>7

(* Two sequences, each with a first element that is marked, or without any *)
(* that is: what comes before the mark is the same if the whole is.        *)
LEMMA SplitAtMark ==
  ASSUME NEW E, NEW S, NEW x, NEW y, NEW u, NEW v, SameConcat(E, x, y, u, v),
         \A i \in 1..Len(x) : x[i] \notin S, \A i \in 1..Len(y) : y[i] \notin S,
         u = <<>> \/ u[1] \in S, v = <<>> \/ v[1] \in S
  PROVE  x = y /\ u = v
<1>0. x \in Seq(E) /\ y \in Seq(E) /\ u \in Seq(E) /\ v \in Seq(E) /\ x \o u = y \o v
  BY DEF SameConcat
<1>1. /\ Len(x) \in Nat /\ Len(y) \in Nat /\ Len(u) \in Nat /\ Len(v) \in Nat
      /\ Len(x) + Len(u) = Len(y) + Len(v)
  <2>1. Len(x \o u) = Len(x) + Len(u) /\ Len(y \o v) = Len(y) + Len(v)
    BY <1>0, ConcatProperties
  <2> QED
    BY <1>0, <2>1
<1>2. ASSUME Len(x) < Len(y) PROVE FALSE
  <2>1. Len(u) > 0 /\ u[1] \in S
    BY <1>0, <1>1, <1>2
  <2>2. (x \o u)[Len(x) + 1] = u[1]
    <3>1. Len(x) + 1 \in 1..(Len(x) + Len(u)) /\ ~(Len(x) + 1 <= Len(x)) /\ (Len(x) + 1) - Len(x) = 1
      BY <1>1, <2>1
    <3> QED
      BY <1>0, <3>1, ConcatProperties
  <2>3. (y \o v)[Len(x) + 1] = y[Len(x) + 1] /\ Len(x) + 1 \in 1..Len(y)
    BY <1>0, <1>1, <1>2
  <2> QED
    BY <1>0, <2>1, <2>2, <2>3
<1>3. ASSUME Len(y) < Len(x) PROVE FALSE
  <2>1. Len(v) > 0 /\ v[1] \in S
    BY <1>0, <1>1, <1>3
  <2>2. (y \o v)[Len(y) + 1] = v[1]
    BY <1>0, <1>1, <2>1
  <2>3. (x \o u)[Len(y) + 1] = x[Len(y) + 1] /\ Len(y) + 1 \in 1..Len(x)
    BY <1>0, <1>1, <1>3
  <2> QED
    BY <1>0, <2>1, <2>2, <2>3
<1>4. Len(x) = Len(y)
  BY <1>1, <1>2, <1>3
<1> QED
  BY <1>4, SameBeginnings

(* And what ends in a part that begins with its only marked element.       *)
LEMMA SplitAtLastMark ==
  ASSUME NEW E, NEW S, NEW x, NEW y, NEW u, NEW v, SameConcat(E, x, y, u, v),
         Len(u) > 0, Len(v) > 0, u[1] \in S, v[1] \in S,
         \A i \in 2..Len(u) : u[i] \notin S, \A i \in 2..Len(v) : v[i] \notin S
  PROVE  x = y /\ u = v
<1>0. x \in Seq(E) /\ y \in Seq(E) /\ u \in Seq(E) /\ v \in Seq(E) /\ x \o u = y \o v
  BY DEF SameConcat
<1>1. /\ Len(x) \in Nat /\ Len(y) \in Nat /\ Len(u) \in Nat /\ Len(v) \in Nat
      /\ Len(x) + Len(u) = Len(y) + Len(v)
  <2>1. Len(x \o u) = Len(x) + Len(u) /\ Len(y \o v) = Len(y) + Len(v)
    BY <1>0, ConcatProperties
  <2> QED
    BY <1>0, <2>1
<1>2. ASSUME Len(x) < Len(y) PROVE FALSE
  <2> DEFINE k == (Len(y) + 1) - Len(x)
  <2>1. k \in 2..Len(u) /\ Len(x) + k = Len(y) + 1
    BY <1>1, <1>2
  <2>2. (x \o u)[Len(y) + 1] = u[k]
    BY <1>0, <1>1, <2>1
  <2>3. (y \o v)[Len(y) + 1] = v[1]
    BY <1>0, <1>1
  <2> QED
    BY <1>0, <2>1, <2>2, <2>3
<1>3. ASSUME Len(y) < Len(x) PROVE FALSE
  <2> DEFINE k == (Len(x) + 1) - Len(y)
  <2>1. k \in 2..Len(v) /\ Len(y) + k = Len(x) + 1
    BY <1>1, <1>3
  <2>2. (y \o v)[Len(x) + 1] = v[k]
    BY <1>0, <1>1, <2>1
  <2>3. (x \o u)[Len(x) + 1] = u[1]
    BY <1>0, <1>1
  <2> QED
    BY <1>0, <2>1, <2>2, <2>3
<1>4. Len(x) = Len(y)
  BY <1>1, <1>2, <1>3
<1> QED
  BY <1>4, SameBeginnings

(* What F writes of two last elements is the same only if what is before   *)
(* is, and if R relates them.                                              *)
ToldApart(C, E, F, R) ==
  \A c, d \in C : \A x, y \in Seq(E) : x \o F[c] = y \o F[d] => x = y /\ <<c, d>> \in R

(* Then R relates the elements of any two sequences F writes the same of.  *)
LEMMA WrittenAlike ==
  ASSUME NEW C, NEW E, NEW F \in [C -> Seq(E)], NEW R, ToldApart(C, E, F, R),
         \A c \in C : F[c] # <<>>,
         NEW s \in Seq(C), NEW t \in Seq(C), FlatMap(F, s) = FlatMap(F, t)
  PROVE  Related(s, t, R)
<1> DEFINE Told(a) == \A b \in Seq(C) : FlatMap(F, a) = FlatMap(F, b) => Related(a, b, R)
           T == {a \in Seq(C) : Told(a)}
<1>a. ASSUME NEW a \in Seq(C), NEW c \in C
      PROVE  /\ FlatMap(F, Append(a, c)) = FlatMap(F, a) \o F[c]
             /\ FlatMap(F, a) \in Seq(E) /\ F[c] \in Seq(E)
             /\ FlatMap(F, Append(a, c)) # <<>>
  <2>1. FlatMap(F, Append(a, c)) = FlatMap(F, a) \o F[c]
    BY FlatMapAppend
  <2>2. FlatMap(F, a) \in Seq(E)
    BY FlatMapType
  <2>3. F[c] \in Seq(E) /\ F[c] # <<>>
    OBVIOUS
  <2>4. FlatMap(F, a) \o F[c] # <<>>
    BY <2>2, <2>3, ConcatEqualIffEmpty
  <2> QED
    BY <2>1, <2>2, <2>3, <2>4
<1>b. FlatMap(F, <<>>) = <<>>
  BY FlatMapEmpty, Zenon
<1>1. <<>> \in T
  <2> SUFFICES ASSUME NEW b \in Seq(C), FlatMap(F, <<>>) = FlatMap(F, b)
               PROVE  Related(<<>>, b, R)
    BY EmptyIsSeq, Zenon
  <2>1. b = <<>>
    <3> SUFFICES ASSUME b # <<>> PROVE FALSE
      OBVIOUS
    <3>1. PICK z \in Seq(C), d \in C : b = Append(z, d)
      BY SequenceEmptyOrAppend
    <3> QED
      BY <1>a, <1>b, <3>1, Zenon
  <2> QED
    BY <2>1 DEF Related
<1>2. ASSUME NEW a \in Seq(C), NEW c \in C, a \in T PROVE Append(a, c) \in T
  <2> SUFFICES ASSUME NEW b \in Seq(C), FlatMap(F, Append(a, c)) = FlatMap(F, b)
               PROVE  Related(Append(a, c), b, R)
    BY AppendProperties, Zenon
  <2>1. b # <<>>
    BY <1>a, <1>b, Zenon
  <2>2. PICK z \in Seq(C), d \in C : b = Append(z, d)
    BY <2>1, SequenceEmptyOrAppend
  <2>3. FlatMap(F, b) = FlatMap(F, z) \o F[d] /\ FlatMap(F, z) \in Seq(E)
    BY <1>a, <2>2, Zenon
  <2>4. FlatMap(F, Append(a, c)) = FlatMap(F, a) \o F[c] /\ FlatMap(F, a) \in Seq(E)
    BY <1>a, Zenon
  <2>5. FlatMap(F, a) = FlatMap(F, z) /\ <<c, d>> \in R
    BY <2>3, <2>4, Zenon DEF ToldApart
  <2>6. Related(a, z, R)
    BY <1>2, <2>5
  <2>7. Len(Append(a, c)) = Len(a) + 1 /\ Len(b) = Len(z) + 1 /\ Len(a) = Len(z) /\ Len(a) \in Nat
    BY <2>2, <2>6 DEF Related
  <2>8. ASSUME NEW j \in 1..(Len(a) + 1) PROVE <<Append(a, c)[j], b[j]>> \in R
    <3>1. CASE j = Len(a) + 1
      <4>1. Append(a, c)[j] = c /\ b[j] = d
        BY <2>2, <2>7, <3>1
      <4> QED
        BY <2>5, <4>1
    <3>2. CASE j # Len(a) + 1
      <4>1. Append(a, c)[j] = a[j] /\ b[j] = z[j] /\ j \in 1..Len(a)
        BY <2>2, <2>7, <3>2
      <4> QED
        BY <2>6, <4>1 DEF Related
    <3> QED
      BY <3>1, <3>2
  <2> QED
    BY <2>7, <2>8 DEF Related
<1>3. Seq(C) \subseteq T
  <2> HIDE DEF T
  <2> QED
    BY <1>1, <1>2, SequencesBySteps
<1> QED
  BY <1>3

-----------------------------------------------------------------------------
(* x is what is left of y when some of its elements are taken out: e says  *)
(* where in y each element of x is.                                        *)
Places(x, y, e) ==
  /\ e \in [1..Len(x) -> 1..Len(y)]
  /\ \A i, j \in 1..Len(x) : i < j => e[i] < e[j]
  /\ \A i \in 1..Len(x) : x[i] = y[e[i]]

LeftOf(x, y) == \E e : Places(x, y, e)

LEMMA LeftOfItself ==
  ASSUME NEW E, NEW x \in Seq(E)
  PROVE  LeftOf(x, x) /\ LeftOf(<<>>, x)
<1>1. Places(x, x, [i \in 1..Len(x) |-> i])
  BY DEF Places
<1>2. Places(<<>>, x, [i \in 1..0 |-> i])
  BY DEF Places
<1> QED
  BY <1>1, <1>2 DEF LeftOf

LEMMA LeftOfConcat ==
  ASSUME NEW E, NEW x \in Seq(E), NEW u \in Seq(E), NEW y \in Seq(E), NEW v \in Seq(E),
         LeftOf(x, y), LeftOf(u, v)
  PROVE  LeftOf(x \o u, y \o v)
<1> DEFINE n == Len(x)
           m == Len(y)
<1>1. PICK e : Places(x, y, e)
  BY DEF LeftOf
<1>2. PICK f : Places(u, v, f)
  BY DEF LeftOf
<1> DEFINE g == [i \in 1..(n + Len(u)) |-> IF i <= n THEN e[i] ELSE m + f[i - n]]
<1>3. /\ n \in Nat /\ m \in Nat /\ Len(u) \in Nat /\ Len(v) \in Nat
      /\ Len(x \o u) = n + Len(u) /\ Len(y \o v) = m + Len(v)
  BY ConcatProperties
<1>4. \A i \in 1..(n + Len(u)) :
        \/ i \in 1..n /\ g[i] = e[i] /\ e[i] \in 1..m
        \/ i - n \in 1..Len(u) /\ ~(i <= n) /\ g[i] = m + f[i - n] /\ f[i - n] \in 1..Len(v)
  <2> SUFFICES ASSUME NEW i \in 1..(n + Len(u))
               PROVE  \/ i \in 1..n /\ g[i] = e[i] /\ e[i] \in 1..m
                      \/ /\ i - n \in 1..Len(u) /\ ~(i <= n)
                         /\ g[i] = m + f[i - n] /\ f[i - n] \in 1..Len(v)
    OBVIOUS
  <2>1. e \in [1..n -> 1..m] /\ f \in [1..Len(u) -> 1..Len(v)]
    BY <1>1, <1>2 DEF Places
  <2>2. g[i] = IF i <= n THEN e[i] ELSE m + f[i - n]
    OBVIOUS
  <2> HIDE DEF n, m, g
  <2>3. i \in 1..n \/ (i - n \in 1..Len(u) /\ ~(i <= n))
    BY <1>3
  <2>4. CASE i \in 1..n
    <3>1. i <= n
      BY <1>3, <2>4
    <3> QED
      BY <2>1, <2>2, <2>4, <3>1
  <2>5. CASE i - n \in 1..Len(u) /\ ~(i <= n)
    <3>1. f[i - n] \in 1..Len(v)
      BY <2>1, <2>5
    <3> QED
      BY <2>2, <2>5, <3>1
  <2> QED
    BY <2>3, <2>4, <2>5
<1> HIDE DEF n, m
<1>5. g \in [1..(n + Len(u)) -> 1..(m + Len(v))]
  <2>1. \A i \in 1..(n + Len(u)) : g[i] \in 1..(m + Len(v))
    BY <1>3, <1>4
  <2> QED
    BY <2>1
<1> HIDE DEF g
<1>6. ASSUME NEW i \in 1..(n + Len(u)), NEW j \in 1..(n + Len(u)), i < j
      PROVE  g[i] < g[j]
  <2>1. CASE j \in 1..n /\ g[j] = e[j]
    <3>1. i \in 1..n /\ g[i] = e[i]
      BY <1>3, <1>4, <1>6, <2>1
    <3> QED
      BY <1>1, <1>6, <2>1, <3>1 DEF Places, n
  <2>2. CASE j - n \in 1..Len(u) /\ g[j] = m + f[j - n] /\ f[j - n] \in 1..Len(v)
    <3>1. CASE i \in 1..n /\ g[i] = e[i] /\ e[i] \in 1..m
      BY <1>3, <2>2, <3>1
    <3>2. CASE i - n \in 1..Len(u) /\ g[i] = m + f[i - n] /\ f[i - n] \in 1..Len(v)
      <4>1. i - n < j - n
        BY <1>3, <1>6
      <4>2. f[i - n] < f[j - n]
        BY <1>2, <2>2, <3>2, <4>1 DEF Places
      <4> QED
        BY <1>3, <2>2, <3>2, <4>2
    <3> QED
      BY <1>4, <3>1, <3>2
  <2> QED
    BY <1>4, <2>1, <2>2
<1>7. ASSUME NEW i \in 1..(n + Len(u)) PROVE (x \o u)[i] = (y \o v)[g[i]]
  <2>1. CASE i \in 1..n /\ g[i] = e[i] /\ e[i] \in 1..m
    <3>1. (x \o u)[i] = x[i] /\ (y \o v)[g[i]] = y[e[i]]
      BY <1>3, <2>1 DEF n, m
    <3> QED
      BY <1>1, <2>1, <3>1 DEF Places, n
  <2>2. CASE i - n \in 1..Len(u) /\ ~(i <= n) /\ g[i] = m + f[i - n] /\ f[i - n] \in 1..Len(v)
    <3>1. (x \o u)[i] = u[i - n]
      BY <1>3, <2>2 DEF n
    <3>2. g[i] \in 1..(m + Len(v)) /\ ~(g[i] <= m) /\ g[i] - m = f[i - n]
      BY <1>3, <2>2
    <3>3. (y \o v)[g[i]] = v[f[i - n]]
      BY <1>3, <3>2 DEF m
    <3> QED
      BY <1>2, <2>2, <3>1, <3>3 DEF Places
  <2> QED
    BY <1>4, <2>1, <2>2
<1>8. Places(x \o u, y \o v, g)
  BY <1>3, <1>5, <1>6, <1>7 DEF Places
<1> QED
  BY <1>8 DEF LeftOf

(* So it is for what F and G make of a sequence, if it is for each element.*)
LEMMA FlatMapLeftOf ==
  ASSUME NEW C, NEW E, NEW F \in [C -> Seq(E)], NEW G \in [C -> Seq(E)],
         \A c \in C : LeftOf(F[c], G[c]), NEW s \in Seq(C)
  PROVE  LeftOf(FlatMap(F, s), FlatMap(G, s))
<1> DEFINE T == {t \in Seq(C) : LeftOf(FlatMap(F, t), FlatMap(G, t))}
<1>1. <<>> \in T
  <2>1. FlatMap(F, <<>>) = <<>> /\ FlatMap(G, <<>>) = <<>>
    BY FlatMapEmpty, Zenon
  <2>2. <<>> \in Seq(E)
    BY EmptyIsSeq
  <2>3. LeftOf(<<>>, <<>>)
    BY <2>2, LeftOfItself
  <2> QED
    BY <2>1, <2>3, EmptyIsSeq, Zenon
<1>2. ASSUME NEW t \in Seq(C), NEW c \in C, t \in T PROVE Append(t, c) \in T
  <2>1. FlatMap(F, Append(t, c)) = FlatMap(F, t) \o F[c]
    BY FlatMapAppend
  <2>2. FlatMap(G, Append(t, c)) = FlatMap(G, t) \o G[c]
    BY FlatMapAppend
  <2>3. FlatMap(F, t) \in Seq(E)
    BY FlatMapType
  <2>4. FlatMap(G, t) \in Seq(E)
    BY FlatMapType
  <2>5. F[c] \in Seq(E) /\ G[c] \in Seq(E)
    OBVIOUS
  <2>6. LeftOf(FlatMap(F, t), FlatMap(G, t)) /\ LeftOf(F[c], G[c])
    BY <1>2, Zenon
  <2>7. LeftOf(FlatMap(F, t) \o F[c], FlatMap(G, t) \o G[c])
    BY <2>3, <2>4, <2>5, <2>6, LeftOfConcat
  <2>8. Append(t, c) \in Seq(C)
    OBVIOUS
  <2> QED
    BY <2>1, <2>2, <2>7, <2>8, Zenon
<1>3. Seq(C) \subseteq T
  <2> HIDE DEF T
  <2> QED
    BY <1>1, <1>2, SequencesBySteps
<1> QED
  BY <1>3

=============================================================================
