----------------------------- MODULE QueueLemmas ----------------------------
(***************************************************************************)
(* What the proofs about the queues and the small units need of numbers,   *)
(* remainders, sequences and finite sets.                                  *)
(***************************************************************************)
EXTENDS Integers, Sequences, SequenceTheorems, FiniteSetTheorems, TLAPS

-----------------------------------------------------------------------------
(* Induction, and powers of two.                                           *)

\* A set of numbers that is not empty has a least one.
LEMMA Least ==
  ASSUME NEW T \in SUBSET Nat, T # {}
  PROVE  \E e \in T : \A f \in T : e <= f
<1> DEFINE R == OpToRel(<, Nat)
<1>1. IsWellFoundedOn(R, Nat)
  BY NatLessThanWellFounded
<1>2. R = {p \in Nat \X Nat : p[1] < p[2]}
  BY DEF OpToRel
<1> HIDE DEF R
<1>3. PICK e \in T : \A f \in T : ~(<<f, e>> \in R)
  BY <1>1, WFMin
<1>4. ASSUME NEW f \in T
      PROVE  e <= f
  <2>1. e \in Nat /\ f \in Nat /\ ~(<<f, e>> \in {p \in Nat \X Nat : p[1] < p[2]})
    BY <1>2, <1>3
  <2>2. ~(f < e)
    BY <2>1
  <2>3. QED
    BY <2>1, <2>2
<1>5. QED
  BY <1>4

\* What holds at m and of a number whenever it holds of the one before it
\* holds of all from m on.
LEMMA Onwards ==
  ASSUME NEW S, NEW m \in Nat, m \in S,
         \A i \in Nat : m <= i /\ i \in S => i + 1 \in S
  PROVE  \A i \in Nat : m <= i => i \in S
<1> DEFINE T == {i \in Nat : m <= i /\ i \notin S}
<1> SUFFICES ASSUME T # {}
             PROVE  FALSE
  OBVIOUS
<1>1. PICK e \in T : \A f \in T : e <= f
  BY Least
<1>2. e \in Nat /\ e # m /\ m <= e - 1 /\ e - 1 \in Nat
  OBVIOUS
<1>3. e - 1 \in S
  BY <1>1, <1>2
<1>4. (e - 1) + 1 \in S
  BY <1>2, <1>3
<1>5. QED
  BY <1>2, <1>4

\* Each subset of 1 .. n is two of 1 .. n + 1.
LEMMA PowerNext ==
  ASSUME NEW n \in Nat
  PROVE  2^n \in Nat /\ 2^(n + 1) = 2 * 2^n
<1> DEFINE S == 1 .. n
           T == 1 .. n + 1
           A == SUBSET S
           B == {X \cup {n + 1} : X \in A}
<1>1. IsFiniteSet(S) /\ Cardinality(S) = n /\ IsFiniteSet(T) /\ Cardinality(T) = n + 1
  BY FS_Interval
<1>2. IsFiniteSet(A) /\ Cardinality(A) = 2^n /\ Cardinality(SUBSET T) = 2^(n + 1)
  BY <1>1, FS_SUBSET
<1>3. SUBSET T = A \cup B
  <2>1. T = S \cup {n + 1} /\ n + 1 \notin S
    OBVIOUS
  <2>2. ASSUME NEW X \in SUBSET T, n + 1 \in X
        PROVE  X \in B
    <3>1. X \ {n + 1} \in A /\ X = (X \ {n + 1}) \cup {n + 1}
      BY <2>1, <2>2
    <3>2. QED
      BY <3>1
  <2>3. QED
    BY <2>1, <2>2
<1>4. A \cap B = {}
  OBVIOUS
<1>5. IsFiniteSet(B) /\ Cardinality(B) = Cardinality(A)
  <2> DEFINE f == [X \in A |-> X \cup {n + 1}]
  <2>1. f \in [A -> B] /\ \A Y \in B : \E X \in A : f[X] = Y
    OBVIOUS
  <2>2. ASSUME NEW X \in A, NEW Y \in A, f[X] = f[Y]
        PROVE  X = Y
    <3>1. n + 1 \notin X /\ n + 1 \notin Y
      OBVIOUS
    <3>2. X \cup {n + 1} = Y \cup {n + 1}
      BY <2>2
    <3>3. X = (X \cup {n + 1}) \ {n + 1} /\ Y = (Y \cup {n + 1}) \ {n + 1}
      BY <3>1
    <3>4. QED
      BY <3>2, <3>3
  <2>3. f \in Bijection(A, B)
    BY <2>1, <2>2 DEF Bijection, Injection, Surjection, IsInjective
  <2>4. ExistsBijection(A, B)
    BY <2>3 DEF ExistsBijection
  <2>5. QED
    BY <2>4, <1>2, FS_Bijection
<1> HIDE DEF A, B
<1>6. Cardinality(A \cup B) = Cardinality(A) + Cardinality(B) - Cardinality(A \cap B)
  BY <1>2, <1>5, FS_Union
<1>7. Cardinality(A \cap B) = 0
  BY <1>4, FS_EmptySet
<1>8. Cardinality(A) \in Nat
  BY <1>2, FS_CardinalityType
<1>9. Cardinality(A \cup B) = Cardinality(A) + Cardinality(A)
  BY <1>5, <1>6, <1>7, <1>8
<1>10. 2^(n + 1) = Cardinality(A) + Cardinality(A)
  BY <1>2, <1>3, <1>9
<1>11. QED
  BY <1>2, <1>8, <1>10

LEMMA PowerPositive ==
  ASSUME NEW n \in Nat
  PROVE  2^n \in Nat \ {0}
<1> DEFINE S == {i \in Nat : 2^i \in Nat \ {0}}
<1>1. 0 \in S
  OBVIOUS
<1>2. \A i \in Nat : i \in S => i + 1 \in S
  BY PowerNext
<1> HIDE DEF S
<1>3. \A i \in Nat : i \in S
  BY <1>1, <1>2, Onwards
<1>4. QED
  BY <1>3 DEF S

-----------------------------------------------------------------------------
(* Pointers that wrap.                                                     *)

\* A pointer p moved on by k, which is less than the modulus.
LEMMA Moved ==
  ASSUME NEW M \in Nat \ {0}, NEW p \in 0 .. M - 1, NEW k \in 0 .. M - 1
  PROVE  (p + k) % M = IF p + k < M THEN p + k ELSE p + k - M
  BY SMT

\* How far pointer q is from pointer p, on the circle.
LEMMA Distance ==
  ASSUME NEW M \in Nat \ {0}, NEW p \in 0 .. M - 1, NEW q \in 0 .. M - 1
  PROVE  (q - p) % M = IF p <= q THEN q - p ELSE q - p + M
<1>1. CASE p <= q
  BY <1>1, SMT
<1>2. CASE q < p
  <2>1. q - p \in (1 - M) .. -1
    BY <1>2
  <2>2. QED
    BY <1>2, <2>1, SMT
<1>3. QED
  BY <1>1, <1>2

\* The word that is k words after a pointer that goes round twice.
LEMMA WordAfter ==
  ASSUME NEW M \in Nat \ {0}, NEW p \in 0 .. 2 * M - 1, NEW k \in 0 .. M
  PROVE  (p + k) % M = IF p + k < M THEN p + k
                       ELSE IF p + k < 2 * M THEN p + k - M ELSE p + k - 2 * M
<1>1. CASE p + k < M
  BY <1>1, SMT
<1>2. CASE M <= p + k /\ p + k < 2 * M
  BY <1>2, SMT
<1>3. CASE 2 * M <= p + k
  BY <1>3, SMT
<1>4. QED
  BY <1>1, <1>2, <1>3

\* Where a pointer is that has moved on by k.
Plus(p, k, M) == (p + k) % M

\* Moving on by nothing changes nothing.
LEMMA NotMoved ==
  ASSUME NEW M \in Nat \ {0}, NEW p \in 0 .. M - 1
  PROVE  Plus(p, 0, M) = p
  BY SMT DEF Plus

\* A pointer that has moved is a pointer.
LEMMA MovedType ==
  ASSUME NEW M \in Nat \ {0}, NEW p \in 0 .. M - 1, NEW k \in 0 .. M - 1
  PROVE  Plus(p, k, M) \in 0 .. M - 1
<1>1. (p + k) % M = IF p + k < M THEN p + k ELSE p + k - M
  BY Moved
<1>2. QED
  BY <1>1 DEF Plus

\* Moving on by k and then by l is moving on by their sum.
LEMMA MovedOn ==
  ASSUME NEW M \in Nat \ {0}, NEW p \in 0 .. M - 1,
         NEW k \in 0 .. M - 1, NEW l \in 0 .. M - 1, NEW t \in 0 .. M - 1, t = k + l
  PROVE  Plus(Plus(p, k, M), l, M) = Plus(p, t, M)
<1>1. /\ (p + k) % M = IF p + k < M THEN p + k ELSE p + k - M
      /\ (p + t) % M = IF p + t < M THEN p + t ELSE p + t - M
  BY Moved
<1>2. PICK q \in 0 .. M - 1 : q = (p + k) % M
  BY <1>1
<1>3. (q + l) % M = IF q + l < M THEN q + l ELSE q + l - M
  BY Moved
<1>4. QED
  BY <1>1, <1>2, <1>3 DEF Plus

\* The two ends of n words from p on, when the oldest word leaves or not, and
\* a word is added or not: k words are left.
LEMMA Ends ==
  ASSUME NEW M \in Nat \ {0}, NEW p \in 0 .. M - 1, NEW n \in 0 .. M - 1,
         NEW gone \in 0 .. 1, NEW more \in 0 .. 1, NEW k \in 0 .. M - 1,
         gone + k = n + more, n + more < M
  PROVE  Plus(Plus(p, n, M), more, M) = Plus(Plus(p, gone, M), k, M)
<1>1. CASE M = 1
  <2>1. n = 0 /\ more = 0 /\ gone = 0 /\ k = 0 /\ p = 0
    BY <1>1
  <2>2. Plus(p, 0, M) = p
    BY NotMoved
  <2>3. QED
    BY <2>1, <2>2
<1>2. CASE M # 1
  <2>1. gone \in 0 .. M - 1 /\ more \in 0 .. M - 1
    BY <1>2
  <2>2. PICK t \in 0 .. M - 1 : t = n + more /\ t = gone + k
    OBVIOUS
  <2>3. Plus(Plus(p, n, M), more, M) = Plus(p, t, M)
    BY <2>1, <2>2, MovedOn
  <2>4. Plus(Plus(p, gone, M), k, M) = Plus(p, t, M)
    BY <2>1, <2>2, MovedOn
  <2>5. QED
    BY <2>3, <2>4
<1>3. QED
  BY <1>1, <1>2

\* The slot of a word is a slot.
LEMMA SlotType ==
  ASSUME NEW M \in Nat \ {0}, NEW p \in 0 .. 2 * M - 1, NEW k \in 0 .. M
  PROVE  Plus(p, k, M) \in 0 .. M - 1
<1>1. (p + k) % M = IF p + k < M THEN p + k
                    ELSE IF p + k < 2 * M THEN p + k - M ELSE p + k - 2 * M
  BY WordAfter
<1>2. QED
  BY <1>1 DEF Plus

\* The slot of a pointer that has moved on by k.
LEMMA SlotMovedOn ==
  ASSUME NEW M \in Nat \ {0}, NEW p \in 0 .. 2 * M - 1, NEW k \in 0 .. M
  PROVE  Plus(p, k, 2 * M) % M = Plus(p, k, M)
<1>1. PICK D \in Nat \ {0} : D = 2 * M
  OBVIOUS
<1>2. PICK q \in 0 .. D - 1 : /\ q = (p + k) % D
                             /\ q = IF p + k < D THEN p + k ELSE p + k - D
  <2>1. p \in 0 .. D - 1 /\ k \in 0 .. D - 1
    BY <1>1
  <2>2. (p + k) % D = IF p + k < D THEN p + k ELSE p + k - D
    BY <2>1, Moved
  <2>3. QED
    BY <2>1, <2>2
<1>3. q % M = IF q < M THEN q ELSE q - M
  <2>1. CASE q < M
    BY <1>1, <2>1, SMT
  <2>2. CASE M <= q
    BY <1>1, <2>2, SMT
  <2>3. QED
    BY <1>1, <2>1, <2>2
<1>4. (p + k) % M = IF p + k < M THEN p + k
                    ELSE IF p + k < 2 * M THEN p + k - M ELSE p + k - 2 * M
  BY WordAfter
<1>5. q % M = (p + k) % M
  BY <1>1, <1>2, <1>3, <1>4
<1>6. QED
  BY <1>1, <1>2, <1>5 DEF Plus

\* The slot of the word that is k words after a pointer that has moved on by
\* one word, or not.
LEMMA SlotOfNext ==
  ASSUME NEW M \in Nat \ {0}, NEW p \in 0 .. 2 * M - 1, NEW gone \in 0 .. 1,
         NEW k \in 0 .. M, NEW j \in 0 .. M, j = k + gone
  PROVE  Plus(Plus(p, gone, 2 * M), k, M) = Plus(p, j, M)
<1>1. PICK D \in Nat \ {0} : D = 2 * M
  OBVIOUS
<1>2. PICK q \in 0 .. 2 * M - 1 : /\ q = Plus(p, gone, 2 * M)
                                 /\ q = IF p + gone < D THEN p + gone ELSE p + gone - D
  <2>1. p \in 0 .. D - 1 /\ gone \in 0 .. D - 1
    BY <1>1
  <2>2. (p + gone) % D = IF p + gone < D THEN p + gone ELSE p + gone - D
    BY <2>1, Moved
  <2>3. QED
    BY <1>1, <2>1, <2>2 DEF Plus
<1>3. (q + k) % M = IF q + k < M THEN q + k
                    ELSE IF q + k < 2 * M THEN q + k - M ELSE q + k - 2 * M
  BY WordAfter
<1>4. (p + j) % M = IF p + j < M THEN p + j
                    ELSE IF p + j < 2 * M THEN p + j - M ELSE p + j - 2 * M
  BY WordAfter
<1>5. (q + k) % M = (p + j) % M
  BY <1>1, <1>2, <1>3, <1>4
<1>6. QED
  BY <1>2, <1>5 DEF Plus

\* Two words less than M apart are in different slots.
LEMMA SlotsDiffer ==
  ASSUME NEW M \in Nat \ {0}, NEW p \in 0 .. 2 * M - 1,
         NEW i \in 0 .. M, NEW k \in 0 .. M, i < k, k - i < M
  PROVE  Plus(p, i, M) # Plus(p, k, M)
<1>1. (p + i) % M = IF p + i < M THEN p + i
                    ELSE IF p + i < 2 * M THEN p + i - M ELSE p + i - 2 * M
  BY WordAfter
<1>2. (p + k) % M = IF p + k < M THEN p + k
                    ELSE IF p + k < 2 * M THEN p + k - M ELSE p + k - 2 * M
  BY WordAfter
<1>3. QED
  BY <1>1, <1>2 DEF Plus

\* Two different distances end at different places.
LEMMA EndsDiffer ==
  ASSUME NEW M \in Nat \ {0}, NEW p \in 0 .. M - 1,
         NEW i \in 0 .. M - 1, NEW k \in 0 .. M - 1, i # k
  PROVE  Plus(p, k, M) # Plus(p, i, M)
<1>1. /\ (p + i) % M = IF p + i < M THEN p + i ELSE p + i - M
      /\ (p + k) % M = IF p + k < M THEN p + k ELSE p + k - M
  BY Moved
<1>2. QED
  BY <1>1 DEF Plus

\* N words from p on and N words more are a full circle of 2 * N, and no other
\* distance from p with N words more is.
LEMMA FullCircle ==
  ASSUME NEW N \in Nat \ {0}, NEW M \in Nat \ {0}, M = 2 * N,
         NEW p \in 0 .. M - 1, NEW k \in 0 .. N
  PROVE  Plus(Plus(p, k, M), N, M) = p <=> k = N
<1>1. k \in 0 .. M - 1 /\ N \in 0 .. M - 1
  OBVIOUS
<1>2. (p + k) % M = IF p + k < M THEN p + k ELSE p + k - M
  BY <1>1, Moved
<1>3. PICK q \in 0 .. M - 1 : q = (p + k) % M
  BY <1>1, <1>2
<1>4. (q + N) % M = IF q + N < M THEN q + N ELSE q + N - M
  BY <1>1, Moved
<1>5. QED
  BY <1>1, <1>2, <1>3, <1>4 DEF Plus

\* How far a pointer has moved.
LEMMA HasMoved ==
  ASSUME NEW M \in Nat \ {0}, NEW p \in 0 .. M - 1, NEW k \in 0 .. M - 1
  PROVE  (Plus(p, k, M) - p) % M = k
<1>1. (p + k) % M = IF p + k < M THEN p + k ELSE p + k - M
  BY Moved
<1>2. PICK q \in 0 .. M - 1 : q = (p + k) % M
  BY <1>1
<1>3. (q - p) % M = IF p <= q THEN q - p ELSE q - p + M
  BY Distance
<1>4. QED
  BY <1>1, <1>2, <1>3 DEF Plus

\* The words that stay when the oldest one leaves, or none does.
LEMMA Rest ==
  ASSUME NEW S, NEW q \in Seq(S), NEW gone \in 0 .. 1, gone <= Len(q)
  PROVE  /\ SubSeq(q, gone + 1, Len(q)) \in Seq(S)
         /\ Len(SubSeq(q, gone + 1, Len(q))) = Len(q) - gone
         /\ \A i \in 1 .. Len(q) - gone : SubSeq(q, gone + 1, Len(q))[i] = q[i + gone]
  BY SMT

\* A word that is pushed, if any, is the last.
LEMMA Added ==
  ASSUME NEW S, NEW q \in Seq(S),
         NEW pushed, pushed = <<>> \/ \E w \in S : pushed = <<w>>
  PROVE  /\ q \o pushed \in Seq(S)
         /\ \A i \in 1 .. Len(q) : (q \o pushed)[i] = q[i]
         /\ Len(q \o pushed) = Len(q) + Len(pushed)
         /\ pushed # <<>> => (q \o pushed)[Len(q) + 1] = pushed[1]
         /\ Len(pushed) = IF pushed = <<>> THEN 0 ELSE 1
         /\ pushed \in Seq(S)
<1>1. CASE pushed = <<>>
  <2>1. q \o pushed = q
    BY <1>1, ConcatEmptySeq
  <2>2. Len(pushed) = 0 /\ pushed \in Seq(S) /\ Len(q) \in Nat
    BY <1>1, SMT
  <2>3. QED
    BY <1>1, <2>1, <2>2
<1>2. CASE pushed # <<>>
  <2>1. PICK w \in S : pushed = <<w>>
    BY <1>2
  <2>2. pushed \in Seq(S) /\ Len(pushed) = 1 /\ pushed[1] = w
    BY <2>1, SMT
  <2>3. q \o pushed = Append(q, w)
    BY <2>1, AppendIsConcat
  <2>4. /\ Append(q, w) \in Seq(S) /\ Len(Append(q, w)) = Len(q) + 1
        /\ Append(q, w)[Len(q) + 1] = w
        /\ \A i \in 1 .. Len(q) : Append(q, w)[i] = q[i]
    BY AppendProperties
  <2>5. QED
    BY <1>2, <2>2, <2>3, <2>4
<1>3. QED
  BY <1>1, <1>2

\* A function on the positions of a sequence that has its words is the sequence.
LEMMA SameWords ==
  ASSUME NEW S, NEW q \in Seq(S), NEW f, DOMAIN f = 1 .. Len(q),
         f = [i \in DOMAIN f |-> f[i]], \A i \in 1 .. Len(q) : f[i] = q[i]
  PROVE  f = q
<1>1. q = [i \in 1 .. Len(q) |-> q[i]]
  BY SMT
<1>2. QED
  BY <1>1

-----------------------------------------------------------------------------
(* A queue of up to K words in a ring of K slots, its pointers going round *)
(* twice.                                                                  *)

\* From slot r on, the array m has the words of q, and w is behind the last one.
Ring(S, K, r, w, m, q) ==
  /\ r \in 0 .. 2 * K - 1 /\ m \in [0 .. K - 1 -> S]
  /\ q \in Seq(S) /\ Len(q) <= K
  /\ w = Plus(r, Len(q), 2 * K)
  /\ \A i \in 1 .. Len(q) : m[Plus(r, i - 1, K)] = q[i]

\* Two pointers that move on together keep their distance.
LEMMA MoveTogether ==
  ASSUME NEW M \in Nat \ {0}, NEW p \in 0 .. M - 1, NEW n \in 0 .. M - 1, M > 1
  PROVE  Plus(Plus(p, n, M), 1, M) = Plus(Plus(p, 1, M), n, M)
<1>1. /\ (p + n) % M = IF p + n < M THEN p + n ELSE p + n - M
      /\ (p + 1) % M = IF p + 1 < M THEN p + 1 ELSE p + 1 - M
  <2>1. 1 \in 0 .. M - 1
    OBVIOUS
  <2>2. QED
    BY <2>1, Moved
<1>2. PICK a \in 0 .. M - 1, b \in 0 .. M - 1 : a = (p + n) % M /\ b = (p + 1) % M
  BY <1>1
<1>3. /\ (a + 1) % M = IF a + 1 < M THEN a + 1 ELSE a + 1 - M
      /\ (b + n) % M = IF b + n < M THEN b + n ELSE b + n - M
  <2>1. 1 \in 0 .. M - 1
    OBVIOUS
  <2>2. QED
    BY <2>1, Moved
<1>4. QED
  BY <1>1, <1>2, <1>3 DEF Plus

\* Where the pointers are after a cycle in which the oldest word leaves or
\* not, and a word is added or not.
LEMMA RingEnds ==
  ASSUME NEW K \in Nat \ {0}, NEW r \in 0 .. 2 * K - 1, NEW n \in 0 .. K,
         NEW gone \in 0 .. 1, gone <= n, NEW more \in 0 .. 1,
         NEW k \in 0 .. K, gone + k = n + more
  PROVE  Plus(Plus(r, n, 2 * K), more, 2 * K) = Plus(Plus(r, gone, 2 * K), k, 2 * K)
<1>1. PICK M \in Nat \ {0} : M = 2 * K /\ K < M /\ M > 1
  OBVIOUS
<1>2. r \in 0 .. M - 1 /\ n \in 0 .. M - 1 /\ k \in 0 .. M - 1
  BY <1>1
<1>3. CASE gone = 1 /\ more = 1
  <2>1. k = n
    BY <1>3
  <2>2. QED
    BY <1>1, <1>2, <1>3, <2>1, MoveTogether
<1>4. CASE ~(gone = 1 /\ more = 1)
  <2>1. n + more < M
    BY <1>1, <1>4
  <2>2. Plus(Plus(r, n, M), more, M) = Plus(Plus(r, gone, M), k, M)
    BY <1>2, <2>1, Ends
  <2>3. QED
    BY <1>1, <2>2
<1>5. QED
  BY <1>3, <1>4

\* A cycle in which the oldest word leaves, if gone is 1, and a word is added,
\* if more is 1, makes p of the queue q, and n of the array m.
RingTakes(S, K, w, m, q, gone, more, pushed, n, p) ==
  /\ gone \in 0 .. 1 /\ gone <= Len(q)
  /\ pushed = <<>> \/ \E x \in S : pushed = <<x>>
  /\ more \in 0 .. 1 /\ more = IF pushed = <<>> THEN 0 ELSE 1
  /\ Len(q) - gone + more <= K
  /\ n = IF pushed = <<>> THEN m ELSE [m EXCEPT ![w % K] = pushed[1]]
  /\ p = SubSeq(q, gone + 1, Len(q)) \o pushed

\* A cycle leaves a queue in the ring, even if a full one takes a word while it
\* gives one: the new word is in the slot of the one that leaves.
LEMMA RingCycle ==
  ASSUME NEW S, NEW K \in Nat \ {0}, NEW r, NEW w, NEW m, NEW q, Ring(S, K, r, w, m, q),
         NEW gone, NEW more, NEW pushed, NEW n, NEW p,
         RingTakes(S, K, w, m, q, gone, more, pushed, n, p)
  PROVE  /\ Ring(S, K, Plus(r, gone, 2 * K), Plus(w, more, 2 * K), n, p)
         /\ Len(p) = Len(q) - gone + Len(pushed) /\ Len(pushed) = more
<1>0. /\ gone \in 0 .. 1 /\ gone <= Len(q)
      /\ pushed = <<>> \/ \E x \in S : pushed = <<x>>
      /\ more \in 0 .. 1 /\ more = IF pushed = <<>> THEN 0 ELSE 1
      /\ Len(q) - gone + more <= K
      /\ n = IF pushed = <<>> THEN m ELSE [m EXCEPT ![w % K] = pushed[1]]
      /\ p = SubSeq(q, gone + 1, Len(q)) \o pushed
  BY DEF RingTakes
<1>1. PICK l \in 0 .. K : l = Len(q)
  BY DEF Ring
<1>2. PICK k \in 0 .. K : k = l - gone + more
  <2>1. gone \in 0 .. 1 /\ more \in 0 .. 1 /\ gone <= l /\ l - gone + more <= K
    BY <1>0, <1>1
  <2>2. l - gone + more \in 0 .. K
    BY <2>1
  <2>3. QED
    BY <2>2
<1>3. /\ r \in 0 .. 2 * K - 1 /\ w = Plus(r, l, 2 * K) /\ q \in Seq(S)
      /\ m \in [0 .. K - 1 -> S]
      /\ \A i \in 1 .. l : m[Plus(r, i - 1, K)] = q[i]
  BY <1>1 DEF Ring
<1> DEFINE rest == SubSeq(q, gone + 1, Len(q))
<1>4. /\ rest \in Seq(S) /\ Len(rest) = l - gone
      /\ \A i \in 1 .. l - gone : rest[i] = q[i + gone]
  <2>1. /\ rest \in Seq(S) /\ Len(rest) = Len(q) - gone
        /\ \A i \in 1 .. Len(q) - gone : rest[i] = q[i + gone]
    BY <1>0, <1>3, Rest
  <2>2. QED
    BY <1>1, <2>1
<1> HIDE DEF rest
<1>5. /\ p \in Seq(S) /\ Len(p) = Len(rest) + Len(pushed)
      /\ \A i \in 1 .. Len(rest) : p[i] = rest[i]
      /\ pushed # <<>> => p[Len(rest) + 1] = pushed[1]
      /\ Len(pushed) = more
  <2>1. /\ rest \o pushed \in Seq(S)
        /\ \A i \in 1 .. Len(rest) : (rest \o pushed)[i] = rest[i]
        /\ Len(rest \o pushed) = Len(rest) + Len(pushed)
        /\ pushed # <<>> => (rest \o pushed)[Len(rest) + 1] = pushed[1]
        /\ Len(pushed) = IF pushed = <<>> THEN 0 ELSE 1
        /\ pushed \in Seq(S)
    BY <1>0, <1>4, Added
  <2>2. p = rest \o pushed
    BY <1>0 DEF rest
  <2>3. QED
    BY <1>0, <2>1, <2>2
<1>6. /\ Len(p) = k /\ p \in Seq(S)
      /\ \A i \in 1 .. l - gone : p[i] = q[i + gone]
      /\ more = 1 => p[l - gone + 1] = pushed[1]
  <2>1. Len(p) = k
    BY <1>2, <1>4, <1>5
  <2>2. \A i \in 1 .. l - gone : p[i] = q[i + gone]
    BY <1>4, <1>5
  <2>3. more = 1 => p[l - gone + 1] = pushed[1]
    <3>1. more = 1 => pushed # <<>>
      BY <1>0
    <3>2. Len(rest) + 1 = l - gone + 1
      BY <1>4
    <3>3. QED
      BY <1>5, <3>1, <3>2
  <2>4. QED
    BY <1>5, <2>1, <2>2, <2>3
<1>7. /\ Plus(r, gone, 2 * K) \in 0 .. 2 * K - 1
      /\ Plus(w, more, 2 * K) = Plus(Plus(r, gone, 2 * K), k, 2 * K)
  <2>1. gone \in 0 .. 1 /\ more \in 0 .. 1 /\ gone <= l /\ gone + k = l + more
    BY <1>0, <1>1, <1>2
  <2>2. Plus(Plus(r, l, 2 * K), more, 2 * K) = Plus(Plus(r, gone, 2 * K), k, 2 * K)
    BY <1>3, <2>1, RingEnds
  <2>3. PICK M \in Nat \ {0} : M = 2 * K /\ gone \in 0 .. M - 1
    BY <1>0
  <2>4. Plus(r, gone, M) \in 0 .. M - 1
    BY <1>3, <2>3, MovedType
  <2>5. QED
    BY <1>3, <2>2, <2>3, <2>4
<1>8. \A i \in 0 .. K : Plus(r, i, K) \in 0 .. K - 1
  BY <1>3, SlotType
<1>9. n = IF pushed = <<>> THEN m ELSE [m EXCEPT ![Plus(r, l, K)] = pushed[1]]
  <2>1. Plus(r, l, 2 * K) % K = Plus(r, l, K)
    BY <1>3, SlotMovedOn
  <2>2. QED
    BY <1>0, <1>3, <2>1
<1>10. n \in [0 .. K - 1 -> S]
  <2>1. pushed # <<>> => pushed[1] \in S
    BY <1>0
  <2>2. QED
    BY <1>3, <1>9, <2>1
<1>11. ASSUME NEW i \in 1 .. k
       PROVE  n[Plus(Plus(r, gone, 2 * K), i - 1, K)] = p[i]
  <2>1. PICK h \in 0 .. K, j \in 0 .. K : h = i - 1 /\ j = h + gone /\ j <= l
    <3>1. i - 1 \in 0 .. K /\ i - 1 + gone \in 0 .. K /\ i - 1 + gone <= l
      BY <1>0, <1>1, <1>2
    <3>2. QED
      BY <3>1
  <2>2. Plus(Plus(r, gone, 2 * K), h, K) = Plus(r, j, K)
    <3>1. r \in 0 .. 2 * K - 1 /\ K \in Nat \ {0} /\ j = h + gone /\ gone \in 0 .. 1
      BY <1>0, <1>3, <2>1
    <3>2. QED
      BY <3>1, SlotOfNext
  <2>3. CASE j < l
    <3>0. i \in 1 .. l - gone /\ i + gone = j + 1
      BY <1>0, <1>2, <2>1, <2>3
    <3>1. p[i] = q[j + 1] /\ j + 1 \in 1 .. l /\ (j + 1) - 1 = j
      <4>1. p[i] = q[i + gone]
        BY <1>6, <3>0
      <4>2. j + 1 \in 1 .. l /\ (j + 1) - 1 = j
        BY <2>1, <2>3
      <4>3. QED
        BY <3>0, <4>1, <4>2
    <3>2. m[Plus(r, j, K)] = q[j + 1]
      <4>1. m[Plus(r, (j + 1) - 1, K)] = q[j + 1]
        BY <1>3, <3>1
      <4>2. QED
        BY <3>1, <4>1
    <3>3. pushed # <<>> => Plus(r, j, K) # Plus(r, l, K)
      <4>1. pushed # <<>> => l - j < K
        BY <1>0, <1>2, <2>1
      <4>2. QED
        BY <1>3, <2>3, <4>1, SlotsDiffer
    <3>4. n[Plus(r, j, K)] = m[Plus(r, j, K)]
      BY <1>3, <1>8, <1>9, <3>3
    <3>5. QED
      BY <2>1, <2>2, <3>1, <3>2, <3>4
  <2>4. CASE j = l
    <3>1. more = 1 /\ i = l - gone + 1 /\ pushed # <<>>
      BY <1>0, <1>2, <2>1, <2>4
    <3>2. n[Plus(r, l, K)] = pushed[1]
      BY <1>3, <1>8, <1>9, <3>1
    <3>3. QED
      BY <1>6, <2>1, <2>2, <2>4, <3>1, <3>2
  <2>5. i - 1 = h /\ (j < l \/ j = l)
    BY <2>1
  <2>6. QED
    BY <2>3, <2>4, <2>5
<1>12. Ring(S, K, Plus(r, gone, 2 * K), Plus(w, more, 2 * K), n, p)
  <2>1. PICK s : s = Plus(r, gone, 2 * K)
    OBVIOUS
  <2>2. PICK e : e = Plus(w, more, 2 * K)
    OBVIOUS
  <2>3. s \in 0 .. 2 * K - 1 /\ e = Plus(s, k, 2 * K)
    BY <1>7, <2>1, <2>2
  <2>4. \A i \in 1 .. Len(p) : n[Plus(s, i - 1, K)] = p[i]
    BY <1>6, <1>11, <2>1
  <2>5. Len(p) <= K
    BY <1>6
  <2>6. Ring(S, K, s, e, n, p)
    BY <1>6, <1>10, <2>3, <2>4, <2>5 DEF Ring
  <2>7. QED
    BY <2>1, <2>2, <2>6
<1>13. QED
  BY <1>1, <1>4, <1>5, <1>12

\* The word that leaves next, and the pointers, which are equal only if there
\* is none, and equal but for the wrap bit only if there are K.
LEMMA RingFacts ==
  ASSUME NEW S, NEW K \in Nat \ {0}, NEW r, NEW w, NEW m, NEW q, Ring(S, K, r, w, m, q)
  PROVE  /\ w \in 0 .. 2 * K - 1
         /\ Len(q) > 0 => m[r % K] = q[1]
         /\ r = w <=> Len(q) = 0
         /\ r # w /\ r % K = w % K <=> Len(q) = K
<1>1. PICK l \in 0 .. K : l = Len(q)
  BY DEF Ring
<1>2. PICK M \in Nat \ {0} : M = 2 * K /\ K < M
  OBVIOUS
<1>3. /\ r \in 0 .. M - 1 /\ w = Plus(r, l, M) /\ l \in 0 .. M - 1
      /\ \A i \in 1 .. l : m[Plus(r, i - 1, K)] = q[i]
  BY <1>1, <1>2 DEF Ring
<1>4. w \in 0 .. M - 1
  BY <1>3, MovedType
<1>5. r = w <=> l = 0
  <2>1. Plus(r, 0, M) = r
    BY <1>3, NotMoved
  <2>2. l # 0 => Plus(r, l, M) # Plus(r, 0, M)
    <3>1. 0 \in 0 .. M - 1
      OBVIOUS
    <3>2. QED
      BY <1>3, <3>1, EndsDiffer
  <2>3. QED
    BY <1>3, <2>1, <2>2
<1>6. r % K = Plus(r, 0, K)
  <2>1. r + 0 = r
    BY <1>3
  <2>2. QED
    BY <2>1 DEF Plus
<1>7. l > 0 => m[r % K] = q[1]
  <2>1. l > 0 => m[Plus(r, 1 - 1, K)] = q[1]
    BY <1>3
  <2>2. QED
    BY <1>6, <2>1
<1>8. w % K = Plus(r, l, K)
  <2>1. r \in 0 .. 2 * K - 1
    BY <1>2, <1>3
  <2>2. Plus(r, l, 2 * K) % K = Plus(r, l, K)
    BY <2>1, SlotMovedOn
  <2>3. QED
    BY <1>2, <1>3, <2>2
<1>9. l > 0 => (Plus(r, 0, K) = Plus(r, l, K) <=> l = K)
  <2>1. r \in 0 .. 2 * K - 1 /\ 0 \in 0 .. K /\ l \in 0 .. K
    BY <1>2, <1>3
  <2>2. ASSUME 0 < l, l < K PROVE Plus(r, 0, K) # Plus(r, l, K)
    <3>1. l - 0 < K
      BY <2>2
    <3>2. QED
      BY <2>1, <2>2, <3>1, SlotsDiffer
  <2>3. CASE l = K
    <3>1. /\ (r + 0) % K = IF r + 0 < K THEN r + 0
                           ELSE IF r + 0 < 2 * K THEN r + 0 - K ELSE r + 0 - 2 * K
          /\ (r + K) % K = IF r + K < K THEN r + K
                           ELSE IF r + K < 2 * K THEN r + K - K ELSE r + K - 2 * K
      <4>1. K \in 0 .. K
        OBVIOUS
      <4>2. QED
        BY <2>1, <4>1, WordAfter
    <3>2. (r + 0) % K = (r + K) % K
      BY <2>1, <3>1
    <3>3. QED
      BY <2>3, <3>2 DEF Plus
  <2>4. QED
    BY <2>2, <2>3
<1>10. QED
  BY <1>1, <1>2, <1>4, <1>5, <1>6, <1>7, <1>8, <1>9

\* The words that lie between the pointers.
Inside(K, r, w, m) == [i \in 1 .. (w - r) % (2 * K) |-> m[(r + i - 1) % K]]

\* They are the queue's.
LEMMA RingHeld ==
  ASSUME NEW S, NEW K \in Nat \ {0}, NEW r, NEW w, NEW m, NEW q, Ring(S, K, r, w, m, q)
  PROVE  Inside(K, r, w, m) = q
<1>1. PICK l \in 0 .. K : l = Len(q)
  BY DEF Ring
<1>2. PICK M \in Nat \ {0} : M = 2 * K /\ l \in 0 .. M - 1
  BY <1>1
<1>3. /\ r \in 0 .. M - 1 /\ w = Plus(r, l, M) /\ q \in Seq(S)
      /\ \A i \in 1 .. l : m[Plus(r, i - 1, K)] = q[i]
  BY <1>1, <1>2 DEF Ring
<1>4. (w - r) % (2 * K) = l
  <2>1. (Plus(r, l, M) - r) % M = l
    BY <1>2, <1>3, HasMoved
  <2>2. QED
    BY <1>2, <1>3, <2>1
<1>5. \A i \in 1 .. l : m[(r + i - 1) % K] = q[i]
  <2> SUFFICES ASSUME NEW i \in 1 .. l PROVE m[(r + i - 1) % K] = q[i]
    OBVIOUS
  <2>1. r + i - 1 = r + (i - 1)
    BY <1>3
  <2>2. m[Plus(r, i - 1, K)] = q[i]
    BY <1>3
  <2>3. QED
    BY <2>1, <2>2 DEF Plus
<1> DEFINE f == [i \in 1 .. l |-> m[(r + i - 1) % K]]
<1>6. DOMAIN f = 1 .. Len(q) /\ f = [i \in DOMAIN f |-> f[i]]
  BY <1>1
<1>7. \A i \in 1 .. Len(q) : f[i] = q[i]
  BY <1>1, <1>5
<1> HIDE DEF f
<1>8. f = q
  BY <1>3, <1>6, <1>7, SameWords
<1>9. QED
  BY <1>4, <1>8 DEF f, Inside

-----------------------------------------------------------------------------
(* A queue that is dealt to F queues in turn.                              *)

\* What is d places and k rounds on is before what is e places and j rounds on
\* if k is less than j.
LEMMA Rounds ==
  ASSUME NEW F \in Nat \ {0}, NEW k \in Nat, NEW j \in Nat
  PROVE  /\ F * k \in Nat /\ F * (k + 1) = F * k + F
         /\ k <= j => F * k <= F * j
         /\ k < j => F * k + F <= F * j
<1>1. F * k \in Nat /\ F * (k + 1) = F * k + F
  BY SMT
<1>2. ASSUME NEW a \in Nat, NEW b \in Nat, a <= b
      PROVE  F * a <= F * b
  <2>1. PICK c \in Nat : b = a + c
    <3>1. b - a \in Nat /\ b = a + (b - a)
      BY <1>2
    <3>2. QED
      BY <3>1
  <2>2. F * c \in Nat /\ F * (a + c) = F * a + F * c /\ F * a \in Nat
    BY SMT
  <2>3. QED
    BY <2>1, <2>2
<1>3. k < j => F * (k + 1) <= F * j
  BY <1>2
<1>4. F * j \in Nat
  BY SMT
<1>5. QED
  BY <1>1, <1>2, <1>3, <1>4

\* Every number is some places and some rounds on, and in one way only.
LEMMA PlaceExists ==
  ASSUME NEW F \in Nat \ {0}, NEW n \in Nat
  PROVE  /\ n % F \in 0 .. F - 1 /\ n \div F \in Nat
         /\ n = (n % F) + F * (n \div F)
  BY SMT

LEMMA PlaceUnique ==
  ASSUME NEW F \in Nat \ {0}, NEW d \in 0 .. F - 1, NEW e \in 0 .. F - 1,
         NEW k \in Nat, NEW j \in Nat, d + F * k = e + F * j
  PROVE  d = e /\ k = j
<1>1. F * k \in Nat /\ F * j \in Nat
  BY Rounds
<1>2. (k < j => F * k + F <= F * j) /\ (j < k => F * j + F <= F * k)
  BY Rounds
<1>3. k = j
  BY <1>1, <1>2
<1>4. QED
  BY <1>1, <1>3

LEMMA PlaceIs ==
  ASSUME NEW F \in Nat \ {0}, NEW d \in 0 .. F - 1, NEW k \in Nat
  PROVE  (d + F * k) % F = d /\ (d + F * k) \div F = k
<1>1. PICK n \in Nat : n = d + F * k
  BY Rounds
<1>2. /\ n % F \in 0 .. F - 1 /\ n \div F \in Nat
      /\ n = (n % F) + F * (n \div F)
  BY PlaceExists
<1>3. PICK a \in 0 .. F - 1, b \in Nat : a = n % F /\ b = n \div F
  BY <1>2
<1>4. a + F * b = d + F * k
  BY <1>1, <1>2, <1>3
<1>5. a = d /\ b = k
  BY <1>4, PlaceUnique
<1>6. QED
  BY <1>1, <1>3, <1>5

\* The queue that is dealt to n words after the one at o, when n is d places
\* and some rounds.
LEMMA TurnOf ==
  ASSUME NEW F \in Nat \ {0}, NEW o \in 0 .. F - 1, NEW d \in 0 .. F - 1, NEW k \in Nat
  PROVE  Plus(o, d + F * k, F) = Plus(o, d, F)
<1>1. PICK n \in Nat : n = d + F * k /\ F * k \in Nat
  BY Rounds
<1>2. PICK c \in 0 .. 1 : Plus(o, d, F) = o + d - F * c /\ Plus(o, d, F) \in 0 .. F - 1
  <2>1. Plus(o, d, F) = IF o + d < F THEN o + d ELSE o + d - F
    BY Moved DEF Plus
  <2>2. Plus(o, d, F) \in 0 .. F - 1
    BY MovedType
  <2>3. F * 0 = 0 /\ F * 1 = F
    BY SMT
  <2>4. CASE o + d < F
    BY <2>1, <2>2, <2>3, <2>4
  <2>5. CASE o + d >= F
    BY <2>1, <2>2, <2>3, <2>5
  <2>6. QED
    BY <2>4, <2>5
<1>3. PICK e \in 0 .. F - 1 : e = Plus(o, d, F)
  BY <1>2
<1>4. PICK j \in Nat : j = k + c
  <2>1. k + c \in Nat
    OBVIOUS
  <2>2. QED
    BY <2>1
<1>5. F * j = F * k + F * c
  BY <1>4, SMT
<1>6. o + n = e + F * j
  <2>1. F * c \in Nat
    BY Rounds
  <2>2. QED
    BY <1>1, <1>2, <1>3, <1>5, <2>1
<1>7. (e + F * j) % F = e
  BY PlaceIs
<1>8. QED
  BY <1>1, <1>3, <1>6, <1>7 DEF Plus

\* Each queue is some places after the one at o: as many as the lane of the
\* word that it would take.
LEMMA TurnsOnto ==
  ASSUME NEW F \in Nat \ {0}, NEW o \in 0 .. F - 1, NEW i \in 0 .. F - 1
  PROVE  (i - o) % F \in 0 .. F - 1 /\ Plus(o, (i - o) % F, F) = i
<1>1. (i - o) % F = IF o <= i THEN i - o ELSE i - o + F
  BY Distance
<1>2. PICK d \in 0 .. F - 1 : d = (i - o) % F /\ d = IF o <= i THEN i - o ELSE i - o + F
  BY <1>1
<1>3. Plus(o, d, F) = IF o + d < F THEN o + d ELSE o + d - F
  BY Moved DEF Plus
<1>4. QED
  BY <1>2, <1>3

\* The places after the next queue, which is the one at o if there is no other.
LEMMA NextTurn ==
  ASSUME NEW F \in Nat \ {0}, NEW o \in 0 .. F - 1, NEW d \in 0 .. F - 1
  PROVE  /\ Plus(o, 1, F) \in 0 .. F - 1
         /\ Plus(Plus(o, 1, F), d, F) = IF d = F - 1 THEN o ELSE Plus(o, d + 1, F)
<1>1. CASE F = 1
  <2>1. o = 0 /\ d = 0
    BY <1>1
  <2>2. 0 % 1 = 0 /\ 1 % 1 = 0
    BY SMT
  <2>3. Plus(o, 1, F) = 0
    BY <1>1, <2>1, <2>2 DEF Plus
  <2>4. Plus(0, 0, 1) = 0
    BY <2>2 DEF Plus
  <2>5. QED
    BY <1>1, <2>1, <2>3, <2>4
<1>2. CASE F > 1
  <2>1. 1 \in 0 .. F - 1
    BY <1>2
  <2>2. PICK p \in 0 .. F - 1 : p = Plus(o, 1, F)
                                /\ p = IF o + 1 < F THEN o + 1 ELSE o + 1 - F
    <3>1. Plus(o, 1, F) = IF o + 1 < F THEN o + 1 ELSE o + 1 - F
      BY <2>1, Moved DEF Plus
    <3>2. QED
      BY <2>1, <3>1
  <2>3. Plus(p, d, F) = IF p + d < F THEN p + d ELSE p + d - F
    BY Moved DEF Plus
  <2>4. CASE d = F - 1
    BY <1>2, <2>2, <2>3, <2>4
  <2>5. CASE d # F - 1
    <3>1. PICK e \in 0 .. F - 1 : e = d + 1
      BY <2>5
    <3>2. Plus(o, e, F) = IF o + e < F THEN o + e ELSE o + e - F
      BY Moved DEF Plus
    <3>3. Plus(p, d, F) = Plus(o, e, F)
      BY <1>2, <2>2, <2>3, <3>1, <3>2
    <3>4. QED
      BY <2>2, <2>5, <3>1, <3>3
  <2>6. QED
    BY <2>4, <2>5
<1>3. QED
  BY <1>1, <1>2

\* Going on by n and then by l is going on by their sum, however many rounds.
LEMMA TurnsAdd ==
  ASSUME NEW F \in Nat \ {0}, NEW o \in 0 .. F - 1, NEW n \in Nat, NEW l \in Nat
  PROVE  /\ Plus(o, n, F) \in 0 .. F - 1
         /\ Plus(Plus(o, n, F), l, F) = Plus(o, n + l, F)
<1>1. PICK d \in 0 .. F - 1, k \in Nat : n = d + F * k
  BY PlaceExists
<1>2. PICK e \in 0 .. F - 1, j \in Nat : l = e + F * j
  BY PlaceExists
<1>3. Plus(o, n, F) = Plus(o, d, F)
  BY <1>1, TurnOf
<1>4. PICK p \in 0 .. F - 1 : p = Plus(o, d, F)
  BY MovedType
<1>5. Plus(p, l, F) = Plus(p, e, F)
  BY <1>2, TurnOf
<1>6. F * k \in Nat /\ F * j \in Nat /\ F * (k + j) = F * k + F * j
  BY SMT
<1>7. CASE d + e < F
  <2>1. PICK t \in 0 .. F - 1 : t = d + e
    BY <1>7
  <2>2. Plus(Plus(o, d, F), e, F) = Plus(o, t, F)
    BY <2>1, MovedOn
  <2>3. n + l = t + F * (k + j)
    BY <1>1, <1>2, <1>6, <2>1
  <2>4. Plus(o, t + F * (k + j), F) = Plus(o, t, F)
    <3>1. k + j \in Nat
      OBVIOUS
    <3>2. QED
      BY <3>1, TurnOf
  <2>5. QED
    BY <1>3, <1>4, <1>5, <2>2, <2>3, <2>4
<1>8. CASE d + e >= F
  <2>1. PICK t \in 0 .. F - 1 : t = d + e - F
    BY <1>8
  <2>2. p = IF o + d < F THEN o + d ELSE o + d - F
    BY <1>4, Moved DEF Plus
  <2>3. Plus(p, e, F) = IF p + e < F THEN p + e ELSE p + e - F
    BY Moved DEF Plus
  <2>4. Plus(o, t, F) = IF o + t < F THEN o + t ELSE o + t - F
    BY Moved DEF Plus
  <2>5. Plus(p, e, F) = Plus(o, t, F)
    BY <1>8, <2>1, <2>2, <2>3, <2>4
  <2>6. PICK r \in Nat : r = (k + j) + 1 /\ F * r = F * (k + j) + F
    BY Rounds
  <2>7. n + l = t + F * r
    BY <1>1, <1>2, <1>6, <2>1, <2>6
  <2>8. Plus(o, t + F * r, F) = Plus(o, t, F)
    BY TurnOf
  <2>9. QED
    BY <1>3, <1>4, <1>5, <2>5, <2>7, <2>8
<1>9. QED
  BY <1>3, <1>4, <1>7, <1>8

\* The words of q are dealt to the queues qs, from the one at o on.
Has(F, o, q, qs, d, k) ==
  /\ k < Len(qs[Plus(o, d, F)]) <=> d + F * k < Len(q)
  /\ d + F * k < Len(q) => qs[Plus(o, d, F)][k + 1] = q[d + F * k + 1]
Dealt(S, F, o, q, qs) ==
  /\ o \in 0 .. F - 1 /\ q \in Seq(S) /\ \A i \in 0 .. F - 1 : qs[i] \in Seq(S)
  /\ \A d \in 0 .. F - 1, k \in Nat : Has(F, o, q, qs, d, k)

\* What is left of q if its oldest word leaves, or none does.
Remains(q, gone) == SubSeq(q, gone + 1, Len(q))

\* The queue at o gives the oldest word.
LEMMA DealtGone ==
  ASSUME NEW S, NEW F \in Nat \ {0}, NEW o, NEW q, NEW qs, Dealt(S, F, o, q, qs),
         NEW gone \in 0 .. 1, gone <= Len(q), NEW ps,
         \A i \in 0 .. F - 1 : ps[i] = Remains(qs[i], IF i = o THEN gone ELSE 0)
  PROVE  Dealt(S, F, Plus(o, gone, F), Remains(q, gone), ps)
<1>1. PICK p : p = Remains(q, gone)
  OBVIOUS
<1>2. /\ p \in Seq(S) /\ Len(p) = Len(q) - gone /\ Len(q) \in Nat
      /\ \A i \in 1 .. Len(q) - gone : p[i] = q[i + gone]
  BY <1>1, Rest DEF Dealt, Remains
<1>3. Plus(o, 0, F) = o /\ o \in 0 .. F - 1
  BY NotMoved DEF Dealt
<1>4. Has(F, o, q, qs, 0, 0)
  BY DEF Dealt
<1>5. gone <= Len(qs[o])
  <2>1. 0 < Len(qs[o]) <=> 0 + F * 0 < Len(q)
    BY <1>3, <1>4 DEF Has
  <2>2. F * 0 = 0 /\ Len(qs[o]) \in Nat
    BY <1>3 DEF Dealt
  <2>3. QED
    BY <1>2, <2>1, <2>2
<1>6. ASSUME NEW i \in 0 .. F - 1
      PROVE  LET g == IF i = o THEN gone ELSE 0
             IN  /\ ps[i] \in Seq(S) /\ Len(ps[i]) = Len(qs[i]) - g /\ Len(qs[i]) \in Nat
                 /\ \A j \in 1 .. Len(qs[i]) - g : ps[i][j] = qs[i][j + g]
  <2>1. PICK g \in 0 .. 1 : g = (IF i = o THEN gone ELSE 0) /\ g <= Len(qs[i])
    <3>1. Len(qs[i]) \in Nat
      BY DEF Dealt
    <3>2. QED
      BY <1>5, <3>1
  <2>2. ps[i] = SubSeq(qs[i], g + 1, Len(qs[i])) /\ qs[i] \in Seq(S)
    BY <2>1 DEF Dealt, Remains
  <2>3. /\ ps[i] \in Seq(S) /\ Len(ps[i]) = Len(qs[i]) - g /\ Len(qs[i]) \in Nat
        /\ \A j \in 1 .. Len(qs[i]) - g : ps[i][j] = qs[i][j + g]
    BY <2>1, <2>2, Rest
  <2>4. QED
    BY <2>1, <2>3
<1>7. CASE gone = 0
  <2>1. Plus(o, gone, F) = o
    BY <1>3, <1>7
  <2>2. ASSUME NEW d \in 0 .. F - 1, NEW k \in Nat
        PROVE  Has(F, o, p, ps, d, k)
    <3>1. PICK i \in 0 .. F - 1 : i = Plus(o, d, F)
      BY <1>3, MovedType
    <3>2. PICK x \in Nat : x = d + F * k
      BY Rounds
    <3>3. /\ Len(ps[i]) = Len(qs[i]) /\ Len(qs[i]) \in Nat
          /\ \A j \in 1 .. Len(qs[i]) : ps[i][j] = qs[i][j]
      BY <1>6, <1>7
    <3>4. /\ k < Len(qs[i]) <=> x < Len(q)
          /\ x < Len(q) => qs[i][k + 1] = q[x + 1]
      BY <3>1, <3>2 DEF Dealt, Has
    <3>5. x < Len(q) => p[x + 1] = q[x + 1]
      BY <1>2, <1>7
    <3>6. k < Len(qs[i]) => ps[i][k + 1] = qs[i][k + 1]
      BY <3>3
    <3>7. QED
      BY <1>2, <1>7, <3>1, <3>2, <3>3, <3>4, <3>5, <3>6 DEF Has
  <2>3. QED
    BY <1>1, <1>2, <1>3, <1>6, <2>1, <2>2 DEF Dealt
<1>8. CASE gone = 1
  <2>1. PICK u \in 0 .. F - 1 : u = Plus(o, gone, F)
    BY <1>3, <1>8, NextTurn
  <2>2. ASSUME NEW d \in 0 .. F - 1, NEW k \in Nat
        PROVE  Has(F, u, p, ps, d, k)
    <3>1. PICK x \in Nat : x = d + F * k
      BY Rounds
    <3>2. CASE d = F - 1
      <4>1. Plus(u, d, F) = o
        BY <1>3, <1>8, <2>1, <3>2, NextTurn
      <4>2. PICK j \in Nat : j = k + 1 /\ 0 + F * j = x + 1
        BY <3>1, <3>2, Rounds
      <4>3. Has(F, o, q, qs, 0, j)
        BY DEF Dealt
      <4>4. /\ j < Len(qs[o]) <=> x + 1 < Len(q)
            /\ x + 1 < Len(q) => qs[o][j + 1] = q[x + 1 + 1]
        BY <1>3, <4>2, <4>3 DEF Has
      <4>5. /\ Len(ps[o]) = Len(qs[o]) - 1 /\ Len(qs[o]) \in Nat
            /\ \A h \in 1 .. Len(qs[o]) - 1 : ps[o][h] = qs[o][h + 1]
        BY <1>3, <1>6, <1>8
      <4>6. j < Len(qs[o]) => ps[o][k + 1] = qs[o][j + 1]
        BY <4>2, <4>5
      <4>7. x + 1 < Len(q) => p[x + 1] = q[x + 1 + 1]
        BY <1>2, <1>8
      <4>8. k < Len(ps[o]) <=> x < Len(p)
        BY <1>2, <1>8, <4>2, <4>4, <4>5
      <4>9. x < Len(p) => ps[o][k + 1] = p[x + 1]
        BY <1>2, <1>8, <4>4, <4>6, <4>7
      <4>10. QED
        BY <3>1, <4>1, <4>8, <4>9 DEF Has
    <3>3. CASE d # F - 1
      <4>1. PICK e \in 0 .. F - 1 : e = d + 1 /\ e # 0
        BY <3>3
      <4>2. PICK i \in 0 .. F - 1 : i = Plus(o, e, F)
        BY <1>3, MovedType
      <4>3. Plus(u, d, F) = i
        BY <1>3, <1>8, <2>1, <3>3, <4>1, <4>2, NextTurn
      <4>4. i # o
        <5>1. 0 \in 0 .. F - 1
          OBVIOUS
        <5>2. Plus(o, e, F) # Plus(o, 0, F)
          BY <1>3, <4>1, <5>1, EndsDiffer
        <5>3. QED
          BY <1>3, <4>2, <5>2
      <4>5. Has(F, o, q, qs, e, k)
        BY DEF Dealt
      <4>6. e + F * k = x + 1
        <5>1. F * k \in Nat
          BY Rounds
        <5>2. QED
          BY <3>1, <4>1, <5>1
      <4>7. /\ k < Len(qs[i]) <=> x + 1 < Len(q)
            /\ x + 1 < Len(q) => qs[i][k + 1] = q[x + 1 + 1]
        BY <4>2, <4>5, <4>6 DEF Has
      <4>8. /\ Len(ps[i]) = Len(qs[i]) /\ Len(qs[i]) \in Nat
            /\ \A h \in 1 .. Len(qs[i]) : ps[i][h] = qs[i][h]
        <5>1. PICK g \in 0 .. 1 : g = 0 /\ g = IF i = o THEN gone ELSE 0
          BY <4>4
        <5>2. /\ Len(ps[i]) = Len(qs[i]) - g /\ Len(qs[i]) \in Nat
              /\ \A h \in 1 .. Len(qs[i]) - g : ps[i][h] = qs[i][h + g]
          BY <1>6, <5>1
        <5>3. ASSUME NEW h \in 1 .. Len(qs[i])
              PROVE  ps[i][h] = qs[i][h]
          <6>1. h + g = h /\ h \in 1 .. Len(qs[i]) - g
            BY <5>1, <5>2
          <6>2. ps[i][h] = qs[i][h + g]
            BY <5>2, <6>1
          <6>3. QED
            BY <6>1, <6>2
        <5>4. Len(qs[i]) - g = Len(qs[i])
          BY <5>1, <5>2
        <5>5. QED
          BY <5>2, <5>3, <5>4
      <4>9. k < Len(qs[i]) => ps[i][k + 1] = qs[i][k + 1]
        BY <4>8
      <4>10. x + 1 < Len(q) => p[x + 1] = q[x + 1 + 1]
        BY <1>2, <1>8
      <4>11. k < Len(ps[i]) <=> x < Len(p)
        BY <1>2, <1>8, <4>7, <4>8
      <4>12. x < Len(p) => ps[i][k + 1] = p[x + 1]
        BY <1>2, <1>8, <4>7, <4>9, <4>10
      <4>13. QED
        BY <3>1, <4>3, <4>11, <4>12 DEF Has
    <3>4. QED
      BY <3>2, <3>3
  <2>3. QED
    BY <1>1, <1>2, <1>6, <2>1, <2>2 DEF Dealt
<1>9. QED
  BY <1>7, <1>8

\* How many places queue i is from w.
From(i, w, F) == (i - w) % F

\* A queue d places on that has c words takes the word l words behind n words.
Takes(F, d, c, n, l) == l \in 0 .. F - 1 /\ c \in Nat /\ d + F * c = n + l

\* The next word of the queue that is l places from where the words end, modulo
\* F, is l words behind the end.
LEMMA LaneWord ==
  ASSUME NEW S, NEW F \in Nat \ {0}, NEW o, NEW q, NEW qs, Dealt(S, F, o, q, qs),
         NEW w, w = Plus(o, Len(q), F), NEW d \in 0 .. F - 1,
         NEW i, i = Plus(o, d, F), NEW l, l = From(i, w, F)
  PROVE  Takes(F, d, Len(qs[i]), Len(q), l)
<1>1. o \in 0 .. F - 1 /\ Len(q) \in Nat
  BY DEF Dealt
<1>2. PICK e \in 0 .. F - 1, m \in Nat : Len(q) = e + F * m
  BY <1>1, PlaceExists
<1>3. w = Plus(o, e, F)
  BY <1>1, <1>2, TurnOf
<1>4. w = IF o + e < F THEN o + e ELSE o + e - F
  <2>1. Plus(o, e, F) = IF o + e < F THEN o + e ELSE o + e - F
    BY <1>1, Moved DEF Plus
  <2>2. QED
    BY <1>3, <2>1
<1>5. i = IF o + d < F THEN o + d ELSE o + d - F
  <2>1. Plus(o, d, F) = IF o + d < F THEN o + d ELSE o + d - F
    BY <1>1, Moved DEF Plus
  <2>2. QED
    BY <2>1
<1>6. i \in 0 .. F - 1 /\ w \in 0 .. F - 1
  BY <1>1, <1>4, <1>5
<1>7. (i - w) % F = IF w <= i THEN i - w ELSE i - w + F
  BY <1>6, Distance
<1>8. l = IF e <= d THEN d - e ELSE d - e + F
  BY <1>1, <1>4, <1>5, <1>7 DEF From
<1>9. PICK c \in Nat : c = Len(qs[i])
  BY <1>6 DEF Dealt
<1>10. PICK n \in Nat : n = (IF e <= d THEN m ELSE m + 1) /\ d + F * n = Len(q) + l
  <2>1. F * m \in Nat /\ F * (m + 1) = F * m + F
    BY Rounds
  <2>2. CASE e <= d
    BY <1>2, <1>8, <2>1, <2>2
  <2>3. CASE ~(e <= d)
    <3>1. PICK n \in Nat : n = m + 1
      OBVIOUS
    <3>2. d + F * n = Len(q) + l
      BY <1>2, <1>8, <2>1, <2>3, <3>1
    <3>3. QED
      BY <2>3, <3>1, <3>2
  <2>4. QED
    BY <2>2, <2>3
<1>11. l \in 0 .. F - 1
  BY <1>8
<1>12. \A k \in Nat : k < c <=> d + F * k < Len(q)
  BY <1>9 DEF Dealt, Has
<1>13. ~(n < c)
  <2>1. F * n \in Nat /\ d + F * n >= Len(q)
    BY <1>1, <1>10, <1>11, Rounds
  <2>2. QED
    BY <1>1, <1>12, <2>1
<1>14. ~(c < n)
  <2>1. c < n => F * c + F <= F * n
    BY Rounds
  <2>2. F * n \in Nat /\ F * c \in Nat
    BY Rounds
  <2>3. ~(d + F * c < Len(q))
    BY <1>12
  <2>4. c < n => d + F * c + F <= Len(q) + l
    BY <1>1, <1>10, <1>11, <2>1, <2>2
  <2>5. QED
    BY <1>1, <1>11, <2>2, <2>3, <2>4
<1>15. c = n
  BY <1>13, <1>14
<1>16. QED
  BY <1>9, <1>10, <1>11, <1>15 DEF Takes

\* What the queue that is l places from where the words end takes of what is
\* pushed.
Given(pushed, l) == IF l < Len(pushed) THEN <<pushed[l + 1]>> ELSE <<>>

LEMMA GivenType ==
  ASSUME NEW S, NEW pushed \in Seq(S), NEW l \in Nat
  PROVE  Given(pushed, l) = <<>> \/ \E x \in S : Given(pushed, l) = <<x>>
<1>1. l < Len(pushed) => pushed[l + 1] \in S
  OBVIOUS
<1>2. QED
  BY <1>1 DEF Given

\* What t is if it is s with the word that is given behind it, or nothing.
Continues(S, s, pushed, l, t) ==
  /\ t \in Seq(S) /\ Len(t) = Len(s) + (IF l < Len(pushed) THEN 1 ELSE 0)
  /\ \A i \in 1 .. Len(s) : t[i] = s[i]
  /\ l < Len(pushed) => t[Len(s) + 1] = pushed[l + 1]

LEMMA GivenTo ==
  ASSUME NEW S, NEW s \in Seq(S), NEW pushed \in Seq(S), NEW l \in Nat,
         NEW t, t = s \o Given(pushed, l)
  PROVE  Continues(S, s, pushed, l, t)
<1>1. CASE l < Len(pushed)
  <2>1. PICK x \in S : x = pushed[l + 1]
    BY <1>1
  <2>2. Given(pushed, l) = <<x>>
    BY <1>1, <2>1 DEF Given
  <2>3. /\ s \o <<x>> \in Seq(S) /\ Len(s \o <<x>>) = Len(s) + 1
        /\ \A i \in 1 .. Len(s) : (s \o <<x>>)[i] = s[i]
        /\ (s \o <<x>>)[Len(s) + 1] = x
    OBVIOUS
  <2>4. QED
    BY <1>1, <2>1, <2>2, <2>3 DEF Continues
<1>2. CASE ~(l < Len(pushed))
  <2>1. Given(pushed, l) = <<>>
    BY <1>2 DEF Given
  <2>2. s \o <<>> = s
    OBVIOUS
  <2>3. QED
    BY <1>2, <2>1, <2>2 DEF Continues
<1>3. QED
  BY <1>1, <1>2

\* The words pushed are dealt on from where the others end.
LEMMA DealtMore ==
  ASSUME NEW S, NEW F \in Nat \ {0}, NEW o, NEW q, NEW qs, Dealt(S, F, o, q, qs),
         NEW w, w = Plus(o, Len(q), F), NEW pushed \in Seq(S), Len(pushed) <= F,
         NEW ps, \A i \in 0 .. F - 1 : ps[i] = qs[i] \o Given(pushed, From(i, w, F))
  PROVE  Dealt(S, F, o, q \o pushed, ps)
<1>1. o \in 0 .. F - 1 /\ q \in Seq(S) /\ Len(q) \in Nat /\ Len(pushed) \in Nat
  BY DEF Dealt
<1>2. PICK p : p = q \o pushed
  OBVIOUS
<1>3. /\ p \in Seq(S) /\ Len(p) = Len(q) + Len(pushed)
      /\ \A i \in 1 .. Len(q) : p[i] = q[i]
      /\ \A i \in 1 .. Len(pushed) : p[Len(q) + i] = pushed[i]
  BY <1>1, <1>2
<1>4. PICK a \in Nat, b \in Nat : a = Len(q) /\ b = Len(pushed) /\ b <= F
  BY <1>1
<1>5. /\ Len(p) = a + b
      /\ \A i \in 1 .. a : p[i] = q[i]
      /\ \A i \in 1 .. b : p[a + i] = pushed[i]
  BY <1>3, <1>4
<1>6. ASSUME NEW d \in 0 .. F - 1, NEW k \in Nat
      PROVE  Has(F, o, p, ps, d, k) /\ ps[Plus(o, d, F)] \in Seq(S)
  <2>1. PICK i : i = Plus(o, d, F)
    OBVIOUS
  <2>2. PICK l : l = From(i, w, F)
    OBVIOUS
  <2>3. Takes(F, d, Len(qs[i]), Len(q), l)
    BY <2>1, <2>2, LaneWord
  <2>4. PICK c \in Nat : c = Len(qs[i]) /\ d + F * c = a + l /\ l \in 0 .. F - 1
    BY <1>4, <2>3 DEF Takes
  <2>5. i \in 0 .. F - 1
    BY <1>1, <2>1, MovedType
  <2>6. ps[i] = qs[i] \o Given(pushed, l)
    BY <2>2, <2>5
  <2>7. qs[i] \in Seq(S) /\ l \in Nat
    BY <2>4, <2>5 DEF Dealt
  <2>8. Continues(S, qs[i], pushed, l, ps[i])
    BY <2>6, <2>7, GivenTo
  <2>9. PICK n \in Nat : n = Len(ps[i]) /\ n = IF l < b THEN c + 1 ELSE c
    <3>1. Len(ps[i]) = c + (IF l < b THEN 1 ELSE 0)
      BY <1>4, <2>4, <2>8 DEF Continues
    <3>2. QED
      BY <3>1
  <2>10. /\ \A j \in 1 .. c : ps[i][j] = qs[i][j]
         /\ l < b => ps[i][c + 1] = pushed[l + 1]
    BY <1>4, <2>4, <2>8 DEF Continues
  <2>11. PICK y \in Nat, z \in Nat : y = F * k /\ z = F * c /\ (c < k => z + F <= y)
    BY Rounds
  <2>12. PICK x \in Nat : x = d + y
    OBVIOUS
  <2>13. /\ k < c <=> x < a
         /\ x < a => qs[i][k + 1] = q[x + 1]
    BY <1>4, <2>1, <2>4, <2>11, <2>12 DEF Dealt, Has
  <2>14. /\ k < n <=> x < a + b
         /\ x < a + b => ps[i][k + 1] = p[x + 1]
    <3>1. CASE k < c
      <4>1. x < a /\ k + 1 \in 1 .. c /\ x + 1 \in 1 .. a
        BY <2>13, <3>1
      <4>2. ps[i][k + 1] = p[x + 1]
        BY <1>5, <2>10, <2>13, <4>1
      <4>3. k < n /\ x < a + b
        BY <2>9, <3>1, <4>1
      <4>4. QED
        BY <4>2, <4>3
    <3>2. CASE k = c
      <4>1. x = a + l
        BY <2>4, <2>11, <2>12, <3>2
      <4>2. (k < n <=> l < b) /\ (x < a + b <=> l < b)
        BY <2>4, <2>9, <3>2, <4>1
      <4>3. ASSUME l < b
            PROVE  ps[i][k + 1] = p[x + 1]
        <5>1. l + 1 \in 1 .. b /\ x + 1 = a + (l + 1)
          BY <2>4, <4>1, <4>3
        <5>2. p[a + (l + 1)] = pushed[l + 1]
          BY <1>5, <5>1
        <5>3. QED
          BY <2>10, <3>2, <4>3, <5>1, <5>2
      <4>4. QED
        BY <4>2, <4>3
    <3>3. CASE k > c
      <4>1. x >= a + l + F
        BY <2>4, <2>11, <2>12, <3>3
      <4>2. ~(x < a + b) /\ ~(k < n)
        BY <1>4, <2>4, <2>9, <3>3, <4>1
      <4>3. QED
        BY <4>2
    <3>4. QED
      BY <3>1, <3>2, <3>3
  <2>15. Has(F, o, p, ps, d, k)
    BY <1>5, <2>1, <2>9, <2>11, <2>12, <2>14 DEF Has
  <2>16. QED
    BY <2>1, <2>8, <2>15 DEF Continues
<1>7. \A i \in 0 .. F - 1 : ps[i] \in Seq(S)
  <2> SUFFICES ASSUME NEW i \in 0 .. F - 1
               PROVE  ps[i] \in Seq(S)
    OBVIOUS
  <2>1. (i - o) % F \in 0 .. F - 1 /\ Plus(o, (i - o) % F, F) = i
    BY <1>1, TurnsOnto
  <2>2. QED
    BY <1>6, <2>1
<1>8. QED
  BY <1>1, <1>2, <1>3, <1>6, <1>7 DEF Dealt

\* How many words there are in all, and how many the queue has that is l places
\* from where they end.
LEMMA DealtFull ==
  ASSUME NEW S, NEW F \in Nat \ {0}, NEW o, NEW q, NEW qs, Dealt(S, F, o, q, qs),
         NEW w, w = Plus(o, Len(q), F), NEW l \in 0 .. F - 1,
         NEW K \in Nat, NEW i, i = Plus(w, l, F)
  PROVE  Len(qs[i]) >= K <=> Len(q) + l >= F * K
<1>1. o \in 0 .. F - 1 /\ Len(q) \in Nat
  BY DEF Dealt
<1>2. w \in 0 .. F - 1
  BY <1>1, TurnsAdd
<1>3. i \in 0 .. F - 1
  BY <1>2, MovedType
<1>4. From(Plus(w, l, F), w, F) = l
  BY <1>2, HasMoved DEF From
<1>5. PICK d \in 0 .. F - 1 : i = Plus(o, d, F)
  BY <1>1, <1>3, TurnsOnto
<1>6. PICK g : g = From(i, w, F) /\ g = l
  BY <1>4
<1>7. Takes(F, d, Len(qs[i]), Len(q), g)
  BY <1>5, <1>6, LaneWord
<1>8. PICK c \in Nat : c = Len(qs[i]) /\ d + F * c = Len(q) + l
  BY <1>6, <1>7 DEF Takes
<1>9. F * c \in Nat /\ F * K \in Nat
  BY Rounds
<1>10. (K <= c => F * K <= F * c) /\ (c < K => F * c + F <= F * K)
  BY Rounds
<1>11. QED
  BY <1>1, <1>8, <1>9, <1>10

\* The j-th word goes to queue i, behind k words.
GoesTo(F, o, j, i, k) == i = Plus(o, j - 1, F) /\ k = (j - 1) \div F

\* The j-th word of q is a word of the queue that is j - 1 places on.
LEMMA DealtTo ==
  ASSUME NEW S, NEW F \in Nat \ {0}, NEW o, NEW q, NEW qs, Dealt(S, F, o, q, qs),
         NEW j \in 1 .. Len(q), NEW i, NEW k, GoesTo(F, o, j, i, k)
  PROVE  /\ i \in 0 .. F - 1 /\ k \in Nat /\ k < Len(qs[i])
         /\ qs[i][k + 1] = q[j]
<1>1. o \in 0 .. F - 1 /\ Len(q) \in Nat
  BY DEF Dealt
<1>2. PICK n \in Nat : n = j - 1
  BY <1>1
<1>3. PICK d \in 0 .. F - 1, h \in Nat : n = d + F * h /\ h = n \div F
  BY PlaceExists
<1>4. i = Plus(o, d, F) /\ k = h
  <2>1. Plus(o, d + F * h, F) = Plus(o, d, F)
    BY <1>1, TurnOf
  <2>2. QED
    BY <1>2, <1>3, <2>1 DEF GoesTo
<1>5. i \in 0 .. F - 1
  BY <1>1, <1>4, MovedType
<1>6. Has(F, o, q, qs, d, h)
  BY DEF Dealt
<1>7. n < Len(q) /\ n + 1 = j
  BY <1>1, <1>2
<1>8. QED
  BY <1>3, <1>4, <1>5, <1>6, <1>7 DEF Has

\* Every word of a queue is a word of q.
LEMMA DealtFrom ==
  ASSUME NEW S, NEW F \in Nat \ {0}, NEW o, NEW q, NEW qs, Dealt(S, F, o, q, qs),
         NEW i \in 0 .. F - 1, NEW k \in Nat, k < Len(qs[i])
  PROVE  \E j \in 1 .. Len(q) : GoesTo(F, o, j, i, k)
<1>1. o \in 0 .. F - 1 /\ Len(q) \in Nat
  BY DEF Dealt
<1>2. PICK d \in 0 .. F - 1 : i = Plus(o, d, F)
  BY <1>1, TurnsOnto
<1>3. PICK n \in Nat : n = d + F * k
  <2>1. PICK y \in Nat : y = F * k
    BY Rounds
  <2>2. PICK n \in Nat : n = d + y
    OBVIOUS
  <2>3. QED
    BY <2>1, <2>2
<1>4. n < Len(q)
  <2>1. Has(F, o, q, qs, d, k)
    BY DEF Dealt
  <2>2. QED
    BY <1>2, <1>3, <2>1 DEF Has
<1>5. Plus(o, n, F) = i
  BY <1>1, <1>2, <1>3, TurnOf
<1>6. n \div F = k
  BY <1>3, PlaceIs
<1>7. PICK j \in 1 .. Len(q) : j - 1 = n
  <2>1. n + 1 \in 1 .. Len(q) /\ (n + 1) - 1 = n
    BY <1>1, <1>4
  <2>2. QED
    BY <2>1
<1>8. QED
  BY <1>5, <1>6, <1>7 DEF GoesTo

\* And of one word only.
LEMMA DealtOnce ==
  ASSUME NEW F \in Nat \ {0}, NEW o \in 0 .. F - 1, NEW n \in Nat, NEW m \in Nat,
         Plus(o, n, F) = Plus(o, m, F), n \div F = m \div F
  PROVE  n = m
<1>1. PICK d \in 0 .. F - 1, k \in Nat : n = d + F * k /\ k = n \div F
  BY PlaceExists
<1>2. PICK e \in 0 .. F - 1, j \in Nat : m = e + F * j /\ j = m \div F
  BY PlaceExists
<1>3. Plus(o, d, F) = Plus(o, e, F)
  <2>1. Plus(o, d + F * k, F) = Plus(o, d, F)
    BY TurnOf
  <2>2. Plus(o, e + F * j, F) = Plus(o, e, F)
    BY TurnOf
  <2>3. QED
    BY <1>1, <1>2, <2>1, <2>2
<1>4. d = e
  BY <1>3, EndsDiffer
<1>5. k = j
  BY <1>1, <1>2
<1>6. QED
  BY <1>1, <1>2, <1>4, <1>5

\* The slots of M and less that the words of the queues are in.
Slots(F, M, qs) == {s \in (0 .. F - 1) \X (0 .. M - 1) : s[2] < Len(qs[s[1]])}

\* There are as many as there are words.
LEMMA DealtCount ==
  ASSUME NEW S, NEW F \in Nat \ {0}, NEW o, NEW q, NEW qs, Dealt(S, F, o, q, qs),
         NEW M \in Nat, \A i \in 0 .. F - 1 : Len(qs[i]) <= M
  PROVE  Cardinality(Slots(F, M, qs)) = Len(q)
<1>1. o \in 0 .. F - 1 /\ Len(q) \in Nat /\ \A i \in 0 .. F - 1 : Len(qs[i]) \in Nat
  BY DEF Dealt
<1> DEFINE queueOf(j) == Plus(o, j - 1, F)
           slotOf(j) == (j - 1) \div F
           f == [j \in 1 .. Len(q) |-> <<queueOf(j), slotOf(j)>>]
<1>2. ASSUME NEW j \in 1 .. Len(q)
      PROVE  f[j] \in Slots(F, M, qs)
  <2>1. PICK i, k : i = queueOf(j) /\ k = slotOf(j)
    OBVIOUS
  <2>2. i \in 0 .. F - 1 /\ k \in Nat /\ k < Len(qs[i])
    <3>1. GoesTo(F, o, j, i, k)
      BY <2>1 DEF GoesTo
    <3>2. QED
      BY <3>1, DealtTo
  <2>3. k \in 0 .. M - 1
    BY <1>1, <2>2
  <2>4. f[j] = <<i, k>>
    BY <2>1
  <2>5. QED
    BY <2>2, <2>3, <2>4 DEF Slots
<1>3. ASSUME NEW j \in 1 .. Len(q), NEW h \in 1 .. Len(q), f[j] = f[h]
      PROVE  j = h
  <2>1. queueOf(j) = queueOf(h) /\ slotOf(j) = slotOf(h)
    BY <1>3
  <2>2. PICK n \in Nat, m \in Nat : n = j - 1 /\ m = h - 1
    BY <1>1
  <2>3. n = m
    BY <1>1, <2>1, <2>2, DealtOnce
  <2>4. QED
    BY <1>1, <2>2, <2>3
<1>4. ASSUME NEW s \in Slots(F, M, qs)
      PROVE  \E j \in 1 .. Len(q) : f[j] = s
  <2>1. PICK i \in 0 .. F - 1, k \in 0 .. M - 1 : s = <<i, k>> /\ k < Len(qs[i])
    BY DEF Slots
  <2>2. k \in Nat
    BY <2>1
  <2>3. PICK j \in 1 .. Len(q) : GoesTo(F, o, j, i, k)
    BY <2>1, <2>2, DealtFrom
  <2>4. f[j] = <<i, k>>
    BY <2>3 DEF GoesTo
  <2>5. QED
    BY <2>1, <2>4
<1>5. f \in Bijection(1 .. Len(q), Slots(F, M, qs))
  <2>1. DOMAIN f = 1 .. Len(q)
    OBVIOUS
  <2>2. f \in [1 .. Len(q) -> Slots(F, M, qs)]
    BY <1>2
  <2> HIDE DEF f
  <2>3. IsInjective(f)
    BY <1>3, <2>1 DEF IsInjective
  <2>4. QED
    BY <1>4, <2>2, <2>3 DEF Bijection, Injection, Surjection
<1>6. ExistsBijection(1 .. Len(q), Slots(F, M, qs))
  BY <1>5 DEF ExistsBijection
<1>7. QED
  BY <1>1, <1>6, FS_CountingElements

-----------------------------------------------------------------------------
(* Remainders of sums and of products, and what counters count.             *)

\* Remainders of sums and of products.
LEMMA SumRemainder ==
  ASSUME NEW M \in Nat \ {0}, NEW a \in Nat, NEW b \in Nat
  PROVE  ((a % M) + b) % M = (a + b) % M
<1>1. PICK r \in 0 .. M - 1, k \in Nat : r = a % M /\ a = r + M * k
  BY PlaceExists
<1>2. PICK s \in 0 .. M - 1, j \in Nat : r + b = s + M * j
  <2>1. r + b \in Nat
    OBVIOUS
  <2>2. QED
    BY <2>1, PlaceExists
<1>3. M * k \in Nat /\ M * j \in Nat /\ M * (k + j) = M * k + M * j /\ k + j \in Nat
  BY SMT
<1>4. a + b = s + M * (k + j)
  BY <1>1, <1>2, <1>3
<1>5. (a + b) % M = s
  BY <1>3, <1>4, PlaceIs
<1>6. (r + b) % M = s
  BY <1>2, PlaceIs
<1>7. QED
  BY <1>1, <1>5, <1>6

LEMMA WholeRemainder ==
  ASSUME NEW M \in Nat \ {0}, NEW a \in Nat
  PROVE  (a + M) % M = a % M
<1>1. PICK r \in 0 .. M - 1, k \in Nat : r = a % M /\ a = r + M * k
  BY PlaceExists
<1>2. M * k \in Nat /\ M * (k + 1) = M * k + M /\ k + 1 \in Nat
  BY Rounds
<1>3. a + M = r + M * (k + 1)
  BY <1>1, <1>2
<1>4. (r + M * (k + 1)) % M = r
  BY <1>2, PlaceIs
<1>5. QED
  BY <1>1, <1>3, <1>4

LEMMA ProductRemainder ==
  ASSUME NEW M \in Nat \ {0}, NEW a \in Nat, NEW n \in Nat
  PROVE  (n * (a % M)) % M = (n * a) % M
<1>1. PICK r \in 0 .. M - 1, k \in Nat : r = a % M /\ a = r + M * k
  BY PlaceExists
<1>2. n * r \in Nat /\ n * k \in Nat
  BY SMT
<1>3. PICK s \in 0 .. M - 1, j \in Nat : n * r = s + M * j
  BY <1>2, PlaceExists
<1>4. PICK l \in Nat : l = n * k
  BY <1>2
<1>5. n * (r + M * k) = n * r + M * (n * k)
  BY SMT
<1>6. M * (j + l) = M * j + M * l /\ j + l \in Nat /\ M * j \in Nat /\ M * l \in Nat
  BY SMT
<1>7. n * a = s + M * (j + l)
  BY <1>1, <1>3, <1>4, <1>5, <1>6
<1>8. (n * a) % M = s
  BY <1>6, <1>7, PlaceIs
<1>9. (n * r) % M = s
  BY <1>3, PlaceIs
<1>10. QED
  BY <1>1, <1>8, <1>9

LEMMA SmallRemainder ==
  ASSUME NEW M \in Nat \ {0}, NEW a \in 0 .. M - 1, NEW i \in 0 .. 1
  PROVE  a % M = a /\ (a + i) % M \in 0 .. M - 1
<1>1. a % M = a
  BY SMT
<1>2. (a + i) % M \in 0 .. M - 1
  BY SMT
<1>3. QED
  BY <1>1, <1>2

LEMMA CountsDown ==
  ASSUME NEW M \in Nat \ {0}, NEW a \in Nat
  PROVE  (((a + 1) % M) + M - 1) % M = a % M
<1>1. PICK more \in Nat, less \in Nat : more = a + 1 /\ less = M - 1
  OBVIOUS
<1>2. ((more % M) + less) % M = (more + less) % M
  BY SumRemainder
<1>3. more + less = a + M
  BY <1>1
<1>4. (a + M) % M = a % M
  BY WholeRemainder
<1>5. PICK d \in Nat : d = more % M
  BY PlaceExists
<1>6. d + M - 1 = d + less
  BY <1>1, <1>5
<1>7. QED
  BY <1>1, <1>2, <1>3, <1>4, <1>5, <1>6

\* An aggregate of what is in a pipe of n stages, that is sum now, and the
\* stages ahead, that were old and are new: cnt has become next.
Aggregated(M, n, agg, cnt, sum, old, new, plus, next) ==
  /\ M \in Nat \ {0} /\ n \in Nat /\ agg \in Nat /\ cnt \in Nat /\ sum \in Nat
  /\ old \in Nat /\ new \in Nat /\ plus \in Nat /\ next \in Nat
  /\ sum + new = old + plus /\ n * next = n * cnt + plus
  /\ (agg + old) % M = (n * cnt) % M

LEMMA Aggregates ==
  ASSUME NEW M, NEW n, NEW agg, NEW cnt, NEW sum, NEW old, NEW new, NEW plus, NEW next,
         Aggregated(M, n, agg, cnt, sum, old, new, plus, next)
  PROVE  (((agg + (sum % M)) % M) + new) % M = (n * (next % M)) % M
<1>1. /\ M \in Nat \ {0} /\ n \in Nat /\ agg \in Nat /\ cnt \in Nat /\ sum \in Nat
      /\ old \in Nat /\ new \in Nat /\ plus \in Nat /\ next \in Nat
      /\ sum + new = old + plus /\ n * next = n * cnt + plus
      /\ (agg + old) % M = (n * cnt) % M
  BY DEF Aggregated
<1>2. PICK pend \in Nat : pend = sum % M
  <2>1. sum % M \in Nat
    BY <1>1, PlaceExists
  <2>2. QED
    BY <2>1
<1>3. PICK prod \in Nat : prod = n * cnt
  <2>1. n * cnt \in Nat
    BY <1>1, SMT
  <2>2. QED
    BY <2>1
<1>4. PICK a \in Nat, b \in Nat, c \in Nat :
        a = agg + pend /\ b = agg + new /\ c = agg + old
  BY <1>1, <1>2
<1>5. ((a % M) + new) % M = (a + new) % M
  BY <1>1, <1>4, SumRemainder
<1>6. (pend + b) % M = (sum + b) % M
  <2>1. b \in Nat
    BY <1>4
  <2>2. QED
    BY <1>1, <1>2, <2>1, SumRemainder
<1>7. ((c % M) + plus) % M = (c + plus) % M
  BY <1>1, <1>4, SumRemainder
<1>8. ((prod % M) + plus) % M = (prod + plus) % M
  BY <1>1, <1>3, SumRemainder
<1>9. (n * (next % M)) % M = (n * next) % M
  BY <1>1, ProductRemainder
<1>10. a + new = pend + b /\ sum + b = c + plus
  BY <1>1, <1>2, <1>4
<1>11. ((a % M) + new) % M = (c + plus) % M
  BY <1>5, <1>6, <1>10
<1>12. (prod + plus) % M = (n * (next % M)) % M
  BY <1>1, <1>3, <1>9
<1>13. c % M = prod % M
  BY <1>1, <1>3, <1>4
<1>14. QED
  BY <1>2, <1>4, <1>7, <1>8, <1>11, <1>12, <1>13

-----------------------------------------------------------------------------
(* Pipes.                                                                  *)

\* What is in a pipe of n stages, and the stages that it still has before it.
InPipe(n, p) == {i \in 1 .. n : p[i]}
StagesAhead(n, p) == {s \in (1 .. n) \X (1 .. n) : p[s[1]] /\ s[1] < s[2]}

LEMMA Renamed ==
  ASSUME NEW S, NEW T, IsFiniteSet(S), NEW f \in [S -> T],
         \A x, y \in S : f[x] = f[y] => x = y, \A t \in T : \E x \in S : f[x] = t
  PROVE  IsFiniteSet(T) /\ Cardinality(T) = Cardinality(S)
<1>1. f \in Bijection(S, T)
  BY DEF Bijection, Injection, Surjection, IsInjective
<1>2. ExistsBijection(S, T)
  BY <1>1 DEF ExistsBijection
<1>3. QED
  BY <1>2, FS_Bijection

\* The first n of the numbers from 0 on.
LEMMA FirstNumbers ==
  ASSUME NEW n \in Nat
  PROVE  IsFiniteSet(0 .. n - 1) /\ Cardinality(0 .. n - 1) = n
<1>1. /\ IsFiniteSet(0 .. n - 1)
      /\ Cardinality(0 .. n - 1) = IF 0 > n - 1 THEN 0 ELSE n - 1 - 0 + 1
  BY FS_Interval
<1>2. QED
  BY <1>1

\* A set and one that it has nothing in common with.
LEMMA Apart ==
  ASSUME NEW S, NEW T, IsFiniteSet(S), IsFiniteSet(T), S \cap T = {}
  PROVE  IsFiniteSet(S \cup T) /\ Cardinality(S \cup T) = Cardinality(S) + Cardinality(T)
<1>1. /\ IsFiniteSet(S \cup T)
      /\ Cardinality(S \cup T) = Cardinality(S) + Cardinality(T) - Cardinality(S \cap T)
  BY FS_Union
<1>2. Cardinality(S \cap T) = 0
  BY FS_EmptySet
<1>3. Cardinality(S) \in Nat /\ Cardinality(T) \in Nat
  BY FS_CardinalityType
<1>4. QED
  BY <1>1, <1>2, <1>3

\* A word that goes into a pipe, and those that stay in it, all but the last.
Staying(n, p) == {i \in 1 .. n - 1 : p[i]}

LEMMA PipeFinite ==
  ASSUME NEW n \in Nat \ {0}, NEW p
  PROVE  /\ IsFiniteSet(InPipe(n, p)) /\ Cardinality(InPipe(n, p)) \in Nat
         /\ IsFiniteSet(Staying(n, p)) /\ Cardinality(Staying(n, p)) \in Nat
         /\ IsFiniteSet(StagesAhead(n, p)) /\ Cardinality(StagesAhead(n, p)) \in Nat
<1>1. IsFiniteSet(1 .. n) /\ IsFiniteSet(1 .. n - 1)
  BY FS_Interval
<1>2. IsFiniteSet((1 .. n) \X (1 .. n))
  BY <1>1, FS_Product
<1>3. IsFiniteSet(InPipe(n, p))
  BY <1>1, FS_Subset DEF InPipe
<1>4. IsFiniteSet(Staying(n, p))
  BY <1>1, FS_Subset DEF Staying
<1>5. IsFiniteSet(StagesAhead(n, p))
  BY <1>2, FS_Subset DEF StagesAhead
<1>6. QED
  BY <1>3, <1>4, <1>5, FS_CardinalityType

\* What was in the pipe, and what is in it after a step of it.
LEMMA PipeWas ==
  ASSUME NEW n \in Nat \ {0}, NEW p \in [1 .. n -> BOOLEAN]
  PROVE  Cardinality(InPipe(n, p)) = Cardinality(Staying(n, p)) + (IF p[n] THEN 1 ELSE 0)
<1>1. CASE p[n]
  <2>1. InPipe(n, p) = Staying(n, p) \cup {n} /\ n \notin Staying(n, p)
    BY <1>1 DEF InPipe, Staying
  <2>2. QED
    BY <1>1, <2>1, PipeFinite, FS_AddElement
<1>2. CASE ~p[n]
  <2>1. InPipe(n, p) = Staying(n, p)
    BY <1>2 DEF InPipe, Staying
  <2>2. QED
    BY <1>2, <2>1, PipeFinite
<1>3. QED
  BY <1>1, <1>2

\* The pipe after a step.
Stepped(n, p, in, q) ==
  q \in [1 .. n -> BOOLEAN] /\ q[1] = in /\ \A i \in 1 .. n - 1 : q[i + 1] = p[i]

LEMMA PipeIs ==
  ASSUME NEW n \in Nat \ {0}, NEW p \in [1 .. n -> BOOLEAN], NEW in \in BOOLEAN, NEW q,
         Stepped(n, p, in, q)
  PROVE  Cardinality(InPipe(n, q)) = Cardinality(Staying(n, p)) + (IF in THEN 1 ELSE 0)
<1> DEFINE Others == {i \in 2 .. n : q[i]}
           f == [i \in Staying(n, p) |-> i + 1]
<1>1. /\ q \in [1 .. n -> BOOLEAN] /\ q[1] = in
      /\ \A i \in 1 .. n - 1 : q[i + 1] = p[i]
  BY DEF Stepped
<1>2. IsFiniteSet(Staying(n, p))
  BY PipeFinite
<1>3. f \in [Staying(n, p) -> Others]
  BY <1>1 DEF Staying
<1>4. \A x, y \in Staying(n, p) : f[x] = f[y] => x = y
  BY DEF Staying
<1>5. ASSUME NEW t \in Others
      PROVE  \E x \in Staying(n, p) : f[x] = t
  <2>1. t - 1 \in 1 .. n - 1 /\ p[t - 1] = q[t]
    BY <1>1
  <2>2. t - 1 \in Staying(n, p)
    BY <2>1 DEF Staying
  <2>3. QED
    BY <2>2
<1> HIDE DEF f, Others
<1>6. IsFiniteSet(Others) /\ Cardinality(Others) = Cardinality(Staying(n, p))
  BY <1>2, <1>3, <1>4, <1>5, Renamed, Zenon
<1>7. 1 \notin Others /\ InPipe(n, q) = IF in THEN Others \cup {1} ELSE Others
  BY <1>1 DEF InPipe, Others
<1>8. Cardinality(Others) \in Nat
  BY <1>6, FS_CardinalityType
<1>9. Cardinality(Others \cup {1}) = Cardinality(Others) + 1
  BY <1>6, <1>7, FS_AddElement
<1>10. QED
  BY <1>6, <1>7, <1>8, <1>9

\* The stages that are before a word, but the next one.
FarAhead(n, p) == {s \in (1 .. n) \X (1 .. n) : p[s[1]] /\ s[1] + 1 < s[2]}

LEMMA FarFinite ==
  ASSUME NEW n \in Nat \ {0}, NEW p
  PROVE  IsFiniteSet(FarAhead(n, p)) /\ Cardinality(FarAhead(n, p)) \in Nat
<1>1. IsFiniteSet((1 .. n) \X (1 .. n))
  <2>1. IsFiniteSet(1 .. n)
    BY FS_Interval
  <2>2. QED
    BY <2>1, FS_Product
<1>2. IsFiniteSet(FarAhead(n, p))
  BY <1>1, FS_Subset DEF FarAhead
<1>3. QED
  BY <1>2, FS_CardinalityType

LEMMA AheadWas ==
  ASSUME NEW n \in Nat \ {0}, NEW p \in [1 .. n -> BOOLEAN]
  PROVE  Cardinality(StagesAhead(n, p))
           = Cardinality(Staying(n, p)) + Cardinality(FarAhead(n, p))
<1> DEFINE Near == {s \in (1 .. n) \X (1 .. n) : p[s[1]] /\ s[2] = s[1] + 1}
           f == [i \in Staying(n, p) |-> <<i, i + 1>>]
<1>1. IsFiniteSet(Staying(n, p))
  BY PipeFinite
<1>2. f \in [Staying(n, p) -> Near]
  <2>1. ASSUME NEW i \in Staying(n, p)
        PROVE  <<i, i + 1>> \in Near
    BY DEF Staying
  <2>2. QED
    BY <2>1
<1>3. \A x, y \in Staying(n, p) : f[x] = f[y] => x = y
  OBVIOUS
<1>4. ASSUME NEW t \in Near
      PROVE  \E x \in Staying(n, p) : f[x] = t
  <2>1. PICK i \in 1 .. n, k \in 1 .. n : t = <<i, k>> /\ p[i] /\ k = i + 1
    OBVIOUS
  <2>2. i \in Staying(n, p)
    BY <2>1 DEF Staying
  <2>3. QED
    BY <2>1, <2>2
<1>5. StagesAhead(n, p) = Near \cup FarAhead(n, p)
  <2>1. ASSUME NEW s \in (1 .. n) \X (1 .. n)
        PROVE  s[1] < s[2] <=> s[2] = s[1] + 1 \/ s[1] + 1 < s[2]
    OBVIOUS
  <2>2. QED
    BY <2>1 DEF StagesAhead, FarAhead
<1>6. Near \cap FarAhead(n, p) = {}
  BY DEF FarAhead
<1> HIDE DEF f, Near
<1>7. IsFiniteSet(Near) /\ Cardinality(Near) = Cardinality(Staying(n, p))
  BY <1>1, <1>2, <1>3, <1>4, Renamed, Zenon
<1>8. QED
  BY <1>5, <1>6, <1>7, FarFinite, Apart

LEMMA AheadIs ==
  ASSUME NEW n \in Nat \ {0}, NEW p \in [1 .. n -> BOOLEAN], NEW in \in BOOLEAN, NEW q,
         Stepped(n, p, in, q)
  PROVE  Cardinality(StagesAhead(n, q))
           = (IF in THEN n - 1 ELSE 0) + Cardinality(FarAhead(n, p))
<1> DEFINE First == {1} \X (2 .. n)
           Others == {s \in (1 .. n) \X (1 .. n) : s[1] > 1 /\ q[s[1]] /\ s[1] < s[2]}
           f == [s \in FarAhead(n, p) |-> <<s[1] + 1, s[2]>>]
<1>1. /\ q \in [1 .. n -> BOOLEAN] /\ q[1] = in
      /\ \A i \in 1 .. n - 1 : q[i + 1] = p[i]
  BY DEF Stepped
<1>2. f \in [FarAhead(n, p) -> Others]
  <2>1. ASSUME NEW s \in FarAhead(n, p)
        PROVE  <<s[1] + 1, s[2]>> \in Others
    <3>1. PICK i \in 1 .. n, k \in 1 .. n : s = <<i, k>> /\ p[i] /\ i + 1 < k
      BY DEF FarAhead
    <3>2. i \in 1 .. n - 1 /\ i + 1 \in 1 .. n /\ i + 1 > 1
      BY <3>1
    <3>3. q[i + 1] = p[i]
      BY <1>1, <3>2
    <3>4. <<i + 1, k>> \in Others
      BY <3>1, <3>2, <3>3
    <3>5. QED
      BY <3>1, <3>4
  <2>2. QED
    BY <2>1
<1>3. ASSUME NEW x \in FarAhead(n, p), NEW y \in FarAhead(n, p), f[x] = f[y]
      PROVE  x = y
  <2>1. PICK i \in 1 .. n, k \in 1 .. n : x = <<i, k>>
    BY DEF FarAhead
  <2>2. PICK j \in 1 .. n, l \in 1 .. n : y = <<j, l>>
    BY DEF FarAhead
  <2>3. <<i + 1, k>> = <<j + 1, l>>
    BY <1>3, <2>1, <2>2
  <2>4. QED
    BY <2>1, <2>2, <2>3
<1>4. ASSUME NEW t \in Others
      PROVE  \E x \in FarAhead(n, p) : f[x] = t
  <2>1. PICK i \in 1 .. n, k \in 1 .. n : t = <<i, k>> /\ i > 1 /\ q[i] /\ i < k
    OBVIOUS
  <2>2. i - 1 \in 1 .. n - 1 /\ q[i] = p[i - 1]
    <3>1. PICK j \in 1 .. n - 1 : j = i - 1 /\ j + 1 = i
      BY <2>1
    <3>2. q[j + 1] = p[j]
      BY <1>1
    <3>3. QED
      BY <3>1, <3>2
  <2>3. <<i - 1, k>> \in FarAhead(n, p)
    BY <2>1, <2>2 DEF FarAhead
  <2>4. f[<<i - 1, k>>] = t
    BY <2>1, <2>2, <2>3
  <2>5. QED
    BY <2>3, <2>4
<1>5. StagesAhead(n, q) = (IF in THEN First ELSE {}) \cup Others
  <2>1. ASSUME NEW s \in (1 .. n) \X (1 .. n)
        PROVE  q[s[1]] /\ s[1] < s[2]
                 <=> (in /\ s \in First) \/ (s[1] > 1 /\ q[s[1]] /\ s[1] < s[2])
    <3>1. PICK i \in 1 .. n, k \in 1 .. n : s = <<i, k>>
      OBVIOUS
    <3>2. CASE i = 1
      <4>1. s \in First <=> 1 < k
        BY <3>1, <3>2
      <4>2. QED
        BY <1>1, <3>1, <3>2, <4>1
    <3>3. CASE i > 1
      <4>1. s \notin First
        BY <3>1, <3>3
      <4>2. QED
        BY <3>1, <3>3, <4>1
    <3>4. QED
      BY <3>2, <3>3
  <2>2. First \subseteq (1 .. n) \X (1 .. n)
    OBVIOUS
  <2>3. QED
    BY <2>1, <2>2 DEF StagesAhead
<1>6. First \cap Others = {}
  OBVIOUS
<1>7. IsFiniteSet(First) /\ Cardinality(First) = n - 1
  <2>1. IsFiniteSet({1}) /\ Cardinality({1}) = 1
    BY FS_Singleton
  <2>2. IsFiniteSet(2 .. n) /\ Cardinality(2 .. n) = n - 1
    BY FS_Interval
  <2>3. IsFiniteSet(First) /\ Cardinality(First) = Cardinality({1}) * Cardinality(2 .. n)
    BY <2>1, <2>2, FS_Product
  <2>4. QED
    BY <2>1, <2>2, <2>3
<1> HIDE DEF f, First, Others
<1>8. IsFiniteSet(Others) /\ Cardinality(Others) = Cardinality(FarAhead(n, p))
  BY <1>2, <1>3, <1>4, FarFinite, Renamed, Zenon
<1>9. CASE in
  BY <1>5, <1>6, <1>7, <1>8, <1>9, Apart
<1>10. CASE ~in
  <2>1. StagesAhead(n, q) = Others
    BY <1>5, <1>10
  <2>2. QED
    BY <1>8, <1>10, <2>1, FarFinite
<1>11. QED
  BY <1>9, <1>10

\* A function on 1 .. n is a sequence of n.
LEMMA FunctionIsSeq ==
  ASSUME NEW n \in Nat, NEW S, NEW p \in [1 .. n -> S]
  PROVE  p \in Seq(S) /\ Len(p) = n
<1>1. p \in Seq(S)
  BY SeqDef, Zenon
<1>2. Len(p) \in Nat /\ DOMAIN p = 1 .. Len(p)
  BY <1>1, LenProperties
<1>3. PICK m \in Nat : m = Len(p)
  BY <1>2
<1>4. 1 .. m = 1 .. n
  BY <1>2, <1>3
<1>5. (m > 0 => m \in 1 .. n) /\ (n > 0 => n \in 1 .. m)
  <2>1. (m > 0 => m \in 1 .. m) /\ (n > 0 => n \in 1 .. n)
    OBVIOUS
  <2>2. QED
    BY <1>4, <2>1
<1>6. m = n
  BY <1>5
<1>7. QED
  BY <1>1, <1>3, <1>6

LEMMA PipeSteps ==
  ASSUME NEW n \in Nat \ {0}, NEW p \in [1 .. n -> BOOLEAN], NEW in \in BOOLEAN
  PROVE  Stepped(n, p, in, <<in>> \o SubSeq(p, 1, Len(p) - 1)) /\ Len(p) = n
<1>1. p \in Seq(BOOLEAN) /\ Len(p) = n
  BY FunctionIsSeq
<1>2. PICK f : f = SubSeq(p, 1, n - 1)
  OBVIOUS
<1>3. f \in Seq(BOOLEAN) /\ Len(f) = n - 1 /\ \A i \in 1 .. n - 1 : f[i] = p[i]
  BY <1>1, <1>2
<1>4. PICK q : q = <<in>> \o f
  OBVIOUS
<1>5. /\ q \in Seq(BOOLEAN) /\ Len(q) = n /\ q[1] = in
      /\ \A i \in 1 .. n - 1 : q[i + 1] = f[i]
  BY <1>3, <1>4
<1>6. q \in [1 .. n -> BOOLEAN]
  BY <1>5, LenProperties
<1>7. Stepped(n, p, in, q)
  BY <1>3, <1>5, <1>6 DEF Stepped
<1>8. QED
  BY <1>1, <1>2, <1>4, <1>7

-----------------------------------------------------------------------------
(* Shift registers.                                                        *)

\* What a shift register of eight bits holds after a bit.
LEMMA Shifted ==
  ASSUME NEW S, NEW s \in Seq(S), NEW in \in S, Len(s) = 8
  PROVE  /\ Append(Tail(s), in) \in Seq(S) /\ Len(Append(Tail(s), in)) = 8
         /\ Append(Tail(s), in)[8] = in
         /\ \A i \in 1 .. 7 : Append(Tail(s), in)[i] = s[i + 1]
<1>1. s # << >>
  <2>1. Len(<< >>) = 0
    BY EmptySeq
  <2>2. QED
    BY <2>1, 0 # 8, Zenon
<1>2. PICK t \in Seq(S) : t = Tail(s) /\ Len(t) = 7 /\ \A i \in 1 .. 7 : t[i] = s[i + 1]
  <2>1. /\ Tail(s) \in Seq(S) /\ Len(Tail(s)) = Len(s) - 1
        /\ \A i \in 1 .. Len(Tail(s)) : Tail(s)[i] = s[i + 1]
    BY <1>1, HeadTailProperties
  <2>2. Len(s) - 1 = 7
    OBVIOUS
  <2>3. QED
    BY <2>1, <2>2, Zenon
<1>3. /\ Append(t, in) \in Seq(S) /\ Len(Append(t, in)) = Len(t) + 1
      /\ \A i \in 1 .. Len(t) : Append(t, in)[i] = t[i]
      /\ Append(t, in)[Len(t) + 1] = in
  BY AppendProperties
<1>4. Len(t) = 7 /\ Len(t) + 1 = 8
  BY <1>2
<1>5. QED
  BY <1>2, <1>3, <1>4

LEMMA ShiftedIn ==
  ASSUME NEW s \in [1 .. 8 -> {0, 1}], NEW in \in {0, 1}
  PROVE  /\ Append(Tail(s), in) \in [1 .. 8 -> {0, 1}]
         /\ Append(Tail(s), in)[8] = in
         /\ \A i \in 1 .. 7 : Append(Tail(s), in)[i] = s[i + 1]
<1>1. PICK bits : bits = {0, 1} /\ s \in Seq(bits) /\ in \in bits /\ Len(s) = 8
  BY FunctionIsSeq
<1>2. PICK u : u = Append(Tail(s), in)
  OBVIOUS
<1>3. /\ u \in Seq(bits) /\ Len(u) = 8 /\ u[8] = in
      /\ \A i \in 1 .. 7 : u[i] = s[i + 1]
  BY <1>1, <1>2, Shifted
<1>4. u \in [1 .. 8 -> {0, 1}]
  BY <1>1, <1>3, LenProperties
<1>5. QED
  BY <1>2, <1>3, <1>4

-----------------------------------------------------------------------------
(* What goes through stages that hold a word or none.                      *)

AtMostOne(S) == {<<>>} \cup {<<x>> : x \in S}

LEMMA OneOrNone ==
  ASSUME NEW S, NEW o \in AtMostOne(S)
  PROVE  /\ o \in Seq(S) /\ Len(o) \in {0, 1} /\ (o = <<>> <=> Len(o) = 0)
         /\ o # <<>> => o[1] \in S /\ o = <<o[1]>>
<1>1. CASE o = <<>>
  BY <1>1
<1>2. CASE o # <<>>
  <2>1. PICK x \in S : o = <<x>>
    BY <1>2 DEF AtMostOne
  <2>2. o \in Seq(S) /\ Len(o) = 1 /\ o[1] = x
    BY <2>1
  <2>3. QED
    BY <2>1, <2>2
<1>3. QED
  BY <1>1, <1>2

\* x is one of the words s.
Among(x, s) == \E i \in DOMAIN s : s[i] = x

\* A stage in front of the words s, with which they are t.
Before(S, o, s, t) ==
  /\ t \in Seq(S) /\ Len(t) = Len(o) + Len(s)
  /\ o = <<>> => t = s
  /\ o # <<>> => t # <<>> /\ Head(t) = o[1] /\ Tail(t) = s
  /\ o # <<>> => Among(o[1], t)
  /\ \A x : Among(x, s) => Among(x, t)

LEMMA InFront ==
  ASSUME NEW S, NEW o \in AtMostOne(S), NEW s \in Seq(S)
  PROVE  Before(S, o, s, o \o s)
<1> DEFINE t == o \o s
<1> HIDE DEF t
<1>1. o \in Seq(S) /\ Len(o) \in Nat /\ Len(s) \in Nat
  BY OneOrNone, LenProperties
<1>2. /\ t \in Seq(S) /\ Len(t) = Len(o) + Len(s)
      /\ \A i \in 1 .. Len(o) + Len(s) : t[i] = IF i <= Len(o) THEN o[i] ELSE s[i - Len(o)]
  BY <1>1, ConcatProperties DEF t
<1>3. DOMAIN s = 1 .. Len(s) /\ DOMAIN t = 1 .. Len(o) + Len(s)
  BY <1>2, LenProperties
<1>4. o = <<>> => t = s
  BY ConcatEmptySeq DEF t
<1>5. ASSUME o # <<>>
      PROVE  t # <<>> /\ Head(t) = o[1] /\ t[1] = o[1] /\ 1 \in DOMAIN t /\ Tail(t) = s
  <2>1. Len(o) = 1
    BY <1>5, OneOrNone
  <2>2. 1 \in DOMAIN t /\ t[1] = o[1] /\ Len(t) = 1 + Len(s)
    BY <1>1, <1>2, <1>3, <2>1
  <2>3. t # <<>> /\ Head(t) = t[1]
    BY <1>1, <1>2, <2>2
  <2>4. /\ Tail(t) \in Seq(S) /\ Len(Tail(t)) = Len(t) - 1
        /\ \A i \in 1 .. Len(Tail(t)) : Tail(t)[i] = t[i + 1]
    BY <1>2, <2>3, HeadTailProperties
  <2>5. Len(Tail(t)) = Len(s)
    BY <1>1, <2>2, <2>4
  <2>6. \A i \in 1 .. Len(s) : Tail(t)[i] = s[i]
    <3>1. ASSUME NEW i \in 1 .. Len(s)
          PROVE  Tail(t)[i] = s[i]
      <4>1. Tail(t)[i] = t[i + 1]
        BY <2>4, <2>5
      <4>2. i + 1 \in 1 .. Len(o) + Len(s) /\ ~(i + 1 <= Len(o)) /\ i + 1 - Len(o) = i
        BY <1>1, <2>1
      <4>3. t[i + 1] = s[i + 1 - Len(o)]
        BY <1>2, <4>2
      <4>4. QED
        BY <4>1, <4>2, <4>3
    <3>2. QED
      BY <3>1
  <2>7. Tail(t) = s
    BY <2>4, <2>5, <2>6, SeqEqual
  <2>8. QED
    BY <2>2, <2>3, <2>7
<1>6. ASSUME NEW i \in DOMAIN s
      PROVE  \E j \in DOMAIN t : t[j] = s[i]
  <2>1. i + Len(o) \in 1 .. Len(o) + Len(s) /\ ~(i + Len(o) <= Len(o)) /\ i + Len(o) - Len(o) = i
    BY <1>1, <1>3, <1>6
  <2>2. t[i + Len(o)] = s[i]
    BY <1>2, <2>1
  <2>3. QED
    BY <1>3, <2>1, <2>2
<1>7. QED
  BY <1>2, <1>4, <1>5, <1>6 DEF Before, Among, t

\* The words s of five stages, of which the first has the oldest: what is left
\* when it is gone, and another stage comes behind the last.
Staged(S, a, b, c, d, e, s) ==
  /\ Len(s) = Len(a) + Len(b) + Len(c) + Len(d) + Len(e)
  /\ a # <<>> => s # <<>> /\ Head(s) = a[1]
  /\ \A f \in AtMostOne(S) :
       (IF a # <<>> THEN Tail(s) ELSE s) \o f = b \o (c \o (d \o (e \o f)))
  /\ b # <<>> => Among(b[1], s)
  /\ c # <<>> => Among(c[1], s)
  /\ d # <<>> => Among(d[1], s)

LEMMA FiveStages ==
  ASSUME NEW S, NEW a \in AtMostOne(S), NEW b \in AtMostOne(S), NEW c \in AtMostOne(S),
         NEW d \in AtMostOne(S), NEW e \in AtMostOne(S), NEW s, s = a \o (b \o (c \o (d \o e)))
  PROVE  Staged(S, a, b, c, d, e, s)
<1>1. e \in Seq(S) /\ Len(e) \in Nat /\ b \in Seq(S) /\ c \in Seq(S) /\ d \in Seq(S)
  BY OneOrNone
<1>2. PICK v : v = d \o e
  OBVIOUS
<1>3. Before(S, d, e, v)
  BY <1>1, <1>2, InFront, Zenon
<1>4. v \in Seq(S)
  BY <1>3 DEF Before
<1>5. PICK u : u = c \o v
  OBVIOUS
<1>6. Before(S, c, v, u)
  BY <1>4, <1>5, InFront, Zenon
<1>7. u \in Seq(S)
  BY <1>6 DEF Before
<1>8. PICK t : t = b \o u
  OBVIOUS
<1>9. Before(S, b, u, t)
  BY <1>7, <1>8, InFront, Zenon
<1>10. t \in Seq(S)
  BY <1>9 DEF Before
<1>11. s = a \o t
  BY <1>2, <1>5, <1>8, Zenon
<1>12. Before(S, a, t, s)
  BY <1>10, <1>11, InFront, Zenon
<1>13. Len(s) = Len(a) + Len(b) + Len(c) + Len(d) + Len(e)
  <2>1. Len(a) \in Nat /\ Len(b) \in Nat /\ Len(c) \in Nat /\ Len(d) \in Nat
    BY OneOrNone
  <2>2. QED
    BY <1>1, <1>3, <1>6, <1>9, <1>12, <2>1 DEF Before
<1>14. ASSUME NEW f \in AtMostOne(S)
       PROVE  t \o f = b \o (c \o (d \o (e \o f)))
  <2>1. f \in Seq(S) /\ e \o f \in Seq(S)
    BY <1>1, OneOrNone, ConcatProperties
  <2>2. (b \o u) \o f = b \o (u \o f)
    BY ONLY <1>1, <1>4, <1>7, <2>1, SMTT(30)
  <2>3. (c \o v) \o f = c \o (v \o f)
    BY ONLY <1>1, <1>4, <1>7, <2>1, SMTT(30)
  <2>4. (d \o e) \o f = d \o (e \o f)
    BY ONLY <1>1, <1>4, <1>7, <2>1, SMTT(30)
  <2>5. QED
    BY <1>2, <1>5, <1>8, <2>2, <2>3, <2>4, Zenon
<1>15. /\ a # <<>> => s # <<>> /\ Head(s) = a[1]
       /\ (IF a # <<>> THEN Tail(s) ELSE s) = t
  BY <1>12 DEF Before
<1>16. /\ b # <<>> => Among(b[1], s)
       /\ c # <<>> => Among(c[1], s)
       /\ d # <<>> => Among(d[1], s)
  <2>1. \A x : Among(x, t) => Among(x, s)
    BY <1>12 DEF Before
  <2>2. \A x : Among(x, u) => Among(x, s)
    BY <1>9, <2>1 DEF Before
  <2>3. \A x : Among(x, v) => Among(x, s)
    BY <1>6, <2>2 DEF Before
  <2>4. b # <<>> => Among(b[1], s)
    BY <1>9, <2>1 DEF Before
  <2>5. c # <<>> => Among(c[1], s)
    BY <1>6, <2>2 DEF Before
  <2>6. d # <<>> => Among(d[1], s)
    BY <1>3, <2>3 DEF Before
  <2>7. QED
    BY <2>4, <2>5, <2>6
<1>17. QED
  BY <1>13, <1>14, <1>15, <1>16, Zenon DEF Staged

LEMMA FiveLengths ==
  ASSUME NEW S, NEW a \in AtMostOne(S), NEW b \in AtMostOne(S), NEW c \in AtMostOne(S),
         NEW d \in AtMostOne(S), NEW e \in AtMostOne(S)
  PROVE  Len(a \o b \o c \o d \o e) = Len(a) + Len(b) + Len(c) + Len(d) + Len(e)
<1>1. a \in Seq(S) /\ b \in Seq(S) /\ c \in Seq(S) /\ d \in Seq(S) /\ e \in Seq(S)
  BY OneOrNone
<1>2. PICK u : u = a \o b
  OBVIOUS
<1>3. u \in Seq(S) /\ Len(u) = Len(a) + Len(b)
  BY <1>1, <1>2, ConcatProperties
<1>4. PICK v : v = u \o c
  OBVIOUS
<1>5. v \in Seq(S) /\ Len(v) = Len(u) + Len(c)
  BY <1>1, <1>3, <1>4, ConcatProperties
<1>6. PICK w : w = v \o d
  OBVIOUS
<1>7. w \in Seq(S) /\ Len(w) = Len(v) + Len(d)
  BY <1>1, <1>5, <1>6, ConcatProperties
<1>8. Len(w \o e) = Len(w) + Len(e)
  BY <1>1, <1>7, ConcatProperties
<1>9. w \o e = a \o b \o c \o d \o e
  BY <1>2, <1>4, <1>6, Zenon
<1>10. QED
  BY <1>3, <1>5, <1>7, <1>8, <1>9
=============================================================================
