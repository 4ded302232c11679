-------------------------- MODULE FifoAsyncProofs ---------------------------
(***************************************************************************)
(* Proofs about fifo_async, for every number of words that is a power of   *)
(* two and whatever the words are: first that Gray codes do what they are  *)
(* used for, then that the pointers that have crossed are late and never   *)
(* ahead, and then that nothing is lost, doubled or overwritten.           *)
(***************************************************************************)
EXTENDS FifoAsync, QueueLemmas

-----------------------------------------------------------------------------
(* Numbers halved.                                                         *)

\* b without its i lowest bits.
Half(b, i) == b \div 2^i

LEMMA HalfType == ASSUME NEW b \in Nat, NEW i \in Nat PROVE Half(b, i) \in Nat
<1>1. PICK P \in Nat \ {0} : P = 2^i
  BY PowerPositive
<1>2. b \div P \in Nat
  OBVIOUS
<1>3. QED
  BY <1>1, <1>2 DEF Half

LEMMA HalfNone == ASSUME NEW b \in Nat PROVE Half(b, 0) = b
  BY DEF Half

LEMMA HalfNext ==
  ASSUME NEW b \in Nat, NEW i \in Nat
  PROVE  Half(b, i + 1) = Half(b, i) \div 2
<1>1. PICK P \in Nat \ {0} : P = 2^i
  BY PowerPositive
<1>2. b \div (2 * P) = (b \div P) \div 2
  OBVIOUS
<1>3. QED
  BY <1>1, <1>2, PowerNext DEF Half

LEMMA HalfOfSuccessor ==
  ASSUME NEW b \in Nat, NEW i \in Nat
  PROVE  Half(b + 1, i) \in {Half(b, i), Half(b, i) + 1}
<1>1. PICK P \in Nat \ {0} : P = 2^i
  BY PowerPositive
<1>2. (b + 1) \div P \in {b \div P, (b \div P) + 1}
  OBVIOUS
<1>3. QED
  BY <1>1, <1>2 DEF Half

LEMMA HalfAll ==
  ASSUME NEW i \in Nat, NEW b \in 0 .. 2^i - 1
  PROVE  Half(b, i) = 0 /\ Half(2^i, i) = 1
<1>1. PICK P \in Nat \ {0} : P = 2^i
  BY PowerPositive
<1>2. b \in 0 .. P - 1
  BY <1>1
<1>3. b \div P = 0 /\ P \div P = 1
  BY <1>2
<1>4. QED
  BY <1>1, <1>3 DEF Half

-----------------------------------------------------------------------------
(* Gray codes.                                                             *)

LEMMA Depth ==
  /\ N \in Nat \ {0} /\ 2 * N = 2^(ADDR_BITS + 1) /\ ADDR_BITS \in Nat \ {0}
  /\ Ptr = 0 .. 2^(ADDR_BITS + 1) - 1 /\ Ptr \subseteq Nat /\ 0 \in Ptr
<1>1. ADDR_BITS \in Nat
  BY DepthAssumption
<1>2. 2^ADDR_BITS \in Nat \ {0} /\ 2^(ADDR_BITS + 1) = 2 * 2^ADDR_BITS
  BY <1>1, PowerPositive, PowerNext
<1>3. QED
  BY <1>1, <1>2, DepthAssumption DEF N, Ptr

\* Nothing is left of a pointer without all its bits.
LEMMA HalfOfPtr == ASSUME NEW b \in Ptr PROVE Half(b, ADDR_BITS + 1) = 0
  BY Depth, HalfAll

LEMMA HalvesType ==
  ASSUME NEW b \in Nat, NEW i \in 0 .. ADDR_BITS
  PROVE  i \in Nat /\ i + 1 \in Nat /\ Half(b, i) \in Nat /\ Half(b, i + 1) \in Nat
<1>1. i \in Nat /\ i + 1 \in Nat
  BY DepthAssumption
<1>2. QED
  BY <1>1, HalfType

LEMMA GrayBit ==
  ASSUME NEW b \in Ptr, NEW i \in 0 .. ADDR_BITS
  PROVE  binary_to_gray[b][i] = (Half(b, i) + Half(b, i + 1)) % 2
<1>1. i \in Nat /\ b \in Nat
  BY Depth
<1>2. PICK h \in Nat : h = Half(b, i)
  BY <1>1, HalfType
<1>3. PICK g \in Nat : g = Half(b, i + 1)
  BY <1>1, HalfType
<1>4. binary_to_gray[b][i] = ((h % 2) + g) % 2
  BY <1>2, <1>3 DEF binary_to_gray, Bits, Half
<1>5. ((h % 2) + g) % 2 = (h + g) % 2
  OBVIOUS
<1>6. QED
  BY <1>2, <1>3, <1>4, <1>5

LEMMA GrayType == binary_to_gray \in [Ptr -> Code]
<1>1. ASSUME NEW b \in Ptr, NEW i \in 0 .. ADDR_BITS
      PROVE  binary_to_gray[b][i] \in {0, 1}
  <2>1. PICK h \in Nat : h = Half(b, i) + Half(b, i + 1)
    <3>1. Half(b, i) \in Nat /\ Half(b, i + 1) \in Nat
      BY Depth, HalvesType
    <3>2. QED
      BY <3>1
  <2>2. h % 2 \in {0, 1}
    OBVIOUS
  <2>3. QED
    BY <2>1, <2>2, GrayBit
<1>2. \A b \in Ptr : binary_to_gray[b] = [i \in 0 .. ADDR_BITS |-> binary_to_gray[b][i]]
  BY DEF binary_to_gray
<1>3. \A b \in Ptr : binary_to_gray[b] \in Code
  BY <1>1, <1>2 DEF Code
<1>4. binary_to_gray = [b \in Ptr |-> binary_to_gray[b]]
  BY DEF binary_to_gray
<1>5. QED
  BY <1>3, <1>4

\* Two pointers do not have one code.
LEMMA GrayInjective ==
  ASSUME NEW a \in Ptr, NEW b \in Ptr, binary_to_gray[a] = binary_to_gray[b]
  PROVE  a = b
<1> DEFINE T == {i \in 0 .. ADDR_BITS + 1 : Half(a, i) = Half(b, i)}
<1>1. T \in SUBSET Nat /\ T # {}
  BY Depth, HalfOfPtr
<1>2. PICK m \in T : \A f \in T : m <= f
  BY <1>1, Least
<1>3. a \in Nat /\ b \in Nat
  BY Depth
<1>4. CASE m = 0
  BY <1>2, <1>3, <1>4, HalfNone
<1>5. CASE m # 0
  <2>1. PICK i \in 0 .. ADDR_BITS : m = i + 1
    BY <1>5, Depth
  <2>2. i \in Nat /\ Half(a, i + 1) = Half(b, i + 1) /\ Half(a, i) # Half(b, i)
    BY <1>2, <2>1, Depth
  <2>3. PICK g \in Nat, h \in Nat : g = Half(a, i) /\ h = Half(b, i)
    BY <1>3, <2>2, HalfType
  <2>4. g \div 2 = h \div 2
    BY <1>3, <2>2, <2>3, HalfNext
  <2>5. (g + (g \div 2)) % 2 = (h + (h \div 2)) % 2
    BY <1>3, <2>2, <2>3, GrayBit, HalfNext
  <2>6. g = h
    BY <2>4, <2>5
  <2>7. QED
    BY <2>2, <2>3, <2>6
<1>6. QED
  BY <1>4, <1>5

LEMMA GrayInverse ==
  ASSUME NEW b \in Ptr
  PROVE  gray_to_binary[binary_to_gray[b]] = b
<1>1. binary_to_gray[b] \in Code
  BY GrayType
<1>2. \A a \in Ptr : binary_to_gray[a] = binary_to_gray[b] => a = b
  BY GrayInjective
<1>3. QED
  BY <1>1, <1>2 DEF gray_to_binary

\* The halves of a number and of the next one are the same from some bit on,
\* and one apart below it.
LEMMA HalvesMeet ==
  ASSUME NEW b \in Nat, NEW k \in Nat, Half(b + 1, k) = Half(b, k)
  PROVE  \E m \in 1 .. k :
           /\ \A i \in Nat : i < m => Half(b + 1, i) = Half(b, i) + 1
           /\ \A i \in Nat : m <= i => Half(b + 1, i) = Half(b, i)
<1> DEFINE T == {i \in Nat : Half(b + 1, i) = Half(b, i)}
<1>1. PICK m \in T : \A f \in T : m <= f
  BY Least
<1>2. m # 0
  BY HalfNone
<1>3. m <= k
  BY <1>1
<1>4. \A i \in Nat : i \in T => i + 1 \in T
  BY HalfNext
<1>5. \A i \in Nat : i < m => Half(b + 1, i) = Half(b, i) + 1
  <2> SUFFICES ASSUME NEW i \in Nat, i < m
               PROVE  Half(b + 1, i) = Half(b, i) + 1
    OBVIOUS
  <2>1. i \notin T
    BY <1>1
  <2>2. QED
    BY <2>1, HalfOfSuccessor
<1> HIDE DEF T
<1>6. \A i \in Nat : m <= i => i \in T
  <2>1. m \in Nat /\ m \in T
    BY <1>1 DEF T
  <2>2. QED
    BY <1>4, <2>1, Onwards
<1>7. QED
  BY <1>2, <1>3, <1>5, <1>6 DEF T

\* Counting on, the last pointer included, changes one bit of the code.
LEMMA GrayStep ==
  ASSUME NEW b \in Ptr
  PROVE  \E j \in 0 .. ADDR_BITS :
           \A i \in 0 .. ADDR_BITS :
             i # j => binary_to_gray[b][i] = binary_to_gray[Plus(b, 1, 2 * N)][i]
<1>0. b \in Nat /\ ADDR_BITS \in Nat
  BY Depth
<1>1. CASE b + 1 \in Ptr
  <2>1. Plus(b, 1, 2 * N) = b + 1
    BY <1>1, Depth DEF Plus, Ptr
  <2>2. Half(b + 1, ADDR_BITS + 1) = Half(b, ADDR_BITS + 1)
    BY <1>1, HalfOfPtr
  <2>3. PICK m \in 1 .. ADDR_BITS + 1 :
          /\ \A i \in Nat : i < m => Half(b + 1, i) = Half(b, i) + 1
          /\ \A i \in Nat : m <= i => Half(b + 1, i) = Half(b, i)
    <3>1. PICK k \in Nat : k = ADDR_BITS + 1
      BY <1>0
    <3>2. \E m \in 1 .. k :
            /\ \A i \in Nat : i < m => Half(b + 1, i) = Half(b, i) + 1
            /\ \A i \in Nat : m <= i => Half(b + 1, i) = Half(b, i)
      BY <1>0, <2>2, <3>1, HalvesMeet
    <3>3. QED
      BY <3>1, <3>2
  <2>4. PICK j \in 0 .. ADDR_BITS : m = j + 1
    BY <1>0
  <2>5. ASSUME NEW i \in 0 .. ADDR_BITS, i # j
        PROVE  binary_to_gray[b][i] = binary_to_gray[b + 1][i]
    <3>1. PICK g \in Nat, h \in Nat : g = Half(b, i) /\ h = Half(b, i + 1)
      BY <1>0, HalvesType
    <3>2. CASE i < j
      <4>1. Half(b + 1, i) = g + 1 /\ Half(b + 1, i + 1) = h + 1
        BY <1>0, <2>3, <2>4, <3>1, <3>2
      <4>2. (g + h) % 2 = ((g + 1) + (h + 1)) % 2
        OBVIOUS
      <4>3. QED
        BY <1>1, <3>1, <4>1, <4>2, GrayBit
    <3>3. CASE j < i
      <4>1. Half(b + 1, i) = g /\ Half(b + 1, i + 1) = h
        BY <1>0, <2>3, <2>4, <3>1, <3>3
      <4>2. QED
        BY <1>1, <3>1, <4>1, GrayBit
    <3>4. QED
      BY <2>5, <3>2, <3>3
  <2>6. QED
    BY <2>1, <2>5
<1>2. CASE b + 1 \notin Ptr
  <2>1. Plus(b, 1, 2 * N) = 0 /\ b + 1 = 2^(ADDR_BITS + 1)
    BY <1>2, Depth DEF Plus
  <2> DEFINE A == ADDR_BITS
             c == b + 1
  <2>2. Half(c, A + 1) = 1 /\ Half(b, A + 1) = 0
    BY <1>0, <2>1, Depth, HalfAll, HalfOfPtr
  <2>3. ASSUME NEW i \in 0 .. A + 1
        PROVE  Half(c, i) = Half(b, i) + 1
    <3>1. ASSUME Half(c, i) = Half(b, i)
          PROVE  FALSE
      <4>1. i \in Nat
        BY <1>0
      <4>2. PICK m \in 1 .. i : \A n \in Nat : m <= n => Half(b + 1, n) = Half(b, n)
        <5>1. \E m \in 1 .. i :
                /\ \A n \in Nat : n < m => Half(b + 1, n) = Half(b, n) + 1
                /\ \A n \in Nat : m <= n => Half(b + 1, n) = Half(b, n)
          BY <1>0, <3>1, <4>1, HalvesMeet
        <5>2. QED
          BY <5>1
      <4>3. QED
        BY <1>0, <2>2, <4>2
    <3>2. QED
      BY <1>0, <3>1, HalfOfSuccessor
  <2>4. ASSUME NEW i \in 0 .. A
        PROVE  Half(b, i) % 2 = 1
    <3>1. PICK g \in Nat, h \in Nat : g = Half(b, i) /\ h = Half(b, i + 1)
      BY <1>0, HalvesType
    <3>2. Half(c, i) = g + 1 /\ Half(c, i + 1) = h + 1
      BY <1>0, <2>3, <3>1
    <3>3. h = g \div 2 /\ h + 1 = (g + 1) \div 2
      BY <1>0, <3>1, <3>2, HalfNext
    <3>4. g % 2 = 1
      BY <3>3
    <3>5. QED
      BY <3>1, <3>4
  <2>5. ASSUME NEW i \in 0 .. A, i # A
        PROVE  binary_to_gray[b][i] = binary_to_gray[0][i]
    <3>1. PICK g \in Nat, h \in Nat : g = Half(b, i) /\ h = Half(b, i + 1)
      BY <1>0, HalvesType
    <3>2. g % 2 = 1 /\ h % 2 = 1
      BY <1>0, <2>4, <2>5, <3>1
    <3>3. (g + h) % 2 = 0
      BY <3>2
    <3>4. binary_to_gray[b][i] = 0
      BY <3>1, <3>3, GrayBit
    <3>5. Half(0, i) = 0 /\ Half(0, i + 1) = 0
      <4>1. 0 \in 0 .. 2^i - 1 /\ 0 \in 0 .. 2^(i + 1) - 1
        BY <1>0, PowerPositive
      <4>2. QED
        BY <1>0, <4>1, HalfAll
    <3>6. binary_to_gray[0][i] = 0
      BY <3>5, GrayBit, Depth
    <3>7. QED
      BY <3>4, <3>6
  <2>6. A \in 0 .. ADDR_BITS
    BY <1>0
  <2>7. QED
    BY <2>1, <2>5, <2>6
<1>3. QED
  BY <1>1, <1>2

LEMMA SameCode ==
  ASSUME NEW c \in Code, NEW g \in Code, \A i \in 0 .. ADDR_BITS : c[i] = g[i]
  PROVE  c = g
<1>1. /\ c = [i \in 0 .. ADDR_BITS |-> c[i]]
      /\ g = [i \in 0 .. ADDR_BITS |-> g[i]]
  BY DEF Code
<1>2. QED
  BY <1>1, Zenon

\* So a flop that samples a pointer while it counts takes the old code or the
\* new one, and no other.
LEMMA SampledIsOldOrNew ==
  ASSUME NEW b \in Ptr, NEW d \in 0 .. 1,
         NEW c \in Sampled(binary_to_gray[b], binary_to_gray[Plus(b, d, 2 * N)])
  PROVE  \E e \in 0 .. d : c = binary_to_gray[Plus(b, e, 2 * N)]
<1>1. PICK M \in Nat \ {0} : M = 2 * N /\ Ptr = 0 .. M - 1
  BY Depth DEF Ptr
<1>2. Plus(b, 0, M) = b
  BY <1>1, NotMoved
<1>3. Plus(b, 1, M) \in Ptr
  <2>1. 1 \in 0 .. M - 1 /\ b \in 0 .. M - 1
    BY <1>1, Depth
  <2>2. QED
    BY <1>1, <2>1, MovedType
<1>4. binary_to_gray[b] \in Code /\ binary_to_gray[Plus(b, 1, M)] \in Code
  BY <1>3, GrayType
<1>5. CASE d = 0
  <2>1. c \in Code /\ \A i \in 0 .. ADDR_BITS : c[i] = binary_to_gray[b][i]
    BY <1>1, <1>2, <1>5 DEF Sampled, Code
  <2>2. c = binary_to_gray[b]
    BY <1>4, <2>1, SameCode
  <2>3. QED
    BY <1>1, <1>2, <1>5, <2>2
<1>6. CASE d = 1
  <2> DEFINE g == binary_to_gray[b]
             h == binary_to_gray[Plus(b, 1, M)]
  <2>1. PICK j \in 0 .. ADDR_BITS : \A i \in 0 .. ADDR_BITS : i # j => g[i] = h[i]
    BY <1>1, GrayStep
  <2>2. c \in Code /\ \A i \in 0 .. ADDR_BITS : c[i] = g[i] \/ c[i] = h[i]
    BY <1>1, <1>6 DEF Sampled, Code
  <2>3. g \in Code /\ h \in Code
    BY <1>4
  <2> HIDE DEF g, h
  <2>4. CASE c[j] = g[j]
    <3>1. \A i \in 0 .. ADDR_BITS : c[i] = g[i]
      BY <2>1, <2>2, <2>4
    <3>2. c = g
      BY <2>2, <2>3, <3>1, SameCode
    <3>3. QED
      BY <1>1, <1>2, <1>6, <3>2 DEF g
  <2>5. CASE c[j] = h[j]
    <3>1. \A i \in 0 .. ADDR_BITS : c[i] = h[i]
      BY <2>1, <2>2, <2>5
    <3>2. c = h
      BY <2>2, <2>3, <3>1, SameCode
    <3>3. QED
      BY <1>1, <1>6, <3>2 DEF h
  <2>6. QED
    BY <2>2, <2>4, <2>5
<1>7. QED
  BY <1>5, <1>6

-----------------------------------------------------------------------------
(* The circle of the pointers, unrolled: a pointer that has counted to n.  *)

\* What is left of a sum of multiples of M and a number less than M.
LEMMA Remainder ==
  ASSUME NEW M \in Nat \ {0}, NEW q \in Nat, NEW r \in 0 .. M - 1
  PROVE  (M * q + r) % M = r
  OBVIOUS

LEMMA Division ==
  ASSUME NEW M \in Nat \ {0}, NEW n \in Nat
  PROVE  \E q \in Nat, r \in 0 .. M - 1 : n = M * q + r /\ n % M = r
<1>1. n = M * (n \div M) + (n % M) /\ n % M \in 0 .. M - 1 /\ n \div M \in Nat
  OBVIOUS
<1>2. PICK q \in Nat : q = n \div M
  BY <1>1
<1>3. PICK r \in 0 .. M - 1 : r = n % M
  BY <1>1
<1>4. n = M * q + r
  BY <1>1, <1>2, <1>3
<1>5. QED
  BY <1>3, <1>4

\* Counting on by less than M.
LEMMA CountOn ==
  ASSUME NEW M \in Nat \ {0}, NEW n \in Nat, NEW d \in 0 .. M - 1
  PROVE  \E r \in 0 .. M - 1 :
           n % M = r /\ (n + d) % M = IF r + d < M THEN r + d ELSE r + d - M
<1>1. PICK q \in Nat, r \in 0 .. M - 1 : n = M * q + r /\ n % M = r
  BY Division
<1>2. CASE r + d < M
  <2>1. PICK s \in 0 .. M - 1 : s = r + d
    BY <1>2
  <2>2. (M * q + s) % M = s
    BY Remainder
  <2>3. n + d = M * q + s
    BY <1>1, <2>1
  <2>4. QED
    BY <1>1, <1>2, <2>1, <2>2, <2>3
<1>3. CASE ~(r + d < M)
  <2>1. PICK s \in 0 .. M - 1 : s = r + d - M
    BY <1>3
  <2>2. PICK p \in Nat : p = q + 1
    OBVIOUS
  <2>3. (M * p + s) % M = s
    BY Remainder
  <2>4. M * p = M * q + M
    BY <2>2
  <2>5. n + d = M * p + s
    BY <1>1, <2>1, <2>4
  <2>6. QED
    BY <1>1, <1>3, <2>1, <2>3, <2>5
<1>4. QED
  BY <1>2, <1>3

On(n) == n % (2 * N)
Cell(n) == n % N
Gray(n) == binary_to_gray[On(n)]

LEMMA OnType == ASSUME NEW n \in Nat PROVE On(n) \in Ptr
<1>1. PICK M \in Nat \ {0} : M = 2 * N /\ Ptr = 0 .. M - 1
  BY Depth DEF Ptr
<1>2. n % M \in 0 .. M - 1
  OBVIOUS
<1>3. QED
  BY <1>1, <1>2 DEF On

LEMMA OnZero == On(0) = 0
<1>1. PICK M \in Nat \ {0} : M = 2 * N
  BY Depth
<1>2. 0 % M = 0
  OBVIOUS
<1>3. QED
  BY <1>1, <1>2 DEF On

\* Counting on by d, in terms of the pointer.
LEMMA OnSum ==
  ASSUME NEW n \in Nat, NEW d \in 0 .. N
  PROVE  /\ On(n) \in 0 .. 2 * N - 1
         /\ On(n + d) = IF On(n) + d < 2 * N THEN On(n) + d ELSE On(n) + d - 2 * N
<1>1. PICK M \in Nat \ {0} : M = 2 * N /\ d \in 0 .. M - 1
  BY Depth
<1>2. PICK r \in 0 .. M - 1 :
        n % M = r /\ (n + d) % M = IF r + d < M THEN r + d ELSE r + d - M
  BY <1>1, CountOn
<1>3. QED
  BY <1>1, <1>2 DEF On

LEMMA OnNext ==
  ASSUME NEW n \in Nat, NEW d \in 0 .. 1
  PROVE  Plus(On(n), d, 2 * N) = On(n + d)
<1>1. d \in 0 .. N
  BY Depth
<1>2. PICK M \in Nat \ {0} : M = 2 * N /\ d \in 0 .. M - 1
  BY <1>1, Depth
<1>3. PICK r \in 0 .. M - 1 : r = On(n)
  BY <1>1, <1>2, OnSum
<1>4. (r + d) % M = IF r + d < M THEN r + d ELSE r + d - M
  BY <1>2, Moved
<1>5. QED
  BY <1>1, <1>2, <1>3, <1>4, OnSum DEF Plus

LEMMA OnDistance ==
  ASSUME NEW a \in Nat, NEW b \in Nat, a <= b, b <= a + N
  PROVE  (On(b) - On(a)) % (2 * N) = b - a
<1>1. PICK M \in Nat \ {0} : M = 2 * N
  BY Depth
<1>2. PICK d \in 0 .. N : d = b - a
  BY Depth
<1>3. PICK r \in 0 .. M - 1 : r = On(a)
  BY <1>1, <1>2, OnSum
<1>4. a + d = b
  BY <1>2
<1>5. On(b) = IF r + d < M THEN r + d ELSE r + d - M
  BY <1>1, <1>3, <1>4, OnSum
<1>6. PICK s \in 0 .. M - 1 : s = On(b)
  BY <1>1, OnType DEF Ptr
<1>7. (s - r) % M = IF r <= s THEN s - r ELSE s - r + M
  BY Distance
<1>8. d < M
  BY <1>1, <1>2, Depth
<1>9. (s - r) % M = d
  <2>1. CASE r + d < M
    BY <1>2, <1>5, <1>6, <1>7, <1>8, <2>1
  <2>2. CASE ~(r + d < M)
    BY <1>2, <1>5, <1>6, <1>7, <1>8, <2>2
  <2>3. QED
    BY <2>1, <2>2
<1>10. QED
  BY <1>1, <1>2, <1>3, <1>6, <1>9

LEMMA OnSame ==
  ASSUME NEW a \in Nat, NEW b \in Nat, a <= b, b <= a + N, On(a) = On(b)
  PROVE  a = b
<1>1. PICK d \in 0 .. N : d = b - a
  BY Depth
<1>2. a + d = b
  BY <1>1
<1>3. On(a) \in 0 .. 2 * N - 1 /\
      On(b) = IF On(a) + d < 2 * N THEN On(a) + d ELSE On(a) + d - 2 * N
  BY <1>2, OnSum
<1>4. QED
  BY <1>1, <1>3, Depth

\* The write pointer with its wrap bit inverted is the read pointer.
LEMMA OnFull ==
  ASSUME NEW a \in Nat, NEW b \in Nat, a <= b, b <= a + N
  PROVE  (On(b) + N) % (2 * N) = On(a) <=> b = a + N
<1>1. PICK M \in Nat \ {0} : M = 2 * N /\ N \in 0 .. M - 1
  BY Depth
<1>2. PICK d \in 0 .. N : d = b - a
  BY Depth
<1>3. a + d = b
  BY <1>2
<1>4. PICK r \in 0 .. M - 1 : r = On(a)
  BY <1>1, <1>2, OnSum
<1>5. On(b) = IF r + d < M THEN r + d ELSE r + d - M
  BY <1>1, <1>3, <1>4, OnSum
<1>6. PICK s \in 0 .. M - 1 : s = On(b)
  BY <1>1, OnType DEF Ptr
<1>7. (s + N) % M = IF s + N < M THEN s + N ELSE s + N - M
  BY <1>1, Moved
<1>8. (s + N) % M = r <=> d = N
  BY <1>1, <1>5, <1>6, <1>7
<1>9. QED
  BY <1>1, <1>2, <1>4, <1>6, <1>8

LEMMA CellOf ==
  ASSUME NEW n \in Nat
  PROVE  On(n) % N = Cell(n) /\ Cell(n) \in 0 .. N - 1
<1>1. PICK K \in Nat \ {0} : K = N
  BY Depth
<1>2. PICK M \in Nat \ {0} : M = 2 * K
  BY <1>1
<1>3. PICK q \in Nat, r \in 0 .. M - 1 : n = M * q + r /\ n % M = r
  BY Division
<1>4. PICK p \in Nat : p = 2 * q
  OBVIOUS
<1>5. M * q = K * p
  BY <1>2, <1>4
<1>6. PICK h \in Nat, s \in 0 .. K - 1 : r = K * h + s /\ r % K = s
  BY Division
<1>7. PICK t \in Nat : t = p + h
  OBVIOUS
<1>8. K * t = K * p + K * h
  BY <1>7
<1>9. n = K * t + s
  BY <1>3, <1>5, <1>6, <1>8
<1>10. (K * t + s) % K = s
  BY Remainder
<1>11. (n % M) % K = n % K /\ n % K \in 0 .. K - 1
  BY <1>3, <1>6, <1>9, <1>10
<1>12. QED
  BY <1>1, <1>2, <1>11 DEF On, Cell

LEMMA CellsDiffer ==
  ASSUME NEW a \in Nat, NEW b \in Nat, a < b, b < a + N
  PROVE  Cell(a) # Cell(b)
<1>1. PICK K \in Nat \ {0} : K = N
  BY Depth
<1>2. PICK d \in 0 .. K - 1 : d = b - a
  BY <1>1
<1>3. PICK r \in 0 .. K - 1 :
        a % K = r /\ (a + d) % K = IF r + d < K THEN r + d ELSE r + d - K
  BY CountOn
<1>4. a + d = b
  BY <1>2
<1>5. QED
  BY <1>1, <1>2, <1>3, <1>4 DEF Cell

-----------------------------------------------------------------------------
(* The words: h have left the array, and those of m from r up to w are in   *)
(* it.  Together they are q.                                                *)

Follows(q, h, m, r, w) ==
  /\ q \in Seq(Words) /\ h \in Seq(Words)
  /\ Len(q) = Len(h) + (w - r) /\ Len(h) <= 2
  /\ \A i \in 1 .. Len(h) : q[i] = h[i]
  /\ \A j \in r .. w - 1 : q[Len(h) + 1 + (j - r)] = m[Cell(j)]

\* A word is pushed.
LEMMA FollowsPush ==
  ASSUME NEW r \in Nat, NEW w \in Nat, r <= w, w < r + N,
         NEW m \in [0 .. N - 1 -> Words], NEW q, NEW h, Follows(q, h, m, r, w),
         NEW d \in Words
  PROVE  Follows(q \o <<d>>, h, [m EXCEPT ![Cell(w)] = d], r, w + 1)
<1>1. /\ Append(q, d) \in Seq(Words) /\ Len(Append(q, d)) = Len(q) + 1
      /\ Append(q, d)[Len(q) + 1] = d
      /\ \A i \in 1 .. Len(q) : Append(q, d)[i] = q[i]
      /\ q \o <<d>> = Append(q, d)
  BY AppendProperties, AppendIsConcat DEF Follows
<1>2. Len(h) \in Nat /\ Len(q) \in Nat
  BY LenProperties DEF Follows
<1>3. Cell(w) \in 0 .. N - 1 /\ \A j \in r .. w - 1 : Cell(j) \in 0 .. N - 1
  BY CellOf
<1>4. ASSUME NEW i \in 1 .. Len(h)
      PROVE  Append(q, d)[i] = h[i]
  BY <1>1, <1>2 DEF Follows
<1>5. ASSUME NEW j \in r .. (w + 1) - 1
      PROVE  Append(q, d)[Len(h) + 1 + (j - r)] = [m EXCEPT ![Cell(w)] = d][Cell(j)]
  <2>1. CASE j = w
    <3>1. Len(h) + 1 + (j - r) = Len(q) + 1
      BY <1>2, <2>1 DEF Follows
    <3>2. QED
      BY <1>1, <1>3, <2>1, <3>1
  <2>2. CASE j # w
    <3>1. j \in r .. w - 1 /\ j \in Nat /\ j < w /\ w < j + N
      BY <1>5, <2>2, Depth
    <3>2. Cell(j) # Cell(w)
      BY <3>1, CellsDiffer
    <3>3. Len(h) + 1 + (j - r) \in 1 .. Len(q)
      BY <1>2, <3>1 DEF Follows
    <3>4. q[Len(h) + 1 + (j - r)] = m[Cell(j)]
      BY <3>1 DEF Follows
    <3>5. QED
      BY <1>1, <1>3, <3>1, <3>2, <3>3, <3>4
  <2>3. QED
    BY <2>1, <2>2
<1>6. QED
  BY <1>1, <1>2, <1>4, <1>5 DEF Follows

\* The oldest word is popped.
LEMMA FollowsPop ==
  ASSUME NEW r \in Nat, NEW w \in Nat, r <= w, NEW m, NEW q, NEW h,
         Follows(q, h, m, r, w), h # <<>>
  PROVE  Follows(Tail(q), Tail(h), m, r, w)
<1>1. Len(h) \in Nat \ {0} /\ Len(q) \in Nat /\ q # <<>>
  BY EmptySeq, LenProperties DEF Follows
<1>2. /\ Tail(h) \in Seq(Words) /\ Len(Tail(h)) = Len(h) - 1
      /\ \A i \in 1 .. Len(Tail(h)) : Tail(h)[i] = h[i + 1]
  BY HeadTailProperties DEF Follows
<1>3. /\ Tail(q) \in Seq(Words) /\ Len(Tail(q)) = Len(q) - 1
      /\ \A i \in 1 .. Len(Tail(q)) : Tail(q)[i] = q[i + 1]
  BY <1>1, HeadTailProperties DEF Follows
<1>4. ASSUME NEW i \in 1 .. Len(Tail(h))
      PROVE  Tail(q)[i] = Tail(h)[i]
  <2>1. i \in 1 .. Len(Tail(q)) /\ i + 1 \in 1 .. Len(h)
    BY <1>1, <1>2, <1>3 DEF Follows
  <2>2. QED
    BY <1>2, <1>3, <2>1 DEF Follows
<1>5. ASSUME NEW j \in r .. w - 1
      PROVE  Tail(q)[Len(Tail(h)) + 1 + (j - r)] = m[Cell(j)]
  <2>1. PICK k \in Nat : k = Len(h) + (j - r)
    <3>1. j - r \in Nat /\ Len(h) + (j - r) \in Nat
      BY <1>1
    <3>2. QED
      BY <3>1
  <2>2. /\ k \in 1 .. Len(Tail(q)) /\ k = Len(Tail(h)) + 1 + (j - r)
        /\ k + 1 = Len(h) + 1 + (j - r)
    BY <1>1, <1>2, <1>3, <2>1 DEF Follows
  <2>3. q[k + 1] = m[Cell(j)]
    BY <2>2 DEF Follows
  <2>4. QED
    BY <1>3, <2>2, <2>3
<1>6. QED
  BY <1>1, <1>2, <1>3, <1>4, <1>5 DEF Follows

\* The oldest word of the array is read.
LEMMA FollowsRead ==
  ASSUME NEW r \in Nat, NEW w \in Nat, r < w,
         NEW m \in [0 .. N - 1 -> Words], NEW q, NEW h, Follows(q, h, m, r, w), Len(h) < 2
  PROVE  Follows(q, h \o <<m[Cell(r)]>>, m, r + 1, w)
<1>1. PICK d \in Words : d = m[Cell(r)]
  BY CellOf
<1>2. /\ Append(h, d) \in Seq(Words) /\ Len(Append(h, d)) = Len(h) + 1
      /\ Append(h, d)[Len(h) + 1] = d
      /\ \A i \in 1 .. Len(h) : Append(h, d)[i] = h[i]
      /\ h \o <<d>> = Append(h, d)
  BY AppendProperties, AppendIsConcat DEF Follows
<1>3. Len(h) \in Nat /\ Len(q) \in Nat
  BY LenProperties DEF Follows
<1>4. ASSUME NEW i \in 1 .. Len(h) + 1
      PROVE  q[i] = Append(h, d)[i]
  <2>1. CASE i = Len(h) + 1
    <3>1. r \in r .. w - 1 /\ Len(h) + 1 + (r - r) = Len(h) + 1
      BY <1>3
    <3>2. q[Len(h) + 1 + (r - r)] = m[Cell(r)]
      BY <3>1 DEF Follows
    <3>3. QED
      BY <1>1, <1>2, <2>1, <3>1, <3>2
  <2>2. CASE i # Len(h) + 1
    <3>1. i \in 1 .. Len(h)
      BY <1>3, <2>2
    <3>2. QED
      BY <1>2, <3>1 DEF Follows
  <2>3. QED
    BY <2>1, <2>2
<1>5. ASSUME NEW j \in r + 1 .. w - 1
      PROVE  q[(Len(h) + 1) + 1 + (j - (r + 1))] = m[Cell(j)]
  <2>1. j \in r .. w - 1 /\ (Len(h) + 1) + 1 + (j - (r + 1)) = Len(h) + 1 + (j - r)
    BY <1>3
  <2>2. QED
    BY <2>1 DEF Follows
<1>6. QED
  BY <1>1, <1>2, <1>3, <1>4, <1>5 DEF Follows

-----------------------------------------------------------------------------
(* The invariant.  Eight numbers say where the pointers are: what the write *)
(* side sees of the read pointer (rw), what it will see next (rs), the      *)
(* read side's Gray code (rg) and its pointer (r), and the same of the      *)
(* write pointer, ww, ws, wg and w.                                         *)

WriteSide(rw, rs, wg, w) ==
  /\ rptr_sync[1] = Gray(rs) /\ rptr_sync[2] = Gray(rw)
  /\ wptr_gray_r = Gray(wg) /\ wptr_r = On(w) /\ w <= wg + 1
  /\ ~full_r => w < rw + N
  /\ wrst => /\ w = rw /\ wptr_r = 0
             /\ rptr_sync[1] = Gray(0) /\ rptr_sync[2] = Gray(0)

ReadSide(rg, r, ww, ws) ==
  /\ wptr_sync[1] = Gray(ws) /\ wptr_sync[2] = Gray(ww)
  /\ rptr_gray_r = Gray(rg) /\ rptr_r = On(r) /\ r <= rg + 1
  /\ ~uarch_empty_r => r < ww
  /\ rrst => /\ ws = rg /\ rptr_r = 0
             /\ wptr_sync[1] = Gray(0) /\ wptr_sync[2] = Gray(0)
             /\ uarch_empty_r /\ out = <<>> /\ read = <<>>

Ordered(rw, rs, rg, r, ww, ws, wg, w) ==
  /\ rw <= rs /\ rs <= rg /\ rg <= r /\ r <= ww /\ ww <= ws /\ ws <= wg /\ wg <= w
  /\ w <= rw + N

\* The scoreboard is what has left the array and then what is in it.
Contents(r, w) == Follows(queue, out \o read, mem, r, w)

Traffic(rw, rs, rg, r, ww, ws, wg, w) ==
  /\ Ordered(rw, rs, rg, r, ww, ws, wg, w)
  /\ WriteSide(rw, rs, wg, w) /\ ReadSide(rg, r, ww, ws) /\ Contents(r, w)

Somewhere ==
  \E rw, rs, rg, r, ww, ws, wg, w \in Nat : Traffic(rw, rs, rg, r, ww, ws, wg, w)

InReset ==
  /\ wptr_r = 0 /\ rptr_r = 0 /\ ~full_r /\ uarch_empty_r
  /\ rptr_sync[1] = Gray(0) /\ rptr_sync[2] = Gray(0)
  /\ wptr_sync[1] = Gray(0) /\ wptr_sync[2] = Gray(0)
  /\ read = <<>> /\ out = <<>> /\ queue = <<>>

IInv ==
  /\ TypeOK
  /\ wrst /\ rrst => InReset
  /\ ~(wrst /\ rrst) => Somewhere

\* What a flop takes of a pointer that counts from n up to k is the code of a
\* number from n up to k.
LEMMA SampledPosition ==
  ASSUME NEW n \in Nat, NEW k \in Nat, n <= k, k <= n + 1,
         NEW c \in Sampled(Gray(n), Gray(k))
  PROVE  \E s \in Nat : n <= s /\ s <= k /\ c = Gray(s)
<1>1. PICK d \in 0 .. 1 : k = n + d
  <2>1. k - n \in 0 .. 1 /\ k = n + (k - n)
    OBVIOUS
  <2>2. QED
    BY <2>1
<1>2. On(n) \in Ptr /\ Plus(On(n), d, 2 * N) = On(k)
  BY <1>1, OnType, OnNext
<1>3. c \in Sampled(binary_to_gray[On(n)], binary_to_gray[Plus(On(n), d, 2 * N)])
  BY <1>2 DEF Gray
<1>4. PICK e \in 0 .. d : c = binary_to_gray[Plus(On(n), e, 2 * N)]
  BY <1>2, <1>3, SampledIsOldOrNew
<1>5. e \in 0 .. 1 /\ n + e \in Nat /\ n <= n + e /\ n + e <= k
  BY <1>1
<1>6. c = Gray(n + e)
  BY <1>4, <1>5, OnNext DEF Gray
<1>7. QED
  BY <1>5, <1>6

LEMMA SameEnd ==
  ASSUME NEW l \in Nat, NEW m \in Nat, 1 .. l = 1 .. m
  PROVE  l = m
<1>1. ~(l < m)
  <2>1. l < m => l + 1 \in 1 .. m /\ l + 1 \notin 1 .. l
    OBVIOUS
  <2>2. QED
    BY <2>1
<1>2. ~(m < l)
  <2>1. m < l => m + 1 \in 1 .. l /\ m + 1 \notin 1 .. m
    OBVIOUS
  <2>2. QED
    BY <2>1
<1>3. QED
  BY <1>1, <1>2

LEMMA ShortSequences ==
  ASSUME NEW S, NEW n \in Nat, NEW q
  PROVE  q \in BoundedSeq(S, n) <=> q \in Seq(S) /\ Len(q) <= n
<1>1. ASSUME q \in BoundedSeq(S, n)
      PROVE  q \in Seq(S) /\ Len(q) <= n
  <2>1. PICK m \in 0 .. n : q \in [1 .. m -> S]
    BY <1>1 DEF BoundedSeq, SeqOf
  <2>2. q \in Seq(S)
    BY <2>1, SeqDef
  <2>3. DOMAIN q = 1 .. Len(q) /\ Len(q) \in Nat /\ DOMAIN q = 1 .. m
    BY <2>1, <2>2, LenProperties
  <2>4. Len(q) = m
    <3>1. PICK l \in Nat : l = Len(q)
      BY <2>3
    <3>2. 1 .. l = 1 .. m
      BY <2>3, <3>1, Zenon
    <3>3. m \in Nat
      OBVIOUS
    <3>4. QED
      BY <3>1, <3>2, <3>3, SameEnd
  <2>5. QED
    BY <2>2, <2>4
<1>2. ASSUME q \in Seq(S), Len(q) <= n
      PROVE  q \in BoundedSeq(S, n)
  <2>1. q \in [1 .. Len(q) -> S] /\ Len(q) \in 0 .. n
    BY <1>2, LenProperties
  <2>2. QED
    BY <2>1 DEF BoundedSeq, SeqOf
<1>3. QED
  BY <1>1, <1>2

\* The pop side's words and the one in flight, when a word is popped.
LEMMA TailOfConcat ==
  ASSUME NEW S, NEW s \in Seq(S), NEW t \in Seq(S), s # <<>>
  PROVE  Tail(s \o t) = Tail(s) \o t /\ s \o t # <<>>
<1>1. /\ s \o t \in Seq(S) /\ Len(s \o t) = Len(s) + Len(t)
      /\ \A i \in 1 .. Len(s) + Len(t) :
           (s \o t)[i] = IF i <= Len(s) THEN s[i] ELSE t[i - Len(s)]
  BY ConcatProperties
<1>2. Len(s) \in Nat \ {0} /\ Len(t) \in Nat
  BY EmptySeq, LenProperties
<1>3. s \o t # <<>>
  BY <1>1, <1>2, EmptySeq
<1>4. /\ Tail(s) \in Seq(S) /\ Len(Tail(s)) = Len(s) - 1
      /\ \A i \in 1 .. Len(Tail(s)) : Tail(s)[i] = s[i + 1]
  BY HeadTailProperties
<1>5. /\ Tail(s \o t) \in Seq(S) /\ Len(Tail(s \o t)) = Len(s \o t) - 1
      /\ \A i \in 1 .. Len(Tail(s \o t)) : Tail(s \o t)[i] = (s \o t)[i + 1]
  BY <1>1, <1>3, HeadTailProperties
<1>6. /\ Tail(s) \o t \in Seq(S) /\ Len(Tail(s) \o t) = Len(Tail(s)) + Len(t)
      /\ \A i \in 1 .. Len(Tail(s)) + Len(t) :
           (Tail(s) \o t)[i] = IF i <= Len(Tail(s)) THEN Tail(s)[i] ELSE t[i - Len(Tail(s))]
  BY <1>4, ConcatProperties
<1>7. Len(Tail(s \o t)) = Len(Tail(s) \o t)
  BY <1>1, <1>2, <1>4, <1>5, <1>6
<1>8. ASSUME NEW i \in 1 .. Len(Tail(s \o t))
      PROVE  Tail(s \o t)[i] = (Tail(s) \o t)[i]
  <2>1. i \in 1 .. Len(s) - 1 + Len(t) /\ i + 1 \in 1 .. Len(s) + Len(t)
    BY <1>1, <1>2, <1>5, <1>8
  <2>2. CASE i + 1 <= Len(s)
    BY <1>1, <1>2, <1>4, <1>5, <1>6, <2>1, <2>2
  <2>3. CASE ~(i + 1 <= Len(s))
    <3>1. (i + 1) - Len(s) = i - (Len(s) - 1) /\ ~(i <= Len(s) - 1)
      BY <1>2, <2>3
    <3>2. QED
      BY <1>1, <1>2, <1>4, <1>5, <1>6, <2>1, <2>3, <3>1
  <2>4. QED
    BY <2>2, <2>3
<1>9. QED
  BY <1>3, <1>5, <1>6, <1>7, <1>8, SeqEqual

-----------------------------------------------------------------------------
(* The edges.                                                              *)

LEMMA PushedType ==
  ASSUME NEW p \in Pushed
  PROVE  p \in Seq(Words) /\ Len(p) \in 0 .. 1 /\ (p # <<>> <=> Len(p) = 1)
<1>1. CASE p = <<>>
  BY <1>1, EmptySeq
<1>2. CASE p # <<>>
  <2>1. PICK d \in Words : p = <<d>>
    BY <1>2 DEF Pushed
  <2>2. p \in Seq(Words) /\ Len(p) = 1
    BY <2>1
  <2>3. QED
    BY <1>2, <2>2
<1>3. QED
  BY <1>1, <1>2

LEMMA SeenPosition ==
  ASSUME NEW n \in Nat
  PROVE  gray_to_binary[Gray(n)] = On(n) /\ Gray(n) \in Code
  BY OnType, GrayInverse, GrayType DEF Gray

\* At an edge of wclk, the other side's Gray code stays or becomes that of nx.
BeforeWrite(rw, rs, rg, nx, wg, w) ==
  /\ wrst' = wrst
  /\ rw <= rs /\ rs <= rg /\ rg <= nx /\ nx <= rg + 1 /\ nx <= w /\ w <= rw + N
  /\ rptr_gray_r = Gray(rg) /\ rptr_gray_r' = Gray(nx)
  /\ WriteSide(rw, rs, wg, w)

LEMMA WriteEdgeMoves ==
  ASSUME TypeOK, NEW pushed \in Pushed, WriteEdge(pushed), SampleReadPointer,
         NEW rw \in Nat, NEW rs \in Nat, NEW rg \in Nat, NEW nx \in Nat,
         NEW wg \in Nat, NEW w \in Nat, BeforeWrite(rw, rs, rg, nx, wg, w)
  PROVE  /\ pushed # <<>> => w < rw + N
         /\ \E s \in Nat : rg <= s /\ s <= nx /\ WriteSide(rs, s, w, w + Len(pushed))'
<1> USE DEF BeforeWrite
<1>1. PICK d \in 0 .. 1 : d = Len(pushed) /\ (d = 1 <=> pushed # <<>>)
  BY PushedType
<1>2. pushed # <<>> => w < rw + N /\ ~wrst
  BY DEF WriteEdge, WriteSide
<1>3. w + d \in Nat /\ w <= w + d /\ w + d <= w + 1 /\ w + d <= rw + N /\ w + d <= rs + N
  <2>1. CASE d = 0
    BY <2>1, Depth
  <2>2. CASE d = 1
    <3>1. w < rw + N
      BY <1>1, <1>2, <2>2
    <3>2. QED
      BY <2>2, <3>1, Depth
  <2>3. QED
    BY <2>1, <2>2
<1>4. wptr_gray_r' = Gray(w)
  BY DEF WriteEdge, WriteSide, Gray
<1>5. rptr_wsync = On(rw)
  BY SeenPosition DEF WriteSide, rptr_wsync
<1>6. CASE wrst
  <2>1. pushed = <<>> /\ d = 0 /\ w + d = w
    BY <1>1, <1>2, <1>6
  <2>2. rw = w /\ rs = w /\ rg = w /\ nx = w
    BY <1>6 DEF WriteSide
  <2>3. wptr_r = 0 /\ On(w) = 0
    BY <1>6 DEF WriteSide
  <2>4. Gray(w) = Gray(0) /\ Gray(0) = binary_to_gray[0]
    BY <2>3, OnZero DEF Gray
  <2>5. wptr_r' = 0 /\ ~full_r'
    BY <1>6 DEF WriteEdge, wptr_w, full_w
  <2>6. rptr_sync'[1] = Gray(0) /\ rptr_sync'[2] = Gray(0)
    BY <1>6, <2>4 DEF SampleReadPointer, Synchronised
  <2>7. w < w + N
    BY Depth
  <2>8. WriteSide(w, w, w, w)'
    BY <1>4, <2>3, <2>4, <2>5, <2>6, <2>7 DEF WriteSide
  <2>9. QED
    BY <1>1, <1>2, <2>1, <2>2, <2>8
<1>7. CASE ~wrst
  <2>1. PICK s \in Nat : rg <= s /\ s <= nx /\ rptr_sync'[1] = Gray(s)
    <3>1. rptr_sync'[1] \in Sampled(Gray(rg), Gray(nx))
      BY <1>7 DEF SampleReadPointer, Synchronised
    <3>2. QED
      BY <3>1, SampledPosition
  <2>2. rptr_sync'[2] = Gray(rs)
    BY <1>7 DEF SampleReadPointer, Synchronised, WriteSide
  <2>3. wptr_r' = On(w + d)
    <3>1. wptr_r' = (On(w) + d) % (2 * N)
      BY <1>1, <1>7 DEF WriteEdge, wptr_w, WriteSide
    <3>2. QED
      BY <3>1, OnNext DEF Plus
  <2>4. full_r' <=> (On(w + d) + N) % (2 * N) = On(rw)
    <3>1. wptr_w(pushed) = On(w + d)
      BY <2>3 DEF WriteEdge
    <3>2. QED
      BY <1>5, <1>7, <3>1 DEF WriteEdge, full_w
  <2>5. full_r' <=> w + d = rw + N
    <3>1. rw <= w + d
      BY <1>3
    <3>2. QED
      BY <1>3, <2>4, <3>1, OnFull
  <2>6. ~full_r' => w + d < rs + N
    BY <1>3, <2>5, Depth
  <2>7. WriteSide(rs, s, w, w + d)'
    BY <1>3, <1>4, <1>7, <2>1, <2>2, <2>3, <2>6 DEF WriteSide
  <2>8. QED
    BY <1>1, <1>2, <2>1, <2>7
<1>8. QED
  BY <1>6, <1>7

\* At an edge of rclk, the other side's Gray code stays or becomes that of nx.
BeforeRead(rg, r, ww, ws, wg, nx) ==
  /\ rrst' = rrst
  /\ rg <= r /\ r <= ww /\ ww <= ws /\ ws <= wg /\ wg <= nx /\ nx <= wg + 1
  /\ ww <= r + N
  /\ wptr_gray_r = Gray(wg) /\ wptr_gray_r' = Gray(nx)
  /\ ReadSide(rg, r, ww, ws)

LEMMA ReadEdgeMoves ==
  ASSUME TypeOK, NEW pop \in BOOLEAN, ReadEdge(pop), SampleWritePointer,
         NEW rg \in Nat, NEW r \in Nat, NEW ww \in Nat, NEW ws \in Nat,
         NEW wg \in Nat, NEW nx \in Nat, BeforeRead(rg, r, ww, ws, wg, nx)
  PROVE  \E s \in Nat, d \in 0 .. 1 :
           /\ d = 1 <=> read_adv
           /\ d = 1 => r < ww
           /\ ws <= s /\ s <= nx
           /\ ReadSide(r, r + d, ws, s)'
<1> USE DEF BeforeRead
<1>1. PICK d \in 0 .. 1 : (d = 1 <=> read_adv) /\ (d = 0 <=> ~read_adv)
  <2>1. CASE read_adv
    <3>1. 1 \in 0 .. 1
      OBVIOUS
    <3>2. QED
      BY <2>1, <3>1
  <2>2. CASE ~read_adv
    <3>1. 0 \in 0 .. 1
      OBVIOUS
    <3>2. QED
      BY <2>2, <3>1
  <2>3. QED
    BY <2>1, <2>2
<1>2. d = 1 => r < ww
  BY <1>1 DEF read_adv, ReadSide
<1>3. rptr_gray_r' = Gray(r)
  BY DEF ReadEdge, ReadSide, Gray
<1>4. wptr_rsync = On(ww)
  BY SeenPosition DEF ReadSide, wptr_rsync
<1>5. CASE rrst
  <2>1. ~read_adv /\ d = 0 /\ r + d = r
    BY <1>1, <1>5 DEF ReadSide, read_adv
  <2>2. rg = r /\ ww = r /\ ws = r
    BY <1>5 DEF ReadSide
  <2>3. rptr_r = 0 /\ On(r) = 0
    BY <1>5 DEF ReadSide
  <2>4. Gray(r) = Gray(0) /\ Gray(0) = binary_to_gray[0]
    BY <2>3, OnZero DEF Gray
  <2>5. rptr_r' = 0 /\ uarch_empty_r'
    BY <1>5 DEF ReadEdge, rptr_w, uarch_empty_w
  <2>6. wptr_sync'[1] = Gray(0) /\ wptr_sync'[2] = Gray(0)
    BY <1>5, <2>4 DEF SampleWritePointer, Synchronised
  <2>7. out' = <<>> /\ read' = <<>>
    <3>1. out = <<>> /\ read = <<>> /\ ~pop
      BY <1>5 DEF ReadSide, ReadEdge
    <3>2. <<>> \o <<>> = <<>>
      BY ConcatEmptySeq, EmptySeq
    <3>3. QED
      BY <2>1, <3>1, <3>2 DEF ReadEdge
  <2>8. ReadSide(r, r, r, r)'
    BY <1>3, <2>3, <2>4, <2>5, <2>6, <2>7 DEF ReadSide
  <2>9. QED
    BY <1>1, <1>2, <1>5, <2>1, <2>2, <2>8
<1>6. CASE ~rrst
  <2>1. PICK s \in Nat : wg <= s /\ s <= nx /\ wptr_sync'[1] = Gray(s)
    <3>1. wptr_sync'[1] \in Sampled(Gray(wg), Gray(nx))
      BY <1>6 DEF SampleWritePointer, Synchronised
    <3>2. QED
      BY <3>1, SampledPosition
  <2>2. wptr_sync'[2] = Gray(ws)
    BY <1>6 DEF SampleWritePointer, Synchronised, ReadSide
  <2>3. rptr_w = On(r + d)
    <3>1. CASE d = 0
      <4>1. r + d = r
        BY <3>1
      <4>2. QED
        BY <1>1, <1>6, <3>1, <4>1 DEF rptr_w, ReadSide
    <3>2. CASE d = 1
      <4>1. rptr_w = (On(r) + d) % (2 * N)
        BY <1>1, <1>6, <3>2 DEF rptr_w, ReadSide
      <4>2. QED
        BY <4>1, OnNext DEF Plus
    <3>3. QED
      BY <3>1, <3>2
  <2>4. rptr_r' = On(r + d)
    BY <2>3 DEF ReadEdge
  <2>5. r + d \in Nat /\ r + d <= r + 1 /\ r + d <= ww /\ ww <= (r + d) + N
    BY <1>2, Depth
  <2>6. uarch_empty_r' <=> On(ww) = On(r + d)
    BY <1>4, <1>6, <2>3 DEF ReadEdge, uarch_empty_w
  <2>7. ~uarch_empty_r' => r + d < ws
    <3>1. On(ww) # On(r + d) => r + d # ww
      OBVIOUS
    <3>2. QED
      BY <2>5, <2>6, <3>1
  <2>8. ReadSide(r, r + d, ws, s)'
    BY <1>3, <1>6, <2>1, <2>2, <2>4, <2>5, <2>7 DEF ReadSide
  <2>9. QED
    BY <1>1, <1>2, <2>1, <2>8
<1>7. QED
  BY <1>5, <1>6

\* What has left the array, after an edge of rclk.
LEMMA HeldMoves ==
  ASSUME TypeOK, NEW pop \in BOOLEAN, ReadEdge(pop),
         NEW r \in Nat, rptr_r = On(r), NEW d \in 0 .. 1, d = 1 <=> read_adv
  PROVE  /\ pop => out \o read # <<>>
         /\ d = 1 => Len(out \o read) < 2
         /\ out' \o read' = (IF pop THEN Tail(out \o read) ELSE out \o read)
                              \o (IF d = 1 THEN <<mem[Cell(r)]>> ELSE <<>>)
<1>1. /\ out \in Seq(Words) /\ read \in Seq(Words) /\ Len(out) \in Nat /\ Len(read) \in Nat
      /\ pop => out # <<>>
  <2>1. out \in Seq(Words)
    BY ShortSequences DEF TypeOK
  <2>2. read \in Seq(Words)
    BY PushedType DEF TypeOK
  <2>3. QED
    BY <2>1, <2>2, LenProperties DEF ReadEdge
<1>2. pop => /\ Tail(out \o read) = Tail(out) \o read
             /\ out \o read # <<>>
  BY <1>1, TailOfConcat
<1>3. /\ out' = (IF pop THEN Tail(out) ELSE out) \o read
      /\ read' = IF read_adv THEN <<mem[rptr_r % N]>> ELSE <<>>
  BY DEF ReadEdge
<1>4. out' = IF pop THEN Tail(out \o read) ELSE out \o read
  BY <1>2, <1>3
<1>5. d = 1 => Len(out \o read) < 2
  BY <1>1, ConcatProperties DEF read_adv
<1>6. mem[rptr_r % N] = mem[Cell(r)]
  BY CellOf
<1>7. QED
  BY <1>2, <1>3, <1>4, <1>5, <1>6, Zenon

BeforeWords(r, w, pushed, pop, d) ==
  /\ r <= w /\ Contents(r, w) /\ wptr_r = On(w)
  /\ pop => out \o read # <<>>
  /\ d = 1 => r < w /\ Len(out \o read) < 2
  /\ pushed # <<>> => w < r + N
  /\ Score(pushed, pop)
  /\ mem' = IF pushed # <<>> THEN [mem EXCEPT ![wptr_r % N] = pushed[1]] ELSE mem
  /\ out' \o read' = (IF pop THEN Tail(out \o read) ELSE out \o read)
                        \o (IF d = 1 THEN <<mem[Cell(r)]>> ELSE <<>>)

LEMMA ContentsMoves ==
  ASSUME TypeOK, NEW r \in Nat, NEW w \in Nat, NEW pushed \in Pushed, NEW pop \in BOOLEAN,
         NEW d \in 0 .. 1, BeforeWords(r, w, pushed, pop, d)
  PROVE  Contents(r + d, w + Len(pushed))'
<1> USE DEF BeforeWords
<1> DEFINE q1 == IF pop THEN Tail(queue) ELSE queue
           h1 == IF pop THEN Tail(out \o read) ELSE out \o read
           h2 == h1 \o (IF d = 1 THEN <<mem[Cell(r)]>> ELSE <<>>)
<1>1. mem \in [0 .. N - 1 -> Words]
  BY DEF TypeOK
<1>2. Follows(queue, out \o read, mem, r, w)
  BY DEF Contents
<1>3. Follows(q1, h1, mem, r, w)
  BY <1>2, FollowsPop
<1>4. d = 1 => Len(h1) < 2
  <2>1. out \o read \in Seq(Words)
    BY <1>2 DEF Follows
  <2>2. pop => Len(Tail(out \o read)) = Len(out \o read) - 1
    BY <2>1, HeadTailProperties
  <2>3. Len(out \o read) \in Nat
    BY <2>1, LenProperties
  <2>4. QED
    BY <2>2, <2>3
<1> HIDE DEF q1, h1
<1>5. Follows(q1, h2, mem, r + d, w)
  <2>1. CASE d = 0
    <3>1. r + d = r /\ h1 \in Seq(Words)
      BY <1>3, <2>1 DEF Follows
    <3>2. h2 = h1
      BY <2>1, <3>1, ConcatEmptySeq
    <3>3. QED
      BY <1>3, <3>1, <3>2
  <2>2. CASE d = 1
    <3>1. Follows(q1, h1 \o <<mem[Cell(r)]>>, mem, r + 1, w)
      BY <1>1, <1>3, <1>4, <2>2, FollowsRead
    <3>2. QED
      BY <2>2, <3>1
  <2>3. QED
    BY <2>1, <2>2
<1>6. out' \o read' = h2
  BY DEF h1
<1> HIDE DEF h2
<1>7. queue' = q1 \o pushed
  BY DEF Score, q1
<1>8. r + d \in Nat /\ r + d <= w
  <2>1. CASE d = 0
    BY <2>1
  <2>2. CASE d = 1
    BY <2>2
  <2>3. QED
    BY <2>1, <2>2
<1>9. Follows(queue', h2, mem', r + d, w + Len(pushed))
  <2>1. CASE pushed = <<>>
    <3>1. q1 \o pushed = q1
      BY <1>5, <2>1, ConcatEmptySeq DEF Follows
    <3>2. Len(pushed) = 0 /\ w + Len(pushed) = w
      BY <2>1
    <3>3. mem' = mem
      BY <2>1
    <3>4. QED
      BY <1>5, <1>7, <3>1, <3>2, <3>3
  <2>2. CASE pushed # <<>>
    <3>1. PICK e \in Words : pushed = <<e>>
      BY <2>2 DEF Pushed
    <3>2. Len(pushed) = 1 /\ pushed[1] = e
      BY <3>1
    <3>3. w < (r + d) + N
      BY <1>8, <2>2, Depth
    <3>4. mem' = [mem EXCEPT ![Cell(w)] = e]
      BY <2>2, <3>2, CellOf
    <3>5. Follows(q1 \o <<e>>, h2, [mem EXCEPT ![Cell(w)] = e], r + d, w + 1)
      BY <1>1, <1>5, <1>8, <3>3, FollowsPush
    <3>6. QED
      BY <1>7, <3>1, <3>2, <3>4, <3>5
  <2>3. QED
    BY <2>1, <2>2
<1>10. QED
  BY <1>6, <1>9 DEF Contents

LEMMA WriteTypes ==
  ASSUME TypeOK, NEW pushed \in Pushed, WriteEdge(pushed), SampleReadPointer
  PROVE  /\ wptr_r' \in Ptr /\ wptr_gray_r' \in Code /\ rptr_sync' \in Code \X Code
         /\ full_r' \in BOOLEAN /\ mem' \in [0 .. N - 1 -> Words]
<1>1. wptr_r' \in Ptr
  <2>1. PICK M \in Nat \ {0} : M = 2 * N /\ Ptr = 0 .. M - 1 /\ 1 \in 0 .. M - 1
    BY Depth DEF Ptr
  <2>2. PICK d \in 0 .. M - 1 : d = Len(pushed)
    <3>1. Len(pushed) = 0 \/ Len(pushed) = 1
      BY PushedType
    <3>2. 0 \in 0 .. M - 1 /\ 1 \in 0 .. M - 1
      BY <2>1
    <3>3. Len(pushed) \in 0 .. M - 1
      BY <3>1, <3>2, Zenon
    <3>4. QED
      BY <3>3
  <2>3. Plus(wptr_r, d, M) \in 0 .. M - 1
    BY <2>1, <2>2, MovedType DEF TypeOK
  <2>4. QED
    BY <2>1, <2>2, <2>3, Depth DEF WriteEdge, wptr_w, Plus
<1>2. wptr_gray_r' \in Code
  BY GrayType DEF WriteEdge, TypeOK
<1>3. rptr_sync' \in Code \X Code
  <2>1. binary_to_gray[0] \in Code
    BY GrayType, Depth
  <2>2. rptr_sync[1] \in Code
    BY DEF TypeOK
  <2>3. QED
    BY <2>1, <2>2 DEF SampleReadPointer, Synchronised, Sampled
<1>4. full_r' \in BOOLEAN
  BY DEF WriteEdge, full_w
<1>5. mem' \in [0 .. N - 1 -> Words]
  <2>1. pushed # <<>> => pushed[1] \in Words
    BY DEF Pushed
  <2>2. QED
    BY <2>1 DEF WriteEdge, TypeOK
<1>6. QED
  BY <1>1, <1>2, <1>3, <1>4, <1>5

LEMMA ReadTypes ==
  ASSUME TypeOK, NEW pop \in BOOLEAN, ReadEdge(pop), SampleWritePointer, Len(out \o read) <= 2
  PROVE  /\ rptr_r' \in Ptr /\ rptr_gray_r' \in Code /\ wptr_sync' \in Code \X Code
         /\ uarch_empty_r' \in BOOLEAN /\ read' \in Pushed /\ out' \in BoundedSeq(Words, 2)
<1>1. rptr_r' \in Ptr
  <2>1. PICK M \in Nat \ {0} : M = 2 * N /\ Ptr = 0 .. M - 1 /\ 1 \in 0 .. M - 1
    BY Depth DEF Ptr
  <2>2. Plus(rptr_r, 1, M) \in 0 .. M - 1
    BY <2>1, MovedType DEF TypeOK
  <2>3. QED
    BY <2>1, <2>2, Depth DEF ReadEdge, rptr_w, Plus, TypeOK
<1>2. rptr_gray_r' \in Code
  BY GrayType DEF ReadEdge, TypeOK
<1>3. wptr_sync' \in Code \X Code
  <2>1. binary_to_gray[0] \in Code
    BY GrayType, Depth
  <2>2. wptr_sync[1] \in Code
    BY DEF TypeOK
  <2>3. QED
    BY <2>1, <2>2 DEF SampleWritePointer, Synchronised, Sampled
<1>4. uarch_empty_r' \in BOOLEAN
  BY DEF ReadEdge, uarch_empty_w, TypeOK
<1>5. read' \in Pushed
  <2>1. rptr_r % N \in 0 .. N - 1
    <3>1. PICK K \in Nat \ {0} : K = N
      BY Depth
    <3>2. rptr_r \in Nat
      BY Depth DEF TypeOK
    <3>3. rptr_r % K \in 0 .. K - 1
      BY <3>2
    <3>4. QED
      BY <3>1, <3>3
  <2>2. mem[rptr_r % N] \in Words
    BY <2>1 DEF TypeOK
  <2>3. QED
    BY <2>2 DEF ReadEdge, Pushed
<1>6. out' \in BoundedSeq(Words, 2)
  <2>1. out \in Seq(Words)
    BY ShortSequences DEF TypeOK
  <2>2. read \in Seq(Words)
    BY PushedType DEF TypeOK
  <2>3. out \o read \in Seq(Words)
    BY <2>1, <2>2, ConcatProperties
  <2>4. pop => Tail(out) \o read = Tail(out \o read) /\ out \o read # <<>>
    BY <2>1, <2>2, TailOfConcat DEF ReadEdge
  <2>5. pop => /\ Tail(out \o read) \in Seq(Words)
               /\ Len(Tail(out \o read)) = Len(out \o read) - 1
    BY <2>3, <2>4, HeadTailProperties
  <2>6. Len(out \o read) \in Nat
    BY <2>3, LenProperties
  <2>7. out' \in Seq(Words) /\ Len(out') <= 2
    BY <2>3, <2>4, <2>5, <2>6 DEF ReadEdge
  <2>8. QED
    BY <2>7, ShortSequences
<1>7. QED
  BY <1>1, <1>2, <1>3, <1>4, <1>5, <1>6

-----------------------------------------------------------------------------
(* The steps in traffic, one lemma for each action.                        *)

LEMMA TrafficWriteClock ==
  ASSUME TypeOK, Somewhere, NEW pushed \in Pushed, WriteClock(pushed)
  PROVE  TypeOK' /\ Somewhere'
<1>1. /\ WriteEdge(pushed) /\ SampleReadPointer /\ Score(pushed, FALSE)
      /\ wrst' = wrst /\ rrst' = rrst /\ rptr_r' = rptr_r /\ rptr_gray_r' = rptr_gray_r
      /\ wptr_sync' = wptr_sync /\ uarch_empty_r' = uarch_empty_r /\ read' = read /\ out' = out
  BY DEF WriteClock, resets, readVars
<1> PICK rw \in Nat, rs \in Nat, rg \in Nat, r \in Nat,
         ww \in Nat, ws \in Nat, wg \in Nat, w \in Nat :
           Traffic(rw, rs, rg, r, ww, ws, wg, w)
  BY DEF Somewhere
<1>2. /\ rw <= rs /\ rs <= rg /\ rg <= r /\ r <= ww /\ ww <= ws /\ ws <= wg /\ wg <= w
      /\ w <= rw + N
      /\ WriteSide(rw, rs, wg, w) /\ ReadSide(rg, r, ww, ws) /\ Contents(r, w)
  BY DEF Traffic, Ordered
<1>3. PICK m \in 0 .. 1 : m = Len(pushed) /\ (pushed # <<>> <=> m = 1)
  BY PushedType
<1>4. N \in Nat /\ rg <= rg + 1 /\ rg <= w /\ r <= w /\ rw <= r
  BY <1>2, Depth
<1>5. rptr_gray_r = Gray(rg) /\ rptr_gray_r' = Gray(rg)
  BY <1>1, <1>2 DEF ReadSide
<1>6. /\ pushed # <<>> => w < rw + N
      /\ \E s \in Nat : rg <= s /\ s <= rg /\ WriteSide(rs, s, w, w + Len(pushed))'
  <2>1. BeforeWrite(rw, rs, rg, rg, wg, w)
    BY <1>1, <1>2, <1>4, <1>5 DEF BeforeWrite
  <2>2. QED
    BY <1>1, <2>1, WriteEdgeMoves
<1>7. WriteSide(rs, rg, w, w + m)'
  <2>1. PICK s \in Nat : rg <= s /\ s <= rg /\ WriteSide(rs, s, w, w + m)'
    BY <1>3, <1>6
  <2>2. s = rg
    BY <2>1
  <2>3. QED
    BY <2>1, <2>2
<1>8. ReadSide(rg, r, ww, ws)'
  BY <1>1, <1>2 DEF ReadSide
<1>9. Contents(r, w + m)'
  <2>1. out \o read \in Seq(Words)
    BY <1>2 DEF Contents, Follows
  <2>2. out' \o read' = (IF FALSE THEN Tail(out \o read) ELSE out \o read)
                          \o (IF 0 = 1 THEN <<mem[Cell(r)]>> ELSE <<>>)
    BY <1>1, <2>1, ConcatEmptySeq
  <2>3. /\ wptr_r = On(w)
        /\ mem' = IF pushed # <<>> THEN [mem EXCEPT ![wptr_r % N] = pushed[1]] ELSE mem
    BY <1>1, <1>2 DEF WriteSide, WriteEdge
  <2>4. pushed # <<>> => w < r + N
    BY <1>4, <1>6
  <2>5. 0 \in 0 .. 1 /\ FALSE \in BOOLEAN /\ r + 0 = r
    OBVIOUS
  <2>6. BeforeWords(r, w, pushed, FALSE, 0)
    <3>1. ~(0 = 1)
      OBVIOUS
    <3>2. r <= w /\ Contents(r, w) /\ Score(pushed, FALSE)
      BY <1>1, <1>2, <1>4, Zenon
    <3>3. QED
      BY <2>2, <2>3, <2>4, <3>1, <3>2, Zenon DEF BeforeWords
  <2>7. Contents(r + 0, w + Len(pushed))'
    BY <2>5, <2>6, ContentsMoves
  <2>8. QED
    BY <1>3, <2>5, <2>7
<1>10. Ordered(rs, rg, rg, r, ww, ws, w, w + m)
  <2>1. w + m <= rs + N
    <3>1. CASE m = 0
      BY <1>2, <1>4, <3>1
    <3>2. CASE m = 1
      <4>1. w < rw + N
        BY <1>3, <1>6, <3>2
      <4>2. QED
        BY <1>2, <1>4, <3>2, <4>1
    <3>3. QED
      BY <1>3, <3>1, <3>2
  <2>2. QED
    BY <1>2, <1>3, <2>1 DEF Ordered
<1>11. Somewhere'
  <2>1. w + m \in Nat /\ Traffic(rs, rg, rg, r, ww, ws, w, w + m)'
    BY <1>7, <1>8, <1>9, <1>10 DEF Traffic, Ordered
  <2>2. QED
    BY <2>1 DEF Somewhere
<1>12. TypeOK'
  <2>1. /\ wptr_r' \in Ptr /\ wptr_gray_r' \in Code /\ rptr_sync' \in Code \X Code
        /\ full_r' \in BOOLEAN /\ mem' \in [0 .. N - 1 -> Words]
    BY <1>1, WriteTypes
  <2>2. QED
    BY <1>1, <2>1 DEF TypeOK
<1>13. QED
  BY <1>11, <1>12

LEMMA TrafficReadClock ==
  ASSUME TypeOK, Somewhere, NEW pop \in BOOLEAN, ReadClock(pop)
  PROVE  TypeOK' /\ Somewhere'
<1>1. /\ ReadEdge(pop) /\ SampleWritePointer /\ Score(<<>>, pop)
      /\ wrst' = wrst /\ rrst' = rrst /\ wptr_r' = wptr_r /\ wptr_gray_r' = wptr_gray_r
      /\ rptr_sync' = rptr_sync /\ full_r' = full_r /\ mem' = mem
  BY DEF ReadClock, resets, writeVars
<1> PICK rw \in Nat, rs \in Nat, rg \in Nat, r \in Nat,
         ww \in Nat, ws \in Nat, wg \in Nat, w \in Nat :
           Traffic(rw, rs, rg, r, ww, ws, wg, w)
  BY DEF Somewhere
<1>2. /\ rw <= rs /\ rs <= rg /\ rg <= r /\ r <= ww /\ ww <= ws /\ ws <= wg /\ wg <= w
      /\ w <= rw + N
      /\ WriteSide(rw, rs, wg, w) /\ ReadSide(rg, r, ww, ws) /\ Contents(r, w)
  BY DEF Traffic, Ordered
<1>3. N \in Nat /\ wg <= wg + 1 /\ ww <= r + N /\ r <= w
  BY <1>2, Depth
<1>4. wptr_gray_r = Gray(wg) /\ wptr_gray_r' = Gray(wg) /\ wptr_r = On(w) /\ rptr_r = On(r)
  BY <1>1, <1>2 DEF WriteSide, ReadSide
<1>5. PICK s \in Nat, d \in 0 .. 1 :
        /\ d = 1 <=> read_adv
        /\ d = 1 => r < ww
        /\ ws <= s /\ s <= wg
        /\ ReadSide(r, r + d, ws, s)'
  <2>1. BeforeRead(rg, r, ww, ws, wg, wg)
    BY <1>1, <1>2, <1>3, <1>4 DEF BeforeRead
  <2>2. QED
    BY <1>1, <2>1, ReadEdgeMoves
<1>6. WriteSide(rw, rs, wg, w)'
  BY <1>1, <1>2 DEF WriteSide
<1>7. r + d \in Nat /\ r <= r + d /\ r + d <= ws
  <2>1. CASE d = 0
    BY <1>2, <2>1
  <2>2. CASE d = 1
    BY <1>2, <1>5, <2>2
  <2>3. QED
    BY <2>1, <2>2
<1>8. Contents(r + d, w)'
  <2>1. <<>> \in Pushed /\ Len(<<>>) = 0 /\ w + 0 = w
    BY DEF Pushed
  <2>2. /\ pop => out \o read # <<>>
        /\ d = 1 => Len(out \o read) < 2
        /\ out' \o read' = (IF pop THEN Tail(out \o read) ELSE out \o read)
                             \o (IF d = 1 THEN <<mem[Cell(r)]>> ELSE <<>>)
    BY <1>1, <1>4, <1>5, HeldMoves
  <2>3. d = 1 => r < w
    BY <1>2, <1>5
  <2>4. BeforeWords(r, w, <<>>, pop, d)
    BY <1>1, <1>2, <1>3, <1>4, <2>2, <2>3, Zenon DEF BeforeWords
  <2>5. Contents(r + d, w + Len(<<>>))'
    BY <2>1, <2>4, ContentsMoves
  <2>6. QED
    BY <2>1, <2>5
<1>9. Ordered(rw, rs, r, r + d, ws, s, wg, w)
  BY <1>2, <1>5, <1>7 DEF Ordered
<1>10. Somewhere'
  <2>1. Traffic(rw, rs, r, r + d, ws, s, wg, w)'
    BY <1>5, <1>6, <1>8, <1>9 DEF Traffic, Ordered
  <2>2. QED
    BY <1>7, <2>1 DEF Somewhere
<1>11. TypeOK'
  <2>1. Len(out \o read) <= 2
    BY <1>2 DEF Contents, Follows
  <2>2. /\ rptr_r' \in Ptr /\ rptr_gray_r' \in Code /\ wptr_sync' \in Code \X Code
        /\ uarch_empty_r' \in BOOLEAN /\ read' \in Pushed /\ out' \in BoundedSeq(Words, 2)
    BY <1>1, <2>1, ReadTypes
  <2>3. QED
    BY <1>1, <2>2 DEF TypeOK
<1>12. QED
  BY <1>10, <1>11

LEMMA TrafficBothClocks ==
  ASSUME TypeOK, Somewhere, NEW pushed \in Pushed, NEW pop \in BOOLEAN, BothClocks(pushed, pop)
  PROVE  TypeOK' /\ Somewhere'
<1>1. /\ WriteEdge(pushed) /\ ReadEdge(pop)
      /\ SampleReadPointer /\ SampleWritePointer /\ Score(pushed, pop)
      /\ wrst' = wrst /\ rrst' = rrst
  BY DEF BothClocks, resets
<1> PICK rw \in Nat, rs \in Nat, rg \in Nat, r \in Nat,
         ww \in Nat, ws \in Nat, wg \in Nat, w \in Nat :
           Traffic(rw, rs, rg, r, ww, ws, wg, w)
  BY DEF Somewhere
<1>2. /\ rw <= rs /\ rs <= rg /\ rg <= r /\ r <= ww /\ ww <= ws /\ ws <= wg /\ wg <= w
      /\ w <= rw + N
      /\ WriteSide(rw, rs, wg, w) /\ ReadSide(rg, r, ww, ws) /\ Contents(r, w)
  BY DEF Traffic, Ordered
<1>3. /\ N \in Nat /\ ww <= r + N /\ rw <= r /\ r <= w
      /\ r <= rg + 1 /\ w <= wg + 1
  BY <1>2, Depth DEF WriteSide, ReadSide
<1>4. wptr_gray_r = Gray(wg) /\ rptr_gray_r = Gray(rg) /\ wptr_r = On(w) /\ rptr_r = On(r)
  BY <1>2 DEF WriteSide, ReadSide
<1>5. wptr_gray_r' = Gray(w) /\ rptr_gray_r' = Gray(r)
  BY <1>1, <1>4 DEF WriteEdge, ReadEdge, Gray
<1>6. PICK m \in 0 .. 1 : m = Len(pushed) /\ (pushed # <<>> <=> m = 1)
  BY PushedType
<1>7. /\ pushed # <<>> => w < rw + N
      /\ \E s \in Nat : rg <= s /\ s <= r /\ WriteSide(rs, s, w, w + Len(pushed))'
  <2>1. BeforeWrite(rw, rs, rg, r, wg, w)
    BY <1>1, <1>2, <1>3, <1>4, <1>5 DEF BeforeWrite
  <2>2. QED
    BY <1>1, <2>1, WriteEdgeMoves
<1>8. PICK t \in Nat : rg <= t /\ t <= r /\ WriteSide(rs, t, w, w + m)'
  BY <1>6, <1>7
<1>9. PICK s \in Nat, d \in 0 .. 1 :
        /\ d = 1 <=> read_adv
        /\ d = 1 => r < ww
        /\ ws <= s /\ s <= w
        /\ ReadSide(r, r + d, ws, s)'
  <2>1. BeforeRead(rg, r, ww, ws, wg, w)
    BY <1>1, <1>2, <1>3, <1>4, <1>5 DEF BeforeRead
  <2>2. QED
    BY <1>1, <2>1, ReadEdgeMoves
<1>10. r + d \in Nat /\ r <= r + d /\ r + d <= ws
  <2>1. CASE d = 0
    BY <1>2, <2>1
  <2>2. CASE d = 1
    BY <1>2, <1>9, <2>2
  <2>3. QED
    BY <2>1, <2>2
<1>11. w + m \in Nat /\ w <= w + m /\ w + m <= rs + N
  <2>1. CASE m = 0
    BY <1>2, <1>3, <2>1
  <2>2. CASE m = 1
    <3>1. w < rw + N
      BY <1>6, <1>7, <2>2
    <3>2. QED
      BY <1>2, <1>3, <2>2, <3>1
  <2>3. QED
    BY <2>1, <2>2
<1>12. Contents(r + d, w + m)'
  <2>1. /\ pop => out \o read # <<>>
        /\ d = 1 => Len(out \o read) < 2
        /\ out' \o read' = (IF pop THEN Tail(out \o read) ELSE out \o read)
                             \o (IF d = 1 THEN <<mem[Cell(r)]>> ELSE <<>>)
    BY <1>1, <1>4, <1>9, HeldMoves
  <2>2. d = 1 => r < w
    BY <1>2, <1>9
  <2>3. pushed # <<>> => w < r + N
    BY <1>3, <1>7
  <2>4. mem' = IF pushed # <<>> THEN [mem EXCEPT ![wptr_r % N] = pushed[1]] ELSE mem
    BY <1>1 DEF WriteEdge
  <2>5. BeforeWords(r, w, pushed, pop, d)
    BY <1>1, <1>2, <1>3, <1>4, <2>1, <2>2, <2>3, <2>4, Zenon DEF BeforeWords
  <2>6. Contents(r + d, w + Len(pushed))'
    BY <2>5, ContentsMoves
  <2>7. QED
    BY <1>6, <2>6
<1>13. Ordered(rs, t, r, r + d, ws, s, w, w + m)
  BY <1>2, <1>8, <1>9, <1>10, <1>11 DEF Ordered
<1>14. Somewhere'
  <2>1. Traffic(rs, t, r, r + d, ws, s, w, w + m)'
    BY <1>8, <1>9, <1>12, <1>13 DEF Traffic, Ordered
  <2>2. QED
    BY <1>10, <1>11, <2>1 DEF Somewhere
<1>15. TypeOK'
  <2>1. Len(out \o read) <= 2
    BY <1>2 DEF Contents, Follows
  <2>2. /\ rptr_r' \in Ptr /\ rptr_gray_r' \in Code /\ wptr_sync' \in Code \X Code
        /\ uarch_empty_r' \in BOOLEAN /\ read' \in Pushed /\ out' \in BoundedSeq(Words, 2)
    BY <1>1, <2>1, ReadTypes
  <2>3. /\ wptr_r' \in Ptr /\ wptr_gray_r' \in Code /\ rptr_sync' \in Code \X Code
        /\ full_r' \in BOOLEAN /\ mem' \in [0 .. N - 1 -> Words]
    BY <1>1, WriteTypes
  <2>4. QED
    BY <1>1, <2>2, <2>3 DEF TypeOK
<1>16. QED
  BY <1>14, <1>15

LEMMA TrafficLeaveReset ==
  ASSUME TypeOK, Somewhere, LeaveReset
  PROVE  TypeOK' /\ Somewhere' /\ ~(wrst' /\ rrst')
<1>0. /\ wrst' \in BOOLEAN /\ (wrst' => wrst) /\ rrst' \in BOOLEAN /\ (rrst' => rrst)
      /\ ~(wrst' /\ rrst')
  <2>1. \/ wrst /\ wrst' = FALSE /\ rrst' = rrst
        \/ rrst /\ rrst' = FALSE /\ wrst' = wrst
    BY DEF LeaveReset
  <2>2. wrst \in BOOLEAN /\ rrst \in BOOLEAN
    BY DEF TypeOK
  <2>3. CASE wrst /\ wrst' = FALSE /\ rrst' = rrst
    BY <2>2, <2>3
  <2>4. CASE rrst /\ rrst' = FALSE /\ wrst' = wrst
    BY <2>2, <2>4
  <2>5. QED
    BY <2>1, <2>3, <2>4
<1>1. /\ wptr_r' = wptr_r /\ wptr_gray_r' = wptr_gray_r /\ rptr_sync' = rptr_sync
      /\ full_r' = full_r /\ mem' = mem
      /\ rptr_r' = rptr_r /\ rptr_gray_r' = rptr_gray_r /\ wptr_sync' = wptr_sync
      /\ uarch_empty_r' = uarch_empty_r /\ read' = read /\ out' = out /\ queue' = queue
  BY DEF LeaveReset, writeVars, readVars
<1> PICK rw \in Nat, rs \in Nat, rg \in Nat, r \in Nat,
         ww \in Nat, ws \in Nat, wg \in Nat, w \in Nat :
           Traffic(rw, rs, rg, r, ww, ws, wg, w)
  BY DEF Somewhere
<1>2. /\ Ordered(rw, rs, rg, r, ww, ws, wg, w)
      /\ WriteSide(rw, rs, wg, w) /\ ReadSide(rg, r, ww, ws) /\ Contents(r, w)
  BY DEF Traffic
<1>3. WriteSide(rw, rs, wg, w)'
  BY <1>0, <1>1, <1>2 DEF WriteSide
<1>4. ReadSide(rg, r, ww, ws)'
  BY <1>0, <1>1, <1>2 DEF ReadSide
<1>5. Contents(r, w)'
  BY <1>1, <1>2 DEF Contents
<1>6. Traffic(rw, rs, rg, r, ww, ws, wg, w)'
  BY <1>2, <1>3, <1>4, <1>5 DEF Traffic, Ordered
<1>7. Somewhere'
  BY <1>6 DEF Somewhere
<1>8. TypeOK'
  BY <1>0, <1>1 DEF TypeOK
<1>9. QED
  BY <1>0, <1>7, <1>8

-----------------------------------------------------------------------------
(* The steps in reset.                                                     *)

LEMMA ResetWriteEdge ==
  ASSUME TypeOK, InReset, wrst, NEW pushed \in Pushed, WriteEdge(pushed), SampleReadPointer
  PROVE  /\ pushed = <<>> /\ wptr_r' = 0 /\ ~full_r'
         /\ rptr_sync'[1] = Gray(0) /\ rptr_sync'[2] = Gray(0)
<1>1. Gray(0) = binary_to_gray[0]
  BY OnZero DEF Gray
<1>2. rptr_sync'[1] = Gray(0) /\ rptr_sync'[2] = Gray(0)
  BY <1>1 DEF SampleReadPointer, Synchronised
<1>3. QED
  BY <1>2 DEF WriteEdge, wptr_w, full_w

LEMMA ResetReadEdge ==
  ASSUME TypeOK, InReset, rrst, NEW pop \in BOOLEAN, ReadEdge(pop), SampleWritePointer
  PROVE  /\ ~pop /\ rptr_r' = 0 /\ uarch_empty_r' /\ read' = <<>> /\ out' = <<>>
         /\ wptr_sync'[1] = Gray(0) /\ wptr_sync'[2] = Gray(0)
<1>1. Gray(0) = binary_to_gray[0]
  BY OnZero DEF Gray
<1>2. wptr_sync'[1] = Gray(0) /\ wptr_sync'[2] = Gray(0)
  BY <1>1 DEF SampleWritePointer, Synchronised
<1>3. ~pop /\ ~read_adv
  BY DEF ReadEdge, InReset, read_adv
<1>4. <<>> \o <<>> = <<>>
  BY ConcatEmptySeq, EmptySeq
<1>5. read' = <<>> /\ out' = <<>>
  BY <1>3, <1>4 DEF ReadEdge, InReset
<1>6. QED
  BY <1>2, <1>3, <1>5 DEF ReadEdge, rptr_w, uarch_empty_w

\* What has left the array is short, in reset and in traffic.
LEMMA HeldIsShort ==
  ASSUME IInv
  PROVE  Len(out \o read) <= 2
<1>1. CASE wrst /\ rrst
  <2>1. out = <<>> /\ read = <<>>
    BY <1>1 DEF IInv, InReset
  <2>2. <<>> \o <<>> = <<>> /\ Len(<<>>) = 0
    BY ConcatEmptySeq, EmptySeq
  <2>3. QED
    BY <2>1, <2>2
<1>2. CASE ~(wrst /\ rrst)
  BY <1>2 DEF IInv, Somewhere, Traffic, Contents, Follows
<1>3. QED
  BY <1>1, <1>2

LEMMA ResetNext ==
  ASSUME TypeOK, InReset, wrst, rrst, Next
  PROVE  /\ TypeOK'
         /\ wrst' /\ rrst' => InReset'
         /\ ~(wrst' /\ rrst') => Somewhere'
<1>1. <<>> \o <<>> = <<>> /\ Len(<<>>) = 0 /\ Len(out \o read) <= 2
  <2>1. <<>> \o <<>> = <<>> /\ Len(<<>>) = 0
    BY ConcatEmptySeq, EmptySeq
  <2>2. QED
    BY <2>1 DEF InReset
<1>2. ASSUME NEW pushed \in Pushed, WriteClock(pushed)
      PROVE  TypeOK' /\ InReset' /\ wrst' /\ rrst'
  <2>1. /\ WriteEdge(pushed) /\ SampleReadPointer /\ Score(pushed, FALSE)
        /\ wrst' = wrst /\ rrst' = rrst /\ rptr_r' = rptr_r /\ rptr_gray_r' = rptr_gray_r
        /\ wptr_sync' = wptr_sync /\ uarch_empty_r' = uarch_empty_r /\ read' = read /\ out' = out
    BY <1>2 DEF WriteClock, resets, readVars
  <2>2. /\ pushed = <<>> /\ wptr_r' = 0 /\ ~full_r'
        /\ rptr_sync'[1] = Gray(0) /\ rptr_sync'[2] = Gray(0)
    BY <2>1, ResetWriteEdge
  <2>3. queue' = <<>>
    BY <1>1, <2>1, <2>2 DEF Score, InReset
  <2>4. InReset'
    BY <2>1, <2>2, <2>3 DEF InReset
  <2>5. /\ wptr_r' \in Ptr /\ wptr_gray_r' \in Code /\ rptr_sync' \in Code \X Code
        /\ full_r' \in BOOLEAN /\ mem' \in [0 .. N - 1 -> Words]
    BY <2>1, WriteTypes
  <2>6. TypeOK'
    BY <2>1, <2>5 DEF TypeOK
  <2>7. QED
    BY <2>1, <2>4, <2>6
<1>3. ASSUME NEW pop \in BOOLEAN, ReadClock(pop)
      PROVE  TypeOK' /\ InReset' /\ wrst' /\ rrst'
  <2>1. /\ ReadEdge(pop) /\ SampleWritePointer /\ Score(<<>>, pop)
        /\ wrst' = wrst /\ rrst' = rrst /\ wptr_r' = wptr_r /\ wptr_gray_r' = wptr_gray_r
        /\ rptr_sync' = rptr_sync /\ full_r' = full_r /\ mem' = mem
    BY <1>3 DEF ReadClock, resets, writeVars
  <2>2. /\ ~pop /\ rptr_r' = 0 /\ uarch_empty_r' /\ read' = <<>> /\ out' = <<>>
        /\ wptr_sync'[1] = Gray(0) /\ wptr_sync'[2] = Gray(0)
    BY <2>1, ResetReadEdge
  <2>3. queue' = <<>>
    BY <1>1, <2>1, <2>2 DEF Score, InReset
  <2>4. InReset'
    BY <2>1, <2>2, <2>3 DEF InReset
  <2>5. /\ rptr_r' \in Ptr /\ rptr_gray_r' \in Code /\ wptr_sync' \in Code \X Code
        /\ uarch_empty_r' \in BOOLEAN /\ read' \in Pushed /\ out' \in BoundedSeq(Words, 2)
    BY <1>1, <2>1, ReadTypes
  <2>6. TypeOK'
    BY <2>1, <2>5 DEF TypeOK
  <2>7. QED
    BY <2>1, <2>4, <2>6
<1>4. ASSUME NEW pushed \in Pushed, NEW pop \in BOOLEAN, BothClocks(pushed, pop)
      PROVE  TypeOK' /\ InReset' /\ wrst' /\ rrst'
  <2>1. /\ WriteEdge(pushed) /\ ReadEdge(pop)
        /\ SampleReadPointer /\ SampleWritePointer /\ Score(pushed, pop)
        /\ wrst' = wrst /\ rrst' = rrst
    BY <1>4 DEF BothClocks, resets
  <2>2. /\ pushed = <<>> /\ wptr_r' = 0 /\ ~full_r'
        /\ rptr_sync'[1] = Gray(0) /\ rptr_sync'[2] = Gray(0)
    BY <2>1, ResetWriteEdge
  <2>3. /\ ~pop /\ rptr_r' = 0 /\ uarch_empty_r' /\ read' = <<>> /\ out' = <<>>
        /\ wptr_sync'[1] = Gray(0) /\ wptr_sync'[2] = Gray(0)
    BY <2>1, ResetReadEdge
  <2>4. queue' = <<>>
    BY <1>1, <2>1, <2>2, <2>3 DEF Score, InReset
  <2>5. InReset'
    BY <2>2, <2>3, <2>4 DEF InReset
  <2>6. /\ wptr_r' \in Ptr /\ wptr_gray_r' \in Code /\ rptr_sync' \in Code \X Code
        /\ full_r' \in BOOLEAN /\ mem' \in [0 .. N - 1 -> Words]
    BY <2>1, WriteTypes
  <2>7. /\ rptr_r' \in Ptr /\ rptr_gray_r' \in Code /\ wptr_sync' \in Code \X Code
        /\ uarch_empty_r' \in BOOLEAN /\ read' \in Pushed /\ out' \in BoundedSeq(Words, 2)
    BY <1>1, <2>1, ReadTypes
  <2>8. TypeOK'
    BY <2>1, <2>6, <2>7 DEF TypeOK
  <2>9. QED
    BY <2>1, <2>5, <2>8
<1>5. ASSUME LeaveReset
      PROVE  TypeOK' /\ Somewhere' /\ ~(wrst' /\ rrst')
  <2>1. /\ wptr_gray_r = binary_to_gray[0] /\ rptr_gray_r = binary_to_gray[0]
        /\ wptr_r = 0 /\ rptr_r = 0 /\ ~full_r /\ uarch_empty_r
        /\ rptr_sync[1] = Gray(0) /\ rptr_sync[2] = Gray(0)
        /\ wptr_sync[1] = Gray(0) /\ wptr_sync[2] = Gray(0)
        /\ read = <<>> /\ out = <<>> /\ queue = <<>>
    BY <1>5 DEF LeaveReset, Settled, InReset
  <2>2. On(0) = 0 /\ Gray(0) = binary_to_gray[0]
    BY OnZero DEF Gray
  <2>3. 0 \in Nat /\ 0 <= 0 /\ 0 < 0 + N /\ 0 <= 0 + N /\ 0 <= 0 + 1
    BY Depth
  <2>4. WriteSide(0, 0, 0, 0)
    BY <2>1, <2>2, <2>3 DEF WriteSide
  <2>5. ReadSide(0, 0, 0, 0)
    BY <2>1, <2>2, <2>3 DEF ReadSide
  <2>6. Contents(0, 0)
    <3>1. <<>> \in Seq(Words) /\ 0 = 0 + (0 - 0) /\ 0 <= 2 /\ 1 .. 0 = {} /\ 0 .. 0 - 1 = {}
      BY EmptySeq
    <3>2. Follows(<<>>, <<>>, mem, 0, 0)
      BY <1>1, <3>1 DEF Follows
    <3>3. QED
      BY <1>1, <2>1, <3>2 DEF Contents
  <2>7. Somewhere
    BY <2>3, <2>4, <2>5, <2>6 DEF Somewhere, Traffic, Ordered
  <2>8. QED
    BY <1>5, <2>7, TrafficLeaveReset
<1>6. QED
  BY <1>2, <1>3, <1>4, <1>5 DEF Next, WriteStep, ReadStep, BothStep

-----------------------------------------------------------------------------
(* The theorems.                                                           *)

LEMMA InvInit == Init => IInv
<1> SUFFICES ASSUME Init
             PROVE  IInv
  OBVIOUS
<1>1. Gray(0) = binary_to_gray[0] /\ binary_to_gray[0] \in Code
  BY OnZero, GrayType, Depth DEF Gray
<1>2. InReset
  BY <1>1 DEF Init, InReset
<1>3. <<>> \in BoundedSeq(Words, 2) /\ <<>> \in Pushed
  <2>1. <<>> \in Seq(Words) /\ Len(<<>>) <= 2 /\ 2 \in Nat
    BY EmptySeq
  <2>2. QED
    BY <2>1, ShortSequences DEF Pushed
<1>4. TypeOK
  BY <1>1, <1>3, Depth DEF Init, TypeOK
<1>5. QED
  BY <1>2, <1>4 DEF IInv, Init

LEMMA InvNext == IInv /\ [Next]_vars => IInv'
<1> SUFFICES ASSUME IInv, [Next]_vars
             PROVE  IInv'
  OBVIOUS
<1>1. CASE Next /\ wrst /\ rrst
  BY <1>1, ResetNext DEF IInv
<1>2. CASE Next /\ ~(wrst /\ rrst)
  <2>1. TypeOK /\ Somewhere
    BY <1>2 DEF IInv
  <2>2. ASSUME NEW pushed \in Pushed, WriteClock(pushed)
        PROVE  IInv'
    <3>1. wrst' = wrst /\ rrst' = rrst
      BY <2>2 DEF WriteClock, resets
    <3>2. QED
      BY <1>2, <2>1, <2>2, <3>1, TrafficWriteClock DEF IInv
  <2>3. ASSUME NEW pop \in BOOLEAN, ReadClock(pop)
        PROVE  IInv'
    <3>1. wrst' = wrst /\ rrst' = rrst
      BY <2>3 DEF ReadClock, resets
    <3>2. QED
      BY <1>2, <2>1, <2>3, <3>1, TrafficReadClock DEF IInv
  <2>4. ASSUME NEW pushed \in Pushed, NEW pop \in BOOLEAN, BothClocks(pushed, pop)
        PROVE  IInv'
    <3>1. wrst' = wrst /\ rrst' = rrst
      BY <2>4 DEF BothClocks, resets
    <3>2. QED
      BY <1>2, <2>1, <2>4, <3>1, TrafficBothClocks DEF IInv
  <2>5. CASE LeaveReset
    BY <2>1, <2>5, TrafficLeaveReset DEF IInv
  <2>6. QED
    BY <1>2, <2>2, <2>3, <2>4, <2>5 DEF Next, WriteStep, ReadStep, BothStep
<1>3. CASE UNCHANGED vars
  <2>1. TypeOK'
    BY <1>3 DEF vars, IInv, TypeOK
  <2>2. InReset' <=> InReset
    BY <1>3 DEF vars, InReset
  <2>3. Somewhere' <=> Somewhere
    BY <1>3 DEF vars, Somewhere, Traffic, Ordered, WriteSide, ReadSide, Contents
  <2>4. QED
    BY <1>3, <2>1, <2>2, <2>3 DEF vars, IInv
<1>4. QED
  BY <1>1, <1>2, <1>3

LEMMA Invariant == Spec => []IInv
  BY InvInit, InvNext, PTL DEF Spec

\* In every state each register holds a value of its type: in particular no
\* pointer that has crossed is anything but a Gray code, and u_read_pipe never
\* holds more than its two words.
THEOREM TypeCorrect == Spec => []TypeOK
<1>1. IInv => TypeOK
  BY DEF IInv
<1>2. QED
  BY <1>1, Invariant, PTL

LEMMA OrderInv == IInv => PointersInOrder
<1> SUFFICES ASSUME IInv, ~(wrst /\ rrst)
             PROVE  LET Gap(i) == (Around[i + 1] - Around[i]) % (2 * N)
                    IN  Gap(1) + Gap(2) + Gap(3) + Gap(4) + Gap(5) + Gap(6) + Gap(7) <= N
  BY DEF PointersInOrder
<1> PICK rw \in Nat, rs \in Nat, rg \in Nat, r \in Nat,
         ww \in Nat, ws \in Nat, wg \in Nat, w \in Nat :
           Traffic(rw, rs, rg, r, ww, ws, wg, w)
  BY DEF IInv, Somewhere
<1>1. /\ rw <= rs /\ rs <= rg /\ rg <= r /\ r <= ww /\ ww <= ws /\ ws <= wg /\ wg <= w
      /\ w <= rw + N
      /\ WriteSide(rw, rs, wg, w) /\ ReadSide(rg, r, ww, ws)
  BY DEF Traffic, Ordered
<1>2. /\ Around[1] = On(rw) /\ Around[2] = On(rs) /\ Around[3] = On(rg) /\ Around[4] = On(r)
      /\ Around[5] = On(ww) /\ Around[6] = On(ws) /\ Around[7] = On(wg) /\ Around[8] = On(w)
  BY <1>1, SeenPosition DEF Around, WriteSide, ReadSide, rptr_wsync, wptr_rsync
<1>3. N \in Nat
  BY Depth
<1>4. /\ rs <= rw + N /\ rg <= rs + N /\ r <= rg + N /\ ww <= r + N
      /\ ws <= ww + N /\ wg <= ws + N /\ w <= wg + N
  BY <1>1, <1>3
<1>5. /\ (On(rs) - On(rw)) % (2 * N) = rs - rw /\ (On(rg) - On(rs)) % (2 * N) = rg - rs
      /\ (On(r) - On(rg)) % (2 * N) = r - rg /\ (On(ww) - On(r)) % (2 * N) = ww - r
      /\ (On(ws) - On(ww)) % (2 * N) = ws - ww /\ (On(wg) - On(ws)) % (2 * N) = wg - ws
      /\ (On(w) - On(wg)) % (2 * N) = w - wg
  BY <1>1, <1>4, OnDistance
<1>6. (rs - rw) + (rg - rs) + (r - rg) + (ww - r) + (ws - ww) + (wg - ws) + (w - wg) <= N
  BY <1>1, <1>3
<1>7. /\ (Around[1 + 1] - Around[1]) % (2 * N) = rs - rw
      /\ (Around[2 + 1] - Around[2]) % (2 * N) = rg - rs
      /\ (Around[3 + 1] - Around[3]) % (2 * N) = r - rg
      /\ (Around[4 + 1] - Around[4]) % (2 * N) = ww - r
      /\ (Around[5 + 1] - Around[5]) % (2 * N) = ws - ww
      /\ (Around[6 + 1] - Around[6]) % (2 * N) = wg - ws
      /\ (Around[7 + 1] - Around[7]) % (2 * N) = w - wg
  <2>1. 1 + 1 = 2 /\ 2 + 1 = 3 /\ 3 + 1 = 4 /\ 4 + 1 = 5 /\ 5 + 1 = 6 /\ 6 + 1 = 7 /\ 7 + 1 = 8
    OBVIOUS
  <2>2. QED
    BY <1>2, <1>5, <2>1, Zenon
<1>8. QED
  BY <1>6, <1>7, Zenon

\* No side ever sees the other one's pointer ahead of where it is, and the
\* write pointer is never more than N ahead of the oldest view of the read
\* pointer: full_r and uarch_empty_r err on the safe side, for every depth.
THEOREM OrderCorrect == Spec => []PointersInOrder
  BY Invariant, OrderInv, PTL

\* The cell that is k cells after that of the read pointer.
LEMMA CellAfter ==
  ASSUME NEW n \in Nat, NEW k \in Nat
  PROVE  (On(n) + k) % N = Cell(n + k)
<1>1. PICK K \in Nat \ {0} : K = N
  BY Depth
<1>2. PICK M \in Nat \ {0} : M = 2 * K
  BY <1>1
<1>3. PICK q \in Nat, r \in 0 .. M - 1 : n = M * q + r /\ n % M = r
  BY Division
<1>4. PICK p \in Nat : p = 2 * q
  OBVIOUS
<1>5. M * q = K * p
  BY <1>2, <1>4
<1>6. PICK s \in Nat : s = r + k
  OBVIOUS
<1>7. PICK h \in Nat, t \in 0 .. K - 1 : s = K * h + t /\ s % K = t
  BY Division
<1>8. PICK e \in Nat : e = p + h
  OBVIOUS
<1>9. K * e = K * p + K * h
  BY <1>8
<1>10. n + k = K * e + t
  BY <1>3, <1>5, <1>6, <1>7, <1>9
<1>11. (K * e + t) % K = t
  BY Remainder
<1>12. ((n % M) + k) % K = (n + k) % K
  BY <1>3, <1>6, <1>7, <1>10, <1>11
<1>13. QED
  BY <1>1, <1>2, <1>12 DEF On, Cell

LEMMA StoredWords ==
  ASSUME TypeOK, Fill \in Nat
  PROVE  /\ Stored \in Seq(Words) /\ Len(Stored) = Fill
         /\ \A i \in 1 .. Fill : Stored[i] = mem[(rptr_r + i - 1) % N]
<1>1. ASSUME NEW i \in 1 .. Fill
      PROVE  mem[(rptr_r + i - 1) % N] \in Words
  <2>1. PICK K \in Nat \ {0} : K = N
    BY Depth
  <2>2. PICK p \in Nat : p = rptr_r + i - 1
    <3>1. rptr_r \in Nat /\ rptr_r + i - 1 \in Nat
      BY Depth DEF TypeOK
    <3>2. QED
      BY <3>1
  <2>3. p % K \in 0 .. K - 1
    OBVIOUS
  <2>4. QED
    BY <2>1, <2>2, <2>3 DEF TypeOK
<1>2. Stored \in [1 .. Fill -> Words]
  BY <1>1 DEF Stored
<1>3. Stored \in Seq(Words)
  BY <1>2, SeqDef
<1>4. 1 .. Len(Stored) = 1 .. Fill /\ Len(Stored) \in Nat
  BY <1>2, <1>3, LenProperties
<1>5. QED
  BY <1>3, <1>4, SameEnd DEF Stored

LEMMA HoldsInv == IInv => HoldsWhatWasPushed
<1> SUFFICES ASSUME IInv
             PROVE  (out \o read) \o Stored = queue
  BY DEF HoldsWhatWasPushed
<1>1. CASE wrst /\ rrst
  <2>1. out = <<>> /\ read = <<>> /\ queue = <<>> /\ wptr_r = 0 /\ rptr_r = 0
    BY <1>1 DEF IInv, InReset
  <2>2. Fill = 0
    <3>1. PICK M \in Nat \ {0} : M = 2 * N
      BY Depth
    <3>2. (0 - 0) % M = 0
      OBVIOUS
    <3>3. QED
      BY <2>1, <3>1, <3>2 DEF Fill
  <2>3. Stored \in Seq(Words) /\ Len(Stored) = 0
    BY <2>2, StoredWords DEF IInv
  <2>4. Stored = <<>>
    BY <2>3, EmptySeq
  <2>5. <<>> \o <<>> = <<>>
    BY ConcatEmptySeq, EmptySeq
  <2>6. QED
    BY <2>1, <2>4, <2>5
<1>2. CASE ~(wrst /\ rrst)
  <2> PICK rw \in Nat, rs \in Nat, rg \in Nat, r \in Nat,
           ww \in Nat, ws \in Nat, wg \in Nat, w \in Nat :
             Traffic(rw, rs, rg, r, ww, ws, wg, w)
    BY <1>2 DEF IInv, Somewhere
  <2>1. r <= w /\ w <= r + N
    BY Depth DEF Traffic, Ordered
  <2>2. rptr_r = On(r) /\ wptr_r = On(w) /\ Follows(queue, out \o read, mem, r, w)
    BY DEF Traffic, WriteSide, ReadSide, Contents
  <2>3. Fill = w - r /\ Fill \in Nat
    BY <2>1, <2>2, OnDistance DEF Fill
  <2>4. /\ Stored \in Seq(Words) /\ Len(Stored) = Fill
        /\ \A i \in 1 .. Fill : Stored[i] = mem[(rptr_r + i - 1) % N]
    BY <2>3, StoredWords DEF IInv
  <2> DEFINE h == out \o read
  <2>5. h \in Seq(Words) /\ queue \in Seq(Words) /\ Len(h) \in Nat /\ Len(queue) \in Nat
    BY <2>2, LenProperties DEF Follows
  <2>6. Follows(queue, h, mem, r, w)
    BY <2>2
  <2> HIDE DEF h
  <2>7. /\ h \o Stored \in Seq(Words) /\ Len(h \o Stored) = Len(h) + Len(Stored)
        /\ \A i \in 1 .. Len(h) + Len(Stored) :
             (h \o Stored)[i] = IF i <= Len(h) THEN h[i] ELSE Stored[i - Len(h)]
    BY <2>4, <2>5, ConcatProperties
  <2>8. Len(h \o Stored) = Len(queue)
    BY <2>3, <2>4, <2>6, <2>7 DEF Follows
  <2>9. ASSUME NEW i \in 1 .. Len(h \o Stored)
        PROVE  (h \o Stored)[i] = queue[i]
    <3>1. CASE i <= Len(h)
      <4>1. i \in 1 .. Len(h)
        BY <3>1
      <4>2. QED
        BY <2>6, <2>7, <3>1, <4>1 DEF Follows
    <3>2. CASE ~(i <= Len(h))
      <4>1. PICK k \in 0 .. Fill - 1 : k = i - Len(h) - 1
        <5>1. i - Len(h) - 1 \in 0 .. Fill - 1
          BY <2>3, <2>4, <2>5, <2>7, <3>2
        <5>2. QED
          BY <5>1
      <4>2. k + 1 \in 1 .. Fill /\ i - Len(h) = k + 1 /\ k \in Nat
        BY <2>3, <2>5, <4>1
      <4>3. (h \o Stored)[i] = Stored[k + 1]
        BY <2>7, <3>2, <4>2
      <4>4. Stored[k + 1] = mem[(rptr_r + (k + 1) - 1) % N]
        BY <2>4, <4>2
      <4>5. rptr_r + (k + 1) - 1 = On(r) + k
        BY <2>2, <4>2, OnType, Depth
      <4>6. (On(r) + k) % N = Cell(r + k)
        BY <4>2, CellAfter
      <4>7. r + k \in r .. w - 1 /\ Len(h) + 1 + ((r + k) - r) = i
        BY <2>3, <2>5, <4>1, <4>2
      <4>8. queue[Len(h) + 1 + ((r + k) - r)] = mem[Cell(r + k)]
        BY <2>6, <4>7 DEF Follows
      <4>9. QED
        BY <4>3, <4>4, <4>5, <4>6, <4>7, <4>8, Zenon
    <3>3. QED
      BY <3>1, <3>2
  <2>10. QED
    BY <2>5, <2>7, <2>8, <2>9, SeqEqual DEF h
<1>3. QED
  BY <1>1, <1>2

\* What is on the way from the push side to the pop side is what was pushed and
\* not popped, in order: no word is lost, doubled, reordered or overwritten,
\* whatever the clocks do, for every depth and every set of words.
THEOREM ContentsCorrect == Spec => []HoldsWhatWasPushed
  BY Invariant, HoldsInv, PTL

LEMMA SettledNext ==
  IInv /\ [Next]_vars =>
    (wptr_r' # wptr_r /\ rptr_r' # rptr_r => wptr_r % N # rptr_r % N)
<1> SUFFICES ASSUME IInv, [Next]_vars, wptr_r' # wptr_r, rptr_r' # rptr_r
             PROVE  wptr_r % N # rptr_r % N
  OBVIOUS
<1>1. PICK pushed \in Pushed, pop \in BOOLEAN : BothClocks(pushed, pop)
  BY DEF Next, WriteStep, ReadStep, BothStep, WriteClock, ReadClock, LeaveReset,
         readVars, writeVars, vars
<1>2. WriteEdge(pushed) /\ ReadEdge(pop)
  BY <1>1 DEF BothClocks
<1>3. CASE wrst /\ rrst
  BY <1>2, <1>3 DEF WriteEdge, wptr_w, IInv, InReset
<1>4. CASE ~(wrst /\ rrst)
  <2> PICK rw \in Nat, rs \in Nat, rg \in Nat, r \in Nat,
           ww \in Nat, ws \in Nat, wg \in Nat, w \in Nat :
             Traffic(rw, rs, rg, r, ww, ws, wg, w)
    BY <1>4 DEF IInv, Somewhere
  <2>1. rw <= r /\ r <= w /\ ww <= w
    BY DEF Traffic, Ordered
  <2>2. WriteSide(rw, rs, wg, w) /\ ReadSide(rg, r, ww, ws)
    BY DEF Traffic
  <2>3. pushed # <<>>
    <3>1. ASSUME pushed = <<>>, ~wrst
          PROVE  wptr_r' = wptr_r
      <4>1. PICK M \in Nat \ {0} : M = 2 * N /\ Ptr = 0 .. M - 1
        BY Depth DEF Ptr
      <4>2. Plus(wptr_r, 0, M) = wptr_r
        BY <4>1, NotMoved DEF IInv, TypeOK
      <4>3. QED
        BY <1>2, <3>1, <4>1, <4>2 DEF WriteEdge, wptr_w, Plus
    <3>2. ~wrst
      BY <1>2, <2>2 DEF WriteEdge, wptr_w, WriteSide
    <3>3. QED
      BY <3>1, <3>2
  <2>4. w < rw + N
    BY <1>2, <2>2, <2>3 DEF WriteEdge, WriteSide
  <2>5. ~rrst
    BY <1>2, <2>2 DEF ReadEdge, rptr_w, ReadSide
  <2>6. read_adv
    BY <1>2, <2>5 DEF ReadEdge, rptr_w
  <2>7. r < ww
    BY <2>2, <2>6 DEF read_adv, ReadSide
  <2>8. r < w /\ w < r + N
    BY <2>1, <2>4, <2>7, Depth
  <2>9. Cell(r) # Cell(w)
    BY <2>8, CellsDiffer
  <2>10. QED
    BY <2>2, <2>9, CellOf DEF WriteSide, ReadSide
<1>5. QED
  BY <1>3, <1>4

\* An edge of both clocks never reads the cell of u_mem that it writes, so what
\* the memory does then (fifo_async.sv does not say) cannot matter.
THEOREM ReadsSettled == Spec => ReadsSettledWord
  BY Invariant, SettledNext, PTL DEF Spec, ReadsSettledWord
=============================================================================
