--------------------------- MODULE Combinational ----------------------------
(***************************************************************************)
(* The answers that have no register: count_ones.sv, using_full_adders.sv, *)
(* increment.sv, one_or_two.sv, multiply_by_21.sv, gates_from_MUX2X1.sv.   *)
(* Their inputs are bits of one word here, tb, which is the set of its     *)
(* bits that are 1.  A step is a cycle of a testbench: it drives a word.   *)
(***************************************************************************)
EXTENDS Integers, FiniteSets, FiniteSetsExt

VARIABLES
  reg,  \* no registers
  tb    \* the inputs

vars == <<reg, tb>>

Words == SUBSET (0 .. 7)

INSTANCE Compressors WITH W <- 8

\* The bits of a full adder, and their number.
full_adder(a, b, cin) ==
  [s |-> (a # b) # cin, c |-> (a /\ b) \/ (cin /\ (a \/ b))]
Num(r) == (IF r.c THEN 2 ELSE 0) + (IF r.s THEN 1 ELSE 0)

\* The full adder of bits i + 2, i + 1 and i of x.
Three(x, i) == full_adder(i + 2 \in x, i + 1 \in x, i \in x)

-----------------------------------------------------------------------------
(* count_ones: a look-up table of nibbles, and a carry-save adder.         *)

LUT == <<0, 1, 1, 2, 1, 2, 2, 3, 1, 2, 2, 3, 2, 3, 3, 4>>
lut4(A) == LUT[(Value(A) % 16) + 1] + LUT[(Value(A) \div 16) + 1]

csa(A) ==
  LET r0_0 == Three(A, 0)
      r0_1 == Three(A, 3)
      r0_2 == full_adder(7 \in A, 6 \in A, FALSE)
  IN  2 * Num(full_adder(r0_1.c, r0_0.c, r0_2.c)) + Num(full_adder(r0_1.s, r0_0.s, r0_2.s))

-----------------------------------------------------------------------------
(* using_full_adders: solution 0 has no place for x[6].                    *)

solution_0(x) ==
  LET s0_a == Three(x, 0)
      s0_b == Three(x, 3)
      r_0 == full_adder(s0_a.s, s0_b.s, FALSE)
      r_1 == full_adder(s0_a.c, s0_b.c, r_0.c)
      r_2 == full_adder(FALSE, FALSE, r_1.c)
  IN  Value({b \in 0 .. 2 : <<r_0.s, r_1.s, r_2.s>>[b + 1]})

solution_1(x) ==
  LET s1_a == Three(x, 0)
      s1_b == Three(x, 3)
      s1_c == full_adder(s1_a.s, s1_b.s, 6 \in x)
  IN  2 * Num(full_adder(s1_a.c, s1_b.c, s1_c.c)) + (IF s1_c.s THEN 1 ELSE 0)

-----------------------------------------------------------------------------
(* increment, one_or_two, multiply_by_21, and the gates.                   *)

ffs0(x) == IF Bit \subseteq x THEN {} ELSE {Min(Bit \ x)}

\* Mutant of inclusive_mask: the bit itself is not in the mask.
ExclusiveMask(x) == {i \in Bit : \E j \in x : i < j}

inclusive_mask(x) == {i \in Bit : \E j \in x : i <= j}
y_optimal(A) == Xor(A, inclusive_mask(ffs0(A)))

\* x - 1 of a word of the bits B.
Decrement(x, B) == IF x = {} THEN B ELSE (x \ {Min(x)}) \cup 0 .. Min(x) - 1

one_or_two(x, inv, B) ==
  LET x_cond == IF inv THEN B \ x ELSE x
      is_power_of_2 == x_cond \cap Decrement(x_cond, B) = {}
      has_set_0 == x_cond = {}
      has_set_1 == ~has_set_0 /\ is_power_of_2
  IN  <<has_set_0, has_set_1, Cardinality(B) > 1 /\ ~has_set_0 /\ ~has_set_1>>

y_actual(a) == (Value(a) + Value(a) * 2 ^ 2 + Value(a) * 2 ^ 4) % 2 ^ 14

MUX2X1(a, b, sel) == (~sel /\ a) \/ (sel /\ b)
y_xor_actual(a, b) ==
  LET a_inv == MUX2X1(TRUE, FALSE, a)
      b_inv == MUX2X1(TRUE, FALSE, b)
  IN  MUX2X1(MUX2X1(FALSE, b, a_inv), TRUE, MUX2X1(FALSE, a, b_inv))

-----------------------------------------------------------------------------
Init == reg = {} /\ tb = {}

Next == tb' \in Words /\ UNCHANGED reg

-----------------------------------------------------------------------------
\* increment: y_optimal is the word plus 1 (increment.sv:78, increment.cpp:69).
IncrementAddsOne == Value(y_optimal(tb)) = (Value(tb) + 1) % 2 ^ 8

\* using_full_adders: solution 0 counts the ones of x[6:0]
\* (using_full_adders.sv:97).
CountedWithFullAdders == solution_0(tb \ {7}) = Cardinality(tb \ {7})

\* Every answer is what it should be, on all inputs but two kinds: x[6] is clear
\* for solution 0, and a word has a 0 in it to be incremented.
AnswersAsExpected ==
  LET n == Cardinality(tb)
      x == tb \ {7}
      a == 0 \in tb
      b == 1 \in tb
  IN  /\ lut4(tb) = n /\ csa(tb) = n
      /\ solution_1(x) = Cardinality(x) /\ (6 \notin tb => CountedWithFullAdders)
      /\ tb # Bit => IncrementAddsOne
      /\ \A B \in {{0}, 0 .. 5} :
           LET k == Cardinality(tb \cap B)
               Counts(c) == <<c = 0, c = 1, c > 1>>
           IN  /\ one_or_two(tb \cap B, FALSE, B) = Counts(k)
               /\ one_or_two(tb \cap B, TRUE, B) = Counts(Cardinality(B) - k)
      /\ y_actual(tb) = 21 * Value(tb)
      /\ MUX2X1(TRUE, FALSE, a) = ~a /\ MUX2X1(FALSE, a, b) = (a /\ b)
      /\ MUX2X1(a, TRUE, b) = (a \/ b) /\ y_xor_actual(a, b) = (a # b)
=============================================================================
