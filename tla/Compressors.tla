---------------------------- MODULE Compressors -----------------------------
(***************************************************************************)
(* Words of W bits as the sets of their bits that are 1, and the 3:2       *)
(* compressor (a row of full adders) of the answers that add many words.   *)
(***************************************************************************)
EXTENDS Integers

CONSTANT W

Bit == 0 .. W - 1

Bits(n) == {i \in Bit : (n \div 2 ^ i) % 2 = 1}
Value(x) ==
  LET below[n \in Nat] ==
        IF n = 0 THEN 0 ELSE below[n - 1] + (IF n - 1 \in x THEN 2 ^ (n - 1) ELSE 0)
  IN  below[W]

Xor(x, y) == (x \ y) \cup (y \ x)
ShiftLeft(x, k) == {i + k : i \in x} \cap Bit

compress_3_to_2(t, u, v) ==
  [sum |-> Xor(t, Xor(u, v)), carry |-> (u \cap v) \cup (t \cap (u \cup v))]

\* The carries, a place to the left, and the sums.
compress_3_to_2_W(t, u, v) ==
  LET r == compress_3_to_2(t, u, v) IN <<ShiftLeft(r.carry, 1), r.sum>>
=============================================================================
