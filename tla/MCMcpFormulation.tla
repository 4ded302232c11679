-------------------------- MODULE MCMcpFormulation --------------------------
(***************************************************************************)
(* Clocks for McpFormulation: every ratio of two periods of up to eight    *)
(* units, the c_clk no slower than the l_clk.  A slower one misses pulses, *)
(* or sees one for so long that the next is acknowledged by it too.        *)
(***************************************************************************)
EXTENDS McpFormulation

MCNoSlower == {k \in [l : 1 .. 8, c : 1 .. 8] : k.c <= k.l}
=============================================================================
