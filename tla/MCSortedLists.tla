--------------------------- MODULE MCSortedLists ----------------------------
(***************************************************************************)
(* A small sorted_lists for TLC: lists of two entries.  One list gets      *)
(* every update, and is queried; the other one is updated in between.      *)
(***************************************************************************)
EXTENDS SortedLists

CONSTANTS l0, l1

MCLists == {l0, l1}
MCKeys == 0..2
MCSizes == 0..1
MCPowerUp == {Cleared}
MCQueried == {l0}

Upd(id, op, key, size) == [id |-> id, op |-> op, key |-> key, size |-> size]

MCIssued ==
  { Upd(l0, "OP_CLEAR", 0, 0), Upd(l0, "OP_ADD", 1, 0), Upd(l0, "OP_ADD", 2, 0),
    Upd(l0, "OP_DELETE", 1, 0), Upd(l0, "OP_REPLACE", 1, 1),
    Upd(l1, "OP_ADD", 1, 0) }
=============================================================================
