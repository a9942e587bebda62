----------------------------- MODULE MCLuaTables -----------------------------
(* Small instances of LuaTables for TLC: the indices 1 to 3, the string "2", *)
(* which counts as a number, and a name; a cdata and a boolean.              *)
EXTENDS LuaTables

CONSTANTS two, name, cdata, flag
MCTruncated == (two :> 2)
MCSources == {[k \in {1, 2, 3, two, name} |-> IF k \in {1, name} THEN cdata ELSE Nil],
              [k \in {1, 2, 3, two, name} |-> IF k = name THEN flag ELSE Nil]}
=============================================================================
