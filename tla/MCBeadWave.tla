----------------------------- MODULE MCBeadWave -----------------------------
(***************************************************************************)
(* Two tasks that are ready at once, and the epic they belong to, which    *)
(* waits for both.                                                         *)
(***************************************************************************)
EXTENDS BeadWave, TLC

CONSTANTS t1, t2, epic, c1, c2

MCBeads  == {t1, t2, epic}
MCNeeds  == [x \in MCBeads |-> IF x = epic THEN {t1, t2} ELSE {}]
MCParent == [x \in MCBeads |-> IF x = epic THEN NoBead ELSE epic]
CallSymmetry == Permutations(Calls)
=============================================================================
