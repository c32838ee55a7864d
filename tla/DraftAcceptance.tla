-------------------------- MODULE DraftAcceptance --------------------------
(***************************************************************************)
(* What tyche/review/loop.py itself says of the draft the revision loop    *)
(* keeps (its docstring, lines 3 to 8, and the comments of its test, lines *)
(* 177 and 181 to 183): the first one is kept as it is; a candidate        *)
(* replaces it only if it compiles where the kept one did not, or removes  *)
(* gate blockers, or adds none and loses no more than the tolerance.       *)
(*                                                                         *)
(* docs/tyche/DESIGN.md:104 asks for more: that a candidate adds no        *)
(* blockers and stays within the tolerance in every case.  The code does   *)
(* not do that (AcceptanceOfTheDesign in RevisionLoop).                    *)
(***************************************************************************)
EXTENDS Naturals

CONSTANT Tolerance

VARIABLE kept

Drafts == [compiled : { "yes", "no" }, blockers : Nat, score : Nat]
NoDraft == [compiled |-> "none", blockers |-> 0, score |-> 0]

Better(c, k) ==
  /\ c.compiled = "yes"
  /\ \/ k.compiled = "no"
     \/ c.blockers < k.blockers
     \/ c.blockers = k.blockers /\ c.score + Tolerance >= k.score

Init == kept = NoDraft
First == kept = NoDraft /\ kept' \in Drafts
Replace == kept # NoDraft /\ kept' \in Drafts /\ Better(kept', kept)
Next == First \/ Replace
Spec == Init /\ [][Next]_kept
=============================================================================
