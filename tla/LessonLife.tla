----------------------------- MODULE LessonLife -----------------------------
(***************************************************************************)
(* The life cycle a writing lesson is documented to have (the module       *)
(* docstring of tyche/evolution/playbook.py and the state machine of S6 in *)
(* docs/tyche/DESIGN.md): guidance is tried, kept when it has earned its   *)
(* place, and given up for good when it does not help.                     *)
(***************************************************************************)
CONSTANT Categories
VARIABLE stage

Init == stage = [c \in Categories |-> "none"]

\* A first appearance may already satisfy a policy of one run.
Appear(c) == stage[c] = "none" /\ \E s \in { "candidate", "active" } : stage' = [stage EXCEPT ![c] = s]
Promote(c) == stage[c] = "candidate" /\ stage' = [stage EXCEPT ![c] = "active"]
Retire(c) == stage[c] = "active" /\ stage' = [stage EXCEPT ![c] = "retired"]

\* What the documents do not speak of: a merge that rests on a read another merge has
\* overtaken.  Nothing is promised of the category from then on.
Overtaken(c) == stage' = [stage EXCEPT ![c] = "stale"]

Next == \E c \in Categories : Appear(c) \/ Promote(c) \/ Retire(c) \/ Overtaken(c)
Spec == Init /\ [][Next]_stage
=============================================================================
