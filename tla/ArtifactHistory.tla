---------------------------- MODULE ArtifactHistory ----------------------------
(***************************************************************************)
(* What tyche/workspace.py promises of a run's artifacts: every name has a *)
(* list of versions, each the whole of what one save was given.  A save    *)
(* adds one at the end; none is changed or taken away.                     *)
(***************************************************************************)
EXTENDS Naturals, Sequences

CONSTANT Names  \* the artifacts' names

VARIABLES
  given,   \* the contents handed to the store so far
  history  \* the versions of every name, oldest first

Init == given = {} /\ history = [n \in Names |-> <<>>]

\* A save is begun; it may never complete.
Give == given \subseteq given' /\ UNCHANGED history

Save(n) == \E c \in given : history' = [history EXCEPT ![n] = Append(@, c)] /\ UNCHANGED given

Next == Give \/ \E n \in Names : Save(n)

Spec == Init /\ [][Next]_<< given, history >>
=============================================================================
