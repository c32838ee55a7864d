---------------------------- MODULE MCLessonStore ----------------------------
(* LessonStore for TLC: runs and texts are interchangeable in the invariants. *)
EXTENDS LessonStore

Interchangeable == Permutations(Runs) \union Permutations(Texts)

\* Bound: executions end where there is no category left that the properties are about.
SomethingToLose == stale # Categories
=============================================================================
