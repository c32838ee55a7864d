-------------------------- MODULE MCAgentWarmPool --------------------------
(* The pool with two keys: the default work project first, then the code one. *)
EXTENDS AgentWarmPool

CONSTANTS work, code

MCKeys == <<work, code>>

\* The default projects of a channel, or the first alone when the other is disabled.
MCTargets == {{work}, {work, code}}

\* The configurations differ in nothing but their identity.
Symmetry == Permutations(Fingerprints)
=============================================================================
