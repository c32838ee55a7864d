--------------------------- MODULE FindingsLedger ---------------------------
(***************************************************************************)
(* The findings ledger of tyche/review/ledger.py: every critique of the    *)
(* paper gets an entry, and every entry a fate.  The ledger is a sequence  *)
(* of entries; an entry's position is the number in its id.                *)
(*                                                                         *)
(* A problem stands for a section together with every wording and quote    *)
(* the matcher takes for the same critique.                                *)
(***************************************************************************)
EXTENDS Naturals, Sequences, FiniteSets

CONSTANTS
  GateProblems,   \* what the gates can report above severity minor
  GateBlockers,   \* those reported with severity blocker
  Critiques,      \* what reviewers and the auditor can criticise
  Severities,     \* severities a critique is raised with
  Unowned,        \* problems located in a file that is no section of the paper
  ReflagCap,      \* review.reflag_cap
  MaxFindings     \* review.max_findings_per_revision

Blocker == 0   \* SEVERITY_ORDER: blocker, major, minor
Major == 1
Minor == 2

ASSUME LedgerConstants ==
  /\ GateBlockers \subseteq GateProblems
  /\ Severities \subseteq { Blocker, Major, Minor }
  /\ ReflagCap \in Nat /\ MaxFindings \in Nat

Statuses == { "open", "resolved", "wontfix", "unaddressed" }
Marks == { "none", "accepted", "rejected" }
Entry == [kind : { "gate", "panel" }, problem : GateProblems \union Critiques,
          severity : { Blocker, Major, Minor }, opened : Nat, reflags : Nat,
          status : Statuses, response : Nat, mark : Marks]

NewEntry(kind, problem, severity, round) ==
  [kind |-> kind, problem |-> problem, severity |-> severity, opened |-> round,
   reflags |-> 0, status |-> "open", response |-> 0, mark |-> "none"]

Open(L) == { i \in DOMAIN L : L[i].status = "open" }

\* Mutant: closed entries take part in the matching.
MatchingAnyStatus(L, kind, problem) ==
  { i \in DOMAIN L : L[i].kind = kind /\ L[i].problem = problem }

\* The open entries a finding is a repetition of (_match).
Matching(L, kind, problem) ==
  { i \in Open(L) : L[i].kind = kind /\ L[i].problem = problem }

\* A gate that still reports the same problem leaves its entry as it is.
AddGate(L, problem, round) ==
  IF Matching(L, "gate", problem) # {} THEN L
  ELSE Append(L, NewEntry("gate", problem, IF problem \in GateBlockers THEN Blocker ELSE Major, round))

\* Mutant: the entry closes when the cap is reached, not when it is exceeded.
OverCapEarly(reflags) == reflags >= ReflagCap

OverCap(reflags) == reflags > ReflagCap

\* A repeated critique is counted on its entry, keeps the worse severity and
\* closes the entry as unaddressed beyond the cap.
Reflag(e, severity) ==
  [e EXCEPT !.reflags = @ + 1,
            !.severity = IF severity < @ THEN severity ELSE @,
            !.status = IF OverCap(e.reflags + 1) THEN "unaddressed" ELSE @]

AddCritique(L, problem, severity, round) ==
  LET same == Matching(L, "panel", problem)
      first == CHOOSE i \in same : \A j \in same : i <= j
  IN  IF same = {} THEN Append(L, NewEntry("panel", problem, severity, round))
                   ELSE [L EXCEPT ![first] = Reflag(@, severity)]

\* The reviewers' rulings on entries that are still open.
ApplyRulings(L, rulings) ==
  [i \in DOMAIN L |-> IF i \in DOMAIN rulings /\ L[i].status = "open"
                        THEN [L[i] EXCEPT !.status = rulings[i]] ELSE L[i]]

\* Mutant: what the gates stopped reporting stays open.
CloseNothing(L, reported) == L

\* The end of sync_gate_findings: gate entries no longer reported are resolved.
CloseSilentGates(L, reported) ==
  [i \in DOMAIN L |-> IF L[i].kind = "gate" /\ L[i].status = "open" /\ L[i].problem \notin reported
                        THEN [L[i] EXCEPT !.status = "resolved"] ELSE L[i]]

\* The writer's responses, recorded on open entries only.
RecordResponses(L, ids, round) ==
  [i \in DOMAIN L |-> IF i \in ids /\ L[i].status = "open"
                        THEN [L[i] EXCEPT !.response = round] ELSE L[i]]

MarkRevision(L, ids, mark) ==
  [i \in DOMAIN L |-> IF i \in ids THEN [L[i] EXCEPT !.mark = mark] ELSE L[i]]

\* Order of FindingsLedger.open: severity, round, then id, where F... precedes G...
Precedes(L, i, j) ==
  LET a == L[i] b == L[j] IN
  \/ a.severity < b.severity
  \/ a.severity = b.severity /\ a.opened < b.opened
  \/ a.severity = b.severity /\ a.opened = b.opened /\ a.kind = "panel" /\ b.kind = "gate"
  \/ a.severity = b.severity /\ a.opened = b.opened /\ a.kind = b.kind /\ i < j

\* RevisionLoop._select: the first open entries that belong to some section.
Selected(L) ==
  LET owned == { i \in Open(L) : L[i].problem \notin Unowned }
  IN  { i \in owned : Cardinality({ j \in owned : Precedes(L, j, i) }) < MaxFindings }
=============================================================================
