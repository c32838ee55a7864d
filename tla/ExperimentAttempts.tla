-------------------------- MODULE ExperimentAttempts --------------------------
(***************************************************************************)
(* The experiments of one run: the attempts of OpenJiuwenEngine            *)
(* (tyche/experiments/bridge.py), what it collects from them, what         *)
(* Pipeline.stage_experiments saves and what stage_analysis reads back.    *)
(*                                                                         *)
(* An attempt is a manager run of openJiuwen, which lies outside the       *)
(* repository: it keeps a state file, executes the variants of its design, *)
(* writes one metrics file per variant into the attempt's results          *)
(* directory, may revise the design and execute again, and ends in a       *)
(* terminal state.  Metrics of variants a revision dropped stay where they *)
(* are.  A process may be killed anywhere; an attempt without a terminal   *)
(* state is resumed, and an interrupted execution is run again.            *)
(***************************************************************************)
EXTENDS Naturals, Sequences, FiniteSets, SequencesExt

CONSTANTS
  Variants,       \* names an experiment design may give its variants
  MaxAttempts,    \* bound: attempts of the run
  MaxExecutions   \* bound: executions of the run

ASSUME AttemptConstants == MaxAttempts \in Nat /\ MaxExecutions \in Nat

VARIABLES
  step,       \* engine, manager, executing, collect, save, analysis, over
  attempts,   \* the manager runs of this run, oldest first
  executions, \* history: executions begun so far, which numbers them
  planned,    \* variants the running execution has still to execute
  finished,   \* variants it completed
  collected,  \* outcome.variants of this pass: variant and execution of each
  results,    \* artifact experiment_results: the metrics tree last saved
  analysed    \* the variants this pass analysed

experimentsVars == << step, attempts, executions, planned, finished, collected, results, analysed >>

\* An attempt: its state file, its metrics files, and of the latest execution its
\* state records, the number and the variants that completed.
\* A metrics file: the execution that wrote it (0 if there is none), whether it
\* says completed, and whether too many of its items failed.
NoFile == [by |-> 0, status |-> "none", items |-> "fine"]
NoMetrics == [v \in Variants |-> NoFile]
FreshAttempt == [state |-> "none", metrics |-> NoMetrics, recorded |-> 0, current |-> {}]

ExperimentsInit ==
  /\ step = "engine" /\ attempts = <<>> /\ executions = 0 /\ planned = {} /\ finished = {}
  /\ collected = {} /\ results = NoMetrics /\ analysed = {}

This == Last(attempts)
Updated(attempt) == ReplaceAt(attempts, Len(attempts), attempt)

\* Mutant: the terminal state is not looked at.
HasState == attempts # <<>> /\ This.state # "none"

\* Mutant: every run of the engine is a new attempt.
NeverResumed == FALSE

\* _resumable_manager_run: the latest attempt, if it has a state that is not terminal.
Resumable == attempts # <<>> /\ This.state = "open"

\* OpenJiuwenEngine.run up to the manager.
Begin ==
  /\ step = "engine" /\ step' = "manager"
  /\ \/ Resumable /\ attempts' = attempts
     \/ ~Resumable /\ Len(attempts) < MaxAttempts /\ attempts' = Append(attempts, FreshAttempt)
  /\ UNCHANGED << executions, planned, finished, collected, results, analysed >>

(* The manager (openJiuwen). *)
SaveState ==
  /\ step = "manager" /\ This.state = "none"
  /\ attempts' = Updated([This EXCEPT !.state = "open"])
  /\ UNCHANGED << step, executions, planned, finished, collected, results, analysed >>

Execute(vs) ==
  /\ step = "manager" /\ This.state # "none" /\ executions < MaxExecutions
  /\ step' = "executing" /\ executions' = executions + 1 /\ planned' = vs /\ finished' = {}
  /\ UNCHANGED << attempts, collected, results, analysed >>

\* A variant completes with its metrics, reports its own failure, or dies without a file
\* of its own (assumed of openJiuwen: a completed variant has written its file).
RunVariant(v) ==
  /\ step = "executing" /\ v \in planned /\ planned' = planned \ { v }
  /\ \/ \E items \in { "fine", "failing" } :
          /\ attempts' = Updated([This EXCEPT !.metrics[v] = [by |-> executions, status |-> "completed", items |-> items]])
          /\ finished' = finished \union { v }
     \/ /\ attempts' = Updated([This EXCEPT !.metrics[v] = [by |-> executions, status |-> "failed", items |-> "fine"]])
        /\ finished' = finished
     \/ UNCHANGED << attempts, finished >>
  /\ UNCHANGED << step, executions, collected, results, analysed >>

EndExecution ==
  /\ step = "executing" /\ planned = {} /\ step' = "manager"
  /\ attempts' = Updated([This EXCEPT !.recorded = executions, !.current = finished])
  /\ UNCHANGED << executions, planned, finished, collected, results, analysed >>

Terminate ==
  /\ step = "manager" /\ This.state # "none" /\ step' = "collect"
  /\ \E status \in { "complete", "failed" } :
       /\ status = "complete" => This.recorded = executions \* no interrupted execution is left
       /\ attempts' = Updated([This EXCEPT !.state = status])
  /\ UNCHANGED << executions, planned, finished, collected, results, analysed >>

\* read_metrics_dir, of a results directory or of the saved tree.
Readable(metrics) == { v \in Variants : metrics[v].status = "completed" }

\* Mutant: whatever lies in the results directory counts.
AllReadable(attempt) == Readable(attempt.metrics)

\* Mutant: the files of the latest execution are taken for granted.
Reported(attempt) == IF attempt.recorded # 0 THEN attempt.current ELSE Variants

\* The variants the engine returns: the stale ones are left out if the latest execution is known.
Usable(attempt) ==
  Readable(attempt.metrics) \intersect (IF attempt.recorded # 0 THEN attempt.current ELSE Variants)

Collect ==
  /\ step = "collect" /\ step' = "save"
  /\ collected' = { [variant |-> v, by |-> This.metrics[v].by] : v \in Usable(This) }
  /\ UNCHANGED << attempts, executions, planned, finished, results, analysed >>

\* stage_experiments goes on with a complete attempt of at least two variants, none of
\* which had too many items fail.
Sufficient ==
  /\ This.state = "complete" /\ Cardinality(collected) >= 2
  /\ \A c \in collected : This.metrics[c.variant].items = "fine"

SaveResults ==
  /\ step = "save" /\ Sufficient /\ step' = "analysis"
  /\ results' = This.metrics
  /\ UNCHANGED << attempts, executions, planned, finished, collected, analysed >>

FailStage ==
  /\ step = "save" /\ ~Sufficient /\ step' = "over"
  /\ UNCHANGED << attempts, executions, planned, finished, collected, results, analysed >>

\* stage_analysis reads the saved tree.
Analyse ==
  /\ step = "analysis" /\ step' = "over"
  /\ analysed' = { [variant |-> v, by |-> results[v].by] : v \in Readable(results) }
  /\ UNCHANGED << attempts, executions, planned, finished, collected, results >>

Kill ==
  /\ step \in { "manager", "executing", "collect", "save" } /\ step' = "over"
  /\ planned' = {} /\ finished' = {} /\ collected' = {}
  /\ UNCHANGED << attempts, executions, results, analysed >>

\* The stage is run again: --resume after a failure or a kill, or --stage experiments.
Rerun ==
  /\ step = "over" /\ step' = "engine" /\ collected' = {} /\ analysed' = {}
  /\ UNCHANGED << attempts, executions, planned, finished, results >>

ExperimentsNext ==
  \/ Begin \/ SaveState \/ EndExecution \/ Terminate \/ Collect \/ SaveResults \/ FailStage
  \/ Analyse \/ Kill \/ Rerun
  \/ \E vs \in SUBSET Variants \ { {} } : Execute(vs)
  \/ \E v \in Variants : RunVariant(v)

ExperimentsSpec == ExperimentsInit /\ [][ExperimentsNext]_experimentsVars

-----------------------------------------------------------------------------
File == [by : 0..MaxExecutions, status : { "none", "completed", "failed" }, items : { "fine", "failing" }]
Attempt == [state : { "none", "open", "complete", "failed" }, metrics : [Variants -> File],
            recorded : 0..MaxExecutions, current : SUBSET Variants]
Collectable == [variant : Variants, by : 1..MaxExecutions]
\* The types of the state; what is collected and analysed is what an execution wrote.
ExperimentsTypeOK ==
  /\ step \in { "engine", "manager", "executing", "collect", "save", "analysis", "over" }
  /\ attempts \in Seq(Attempt) /\ Len(attempts) <= MaxAttempts
  /\ executions \in 0..MaxExecutions /\ planned \subseteq Variants /\ finished \subseteq Variants
  /\ collected \subseteq Collectable /\ analysed \subseteq Collectable
  /\ results \in [Variants -> File]

\* What is saved for the analysis was completed in the latest execution of a complete
\* attempt: no metrics of a variant that a later design revision dropped.
SavedFromLatestExecution ==
  step = "analysis" =>
    /\ This.state = "complete"
    /\ \A c \in collected : c.by = This.recorded /\ c.variant \in This.current

\* An interrupted attempt is carried on, not left behind: only the last may be open.
OnlyTheLastIsOpen == \A k \in DOMAIN attempts : attempts[k].state = "open" => k = Len(attempts)

\* A rerun never adds to an attempt that has finished (bridge.py:401).
FinishedAttemptsStand ==
  [][\A k \in DOMAIN attempts :
       attempts[k].state \in { "complete", "failed" } => attempts'[k] = attempts[k]]_experimentsVars

-----------------------------------------------------------------------------
(* What the documentation says, and the code does not keep.                 *)

\* DESIGN.md:28: only the variants that succeeded in the latest execution are collected.
AnalysedWereCollected == step = "over" => analysed \subseteq collected
=============================================================================
