------------------------------ MODULE Pipeline ------------------------------
(***************************************************************************)
(* The staged run of tyche/pipeline.py over the run state kept by          *)
(* tyche/workspace.py and driven by `tyche run` (tyche/cli.py).            *)
(*                                                                         *)
(* A run outlives its processes: each invocation walks the stages, skips   *)
(* those marked done, and may fail or be killed between any two effects.   *)
(* `--stage X` resets X and every later stage and runs X alone; a plain    *)
(* resume continues with whatever is not done.                             *)
(*                                                                         *)
(* A stage execution is a program: the list of its effects on the run in   *)
(* the order the code performs them.  Artifacts that one computation saves  *)
(* back to back, and that later stages read together, are one name here.    *)
(* An artifact's content is abstracted to the                               *)
(* number of the stage execution that produced it; 0 is "never produced".  *)
(***************************************************************************)
EXTENDS Naturals, Sequences, FiniteSets

CONSTANTS
  MaxInvocations,   \* bound: how many times `tyche run` is called on the run
  StopStages        \* bound: the stages given to --stop-after

Stages == << "plan", "survey", "experiments", "analysis",
             "write", "review", "evolve", "package" >>
StageSet == { "plan", "survey", "experiments", "analysis",
              "write", "review", "evolve", "package" }

ASSUME MaxInvocationsIsNat == MaxInvocations \in Nat
ASSUME StopStagesAreStages == StopStages \subseteq StageSet

\* Artifacts not every execution of their stage produces: an imported results
\* directory need not hold a design document, and a draft need not compile.
OptionalNames == { "experiment_design", "paper_pdf" }

Outputs ==
  [ plan        |-> { "plan" },
    survey      |-> { "refs_bib", "source_manifest" },
    experiments |-> { "experiment_results", "experiment_design" },
    analysis    |-> { "analysis" },
    write       |-> { "draft" },
    review      |-> { "ledger", "gates", "paper_pdf" },
    evolve      |-> { "evolution" },
    package     |-> {} ]
Names == { "plan", "refs_bib", "source_manifest", "experiment_results",
           "experiment_design", "analysis", "draft", "ledger", "gates",
           "paper_pdf", "evolution" }
Mandatory(s) == Outputs[s] \ OptionalNames

\* What a stage reads through ws.latest: the artifacts it cannot do without,
\* and those it takes when some version of them exists.
WritingInputs == { "plan", "source_manifest", "refs_bib", "analysis" }
Needs ==
  [ plan        |-> {},
    survey      |-> { "plan" },
    experiments |-> { "plan", "source_manifest" },
    analysis    |-> { "plan", "source_manifest", "experiment_results" },
    write       |-> WritingInputs,
    review      |-> WritingInputs \union { "draft" },
    evolve      |-> { "ledger" },
    package     |-> { "ledger" } ]
Uses(s) == Needs[s] \union
  (IF s \in { "analysis", "write", "review" } THEN { "experiment_design" } ELSE {})

\* Mutant: a stage runs again without retiring what its last attempt remembered.
RetiresNothing(s) == {}

\* Memory tags a stage retires before it runs again, and the tag it writes.
Retires(s) ==
  IF s = "plan" THEN { "plan" }
  ELSE IF s = "survey" THEN { "survey", "requested" }
  ELSE IF s = "analysis" THEN { "result" } ELSE {}
Tags == { "plan", "survey", "requested", "result" }
TagOf == [plan |-> "plan", survey |-> "survey", analysis |-> "result", review |-> "requested"]
Writer(t) == CHOOSE s \in DOMAIN TagOf : TagOf[s] = t

\* The effects of one execution of a stage, in order: "read" loads the stage's
\* inputs, a name saves that artifact, "remember" adds items to memory.  A stage
\* with a choice has one program per outcome: with or without a design document,
\* with or without a citation reviewers asked for, with or without a compiled PDF.
Programs ==
  [ plan        |-> { << "retire", "read", "remember", "plan" >> },
    survey      |-> { << "retire", "read", "remember", "refs_bib", "source_manifest" >> },
    experiments |-> { << "read", "experiment_results", "experiment_design" >>,
                      << "read", "experiment_results" >> },
    analysis    |-> { << "retire", "read", "analysis", "remember" >> },
    write       |-> { << "read", "draft" >> },
    review      |-> { << "read", "remember", "ledger", "gates", "paper_pdf", "pin" >>,
                      << "read", "remember", "ledger", "gates", "pin" >>,
                      << "read", "ledger", "gates", "paper_pdf", "pin" >>,
                      << "read", "ledger", "gates", "pin" >> },
    evolve      |-> { << "read", "evolution" >> },
    package     |-> { << "read", "wipe", "release", "copy_ledger", "copy_gates" >> } ]
Effects == Names \union { "retire", "read", "remember", "pin", "wipe", "release", "copy_ledger", "copy_gates" }

VARIABLES
  status,       \* state.json: status of every stage
  art,          \* execution that produced the latest version of each artifact
  pinned,       \* state.json meta.review_outputs: records the package must use
  memory,       \* per tag, the executions whose items are live in memory.db
  pkg,          \* package/: which review execution each delivered file is from
  phase,        \* of the process: none running, choosing a stage, executing one
  only, stop,   \* --stage and --stop-after of the running process
  pos,          \* index of the current stage
  todo,         \* effects the current execution still has to perform
  execs,        \* history: how often each stage was started
  inputs,       \* history: artifacts as the latest execution of a stage read them
  passed,       \* history: review executions whose gates passed
  invocations,  \* history: number of `tyche run` calls so far
  strays,       \* history: invocations of --stage X while a stage before X was not done
  exit          \* history: how the last process ended

vars == << status, art, pinned, memory, pkg, phase, only, stop, pos, todo,
           execs, inputs, passed, invocations, strays, exit >>

None == "none"
Idx(s) == CHOOSE i \in 1..8 : Stages[i] = s
cur == Stages[pos]
Nothing == [n \in Names |-> 0]
NoPin == [gates |-> 0, pdf |-> 0]
EmptyPkg == [verified |-> 0, unverified |-> 0, ledger |-> 0, gates |-> 0]

Init ==
  /\ status = [s \in StageSet |-> "pending"]
  /\ art = Nothing
  /\ pinned = NoPin
  /\ memory = [t \in Tags |-> {}]
  /\ pkg = EmptyPkg
  /\ phase = "idle" /\ only = None /\ stop = None /\ pos = 1 /\ todo = <<>>
  /\ execs = [s \in StageSet |-> 0]
  /\ inputs = [s \in StageSet |-> Nothing]
  /\ passed = {}
  /\ invocations = 0 /\ strays = 0 /\ exit = None

\* The process ends; its parameters are forgotten.
Leave(how) ==
  /\ phase' = "idle" /\ only' = None /\ stop' = None /\ pos' = 1 /\ todo' = <<>>
  /\ exit' = how

\* Mutant: --stage resets its own stage and leaves the later ones done.
ResetsItself(o) == { o }

\* reset_from: the stages --stage o sends back to pending.
Resets(o) == { s \in StageSet : Idx(s) >= Idx(o) }

\* tyche run [--stage o] [--stop-after st]
Invoke(o, st) ==
  /\ phase = "idle" /\ invocations < MaxInvocations
  /\ invocations' = invocations + 1
  /\ phase' = "choose" /\ only' = o /\ stop' = st
  /\ exit' = None
  /\ IF o = None
       THEN /\ pos' = 1
            /\ UNCHANGED << status, strays >>
       ELSE /\ pos' = Idx(o)
            /\ status' = [s \in StageSet |-> IF s \in Resets(o) THEN "pending" ELSE status[s]]
            /\ strays' = IF \A s \in StageSet : Idx(s) < Idx(o) => status[s] = "done"
                            THEN strays ELSE strays + 1
  /\ UNCHANGED << art, pinned, memory, pkg, todo, execs, inputs, passed >>

\* Mutant: the loop tests for nothing but its options.
StopsByOption == only # None \/ cur = stop

\* The current stage is the last one this process is to look at.
LastOfProcess == only # None \/ cur = stop \/ pos = 8

\* The loop goes on to the next stage, or this was the last one of the process.
Advance ==
  IF LastOfProcess
    THEN Leave(IF only = None /\ pos = 8 THEN "complete" ELSE "ok")
    ELSE /\ phase' = "choose" /\ pos' = pos + 1
         /\ UNCHANGED << only, stop, todo, exit >>

\* Mutant: a stage that failed before is not tried again.
SkipsFailed == only = None /\ status[cur] \in { "done", "failed" }

\* Mutant: a resume runs every stage again.
SkipsNothing == FALSE

Skippable == only = None /\ status[cur] = "done"

\* Mutant: `continue` without going on to the next stage.
SkipInPlace ==
  /\ phase = "choose" /\ Skippable
  /\ UNCHANGED vars

Skip ==
  /\ phase = "choose" /\ Skippable
  /\ Advance
  /\ UNCHANGED << status, art, pinned, memory, pkg, execs, inputs, passed, invocations, strays >>

Begin ==
  /\ phase = "choose" /\ ~Skippable
  /\ status' = [status EXCEPT ![cur] = "running"]
  /\ execs' = [execs EXCEPT ![cur] = @ + 1]
  /\ \E p \in Programs[cur] : todo' = p
  /\ phase' = "execute"
  /\ UNCHANGED << art, pinned, memory, pkg, only, stop, pos, inputs, passed, invocations, strays, exit >>

\* The next effect of the current program is `e`; the process moves past it.
Perform(e) ==
  /\ phase = "execute" /\ todo # <<>> /\ Head(todo) = e
  /\ todo' = Tail(todo)
  /\ UNCHANGED << phase, only, stop, pos, status, execs, invocations, strays, exit >>

Retire ==
  /\ Perform("retire")
  /\ memory' = [t \in Tags |-> IF t \in Retires(cur) THEN {} ELSE memory[t]]
  /\ UNCHANGED << art, pinned, pkg, inputs, passed >>

Remember ==
  /\ Perform("remember")
  /\ memory' = [memory EXCEPT ![TagOf[cur]] = @ \union { execs[cur] }]
  /\ UNCHANGED << art, pinned, pkg, inputs, passed >>

\* A missing artifact raises StageError.  Packaging refuses when the pinned
\* review compiled nothing, and, without --allow-gate-failures (a flag only
\* read here, so chosen here), when its gates failed.
Readable(s) ==
  /\ \A n \in Needs[s] : art[n] # 0
  /\ s = "package" =>
       /\ pinned.gates # 0 /\ pinned.pdf # 0
       /\ \E allow_gate_failures \in BOOLEAN : allow_gate_failures \/ pinned.gates \in passed

Read ==
  /\ Perform("read")
  /\ Readable(cur)
  /\ inputs' = [inputs EXCEPT ![cur] = [n \in Names |-> IF n \in Uses(cur) THEN art[n] ELSE 0]]
  /\ UNCHANGED << art, pinned, memory, pkg, passed >>

Save(n) ==
  /\ Perform(n)
  /\ art' = [art EXCEPT ![n] = execs[cur]]
  /\ \/ passed' = passed
     \* gates pass only for a paper that compiled
     \/ n = "gates" /\ todo[2] = "paper_pdf" /\ passed' = passed \union { execs[cur] }
  /\ UNCHANGED << pinned, memory, pkg, inputs >>

\* Mutant: the latest PDF there is, from whatever review.
LatestPdf == art["paper_pdf"]

\* The PDF record of this execution, None (0) when its best draft did not compile.
OwnPdf == IF art["paper_pdf"] = execs["review"] THEN execs["review"] ELSE 0

\* set_meta(review_outputs=...): the records this execution just saved.
PinReviewOutputs ==
  /\ Perform("pin")
  /\ pinned' = [gates |-> execs["review"], pdf |-> OwnPdf]
  /\ UNCHANGED << art, memory, pkg, inputs, passed >>

\* Mutant: the package directory is written over, not emptied.
KeepPackage ==
  /\ Perform("wipe")
  /\ UNCHANGED << art, pinned, memory, pkg, inputs, passed >>

WipePackage ==
  /\ Perform("wipe")
  /\ pkg' = EmptyPkg
  /\ UNCHANGED << art, pinned, memory, inputs, passed >>

\* The verified PDF is copied; an unverified one is recompiled under its other name.
Release ==
  /\ Perform("release")
  /\ pkg' = IF pinned.gates \in passed THEN [pkg EXCEPT !.verified = pinned.pdf]
                                       ELSE [pkg EXCEPT !.unverified = pinned.pdf]
  /\ UNCHANGED << art, pinned, memory, inputs, passed >>

CopyLedger ==
  /\ Perform("copy_ledger")
  /\ pkg' = [pkg EXCEPT !.ledger = art["ledger"]]
  /\ UNCHANGED << art, pinned, memory, inputs, passed >>

CopyGates ==
  /\ Perform("copy_gates")
  /\ pkg' = [pkg EXCEPT !.gates = pinned.gates]
  /\ UNCHANGED << art, pinned, memory, inputs, passed >>

Finish ==
  /\ phase = "execute" /\ todo = <<>>
  /\ status' = [status EXCEPT ![cur] = "done"]
  /\ Advance
  /\ UNCHANGED << art, pinned, memory, pkg, execs, inputs, passed, invocations, strays >>

\* Mutant: the exception is swallowed and the stage counts as done.
FailAsDone ==
  /\ phase = "execute"
  /\ status' = [status EXCEPT ![cur] = "done"]
  /\ Leave("error")
  /\ UNCHANGED << art, pinned, memory, pkg, execs, inputs, passed, invocations, strays >>

\* Any exception of the stage: its status becomes failed and the process exits.
Fail ==
  /\ phase = "execute"
  /\ status' = [status EXCEPT ![cur] = "failed"]
  /\ Leave("error")
  /\ UNCHANGED << art, pinned, memory, pkg, execs, inputs, passed, invocations, strays >>

\* The process dies without running its handlers.
Kill ==
  /\ phase # "idle"
  /\ Leave("killed")
  /\ UNCHANGED << status, art, pinned, memory, pkg, execs, inputs, passed, invocations, strays >>

Work == \/ Skip \/ Begin \/ Retire \/ Remember \/ Read \/ PinReviewOutputs
        \/ WipePackage \/ Release \/ CopyLedger \/ CopyGates \/ Finish
        \/ \E n \in Names : Save(n)

\* --stop-after has no effect on an invocation that runs one stage only.
Next == \/ \E st \in StopStages \union { None } : Invoke(None, st)
        \/ \E o \in StageSet : Invoke(o, None)
        \/ Work \/ Fail \/ Kill

Spec == Init /\ [][Next]_vars
\* A process that runs keeps running: it is sequential code awaiting its own
\* calls, all of them bounded by timeouts, which end it in a result or an exception.
FairSpec == Spec /\ WF_vars(Work \/ Fail)

-----------------------------------------------------------------------------
\* The types of the state: what state.json, the records, the memory and the package can
\* hold, and a program's remaining effects.
TypeOK ==
  /\ status \in [StageSet -> { "pending", "running", "failed", "done" }]
  /\ art \in [Names -> Nat]
  /\ pinned \in [gates : Nat, pdf : Nat]
  /\ memory \in [Tags -> SUBSET Nat]
  /\ pkg \in [verified : Nat, unverified : Nat, ledger : Nat, gates : Nat]
  /\ phase \in { "idle", "choose", "execute" }
  /\ only \in StageSet \union { None } /\ stop \in StageSet \union { None }
  /\ pos \in 1..8
  /\ todo \in Seq(Effects)
  /\ execs \in [StageSet -> Nat]
  /\ inputs \in [StageSet -> [Names -> Nat]]
  /\ passed \subseteq Nat
  /\ invocations \in 0..MaxInvocations
  /\ strays \in Nat
  /\ exit \in { None, "ok", "complete", "error", "killed" }

Orderly == strays = 0
Done(s) == status[s] = "done"
UpToDate(s) == \A n \in Uses(s) : inputs[s][n] = art[n]

\* A stage is marked done only when the execution that started last saved every
\* artifact the stage owes, whatever crashed, failed or was reset before
\* (Pipeline.run marks done after stage_X returns; reset_from forgets the rest).
DoneMeansSaved ==
  \A s \in StageSet : Done(s) => \A n \in Mandatory(s) : art[n] = execs[s]

\* While --stage is only used on stages whose predecessors are done, the done
\* stages stay a prefix of the pipeline and each was computed from the current
\* version of everything it reads, through any crash, failure and resume.
OrderlyRunsAreFresh ==
  Orderly => \A s \in StageSet : Done(s) =>
     /\ \A r \in StageSet : Idx(r) < Idx(s) => Done(r)
     /\ UpToDate(s)

\* The PDF and the gate verdict delivered side by side are of one review
\* execution, and a PDF delivered as paper.pdf passed its gates (stage_package
\* uses the pinned records; a crash inside packaging delivers less, never a mix).
ReleasedTogether ==
  /\ pkg.verified # 0 => pkg.verified \in passed
  /\ pkg.verified = 0 \/ pkg.unverified = 0
  /\ \A v \in { pkg.verified, pkg.unverified } : v # 0 /\ pkg.gates # 0 => v = pkg.gates

\* After an orderly history a finished package holds PDF, gates and ledger of the
\* latest review, and that review read the latest draft.
OrderlyRelease ==
  Orderly /\ Done("package") =>
    /\ pkg.gates = execs["review"] /\ pkg.ledger = execs["review"]
    /\ execs["review"] \in { pkg.verified, pkg.unverified }
    /\ inputs["review"]["draft"] = execs["write"]

\* Items live in memory under a stage's own tag come from one execution of that
\* stage, even when earlier ones died half way (retire_run_items runs first).
OneGenerationInMemory ==
  \A t \in { "plan", "survey", "result" } :
     /\ \A e, f \in memory[t] : e = f
     /\ Done(Writer(t)) => memory[t] = { execs[Writer(t)] }

\* A plain invocation that ran to the end of its loop leaves every stage done.
CompleteMeansAllDone == exit = "complete" => \A s \in StageSet : Done(s)

\* A plain resume never sends a done stage back to work: only `--stage` may.
DoneOnlyResetByStage ==
  [][\A s \in StageSet : Done(s) /\ status'[s] # "done" => phase = "idle" /\ only' # None]_vars

\* Every invocation ends: with success, with a failed stage, or killed.
InvocationsEnd == (phase # "idle") ~> (phase = "idle")

-----------------------------------------------------------------------------
(* What the documents say of every history, and the code keeps only for     *)
(* orderly ones.                                                            *)

\* README.md:95 and reset_from: rerunning a stage resets the later ones so that
\* no stale result is used; a finished run would be computed from current inputs.
NoStaleDownstream ==
  (\A s \in StageSet : Done(s)) => \A s \in StageSet : UpToDate(s)

\* The same, for artifacts the latest execution of their stage did not produce:
\* what a finished stage used was produced by the current experiments.
NoLeftoverDesign ==
  Orderly => \A s \in { "analysis", "write", "review" } :
     Done(s) => inputs[s]["experiment_design"] \in { 0, execs["experiments"] }

\* DESIGN.md:120: packaging never takes a PDF left by an earlier review run.
PackagesLatestReview ==
  Done("package") => { pkg.verified, pkg.unverified } \subseteq { 0, execs["review"] }

\* retire_run_items: stale evidence of a previous attempt cannot reach later
\* prompts when a stage is rerun.
NoStaleRequestedEvidence ==
  phase = "execute" /\ cur = "review" /\ todo # <<>> /\ Head(todo) # "read"
     => memory["requested"] \subseteq { execs["review"] }
=============================================================================
