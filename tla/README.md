# Verification of Tyche and JiuwenSwarm's sessions

Tyche (`src/tyche/`) turns a topic into a short research paper: it plans, surveys the literature, has experiments run, analyses them, writes, revises the draft against an automatic review panel, distils lessons for later papers, and packages the result. This directory holds TLA+ models of the parts of Tyche in which the order of steps matters, TLC configurations that check them on small instances, and TLAPS proofs for all instances of what matters most.

The rest of the repository is JiuwenSwarm, the agent platform Tyche was forked from (`src/jiuwenswarm`, `src/jiuwenbox`, `src/packages`, `src/sdks`, ...). Of its agent server the three parts are modelled in which concurrency is hardest: the pool of prewarmed sessions, the durable mailbox of a session, and the permission cards of a session with the requests that answer or supersede them. The rest is named in the inventory and under "Not modelled".

To run: `tlc -config X.cfg M` (the module of each run is given below) and `tlapm M.tla` for the `*Proofs` modules.

## 1. Inventory

Two kinds of program. Tyche is sequential: one process, `await` after `await`, with no task ever started beside another. What makes it hard is that its state outlives its processes. A run may fail or be killed at any point and is continued by another process, single stages are run again, models and services answer anything or nothing, revisions are tried and taken back, and every run of a workspace shares one memory database. JiuwenSwarm's agent server is one event loop with many tasks: between two awaits a handler is atomic, at every await another task may act, a task may be cancelled at any of its awaits, and threads outlive the tasks that wait for them.

| Component (source) | State | Operations | Hard behaviour | What makes it correct |
|---|---|---|---|---|
| run pipeline (`pipeline.py`, `cli.py`) | stage statuses and pinned review outputs in `state.json`, `package/` | `run` with `--resume`, `--stage`, `--stop-after`; eight stage functions | death between two effects of a stage; stages rerun out of order; artifacts a rerun did not produce | what is done was computed from what is current; a package is of one review |
| artifact store (`workspace.py`) | `artifacts/<name>/v<N>`, `provenance.jsonl` | `save_text`, `save_file`, `save_tree`, `latest`, `verify_provenance` | death between writing bytes and recording them; a second process on the run | recorded versions never change, each is the whole of one save |
| experiment bridge (`experiments/bridge.py`) | attempts in the manager's directory, metrics files | `run`, `_resumable_manager_run`, `read_metrics_dir` | resume of an open attempt; metrics of earlier executions and of dropped variants | results come from the latest execution of a complete attempt |
| revision loop (`review/loop.py`) | kept build, its review, best texts; snapshots | one round: revise, build, gates, panel, accept or roll back | five pieces of state must be rolled back together; the ledger is changed while a candidate is judged | a rejected round leaves no trace; the kept draft follows the rule `loop.py` states; the loop ends |
| findings ledger (`review/ledger.py`) | entries with status, re-flag count, response | merge of findings, rulings, reports, gate results, cap | ids given out again after a roll-back; off-by-one at the cap | fates are final; open gate entries are what the gates report of the kept build and no reviewer of it ruled closed |
| review panel (`review/panel.py`) | none | review of a build | any scores and findings | input of the loop |
| composer (`paper/compose.py`) | section texts, removed-citation records | build with repairs and trims | changes texts while building | part of the round |
| author conversation (`paper/writer.py`, `Conversation` of `llm.py`) | exchanges, and the writer's mirror of what they show | ask, rollback, compaction, save, resume | mirror and conversation drift apart through roll-back, restart and replacement | what the writer takes for its latest text is; sent prefixes are never edited |
| lesson playbook (`evolution/playbook.py`) and memory store (`memory/store.py`) | lessons with per-run records, status, successor | inject, merge, promote, retire, correct | one read, then many transactions; deaths and other runs between them | one active lesson per category; the documented life cycle; misses are charged; where a merge goes by a read that is out of date, no other category suffers |
| literature survey (`literature/survey.py`, `models.py`, `verify.py`, `bibtex.py`) | index of identity keys, papers, verdicts | retrieve, dedupe, screen, expand, verify, cite | merging depends on the order of arrival; merging after a verdict was filed | papers are put together only along shared identifiers; what is cited was checked |
| literature access (`literature/http.py`, `sources.py`) | response cache, last request per host | `get_text` with throttle, retries, cache | malformed bodies, retries | unusable bodies are never cached |
| model client and prompt cache (`llm.py`, `cache.py`) | hints flag, prefix ledger | `complete`, `complete_json` | a refused hint, a retry, an edited prefix | hints are only given up when the plain request works |
| context packs (`memory/context_pack.py`) | none | `pack` | budget boundary | the budget holds for optional blocks |
| agent warm pool (`server/runtime/agent_warm_pool.py`, chat turns in `runtime/service.py`) | slots, tasks, pending keys, revision, claimed pins, foreground count | `sync`, `_prepare`, `claim`, `wait_for_session`, `release_claim_pin`, `begin_foreground`, `end_foreground`, `close` | a preparation is preempted, claimed, superseded or fails between any two awaits; syncs overtake each other; tasks cancelled before their first step | one owner for a session, a pin for each owner, bounded speculation, chats first, nobody waits for the one who waits for him |
| session mailbox (`session_message_store.py`, `session_message_service.py`) and run admission (`execution.py`) | rows in SQLite, workers of two lanes, hold, flags | send, deliver, ask, answer, refuse, defer, resolve, continue, delete, stop, start | crash after hand-over; claims by threads whose worker was cancelled; wake-up against the end of a worker; a deletion repeated after a restart | at most once, tasks alone and in order, uncertainty stops the lane, no lost wake-up |
| permission queue and dispatch (`root_permission_queue.py`, `permission_dispatch.py`, `permission_continuation.py` and their rails) | cards, shown order, quarantine, dispatch lock, handoff | begin, ask, reserve, send, claim, release, reconcile, cutover | callbacks after the answer was superseded; failures and cancellation between the steps of a cutover; a lock released without asking for its owner | one answer in flight, no card taken up again by a superseded answer, what is shown is what is kept, everybody is served |
| gateway, channels, teams, skills, deep adapter, protocol | connections, files, caches | message routing, installation, streaming | distributed over 1,100 files | inputs of the three models above, where they touch them |
| analysis, planning, gates, LaTeX, configuration, self test | none that outlives a call | pure functions, one model call, external tools | floating point and text | inputs of the models above |

How they interact. `Pipeline.run` calls a stage function; the stage reads artifacts with `ws.latest`, works, saves artifacts and adds items to the memory database, and the pipeline then marks the stage done. The survey stage feeds the bibliography, the experiments stage the results tree, both read back from artifacts by later stages. The write stage begins the author conversation; the review stage loads it in another process and gives it, with composer and ledger, to the revision loop, which returns the build the review stage saves and pins for packaging. The evolve stage updates the lessons, which the write stages of later runs inject.

In the agent server a chat turn claims or names a session, begins a foreground section (which preempts prewarming), waits for the session's preparation, asks run admission for the session (which keeps mailbox tasks out), and dispatches its input through the permission dispatch, which may first have to end the cards of an interrupted round. The mailbox delivers messages of other sessions into the same admission. The three models meet at these calls only; each takes the others as free environment: chats in `AgentWarmPool`, the session's user in `SessionMailbox`, requests in `PermissionQueue`.

## 2. Modules

| Module | Models | Extends / composes |
|---|---|---|
| `Pipeline` | run pipeline, `state.json`, what stages read, save, remember, pin and deliver | |
| `ArtifactHistory` | abstract: a name has an append-only list of whole versions | |
| `ArtifactStore` | saving step by step, with kills | implements `ArtifactHistory` |
| `ExperimentAttempts`, `MCExperimentAttempts` | attempts, executions, collection, saving, analysis | |
| `FindingsLedger` | the ledger as operators on a sequence of entries | |
| `DraftAcceptance` | abstract: the rule `loop.py` states for replacing the kept draft | |
| `RevisionLoop` | the loop with composer texts, removed citations, conversation and ledger | extends `FindingsLedger`, implements `DraftAcceptance` |
| `LessonLife` | abstract: the documented life cycle of a category's guidance | |
| `LessonStore`, `MCLessonStore` | injecting and merging lessons, transaction by transaction | implements `LessonLife` |
| `AuthorConversation`, `MCAuthorConversation` | conversation and mirror through write and review stages | |
| `RecordMerging` | `Paper.identity_keys`, `Paper.merge`, one turn of `dedupe` as operators | |
| `Survey`, `MCSurvey` | retrieval, screening, citation graph, verification, citing | extends `RecordMerging` |
| `AgentWarmPool`, `MCAgentWarmPool` | the warm pool, its background tasks step by step, chats and claims | |
| `SessionMailbox` | the mailbox of one target session, its workers, admission, deletion, stop, crash and restart | |
| `PermissionQueue` | the permission cards of one root session, rails, dispatch, cutovers, and the external core's rounds | |
| `PipelineProofs`, `RevisionProofs`, `ArtifactProofs`, `StageProofs`, `LessonProofs`, `WarmPoolProofs`, `MailboxProofs`, `PermissionProofs` | theorems and their proofs | each extends the module it is about, `StageProofs` three: `Survey`, `ExperimentAttempts` and `AuthorConversation`, whose names are distinct for that (`ExperimentsSpec`, `ConversationSpec`) |

Correspondence. *Pipeline*: an execution of a stage is a program, the list of its effects in the order of the stage function (`Programs`); each effect is an action, so that a failure (`Fail`, the `except` branch that marks the stage failed) or a death (`Kill`) can come between any two. Contents are the number of the execution that produced them. *ArtifactStore*: `_next_version`, making the target, writing each piece, hashing, and appending the record are separate actions. *ExperimentAttempts*: the engine's choice of attempt, the external manager's executions and variants, collection, the stage's checks, saving and analysis. *RevisionLoop*: one action per phase of a round (`build`, `sync` of gate findings, `panel`, `findings`, `settle`, `decide`); snapshots are taken and restored as the code does, name by name; a review may rule on any open entry, since `apply_rulings` takes whatever ids the reviewers return, those of gate entries included. *LessonStore*: each transaction of `update_lessons` (`add`, `update`, `supersede`) is an action of one of several processes, which may overlap, and a set may name a category twice. The code keeps neither two processes nor two lessons of a set from merging against a read that is out of date; two history variables record it (`since`: what was written since a process read; `stale`: the categories in which a merge went by such a read). The properties are about all other categories. *AuthorConversation*: `Draft` (write), `AskTitle`, and `Change` (revise, shorten and repair, which differ in what an empty reply does), each with the decision of `_conversation_for` whether to begin anew (`NeedsRestart`), and the actions that export, resume, begin, keep and reject a round, and die. *Survey*: one action per record taken into the merge, then screening, expansion, one `Verify` per paper and the final filter; what services return or leave out is a free choice. Records are not said to be of works: identifiers may be wrong and titles equal, and what may be put together is defined by chains of shared identifiers alone (`Share`, `Island`). *AgentWarmPool*: a preparation is a task with a program counter for each of its awaits (gates, semaphore, lock, agent, session); what a handler does under the pool's lock is one step. *SessionMailbox*: a worker is a program counter over `_consume_target`; a claim is two steps (the thread's transaction, its return); three pairs of looks that nothing distinguishes are one step each (the end of a worker and the recheck, admission and the second look at the head, the look at the head and the mode). An exception before the claim (`FailEarly`) marks the row failed, as it does in the look and in the admission of a task; a deletion may begin at any time, before the service has started too, and the history variable `woken` records that one failed then and started workers. A second cancellation of a worker that is ending already, an exception of a steer's deferral or of its look at the session, heartbeats, teams and pending interactions are left out; the user has one turn at a time. *PermissionQueue*: a call stands for its card, since call and invocation ids are new with each batch; each request is a program counter over its dispatch; a cutover is cancellation, unwinding and discarding, each of which may fail, and a cancellation may be cut off between `start_cutover` and `complete_cutover` (`Torn`). The agent core logs an exception of a callback and continues the chain (the comment at `root_permission_queue_rail.py:258`), so a call that the queue refuses, superseded or quarantined, is not ended: the rails behind decide it, and without a key it is asked as an ordinary question. A `send` that fails after the core took the input is left out.

External code is modelled by how Tyche uses it and marked so: openJiuwen's manager (a completed variant has written its metrics file; an interrupted execution is run again before the attempt completes; a terminal attempt stays as it is), SQLite transactions (atomic), the file system (a file is truncated when opened, then grows), and the agent core's rounds (one at a time; accepted inputs wait in order; a round takes the continuation and leaves one when it ends interrupted; a cancelled round leaves none).

## 3. Runs

Passing runs (all properties hold, every action fires):

| Run (module) | Properties | Instance, and why it is enough |
|---|---|---|
| `pipeline_safety` (`Pipeline`) | `TypeOK`, `DoneMeansSaved`, `OrderlyRunsAreFresh`, `OrderlyRelease`, `DoneOnlyResetByStage` | three invocations: one to complete a run, one to rerun a stage and die, one to pick up what is left; `--stop-after` at two stages |
| `revision_safety` (`RevisionLoop`) | `NoTraceOfRejected`, `KeptTogether`, `LedgerMatchesGates`, `FatesAreFinal`, `FollowsTheRule`, `Terminates` | two rounds after the first build: an accepted and a rejected one in both orders; two gate problems, of which one is a compilation error that belongs to no section; two scores, on both sides of the target; one critique, two findings; rulings on any open entry |
| `lessons_safety` (`MCLessonStore`) | `OneActivePerCategory`, `MissesAreCharged`, `FollowsLifeCycle` | two runs whose processes may overlap, sets of up to two lessons of one category, four executions of evolve so that each may die once and be rerun, two texts so that a lesson can be corrected. The properties except stale categories, so with one category an execution is followed until it is stale (`SomethingToLose`). By hand: three runs with sets of one lesson, three runs with sets of two that fixed nothing, and two categories |
| `conversation_safety` (`MCAuthorConversation`) | `DiscardedIsGone`, `ContinuedRequestsShowTheText` | two sections, six calls, a limit of three exchanges so that it is exceeded, one change of the shared context |
| `artifacts_safety` (`ArtifactStore`) | `NothingDrifts`, `IsHistory` | two names of two pieces, four saves, so that a version can be used again after a kill, with another one recorded before or since |
| `experiments_safety` (`MCExperimentAttempts`) | `SavedFromLatestExecution`, `FinishedAttemptsStand` | three variants (two are needed to suffice, one to be dropped), two attempts, three executions |
| `survey_safety` (`MCSurvey`) | `LinkedByKeys`, `OwnVerdict` | nine records with three kinds of identifiers, missing and wrong ones, among them one that bridges two works by a wrong DOI; up to five retrieved in any order (six by hand: 1.2 million states) and two found in the citation graph. Nothing is assumed of the identifiers: `LinkedByKeys` says that records are put together along chains of shared identifiers only and papers have identifiers of linked records only; `OwnVerdict` lets a verdict come from another kept paper if that begins with the same key, see `survey_verification_per_paper` below |
| `warmpool_safety` (`MCAgentWarmPool`) | `SpeculationIsBounded`, `PinsMatchOwners`, `PrewarmYieldsToChats`, `OneOwner`, `SlotsFollowNewestSync` | two keys, two sessions, two syncs of two configurations, so that the older may reconcile last; two foreground sections at a time, one background preparation and one slot as in the default settings; 1.4 million states |
| `mailbox_safety` (`SessionMailbox`) | `AtMostOnce`, `TasksRunAlone`, `WakeupNotLost`, `DeletedIsQuiet`, `HeldIsHeld`, `UncertaintyBlocks`, `TasksKeepTheirOrder` | two messages in either lane, two steers in flight, and any two disturbances (a user's turn, mode switch, disconnection, deletion, stop, crash, failed recheck): most hazards are one message, one disturbance and one more message; 2.5 million states. `HeldIsHeld` and `UncertaintyBlocks` except queues that a deletion failing before the start has woken, see `mailbox_early_deletion` below |
| `permissions_safety` (`PermissionQueue`) | `HeadInFlight`, `ReservedIsOwned`, `OneDispatcher`, `ShownIsKept`, `SupersededNeverBinds`, `RequestsAreServed` | three calls (a batch of two and a later one) and three requests of any kind: an answer, what supersedes it, and one after that. `RequestsAreServed` excepts requests that wait behind a cancellation cut off before `complete_cutover`, see `EveryRequestIsServed` below. With four requests the safety properties hold as well (2.1 million states, run by hand) |

`CHECK_DEADLOCK FALSE` where a run of the system really ends: no invocation left, no save left, a survey that is finished or failed. `revision_safety` and the conversation runs check for deadlock: the finished loop stutters explicitly (`Finished`), and in the conversation a round can always begin or end.

The list holds what says most. Further properties are defined in the modules, and TLC finds them true on the same instances: the type invariants, and `ReleasedTogether`, `OneGenerationInMemory`, `CompleteMeansAllDone` (`Pipeline`), `CapHolds`, `TargetMeansPackageable` (`RevisionLoop`), `RunRecordsKept` (`LessonStore`), `SentPrefixesStand`, `LatestIsHeld` (`AuthorConversation`), `VersionsFormAChain` (`ArtifactStore`), `OnlyTheLastIsOpen` (`ExperimentAttempts`) and `CitedDoisLookedUp` (`Survey`). `pipeline_liveness.cfg` checks `InvocationsEnd` under `FairSpec` with two invocations; together with the safety of three it takes too long to be checked each time.

Runs that show a disagreement between the code and what it says of itself:

| Run | Property | What happens |
|---|---|---|
| `warmpool_standoff` | `NoStandoff` | a session claimed while it is warming keeps a background preparation, which waits until no chat is active; the first chat on it begins a foreground section and waits for the preparation; ADR-0001:27 says it is promoted to the foreground |
| `mailbox_abort_resumes` | `AbortResumes` | a deletion cancels a worker between the transaction of its claim and its return: the row stays running, and when the deletion fails the task lane waits behind it until a restart; session_message_service.py:909 says the queue is resumed |

More configurations are kept to be run by hand. Each checks one sentence of the documents that the code keeps in ordinary histories only, and TLC finds the history in which it does not:

| Configuration | Property | History |
|---|---|---|
| `pipeline_packages_latest_review` | `PackagesLatestReview` | a review that dies leaves `meta.review_outputs` of the one before, and `--stage package` delivers them; DESIGN.md:120 says a PDF of an earlier review is never taken |
| `conversation_complete_requests` | `EveryRequestIsComplete` | what to leave out of a request is decided before `_conversation_for` may start an empty conversation, so that its first request lacks the section's text and contract |
| `experiments_stale_variants` | `AnalysedWereCollected` | metrics of a variant a design revision dropped are left out by the engine but read again from the saved tree by the analysis; DESIGN.md:28 |
| `survey_shared_is_merged` | `SharedIsMerged` | an identifier or title of a merged record that its paper did not adopt is not indexed, so a later record that shares it is listed as another paper; models.py:80 |
| `mailbox_early_deletion` | `HeldWithoutException` | a deletion repeated by the lifecycle recovery before the mailbox has started fails, and the worker it starts knows no hold of the restart; cross-session-agent-messaging-design.md:283 says consumers start after the recovery |
| `warmpool_warming_is_alive` | `WarmingIsAlive` | a preparation cancelled before its first step never removes its entry, so its key counts as warming for good |
| `warmpool_claims_survive` | `ClaimsSurvivePreemption` | a preparation claimed after a chat had cancelled it, and before it noticed, is thrown away: the claimed session is prepared by nobody |
| `permissions_curable` | `QuarantineIsCurable` | a round cancelled before it left its continuation, or an accepted answer of a sibling that was consumed, leaves cards that are not the core's continuation: every later discard refuses, and the queue stays quarantined |
| `permissions_safety`, with `SupersededStops` as its property | `SupersededStops` | the rail raises when an answer is superseded (root_permission_queue_rail.py:308), the core logs it and goes on with the chain: the call is decided by the rails behind, which find the answer in its context |
| `permissions_safety`, with `EveryRequestIsServed` as its property | `EveryRequestIsServed` | a cancellation cut off between `start_cutover` (interface_deep.py:13603) and `complete_cutover` (13676): nothing between the two releases the lock |
| `pipeline_packages_latest_review`, with `NoStaleDownstream` as its invariant | `NoStaleDownstream` | `--stage` on a stage whose predecessors are not done, then resume: stages skipped as done were computed from older inputs |
| `pipeline_packages_latest_review`, with `NoLeftoverDesign` as its invariant | `NoLeftoverDesign` | a rerun of the experiments without a design document leaves the old one to be read |
| `pipeline_packages_latest_review`, with `NoStaleRequestedEvidence` as its invariant | `NoStaleRequestedEvidence` | evidence a dead review had requested is live when the review runs again |
| `revision_returns_best` | `ReturnsBest` | accepted drafts may lose up to the tolerance each, and the last is returned, not the best |
| `revision_returns_best`, with `AcceptanceOfTheDesign` as its property | `AcceptanceOfTheDesign` | DESIGN.md:104 wants a candidate to compile, to add no blockers and to stay within the tolerance; the code takes one with fewer blockers whatever its score, and one that compiles whatever its blockers in place of one that does not |
| `revision_returns_best`, with `GateEntriesCloseBySilence` as its invariant | `GateEntriesCloseBySilence` | a reviewer's ruling names a gate's entry and closes it while the gate still reports the problem; ledger.py:221 and DESIGN.md:103 say it closes when the gate no longer does |
| `revision_returns_best`, with `AdmittedCitationsRestored` as its invariant | `AdmittedCitationsRestored` | citations admitted in a rejected round stay admitted |
| `revision_returns_best`, with `UnaddressedWasAsked` as its invariant | `UnaddressedWasAsked` | a finding of a section nobody revised is closed as unaddressed without the writer having seen it |
| `lessons_active_is_earned` | `ActiveIsEarned` | records of a promoted lesson are replaced when a run evolves again; it stays active |
| `lessons_corrections_are_linked` | `CorrectionsAreLinked` | a death between the two transactions of a correction |
| `lessons_parallel_records` | `EveryRecordIsKept` | two runs evolving at once overwrite each other's records |
| `lessons_parallel_records`, with `AlwaysOneActive` as its invariant | `AlwaysOneActive` | two processes, or two lessons of one category in a set, leave two active lessons of it |
| `artifacts_two_processes` | `IsHistory` | two processes on one run take the same version |
| `survey_nothing_is_lost` | `NothingIsLost` | six records of one work after which `dedupe` returns an empty list: an index entry still leads to a paper that was put away |
| `survey_verification_per_paper` | `VerificationPerPaper` | seven records of which `dedupe` makes two papers with one arXiv id, and that one the first of their identity keys: verdicts are filed under that key, so the later paper's verdict replaces the earlier one's; verify.py:65 says one verification per paper. `OwnVerdict` is what is left of the sentence |
| `survey_arxiv_ids_looked_up` | `CitedArxivIdsLookedUp` | a paper merged with an arXiv record of another arXiv id has `arxiv` among its sources, so its own id is not looked up |
| `survey_arxiv_ids_looked_up`, with `CitedOnce` as its invariant | `CitedOnce` | verification fills in a DOI that another cited paper has |

Each property is also checked against a plausible error: the modules define, beside an operator, a mutant of it (a missing guard, a dropped reset, the wrong order), and with the mutant in its place TLC finds the property violated. Mutants are marked as such where they are defined and used by nothing else.

Fairness. `Pipeline!FairSpec` is weak fairness of the process's own steps together: it is sequential code whose calls are all bounded by timeouts, so that it goes on or fails. Being killed is never assumed, nor is being invoked again. `RevisionLoop!FairSpec` is the same of the loop, which runs inside one stage. `PermissionQueue!FairSpec` is weak fairness of what each request does next (`Serve`): the event loop runs what is ready, `asyncio.Lock` is first come, first served, and the calls of the core return or raise. The task of a cancellation may itself be cancelled, or raise, between `start_cutover` and `complete_cutover` (interface_deep.py:13603 to 13676); nothing then releases the lock, so `RequestsAreServed` excepts such histories, and `EveryRequestIsServed`, which does not, fails. All other runs are about safety only.

Bounds. `MaxInvocations`, `MaxSaves`, `MaxEvolves`, `MaxCalls`, `MaxContexts`, `MaxAttempts`, `MaxExecutions`, `MaxRetrieved`, `MaxFound`, `MaxRaised`, `MaxFindings`, `MaxHelped`, `MaxLessons`, `MaxSessions`, `MaxSyncs`, `MaxForeground`, `MaxMessages`, `MaxSteers`, `MaxDisturbances`, `MaxCalls` and `MaxRequests` bound what the environment does; `MaxRounds`, `PlateauRounds`, `ReflagCap`, `MaxHistory`, `MaxPapers`, `MinCitable`, `MaxConcurrency`, `MaxReady`, `MaxPending` and the `Promote`/`Retire` constants are settings of the code with small values. Symmetry is used where every property of the run is symmetric: runs and texts in `MCLessonStore`, variants in `MCExperimentAttempts`, configurations in `MCAgentWarmPool`, none of whose runs checks liveness.

## 4. Proofs

All theorems are about every value of the constants. Assumptions beyond those the modules state of their constants (that they are numbers, that the bounds are positive) are named below.

`PipelineProofs`, for every number of invocations and every set of stop stages: `TypeCorrect`; `DoneStagesSaved` (`DoneMeansSaved`), whose invariant says of the execution in progress that what it owes is saved already or still to be saved by its program; `NothingStaleWhenOrderly` (`OrderlyRunsAreFresh`), which needs besides that done stages are a prefix of the stages, that the stage at work is the first that is not done, and that a stage's inputs are those of artifacts of earlier stages; `OnlyStageOptionUndoes` (`DoneOnlyResetByStage`); `OrderlyReleaseHolds` (`OrderlyRelease`). The last needs to know that only packaging writes the package and only a review pins (`OwnersInv`), that a review that is done, or past its pinning, has pinned its own outputs (`PinInv`), and, while the package is being made, which parts of it are there already: the program left to run is a suffix of the packaging program, and each suffix says what precedes it (`PackagingInv`).

`RevisionProofs`, for every number of rounds and every set of problems and scores: `KeptBelongsTogether` (`KeptTogether`) and `FollowsTheRuleProved` (`FollowsTheRule`, the refinement of `DraftAcceptance`). That rule is the one `loop.py` states; DESIGN.md:104 states a stricter one, which `AcceptanceOfTheDesign` shows broken. The invariant relates the phase of a round to what the candidate and its score can be (`CandidateInv`) and the kept build to the best texts; that the gates know finitely many blockers is an assumption on the constants. `TypeCorrect` is what the other three rest on, and is the longest: it needs what each operator of the ledger returns. `Grows` says what all of them have in common (entries are only appended, and keep their kind, problem and number). `FatesAreFinalHolds` (`FatesAreFinal`) and `LedgerMatchesGatesHolds` (`LedgerMatchesGates`) are each strengthened by the same statement about the snapshot a round may go back to: an invariant about the kept state only is lost at a roll-back. Since a ruling may close a gate's entry, `LedgerMatchesGates` compares the open entries with the reports of the kept build less what its own reviewers ruled closed (`waived`, part of a build's review): neither a ruling in a rejected round nor one on an older build counts. `NoTraceOfRejectedHolds` (`NoTraceOfRejected`) follows from `TraceInv`: whatever is kept, snapshots included, is of rounds that were not rejected, and what is of the present round is reached only through what the roll-back replaces.

`ArtifactProofs`, for every set of names and pieces and every number of saves, of one process at a time (the assumption under which `artifacts_two_processes` fails): `NothingEverDrifts` (`NothingDrifts`) and `StoreIsAHistory` (`IsHistory`, the refinement of `ArtifactHistory`). The invariant says that a process that saves holds the version after the latest recorded one, so that what it removes and writes is not recorded, and that what it has written is what it was given less what it still has to write.

`StageProofs` is about three stages, each on its own. Survey, for every set of records, services and bounds: `LinkedByKeysHolds` (`LinkedByKeys`). Nothing is assumed of the records: identifiers may be wrong and titles equal. The property is stated of islands, sets of records that share no identifier or title with any other record that arrived; whatever chain of wrong identifiers there is lies within one. The invariant (`Sorted`) says of every island that its records are parts of papers of the island only, that the identifiers these papers have were brought by records of the island, and so were those by which the index leads to them (`Kept`); `LinkedByKeys` alone is not inductive, since it says nothing of the index. A record that arrives is an island's or not: if it is, what it hits is the island's, and if not, it hits nothing of it. `OwnVerdictHolds` (`OwnVerdict`) has no assumption either: every paper has a title and so a first key (`Titled`, `FirstKeyIsOne`), which verification does not change, and what is filed under that key is a verdict on a paper that begins with it (`Filed`). That it is the paper's own verdict does not hold: the kept papers of one survey may share their first key, which `survey_verification_per_paper` exhibits.

Experiments (`StageProofs`), for any variants, attempts and executions: `SavedFromLatestExecutionHolds` (`SavedFromLatestExecution`) and `FinishedAttemptsStandHolds` (`FinishedAttemptsStand`). The property speaks of what was collected; the invariant has to say where the files came from. While an execution runs, it is not recorded, and the files of the variants it has finished are its own (`Underway`); once it is recorded, the same holds of the record, as long as no later execution has begun (`RecordedWrote`); and an attempt ends as complete only when its record is of the latest execution. An attempt with no record at all would let every file count: but then no execution was begun in it that left a readable file (`WrittenByExecutions`). That a finished attempt is never changed follows from the manager being at work on the newest attempt only, which has not ended (`AtWork`).

Author conversation (`StageProofs`), for any sections, history limit and numbers of contexts and calls: `DiscardedIsGoneHolds` (`DiscardedIsGone`) and `ContinuedRequestsShowTheTextHolds` (`ContinuedRequestsShowTheText`), under what the module assumes of `Order`, that it is a sequence of sections and not empty (`ConversationConstants`). Neither is inductive. Texts are named by the calls that wrote them, so that a text of the running round is younger than its checkpoint; what the checkpoint holds, and what the write stage exported, are older texts that no round was rejected with (`Checkpoint`, `ExportStands`), and these are what a roll-back or a new process brings back. A request leaves out the current text only when the mirror says that the conversation has it: `MirrorHeld` is that claim, of the running writer, of the checkpoint and of the export. Drafting, revising, repairing, shortening and asking for the title are one lemma (`RequestsKeepWriter`), whatever the model answers. What the lemma needs of a request (`Request`) is said of the mirror as it is before and after a restart of the conversation; a request that begins a new conversation may lack the text, which is the violated `EveryRequestIsComplete`.

`WarmPoolProofs`, for any number of keys, sessions, syncs, configurations and chats: `OneOwnerHolds`, `PinsMatchOwnersHolds`, `SpeculationIsBoundedHolds`, `PrewarmYieldsToChatsHolds`, `SlotsFollowNewestSyncHolds` and `TypeOKHolds`. All follow from one invariant, `PoolInv`, whose parts need each other. `TaskInv` is its heart: whoever goes on preparing a slot (not cancelled, not failed, not claimed) is the entry of its key in the table of tasks. Therefore a task that gets to publish its slot is the one its key has, its key has no slot yet (`OnceInv`: a key is queued, warming or READY, and only once), and the session is in nobody else's hands (`HeldInv`); therefore its pin is one for a new owner (`PinsInv`), and the reserve, counted by entries of the tables (`BoundInv`), bounds all speculative work. `SyncInv` numbers the syncs: two that overlap never have one number, and while the pool is open the configuration is that of the highest number reconciled. `YieldInv` says more than the property: nothing speculative has been woken at a gate either, while a chat is active. Actions that only move preparations on share one relation (`OnwardTo`), reconciling and pumping one lemma (`RefillKeeps`), and the queue's walk is described by where it puts each entry (`AtFacts`, `PumpedFacts`). One branch of the code is safe only because it is never taken: `_prepare` disposes of a stale session as if it were pinned, and that would take somebody else's pin; by `TaskInv` and `HeldInv` no task that gets so far is stale.

`MailboxProofs`, for any number of messages, steers and disturbances: all properties of `SessionMailbox`. `NeverTwice` (`AtMostOnce`) and `TasksAreAlone` (`TasksRunAlone`) rest on one invariant. `AtMostOnce` says nothing of the queue, so it is far from inductive. What is queued must not have been handed over (`Once`); what a worker has claimed is in no other hand and not in the queue (`HandsDiffer`); and a row goes back to the queue only by a steer's deferral, which must meet no worker that has claimed the row meanwhile (`DeferredIsFree`). That holds because a lane has one worker that takes rows until it has handed its row over, and because cancelled workers are gone before others may start (`OneTaker`). The rows are numbered without gaps (`RowsInOrder`), so a new row is nobody's. `TasksRunAlone` is strengthened to tasks whose claim is still to be made (`Alone`). `DeletedIsQuietHolds` adds that a deletion ends with no worker left (`Buried`). `WakeupNotLostHolds` (`WakeupNotLost`) is proved over transitions of rows rather than actions: whenever a lane that may work has a row to take, it has a worker, or one about to look again, or its recheck has failed (`Awake`). `TasksKeepTheirOrderHolds` is already true of the row a worker is about to claim (`Ordered`). `HeldIsHeldUnlessWoken` (`HeldIsHeld`) and `UncertaintyBlocksUnlessWoken` (`UncertaintyBlocks`) assume nothing: a deletion may be repeated before the service has started. What they say is excepted only from the moment such a deletion fails and starts workers until the next stop or crash (`woken`); until then there is no worker before the start, nor while the target is held (`Dormant`). That the exception is needed is what `mailbox_early_deletion` shows.

`PermissionProofs`, for any number of calls and requests: `OneDispatcherHolds`, `HeadInFlightHolds`, `ReservedIsOwnedHolds`, `ShownIsKeptHolds` and `SupersededNeverBindsHolds`. They hold though the core goes on with the callback chain after a call was refused, so that a superseded call is decided all the same; what is proved of it is that no card is taken up for it again, without which the rails behind have no resume bound to the call. They are proved together, since a cutover that could leave a reservation behind would break all of them. `Kept` says that the core keeps calls only between rounds and that then they are all the live cards; `OnItsWay`, that an answer reserved while the core keeps calls has not been started, so that a cutover that drops the core's inputs drops it with them; `Current`, that an answer on its way outside a quarantine was reserved in this epoch; `CutoverIsQuiet`, that in a cutover everything is quarantined and that, once the round is cancelled, no accepted input is left.

`LessonProofs`, for any number of runs, categories, texts and lessons, and every policy: `OneActivePerCategoryHolds`, `MissesAreChargedHolds`, `FollowsLifeCycleHolds` (the refinement of `LessonLife`), `RunRecordsKeptHolds` and `TypeOKHolds`. Nothing is assumed of the processes, which may overlap, of the sets, which may name a category twice, of deaths or of reruns. The first four except stale categories, those in which a merge went by a read that another merge of the category had overtaken; so they say that this is the only way to lose a record or to get two active lessons, and that the harm does not reach other categories. `lessons_parallel_records` shows that there is harm. The invariant says that an active lesson is the one that stands for its category (`Standings`) and that a lesson a run was shown still stands or has been retired, with all its replacements (`Remembered`). That is not inductive without `Session`, which relates what each process at work read to what is stored: what it read is there still (`Reading`); for a category nobody has written since, the copy it will write back is right and nothing was added, so that its next new item is listed after all others of the category (`AsRead`); and a correction under way replaces what it read (`Replacing`) or stands already (`Replaced`). The last is what makes the newest item the one that stands although items of one second are listed in any order; `InsertStands` is the lemma about lists under it. While a correction is between its two transactions the category has two live items; the old one is never active, since only the texts of others are replaced. What a step does to a category is summed up once (`Carries`), and the life cycle, the charges and the memory of what was shown all follow from that.

Only model-checked: liveness under fairness, and what the runs that expect a violation show. Every invariant and every action property of the passing runs is proved; those of the artifact store for one process at a time. The properties that `mailbox_early_deletion`, `lessons_parallel_records` and the like show broken are stated beside them without their exceptions. Out of the prover's reach are liveness under fairness (`InvocationsEnd`, `Terminates`, `RequestsAreServed`), ENABLED, and induction over data. `RECURSIVE` operators are avoided in all modules, so that any of them can be proved about later.

## 5. Not modelled

Of Tyche: literature access, context packs, the model client's fallback and the prefix ledger. Statistics (floating point), gates and sanitizing (regular expressions over LaTeX), LaTeX builds and planning (one call each) are inputs of the models: what they return is a free choice where it matters. Pre-ranking, citation keys and evidence cards of the survey are left out; so are prompts, configuration and the self test.

Of JiuwenSwarm: everything but the three parts named above. Most of its 1,100 files are protocol adapters, file and configuration handling, prompts, tools and user interfaces, whose correctness is a matter of data; the models cover a small share of its lines, where the order of events decides. Candidates for later are the fencing of chat turns in `service.py`, archive and restore of sessions, and scheduled runs.

## 6. Plan

Order in which the modules were and will be written, the most important behaviour first:

1. done: `Pipeline`, `FindingsLedger`, `DraftAcceptance`, `RevisionLoop`, `ArtifactStore`, `Survey`, `LessonStore`, `AgentWarmPool`, `SessionMailbox` and `PermissionQueue`, `AuthorConversation` and `ExperimentAttempts`, with their proofs.
2. `ModelCalls`: `complete` with its fallback, `complete_json` with its retries, the prefix ledger's bounded memory and its cache-break flag. Property: hints are given up only after the plain request worked; no append-only conversation is flagged.
3. `Survey` extended by citation keys (`assign_keys`), evidence cards and the admission of requested citations.
4. `ThrottledFetch`: cache, validation, throttle, retries. `ContextPack`: the budget as operators checked over bounded inputs.
5. The review stage composed: `RevisionLoop` with the conversation of `AuthorConversation` in place of its own list of turns.
6. Proofs: `SentPrefixesStand` and `LatestIsHeld` of `AuthorConversation` and `OnlyTheLastIsOpen` of `ExperimentAttempts`, which no run needs beside the properties that are proved; then the composed review stage.
