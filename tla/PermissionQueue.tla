-------------------------- MODULE PermissionQueue --------------------------
(***************************************************************************)
(* The permission cards of one root session (RootPermissionQueue), the       *)
(* requests that answer, replace or cancel them (RootPermissionDispatch and  *)
(* its callers in the adapter) and the rails that raise them.  A tool call   *)
(* that must be approved leaves a card; when the round ends the agent core   *)
(* keeps the interrupted calls as its continuation and the queue shows the   *)
(* first card.  An answer resumes the continuation for that card alone.  A   *)
(* fresh input or a cancellation first ends the old cards by a cutover:      *)
(* quarantine, cancellation of the round, discarding of the continuation.    *)
(*                                                                          *)
(* Between two awaits the code is one step.  A call stands for its card      *)
(* (call ids and invocation ids are new with every batch).  The core is      *)
(* external: one round at a time, the inputs it accepted wait in order, a    *)
(* round takes the continuation and leaves one when it ends interrupted, and *)
(* a cancelled round or resume leaves none.  It logs an exception of a       *)
(* callback and continues the chain (comment root_permission_queue_rail.py:  *)
(* 258), so a call the queue refuses is still decided by the rails behind.   *)
(* Left out: answers to ordinary questions, goals, payloads, other roots of  *)
(* the adapter, wrapped tool calls.                                          *)
(***************************************************************************)
EXTENDS Integers, Sequences, FiniteSets, SequencesExt

CONSTANTS
    MaxCalls,         \* bound: tool calls that are made
    MaxRequests       \* bound: requests that arrive

ASSUME PermissionAssumption == MaxCalls \in Nat /\ MaxRequests \in Nat \ {0}

Calls == 1..MaxCalls
Requests == 1..MaxRequests
None == 0

VARIABLES
    cards,        \* call -> state of its card, "none" where there is none
    order,        \* the cards in the order they are shown
    quarantined,
    lock,         \* the request that holds the dispatch lock
    waiting,      \* requests that wait for it, in order
    handoff,      \* the request whose accepted answer no callback has claimed
    req,          \* of each request: where it is, its kind, the card it answers and
                  \* the answer it found unclaimed when it began a cutover
    round,        \* of the core: "idle", "running", or "closing" once cancelled
    place,        \* where each call of the round is
    answering,    \* the request whose answer the round resumes with
    inputs,       \* requests the core accepted and has not started
    continuation, \* the interrupted calls it keeps, with the keys of their cards
    questions,    \* the interrupted calls it keeps without a key, as ordinary questions
    dirty,        \* a discard was cut off after it had written to the context
    nextCall,     \* the next call
    epoch,        \* history: cutovers begun
    reserved      \* history: epoch in which each request reserved its card

queue == <<cards, order, quarantined>>
dispatch == <<lock, waiting, handoff, req>>
core == <<round, place, answering, inputs, continuation, questions, nextCall>>
history == <<epoch, reserved>>
vars == <<queue, dispatch, core, dirty, history>>

CardStates == {"none", "active", "pending", "resuming"}
Kinds == {"answer", "fresh", "interrupt"}
Stops == {"new", "waiting", "cancelling", "unwinding", "discarding", "prepared", "taken",
          "reading", "plain", "torn", "done"}
Places == {"none", "todo", "deciding", "unbound", "suspended", "question"}

TypeOK ==
    /\ cards \in [Calls -> CardStates] /\ order \in Seq(Calls) /\ quarantined \in BOOLEAN
    /\ lock \in {None} \cup Requests /\ waiting \in Seq(Requests)
    /\ handoff \in {None} \cup Requests
    /\ req \in [Requests -> [at : Stops, kind : Kinds, card : {None} \cup Calls,
                             superseded : {None} \cup Calls]]
    /\ round \in {"idle", "running", "closing"}
    /\ place \in [Calls -> Places]
    /\ answering \in {None} \cup Requests /\ inputs \in Seq(Requests)
    /\ continuation \subseteq Calls /\ questions \subseteq Calls /\ dirty \in BOOLEAN
    /\ nextCall \in 1..(MaxCalls + 1) /\ epoch \in Nat /\ reserved \in [Requests -> Nat]

Init ==
    /\ cards = [c \in Calls |-> "none"] /\ order = <<>> /\ quarantined = FALSE
    /\ lock = None /\ waiting = <<>> /\ handoff = None
    /\ req = [r \in Requests |-> [at |-> "new", kind |-> "fresh", card |-> None,
                                  superseded |-> None]]
    /\ round = "idle" /\ place = [c \in Calls |-> "none"] /\ answering = None
    /\ inputs = <<>> /\ continuation = {} /\ questions = {} /\ dirty = FALSE /\ nextCall = 1
    /\ epoch = 0 /\ reserved = [r \in Requests |-> 0]

----------------------------------------------------------------------------
(* The queue                                                                  *)

Live(cs) == {c \in Calls : cs[c] # "none"}
In(cs, states) == {c \in Calls : cs[c] \in states}

\* _remove_locked, by finish and finish_active.
Removed(c) == /\ cards' = [cards EXCEPT ![c] = "none"]
              /\ order' = RemoveFirst(order, c)

\* cancel_snapshot and discard_continuation with every card of the root.
NoCards == cards' = [c \in Calls |-> "none"] /\ order' = <<>>

\* Mutant: any pending card may be answered.
ReservableAnywhere(c) == ~quarantined /\ c \in ToSet(order) /\ cards[c] = "pending"
\* reserve_answer and prepare_permission_wrappers accept an answer to c.
Reservable(c) ==
    /\ ~quarantined /\ order # <<>> /\ c = order[1] /\ cards[c] = "pending" /\ questions = {}
    /\ continuation = {} \/ (c \in continuation
                             /\ \A d \in continuation : cards[d] \in {"pending", "resuming"})

\* begin_cutover: is there anything to end?
NeedsCutover == quarantined \/ Live(cards) # {}

\* Mutant: siblings may be missing from a snapshot.
ConsistentWithoutSiblings(keys) == \A c \in keys : cards[c] = "pending"
\* reconcile accepts the interrupted calls as the root's whole state.
Consistent(keys) ==
    /\ \A c \in keys : cards[c] = "pending"
    /\ In(cards, {"pending", "resuming"}) \subseteq keys

----------------------------------------------------------------------------
(* The rails of a tool call                                                   *)

\* close_claimed for the card of c.
Closed(c) == IF handoff # None /\ req[handoff].card = c THEN None ELSE handoff

Answered(c) == answering # None /\ req[answering].card = c

\* before_tool_call of a call without an answer: begin.  A card that is still pending
\* interrupts the call again; in a quarantine the call goes on without a key.
BeginCall(c) ==
    /\ round = "running" /\ place[c] = "todo" /\ ~Answered(c)
    /\ place' = [place EXCEPT ![c] = IF quarantined THEN "unbound"
                                     ELSE IF cards[c] = "pending" THEN "suspended" ELSE "deciding"]
    /\ cards' = [cards EXCEPT ![c] = IF @ = "none" /\ ~quarantined THEN "active" ELSE @]
    /\ UNCHANGED <<order, quarantined, dispatch, round, answering, inputs, continuation,
                   questions, nextCall, dirty, history>>

\* Mutant: a claim does not look at the quarantine.
ClaimBlindly(c) ==
    /\ round = "running" /\ place[c] = "todo" /\ Answered(c) /\ cards[c] = "resuming"
    /\ handoff' = Closed(c)
    /\ cards' = [cards EXCEPT ![c] = "active"] /\ UNCHANGED order
    /\ place' = [place EXCEPT ![c] = "deciding"]
    /\ UNCHANGED <<quarantined, lock, waiting, req, round, answering, inputs, continuation,
                   questions, nextCall, dirty, history>>
\* before_tool_call of the answered call: claim_answer_for_call, which a quarantine
\* supersedes: the card is finished, and the call goes on with its key alone.
Claim(c) ==
    /\ round = "running" /\ place[c] = "todo" /\ Answered(c) /\ cards[c] = "resuming"
    /\ handoff' = Closed(c)
    /\ IF quarantined THEN Removed(c) ELSE cards' = [cards EXCEPT ![c] = "active"] /\ UNCHANGED order
    /\ place' = [place EXCEPT ![c] = "deciding"]
    /\ UNCHANGED <<quarantined, lock, waiting, req, round, answering, inputs, continuation,
                   questions, nextCall, dirty, history>>

\* The permission is decided without the user, or denied: the completion rail ends the card
\* of the call's key.
Decided(c) ==
    /\ round # "idle" /\ place[c] \in {"deciding", "unbound"}
    /\ IF place[c] = "deciding" THEN Removed(c) ELSE UNCHANGED <<cards, order>>
    /\ place' = [place EXCEPT ![c] = "none"]
    /\ UNCHANGED <<quarantined, dispatch, round, answering, inputs, continuation, questions,
                   nextCall, dirty, history>>

\* The user must decide: on_tool_exception puts the key into the interrupt and marks an
\* active card pending; it refuses any other and does nothing without a key.
Asks(c) ==
    /\ round # "idle" /\ place[c] \in {"deciding", "unbound"}
    /\ cards' = [cards EXCEPT ![c] = IF @ = "active" THEN "pending" ELSE @]
    /\ place' = [place EXCEPT ![c] = IF @ = "deciding" THEN "suspended" ELSE "question"]
    /\ UNCHANGED <<order, quarantined, dispatch, round, answering, inputs, continuation,
                   questions, nextCall, dirty, history>>

\* The round was cancelled while the permission was being evaluated: finish_active.
CallbackCancelled(c) ==
    /\ round = "closing" /\ place[c] \in {"deciding", "unbound"}
    /\ IF cards[c] = "active" THEN Removed(c) ELSE UNCHANGED <<cards, order>>
    /\ place' = [place EXCEPT ![c] = "none"]
    /\ UNCHANGED <<quarantined, dispatch, round, answering, inputs, continuation, questions,
                   nextCall, dirty, history>>

----------------------------------------------------------------------------
(* The core's rounds (external), and after_invoke at their end                *)

\* The model makes n calls.
Batch(n) ==
    /\ nextCall + n <= MaxCalls + 1 /\ nextCall' = nextCall + n
    /\ place' = [c \in Calls |-> IF c \in nextCall..(nextCall + n - 1) THEN "todo" ELSE "none"]

StartFresh ==
    /\ round = "idle" /\ inputs # <<>> /\ req[inputs[1]].kind = "fresh"
    /\ \E n \in 0..2 : Batch(n)
    /\ round' = "running" /\ inputs' = Tail(inputs) /\ answering' = None
    /\ continuation' = {} /\ questions' = {}
    /\ UNCHANGED <<queue, dispatch, dirty, history>>

\* Every interrupted call is replayed; without a continuation the answer is dropped.
StartResume ==
    /\ round = "idle" /\ inputs # <<>> /\ req[inputs[1]].kind = "answer"
    /\ inputs' = Tail(inputs) /\ continuation' = {} /\ questions' = {}
    /\ LET kept == continuation \cup questions
       IN  /\ place' = [c \in Calls |-> IF c \in kept THEN "todo" ELSE "none"]
           /\ round' = IF kept = {} THEN "idle" ELSE "running"
           /\ answering' = IF kept = {} THEN None ELSE inputs[1]
    /\ UNCHANGED <<queue, dispatch, nextCall, dirty, history>>

Suspended == {c \in Calls : place[c] = "suspended"}
Questions == {c \in Calls : place[c] = "question"}
Settled == \A c \in Calls : place[c] \in {"none", "suspended", "question"}
RoundIdle == round' = "idle" /\ place' = [c \in Calls |-> "none"] /\ answering' = None

\* Nobody is asked: the model goes on with more calls or the round is over.
GoesOn ==
    /\ round = "running" /\ Settled /\ Suspended = {} /\ Questions = {}
    /\ \/ RoundIdle /\ UNCHANGED nextCall
       \/ (\E n \in 1..2 : Batch(n)) /\ answering' = None /\ UNCHANGED round
    /\ UNCHANGED <<queue, dispatch, inputs, continuation, questions, dirty, history>>

\* The round ends interrupted: reconcile makes its cards the queue, in the core's order.
Interrupted ==
    /\ round = "running" /\ Settled /\ Suspended # {} /\ Questions = {} /\ Consistent(Suspended)
    /\ order' \in SetToSeqs(Suspended) /\ continuation' = Suspended /\ RoundIdle
    /\ UNCHANGED <<cards, quarantined, dispatch, inputs, questions, nextCall, dirty, history>>

\* No interrupt carries a key: to reconcile the round ended with ordinary questions.
Questioned ==
    /\ round = "running" /\ Settled /\ Suspended = {} /\ Questions # {}
    /\ questions' = Questions /\ RoundIdle
    /\ UNCHANGED <<queue, dispatch, inputs, continuation, nextCall, dirty, history>>

\* The snapshot cannot be shown (_cancel_interruption_snapshot), because reconcile refuses
\* it or its first card has no projection.  reconcile quarantines if questions are mixed in,
\* and otherwise unless a card is unknown.
SnapshotCancelled ==
    /\ round = "running" /\ Settled /\ Suspended # {}
    /\ NoCards /\ continuation' = {} /\ questions' = {} /\ RoundIdle
    /\ quarantined' = \/ quarantined \/ Questions # {}
                      \/ ~Consistent(Suspended) /\ Suspended \subseteq Live(cards)
    /\ UNCHANGED <<dispatch, inputs, nextCall, dirty, history>>

\* A cancelled round ends when its callbacks have.
RoundUnwound ==
    /\ round = "closing" /\ Settled /\ RoundIdle
    /\ UNCHANGED <<queue, dispatch, inputs, continuation, questions, nextCall, dirty, history>>

----------------------------------------------------------------------------
(* Requests                                                                   *)

Go(r, stop) == req' = [req EXCEPT ![r].at = stop]

\* A request of any kind; an answer names a card of any call made so far.
Arrive(r, kind, card) ==
    /\ req[r].at = "new" /\ \A s \in Requests : s < r => req[s].at # "new"
    /\ IF kind = "answer" THEN card \in 1..(nextCall - 1) ELSE card = None
    /\ req' = [req EXCEPT ![r] = [at |-> "waiting", kind |-> kind, card |-> card,
                                  superseded |-> None]]
    /\ waiting' = Append(waiting, r)
    /\ UNCHANGED <<queue, lock, handoff, core, dirty, history>>

\* A request whose task is cancelled leaves the line.
Withdraw(r) ==
    /\ req[r].at = "waiting" /\ Go(r, "done")
    /\ waiting' = SelectSeq(waiting, LAMBDA s : s # r)
    /\ UNCHANGED <<queue, lock, handoff, core, dirty, history>>

\* acquire
Enters(r, kind) ==
    /\ lock = None /\ waiting # <<>> /\ waiting[1] = r /\ req[r].kind = kind
    /\ waiting' = Tail(waiting)

\* prepare_resume: the card is reserved, or the preparation is aborted.
AnswerEnters(r) ==
    /\ Enters(r, "answer")
    /\ IF Reservable(req[r].card)
         THEN /\ lock' = r /\ Go(r, "prepared")
              /\ cards' = [cards EXCEPT ![req[r].card] = "resuming"]
              /\ reserved' = [reserved EXCEPT ![r] = epoch]
         ELSE Go(r, "done") /\ UNCHANGED <<lock, cards, reserved>>
    /\ UNCHANGED <<order, quarantined, handoff, core, dirty, epoch>>

\* publish_cutover
Publish(r) ==
    /\ NeedsCutover /\ quarantined' = TRUE /\ lock' = r /\ epoch' = epoch + 1
    /\ req' = [req EXCEPT ![r].at = "cancelling",
                          ![r].superseded = IF handoff = None THEN None ELSE req[handoff].card]

\* _discard_superseded_permission_before_fresh_input
FreshEnters(r) ==
    /\ Enters(r, "fresh")
    /\ \/ Publish(r)
       \/ ~NeedsCutover /\ lock' = r /\ Go(r, "prepared") /\ UNCHANGED <<quarantined, epoch>>
    /\ UNCHANGED <<cards, order, handoff, core, dirty, reserved>>

\* start_cutover, of a cancellation or of a supplement
InterruptEnters(r) ==
    /\ Enters(r, "interrupt")
    /\ \/ Publish(r)
       \/ ~NeedsCutover /\ Go(r, "plain") /\ UNCHANGED <<lock, quarantined, epoch>>
    /\ UNCHANGED <<cards, order, handoff, core, dirty, reserved>>

\* cancel_round (external): the round unwinds, what was accepted is dropped.
CancelRound(r) ==
    /\ req[r].at \in {"cancelling", "plain"}
    /\ Go(r, IF req[r].at = "plain" THEN "done" ELSE "unwinding")
    /\ round' = IF round = "running" THEN "closing" ELSE round
    /\ place' = [c \in Calls |-> IF place[c] = "todo" THEN "none" ELSE place[c]]
    /\ inputs' = <<>>
    /\ IF \E s \in ToSet(inputs) : req[s].kind = "answer"
         THEN continuation' = {} /\ questions' = {}
         ELSE UNCHANGED <<continuation, questions>>
    /\ UNCHANGED <<queue, lock, waiting, handoff, answering, nextCall, dirty, history>>

\* Mutant: a failed cutover keeps the lock.
FailedKeepingLock(r) == Go(r, "done") /\ UNCHANGED lock
\* The cutover fails: complete_cutover releases the lock for a cancellation, and
\* abort_preparation for a fresh input.
Failed(r) == Go(r, "done") /\ lock' = None

\* cancel_round raises: complete_cutover without confirmation.
CancelFails(r) ==
    /\ req[r].at = "cancelling" /\ Failed(r)
    /\ UNCHANGED <<queue, waiting, handoff, core, dirty, history>>

\* The cutover succeeds: a fresh input goes on, a cancellation is finished.
CutOver(r) ==
    IF req[r].kind = "fresh" THEN Go(r, "prepared") /\ UNCHANGED lock
    ELSE Go(r, "done") /\ lock' = None

\* consume_accepted_answer_if_quarantined
Consumed(r) ==
    LET c == req[r].superseded
    IN  IF c # None /\ cards[c] = "resuming" THEN Removed(c) ELSE UNCHANGED <<cards, order>>

\* complete_cutover up to the discarding of the core's continuation.
Complete(r) ==
    /\ req[r].at = "unwinding"
    /\ Consumed(r)
    /\ handoff' = IF req[r].superseded = None THEN handoff ELSE Closed(req[r].superseded)
    /\ IF In(cards', {"active", "resuming"}) # {} THEN Failed(r) /\ UNCHANGED quarantined
       ELSE IF Live(cards') = {} THEN CutOver(r) /\ quarantined' = FALSE
       ELSE Go(r, "discarding") /\ UNCHANGED <<lock, quarantined>>
    /\ UNCHANGED <<waiting, core, dirty, history>>

\* discard_permission_continuation and discard_continuation: only the very continuation
\* of the cards is discarded, and its writing may fail.
Discard(r) ==
    /\ req[r].at = "discarding"
    /\ \/ /\ continuation = Live(cards) /\ ~dirty
          /\ continuation' = {} /\ NoCards /\ quarantined' = FALSE /\ CutOver(r)
       \/ Failed(r) /\ UNCHANGED <<queue, continuation>>
    /\ UNCHANGED <<waiting, handoff, round, place, answering, inputs, questions, nextCall, dirty,
                   history>>

\* The task of the request is cancelled in its cutover, or fails in it.  abort_preparation
\* releases the lock of a fresh input; nothing releases that of a cancellation before
\* complete_cutover is called.
Torn(r) ==
    /\ req[r].at \in {"cancelling", "unwinding", "discarding"}
    /\ IF req[r].kind = "fresh" \/ req[r].at = "discarding" THEN Failed(r)
       ELSE Go(r, "torn") /\ UNCHANGED lock
    /\ dirty' \in IF req[r].at = "discarding" THEN {dirty, TRUE} ELSE {dirty}
    /\ UNCHANGED <<queue, waiting, handoff, core, history>>

\* The input is not sent: release gives the reservation and the lock back.
Dropped(r) ==
    /\ req[r].at = "prepared" /\ Failed(r)
    /\ cards' = [c \in Calls |-> IF c = req[r].card /\ cards[c] = "resuming" THEN "pending"
                                                                              ELSE cards[c]]
    /\ UNCHANGED <<order, quarantined, waiting, handoff, core, dirty, history>>

\* send: the core takes the input, possibly running it before the sender goes on.
Taken(r) ==
    /\ req[r].at = "prepared" /\ Go(r, "taken") /\ inputs' = Append(inputs, r)
    /\ UNCHANGED <<queue, lock, waiting, handoff, round, place, answering, continuation,
                   questions, nextCall, dirty, history>>

Unclaimed(r) == req[r].card # None /\ cards[req[r].card] = "resuming"

\* Mutant: the sender does not hand over what is still unclaimed.
SentWithoutHandoff(r) ==
    /\ req[r].at = "taken" /\ Go(r, "reading") /\ lock' = None
    /\ UNCHANGED <<queue, waiting, handoff, core, dirty, history>>
\* The rest of send.
Sent(r) ==
    /\ req[r].at = "taken" /\ Go(r, "reading") /\ lock' = None
    /\ handoff' = IF Unclaimed(r) THEN r ELSE handoff
    /\ UNCHANGED <<queue, waiting, core, dirty, history>>

\* Mutant: the lock is given back a second time.
FinalizeReleasing(r) ==
    /\ req[r].at = "reading" /\ Go(r, "done") /\ lock' = None
    /\ handoff' = IF handoff = r /\ cards[req[r].card] = "none" THEN None ELSE handoff
    /\ UNCHANGED <<queue, waiting, core, dirty, history>>
\* The request has read its output: finalize.
Finalize(r) ==
    /\ req[r].at = "reading" /\ Go(r, "done")
    /\ handoff' = IF handoff = r /\ cards[req[r].card] = "none" THEN None ELSE handoff
    /\ UNCHANGED <<queue, lock, waiting, core, dirty, history>>

----------------------------------------------------------------------------
Round == StartFresh \/ StartResume \/ GoesOn \/ Interrupted \/ Questioned \/ SnapshotCancelled \/ RoundUnwound
Callback(c) == BeginCall(c) \/ Claim(c) \/ Decided(c) \/ Asks(c) \/ CallbackCancelled(c)

\* What the holder of the lock, or the first in line, does next.
Serve(r) ==
    \/ AnswerEnters(r) \/ FreshEnters(r) \/ InterruptEnters(r)
    \/ CancelRound(r) \/ CancelFails(r) \/ Complete(r) \/ Discard(r)
    \/ Dropped(r) \/ Taken(r) \/ Sent(r)

Next ==
    \/ Round
    \/ \E c \in Calls : Callback(c)
    \/ \E r \in Requests :
          \/ \E kind \in Kinds, card \in {None} \cup Calls : Arrive(r, kind, card)
          \/ Serve(r) \/ Withdraw(r) \/ Torn(r) \/ Finalize(r)

Spec == Init /\ [][Next]_vars

\* The event loop runs what is ready, and the core's calls return or raise.
FairSpec == Spec /\ \A r \in Requests : WF_vars(Serve(r))

----------------------------------------------------------------------------
(* Properties                                                                 *)

\* Only the card at the head of the queue is ever being answered, so one at a time
\* (RootPermissionQueue: "one head answer in flight per root session").
HeadInFlight ==
    \A c \in Calls : cards[c] = "resuming" => order # <<>> /\ order[1] = c

\* A reserved answer has somebody to settle it: the request that is sending it, or, once
\* it is accepted, the handoff a cutover consumes it by; else cutover_continuation_scope
\* would refuse every later cutover.
ReservedIsOwned ==
    \A c \in Calls : cards[c] = "resuming" =>
        \E r \in {lock, handoff} \ {None} : req[r].kind = "answer" /\ req[r].card = c

\* Whoever is between acquiring the dispatch lock and giving it up still holds it: no
\* request releases the lock of another, although release asks only whether it is locked.
OneDispatcher ==
    \A r \in Requests :
        req[r].at \in {"cancelling", "unwinding", "discarding", "prepared", "taken"} => lock = r

\* A cutover supersedes: no card is taken up again by an answer that was reserved before
\* one began, even when its callback comes after the cutover is over.  (Only a card that is
\* taken up gives its call the resume by which the rails behind restore the context and the
\* review of the card.)
SupersededNeverBinds ==
    [][\A c \in Calls :
          (cards[c] = "resuming" /\ cards'[c] = "active")
             => Answered(c) /\ reserved[answering] = epoch]_vars

\* Not so: a superseded answer stops its call (test_root_permission_queue.py:412: the late
\* callback "consumes exact answer before routing").  The card is gone, but the call is still
\* decided, and by rails that read the answer from the context of the call.
SupersededStops ==
    [][\A c \in Calls :
          (place[c] = "todo" /\ place'[c] = "deciding" /\ Answered(c))
             => reserved[answering] = epoch]_vars

\* The cards the user is shown are the very calls the core keeps with the keys of cards, and
\* no card beside them is live: an answer resumes what it says, and a cutover finds what it
\* discards.
ShownIsKept ==
    (continuation # {} /\ ~quarantined) =>
        ToSet(order) = continuation /\ Live(cards) = continuation

\* Every request that waits for the dispatch lock gets its turn, whatever fails before it
\* but one thing: a cancellation that is cut off before complete_cutover is called.
RequestsAreServed ==
    \A r \in Requests : (req[r].at = "waiting") ~>
        (req[r].at # "waiting" \/ \E s \in Requests : req[s].at = "torn")

\* Not so: the exception is needless.  The lock of a cancellation that is cut off is never
\* released, and whoever waits for it waits for ever.
EveryRequestIsServed ==
    \A r \in Requests : (req[r].at = "waiting") ~> (req[r].at # "waiting")

\* A quarantine can be ended (discard_continuation: "recover its queue"): when nothing is
\* going on, the cards a cutover would find are the core's continuation.
QuarantineIsCurable ==
    (quarantined /\ lock = None /\ round = "idle" /\ inputs = <<>>) =>
        LET rest == Live(cards) \ IF handoff = None THEN {} ELSE {req[handoff].card}
        IN  rest = {} \/ (rest = continuation /\ ~dirty)
=============================================================================
