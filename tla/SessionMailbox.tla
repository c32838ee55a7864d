--------------------------- MODULE SessionMailbox ---------------------------
(***************************************************************************)
(* The durable mailbox of one target session (SessionMessageStore in SQLite, *)
(* SessionMessageService in the agent server) and the workers that deliver   *)
(* from it.  Ordinary tasks run one at a time when the session is idle;      *)
(* steering reaches a session that is running.  The process may crash, stop  *)
(* and start again; a session may be deleted, or its deletion fail.          *)
(*                                                                          *)
(* A store call runs in a thread: its transaction is one step, and for the   *)
(* claim of a message its return to the worker is another, since a           *)
(* cancellation in between leaves the transaction behind.  Messages are      *)
(* numbered in the order of their rows.  Left out: owners, sources, chain    *)
(* and hop limits, contents, pushes of status, heartbeats, other targets.    *)
(***************************************************************************)
EXTENDS Integers, FiniteSets, FiniteSetsExt

CONSTANTS
    MaxMessages,   \* bound: messages sent to the target
    MaxPending,    \* messages of a target that may be outstanding
    MaxSteers,     \* bound: steers with a worker at a time
    MaxDisturbances  \* bound: turns of the user, mode switches, disconnections, deletions,
                   \*        stops, crashes and failed rechecks

ASSUME MailboxAssumption ==
    MaxMessages \in Nat /\ MaxPending \in Nat \ {0} /\ MaxSteers \in Nat \ {0}
    /\ MaxDisturbances \in Nat

Messages == 1..MaxMessages
Lanes == {"task", "steer"}
Workers == {<<"task", 1>>} \cup ({"steer"} \X (1..MaxSteers))
NoMessage == 0
NoWorker == <<"task", 0>>

VARIABLES
    status,        \* of each row; "none" before it is sent
    lane,          \* input_mode: where the row is queued
    asked,         \* requested_input_mode: where its sender wanted it
    released,      \* unknown rows that no longer hold up their lane
    worker,        \* each worker's place and row, and whether it was cancelled
    current,       \* lane -> the worker that takes new rows
    detached,      \* claims whose worker was cancelled before they returned
    admitted,      \* the worker whose task the session has admitted
    user,          \* the session's own user
    mustQueue,     \* a plan or goal makes steering wait like a task
    available,     \* a client is connected
    blocked,       \* the session is being deleted
    deleted,
    started,       \* of the service: "no", "recovering", "yes"
    stopping,
    held,          \* the queue waits for its user after a restart
    submissions,   \* history: how often each row was handed to the agent
    lost,          \* history: lanes whose recheck failed
    woken,         \* history: a failed deletion started workers before the service was started
    disturbances   \* how much of its bound is used

rows == <<status, lane, asked, released>>
delivery == <<worker, current, detached, admitted>>
around == <<user, mustQueue, available>>
service == <<blocked, deleted, started, stopping, held>>
history == <<submissions, lost, woken, disturbances>>
vars == <<rows, delivery, around, service, history>>

Gone == [pc |-> "gone", row |-> NoMessage, cancelled |-> FALSE]
Disturb == disturbances < MaxDisturbances /\ disturbances' = disturbances + 1

Places == {"gone", "idle", "leaving", "admit", "claim", "claimed", "submitted", "record",
           "defer", "abandon"}

Init ==
    /\ status = [m \in Messages |-> "none"]
    /\ lane = [m \in Messages |-> "task"] /\ asked = lane /\ released = {}
    /\ worker = [w \in Workers |-> Gone] /\ current = [l \in Lanes |-> NoWorker]
    /\ detached = {} /\ admitted = NoWorker
    /\ user = "away" /\ mustQueue = FALSE /\ available = FALSE
    /\ blocked = FALSE /\ deleted = FALSE /\ started = "no" /\ stopping = FALSE
    /\ held = FALSE
    /\ submissions = [m \in Messages |-> 0] /\ lost = {} /\ woken = FALSE /\ disturbances = 0

----------------------------------------------------------------------------
(* The store                                                                  *)

Unsettled(m, st, rel) == st[m] = "unknown" /\ m \notin rel
Queued(l, st, ln) == {m \in Messages : st[m] = "queued" /\ ln[m] = l}

\* Mutant: an unknown outcome holds up nothing.
BlockersButUnknown(l, st, ln, rel) ==
    {m \in Messages : ln[m] = l /\ (st[m] = "waiting" \/ (st[m] = "running" /\ l = "task"))}
\* What holds up a lane; a steer being delivered does not hold up the next one.
Blockers(l, st, ln, rel) ==
    {m \in Messages : ln[m] = l /\ \/ st[m] = "waiting"
                                   \/ st[m] = "running" /\ l = "task"
                                   \/ Unsettled(m, st, rel)}

\* next_queued
\* Mutant: the newest row first.
NewestFirst(l, ln) ==
    IF Blockers(l, status, ln, released) # {} \/ Queued(l, status, ln) = {} THEN NoMessage
    ELSE Max(Queued(l, status, ln))
Head(l, ln) ==
    IF Blockers(l, status, ln, released) # {} \/ Queued(l, status, ln) = {} THEN NoMessage
    ELSE Min(Queued(l, status, ln))

\* Its defer_steering: queued steers join the task lane, unless the lane is held up.
Joined ==
    IF \E m \in Messages : lane[m] = "steer"
                             /\ (status[m] = "waiting" \/ Unsettled(m, status, released))
      THEN lane
      ELSE [m \in Messages |-> IF status[m] = "queued" THEN "task" ELSE lane[m]]

Outstanding ==
    {m \in Messages : status[m] \in {"queued", "running", "waiting"}
                        \/ Unsettled(m, status, released)}

\* transition_status from one of the expected states.
Moved(m, to, expected) ==
    IF status[m] \in expected THEN [status EXCEPT ![m] = to] ELSE status
InFlight == {"running", "waiting"}

----------------------------------------------------------------------------
(* Starting workers                                                           *)

Free(l, ws) == {w \in Workers : w[1] = l /\ ws[w].pc = "gone"}
NewWorker(l, ws) == CHOOSE w \in Free(l, ws) : TRUE

\* _ensure_delivery_worker for each of the lanes, where the flags let it.
Ensure(lanes, ws, cur, block, hold) ==
    LET starts == IF stopping \/ block \/ hold THEN {}
                  ELSE {l \in lanes : cur[l] = NoWorker}
    IN  /\ \A l \in starts : Free(l, ws) # {}
        /\ worker' = [w \in Workers |->
                IF \E l \in starts : w = NewWorker(l, ws) THEN [Gone EXCEPT !.pc = "idle"] ELSE ws[w]]
        /\ current' = [l \in Lanes |-> IF l \in starts THEN NewWorker(l, ws) ELSE cur[l]]

\* Mutant: the hold of a restart is ignored.
EnsureThoughHeld == Ensure(Lanes, worker, current, blocked, FALSE)
EnsureBoth == Ensure(Lanes, worker, current, blocked, held)

----------------------------------------------------------------------------
(* One worker: _consume_target                                                *)

At(w, pc) == worker[w].pc = pc
Go(w, pc) == worker' = [worker EXCEPT ![w].pc = pc]
Rest(w) == worker' = [worker EXCEPT ![w] = [Gone EXCEPT !.pc = "idle"]]
GoWith(w, pc, m) == worker' = [worker EXCEPT ![w] = [Gone EXCEPT !.pc = pc, !.row = m]]
Released(w) == admitted' = IF admitted = w THEN NoWorker ELSE admitted
MayClaim == available /\ ~stopping /\ ~blocked

\* The top of the loop: the head of the lane.  A steer that must wait like a task is put
\* there before it is claimed.
Look(w) ==
    LET m == Head(w[1], lane)
    IN  /\ At(w, "idle") /\ available
        /\ IF m = NoMessage THEN Go(w, "leaving")
           ELSE IF w[1] = "task" THEN GoWith(w, "admit", m)
           ELSE IF mustQueue THEN GoWith(w, "defer", m)
           ELSE IF MayClaim THEN GoWith(w, "claim", m)
           ELSE UNCHANGED worker
        /\ UNCHANGED <<rows, current, detached, admitted, around, service, history>>

\* _session_message_can_begin: no other task, and no user at work or waiting.
\* Mutant: the session's user is forgotten.
CanBeginBesideUser == admitted = NoWorker
CanBegin == admitted = NoWorker /\ user = "away"

\* begin_session_message, and the look at the queue after it: the head may be another one by the time the task is admitted, and is looked up again.
Admit(w) ==
    LET ln == IF mustQueue THEN Joined ELSE lane
        m == Head("task", ln)
    IN  /\ At(w, "admit") /\ CanBegin
        /\ lane' = ln
        /\ IF m # NoMessage /\ MayClaim
             THEN GoWith(w, "claim", m) /\ admitted' = w
             ELSE Rest(w) /\ UNCHANGED admitted
        /\ UNCHANGED <<status, asked, released, current, detached, around, service,
                       history>>

\* claim, with the lane the worker expects; contention gives up before it.
Claimable(m, l) == status[m] = "queued" /\ lane[m] = l

Claim(w) ==
    /\ At(w, "claim")
    /\ \/ /\ Claimable(worker[w].row, w[1])
          /\ status' = [status EXCEPT ![worker[w].row] = "running"]
          /\ Go(w, "claimed") /\ UNCHANGED admitted
       \/ Rest(w) /\ Released(w) /\ UNCHANGED status
    /\ UNCHANGED <<lane, asked, released, current, detached, around, service, history>>

\* An exception before the claim has returned: the row that was looked up fails, if it is
\* still queued (ADMISSION_FAILED); or the worker ends with the exception, as it does where
\* the first look raises one.
FailEarly(w) ==
    /\ \/ /\ worker[w].pc \in {"admit", "claim"}
          /\ status' = Moved(worker[w].row, "ended", {"queued"})
          /\ Rest(w)
       \/ /\ worker[w].pc \in {"admit", "claim"} \/ (At(w, "idle") /\ available)
          /\ GoWith(w, "leaving", NoMessage) /\ UNCHANGED status
    /\ Released(w)
    /\ UNCHANGED <<lane, asked, released, current, detached, around, service, history>>

\* A claim that outlived its worker.
DetachedClaim(m, l) ==
    /\ <<m, l>> \in detached
    /\ detached' = detached \ {<<m, l>>}
    /\ status' = IF Claimable(m, l) THEN [status EXCEPT ![m] = "running"] ELSE status
    /\ UNCHANGED <<lane, asked, released, worker, current, admitted, around, service,
                   history>>

\* The claim has returned and the execution hands the message over.
Submit(w) ==
    /\ At(w, "claimed")
    /\ Go(w, "submitted")
    /\ submissions' = [submissions EXCEPT ![worker[w].row] = @ + 1]
    /\ UNCHANGED <<rows, current, detached, admitted, around, service, lost, woken,
                   disturbances>>

\* A question to the session's user: mark_waiting, before it is shown.
Ask(w) ==
    /\ At(w, "submitted") /\ status[worker[w].row] = "running"
    /\ status' = [status EXCEPT ![worker[w].row] = "waiting"]
    /\ UNCHANGED <<lane, asked, released, delivery, around, service, history>>

\* The session was idle: the steer starts a task of its own, and another worker takes
\* the lane (on_steering_fallback_started).
Fallback(w) ==
    /\ At(w, "submitted") /\ w[1] = "steer" /\ current["steer"] = w
    /\ Ensure({"steer"}, worker, [current EXCEPT !["steer"] = NoWorker], blocked, held)
    /\ UNCHANGED <<rows, detached, admitted, around, service, history>>

\* Mutant: a steer that was submitted may be refused, too.
RefusedLate(w) ==
    /\ worker[w].pc \in {"claimed", "submitted"} /\ w[1] = "steer"
    /\ Go(w, "defer")
    /\ UNCHANGED <<rows, current, detached, admitted, around, service, history>>

\* A steer refused before it was submitted.
Refused(w) ==
    /\ At(w, "claimed") /\ w[1] = "steer"
    /\ Go(w, "defer")
    /\ UNCHANGED <<rows, current, detached, admitted, around, service, history>>

\* After a turn of the loop: a worker that lost its lane to another one ends.
Loop(w) ==
    worker' = [worker EXCEPT ![w] =
                 [Gone EXCEPT !.pc = IF current[w[1]] = w THEN "idle" ELSE "leaving"]]

\* An execution ends with a result or an exception, and the result is stored; contention
\* makes it an unknown one.  When that cannot be stored either the worker ends with the
\* row as it is.
Finish(w) ==
    LET m == worker[w].row
    IN  /\ worker[w].pc \in {"claimed", "submitted"}
        /\ \/ /\ \/ \E to \in {"ended", "unknown"} : status' = Moved(m, to, InFlight)
                 \/ At(w, "submitted") /\ status[m] # "running" /\ UNCHANGED status
              /\ Loop(w)
           \/ GoWith(w, "leaving", NoMessage) /\ UNCHANGED status
        /\ Released(w)
        /\ UNCHANGED <<lane, asked, released, current, detached, around, service,
                       history>>

\* The watchdog releases the admission before the unknown outcome is stored.
Watchdog(w) ==
    /\ At(w, "submitted")
    /\ Go(w, "record")
    /\ Released(w)
    /\ UNCHANGED <<rows, current, detached, around, service, history>>
Record(w) ==
    /\ At(w, "record")
    /\ status' = Moved(worker[w].row, "unknown", InFlight)
    /\ Loop(w)
    /\ UNCHANGED <<lane, asked, released, current, detached, admitted, around, service,
                   history>>

\* defer_steering, shielded from cancellation, and the workers it needs.
Deferred(m) == lane[m] = "steer" /\ status[m] \in {"queued", "running"}
Defer(w) ==
    LET m == worker[w].row
        after == [worker EXCEPT ![w] =
                   [Gone EXCEPT !.pc = IF worker[w].cancelled THEN "gone" ELSE "idle"]]
    IN  /\ At(w, "defer")
        /\ status' = IF Deferred(m) THEN [status EXCEPT ![m] = "queued"] ELSE status
        /\ lane' = IF Deferred(m) THEN [lane EXCEPT ![m] = "task"] ELSE lane
        /\ IF Deferred(m) THEN Ensure(Lanes, after, current, blocked, held)
           ELSE worker' = after /\ UNCHANGED current
        /\ UNCHANGED <<asked, released, detached, admitted, around, service, history>>

\* The handler of a cancelled execution: its result, had it been on its way, or unknown;
\* when that cannot be stored the worker ends with an exception, like any other.
Abandon(w) ==
    /\ At(w, "abandon")
    /\ \/ /\ \E to \in {"ended", "unknown"} : status' = Moved(worker[w].row, to, InFlight)
          /\ worker' = [worker EXCEPT ![w] = Gone]
       \/ GoWith(w, "leaving", NoMessage) /\ UNCHANGED status
    /\ Released(w)
    /\ UNCHANGED <<lane, asked, released, current, detached, around, service, history>>

\* Mutant: the queue is not looked at again.
NothingLeft(l) == {}
LeftBehind(l) == IF Head(l, lane) # NoMessage THEN {l} ELSE {}

\* A worker returns (_worker_finished) and the queue of its lane is looked at once more
\* (_restart_worker_if_queued); an error of the store in that look is logged, and that is
\* all.  A message sent between the two starts a worker itself, so they are one step.
Leave(w) ==
    LET l == w[1]
        ended == [worker EXCEPT ![w] = Gone]
        cur == IF current[l] = w THEN [current EXCEPT ![l] = NoWorker] ELSE current
    IN  /\ At(w, "leaving")
        /\ \/ /\ Ensure(LeftBehind(l), ended, cur, blocked, held)
              /\ UNCHANGED <<lost, disturbances>>
           \/ /\ Disturb
              /\ lost' = lost \cup {l} /\ worker' = ended /\ current' = cur
        /\ UNCHANGED <<rows, detached, admitted, around, service, submissions, woken>>

----------------------------------------------------------------------------
(* Senders, the session's user, the client                                    *)

Count == Cardinality({m \in Messages : status[m] # "none"})

\* send_message: a new row, or a retry whose key is known.
Send(want) ==
    /\ started = "yes" /\ ~blocked /\ ~deleted /\ Count < MaxMessages
    /\ Cardinality(Outstanding) < MaxPending
    /\ status' = [status EXCEPT ![Count + 1] = "queued"]
    /\ asked' = [asked EXCEPT ![Count + 1] = want]
    /\ lane' = [lane EXCEPT ![Count + 1] = IF mustQueue THEN "task" ELSE want]
    /\ EnsureBoth
    /\ UNCHANGED <<released, detached, admitted, around, service, history>>

\* The user of the session answers the question: the row gets its result.
Answer(m, out) ==
    /\ started = "yes" /\ status[m] = "waiting"
    /\ status' = [status EXCEPT ![m] = out]
    /\ EnsureBoth
    /\ UNCHANGED <<lane, asked, released, detached, admitted, around, service, history>>

\* A plain turn of the user passes over the questions: supersede_waiting_for_target.
Supersede ==
    /\ started = "yes" /\ user = "active"
    /\ \E m \in Messages : status[m] = "waiting"
    /\ status' = [m \in Messages |-> IF status[m] = "waiting" THEN "ended" ELSE status[m]]
    /\ EnsureBoth
    /\ UNCHANGED <<lane, asked, released, detached, admitted, around, service, history>>

\* resolve_unknown: the user tells the outcome or lets the queue go on.
Resolve(m) ==
    /\ started = "yes" /\ status[m] = "unknown"
    /\ \/ status' = [status EXCEPT ![m] = "ended"] /\ UNCHANGED released
       \/ released' = released \cup {m} /\ UNCHANGED status
    /\ held' = FALSE
    /\ Ensure(Lanes, worker, current, blocked, FALSE)
    /\ UNCHANGED <<lane, asked, detached, admitted, around, blocked, deleted, started,
                   stopping, history>>

\* continue_queued_for_target: unknown rows of the lanes that have queued ones step aside.
Continue ==
    /\ started = "yes" /\ ~deleted
    /\ released' = released \cup {m \in Messages : status[m] = "unknown"
                                                    /\ Queued(lane[m], status, lane) # {}}
    /\ held' = FALSE
    /\ Ensure(Lanes, worker, current, blocked, FALSE)
    /\ UNCHANGED <<status, lane, asked, detached, admitted, around, blocked, deleted,
                   started, stopping, history>>

\* A user waits until no task is admitted, and then works.
User ==
    /\ \/ user = "away" /\ user' = "waiting" /\ Disturb
       \/ user = "waiting" /\ admitted = NoWorker /\ user' = "active" /\ UNCHANGED disturbances
       \/ user = "active" /\ user' = "away" /\ UNCHANGED disturbances
    /\ UNCHANGED <<rows, delivery, mustQueue, available, service, submissions, lost, woken>>

SwitchMode ==
    /\ mustQueue' = ~mustQueue
    /\ Disturb
    /\ UNCHANGED <<rows, delivery, user, available, service, submissions, lost, woken>>

\* A client connects (set_available, once the service is started) or goes away.
Connect ==
    /\ ~available /\ available' = TRUE
    /\ UNCHANGED <<rows, delivery, user, mustQueue, service, history>>
WakeQueued ==
    /\ available /\ started = "yes"
    /\ \E m \in Messages : status[m] = "queued"
    /\ EnsureBoth
    /\ UNCHANGED <<rows, detached, admitted, around, service, history>>
Disconnect ==
    /\ available /\ available' = FALSE
    /\ Disturb
    /\ UNCHANGED <<rows, delivery, user, mustQueue, service, submissions, lost, woken>>

----------------------------------------------------------------------------
(* Deletion, stop, start and crash                                            *)

Executing == {"submitted", "record", "abandon"}
CancelledPlace(w, returned) ==
    IF worker[w].pc \in Executing \/ w \in returned THEN [worker[w] EXCEPT !.pc = "abandon"]
    ELSE IF At(w, "defer") THEN [worker[w] EXCEPT !.cancelled = TRUE]
    ELSE Gone

\* Every worker is cancelled.  An execution reports first; a claim whose return the worker
\* has not seen, or that is still to be made, is left behind.
CancelWorkers ==
    \E returned \in SUBSET {w \in Workers : At(w, "claimed")} :
        /\ worker' = [w \in Workers |-> CancelledPlace(w, returned)]
        /\ current' = [l \in Lanes |-> NoWorker]
        /\ detached' = detached \cup {<<worker[w].row, w[1]>> : w \in {v \in Workers : At(v, "claim")}}
        /\ admitted' = IF admitted # NoWorker /\ (worker[admitted].pc \in Executing \/ admitted \in returned)
                         THEN admitted ELSE NoWorker

AllGone == \A w \in Workers : At(w, "gone")

BeginDelete ==
    /\ ~blocked /\ ~deleted
    /\ blocked' = TRUE
    /\ CancelWorkers /\ Disturb
    /\ UNCHANGED <<rows, around, deleted, started, stopping, held, submissions, lost,
                   woken>>

\* abort_target_delete: the deletion failed.  It has waited for its workers even when it
\* was cancelled; after a restart it may have been repeated before the mailbox starts.
AbortDelete ==
    /\ blocked /\ AllGone
    /\ blocked' = FALSE
    /\ Ensure(Lanes, worker, current, FALSE, held)
    /\ woken' = (woken \/ (started # "yes" /\ worker' # worker))
    /\ UNCHANGED <<rows, detached, admitted, around, deleted, started, stopping, held,
                   submissions, lost, disturbances>>

\* on_target_deleted: what has no result is cancelled.
\* Mutant: what is running is left alone.
CancellableAtRest == {"queued", "waiting", "unknown"}
Cancellable == {"queued", "running", "waiting", "unknown"}
Deleted ==
    /\ blocked /\ started = "yes" /\ AllGone
    /\ deleted' = TRUE /\ blocked' = FALSE
    /\ status' = [m \in Messages |-> IF status[m] \in Cancellable THEN "ended" ELSE status[m]]
    /\ UNCHANGED <<lane, asked, released, delivery, around, started, stopping, held, history>>

Stop ==
    /\ started = "yes" /\ ~stopping
    /\ stopping' = TRUE
    /\ CancelWorkers /\ Disturb
    /\ UNCHANGED <<rows, around, blocked, deleted, started, held, submissions, lost, woken>>
Stopped ==
    /\ started = "yes" /\ stopping /\ AllGone
    /\ started' = "no" /\ held' = FALSE /\ woken' = FALSE
    /\ UNCHANGED <<rows, delivery, around, blocked, deleted, stopping, submissions, lost,
                   disturbances>>

\* start: what was in flight becomes unknown, then a target with queued rows is held.
Recover ==
    /\ started = "no"
    /\ started' = "recovering"
    /\ status' = [m \in Messages |-> IF status[m] \in InFlight THEN "unknown" ELSE status[m]]
    /\ UNCHANGED <<lane, asked, released, delivery, around, blocked, deleted, stopping, held, history>>
Start ==
    /\ started = "recovering"
    /\ started' = "yes" /\ stopping' = FALSE
    /\ held' = \E m \in Messages : status[m] = "queued"
    /\ UNCHANGED <<rows, delivery, around, blocked, deleted, history>>

\* The process dies; only the rows survive.
Crash ==
    /\ worker' = [w \in Workers |-> Gone] /\ current' = [l \in Lanes |-> NoWorker]
    /\ detached' = {} /\ admitted' = NoWorker
    /\ user' = "away" /\ mustQueue' = FALSE /\ available' = FALSE
    /\ blocked' = FALSE /\ started' = "no" /\ stopping' = FALSE /\ held' = FALSE
    /\ lost' = {} /\ woken' = FALSE /\ Disturb
    /\ UNCHANGED <<rows, deleted, submissions>>

Deliver(w) ==
    \/ Look(w) \/ Admit(w) \/ Claim(w) \/ FailEarly(w) \/ Submit(w) \/ Ask(w) \/ Fallback(w) \/ Refused(w)
    \/ Finish(w) \/ Watchdog(w) \/ Record(w) \/ Defer(w) \/ Abandon(w) \/ Leave(w)

Next ==
    \/ \E w \in Workers : Deliver(w)
    \/ \E l \in Lanes : Send(l)
    \/ \E m \in Messages, l \in Lanes : DetachedClaim(m, l)
    \/ \E m \in Messages : Resolve(m) \/ \E out \in {"ended", "unknown"} : Answer(m, out)
    \/ Supersede \/ Continue \/ User \/ SwitchMode \/ Connect \/ WakeQueued \/ Disconnect
    \/ BeginDelete \/ AbortDelete \/ Deleted \/ Stop \/ Stopped \/ Recover \/ Start \/ Crash

Spec == Init /\ [][Next]_vars

----------------------------------------------------------------------------
(* Properties                                                                 *)

\* Every variable holds a value of its kind.
TypeOK ==
    /\ status \in [Messages -> {"none", "queued", "running", "waiting", "unknown", "ended"}]
    /\ lane \in [Messages -> Lanes] /\ asked \in [Messages -> Lanes]
    /\ released \subseteq Messages /\ lost \subseteq Lanes
    /\ worker \in [Workers -> [pc : Places, row : Messages \cup {NoMessage},
                               cancelled : BOOLEAN]]
    /\ current \in [Lanes -> Workers \cup {NoWorker}]
    /\ admitted \in Workers \cup {NoWorker}
    /\ detached \subseteq Messages \X Lanes
    /\ user \in {"away", "waiting", "active"} /\ started \in {"no", "recovering", "yes"}
    /\ {mustQueue, available, blocked, deleted, stopping, held, woken} \subseteq BOOLEAN
    /\ submissions \in [Messages -> Nat]

\* A message is handed to the agent at most once, whatever crashes, restarts, refusals,
\* deferrals, cancellations and retries come between (claim, defer_steering,
\* recover_inflight_as_unknown).
AtMostOnce == \A m \in Messages : submissions[m] <= 1

InHand == {"claimed", "submitted"}

\* An ordinary task that was handed over runs alone: it holds the session's admission,
\* no other task does, and the session's own user is not at work (begin_session_message,
\* begin_user).
TasksRunAlone ==
    \A w \in Workers : w[1] = "task" /\ worker[w].pc \in InHand => admitted = w /\ user # "active"

\* While a task waits for its user, or its outcome is unknown and nobody has let the
\* queue go on, no other task is claimed (next_queued, looked at again once admitted),
\* except by workers that ran before the restart was recovered from: those a failed
\* deletion started (abort_target_delete).
UncertaintyBlocks ==
    [][\A w \in Workers :
         w[1] = "task" /\ At(w, "claim") /\ worker'[w].pc = "claimed"
           => woken \/ \A b \in Messages :
                ~(lane[b] = "task" /\ (status[b] = "waiting" \/ Unsettled(b, status, released)))]_vars

\* Messages sent as tasks are handed over in the order they were sent.
TasksKeepTheirOrder ==
    [][\A m \in Messages :
         asked[m] = "task" /\ submissions'[m] > submissions[m]
           => \A b \in 1..(m - 1) : ~(asked[b] = "task" /\ status[b] = "queued")]_vars

\* A message of the head of a lane is never forgotten: somebody takes the lane's rows or
\* will look at its queue again (_worker_finished, _restart_worker_if_queued); only a
\* failure of the store in that look leaves the queue to the next event.
WakeupNotLost ==
    \A l \in Lanes :
        started = "yes" /\ ~stopping /\ ~blocked /\ ~held /\ Head(l, lane) # NoMessage
          => \/ current[l] # NoWorker \/ l \in lost
             \/ \E w \in Workers : w[1] = l /\ At(w, "leaving")

\* A deleted session gets nothing more: no row of it is outstanding, nobody works on one
\* (begin_target_delete, on_target_deleted).
DeletedIsQuiet ==
    deleted => /\ Outstanding = {}
               /\ \A w \in Workers : worker[w].pc \notin InHand

\* What a restart found queued waits for its user: as long as the target is held no
\* worker hands over from it, unless a deletion repeated before the service was started
\* has failed and woken the queue (start, abort_target_delete).
HeldIsHeld == held => woken \/ \A w \in Workers : worker[w].pc \notin InHand

\* The design (cross-session-agent-messaging-design.md:283) has consumers start only after
\* the recovery, so that what a restart found queued waits for its user without exception.
HeldWithoutException == held => \A w \in Workers : worker[w].pc \notin InHand

\* A deletion that fails resumes the queue (docstring of abort_target_delete): it leaves no
\* task marked as running that nobody works on, behind which the others would wait.
AbortResumes ==
    [][blocked /\ ~blocked' /\ ~deleted'
         => \A m \in Messages : ~(lane[m] = "task" /\ status[m] = "running")]_vars
=============================================================================
