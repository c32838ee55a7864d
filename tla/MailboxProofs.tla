--------------------------- MODULE MailboxProofs ---------------------------
(***************************************************************************)
(* SessionMailbox for any number of messages, workers and disturbances: a   *)
(* message is handed to the agent at most once, tasks run alone and in their *)
(* order, none is claimed past an uncertain one, no wake-up is lost, and a  *)
(* deleted or held session is left in peace.                                *)
(*                                                                         *)
(* The argument: a message is queued only while it has not been handed over *)
(* and nobody is about to (Once, HandsDiffer), and it goes back to the queue *)
(* only by a steer's deferral, which must not meet another worker that has  *)
(* claimed the same row meanwhile (DeferredIsFree).  It cannot, because a    *)
(* lane has one worker that takes rows, the current one, until it has handed *)
(* its row over (OneTaker); cancelled workers end before others begin.       *)
(* That tasks run alone (Alone) rests on the admission only.                 *)
(*                                                                         *)
(* The rest rests on where a step can take a worker and its row (Transition, *)
(* Relaned, Restated): from there on each property has an invariant of its   *)
(* own, Buried, Dormant, Awake, Ordered and Clear.                           *)
(***************************************************************************)
EXTENDS SessionMailbox, TLAPS, FiniteSetTheorems, WellFoundedInduction

Statuses == {"none", "queued", "running", "waiting", "unknown", "ended"}
Taking == {"idle", "admit", "claim", "claimed", "defer"}

Worker == [pc : Places, row : Messages \cup {NoMessage}, cancelled : BOOLEAN]
Typed ==
    /\ status \in [Messages -> Statuses] /\ lane \in [Messages -> Lanes]
    /\ submissions \in [Messages -> Nat]
    /\ worker \in [Workers -> Worker]
    /\ current \in [Lanes -> Workers \cup {NoWorker}]
    /\ \A w \in Workers : worker[w].pc \in {"claim", "claimed", "defer", "submitted", "record", "abandon"}
                             => worker[w].row \in Messages

\* The rows are numbered without gaps.
RowsInOrder == \E n \in 0..MaxMessages : \A m \in Messages : status[m] = "none" <=> m > n

\* What is queued, or not sent yet, has not been handed over.
Once == \A m \in Messages :
    /\ submissions[m] \in {0, 1}
    /\ status[m] \in {"none", "queued"} => submissions[m] = 0

\* A claimed row has not been handed over, is not in the queue, and is in one hand.
HandsDiffer ==
    \A w \in Workers : worker[w].pc = "claimed" =>
        /\ submissions[worker[w].row] = 0
        /\ status[worker[w].row] \notin {"none", "queued"}
        /\ \A v \in Workers : worker[v].pc = "claimed" /\ v # w => worker[v].row # worker[w].row

\* A row that is about to be deferred has not been handed over and is in no other hand.
DeferredIsFree ==
    \A w \in Workers : worker[w].pc = "defer" =>
        /\ w[1] = "steer"
        /\ Deferred(worker[w].row) =>
             /\ submissions[worker[w].row] = 0
             /\ \A v \in Workers : worker[v].pc = "claimed" => worker[v].row # worker[w].row

\* While somebody is being cancelled nobody takes rows.
Ending == blocked \/ (stopping /\ started = "yes")

\* A lane has one worker that takes rows.
Takers(ws, cur) ==
    \A w \in Workers :
        IF ws[w].cancelled
          THEN ws[w].pc = "defer" /\ \A l \in Lanes : cur[l] = NoWorker
          ELSE ws[w].pc \in Taking => cur[w[1]] = w
OneTaker == Takers(worker, current) /\ \A w \in Workers : worker[w].cancelled => Ending

IInv == Typed /\ RowsInOrder /\ Once /\ HandsDiffer /\ DeferredIsFree /\ OneTaker

----------------------------------------------------------------------------
\* A worker is somebody, of one of the lanes.
LEMMA WorkersAreSomebody ==
  \A w \in Workers : w # NoWorker /\ w[1] \in Lanes
BY DEF Workers, NoWorker, Lanes

\* A new worker is one that is gone.
LEMMA NewOnes ==
  ASSUME NEW l \in Lanes, NEW ws, Free(l, ws) # {}
  PROVE  /\ NewWorker(l, ws) \in Workers /\ NewWorker(l, ws)[1] = l
         /\ ws[NewWorker(l, ws)].pc = "gone"
BY DEF NewWorker, Free

\* Min of a set of numbers is the smallest of them.
LEMMA Smallest ==
  ASSUME NEW S \in SUBSET Nat, S # {}
  PROVE  Min(S) \in S /\ \A y \in S : Min(S) <= y
<1>1. PICK x \in S : \A y \in S : ~(<<y, x>> \in OpToRel(<, Nat))
  BY NatLessThanWellFounded, WFMin
<1>2. \A y \in S : x <= y
  <2> SUFFICES ASSUME NEW y \in S PROVE x <= y
    OBVIOUS
  <2>1. ~(y < x)
    BY <1>1, Zenon DEF OpToRel
  <2> QED BY <2>1
<1> QED BY <1>2 DEF Min

\* The head of a lane is one of its queued rows.
LEMMA HeadIsQueued ==
  ASSUME NEW l, NEW ln, Head(l, ln) # NoMessage
  PROVE  Head(l, ln) \in Queued(l, status, ln)
<1>1. Queued(l, status, ln) \in SUBSET Nat /\ Queued(l, status, ln) # {}
  BY DEF Head, Queued, Messages
<1> QED BY <1>1, Smallest DEF Head

\* Starting workers: only idle ones are new, each the current one of its lane.
LEMMA Started ==
  ASSUME NEW lanes \in SUBSET Lanes, NEW ws \in [Workers -> Worker],
         NEW cur \in [Lanes -> Workers \cup {NoWorker}], NEW block, NEW hold,
         Ensure(lanes, ws, cur, block, hold)
  PROVE  /\ worker' \in [Workers -> Worker] /\ current' \in [Lanes -> Workers \cup {NoWorker}]
         /\ \A w \in Workers : worker'[w] = ws[w]
              \/ /\ worker'[w].pc = "idle" /\ worker'[w].row = NoMessage /\ ~worker'[w].cancelled
                 /\ ws[w].pc = "gone"
         /\ Takers(ws, cur) /\ (stopping \/ block \/ \A w \in Workers : ~ws[w].cancelled)
              => Takers(worker', current')
<1> DEFINE starts == IF stopping \/ block \/ hold THEN {} ELSE {l \in lanes : cur[l] = NoWorker}
           new(l) == NewWorker(l, ws)
           idle == [Gone EXCEPT !.pc = "idle"]
<1>1. \A l \in starts : new(l) \in Workers /\ new(l)[1] = l /\ ws[new(l)].pc = "gone"
  BY NewOnes DEF Ensure
<1>2. idle \in Worker /\ idle.pc = "idle" /\ idle.row = NoMessage /\ ~idle.cancelled
  BY DEF Gone, Worker, Places
<1>3. /\ worker' = [w \in Workers |-> IF \E l \in starts : w = new(l) THEN idle ELSE ws[w]]
      /\ current' = [l \in Lanes |-> IF l \in starts THEN new(l) ELSE cur[l]]
  BY DEF Ensure
<1> HIDE DEF starts, new, idle
<1>4. worker' \in [Workers -> Worker] /\ current' \in [Lanes -> Workers \cup {NoWorker}]
  <2>1. starts \in SUBSET Lanes
    BY DEF starts
  <2> QED BY <1>1, <1>2, <1>3, <2>1
<1>5. ASSUME NEW w \in Workers
      PROVE  worker'[w] = ws[w] \/ (worker'[w] = idle /\ ws[w].pc = "gone")
  BY <1>1, <1>3
<1>6. ASSUME Takers(ws, cur), stopping \/ block \/ \A w \in Workers : ~ws[w].cancelled,
             NEW w \in Workers
      PROVE  IF worker'[w].cancelled
               THEN worker'[w].pc = "defer" /\ \A l \in Lanes : current'[l] = NoWorker
               ELSE worker'[w].pc \in Taking => current'[w[1]] = w
  <2>1. CASE starts = {}
    BY <2>1, <1>3, <1>6, WorkersAreSomebody DEF Takers
  <2>2. CASE starts # {}
    <3>1. \A v \in Workers : ~ws[v].cancelled
      BY <2>2, <1>6 DEF starts
    <3>2. CASE \E l \in starts : w = new(l)
      BY <3>2, <1>1, <1>2, <1>3, WorkersAreSomebody
    <3>3. CASE ~\E l \in starts : w = new(l)
      <4>1. worker'[w] = ws[w]
        BY <3>3, <1>3
      <4>2. ws[w].pc \in Taking => w[1] \notin starts
        BY <1>6, <3>1, WorkersAreSomebody DEF Takers, starts
      <4> QED BY <4>1, <4>2, <3>1, <1>3, <1>6, WorkersAreSomebody DEF Takers
    <3> QED BY <3>2, <3>3
  <2> QED BY <2>1, <2>2
<1> QED BY <1>2, <1>4, <1>5, <1>6 DEF Takers

\* The inductive invariant holds when the program starts: no row, no worker.
THEOREM Initially == Init => IInv
<1> SUFFICES ASSUME Init PROVE IInv
  OBVIOUS
<1> USE DEF Init, Gone
<1>1. Typed
  BY MailboxAssumption, WorkersAreSomebody DEF Typed, Worker, Statuses, Messages, Lanes, Places
<1>2. RowsInOrder
  <2>1. 0 \in 0..MaxMessages /\ \A m \in Messages : status[m] = "none" <=> m > 0
    BY MailboxAssumption DEF Messages
  <2> QED BY <2>1 DEF RowsInOrder
<1>3. Once /\ HandsDiffer /\ DeferredIsFree
  BY DEF Once, HandsDiffer, DeferredIsFree
<1>4. OneTaker
  BY DEF OneTaker, Takers, Taking
<1> QED BY <1>1, <1>2, <1>3, <1>4 DEF IInv

----------------------------------------------------------------------------
\* Nothing is put back into the queue, or into the lane of steers.
CalmRows ==
    /\ \A m \in Messages :
         \/ status'[m] = status[m]
         \/ status[m] # "none" /\ status'[m] \notin {"none", "queued", "running"}
         \/ status[m] = "queued" /\ status'[m] = "running"
    /\ \A m \in Messages : lane'[m] = lane[m] \/ lane'[m] = "task"

\* A step that puts nobody into a claimed or a deferring place and hands
\* nothing over.
Calm ==
    /\ submissions' = submissions
    /\ \A w \in Workers : worker'[w].pc \in {"claimed", "defer"} =>
           worker'[w].pc = worker[w].pc /\ worker'[w].row = worker[w].row
    /\ CalmRows

RowFacts == RowsInOrder /\ Once /\ HandsDiffer /\ DeferredIsFree

\* A calm step keeps what is said of the rows.
LEMMA CalmSteps ==
  ASSUME IInv, Calm
  PROVE  RowFacts'
<1> USE DEF IInv, Calm, CalmRows
<1>1. RowsInOrder'
  <2>1. PICK n \in 0..MaxMessages : \A m \in Messages : status[m] = "none" <=> m > n
    BY DEF RowsInOrder
  <2>2. \A m \in Messages : status'[m] = "none" <=> m > n
    BY <2>1
  <2> QED BY <2>2 DEF RowsInOrder
<1>2. Once'
  BY DEF Once
<1>3. HandsDiffer'
  BY DEF HandsDiffer, Typed
<1>4. DeferredIsFree'
  <2> SUFFICES ASSUME NEW w \in Workers, worker'[w].pc = "defer"
               PROVE  /\ w[1] = "steer"
                      /\ Deferred(worker[w].row)' =>
                           /\ submissions'[worker'[w].row] = 0
                           /\ \A v \in Workers : worker'[v].pc = "claimed" => worker'[v].row # worker'[w].row
    BY DEF DeferredIsFree
  <2>1. worker[w].pc = "defer" /\ worker'[w].row = worker[w].row /\ worker[w].row \in Messages
    BY DEF Typed
  <2>2. Deferred(worker[w].row)' => Deferred(worker[w].row)
    BY <2>1 DEF Deferred
  <2> QED BY <2>1, <2>2 DEF DeferredIsFree
<1> QED BY <1>1, <1>2, <1>3, <1>4 DEF RowFacts

----------------------------------------------------------------------------
(* The steps of a worker                                                      *)

\* One worker goes to a place where it takes no rows, or goes on taking them.
LEMMA OneMoves ==
  ASSUME IInv, NEW w \in Workers, NEW r \in Worker, ~r.cancelled,
         worker' = [worker EXCEPT ![w] = r], UNCHANGED current,
         r.pc \in Taking => ~worker[w].cancelled /\ current[w[1]] = w,
         Ending => Ending'
  PROVE  OneTaker'
<1>1. Takers(worker', current')
  BY DEF IInv, OneTaker, Takers, Typed
<1>2. \A v \in Workers : worker'[v].cancelled => worker[v].cancelled
  BY DEF IInv, Typed
<1> QED BY <1>1, <1>2 DEF IInv, OneTaker, Takers

\* The worker becomes the record.
Becomes(w, r) == worker' = [worker EXCEPT ![w] = r]

\* Go, GoWith, Rest and Loop, as the record the worker becomes.
LEMMA Moves ==
  ASSUME Typed, NEW w \in Workers, NEW p \in Places
  PROVE  /\ worker[w] \in Worker
         /\ Go(w, p) => \E r \in Worker : Becomes(w, r) /\ r.pc = p /\ r.row = worker[w].row
                                           /\ r.cancelled = worker[w].cancelled
         /\ \A m \in Messages \cup {NoMessage} : GoWith(w, p, m) =>
              \E r \in Worker : Becomes(w, r) /\ r.pc = p /\ r.row = m /\ ~r.cancelled
         /\ Rest(w) => \E r \in Worker : Becomes(w, r) /\ r.pc = "idle" /\ ~r.cancelled
         /\ Loop(w) => \E r \in Worker : Becomes(w, r) /\ ~r.cancelled
              /\ (r.pc = "leaving" \/ (r.pc = "idle" /\ current[w[1]] = w))
<1> USE DEF Becomes, Worker
<1>1. worker[w] \in Worker /\ worker \in [Workers -> Worker]
  BY DEF Typed
<1>2. Go(w, p) => \E r \in Worker : Becomes(w, r) /\ r.pc = p /\ r.row = worker[w].row
                                     /\ r.cancelled = worker[w].cancelled
  <2> DEFINE r == [worker[w] EXCEPT !.pc = p]
  <2>1. r \in Worker /\ r.pc = p /\ r.row = worker[w].row /\ r.cancelled = worker[w].cancelled
    BY <1>1
  <2>2. Go(w, p) => Becomes(w, r)
    BY <1>1 DEF Go
  <2> QED BY <2>1, <2>2
<1>3. ASSUME NEW m \in Messages \cup {NoMessage}, GoWith(w, p, m)
      PROVE  \E r \in Worker : Becomes(w, r) /\ r.pc = p /\ r.row = m /\ ~r.cancelled
  <2> DEFINE r == [Gone EXCEPT !.pc = p, !.row = m]
  <2>1. r \in Worker /\ r.pc = p /\ r.row = m /\ ~r.cancelled
    BY DEF Gone
  <2> QED BY <2>1, <1>3 DEF GoWith
<1>4. \A q \in Places : [Gone EXCEPT !.pc = q] \in Worker /\ [Gone EXCEPT !.pc = q].pc = q
                           /\ ~[Gone EXCEPT !.pc = q].cancelled
  BY DEF Gone
<1>5. {"idle", "leaving"} \subseteq Places
  BY DEF Places
<1>6. Rest(w) => \E r \in Worker : Becomes(w, r) /\ r.pc = "idle" /\ ~r.cancelled
  BY <1>4, <1>5 DEF Rest
<1>7. ASSUME Loop(w)
      PROVE  \E r \in Worker : Becomes(w, r) /\ ~r.cancelled
                /\ (r.pc = "leaving" \/ (r.pc = "idle" /\ current[w[1]] = w))
  <2>1. CASE current[w[1]] = w
    BY <2>1, <1>4, <1>5, <1>7 DEF Loop
  <2>2. CASE current[w[1]] # w
    <3> DEFINE r == [Gone EXCEPT !.pc = "leaving"]
    <3>1. Becomes(w, r)
      BY <2>2, <1>7 DEF Loop
    <3>2. r \in Worker /\ ~r.cancelled /\ r.pc = "leaving"
      BY <1>4, <1>5
    <3> HIDE DEF r
    <3> QED BY <3>1, <3>2, Zenon
  <2> QED BY <2>1, <2>2
<1> QED BY <1>1, <1>2, <1>3, <1>6, <1>7

\* The places of a worker's row.
OfRow == {"claim", "claimed", "defer", "submitted", "record", "abandon"}

\* A worker that moves calmly.
LEMMA CalmMove ==
  ASSUME IInv, NEW w \in Workers, NEW r \in Worker, ~r.cancelled, Becomes(w, r),
         r.pc \in OfRow => r.row \in Messages, r.pc \notin {"claimed", "defer"},
         UNCHANGED <<current, submissions>>,
         status' \in [Messages -> Statuses], lane' \in [Messages -> Lanes],
         r.pc \in Taking => ~worker[w].cancelled /\ current[w[1]] = w,
         Ending => Ending',
         CalmRows
  PROVE  IInv'
<1>1. Typed'
  BY DEF IInv, Typed, Becomes, OfRow
<1>2. Calm
  BY DEF Calm, IInv, Typed, Becomes
<1>3. OneTaker'
  BY OneMoves DEF Becomes
<1> QED BY <1>1, <1>2, <1>3, CalmSteps DEF IInv, RowFacts

\* The top of the loop (_consume_target) keeps the invariant.
LEMMA LookStep ==
  ASSUME IInv, NEW w \in Workers, Look(w)
  PROVE  IInv'
<1> DEFINE m == Head(w[1], lane)
<1>1. worker[w].pc = "idle" /\ ~worker[w].cancelled /\ current[w[1]] = w
  BY DEF Look, At, IInv, OneTaker, Takers, Taking
<1>2. m # NoMessage => m \in Messages /\ status[m] = "queued" /\ lane[m] = w[1]
  BY HeadIsQueued DEF Queued
<1>3. UNCHANGED <<rows, current, submissions, blocked, stopping, started>>
  BY DEF Look, service, history
<1>4. status' = status /\ lane' = lane /\ (Ending => Ending') /\ Typed
  BY <1>3 DEF rows, Ending, IInv
<1>11. CalmRows
  BY <1>4 DEF CalmRows
<1>5. /\ status' \in [Messages -> Statuses] /\ lane' \in [Messages -> Lanes]
      /\ m \in Messages \cup {NoMessage}
  BY <1>2, <1>4 DEF Typed
<1>6. CASE m = NoMessage /\ Go(w, "leaving")
  <2>1. PICK r \in Worker : Becomes(w, r) /\ r.pc = "leaving" /\ ~r.cancelled
    BY <1>1, <1>4, <1>6, Moves DEF Places
  <2> QED BY <2>1, <1>3, <1>4, <1>5, <1>11, CalmMove DEF OfRow, Taking
<1>7. CASE GoWith(w, "admit", m)
  <2>1. PICK r \in Worker : Becomes(w, r) /\ r.pc = "admit" /\ ~r.cancelled
    BY <1>4, <1>5, <1>7, Moves DEF Places
  <2> QED BY <2>1, <1>1, <1>3, <1>4, <1>5, <1>11, CalmMove DEF OfRow
<1>8. CASE m # NoMessage /\ GoWith(w, "claim", m)
  <2>1. PICK r \in Worker : Becomes(w, r) /\ r.pc = "claim" /\ r.row = m /\ ~r.cancelled
    BY <1>4, <1>5, <1>8, Moves DEF Places
  <2> QED BY <2>1, <1>1, <1>2, <1>3, <1>4, <1>5, <1>8, <1>11, CalmMove
<1>9. CASE m # NoMessage /\ w[1] # "task" /\ GoWith(w, "defer", m)
  <2>1. PICK r \in Worker : Becomes(w, r) /\ r.pc = "defer" /\ r.row = m /\ ~r.cancelled
    BY <1>4, <1>5, <1>9, Moves DEF Places
  <2>2. Typed'
    BY <2>1, <1>2, <1>3, <1>4, <1>9 DEF Typed, Becomes
  <2>3. OneTaker'
    BY <2>1, <1>1, <1>3, <1>4, OneMoves DEF Becomes
  <2>4. RowsInOrder' /\ Once'
    BY <1>3, <1>4 DEF IInv, RowsInOrder, Once
  <2>5. HandsDiffer'
    BY <2>1, <1>3, <1>4 DEF IInv, HandsDiffer, Becomes, Typed
  <2>6. DeferredIsFree'
    BY <2>1, <1>2, <1>3, <1>4, <1>9, WorkersAreSomebody
    DEF IInv, DeferredIsFree, Deferred, Becomes, Typed, HandsDiffer, Once, Lanes
  <2> QED BY <2>2, <2>3, <2>4, <2>5, <2>6 DEF IInv
<1>10. CASE UNCHANGED worker
  BY <1>3, <1>4, <1>10 DEF IInv, Typed, RowsInOrder, Once, HandsDiffer, DeferredIsFree,
       Deferred, OneTaker, Takers
<1> QED BY <1>6, <1>7, <1>8, <1>9, <1>10 DEF Look

\* Task rows are admitted first; mustQueue may bring the steers into their lane.
LEMMA AdmitStep ==
  ASSUME IInv, NEW w \in Workers, Admit(w)
  PROVE  IInv'
<1> DEFINE ln == IF mustQueue THEN Joined ELSE lane
           m == Head("task", ln)
<1>1. worker[w].pc = "admit" /\ ~worker[w].cancelled /\ current[w[1]] = w
  BY DEF Admit, At, IInv, OneTaker, Takers, Taking
<1>2. m # NoMessage => m \in Messages
  BY HeadIsQueued DEF Queued
<1>3. status' = status /\ lane' = ln /\ UNCHANGED <<current, submissions, blocked, stopping, started>>
  BY DEF Admit, service, history
<1>4. ln \in [Messages -> Lanes] /\ \A k \in Messages : ln[k] = lane[k] \/ ln[k] = "task"
  BY DEF IInv, Typed, Joined, Lanes
<1>5. CalmRows /\ (Ending => Ending') /\ status' \in [Messages -> Statuses]
  BY <1>3, <1>4 DEF CalmRows, Ending, IInv, Typed
<1> HIDE DEF ln, m
<1>6. CASE m # NoMessage /\ GoWith(w, "claim", m)
  <2>1. PICK r \in Worker : Becomes(w, r) /\ r.pc = "claim" /\ r.row = m /\ ~r.cancelled
    BY <1>2, <1>6, Moves DEF Places, IInv
  <2> QED BY <2>1, <1>1, <1>2, <1>3, <1>4, <1>5, <1>6, CalmMove
<1>7. CASE Rest(w)
  <2>1. PICK r \in Worker : Becomes(w, r) /\ r.pc = "idle" /\ ~r.cancelled
    BY <1>7, Moves DEF Places, IInv
  <2> QED BY <2>1, <1>1, <1>3, <1>4, <1>5, CalmMove DEF OfRow
<1> QED BY <1>6, <1>7 DEF Admit, ln, m

\* A claim: the lane's steer that is being deferred is the current worker itself.
LEMMA ClaimStep ==
  ASSUME IInv, NEW w \in Workers, Claim(w)
  PROVE  IInv'
<1> DEFINE m == worker[w].row
<1>1. worker[w].pc = "claim" /\ ~worker[w].cancelled /\ current[w[1]] = w /\ m \in Messages
  BY DEF Claim, At, IInv, OneTaker, Takers, Taking, Typed
<1>2. lane' = lane /\ UNCHANGED <<current, submissions, blocked, stopping, started>> /\ (Ending => Ending')
  BY DEF Claim, service, history, Ending
<1>3. CASE Rest(w) /\ status' = status
  <2>1. PICK r \in Worker : Becomes(w, r) /\ r.pc = "idle" /\ ~r.cancelled
    BY <1>3, Moves DEF Places, IInv
  <2>2. CalmRows /\ status' \in [Messages -> Statuses] /\ lane' \in [Messages -> Lanes]
    BY <1>2, <1>3 DEF CalmRows, IInv, Typed
  <2> QED BY <2>1, <2>2, <1>1, <1>2, CalmMove DEF OfRow
<1>4. CASE /\ Claimable(m, w[1]) /\ Go(w, "claimed")
           /\ status' = [status EXCEPT ![m] = "running"]
  <2>1. PICK r \in Worker : Becomes(w, r) /\ r.pc = "claimed" /\ r.row = m /\ ~r.cancelled
    BY <1>1, <1>4, Moves DEF Places, IInv
  <2>2. status[m] = "queued" /\ lane[m] = w[1] /\ submissions[m] = 0
    BY <1>1, <1>4 DEF Claimable, IInv, Once
  <2>3. Typed'
    BY <2>1, <1>1, <1>2, <1>4 DEF IInv, Typed, Becomes, Statuses
  <2>4. OneTaker'
    BY <2>1, <1>1, <1>2, OneMoves DEF Becomes
  <2>5. RowsInOrder'
    <3>1. \A k \in Messages : status'[k] = "none" <=> status[k] = "none"
      BY <2>2, <1>1, <1>4 DEF IInv, Typed
    <3> QED BY <3>1 DEF IInv, RowsInOrder
  <2>6. Once'
    BY <2>2, <1>1, <1>2, <1>4 DEF IInv, Typed, Once
  <2>7. HandsDiffer'
    BY <2>1, <2>2, <1>1, <1>2, <1>4 DEF IInv, Typed, HandsDiffer, Becomes
  <2>8. DeferredIsFree'
    <3> SUFFICES ASSUME NEW v \in Workers, worker'[v].pc = "defer", Deferred(worker[v].row)'
                 PROVE  /\ submissions[worker[v].row] = 0
                        /\ \A u \in Workers : worker'[u].pc = "claimed" => worker'[u].row # worker[v].row
                        /\ worker'[v].row = worker[v].row
      BY <2>1, <1>2 DEF DeferredIsFree, IInv, Typed, Becomes
    <3>1. v # w /\ worker'[v] = worker[v] /\ worker[v].row \in Messages /\ v[1] = "steer"
      BY <2>1 DEF IInv, Typed, Becomes, DeferredIsFree
    <3>2. worker[v].row # m
      <4> SUFFICES ASSUME worker[v].row = m PROVE FALSE
        OBVIOUS
      <4>1. w[1] = "steer"
        BY <2>2, <1>2, <3>1 DEF Deferred
      <4>2. current["steer"] = v \/ current["steer"] = NoWorker
        BY <3>1, WorkersAreSomebody DEF IInv, OneTaker, Takers, Taking
      <4> QED BY <4>1, <4>2, <3>1, <1>1, WorkersAreSomebody
    <3>3. Deferred(worker[v].row)
      BY <3>1, <3>2, <1>1, <1>2, <1>4 DEF Deferred, IInv, Typed
    <3> QED BY <3>1, <3>2, <3>3, <2>1 DEF DeferredIsFree, IInv, Typed, Becomes
  <2> QED BY <2>3, <2>4, <2>5, <2>6, <2>7, <2>8 DEF IInv
<1> QED BY <1>3, <1>4 DEF Claim, Claimable

\* A failure before the claim keeps the invariant.
LEMMA FailEarlyStep ==
  ASSUME IInv, NEW w \in Workers, FailEarly(w)
  PROVE  IInv'
<1>1. worker[w].pc \in {"idle", "admit", "claim"} /\ ~worker[w].cancelled /\ current[w[1]] = w
  BY DEF FailEarly, At, IInv, OneTaker, Takers, Taking
<1>2. lane' = lane /\ UNCHANGED <<current, submissions, blocked, stopping, started>> /\ (Ending => Ending')
  BY DEF FailEarly, service, history, Ending
<1>3. status' = status \/ status' = Moved(worker[w].row, "ended", {"queued"})
  BY DEF FailEarly
<1>4. CalmRows /\ status' \in [Messages -> Statuses] /\ lane' \in [Messages -> Lanes]
  BY <1>2, <1>3 DEF IInv, Typed, CalmRows, Moved, Statuses
<1>5. \E r \in Worker : Becomes(w, r) /\ r.pc \in {"idle", "leaving"} /\ ~r.cancelled
  <2>1. CASE Rest(w)
    BY <2>1, Moves DEF Places, IInv
  <2>2. CASE GoWith(w, "leaving", NoMessage)
    BY <2>2, Moves DEF Places, IInv
  <2> QED BY <2>1, <2>2 DEF FailEarly
<1>6. PICK r \in Worker : Becomes(w, r) /\ r.pc \in {"idle", "leaving"} /\ ~r.cancelled
  BY <1>5
<1> QED BY <1>1, <1>2, <1>4, <1>6, CalmMove DEF OfRow, Taking

\* The one step that hands a row over: no other hand holds it, and no deferral is on
\* its way.
LEMMA SubmitStep ==
  ASSUME IInv, NEW w \in Workers, Submit(w)
  PROVE  IInv'
<1> DEFINE m == worker[w].row
<1>1. /\ worker[w].pc = "claimed" /\ ~worker[w].cancelled /\ m \in Messages
      /\ submissions[m] = 0 /\ status[m] \notin {"none", "queued"}
  BY DEF Submit, At, IInv, OneTaker, Takers, Typed, HandsDiffer
<1>2. /\ status' = status /\ lane' = lane /\ UNCHANGED <<current, blocked, stopping, started>>
      /\ (Ending => Ending') /\ submissions' = [submissions EXCEPT ![m] = 1]
  BY <1>1 DEF Submit, rows, service, Ending
<1>3. PICK r \in Worker : Becomes(w, r) /\ r.pc = "submitted" /\ r.row = m /\ ~r.cancelled
  BY <1>1, Moves DEF Places, IInv, Submit
<1> HIDE DEF m
<1>4. Typed'
  BY <1>1, <1>2, <1>3 DEF IInv, Typed, Becomes
<1>5. OneTaker'
  BY <1>2, <1>3, OneMoves DEF Becomes, Taking
<1>6. RowsInOrder' /\ Once'
  BY <1>1, <1>2 DEF IInv, Typed, RowsInOrder, Once
<1>7. HandsDiffer'
  <2> SUFFICES ASSUME NEW v \in Workers, worker'[v].pc = "claimed"
               PROVE  /\ submissions'[worker'[v].row] = 0
                      /\ status'[worker'[v].row] \notin {"none", "queued"}
                      /\ \A u \in Workers : worker'[u].pc = "claimed" /\ u # v
                                              => worker'[u].row # worker'[v].row
    BY DEF HandsDiffer
  <2>1. v # w /\ worker'[v] = worker[v] /\ worker[v].row \in Messages
    BY <1>3 DEF IInv, Typed, Becomes
  <2>2. worker[v].row # m
    BY <2>1, <1>1 DEF IInv, HandsDiffer, m
  <2>3. \A u \in Workers : worker'[u].pc = "claimed" => worker'[u] = worker[u]
    BY <1>3 DEF IInv, Typed, Becomes
  <2> QED BY <2>1, <2>2, <2>3, <1>1, <1>2 DEF IInv, HandsDiffer, Typed
<1>8. DeferredIsFree'
  <2> SUFFICES ASSUME NEW v \in Workers, worker'[v].pc = "defer"
               PROVE  /\ v[1] = "steer"
                      /\ Deferred(worker[v].row)' =>
                           /\ submissions'[worker'[v].row] = 0
                           /\ \A u \in Workers : worker'[u].pc = "claimed" => worker'[u].row # worker'[v].row
    BY <1>3 DEF DeferredIsFree, IInv, Typed, Becomes
  <2>1. v # w /\ worker'[v] = worker[v] /\ worker[v].row \in Messages
    BY <1>3 DEF IInv, Typed, Becomes
  <2>2. Deferred(worker[v].row)' => Deferred(worker[v].row) /\ worker[v].row # m
    BY <2>1, <1>1, <1>2 DEF Deferred, IInv, DeferredIsFree, m
  <2>3. \A u \in Workers : worker'[u].pc = "claimed" => worker'[u] = worker[u]
    BY <1>3 DEF IInv, Typed, Becomes
  <2> QED BY <2>1, <2>2, <2>3, <1>1, <1>2 DEF IInv, DeferredIsFree, Typed
<1> QED BY <1>4, <1>5, <1>6, <1>7, <1>8 DEF IInv

\* A refused steer is in no other hand, so its deferral will be free to put it back.
LEMMA RefusedStep ==
  ASSUME IInv, NEW w \in Workers, Refused(w)
  PROVE  IInv'
<1> DEFINE m == worker[w].row
<1>1. /\ worker[w].pc = "claimed" /\ ~worker[w].cancelled /\ current[w[1]] = w /\ m \in Messages
      /\ w[1] = "steer"
  BY DEF Refused, At, IInv, OneTaker, Takers, Typed, Taking
<1>2. /\ status' = status /\ lane' = lane /\ UNCHANGED <<current, submissions, blocked, stopping, started>>
      /\ (Ending => Ending')
  BY DEF Refused, rows, service, history, Ending
<1>3. PICK r \in Worker : Becomes(w, r) /\ r.pc = "defer" /\ r.row = m /\ ~r.cancelled
  BY <1>1, Moves DEF Places, IInv, Refused
<1>4. Typed'
  BY <1>1, <1>2, <1>3 DEF IInv, Typed, Becomes
<1>5. OneTaker'
  BY <1>1, <1>2, <1>3, OneMoves DEF Becomes
<1>6. RowsInOrder' /\ Once'
  BY <1>2 DEF IInv, RowsInOrder, Once
<1>7. HandsDiffer'
  BY <1>2, <1>3 DEF IInv, HandsDiffer, Becomes, Typed
<1>8. DeferredIsFree'
  <2> SUFFICES ASSUME NEW v \in Workers, worker'[v].pc = "defer"
               PROVE  /\ v[1] = "steer"
                      /\ Deferred(worker'[v].row) =>
                           /\ submissions[worker'[v].row] = 0
                           /\ \A u \in Workers : worker'[u].pc = "claimed" => worker'[u].row # worker'[v].row
    BY <1>2 DEF DeferredIsFree, Deferred
  <2>1. \A u \in Workers : worker'[u].pc = "claimed" => u # w /\ worker'[u] = worker[u]
    BY <1>3 DEF IInv, Typed, Becomes
  <2>2. CASE v = w
    BY <2>1, <2>2, <1>1, <1>3 DEF IInv, HandsDiffer, Becomes, Typed
  <2>3. CASE v # w
    BY <2>1, <2>3, <1>3 DEF IInv, DeferredIsFree, Becomes, Typed
  <2> QED BY <2>2, <2>3
<1> QED BY <1>4, <1>5, <1>6, <1>7, <1>8 DEF IInv

\* What a worker's handler stores about its row leaves the queue as it is.
LEMMA Stored ==
  ASSUME Typed, NEW m \in Messages, lane' = lane,
         \/ status' = status
         \/ \E to \in {"ended", "unknown"} : status' = Moved(m, to, InFlight)
  PROVE  CalmRows /\ status' \in [Messages -> Statuses] /\ lane' \in [Messages -> Lanes]
BY DEF Typed, CalmRows, Moved, InFlight, Statuses

\* A worker that ends its turn, or the loop.
LEMMA TurnEnds ==
  ASSUME IInv, NEW w \in Workers, worker[w].pc # "defer",
         Loop(w) \/ GoWith(w, "leaving", NoMessage),
         CalmRows, status' \in [Messages -> Statuses], lane' \in [Messages -> Lanes],
         UNCHANGED <<current, submissions, blocked, stopping, started>>
  PROVE  IInv'
<1>1. ~worker[w].cancelled /\ (Ending => Ending')
  BY DEF IInv, OneTaker, Takers, Ending
<1>2. CASE Loop(w)
  <2>1. PICK r \in Worker : Becomes(w, r) /\ ~r.cancelled
          /\ (r.pc = "leaving" \/ (r.pc = "idle" /\ current[w[1]] = w))
    BY <1>2, Moves DEF Places, IInv
  <2> QED BY <2>1, <1>1, CalmMove DEF OfRow, Taking
<1>3. CASE GoWith(w, "leaving", NoMessage)
  <2>1. PICK r \in Worker : Becomes(w, r) /\ r.pc = "leaving" /\ ~r.cancelled
    BY <1>3, Moves DEF Places, IInv
  <2> QED BY <2>1, <1>1, CalmMove DEF OfRow, Taking
<1> QED BY <1>2, <1>3

\* The end of an execution keeps the invariant.
LEMMA FinishStep ==
  ASSUME IInv, NEW w \in Workers, Finish(w)
  PROVE  IInv'
<1>1. worker[w].pc \in {"claimed", "submitted"} /\ worker[w].row \in Messages
  BY DEF Finish, IInv, Typed
<1>2. lane' = lane /\ UNCHANGED <<current, submissions, blocked, stopping, started>>
  BY DEF Finish, service, history
<1>3. \/ status' = status
      \/ \E to \in {"ended", "unknown"} : status' = Moved(worker[w].row, to, InFlight)
  BY DEF Finish
<1>4. Loop(w) \/ GoWith(w, "leaving", NoMessage)
  BY DEF Finish
<1>5. CalmRows /\ status' \in [Messages -> Statuses] /\ lane' \in [Messages -> Lanes]
  BY <1>1, <1>2, <1>3, Stored DEF IInv
<1> QED BY <1>1, <1>2, <1>4, <1>5, TurnEnds

\* The watchdog's release of the admission keeps the invariant.
LEMMA WatchdogStep ==
  ASSUME IInv, NEW w \in Workers, Watchdog(w)
  PROVE  IInv'
<1>1. worker[w].pc = "submitted" /\ ~worker[w].cancelled /\ worker[w].row \in Messages
  BY DEF Watchdog, At, IInv, Typed, OneTaker, Takers
<1>2. /\ status' = status /\ lane' = lane /\ UNCHANGED <<current, submissions, blocked, stopping, started>>
      /\ (Ending => Ending')
  BY DEF Watchdog, rows, service, history, Ending
<1>3. CalmRows /\ status' \in [Messages -> Statuses] /\ lane' \in [Messages -> Lanes]
  BY <1>1, <1>2, Stored DEF IInv
<1>4. PICK r \in Worker : Becomes(w, r) /\ r.pc = "record" /\ r.row = worker[w].row /\ ~r.cancelled
  BY <1>1, Moves DEF Places, IInv, Watchdog
<1> QED BY <1>1, <1>2, <1>3, <1>4, CalmMove DEF OfRow, Taking

\* The watchdog's unknown outcome keeps the invariant.
LEMMA RecordStep ==
  ASSUME IInv, NEW w \in Workers, Record(w)
  PROVE  IInv'
<1>1. worker[w].pc = "record" /\ worker[w].row \in Messages
  BY DEF Record, At, IInv, Typed
<1>2. lane' = lane /\ UNCHANGED <<current, submissions, blocked, stopping, started>>
  BY DEF Record, service, history
<1>3. CalmRows /\ status' \in [Messages -> Statuses] /\ lane' \in [Messages -> Lanes]
  BY <1>1, <1>2, Stored DEF IInv, Record
<1> QED BY <1>1, <1>2, <1>3, TurnEnds DEF Record

\* The report of a cancelled execution keeps the invariant.
LEMMA AbandonStep ==
  ASSUME IInv, NEW w \in Workers, Abandon(w)
  PROVE  IInv'
<1>1. worker[w].pc = "abandon" /\ worker[w].row \in Messages
  BY DEF Abandon, At, IInv, Typed
<1>2. lane' = lane /\ UNCHANGED <<current, submissions, blocked, stopping, started>>
  BY DEF Abandon, service, history
<1>3. CalmRows /\ status' \in [Messages -> Statuses] /\ lane' \in [Messages -> Lanes]
  BY <1>1, <1>2, Stored DEF IInv, Abandon
<1>4. CASE worker' = [worker EXCEPT ![w] = Gone]
  <2>1. Gone \in Worker /\ ~Gone.cancelled /\ Gone.pc = "gone"
    BY DEF Gone, Worker, Places
  <2>2. ~worker[w].cancelled /\ (Ending => Ending')
    BY <1>1, <1>2 DEF IInv, OneTaker, Takers, Ending
  <2> HIDE DEF Gone
  <2> QED BY <2>1, <2>2, <1>2, <1>3, <1>4, CalmMove DEF OfRow, Taking, Becomes
<1> QED BY <1>1, <1>2, <1>3, <1>4, TurnEnds DEF Abandon

\* Workers may be started, after one of them has moved calmly.
LEMMA CalmStart ==
  ASSUME IInv, NEW lanes \in SUBSET Lanes, NEW ws \in [Workers -> Worker],
         NEW cur \in [Lanes -> Workers \cup {NoWorker}], NEW block, NEW hold,
         Ensure(lanes, ws, cur, block, hold), Takers(ws, cur),
         stopping \/ block \/ \A w \in Workers : ~ws[w].cancelled,
         \A w \in Workers : ws[w] = worker[w] \/ (ws[w].pc \notin OfRow /\ ~ws[w].cancelled),
         Ending => Ending' \/ \A w \in Workers : ~ws[w].cancelled,
         UNCHANGED submissions, CalmRows,
         status' \in [Messages -> Statuses], lane' \in [Messages -> Lanes]
  PROVE  IInv'
<1>1. /\ worker' \in [Workers -> Worker] /\ current' \in [Lanes -> Workers \cup {NoWorker}]
      /\ \A w \in Workers : worker'[w] = ws[w]
           \/ /\ worker'[w].pc = "idle" /\ ~worker'[w].cancelled
      /\ Takers(worker', current')
  BY Started
<1>2. \A w \in Workers : worker'[w] = worker[w]
         \/ (worker'[w].pc \notin OfRow /\ ~worker'[w].cancelled)
  BY <1>1 DEF OfRow
<1>3. Typed'
  BY <1>1, <1>2 DEF IInv, Typed, OfRow
<1>4. Calm
  BY <1>2 DEF Calm, OfRow
<1>5. ASSUME NEW w \in Workers, worker'[w].cancelled PROVE Ending'
  <2>1. ws[w].cancelled /\ worker[w].cancelled
    BY <1>1, <1>2, <1>5
  <2> QED BY <2>1 DEF IInv, OneTaker
<1>6. OneTaker'
  BY <1>1, <1>5 DEF OneTaker, Takers
<1> QED BY <1>3, <1>4, <1>6, CalmSteps DEF IInv, RowFacts

\* Nobody moves and workers may be started.
LEMMA Awakened ==
  ASSUME IInv, NEW hold, Ensure(Lanes, worker, current, blocked, hold),
         UNCHANGED <<submissions, blocked, stopping, started>>, CalmRows,
         status' \in [Messages -> Statuses], lane' \in [Messages -> Lanes]
  PROVE  IInv'
<1>1. Ending => Ending'
  BY DEF Ending
<1>2. stopping \/ blocked \/ \A w \in Workers : ~worker[w].cancelled
  BY DEF IInv, OneTaker, Ending
<1>3. worker \in [Workers -> Worker] /\ current \in [Lanes -> Workers \cup {NoWorker}]
      /\ Takers(worker, current)
  BY DEF IInv, Typed, OneTaker
<1> QED BY <1>1, <1>2, <1>3, CalmStart

\* A steer that became a task of its own leaves its lane to another worker: it takes no
\* rows any more.
LEMMA FallbackStep ==
  ASSUME IInv, NEW w \in Workers, Fallback(w)
  PROVE  IInv'
<1> DEFINE cur == [current EXCEPT !["steer"] = NoWorker]
<1>1. worker[w].pc = "submitted" /\ current["steer"] = w /\ worker \in [Workers -> Worker]
      /\ current \in [Lanes -> Workers \cup {NoWorker}]
  BY DEF Fallback, At, IInv, Typed
<1>2. cur \in [Lanes -> Workers \cup {NoWorker}] /\ Takers(worker, cur)
  BY <1>1, WorkersAreSomebody DEF IInv, OneTaker, Takers, Taking, Lanes
<1>3. /\ status' = status /\ lane' = lane /\ UNCHANGED <<submissions, blocked, stopping, started>>
  BY DEF Fallback, rows, service, history
<1>4. CalmRows /\ status' \in [Messages -> Statuses] /\ lane' \in [Messages -> Lanes]
  BY <1>3 DEF IInv, Typed, CalmRows
<1>5. Ending => Ending'
  BY <1>3 DEF Ending
<1>6. Ensure({"steer"}, worker, cur, blocked, held)
  BY DEF Fallback
<1>7. stopping \/ blocked \/ \A v \in Workers : ~worker[v].cancelled
  BY DEF IInv, OneTaker, Ending
<1>8. {"steer"} \in SUBSET Lanes
  BY DEF Lanes
<1> HIDE DEF cur
<1> QED BY <1>1, <1>2, <1>3, <1>4, <1>5, <1>6, <1>7, <1>8, CalmStart

\* A worker that ends, and the one that may follow it.
LEMMA LeaveStep ==
  ASSUME IInv, NEW w \in Workers, Leave(w)
  PROVE  IInv'
<1> DEFINE l == w[1]
           ended == [worker EXCEPT ![w] = Gone]
           cur == IF current[l] = w THEN [current EXCEPT ![l] = NoWorker] ELSE current
<1>1. worker[w].pc = "leaving" /\ ~worker[w].cancelled /\ worker \in [Workers -> Worker]
      /\ current \in [Lanes -> Workers \cup {NoWorker}] /\ l \in Lanes
  BY WorkersAreSomebody DEF Leave, At, IInv, Typed, OneTaker, Takers
<1>2. Gone \in Worker /\ ~Gone.cancelled /\ Gone.pc = "gone"
  BY DEF Gone, Worker, Places
<1> HIDE DEF Gone
<1>3. /\ ended \in [Workers -> Worker] /\ cur \in [Lanes -> Workers \cup {NoWorker}]
      /\ \A v \in Workers : ended[v] = worker[v] \/ (ended[v].pc = "gone" /\ ~ended[v].cancelled)
      /\ ended[w].pc = "gone" /\ ~ended[w].cancelled
  BY <1>1, <1>2
<1>4. Takers(ended, cur)
  <2> SUFFICES ASSUME NEW v \in Workers
               PROVE  IF ended[v].cancelled
                        THEN ended[v].pc = "defer" /\ \A k \in Lanes : cur[k] = NoWorker
                        ELSE ended[v].pc \in Taking => cur[v[1]] = v
    BY DEF Takers
  <2>1. CASE v = w
    BY <2>1, <1>3 DEF Taking
  <2>2. CASE v # w
    <3>1. ended[v] = worker[v] /\ v[1] \in Lanes
      BY <2>2, <1>1, WorkersAreSomebody
    <3>2. current[v[1]] = v => cur[v[1]] = v
      BY <2>2, <3>1, <1>1, WorkersAreSomebody
    <3>3. (\A k \in Lanes : current[k] = NoWorker) => \A k \in Lanes : cur[k] = NoWorker
      BY <1>1
    <3> QED BY <3>1, <3>2, <3>3 DEF IInv, OneTaker, Takers
  <2> QED BY <2>1, <2>2
<1>5. /\ status' = status /\ lane' = lane /\ UNCHANGED <<submissions, blocked, stopping, started>>
  BY DEF Leave, rows, service
<1>6. CalmRows /\ status' \in [Messages -> Statuses] /\ lane' \in [Messages -> Lanes]
  BY <1>5 DEF IInv, Typed, CalmRows
<1>7. Ending => Ending'
  BY <1>5 DEF Ending
<1>8. stopping \/ blocked \/ \A v \in Workers : ~ended[v].cancelled
  BY <1>3 DEF IInv, OneTaker, Ending
<1>9. CASE Ensure(LeftBehind(l), ended, cur, blocked, held)
  <2>1. LeftBehind(l) \in SUBSET Lanes
    BY <1>1 DEF LeftBehind
  <2>2. \A v \in Workers : ended[v] = worker[v] \/ (ended[v].pc \notin OfRow /\ ~ended[v].cancelled)
    BY <1>3 DEF OfRow
  <2> HIDE DEF ended, cur
  <2> QED BY <2>1, <2>2, <1>3, <1>4, <1>5, <1>6, <1>7, <1>8, <1>9, CalmStart
<1>10. CASE worker' = ended /\ current' = cur
  <2>1. Typed'
    BY <1>3, <1>5, <1>6, <1>10 DEF IInv, Typed
  <2>2. Calm
    BY <1>3, <1>5, <1>6, <1>10 DEF Calm
  <2>3. OneTaker'
    BY <1>3, <1>4, <1>7, <1>10 DEF IInv, OneTaker, Takers
  <2> QED BY <2>1, <2>2, <2>3, CalmSteps DEF IInv, RowFacts
<1> QED BY <1>9, <1>10 DEF Leave

\* A deferral puts back a row that nobody has handed over or holds.
LEMMA DeferStep ==
  ASSUME IInv, NEW w \in Workers, Defer(w)
  PROVE  IInv'
<1> DEFINE m == worker[w].row
           p == IF worker[w].cancelled THEN "gone" ELSE "idle"
           r == [Gone EXCEPT !.pc = p]
           after == [worker EXCEPT ![w] = r]
<1>1. /\ worker[w].pc = "defer" /\ m \in Messages /\ worker \in [Workers -> Worker]
      /\ current \in [Lanes -> Workers \cup {NoWorker}]
  BY DEF Defer, At, IInv, Typed
<1>2. r \in Worker /\ r.pc = p /\ ~r.cancelled
  BY DEF Gone, Worker, Places
<1>3. UNCHANGED <<submissions, blocked, stopping, started>> /\ (Ending => Ending')
  BY DEF Defer, service, history, Ending
<1> HIDE DEF r
<1>4. after \in [Workers -> Worker] /\ Takers(after, current)
  BY <1>1, <1>2 DEF IInv, OneTaker, Takers, Taking
<1>5. \A v \in Workers : after[v] = worker[v] \/ (after[v].pc \notin OfRow /\ ~after[v].cancelled)
  BY <1>1, <1>2 DEF OfRow
<1>6. stopping \/ blocked \/ \A v \in Workers : ~after[v].cancelled
  BY <1>1, <1>2 DEF IInv, OneTaker, Ending
<1>7. CASE Deferred(m)
  <2>1. /\ status' = [status EXCEPT ![m] = "queued"] /\ lane' = [lane EXCEPT ![m] = "task"]
        /\ Ensure(Lanes, after, current, blocked, held)
    BY <1>7 DEF Defer, r
  <2> HIDE DEF after, p
  <2>2. /\ worker' \in [Workers -> Worker] /\ current' \in [Lanes -> Workers \cup {NoWorker}]
        /\ \A v \in Workers : worker'[v] = after[v]
             \/ /\ worker'[v].pc = "idle" /\ ~worker'[v].cancelled
        /\ Takers(worker', current')
    BY <2>1, <1>1, <1>4, <1>6, Started
  <2>3. \A v \in Workers : worker'[v] = worker[v] \/ (worker'[v].pc \notin OfRow /\ ~worker'[v].cancelled)
    BY <2>2, <1>5 DEF OfRow
  <2>4. worker'[w].pc # "defer"
    BY <2>2, <1>1, <1>2 DEF after, p
  <2>5. /\ m \in Messages /\ status[m] # "none" /\ submissions[m] = 0
        /\ \A v \in Workers : worker[v].pc = "claimed" => worker[v].row # m
    BY <1>1, <1>7 DEF IInv, DeferredIsFree, Deferred
  <2> HIDE DEF m
  <2>6. Typed'
    BY <2>1, <2>2, <2>3, <2>5, <1>3 DEF IInv, Typed, OfRow, Statuses, Lanes
  <2>7. OneTaker'
    <3>1. \A v \in Workers : worker'[v].cancelled => worker[v].cancelled
      BY <2>3
    <3> QED BY <3>1, <2>2, <1>3 DEF IInv, OneTaker, Takers
  <2>8. RowsInOrder' /\ Once'
    <3>1. \A k \in Messages : status'[k] = "none" <=> status[k] = "none"
      BY <2>1, <2>5 DEF IInv, Typed
    <3>2. Once'
      BY <2>1, <2>5, <1>3 DEF IInv, Typed, Once
    <3> QED BY <3>1, <3>2 DEF IInv, RowsInOrder
  <2>9. HandsDiffer'
    <3> SUFFICES ASSUME NEW v \in Workers, worker'[v].pc = "claimed"
                 PROVE  /\ submissions[worker'[v].row] = 0
                        /\ status'[worker'[v].row] \notin {"none", "queued"}
                        /\ \A u \in Workers : worker'[u].pc = "claimed" /\ u # v
                                                => worker'[u].row # worker'[v].row
      BY <1>3 DEF HandsDiffer
    <3>1. \A u \in Workers : worker'[u].pc = "claimed" => worker'[u] = worker[u]
      BY <2>3 DEF OfRow
    <3> QED BY <3>1, <2>1, <2>5 DEF IInv, HandsDiffer, Typed
  <2>10. DeferredIsFree'
    <3> SUFFICES ASSUME NEW v \in Workers, worker'[v].pc = "defer"
                 PROVE  /\ v[1] = "steer"
                        /\ Deferred(worker[v].row)' =>
                             /\ submissions[worker'[v].row] = 0
                             /\ \A u \in Workers : worker'[u].pc = "claimed" => worker'[u].row # worker'[v].row
      BY <1>3 DEF DeferredIsFree, Deferred
    <3>1. worker'[v] = worker[v] /\ worker[v].row \in Messages
      BY <2>3 DEF OfRow, IInv, Typed
    <3>2. \A u \in Workers : worker'[u].pc = "claimed" => worker'[u] = worker[u]
      BY <2>3 DEF OfRow
    <3>3. Deferred(worker[v].row)' => Deferred(worker[v].row)
      BY <3>1, <2>1, <2>5 DEF Deferred, IInv, Typed
    <3> QED BY <3>1, <3>2, <3>3 DEF IInv, DeferredIsFree
  <2> QED BY <2>6, <2>7, <2>8, <2>9, <2>10 DEF IInv
<1>8. CASE ~Deferred(m)
  <2>1. status' = status /\ lane' = lane /\ worker' = after /\ current' = current
    BY <1>8 DEF Defer, r
  <2>2. CalmRows /\ status' \in [Messages -> Statuses] /\ lane' \in [Messages -> Lanes]
    BY <2>1 DEF IInv, Typed, CalmRows
  <2>3. r.pc \in Taking => ~worker[w].cancelled /\ current[w[1]] = w
    BY <1>1, <1>2 DEF IInv, OneTaker, Takers, Taking
  <2>4. r.pc \notin OfRow
    BY <1>2 DEF OfRow
  <2> QED BY <2>1, <2>2, <2>3, <2>4, <1>2, <1>3, CalmMove DEF Becomes, OfRow
<1> QED BY <1>7, <1>8

\* A new row follows the others.
LEMMA SendStep ==
  ASSUME IInv, NEW want \in Lanes, Send(want)
  PROVE  IInv'
<1>1. PICK n \in 0..MaxMessages : \A m \in Messages : status[m] = "none" <=> m > n
  BY DEF IInv, RowsInOrder
<1>2. Count = n
  <2>1. {m \in Messages : status[m] # "none"} = 1..n
    BY <1>1, MailboxAssumption DEF Messages
  <2>2. Cardinality(1..n) = n
    BY <1>1, MailboxAssumption, FS_Interval
  <2> QED BY <2>1, <2>2 DEF Count
<1> DEFINE m == n + 1
<1>3. m \in Messages /\ status[m] = "none" /\ submissions[m] = 0 /\ m \in 0..MaxMessages
  BY <1>1, <1>2, MailboxAssumption DEF Send, Messages, IInv, Once
<1>4. /\ status' = [status EXCEPT ![m] = "queued"]
      /\ \E l \in Lanes : lane' = [lane EXCEPT ![m] = l]
      /\ Ensure(Lanes, worker, current, blocked, held)
      /\ UNCHANGED <<submissions, blocked, stopping, started>> /\ (Ending => Ending')
  BY <1>2 DEF Send, EnsureBoth, service, history, Ending, Lanes
<1>5. stopping \/ blocked \/ \A w \in Workers : ~worker[w].cancelled
  BY DEF IInv, OneTaker, Ending
<1>6. /\ worker' \in [Workers -> Worker] /\ current' \in [Lanes -> Workers \cup {NoWorker}]
      /\ \A v \in Workers : worker'[v] = worker[v] \/ (worker'[v].pc = "idle" /\ ~worker'[v].cancelled)
      /\ Takers(worker', current')
  <2>1. worker \in [Workers -> Worker] /\ current \in [Lanes -> Workers \cup {NoWorker}]
        /\ Takers(worker, current)
    BY DEF IInv, Typed, OneTaker
  <2> QED BY <2>1, <1>4, <1>5, Started
<1>7. Typed'
  BY <1>3, <1>4, <1>6 DEF IInv, Typed, Statuses
<1>8. OneTaker'
  BY <1>4, <1>6 DEF IInv, OneTaker
<1>9. RowsInOrder'
  <2>1. \A k \in Messages : status'[k] = "none" <=> k > m
    BY <1>1, <1>3, <1>4 DEF IInv, Typed, Messages
  <2> QED BY <2>1, <1>3 DEF RowsInOrder
<1> HIDE DEF m
<1>10. Once'
  BY <1>3, <1>4 DEF IInv, Once, Typed
<1>11. HandsDiffer'
  <2> SUFFICES ASSUME NEW v \in Workers, worker'[v].pc = "claimed"
               PROVE  /\ submissions[worker'[v].row] = 0
                      /\ status'[worker'[v].row] \notin {"none", "queued"}
                      /\ \A u \in Workers : worker'[u].pc = "claimed" /\ u # v
                                              => worker'[u].row # worker'[v].row
    BY <1>4 DEF HandsDiffer
  <2>1. \A u \in Workers : worker'[u].pc = "claimed" => worker'[u] = worker[u]
    BY <1>6
  <2> QED BY <2>1, <1>3, <1>4 DEF IInv, HandsDiffer, Typed
<1>12. DeferredIsFree'
  <2> SUFFICES ASSUME NEW v \in Workers, worker'[v].pc = "defer"
               PROVE  /\ v[1] = "steer"
                      /\ Deferred(worker[v].row)' =>
                           /\ submissions[worker'[v].row] = 0
                           /\ \A u \in Workers : worker'[u].pc = "claimed" => worker'[u].row # worker'[v].row
    BY <1>4 DEF DeferredIsFree, Deferred
  <2>1. worker'[v] = worker[v] /\ worker[v].row \in Messages
    BY <1>6 DEF IInv, Typed
  <2>2. \A u \in Workers : worker'[u].pc = "claimed" => worker'[u] = worker[u]
    BY <1>6
  <2>3. CASE worker[v].row = m
    BY <2>1, <2>2, <2>3, <1>3 DEF IInv, DeferredIsFree, HandsDiffer
  <2>4. CASE worker[v].row # m
    <3>1. Deferred(worker[v].row)' => Deferred(worker[v].row)
      BY <2>1, <2>4, <1>3, <1>4 DEF Deferred, IInv, Typed
    <3> QED BY <3>1, <2>1, <2>2 DEF IInv, DeferredIsFree
  <2> QED BY <2>3, <2>4
<1> QED BY <1>7, <1>8, <1>9, <1>10, <1>11, <1>12 DEF IInv

----------------------------------------------------------------------------
(* The steps around the workers                                               *)

\* No worker moves and nobody is started.
LEMMA QuietStep ==
  ASSUME IInv, UNCHANGED <<worker, current, submissions>>, CalmRows,
         status' \in [Messages -> Statuses], lane' \in [Messages -> Lanes],
         (Ending => Ending') \/ \A w \in Workers : ~worker[w].cancelled
  PROVE  IInv'
<1>1. Typed' /\ Calm
  BY DEF IInv, Typed, Calm
<1>2. OneTaker'
  BY DEF IInv, OneTaker, Takers
<1> QED BY <1>1, <1>2, CalmSteps DEF IInv, RowFacts

\* When all workers are gone none is being cancelled.
LEMMA NobodyCancelled ==
  ASSUME AllGone, IInv PROVE \A w \in Workers : ~worker[w].cancelled
BY DEF AllGone, At, IInv, OneTaker, Takers

\* A question to the user (mark_waiting) keeps the invariant.
LEMMA AskStep ==
  ASSUME IInv, NEW w \in Workers, Ask(w)
  PROVE  IInv'
<1>1. worker[w].row \in Messages /\ status[worker[w].row] = "running"
  BY DEF Ask, At, IInv, Typed
<1>2. /\ lane' = lane /\ status' = [status EXCEPT ![worker[w].row] = "waiting"]
      /\ UNCHANGED <<worker, current, submissions>> /\ (Ending => Ending')
  BY DEF Ask, delivery, service, history, Ending
<1>3. CalmRows /\ status' \in [Messages -> Statuses] /\ lane' \in [Messages -> Lanes]
  BY <1>1, <1>2 DEF IInv, Typed, CalmRows, Statuses
<1> QED BY <1>2, <1>3, QuietStep

\* Rows that stay as they are are calm.
LEMMA RowsStay ==
  ASSUME Typed, status' = status, lane' = lane
  PROVE  CalmRows /\ status' \in [Messages -> Statuses] /\ lane' \in [Messages -> Lanes]
BY DEF Typed, CalmRows

\* A claim whose worker is gone makes its row running, and nobody holds it.
LEMMA DetachedClaimStep ==
  ASSUME IInv, NEW m \in Messages, NEW l \in Lanes, DetachedClaim(m, l)
  PROVE  IInv'
<1>1. lane' = lane /\ UNCHANGED <<worker, current, submissions>> /\ (Ending => Ending')
  BY DEF DetachedClaim, service, history, Ending
<1>2. CalmRows /\ status' \in [Messages -> Statuses] /\ lane' \in [Messages -> Lanes]
  BY <1>1 DEF DetachedClaim, Claimable, IInv, Typed, CalmRows, Statuses
<1> QED BY <1>1, <1>2, QuietStep

\* The steps that leave rows, workers and the flags of an ending alone.
LEMMA AsideStep ==
  ASSUME IInv, User \/ SwitchMode \/ Connect \/ Disconnect
  PROVE  IInv'
<1>1. UNCHANGED <<status, lane, worker, current, submissions, blocked, stopping, started>>
  BY DEF User, SwitchMode, Connect, Disconnect, rows, delivery, service, history
<1>2. Ending => Ending'
  BY <1>1 DEF Ending
<1>3. status' = status /\ lane' = lane /\ UNCHANGED <<worker, current, submissions>>
  BY <1>1
<1> QED BY <1>2, <1>3, RowsStay, QuietStep DEF IInv

\* Deletion, stop and start: what was in flight becomes unknown, never queued.
LEMMA ServiceStep ==
  ASSUME IInv, Deleted \/ Stopped \/ Recover \/ Start
  PROVE  IInv'
<1>1. lane' = lane /\ UNCHANGED <<worker, current, submissions>>
  BY DEF Deleted, Stopped, Recover, Start, rows, delivery, history
<1>2. (Ending => Ending') \/ \A w \in Workers : ~worker[w].cancelled
  BY NobodyCancelled DEF Deleted, Stopped, Recover, Start, Ending
<1>3. CalmRows /\ status' \in [Messages -> Statuses] /\ lane' \in [Messages -> Lanes]
  <2>1. CASE Deleted
    BY <2>1, <1>1 DEF Deleted, Cancellable, IInv, Typed, CalmRows, Statuses
  <2>2. CASE Recover
    BY <2>2, <1>1 DEF Recover, InFlight, IInv, Typed, CalmRows, Statuses
  <2>3. CASE Stopped \/ Start
    BY <2>3, <1>1, RowsStay DEF Stopped, Start, rows, IInv
  <2> QED BY <2>1, <2>2, <2>3
<1> QED BY <1>1, <1>2, <1>3, QuietStep

\* The events that let workers start keep the invariant.
LEMMA WakingStep ==
  ASSUME IInv, \/ Supersede \/ Continue \/ WakeQueued
               \/ \E m \in Messages : Resolve(m) \/ \E out \in {"ended", "unknown"} : Answer(m, out)
  PROVE  IInv'
<1>1. \E hold : Ensure(Lanes, worker, current, blocked, hold)
  BY DEF Supersede, Continue, WakeQueued, Resolve, Answer, EnsureBoth
<1>2. lane' = lane /\ UNCHANGED <<submissions, blocked, stopping, started>>
  BY DEF Supersede, Continue, WakeQueued, Resolve, Answer, rows, service, history
<1>3. CalmRows /\ status' \in [Messages -> Statuses] /\ lane' \in [Messages -> Lanes]
  <2>1. CASE Supersede
    BY <2>1, <1>2 DEF Supersede, IInv, Typed, CalmRows, Statuses
  <2>2. CASE Continue \/ WakeQueued
    BY <2>2, <1>2, RowsStay DEF Continue, WakeQueued, rows, IInv
  <2>3. ASSUME NEW m \in Messages, Resolve(m) \/ \E out \in {"ended", "unknown"} : Answer(m, out)
        PROVE  CalmRows /\ status' \in [Messages -> Statuses] /\ lane' \in [Messages -> Lanes]
    BY <2>3, <1>2 DEF Resolve, Answer, IInv, Typed, CalmRows, Statuses
  <2> QED BY <2>1, <2>2, <2>3
<1> QED BY <1>1, <1>2, <1>3, Awakened

\* A failed deletion starts workers only when the cancelled ones are gone.
LEMMA AbortDeleteStep ==
  ASSUME IInv, AbortDelete
  PROVE  IInv'
<1>1. \A w \in Workers : ~worker[w].cancelled
  BY NobodyCancelled DEF AbortDelete
<1>2. /\ Ensure(Lanes, worker, current, FALSE, held) /\ UNCHANGED submissions
      /\ status' = status /\ lane' = lane
  BY DEF AbortDelete, rows, history
<1>3. worker \in [Workers -> Worker] /\ current \in [Lanes -> Workers \cup {NoWorker}]
      /\ Takers(worker, current)
  BY DEF IInv, Typed, OneTaker
<1> QED BY <1>1, <1>2, <1>3, RowsStay, CalmStart DEF IInv

\* A cancellation: only a deferral survives it, and nobody else takes rows.
LEMMA CancelStep ==
  ASSUME IInv, CancelWorkers, UNCHANGED <<rows, submissions>>, Ending'
  PROVE  IInv'
<1>1. PICK returned \in SUBSET {w \in Workers : At(w, "claimed")} :
        /\ worker' = [w \in Workers |-> CancelledPlace(w, returned)]
        /\ current' = [l \in Lanes |-> NoWorker]
  BY DEF CancelWorkers
<1>2. ASSUME NEW w \in Workers
      PROVE  /\ worker'[w] \in Worker
             /\ worker'[w].pc \in OfRow => worker[w].pc \in OfRow /\ worker'[w].row = worker[w].row
             /\ worker'[w].pc \in {"abandon", "defer", "gone"}
             /\ worker'[w].pc = "defer" => worker[w].pc = "defer"
             /\ worker'[w].cancelled => worker'[w].pc = "defer"
             /\ ~worker'[w].cancelled => worker'[w].pc # "defer"
  <2>1. worker'[w] = CancelledPlace(w, returned) /\ worker[w] \in Worker
        /\ (worker[w].cancelled => worker[w].pc = "defer")
        /\ (w \in returned => worker[w].pc = "claimed")
    BY <1>1 DEF IInv, Typed, OneTaker, Takers, At
  <2>2. CASE worker[w].pc \in Executing \/ w \in returned
    BY <2>1, <2>2 DEF CancelledPlace, Worker, Places, OfRow, Executing
  <2>3. CASE ~(worker[w].pc \in Executing \/ w \in returned) /\ worker[w].pc = "defer"
    BY <2>1, <2>3 DEF CancelledPlace, Worker, At, OfRow
  <2>4. CASE ~(worker[w].pc \in Executing \/ w \in returned) /\ worker[w].pc # "defer"
    BY <2>1, <2>4 DEF CancelledPlace, Worker, At, OfRow, Gone, Places
  <2> QED BY <2>2, <2>3, <2>4
<1>3. status' = status /\ lane' = lane /\ submissions' = submissions
  BY DEF rows
<1>4. Typed'
  <2>1. worker' \in [Workers -> Worker]
    BY <1>1, <1>2
  <2> QED BY <2>1, <1>1, <1>2, <1>3 DEF IInv, Typed, OfRow
<1>5. Calm
  BY <1>2, <1>3, RowsStay DEF Calm, IInv, OfRow
<1>6. OneTaker'
  BY <1>1, <1>2 DEF OneTaker, Takers, Taking
<1> QED BY <1>4, <1>5, <1>6, CalmSteps DEF IInv, RowFacts

\* A crash leaves the rows and nobody at work.
LEMMA CrashStep ==
  ASSUME IInv, Crash
  PROVE  IInv'
<1>1. /\ worker' = [w \in Workers |-> Gone] /\ current' = [l \in Lanes |-> NoWorker]
      /\ status' = status /\ lane' = lane /\ submissions' = submissions
  BY DEF Crash, rows
<1>2. Gone \in Worker /\ Gone.pc = "gone" /\ ~Gone.cancelled
  BY DEF Gone, Worker, Places
<1> HIDE DEF Gone
<1>3. Typed'
  BY <1>1, <1>2 DEF IInv, Typed
<1>4. Calm
  BY <1>1, <1>2, RowsStay DEF Calm, IInv
<1>5. OneTaker'
  BY <1>1, <1>2 DEF OneTaker, Takers, Taking
<1> QED BY <1>3, <1>4, <1>5, CalmSteps DEF IInv, RowFacts

----------------------------------------------------------------------------
\* Every step keeps the invariant.
THEOREM Inductive == IInv /\ [Next]_vars => IInv'
<1> SUFFICES ASSUME IInv, [Next]_vars PROVE IInv'
  OBVIOUS
<1>1. ASSUME NEW w \in Workers, Deliver(w) PROVE IInv'
  BY <1>1, LookStep, AdmitStep, ClaimStep, FailEarlyStep, SubmitStep, AskStep, FallbackStep, RefusedStep,
     FinishStep, WatchdogStep, RecordStep, DeferStep, AbandonStep, LeaveStep DEF Deliver
<1>2. ASSUME NEW l \in Lanes, Send(l) PROVE IInv'
  BY <1>2, SendStep
<1>3. ASSUME NEW m \in Messages, NEW l \in Lanes, DetachedClaim(m, l) PROVE IInv'
  BY <1>3, DetachedClaimStep
<1>4. CASE \/ Supersede \/ Continue \/ WakeQueued
           \/ \E m \in Messages : Resolve(m) \/ \E out \in {"ended", "unknown"} : Answer(m, out)
  BY <1>4, WakingStep
<1>5. CASE User \/ SwitchMode \/ Connect \/ Disconnect
  BY <1>5, AsideStep
<1>6. CASE BeginDelete \/ Stop
  <2>1. CancelWorkers /\ UNCHANGED <<rows, submissions>> /\ Ending'
    BY <1>6 DEF BeginDelete, Stop, Ending
  <2> QED BY <2>1, CancelStep
<1>7. CASE AbortDelete
  BY <1>7, AbortDeleteStep
<1>8. CASE Deleted \/ Stopped \/ Recover \/ Start
  BY <1>8, ServiceStep
<1>9. CASE Crash
  BY <1>9, CrashStep
<1>10. CASE UNCHANGED vars
  <2>1. UNCHANGED <<worker, current, submissions>> /\ status' = status /\ lane' = lane
        /\ (Ending => Ending')
    BY <1>10 DEF vars, rows, delivery, service, history, Ending
  <2> QED BY <2>1, RowsStay, QuietStep DEF IInv
<1> QED BY <1>1, <1>2, <1>3, <1>4, <1>5, <1>6, <1>7, <1>8, <1>9, <1>10 DEF Next

\* A message is handed to the agent at most once, for any number of messages, steers and
\* disturbances (claim, defer_steering, recover_inflight_as_unknown, _consume_target).
THEOREM NeverTwice == Spec => []AtMostOnce
<1>1. IInv => AtMostOnce
  BY DEF IInv, Once, AtMostOnce
<1> QED BY <1>1, Initially, Inductive, PTL DEF Spec

----------------------------------------------------------------------------
(* Tasks run alone                                                            *)

\* From before its claim until its execution ends a task holds the admission.
Admitted == {"claim", "claimed", "submitted"}
Alone == \A w \in Workers :
    w[1] = "task" /\ worker[w].pc \in Admitted => admitted = w /\ user # "active"

\* A worker that gives up the admission, or keeps it.
LEMMA AloneMove ==
  ASSUME IInv, Alone, NEW w \in Workers, NEW r \in Worker, Becomes(w, r), user' = user,
         r.pc \in Admitted => (worker[w].pc \in Admitted /\ admitted' = admitted) \/ w[1] # "task",
         admitted' = admitted \/ (admitted = w /\ r.pc \notin Admitted)
  PROVE  Alone'
<1>1. \A v \in Workers : worker'[v] = IF v = w THEN r ELSE worker[v]
  BY DEF Becomes, IInv, Typed
<1> QED BY <1>1 DEF Alone

\* The steps of a worker keep tasks alone: Admit takes the admission only when it is
\* free and the user away.
LEMMA DeliverAlone ==
  ASSUME IInv, Alone, NEW w \in Workers, Deliver(w)
  PROVE  Alone'
<1> USE DEF around
<1>1. Typed /\ Admitted \subseteq Places
  BY DEF IInv, Places, Admitted
<1>2. CASE Look(w) \/ Submit(w) \/ Refused(w)
  <2>1. user' = user /\ admitted' = admitted
    BY <1>2 DEF Look, Submit, Refused
  <2>2. CASE UNCHANGED worker
    BY <2>1, <2>2 DEF Alone
  <2>3. CASE \/ Go(w, "leaving") \/ \E m \in Messages : GoWith(w, "admit", m)
             \/ Go(w, "submitted") /\ worker[w].pc = "claimed"
             \/ w[1] = "steer" /\ \E p \in {"defer", "claim"} :
                    Go(w, p) \/ \E m \in Messages : GoWith(w, p, m)
    <3>1. \E r \in Worker : Becomes(w, r) /\ (r.pc \in Admitted => worker[w].pc \in Admitted \/ w[1] # "task")
      BY <2>3, <1>1, Moves DEF Admitted, Places
    <3> QED BY <3>1, <2>1, AloneMove
  <2> QED BY <1>2, <2>2, <2>3, WorkersAreSomebody, HeadIsQueued
       DEF Look, Submit, Refused, At, Lanes, Queued
<1>3. CASE Admit(w)
  <2>1. admitted = NoWorker /\ user' = user /\ user = "away"
    BY <1>3 DEF Admit, CanBegin
  <2>2. \A v \in Workers : v[1] = "task" => worker[v].pc \notin Admitted
    BY <2>1, WorkersAreSomebody DEF Alone
  <2>3. \A v \in Workers : v # w => worker'[v] = worker[v]
    BY <1>3, <1>1 DEF Admit, GoWith, Rest, Typed
  <2>4. worker'[w].pc \in Admitted => admitted' = w
    BY <1>3, <1>1 DEF Admit, GoWith, Rest, Typed, Admitted, Gone
  <2> QED BY <2>1, <2>2, <2>3, <2>4 DEF Alone
<1>4. CASE Claim(w)
  <2>1. \A v \in Workers : v # w => worker'[v] = worker[v]
    BY <1>4, <1>1 DEF Claim, Go, Rest, Typed
  <2>2. worker'[w].pc \in Admitted => worker[w].pc \in Admitted /\ admitted' = admitted
    BY <1>4, <1>1 DEF Claim, At, Go, Rest, Typed, Admitted, Gone
  <2>3. user' = user /\ (admitted' = admitted \/ admitted = w)
    BY <1>4 DEF Claim, Released
  <2> QED BY <2>1, <2>2, <2>3 DEF Alone
<1>5. CASE Ask(w)
  BY <1>5 DEF Ask, delivery, Alone
<1>6. CASE Finish(w) \/ Watchdog(w) \/ Record(w) \/ Abandon(w) \/ FailEarly(w)
  <2>1. \A v \in Workers : v # w => worker'[v] = worker[v]
    BY <1>6, <1>1 DEF Finish, Watchdog, Record, Abandon, FailEarly, Go, GoWith, Rest, Loop, Typed
  <2>2. worker'[w].pc \notin Admitted
    <3>1. CASE Watchdog(w)
      BY <3>1, <1>1 DEF Watchdog, Go, Typed, Admitted
    <3>2. CASE worker' = [worker EXCEPT ![w] = Gone]
      BY <3>2, <1>1 DEF Typed, Admitted, Gone
    <3>3. CASE Loop(w)
      BY <3>3, <1>1 DEF Loop, Typed, Admitted, Gone
    <3>4. CASE GoWith(w, "leaving", NoMessage)
      BY <3>4, <1>1 DEF GoWith, Typed, Admitted, Gone
    <3>5. CASE Rest(w)
      BY <3>5, <1>1 DEF Rest, Typed, Admitted, Gone
    <3> QED BY <1>6, <3>1, <3>2, <3>3, <3>4, <3>5 DEF Finish, Record, Abandon, FailEarly
  <2>3. user' = user /\ (admitted' = admitted \/ admitted = w)
    BY <1>6 DEF Finish, Watchdog, Record, Abandon, FailEarly, Released
  <2> QED BY <2>1, <2>2, <2>3 DEF Alone
<1>7. CASE Fallback(w) \/ Defer(w) \/ Leave(w)
  <2>1. user' = user /\ admitted' = admitted
    BY <1>7 DEF Fallback, Defer, Leave
  <2>2. \A v \in Workers : worker'[v] = worker[v] \/ worker'[v].pc \in {"idle", "gone"}
    <3>1. \A lanes, cur, block, hold : \A ws \in [Workers -> Worker] : Ensure(lanes, ws, cur, block, hold) =>
            \A v \in Workers : worker'[v] = ws[v] \/ worker'[v].pc = "idle"
      BY DEF Ensure, Gone
    <3> DEFINE Stepped(p) == [worker EXCEPT ![w] = [Gone EXCEPT !.pc = p]]
    <3>2. \A p \in {"idle", "gone"} : Stepped(p) \in [Workers -> Worker]
            /\ \A v \in Workers : Stepped(p)[v] = worker[v] \/ Stepped(p)[v].pc = p
      BY <1>1 DEF Typed, Worker, Gone, Places
    <3> DEFINE ended == [worker EXCEPT ![w] = Gone]
    <3>3. ended \in [Workers -> Worker] /\ \A v \in Workers : ended[v] = worker[v] \/ ended[v].pc = "gone"
      BY <1>1 DEF Typed, Worker, Gone, Places
    <3> HIDE DEF Stepped, ended
    <3>4. CASE Fallback(w)
      BY <3>1, <3>4, <1>1 DEF Fallback, Typed
    <3>5. CASE Leave(w)
      <4>1. worker' = ended \/ \E lanes, cur : Ensure(lanes, ended, cur, blocked, held)
        BY <3>5 DEF Leave, ended
      <4> QED BY <4>1, <3>1, <3>3
    <3>6. CASE Defer(w)
      <4>1. PICK p \in {"idle", "gone"} : worker' = Stepped(p)
              \/ Ensure(Lanes, Stepped(p), current, blocked, held)
        BY <3>6 DEF Defer, Stepped
      <4> QED BY <4>1, <3>1, <3>2
    <3> QED BY <1>7, <3>4, <3>5, <3>6
  <2> QED BY <2>1, <2>2 DEF Alone, Admitted
<1> QED BY <1>2, <1>3, <1>4, <1>5, <1>6, <1>7 DEF Deliver

\* The steps around the workers keep tasks alone: a user begins only when no task is
\* admitted.
LEMMA AroundAlone ==
  ASSUME IInv, Alone, Next, ~\E w \in Workers : Deliver(w)
  PROVE  Alone'
<1> USE DEF around
<1>1. \A lanes, cur, block, hold : Ensure(lanes, worker, cur, block, hold) =>
        \A v \in Workers : worker'[v] = worker[v] \/ worker'[v].pc = "idle"
  BY DEF Ensure, Gone
<1>2. CASE User
  BY <1>2, WorkersAreSomebody DEF User, delivery, Alone
<1>3. CASE \/ SwitchMode \/ Connect \/ Disconnect \/ Deleted \/ Stopped \/ Recover \/ Start
           \/ \E m \in Messages, l \in Lanes : DetachedClaim(m, l)
  BY <1>3 DEF SwitchMode, Connect, Disconnect, Deleted, Stopped, Recover, Start,
       DetachedClaim, delivery, Alone
<1>4. CASE \/ Supersede \/ Continue \/ WakeQueued \/ AbortDelete \/ \E l \in Lanes : Send(l)
           \/ \E m \in Messages : Resolve(m) \/ \E out \in {"ended", "unknown"} : Answer(m, out)
  <2>1. user' = user /\ admitted' = admitted
    BY <1>4 DEF Supersede, Continue, WakeQueued, AbortDelete, Send, Resolve, Answer
  <2>2. \A v \in Workers : worker'[v] = worker[v] \/ worker'[v].pc = "idle"
    BY <1>1, <1>4 DEF Supersede, Continue, WakeQueued, AbortDelete, Send, Resolve, Answer, EnsureBoth
  <2> QED BY <2>1, <2>2 DEF Alone, Admitted
<1>5. CASE BeginDelete \/ Stop
  <2>1. user' = user /\ \E returned : worker' = [w \in Workers |-> CancelledPlace(w, returned)]
    BY <1>5 DEF BeginDelete, Stop, CancelWorkers
  <2>2. \A v \in Workers : worker'[v].pc \notin Admitted
    BY <2>1 DEF CancelledPlace, At, Gone, Admitted, IInv, Typed, Worker
  <2> QED BY <2>1, <2>2 DEF Alone
<1>6. CASE Crash
  BY <1>6 DEF Crash, Gone, Alone, Admitted
<1> QED BY <1>2, <1>3, <1>4, <1>5, <1>6 DEF Next

\* An ordinary task that was handed over runs alone, for any number of messages, steers
\* and disturbances (begin_session_message, begin_user, finish).
THEOREM TasksAreAlone == Spec => []TasksRunAlone
<1>1. Init => Alone
  BY DEF Init, Alone, Gone, Admitted
<1>2. IInv /\ Alone /\ [Next]_vars => Alone'
  <2> SUFFICES ASSUME IInv, Alone, [Next]_vars PROVE Alone'
    OBVIOUS
  <2>1. CASE UNCHANGED vars
    BY <2>1 DEF vars, delivery, around, Alone
  <2> QED BY <2>1, DeliverAlone, AroundAlone
<1>3. Alone => TasksRunAlone
  BY DEF Alone, TasksRunAlone, Admitted, InHand
<1>4. Spec => []IInv
  BY Initially, Inductive, PTL DEF Spec
<1> QED BY <1>1, <1>2, <1>3, <1>4, PTL DEF Spec

----------------------------------------------------------------------------
(* Holds and deletions                                                        *)

\* A deleted session has no row that could be delivered, and nobody to do it.
Buried == deleted => ~blocked /\ AllGone /\ \A m \in Messages : status[m] \in {"none", "ended"}

\* Nobody works for a session that waits for its user, or before the service has started,
\* unless a failed deletion started workers there.
Dormant == started # "yes" \/ held => woken \/ AllGone

\* A flag that forbids workers: none starts.
LEMMA HoldsBack ==
  ASSUME NEW lanes, NEW ws \in [Workers -> Worker], NEW cur, NEW block, NEW hold,
         Ensure(lanes, ws, cur, block, hold), stopping \/ block \/ hold
  PROVE  worker' = ws
BY DEF Ensure

\* A worker's step touches no flag and needs a worker.
LEMMA WorkersStep ==
  ASSUME NEW w \in Workers, Deliver(w)
  PROVE  ~AllGone /\ UNCHANGED service
BY DEF Deliver, Look, Admit, Claim, FailEarly, Submit, Ask, Fallback, Refused, Finish, Watchdog, Record,
   Defer, Abandon, Leave, At, AllGone

\* A cancellation gives nobody work.
LEMMA CancelledStayGone ==
  ASSUME CancelWorkers, AllGone
  PROVE  AllGone'
BY DEF CancelWorkers, CancelledPlace, AllGone, At, Executing, Gone

\* Nothing brings a deleted session's rows back, and only a session with rows to deliver gets workers.
LEMMA BuriedStep == ASSUME Typed, Buried, [Next]_vars PROVE Buried'
<1> USE DEF Buried
<1>1. ASSUME NEW w \in Workers, Deliver(w) PROVE Buried'
  BY <1>1, WorkersStep DEF service
<1>2. ASSUME \/ \E l \in Lanes : Send(l)
             \/ \E m \in Messages : Resolve(m) \/ \E out \in {"ended", "unknown"} : Answer(m, out)
             \/ Supersede \/ Continue \/ WakeQueued \/ BeginDelete \/ AbortDelete
      PROVE  Buried'
  BY <1>2 DEF Send, Resolve, Answer, Supersede, Continue, WakeQueued, BeginDelete, AbortDelete, service
<1>3. ASSUME NEW m \in Messages, NEW l \in Lanes, DetachedClaim(m, l) PROVE Buried'
  BY <1>3 DEF DetachedClaim, Claimable, service, AllGone, At
<1>4. ASSUME User \/ SwitchMode \/ Connect \/ Disconnect \/ Stopped \/ Start \/ UNCHANGED vars PROVE Buried'
  <2>1. worker' = worker /\ status' = status /\ blocked' = blocked /\ deleted' = deleted
    BY <1>4 DEF User, SwitchMode, Connect, Disconnect, Stopped, Start, vars, rows, delivery, service
  <2> QED BY <2>1 DEF AllGone, At
<1>5. ASSUME Recover PROVE Buried'
  BY <1>5 DEF Recover, delivery, AllGone, At, InFlight
<1>6. ASSUME Deleted PROVE Buried'
  BY <1>6 DEF Deleted, delivery, AllGone, At, Cancellable, Typed, Statuses
<1>7. ASSUME Stop PROVE Buried'
  BY <1>7, CancelledStayGone DEF Stop, rows
<1>8. ASSUME Crash PROVE Buried'
  BY <1>8 DEF Crash, rows, Gone, AllGone, At
<1> QED BY <1>1, <1>2, <1>3, <1>4, <1>5, <1>6, <1>7, <1>8 DEF Next

\* Only a crash, or the end of the service, forgets that a failed deletion woke the queue.
LEMMA StaysWoken ==
  ASSUME [Next]_vars, woken, ~woken'
  PROVE  AllGone'
<1>1. ASSUME NEW w \in Workers, Deliver(w) PROVE woken' = woken
  BY <1>1 DEF Deliver, Look, Admit, Claim, FailEarly, Submit, Ask, Fallback, Refused, Finish, Watchdog, Record,
     Defer, Abandon, Leave, history
<1>2. ASSUME Next, ~\E w \in Workers : Deliver(w), ~Stopped, ~Crash PROVE woken' \/ woken' = woken
  BY <1>2 DEF Next, Send, DetachedClaim, Resolve, Answer, Supersede, Continue, User, SwitchMode, Connect,
     WakeQueued, Disconnect, BeginDelete, AbortDelete, Deleted, Stop, Recover, Start, history
<1>3. ASSUME Stopped \/ Crash PROVE AllGone'
  BY <1>3 DEF Stopped, Crash, delivery, Gone, AllGone, At
<1> QED BY <1>1, <1>2, <1>3 DEF vars, history

\* A target that is held gets no workers, unless a failed deletion starts them before the service.
LEMMA DormantStep == ASSUME Typed, Dormant, [Next]_vars PROVE Dormant'
<1> SUFFICES ASSUME ~woken', ~AllGone' PROVE ~(started' # "yes" \/ held')
  BY DEF Dormant
<1>0. worker \in [Workers -> Worker] /\ ~woken
  BY StaysWoken DEF Typed
<1> USE <1>0 DEF Dormant
<1>1. ASSUME NEW w \in Workers, Deliver(w) PROVE Dormant'
  BY <1>1, WorkersStep DEF service
<1>2. ASSUME \/ \E l \in Lanes : Send(l)
             \/ \E m \in Messages, out \in {"ended", "unknown"} : Answer(m, out)
             \/ Supersede \/ WakeQueued
      PROVE  Dormant'
  <2>1. UNCHANGED service /\ started = "yes" /\ Ensure(Lanes, worker, current, blocked, held)
    BY <1>2 DEF Send, Answer, Supersede, WakeQueued, EnsureBoth
  <2> QED BY <1>0, <2>1, HoldsBack DEF service, AllGone, At
<1>3. ASSUME Continue \/ \E m \in Messages : Resolve(m) PROVE Dormant'
  BY <1>3 DEF Continue, Resolve
<1>4. ASSUME AbortDelete PROVE Dormant'
  <2>1. /\ started' = started /\ held' = held /\ AllGone
        /\ Ensure(Lanes, worker, current, FALSE, held)
        /\ started # "yes" => worker' = worker
    BY <1>4 DEF AbortDelete
  <2> QED BY <1>0, <2>1, HoldsBack DEF AllGone, At
<1>5. ASSUME \/ User \/ SwitchMode \/ Connect \/ Disconnect \/ Deleted \/ Recover \/ Start \/ Stopped
             \/ UNCHANGED vars \/ \E m \in Messages, l \in Lanes : DetachedClaim(m, l)
      PROVE  Dormant'
  <2>1. worker' = worker /\ (AllGone => AllGone')
    BY <1>5 DEF User, SwitchMode, Connect, Disconnect, Deleted, Recover, Start, Stopped, DetachedClaim,
       vars, delivery, AllGone, At
  <2>2. UNCHANGED service \/ Deleted \/ Recover \/ Start \/ Stopped
    BY <1>5 DEF User, SwitchMode, Connect, Disconnect, DetachedClaim, vars
  <2>3. CASE UNCHANGED service
    BY <2>1, <2>3 DEF service
  <2>4. CASE Deleted
    BY <2>1, <2>4 DEF Deleted
  <2>5. CASE Recover
    BY <2>1, <2>5 DEF Recover
  <2>6. CASE Start \/ Stopped
    BY <2>1, <2>6 DEF Start, Stopped
  <2> QED BY <2>2, <2>3, <2>4, <2>5, <2>6
<1>6. ASSUME BeginDelete \/ Stop PROVE Dormant'
  BY <1>6, CancelledStayGone DEF BeginDelete, Stop
<1>7. ASSUME Crash PROVE Dormant'
  BY <1>7 DEF Crash, Gone, AllGone, At
<1> QED BY <1>1, <1>2, <1>3, <1>4, <1>5, <1>6, <1>7 DEF Next

\* The inductive invariant holds throughout.
THEOREM Invariance == Spec => []IInv
BY Initially, Inductive, PTL DEF Spec

\* A deleted session has no outstanding row and nobody who works on one (on_target_deleted),
\* for any number of messages, workers and disturbances.
THEOREM DeletedIsQuietHolds == Spec => []DeletedIsQuiet
<1>1. Init => Buried
  BY DEF Init, Buried
<1>2. IInv /\ Buried /\ [Next]_vars => Buried'
  BY BuriedStep DEF IInv
<1>3. Buried => DeletedIsQuiet
  BY DEF Buried, DeletedIsQuiet, Outstanding, Unsettled, InHand, AllGone, At
<1> QED BY <1>1, <1>2, <1>3, Invariance, PTL DEF Spec

\* What a restart found queued waits for its user, in every behaviour in which no failed
\* deletion has woken the queue before the service was started (start, abort_target_delete).
THEOREM HeldIsHeldUnlessWoken == Spec => []HeldIsHeld
<1>1. Init => Dormant
  BY DEF Init, Dormant, AllGone, At, Gone
<1>2. IInv /\ Dormant /\ [Next]_vars => Dormant'
  BY DormantStep DEF IInv
<1>3. Dormant => HeldIsHeld
  BY DEF Dormant, HeldIsHeld, InHand, AllGone, At
<1> QED BY <1>1, <1>2, <1>3, Invariance, PTL DEF Spec

----------------------------------------------------------------------------
(* Where a step can take a worker and its row                                  *)

Resting == {"gone", "idle", "leaving"}
Holding == {"claimed", "submitted", "record"}

\* What a step does to worker v: it rests, stays, goes on with its row, or takes a new one.
Transition(v) ==
  \/ worker'[v].pc \in Resting
  \/ /\ worker'[v].row = worker[v].row
     /\ \/ worker'[v].pc = worker[v].pc
        \/ Claim(v) /\ worker'[v].pc = "claimed" /\ lane[worker[v].row] = v[1]
        \/ Submit(v) /\ worker'[v].pc = "submitted"
        \/ worker[v].pc = "claimed" /\ worker'[v].pc = "defer"
        \/ worker[v].pc = "submitted" /\ worker'[v].pc = "record"
        \/ (BeginDelete \/ Stop) /\ worker'[v].pc = "abandon"
  \/ Look(v) /\ v[1] = "steer" /\ worker'[v].pc \in {"claim", "defer"}
  \/ Look(v) /\ v[1] = "task" /\ worker'[v].pc = "admit"
  \/ Admit(v) /\ worker'[v].pc = "claim"

\* A worker that becomes a record, and the others, which stay.
LEMMA OneTransition ==
  ASSUME Typed, NEW w \in Workers, NEW r, Becomes(w, r), Transition(w), NEW v \in Workers
  PROVE  Transition(v)
BY DEF Becomes, Typed, Transition

\* Ensure starts resting workers.
LEMMA EnsureTransition ==
  ASSUME NEW lanes, NEW ws \in [Workers -> Worker], NEW cur, NEW block, NEW hold,
         Ensure(lanes, ws, cur, block, hold), NEW v \in Workers
  PROVE  worker'[v] = ws[v] \/ worker'[v].pc = "idle"
BY DEF Ensure, Gone

\* A worker's own step takes every worker along one of the transitions.
LEMMA WorkerTransition ==
  ASSUME IInv, NEW w \in Workers, Deliver(w), NEW v \in Workers
  PROVE  Transition(v)
<1>0. Typed /\ worker \in [Workers -> Worker]
  BY DEF IInv, Typed
<1> DEFINE Takes(p) == [Gone EXCEPT !.pc = p]
<1>1. CASE Look(w)
  <2>1. \/ worker' = worker
        \/ \E r : /\ Becomes(w, r)
                  /\ \/ r.pc \in Resting
                     \/ w[1] = "task" /\ r.pc = "admit"
                     \/ w[1] = "steer" /\ r.pc \in {"claim", "defer"}
    <3>1. CASE worker' = worker
      BY <3>1
    <3>2. CASE Go(w, "leaving")
      BY <3>2, <1>0, Moves DEF Places, Resting
    <3>3. CASE \/ w[1] = "steer" /\ \E p \in {"claim", "defer"} : GoWith(w, p, Head(w[1], lane)) /\ Head(w[1], lane) # NoMessage
               \/ w[1] = "task" /\ GoWith(w, "admit", Head(w[1], lane)) /\ Head(w[1], lane) # NoMessage
      <4>1. Head(w[1], lane) \in Messages
        BY <3>3, HeadIsQueued DEF Queued
      <4> QED BY <3>3, <4>1, <1>0, Moves DEF Places
    <3> QED BY <1>1, <3>1, <3>2, <3>3, WorkersAreSomebody DEF Look, Lanes
  <2>2. worker' = worker \/ \E r : Becomes(w, r) /\ Transition(w)
    BY <2>1, <1>0, <1>1 DEF Becomes, Transition
  <2> QED BY <2>2, <1>0, OneTransition DEF Transition
<1>2. CASE Admit(w)
  <2>1. \E r : Becomes(w, r) /\ r.pc \in {"claim", "idle"}
    <3>1. CASE Rest(w)
      BY <3>1, <1>0, Moves DEF Places
    <3>2. ASSUME NEW ln, Head("task", ln) # NoMessage, GoWith(w, "claim", Head("task", ln))
          PROVE  \E r : Becomes(w, r) /\ r.pc \in {"claim", "idle"}
      <4>1. Head("task", ln) \in Messages
        BY <3>2, HeadIsQueued DEF Queued
      <4> QED BY <3>2, <4>1, <1>0, Moves DEF Places
    <3> QED BY <1>2, <3>1, <3>2 DEF Admit
  <2>2. \E r : Becomes(w, r) /\ Transition(w)
    BY <2>1, <1>0, <1>2 DEF Becomes, Transition, Resting
  <2> QED BY <2>2, <1>0, OneTransition
<1>3. CASE Claim(w)
  <2>1. CASE Go(w, "claimed") /\ lane[worker[w].row] = w[1]
    <3>1. \E r \in Worker : Becomes(w, r) /\ r.pc = "claimed" /\ r.row = worker[w].row
      BY <2>1, <1>0, Moves DEF Places
    <3>2. \E r : Becomes(w, r) /\ Transition(w)
      BY <3>1, <2>1, <1>0, <1>3 DEF Becomes, Transition
    <3> QED BY <3>2, <1>0, OneTransition
  <2>2. CASE Rest(w)
    <3>1. \E r : Becomes(w, r) /\ r.pc = "idle"
      BY <2>2, <1>0, Moves DEF Places
    <3>2. \E r : Becomes(w, r) /\ Transition(w)
      BY <3>1, <1>0 DEF Becomes, Transition, Resting
    <3> QED BY <3>2, <1>0, OneTransition
  <2> QED BY <2>1, <2>2, <1>3 DEF Claim, Claimable
<1>4. CASE Submit(w) \/ Refused(w) \/ Watchdog(w)
  <2>1. \E p \in Places : /\ Go(w, p)
                          /\ \/ p = "submitted" /\ Submit(w)
                             \/ p = "defer" /\ worker[w].pc = "claimed"
                             \/ p = "record" /\ worker[w].pc = "submitted"
    BY <1>4 DEF Submit, Refused, Watchdog, At, Places
  <2>2. PICK p \in Places : /\ Go(w, p)
                            /\ \/ p = "submitted" /\ Submit(w)
                               \/ p = "defer" /\ worker[w].pc = "claimed"
                               \/ p = "record" /\ worker[w].pc = "submitted"
    BY <2>1
  <2>3. PICK r \in Worker : Becomes(w, r) /\ r.pc = p /\ r.row = worker[w].row
    BY <2>2, <1>0, Moves
  <2>4. Transition(w)
    BY <2>2, <2>3, <1>0 DEF Becomes, Transition
  <2> QED BY <2>3, <2>4, <1>0, OneTransition
<1>5. CASE Ask(w)
  BY <1>5 DEF Ask, delivery, Transition
<1>6. CASE Finish(w) \/ Record(w) \/ Abandon(w) \/ FailEarly(w)
  <2>1. \E r : Becomes(w, r) /\ r.pc \in Resting
    <3>1. CASE Loop(w)
      BY <3>1, <1>0, Moves DEF Places, Resting
    <3>2. CASE GoWith(w, "leaving", NoMessage)
      BY <3>2, <1>0, Moves DEF Places, Resting
    <3>3. CASE worker' = [worker EXCEPT ![w] = Gone]
      <4>1. Becomes(w, Gone) /\ Gone.pc = "gone"
        BY <3>3 DEF Becomes, Gone
      <4> QED BY <4>1 DEF Resting
    <3>4. CASE Rest(w)
      BY <3>4, <1>0, Moves DEF Places, Resting
    <3> QED BY <1>6, <3>1, <3>2, <3>3, <3>4 DEF Finish, Record, Abandon, FailEarly
  <2>2. \E r : Becomes(w, r) /\ Transition(w)
    BY <2>1, <1>0 DEF Becomes, Transition
  <2> QED BY <2>2, <1>0, OneTransition
<1>7. CASE Fallback(w)
  BY <1>7, <1>0, EnsureTransition DEF Fallback, Transition, Resting
<1>8. CASE Leave(w) \/ Defer(w)
  <2> DEFINE Left(p) == [worker EXCEPT ![w] = Takes(p)]
  <2>1. \A p \in {"idle", "gone"} : Left(p) \in [Workers -> Worker]
           /\ \A u \in Workers : Left(p)[u] = worker[u] \/ Left(p)[u].pc \in {"idle", "gone"}
    BY <1>0 DEF Worker, Gone, Places
  <2>2. \E p \in {"idle", "gone"} : worker' = Left(p) \/ \E lanes, cur, block, hold : Ensure(lanes, Left(p), cur, block, hold)
    <3>1. CASE Leave(w)
      <4>1. [worker EXCEPT ![w] = Gone] = Left("gone")
        BY DEF Gone
      <4> QED BY <3>1, <4>1 DEF Leave
    <3>2. CASE Defer(w)
      BY <3>2 DEF Defer
    <3> QED BY <1>8, <3>1, <3>2
  <2> HIDE DEF Left
  <2>3. \A u \in Workers : worker'[u] = worker[u] \/ worker'[u].pc \in {"idle", "gone"}
    BY <2>1, <2>2, EnsureTransition
  <2> QED BY <2>3 DEF Transition, Resting
<1> QED BY <1>1, <1>2, <1>3, <1>4, <1>5, <1>6, <1>7, <1>8 DEF Deliver

\* Every step of the program takes every worker along one of the transitions.
LEMMA EveryTransition ==
  ASSUME IInv, [Next]_vars, NEW v \in Workers
  PROVE  Transition(v)
<1>0. worker \in [Workers -> Worker]
  BY DEF IInv, Typed
<1>1. ASSUME NEW w \in Workers, Deliver(w) PROVE Transition(v)
  BY <1>1, WorkerTransition
<1>2. CASE \/ \E l \in Lanes : Send(l)
           \/ \E m \in Messages : Resolve(m) \/ \E out \in {"ended", "unknown"} : Answer(m, out)
           \/ Supersede \/ Continue \/ WakeQueued \/ AbortDelete
  <2>1. \E block, hold : Ensure(Lanes, worker, current, block, hold)
    BY <1>2 DEF Send, Resolve, Answer, Supersede, Continue, WakeQueued, AbortDelete, EnsureBoth
  <2> QED BY <1>0, <2>1, EnsureTransition DEF Transition, Resting
<1>3. CASE \/ User \/ SwitchMode \/ Connect \/ Disconnect \/ Deleted \/ Recover \/ Start \/ Stopped
           \/ UNCHANGED vars \/ \E m \in Messages, l \in Lanes : DetachedClaim(m, l)
  <2>1. worker' = worker
    BY <1>3 DEF User, SwitchMode, Connect, Disconnect, Deleted, Recover, Start, Stopped, DetachedClaim,
       vars, delivery
  <2> QED BY <2>1 DEF Transition
<1>4. CASE BeginDelete \/ Stop
  <2>1. PICK returned : worker' = [w \in Workers |-> CancelledPlace(w, returned)]
    BY <1>4 DEF BeginDelete, Stop, CancelWorkers
  <2>2. \/ worker'[v] = [worker[v] EXCEPT !.pc = "abandon"]
        \/ worker'[v] = [worker[v] EXCEPT !.cancelled = TRUE]
        \/ worker'[v] = Gone
    BY <2>1 DEF CancelledPlace
  <2> QED BY <1>0, <1>4, <2>2 DEF Transition, Worker, Gone, Resting
<1>5. CASE Crash
  BY <1>5 DEF Crash, Gone, Transition, Resting
<1> QED BY <1>1, <1>2, <1>3, <1>4, <1>5 DEF Next

----------------------------------------------------------------------------
(* What lanes a worker's row, and a row, can be in                             *)

\* A row that was claimed is in its worker's lane.
RowLanes == \A w \in Workers : worker[w].pc \in Holding => lane[worker[w].row] = w[1]

\* What was submitted was handed over.
HandedOver == \A w \in Workers : worker[w].pc \in {"submitted", "record"} => submissions[worker[w].row] # 0

\* A cancelled execution reports before the deletion or the stop goes on, and during
\* these no worker takes rows.
Halted == /\ \A w \in Workers : worker[w].pc = "abandon" => Ending
          /\ Ending => \A l \in Lanes : current[l] = NoWorker

\* A row wanted as a task is never in the lane of steers.
AskedLanes == asked \in [Messages -> Lanes] /\ \A m \in Messages : lane[m] = "steer" => asked[m] = "steer"

\* Only tasks are admitted.
Admitting == \A w \in Workers : worker[w].pc = "admit" => w[1] = "task"

Hands == RowLanes /\ HandedOver /\ Halted /\ AskedLanes /\ Admitting

\* What a step may do to the lane of row m.
Relaned(m) ==
  \/ lane'[m] = lane[m] /\ asked'[m] = asked[m]
  \/ /\ lane'[m] = "task" /\ asked'[m] = asked[m]
     /\ status[m] = "queued" \/ \E w \in Workers : Defer(w) /\ worker[w].row = m /\ Deferred(m)
  \/ status[m] = "none" /\ status'[m] = "queued" /\ (lane'[m] = "steer" => asked'[m] = "steer")

\* The next number is that of a row not sent yet.
LEMMA NextIsNew ==
  ASSUME IInv, Count < MaxMessages
  PROVE  /\ Count + 1 \in Messages /\ status[Count + 1] = "none"
         /\ \A m \in Messages : m > Count => status[m] = "none"
<1>1. PICK n \in 0..MaxMessages : \A m \in Messages : status[m] = "none" <=> m > n
  BY DEF IInv, RowsInOrder
<1>2. {m \in Messages : status[m] # "none"} = 1..n
  BY <1>1, MailboxAssumption DEF Messages
<1>3. Cardinality(1..n) = n
  BY <1>1, MailboxAssumption, FS_Interval
<1>4. Count = n
  BY <1>2, <1>3 DEF Count
<1> QED BY <1>1, <1>4, MailboxAssumption DEF Messages

\* Rows change lanes by the three ways of Relaned only, and join the tasks but never the steers.
LEMMA LaneStep ==
  ASSUME IInv, AskedLanes, [Next]_vars
  PROVE  asked' \in [Messages -> Lanes] /\ \A m \in Messages : Relaned(m)
<1> USE DEF AskedLanes
<1>0. lane \in [Messages -> Lanes] /\ status \in [Messages -> Statuses]
  BY DEF IInv, Typed
<1>1. ASSUME NEW want \in Lanes, Send(want) PROVE asked' \in [Messages -> Lanes] /\ \A m \in Messages : Relaned(m)
  <2>1. /\ Count + 1 \in Messages /\ status[Count + 1] = "none"
        /\ status' = [status EXCEPT ![Count + 1] = "queued"]
        /\ asked' = [asked EXCEPT ![Count + 1] = want]
        /\ lane' = [lane EXCEPT ![Count + 1] = IF mustQueue THEN "task" ELSE want]
    BY <1>1, NextIsNew DEF Send
  <2> QED BY <1>0, <2>1 DEF Relaned, Lanes
<1>2. ASSUME NEW w \in Workers, Admit(w) PROVE asked' = asked /\ \A m \in Messages : Relaned(m)
  <2>1. asked' = asked /\ lane' \in {lane, Joined}
    BY <1>2 DEF Admit
  <2> QED BY <1>0, <2>1 DEF Joined, Relaned
<1>3. ASSUME NEW w \in Workers, Defer(w) PROVE asked' = asked /\ \A m \in Messages : Relaned(m)
  <2>1. asked' = asked /\ worker[w].row \in Messages
    BY <1>3 DEF Defer, At, IInv, Typed
  <2>2. \/ lane' = lane
        \/ lane' = [lane EXCEPT ![worker[w].row] = "task"] /\ Deferred(worker[w].row)
    BY <1>3 DEF Defer
  <2> QED BY <1>0, <1>3, <2>1, <2>2 DEF Relaned
<1>4. ASSUME NEW w \in Workers, Deliver(w), ~Admit(w), ~Defer(w) PROVE asked' = asked /\ lane' = lane
  BY <1>4 DEF Deliver, Look, Claim, FailEarly, Submit, Ask, Fallback, Refused, Finish, Watchdog, Record, Abandon,
     Leave, rows
<1>5. ASSUME Next, ~\E l \in Lanes : Send(l), ~\E w \in Workers : Deliver(w) PROVE asked' = asked /\ lane' = lane
  BY <1>5 DEF Next, DetachedClaim, Resolve, Answer, Supersede, Continue, User, SwitchMode, Connect,
     WakeQueued, Disconnect, BeginDelete, AbortDelete, Deleted, Stop, Stopped, Recover, Start, Crash, rows
<1>6. CASE asked' = asked /\ lane' = lane
  BY <1>6 DEF Relaned
<1> QED BY <1>1, <1>2, <1>3, <1>4, <1>5, <1>6 DEF vars, rows

\* A row that has been handed over stays so.
LEMMA NothingIsTakenBack ==
  ASSUME IInv, [Next]_vars, NEW m \in Messages, submissions[m] # 0
  PROVE  submissions'[m] # 0
<1>1. submissions \in [Messages -> Nat]
  BY DEF IInv, Typed
<1>2. ASSUME NEW w \in Workers, Submit(w) PROVE submissions'[m] # 0
  BY <1>1, <1>2 DEF Submit, At, IInv, Typed
<1>3. ASSUME NEW w \in Workers, Deliver(w), ~Submit(w) PROVE submissions' = submissions
  BY <1>3 DEF Deliver, Look, Admit, Claim, FailEarly, Ask, Fallback, Refused, Finish, Watchdog, Record, Defer,
     Abandon, Leave, history
<1>4. ASSUME Next, ~\E w \in Workers : Deliver(w) PROVE submissions' = submissions
  BY <1>4 DEF Next, Send, DetachedClaim, Resolve, Answer, Supersede, Continue, User, SwitchMode, Connect,
     WakeQueued, Disconnect, BeginDelete, AbortDelete, Deleted, Stop, Stopped, Recover, Start, Crash,
     history
<1> QED BY <1>2, <1>3, <1>4 DEF vars, history

\* Cancellation ends only when every worker is gone.
LEMMA EndingEnds ==
  ASSUME Ending, ~Ending', [Next]_vars
  PROVE  AllGone \/ Crash
<1>1. ASSUME NEW w \in Workers, Deliver(w) PROVE Ending'
  BY <1>1, WorkersStep DEF service, Ending
<1> QED BY <1>1 DEF Next, Ending, Send, DetachedClaim, Resolve, Answer, Supersede, Continue, User, SwitchMode,
     Connect, WakeQueued, Disconnect, BeginDelete, AbortDelete, Deleted, Stop, Stopped, Recover, Start,
     service, vars

\* It begins with a cancellation.
LEMMA EndingBegins ==
  ASSUME ~Ending, Ending', [Next]_vars
  PROVE  BeginDelete \/ Stop
<1>1. ASSUME NEW w \in Workers, Deliver(w) PROVE ~Ending'
  BY <1>1, WorkersStep DEF service, Ending
<1> QED BY <1>1 DEF Next, Ending, Send, DetachedClaim, Resolve, Answer, Supersede, Continue, User, SwitchMode,
     Connect, WakeQueued, Disconnect, AbortDelete, Deleted, Stopped, Recover, Start, Crash,
     service, vars

\* During it no lane gets a worker.
LEMMA HaltedStep ==
  ASSUME IInv, Halted, [Next]_vars
  PROVE  Halted'
<1>1. ASSUME NEW w \in Workers, worker'[w].pc = "abandon" PROVE Ending'
  <2>1. worker[w].pc = "abandon" \/ BeginDelete \/ Stop
    BY <1>1, EveryTransition DEF Transition, Resting, Claim, Submit, At
  <2>2. CASE worker[w].pc = "abandon"
    <3>1. ~AllGone /\ ~Crash
      BY <1>1, <2>2 DEF AllGone, At, Crash, Gone
    <3> QED BY <2>2, <3>1, EndingEnds DEF Halted
  <2> QED BY <2>1, <2>2 DEF BeginDelete, Stop, Ending
<1>2. ASSUME Ending', NEW l \in Lanes PROVE current'[l] = NoWorker
  <2>1. CASE BeginDelete \/ Stop \/ Crash
    BY <2>1 DEF BeginDelete, Stop, CancelWorkers, Crash
  <2>2. CASE ~(BeginDelete \/ Stop \/ Crash)
    <3>1. Ending /\ \A k \in Lanes : current[k] = NoWorker
      BY <1>2, <2>2, EndingBegins DEF Halted
    <3>2. \A lanes, ws, cur, block, hold : (stopping \/ block) /\ Ensure(lanes, ws, cur, block, hold) =>
             current'[l] = cur[l]
      BY DEF Ensure
    <3>3. ASSUME NEW w \in Workers, Deliver(w) PROVE current'[l] = NoWorker
      <4>0. stopping \/ blocked
        BY <3>1 DEF Ending
      <4>1. ASSUME Fallback(w) PROVE FALSE
        BY <4>1, <3>1, WorkersAreSomebody DEF Fallback, Lanes
      <4>2. CASE Leave(w)
        <5>1. current[w[1]] # w
          BY <3>1, WorkersAreSomebody
        <5>2. \E lanes, ws, block, hold : Ensure(lanes, ws, current, blocked, held) \/ current' = current
          BY <4>2, <5>1 DEF Leave
        <5> QED BY <5>2, <4>0, <3>1, <3>2
      <4>3. CASE Defer(w)
        <5>1. \E ws : Ensure(Lanes, ws, current, blocked, held) \/ current' = current
          BY <4>3 DEF Defer
        <5> QED BY <5>1, <4>0, <3>1, <3>2
      <4>4. CASE ~(Fallback(w) \/ Leave(w) \/ Defer(w))
        BY <3>1, <3>3, <4>4 DEF Deliver, Look, Admit, Claim, FailEarly, Submit, Ask, Refused, Finish, Watchdog,
           Record, Abandon, delivery
      <4> QED BY <4>1, <4>2, <4>3, <4>4
    <3>4. CASE \/ \E k \in Lanes : Send(k)
               \/ \E m \in Messages : Resolve(m) \/ \E out \in {"ended", "unknown"} : Answer(m, out)
               \/ Supersede \/ Continue \/ WakeQueued
      <4>1. \E hold : Ensure(Lanes, worker, current, blocked, hold)
        BY <3>4 DEF Send, Resolve, Answer, Supersede, Continue, WakeQueued, EnsureBoth
      <4> QED BY <3>1, <3>2, <4>1 DEF Ending
    <3>5. CASE AbortDelete
      <4>1. stopping /\ Ensure(Lanes, worker, current, FALSE, held)
        BY <3>5, <1>2 DEF AbortDelete, Ending
      <4> QED BY <3>1, <3>2, <4>1
    <3>6. CASE \/ User \/ SwitchMode \/ Connect \/ Disconnect \/ Deleted \/ Recover \/ Start \/ Stopped
               \/ UNCHANGED vars \/ \E m \in Messages, k \in Lanes : DetachedClaim(m, k)
      BY <3>6, <3>1 DEF User, SwitchMode, Connect, Disconnect, Deleted, Recover, Start, Stopped,
         DetachedClaim, vars, delivery
    <3> QED BY <2>2, <3>3, <3>4, <3>5, <3>6 DEF Next
  <2> QED BY <2>1, <2>2
<1> QED BY <1>1, <1>2 DEF Halted

\* What is said of the workers' lanes and places is inductive.
LEMMA HandsStep ==
  ASSUME IInv, IInv', Hands, [Next]_vars
  PROVE  Hands'
<1>1. AskedLanes'
  BY LaneStep DEF Hands, AskedLanes, Relaned, Lanes
<1>2. HandedOver'
  <2> SUFFICES ASSUME NEW v \in Workers, worker'[v].pc \in {"submitted", "record"}
               PROVE  submissions'[worker'[v].row] # 0
    BY DEF HandedOver
  <2>1. worker'[v].row \in Messages /\ worker' \in [Workers -> Worker]
    BY DEF IInv, Typed
  <2>2. CASE Submit(v)
    <3>1. worker'[v].row = worker[v].row /\ submissions' = [submissions EXCEPT ![worker[v].row] = @ + 1]
          /\ worker[v].row \in Messages /\ submissions \in [Messages -> Nat]
      BY <2>2 DEF Submit, Go, At, IInv, Typed
    <3> QED BY <3>1
  <2>3. CASE ~Submit(v)
    <3>1. worker[v].pc \in {"submitted", "record"} /\ worker'[v].row = worker[v].row
      BY <2>3, EveryTransition DEF Transition, Resting
    <3> QED BY <3>1, <2>1, NothingIsTakenBack DEF Hands, HandedOver
  <2> QED BY <2>2, <2>3
<1>3. RowLanes'
  <2> SUFFICES ASSUME NEW v \in Workers, worker'[v].pc \in Holding
               PROVE  lane'[worker'[v].row] = v[1]
    BY DEF RowLanes
  <2> DEFINE m == worker[v].row
  <2>1. CASE Claim(v) /\ worker'[v].row = m /\ lane[m] = v[1]
    BY <2>1 DEF Claim
  <2>2. CASE worker[v].pc \in Holding /\ worker'[v].row = m
    <3>1. m \in Messages /\ lane[m] = v[1] /\ status[m] \notin {"none", "queued"}
      BY <2>2 DEF Hands, RowLanes, HandedOver, Holding, IInv, Typed, HandsDiffer, Once
    <3>2. ASSUME NEW w \in Workers, Defer(w), worker[w].row = m, Deferred(m) PROVE FALSE
      <4>1. submissions[m] = 0 /\ worker[v].pc # "claimed"
        BY <3>2 DEF Defer, At, IInv, DeferredIsFree
      <4> QED BY <4>1, <2>2 DEF Holding, Hands, HandedOver
    <3>3. lane'[m] = lane[m]
      BY <3>1, <3>2, LaneStep DEF Relaned, Hands
    <3> QED BY <2>2, <3>1, <3>3
  <2>3. \/ Claim(v) /\ worker'[v].row = m /\ lane[m] = v[1]
        \/ worker[v].pc \in Holding /\ worker'[v].row = m
    BY EveryTransition DEF Transition, Resting, Holding, Submit, At
  <2> QED BY <2>1, <2>2, <2>3
<1>4. Admitting'
  <2> SUFFICES ASSUME NEW v \in Workers, worker'[v].pc = "admit" PROVE v[1] = "task"
    BY DEF Admitting
  <2> QED BY EveryTransition DEF Transition, Resting, Hands, Admitting
<1> QED BY <1>1, <1>2, <1>3, <1>4, HaltedStep DEF Hands

\* It holds throughout, next to the inductive invariant.
THEOREM HandsThroughout == Spec => [](IInv /\ Hands)
<1>1. Init => Hands
  BY DEF Init, Hands, RowLanes, HandedOver, Halted, AskedLanes, Admitting, Gone, Holding, Ending, Lanes
<1>2. IInv /\ Hands /\ [Next]_vars => Hands'
  BY Inductive, HandsStep
<1> QED BY <1>1, <1>2, Invariance, PTL DEF Spec

----------------------------------------------------------------------------
(* No lost wake-up                                                             *)

\* A lane with a row to deliver.
Ready(l, st, ln, rel) == Blockers(l, st, ln, rel) = {} /\ Queued(l, st, ln) # {}
Open == started = "yes" /\ ~stopping /\ ~blocked /\ ~held

\* Somebody will look at the lane's queue.
Seen(l) == \/ current[l] # NoWorker \/ l \in lost
           \/ \E w \in Workers : w[1] = l /\ At(w, "leaving")

Awake == \A l \in Lanes : Open /\ Ready(l, status, lane, released) => Seen(l)

\* next_queued returns a row exactly where the lane is ready.
LEMMA HeadIsReady ==
  ASSUME NEW l, NEW ln
  PROVE  Head(l, ln) # NoMessage <=> Ready(l, status, ln, released)
<1>1. Queued(l, status, ln) # {} => Min(Queued(l, status, ln)) \in Messages
  <2>1. Queued(l, status, ln) \in SUBSET Nat /\ Queued(l, status, ln) \subseteq Messages
    BY DEF Queued, Messages
  <2> QED BY <2>1, Smallest
<1>2. NoMessage \notin Messages
  BY DEF NoMessage, Messages
<1> QED BY <1>1, <1>2 DEF Head, Ready

\* Where the flags allow it, Ensure gives every lane it is for a worker.
LEMMA EnsureWakes ==
  ASSUME NEW lanes, NEW ws, NEW cur, NEW block, NEW hold, Ensure(lanes, ws, cur, block, hold),
         ~stopping, ~block, ~hold, NEW l \in lanes, l \in Lanes
  PROVE  current'[l] # NoWorker
<1> DEFINE starts == {k \in lanes : cur[k] = NoWorker}
<1>1. /\ \A k \in starts : Free(k, ws) # {}
      /\ current' = [k \in Lanes |-> IF k \in starts THEN NewWorker(k, ws) ELSE cur[k]]
  BY DEF Ensure
<1>2. CASE l \in starts
  BY <1>1, <1>2, NewOnes, WorkersAreSomebody
<1>3. CASE l \notin starts
  BY <1>1, <1>3
<1> QED BY <1>2, <1>3

\* Ensure takes no lane from its worker, and moves none that is there.
LEMMA EnsureKeeps ==
  ASSUME NEW lanes, NEW ws \in [Workers -> Worker], NEW cur, NEW block, NEW hold,
         Ensure(lanes, ws, cur, block, hold)
  PROVE  /\ \A l \in Lanes : cur[l] # NoWorker => current'[l] # NoWorker
         /\ \A w \in Workers : ws[w].pc = "leaving" => worker'[w].pc = "leaving"
<1> DEFINE starts == IF stopping \/ block \/ hold THEN {} ELSE {l \in lanes : cur[l] = NoWorker}
<1>1. /\ worker' = [w \in Workers |->
                IF \E l \in starts : w = NewWorker(l, ws) THEN [Gone EXCEPT !.pc = "idle"] ELSE ws[w]]
      /\ current' = [l \in Lanes |-> IF l \in starts THEN NewWorker(l, ws) ELSE cur[l]]
      /\ \A l \in starts : Free(l, ws) # {}
  BY DEF Ensure
<1>2. \A l \in starts : l \in lanes /\ cur[l] = NoWorker
  OBVIOUS
<1> HIDE DEF starts
<1>3. \A l \in Lanes : cur[l] # NoWorker => current'[l] # NoWorker
  BY <1>1, <1>2
<1>4. \A w \in Workers : ws[w].pc = "leaving" => worker'[w] = ws[w]
  <2>1. \A l : Free(l, ws) # {} => ws[NewWorker(l, ws)].pc = "gone"
    BY DEF NewWorker, Free
  <2> QED BY <1>1, <2>1
<1> QED BY <1>3, <1>4

\* A worker that goes on leaves the lanes as they are, but for itself.
LEMMA SeenStays ==
  ASSUME Typed, NEW w \in Workers, NEW r, Becomes(w, r), worker[w].pc # "leaving",
         current' = current, lost' = lost, NEW l \in Lanes, Seen(l)
  PROVE  Seen(l)'
<1>1. \A v \in Workers : worker[v].pc = "leaving" => worker'[v] = worker[v]
  BY DEF Becomes, Typed
<1> QED BY <1>1 DEF Seen, At

\* The worker whose row is settled looks at the queue again, or it is leaving and will.
LEMMA SettledStep ==
  ASSUME IInv, Hands, Awake, NEW w \in Workers, Finish(w) \/ Record(w)
  PROVE  Awake'
<1> DEFINE m == worker[w].row
<1>1. /\ worker[w].pc \in Holding /\ m \in Messages /\ lane[m] = w[1] /\ Typed
      /\ status \in [Messages -> Statuses]
  BY DEF Finish, Record, At, IInv, Typed, Holding, Hands, RowLanes
<1>2. /\ lane' = lane /\ released' = released /\ current' = current /\ lost' = lost
      /\ UNCHANGED service /\ \A b \in Messages : b # m => status'[b] = status[b]
  BY <1>1 DEF Finish, Record, history, Moved
<1>3. \E r \in Worker : Becomes(w, r) /\ (r.pc = "leaving" \/ current[w[1]] = w)
  <2>1. CASE Loop(w)
    BY <1>1, <2>1, Moves DEF Places
  <2>2. CASE GoWith(w, "leaving", NoMessage)
    BY <1>1, <2>2, Moves DEF Places
  <2> QED BY <2>1, <2>2 DEF Finish, Record
<1>4. PICK r \in Worker : Becomes(w, r) /\ (r.pc = "leaving" \/ current[w[1]] = w)
  BY <1>3
<1> HIDE DEF m
<1> SUFFICES ASSUME NEW l \in Lanes, Open', Ready(l, status', lane', released') PROVE Seen(l)'
  BY DEF Awake
<1>5. CASE l = w[1]
  <2>1. worker'[w] = r
    BY <1>4, <1>1 DEF Becomes, Typed
  <2> QED BY <1>2, <1>4, <1>5, <2>1, WorkersAreSomebody DEF Seen, At
<1>6. CASE l # w[1]
  <2>1. Ready(l, status, lane, released)
    BY <1>1, <1>2, <1>6 DEF Ready, Blockers, Queued, Unsettled
  <2>2. Open
    BY <1>2 DEF Open, service
  <2>3. Seen(l)
    BY <2>1, <2>2 DEF Awake
  <2> QED BY <1>1, <1>2, <1>4, <2>3, SeenStays DEF Holding
<1> QED BY <1>5, <1>6

\* The recheck of a worker that leaves: it starts another one where a row is ready.
LEMMA LeavingStep ==
  ASSUME IInv, Awake, NEW w \in Workers, Leave(w)
  PROVE  Awake'
<1> DEFINE ended == [worker EXCEPT ![w] = Gone]
           cur == IF current[w[1]] = w THEN [current EXCEPT ![w[1]] = NoWorker] ELSE current
<1>1. /\ status' = status /\ lane' = lane /\ released' = released /\ UNCHANGED service
      /\ w[1] \in Lanes /\ current \in [Lanes -> Workers \cup {NoWorker}]
  BY WorkersAreSomebody DEF Leave, rows, IInv, Typed
<1>2. ended \in [Workers -> Worker] /\ \A v \in Workers : v # w => ended[v] = worker[v]
  BY DEF IInv, Typed, Worker, Gone, Places
<1>3. cur[w[1]] = current[w[1]] \/ cur[w[1]] = NoWorker
  BY <1>1
<1>4. \A l \in Lanes : l # w[1] => cur[l] = current[l]
  BY <1>1
<1>5. \/ Ensure(LeftBehind(w[1]), ended, cur, blocked, held) /\ lost' = lost
      \/ lost' = lost \cup {w[1]} /\ worker' = ended /\ current' = cur
  BY DEF Leave
<1> HIDE DEF ended, cur
<1> SUFFICES ASSUME NEW l \in Lanes, Open', Ready(l, status', lane', released') PROVE Seen(l)'
  BY DEF Awake
<1>6. Open /\ Ready(l, status, lane, released) /\ Seen(l)
  BY <1>1 DEF Awake, Open, service
<1>7. CASE l = w[1]
  <2>1. CASE l \in lost'
    BY <2>1 DEF Seen
  <2>2. CASE Ensure(LeftBehind(w[1]), ended, cur, blocked, held)
    <3>1. l \in LeftBehind(w[1])
      BY <1>6, <1>7, HeadIsReady DEF LeftBehind
    <3>2. current'[l] # NoWorker
      BY <2>2, <3>1, <1>6, EnsureWakes DEF Open
    <3> QED BY <3>2 DEF Seen
  <2> QED BY <1>5, <1>7, <2>1, <2>2
<1>8. CASE l # w[1]
  <2>1. current[l] # NoWorker => current'[l] # NoWorker
    BY <1>2, <1>4, <1>5, <1>8, EnsureKeeps
  <2>2. \A v \in Workers : v # w /\ worker[v].pc = "leaving" => worker'[v].pc = "leaving"
    BY <1>2, <1>5, EnsureKeeps
  <2>3. l \in lost => l \in lost'
    BY <1>5
  <2> QED BY <1>6, <1>8, <2>1, <2>2, <2>3 DEF Seen, At
<1> QED BY <1>7, <1>8

\* The other steps of a worker.
LEMMA DeliverAwake ==
  ASSUME IInv, Hands, Awake, NEW w \in Workers, Deliver(w)
  PROVE  Awake'
<1>0. Typed /\ worker \in [Workers -> Worker] /\ UNCHANGED service
  BY WorkersStep DEF IInv, Typed
<1>1. CASE Finish(w) \/ Record(w)
  BY <1>1, SettledStep
<1>2. CASE Leave(w)
  BY <1>2, LeavingStep
<1>3. CASE Abandon(w)
  <2>1. stopping \/ blocked
    BY <1>3 DEF Abandon, At, Hands, Halted, Ending
  <2> QED BY <1>0, <2>1 DEF Awake, Open, service
<1>4. CASE Look(w) \/ Submit(w) \/ Refused(w) \/ Watchdog(w) \/ Ask(w) \/ Claim(w) \/ FailEarly(w)
  <2>1. /\ lane' = lane /\ released' = released /\ current' = current /\ lost' = lost
        /\ worker[w].pc # "leaving"
    BY <1>4 DEF Look, Submit, Refused, Watchdog, Ask, Claim, FailEarly, At, rows, delivery, history
  <2>2. \A l \in Lanes : Ready(l, status', lane, released) => Ready(l, status, lane, released)
    <3>1. CASE status' = status
      BY <3>1
    <3>2. CASE \E m \in Messages : status' = [status EXCEPT ![m] = "waiting"] /\ status[m] = "running"
      BY <3>2, <1>0 DEF Typed, Ready, Blockers, Queued, Unsettled
    <3>3. CASE \E m \in Messages : status' = [status EXCEPT ![m] = "running"] /\ status[m] = "queued"
      BY <3>3, <1>0 DEF Typed, Ready, Blockers, Queued, Unsettled
    <3>4. CASE \E m \in Messages : status' = [status EXCEPT ![m] = "ended"] /\ status[m] = "queued"
      BY <3>4, <1>0 DEF Typed, Ready, Blockers, Queued, Unsettled
    <3>5. CASE FailEarly(w)
      <4>1. status' = status \/ status' = Moved(worker[w].row, "ended", {"queued"})
        BY <3>5 DEF FailEarly
      <4> QED BY <4>1, <1>0, <3>1, <3>4 DEF Moved, Typed, Worker, Ready, Queued, Blockers, Unsettled
    <3> QED BY <1>4, <1>0, <3>1, <3>2, <3>3, <3>5
         DEF Look, Submit, Refused, Watchdog, Ask, Claim, Claimable, At, rows, Typed
  <2>3. worker' = worker \/ \E r : Becomes(w, r)
    BY <1>4 DEF Look, Submit, Refused, Watchdog, Ask, Claim, FailEarly, Go, GoWith, Rest, Becomes, delivery
  <2>4. \A l \in Lanes : Seen(l) => Seen(l)'
    BY <1>0, <2>1, <2>3, SeenStays DEF Seen, At
  <2> QED BY <1>0, <2>1, <2>2, <2>4 DEF Awake, Open, service
<1>5. CASE Admit(w)
  <2>1. /\ status' = status /\ released' = released /\ current' = current /\ lost' = lost
        /\ worker[w].pc = "admit" /\ lane' \in {lane, Joined}
    BY <1>5 DEF Admit, At, history
  <2>2. current[w[1]] = w
    BY <2>1 DEF IInv, OneTaker, Takers, Taking
  <2>3. \E r : Becomes(w, r)
    BY <1>5 DEF Admit, GoWith, Rest, Becomes
  <2> SUFFICES ASSUME NEW l \in Lanes, Open', Ready(l, status', lane', released') PROVE Seen(l)'
    BY DEF Awake
  <2>4. CASE lane' = lane
    <3>1. Seen(l)
      BY <1>0, <2>1, <2>4 DEF Awake, Open, service
    <3> QED BY <3>1, <1>0, <2>1, <2>3, SeenStays
  <2>5. CASE lane' = Joined /\ lane' # lane
    <3>1. l = "task"
      BY <2>1, <2>5 DEF Ready, Queued, Joined, Lanes
    <3> QED BY <2>1, <2>2, <3>1, WorkersAreSomebody DEF Seen, Hands, Admitting
  <2> QED BY <2>1, <2>4, <2>5
<1>6. CASE Fallback(w)
  <2>1. /\ status' = status /\ lane' = lane /\ released' = released /\ lost' = lost
        /\ Ensure({"steer"}, worker, [current EXCEPT !["steer"] = NoWorker], blocked, held)
    BY <1>6 DEF Fallback, rows, history
  <2> SUFFICES ASSUME NEW l \in Lanes, Open', Ready(l, status', lane', released') PROVE Seen(l)'
    BY DEF Awake
  <2>2. Open /\ Seen(l)
    BY <1>0, <2>1 DEF Awake, Open, service
  <2>3. CASE l = "steer"
    BY <2>1, <2>2, <2>3, EnsureWakes DEF Open, Seen
  <2>4. CASE l # "steer"
    <3> DEFINE cur == [current EXCEPT !["steer"] = NoWorker]
    <3>0. Ensure({"steer"}, worker, cur, blocked, held) /\ cur[l] = current[l]
      BY <1>0, <2>1, <2>4 DEF Typed
    <3> HIDE DEF cur
    <3>1. current[l] # NoWorker => current'[l] # NoWorker
      BY <1>0, <3>0, EnsureKeeps
    <3>2. \A v \in Workers : worker[v].pc = "leaving" => worker'[v].pc = "leaving"
      BY <1>0, <3>0, EnsureKeeps
    <3> QED BY <2>1, <2>2, <3>1, <3>2 DEF Seen, At
  <2> QED BY <2>3, <2>4
<1>7. CASE Defer(w)
  <2> DEFINE p == IF worker[w].cancelled THEN "gone" ELSE "idle"
             after == [worker EXCEPT ![w] = [Gone EXCEPT !.pc = p]]
  <2>1. /\ lost' = lost /\ released' = released /\ worker[w].pc = "defer"
        /\ \/ Ensure(Lanes, after, current, blocked, held)
           \/ worker' = after /\ status' = status /\ lane' = lane /\ current' = current
    BY <1>7 DEF Defer, At, history
  <2> HIDE DEF p
  <2>2. \A v \in Workers : worker[v].pc = "leaving" => after[v] = worker[v]
    BY <1>0, <2>1
  <2> HIDE DEF after
  <2> SUFFICES ASSUME NEW l \in Lanes, Open', Ready(l, status', lane', released') PROVE Seen(l)'
    BY DEF Awake
  <2>3. Open
    BY <1>0 DEF Open, service
  <2>4. CASE Ensure(Lanes, after, current, blocked, held)
    BY <2>3, <2>4, EnsureWakes DEF Open, Seen
  <2>5. CASE worker' = after /\ status' = status /\ lane' = lane /\ current' = current
    <3>1. Seen(l)
      BY <2>1, <2>3, <2>5 DEF Awake
    <3> QED BY <2>1, <2>2, <2>5, <3>1 DEF Seen, At
  <2> QED BY <2>1, <2>4, <2>5
<1> QED BY <1>1, <1>2, <1>3, <1>4, <1>5, <1>6, <1>7 DEF Deliver

\* The steps around the workers: whatever opens a queue ensures its workers.
LEMMA AroundAwake ==
  ASSUME IInv, Awake, [Next]_vars, ~\E w \in Workers : Deliver(w)
  PROVE  Awake'
<1>0. Typed
  BY DEF IInv
<1>1. CASE \/ \E l \in Lanes : Send(l)
           \/ \E m \in Messages : Resolve(m) \/ \E out \in {"ended", "unknown"} : Answer(m, out)
           \/ Supersede \/ Continue \/ WakeQueued \/ AbortDelete
  <2>1. /\ Ensure(Lanes, worker, current, blocked', held')
        /\ stopping' = stopping
    BY <1>1 DEF Send, Resolve, Answer, Supersede, Continue, WakeQueued, AbortDelete, EnsureBoth, service
  <2>2. \A l \in Lanes : Open' => current'[l] # NoWorker
    BY <2>1, EnsureWakes DEF Open
  <2> QED BY <2>2 DEF Awake, Seen
<1>2. CASE User \/ SwitchMode \/ Connect \/ Disconnect \/ UNCHANGED vars
  <2>1. UNCHANGED <<rows, delivery, service, lost>>
    BY <1>2 DEF User, SwitchMode, Connect, Disconnect, vars, history
  <2> QED BY <2>1 DEF Awake, Open, Ready, Blockers, Queued, Unsettled, Seen, At, rows, delivery, service
<1>3. ASSUME NEW m \in Messages, NEW k \in Lanes, DetachedClaim(m, k) PROVE Awake'
  <2>1. /\ worker' = worker /\ current' = current /\ lost' = lost /\ UNCHANGED service
        /\ lane' = lane /\ released' = released
        /\ status' = status \/ (status' = [status EXCEPT ![m] = "running"] /\ status[m] = "queued")
    BY <1>3 DEF DetachedClaim, Claimable, history
  <2>2. \A l \in Lanes : Ready(l, status', lane, released) => Ready(l, status, lane, released)
    BY <1>0, <2>1 DEF Typed, Ready, Blockers, Queued, Unsettled
  <2> QED BY <2>1, <2>2 DEF Awake, Open, Seen, At, service
<1>4. CASE BeginDelete \/ Stop \/ Stopped \/ Recover \/ Crash
  BY <1>4 DEF BeginDelete, Stop, Stopped, Recover, Crash, Awake, Open
<1>5. CASE Deleted \/ Start
  <2>1. Open' => ~\E m \in Messages : status'[m] = "queued"
    BY <1>0, <1>5 DEF Deleted, Start, Open, Cancellable, rows, Typed
  <2> QED BY <2>1 DEF Awake, Ready, Queued
<1> QED BY <1>1, <1>2, <1>3, <1>4, <1>5 DEF Next

\* No message at the head of a lane is forgotten.
THEOREM WakeupNotLostHolds == Spec => []WakeupNotLost
<1>1. Init => Awake
  BY DEF Init, Awake, Open
<1>2. IInv /\ Hands /\ Awake /\ [Next]_vars => Awake'
  BY DeliverAwake, AroundAwake
<1>3. Awake => WakeupNotLost
  BY HeadIsReady DEF Awake, WakeupNotLost, Open, Seen
<1> QED BY <1>1, <1>2, <1>3, HandsThroughout, PTL DEF Spec

----------------------------------------------------------------------------
(* Order and uncertainty                                                       *)

\* What a step may do to the status of row b.
Restated(b) ==
  \/ status'[b] \in {status[b], "ended"}
  \/ status'[b] = "running" /\ status[b] = "queued" /\ lane' = lane
  \/ /\ status'[b] = "queued" /\ asked'[b] = asked[b] /\ asked[b] = "steer"
  \/ /\ status'[b] = "queued" /\ \A m \in Messages : status[m] # "none" => m < b
  \/ /\ status'[b] \in {"waiting", "unknown"} /\ lane' = lane
     /\ \/ status[b] = "waiting"
        \/ Recover
        \/ \E v \in Workers : worker[v].pc = "abandon"
        \/ status[b] = "running" /\ \E v \in Workers : worker[v].pc \in Holding /\ worker[v].row = b

\* Rows change their status by the ways of Restated only.
LEMMA StatusStep ==
  ASSUME IInv, AskedLanes, [Next]_vars, NEW b \in Messages
  PROVE  Restated(b)
<1>0. status \in [Messages -> Statuses] /\ \A w \in Workers : worker[w] \in Worker
  BY DEF IInv, Typed
<1>1. ASSUME NEW want \in Lanes, Send(want) PROVE Restated(b)
  <2>1. /\ Count + 1 \in Messages /\ \A m \in Messages : status[m] # "none" => m < Count + 1
        /\ status' = [status EXCEPT ![Count + 1] = "queued"]
    <3>1. /\ Count < MaxMessages /\ status' = [status EXCEPT ![Count + 1] = "queued"]
      BY <1>1 DEF Send
    <3>2. \A m \in Messages : m > Count => status[m] = "none"
      BY <3>1, NextIsNew
    <3>3. Count + 1 \in Messages /\ Count \in Int
      <4>1. Count + 1 \in Messages
        BY <3>1, NextIsNew
      <4>2. Count \in Nat
        <5>1. IsFiniteSet({m \in Messages : status[m] # "none"})
          <6>1. IsFiniteSet(Messages)
            BY MailboxAssumption, FS_Interval DEF Messages
          <6> QED BY <6>1, FS_Subset
        <5> QED BY <5>1, FS_CardinalityType DEF Count
      <4> QED BY <4>1, <4>2
    <3> QED BY <3>1, <3>2, <3>3 DEF Messages
  <2> QED BY <1>0, <2>1 DEF Restated
<1>2. ASSUME NEW w \in Workers, Deliver(w) PROVE Restated(b)
  <2>1. CASE Finish(w) \/ Record(w) \/ Abandon(w)
    <3>1. /\ lane' = lane /\ worker[w].pc \in Holding \cup {"abandon"}
          /\ status' = status \/ \E to \in {"ended", "unknown"} : status' = Moved(worker[w].row, to, InFlight)
      BY <2>1 DEF Finish, Record, Abandon, At, Holding
    <3> QED BY <1>0, <3>1 DEF Restated, Moved, InFlight
  <2>2. CASE Claim(w) \/ Ask(w)
    <3>1. /\ lane' = lane
          /\ \/ status' = status
             \/ status' = [status EXCEPT ![worker[w].row] = "running"] /\ status[worker[w].row] = "queued"
             \/ /\ status' = [status EXCEPT ![worker[w].row] = "waiting"]
                /\ worker[w].pc = "submitted" /\ status[worker[w].row] = "running"
      BY <2>2 DEF Claim, Claimable, Ask, At
    <3> QED BY <1>0, <3>1 DEF Restated, Holding
  <2>3. CASE Defer(w)
    <3>1. /\ asked' = asked
          /\ status' = IF Deferred(worker[w].row) THEN [status EXCEPT ![worker[w].row] = "queued"] ELSE status
      BY <2>3 DEF Defer
    <3> QED BY <1>0, <3>1 DEF Restated, AskedLanes, Deferred
  <2>4. CASE Look(w) \/ Admit(w) \/ Submit(w) \/ Fallback(w) \/ Refused(w) \/ Watchdog(w) \/ Leave(w)
    BY <2>4 DEF Look, Admit, Submit, Fallback, Refused, Watchdog, Leave, rows, Restated
  <2>5. CASE FailEarly(w)
    <3>1. status' = status \/ status' = Moved(worker[w].row, "ended", {"queued"})
      BY <2>5 DEF FailEarly
    <3> QED BY <1>0, <3>1 DEF Restated, Moved
  <2> QED BY <1>2, <2>1, <2>2, <2>3, <2>4, <2>5 DEF Deliver
<1>3. CASE \/ \E m \in Messages : Resolve(m) \/ \E out \in {"ended", "unknown"} : Answer(m, out)
           \/ Supersede \/ Deleted
  BY <1>0, <1>3 DEF Resolve, Answer, Supersede, Deleted, Restated
<1>4. CASE Recover \/ \E m \in Messages, l \in Lanes : DetachedClaim(m, l)
  BY <1>0, <1>4 DEF Recover, DetachedClaim, Claimable, Restated
<1>5. CASE \/ Continue \/ User \/ SwitchMode \/ Connect \/ WakeQueued \/ Disconnect
           \/ BeginDelete \/ AbortDelete \/ Stop \/ Stopped \/ Start \/ Crash \/ UNCHANGED vars
  BY <1>5 DEF Continue, User, SwitchMode, Connect, WakeQueued, Disconnect, BeginDelete, AbortDelete, Stop,
     Stopped, Start, Crash, vars, rows, Restated
<1> QED BY <1>1, <1>2, <1>3, <1>4, <1>5 DEF Next

\* A row that was let go stays so.
LEMMA ReleasedStay ==
  ASSUME [Next]_vars
  PROVE  released \subseteq released'
<1>1. ASSUME NEW w \in Workers, Deliver(w) PROVE released' = released
  BY <1>1 DEF Deliver, Look, Admit, Claim, FailEarly, Submit, Ask, Fallback, Refused, Finish, Watchdog, Record, Defer,
     Abandon, Leave, rows
<1> QED BY <1>1 DEF Next, vars, rows, Send, DetachedClaim, Resolve, Answer, Supersede, Continue, User,
     SwitchMode, Connect, WakeQueued, Disconnect, BeginDelete, AbortDelete, Deleted, Stop, Stopped, Recover,
     Start, Crash

\* What an admitted task takes is the oldest row of a lane that nothing holds up.
LEMMA AdmittedHead ==
  ASSUME IInv, NEW w \in Workers, Admit(w), worker'[w].pc = "claim"
  PROVE  /\ Ready("task", status', lane', released')
         /\ worker'[w].row \in Queued("task", status', lane')
         /\ \A b \in Queued("task", status', lane') : worker'[w].row <= b
<1> DEFINE ln == IF mustQueue THEN Joined ELSE lane
           m == Head("task", ln)
<1>0. worker \in [Workers -> Worker]
  BY DEF IInv, Typed
<1>1. /\ lane' = ln /\ status' = status /\ released' = released
      /\ (m # NoMessage /\ GoWith(w, "claim", m)) \/ Rest(w)
  BY DEF Admit
<1>2. ~Rest(w)
  BY <1>0 DEF Rest, Gone
<1>3. m # NoMessage /\ worker'[w].row = m
  BY <1>0, <1>1, <1>2 DEF GoWith, Gone
<1>4. Ready("task", status', lane', released')
  BY <1>1, <1>3, HeadIsReady
<1>5. m = Min(Queued("task", status, ln)) /\ Queued("task", status, ln) # {}
  BY <1>3 DEF Head
<1>6. Queued("task", status, ln) \in SUBSET Nat
  BY DEF Queued, Messages
<1>7. m \in Queued("task", status, ln) /\ \A b \in Queued("task", status, ln) : m <= b
  BY <1>5, <1>6, Smallest
<1> QED BY <1>1, <1>3, <1>4, <1>7

\* A row about to be claimed as a task, and every one sent as a task before it has been taken.
Ordered ==
  \A w \in Workers : w[1] = "task" /\ worker[w].pc \in {"claim", "claimed"} =>
    /\ status[worker[w].row] # "none"
    /\ \A b \in Messages : b < worker[w].row => ~(asked[b] = "task" /\ status[b] = "queued")

\* No older task is queued behind the one that was claimed.
LEMMA OrderedStep ==
  ASSUME IInv, IInv', Hands, Hands', Ordered, [Next]_vars
  PROVE  Ordered'
<1> SUFFICES ASSUME NEW w \in Workers, w[1] = "task", worker'[w].pc \in {"claim", "claimed"}
             PROVE  /\ status'[worker'[w].row] # "none"
                    /\ \A b \in Messages : b < worker'[w].row => ~(asked'[b] = "task" /\ status'[b] = "queued")
  BY DEF Ordered
<1> DEFINE m == worker'[w].row
<1>0. /\ m \in Messages /\ status \in [Messages -> Statuses] /\ asked' \in [Messages -> Lanes]
      /\ lane' \in [Messages -> Lanes] /\ \A b \in Messages : lane'[b] = "steer" => asked'[b] = "steer"
  BY DEF IInv, Typed, Hands, AskedLanes
<1>1. \/ Admit(w) /\ worker'[w].pc = "claim"
      \/ worker[w].pc \in {"claim", "claimed"} /\ m = worker[w].row
  BY EveryTransition DEF Transition, Resting, Submit, Claim, At
<1>2. CASE Admit(w) /\ worker'[w].pc = "claim"
  <2>1. m \in Queued("task", status', lane') /\ \A b \in Queued("task", status', lane') : m <= b
    BY <1>2, AdmittedHead
  <2>2. \A b \in Messages : asked'[b] = "task" /\ status'[b] = "queued" => b \in Queued("task", status', lane')
    BY <1>0 DEF Queued, Lanes
  <2> QED BY <1>0, <2>1, <2>2 DEF Queued, Messages
<1>3. CASE worker[w].pc \in {"claim", "claimed"} /\ m = worker[w].row
  <2>1. status[m] # "none" /\ \A b \in Messages : b < m => ~(asked[b] = "task" /\ status[b] = "queued")
    BY <1>3 DEF Ordered
  <2> HIDE DEF m
  <2>2. status'[m] # "none"
    BY <1>0, <2>1, StatusStep DEF Restated, Hands
  <2>3. ASSUME NEW b \in Messages, b < m, asked'[b] = "task", status'[b] = "queued" PROVE FALSE
    <3>1. Restated(b) /\ Relaned(b)
      BY StatusStep, LaneStep DEF Hands
    <3>2. status[b] = "queued"
      BY <1>0, <2>1, <2>3, <3>1 DEF Restated, Messages
    <3>3. asked'[b] = asked[b]
      BY <3>1, <3>2 DEF Relaned
    <3> QED BY <2>1, <2>3, <3>2, <3>3
  <2> QED BY <2>2, <2>3 DEF m
<1> QED BY <1>1, <1>2, <1>3

\* A handover is a submission of a claimed row.
LEMMA OnlySubmitHandsOver ==
  ASSUME IInv, [Next]_vars, NEW m \in Messages, submissions'[m] > submissions[m]
  PROVE  \E w \in Workers : worker[w].pc = "claimed" /\ worker[w].row = m
<1>1. submissions \in [Messages -> Nat]
  BY DEF IInv, Typed
<1>2. ASSUME NEW w \in Workers, Submit(w) PROVE \E v \in Workers : worker[v].pc = "claimed" /\ worker[v].row = m
  BY <1>1, <1>2 DEF Submit, At
<1>3. ASSUME NEW w \in Workers, Deliver(w), ~Submit(w) PROVE submissions' = submissions
  BY <1>3 DEF Deliver, Look, Admit, Claim, FailEarly, Ask, Fallback, Refused, Finish, Watchdog, Record, Defer,
     Abandon, Leave, history
<1>4. ASSUME Next, ~\E w \in Workers : Deliver(w) PROVE submissions' = submissions
  BY <1>4 DEF Next, Send, DetachedClaim, Resolve, Answer, Supersede, Continue, User, SwitchMode, Connect,
     WakeQueued, Disconnect, BeginDelete, AbortDelete, Deleted, Stop, Stopped, Recover, Start, Crash,
     history
<1>5. ~(submissions' = submissions)
  BY <1>1
<1> QED BY <1>2, <1>3, <1>4, <1>5 DEF vars, history

\* Messages sent as tasks are handed over in their order.
THEOREM TasksKeepTheirOrderHolds == Spec => TasksKeepTheirOrder
<1>1. Init => Ordered
  BY DEF Init, Ordered, Gone
<1>2. IInv /\ IInv' /\ Hands /\ Hands' /\ Ordered /\ [Next]_vars => Ordered'
  BY OrderedStep
<1>3. IInv /\ Hands /\ Ordered /\ [Next]_vars =>
        [\A m \in Messages :
           asked[m] = "task" /\ submissions'[m] > submissions[m]
             => \A b \in 1..(m - 1) : ~(asked[b] = "task" /\ status[b] = "queued")]_vars
  <2> SUFFICES ASSUME IInv, Hands, Ordered, [Next]_vars, NEW m \in Messages, asked[m] = "task",
                      submissions'[m] > submissions[m], NEW b \in 1..(m - 1),
                      asked[b] = "task", status[b] = "queued"
               PROVE  FALSE
    OBVIOUS
  <2>1. PICK w \in Workers : worker[w].pc = "claimed" /\ worker[w].row = m
    BY OnlySubmitHandsOver
  <2>2. lane[m] = "task" /\ lane[m] = w[1]
    BY <2>1 DEF Hands, RowLanes, Holding, AskedLanes, IInv, Typed, Lanes
  <2>3. b \in Messages /\ b < m
    BY MailboxAssumption DEF Messages
  <2> QED BY <2>1, <2>2, <2>3 DEF Ordered
<1> QED BY <1>1, <1>2, <1>3, HandsThroughout, PTL DEF Spec, TasksKeepTheirOrder

\* Where a task is about to be claimed nothing holds up the tasks, but for a claim that
\* nobody works on.
Clear == ~woken =>
  \A w \in Workers : w[1] = "task" /\ worker[w].pc = "claim" =>
    \A b \in Messages : lane[b] = "task" =>
      /\ status[b] # "waiting" /\ ~Unsettled(b, status, released)
      /\ status[b] = "running" => \A v \in Workers : worker[v].pc \in Holding => worker[v].row # b

\* Only a row that was taken from the queue is held.
LEMMA HeldRows ==
  ASSUME IInv, Hands, NEW v \in Workers, worker[v].pc \in Holding
  PROVE  worker[v].row \in Messages /\ status[worker[v].row] \notin {"none", "queued"}
BY DEF IInv, Typed, HandsDiffer, Once, Hands, HandedOver, Holding

\* Only the claim of a queued row gives a worker a new one.
LEMMA NewlyHeld ==
  ASSUME IInv, [Next]_vars, NEW v \in Workers, worker'[v].pc \in Holding
  PROVE  \/ worker[v].pc \in Holding /\ worker'[v].row = worker[v].row
         \/ /\ worker[v].pc = "claim" /\ worker'[v].row = worker[v].row /\ lane' = lane
            /\ status[worker[v].row] = "queued" /\ lane[worker[v].row] = v[1]
<1>1. \/ worker[v].pc \in Holding /\ worker'[v].row = worker[v].row
      \/ Claim(v) /\ worker'[v].pc = "claimed" /\ worker'[v].row = worker[v].row
  BY EveryTransition DEF Transition, Resting, Holding, Submit, At
<1>2. CASE Claim(v) /\ worker'[v].pc = "claimed" /\ worker'[v].row = worker[v].row
  <2>1. ~Rest(v)
    BY <1>2 DEF Rest, Gone, IInv, Typed
  <2> QED BY <1>2, <2>1 DEF Claim, Claimable, At
<1> QED BY <1>1, <1>2

\* Nothing comes to hold up the tasks between the admission's look at the queue and the claim.
LEMMA ClearStep ==
  ASSUME IInv, IInv', Hands, Hands', Dormant, Clear, [Next]_vars
  PROVE  Clear'
<1> SUFFICES ASSUME ~woken', NEW w \in Workers, w[1] = "task", worker'[w].pc = "claim",
                    NEW b \in Messages, lane'[b] = "task"
             PROVE  /\ status'[b] # "waiting" /\ ~Unsettled(b, status', released')
                    /\ status'[b] = "running" =>
                         \A v \in Workers : worker'[v].pc \in Holding => worker'[v].row # b
  BY DEF Clear
<1>0. status \in [Messages -> Statuses] /\ lane \in [Messages -> Lanes] /\ ~woken
  BY StaysWoken DEF IInv, Typed, AllGone, At
<1>1. CASE Admit(w)
  <2>1. Ready("task", status', lane', released')
    BY <1>1, AdmittedHead
  <2> QED BY <2>1 DEF Ready, Blockers
<1>2. CASE ~Admit(w)
  <2>1. worker[w].pc = "claim"
    BY <1>2, EveryTransition DEF Transition, Resting, Submit, Claim, At
  <2>2. ~AllGone /\ \A v \in Workers : worker[v].pc # "abandon"
    <3>1. ~worker[w].cancelled /\ current[w[1]] = w
      BY <2>1 DEF IInv, OneTaker, Takers, Taking
    <3> QED BY <2>1, <3>1, WorkersAreSomebody DEF AllGone, At, Hands, Halted
  <2>3. ~Recover
    BY <1>0, <2>2 DEF Recover, Dormant
  <2>4. ASSUME lane[b] = "task" 
        PROVE  /\ status[b] # "waiting" /\ ~Unsettled(b, status, released)
               /\ status[b] = "running" => \A v \in Workers : worker[v].pc \in Holding => worker[v].row # b
    BY <1>0, <2>1, <2>4 DEF Clear
  <2>5. Restated(b) /\ Relaned(b) /\ released \subseteq released'
    BY StatusStep, LaneStep, ReleasedStay DEF Hands
  <2>6. lane[b] = "task" \/ status'[b] \in {"ended", "queued", "running"}
    <3>1. ASSUME NEW v \in Workers, Defer(v), worker[v].row = b, Deferred(b) PROVE status'[b] = "queued"
      BY <1>0, <3>1 DEF Defer
    <3> QED BY <1>0, <2>5, <3>1 DEF Relaned, Restated
  <2>7. status'[b] # "waiting" /\ ~Unsettled(b, status', released')
    <3>1. CASE lane[b] = "task"
      BY <2>2, <2>3, <2>4, <2>5, <3>1 DEF Restated, Unsettled
    <3> QED BY <2>6, <3>1 DEF Unsettled
  <2>8. ASSUME status'[b] = "running", NEW v \in Workers, worker'[v].pc \in Holding, worker'[v].row = b
        PROVE  FALSE
    <3>1. CASE worker[v].pc \in Holding /\ worker[v].row = b
      <4>1. status[b] \notin {"none", "queued"}
        BY <3>1, HeldRows
      <4>2. status[b] = "running"
        BY <2>5, <2>8, <4>1 DEF Restated
      <4>3. lane[b] = "task"
        <5>1. ASSUME NEW u \in Workers, Defer(u), worker[u].row = b, Deferred(b) PROVE status'[b] = "queued"
          BY <1>0, <5>1 DEF Defer
        <5> QED BY <2>5, <2>8, <4>2, <5>1 DEF Relaned
      <4> QED BY <2>4, <3>1, <4>2, <4>3
    <3>2. CASE worker[v].pc = "claim" /\ lane' = lane /\ lane[b] = v[1]
      <4>1. v = w
        BY <3>2 DEF Workers
      <4> QED BY <4>1, <2>8 DEF Holding
    <3> QED BY <2>8, <3>1, <3>2, NewlyHeld
  <2> QED BY <2>7, <2>8
<1> QED BY <1>1, <1>2

\* While a task waits for its user, or its outcome is unknown and nobody has let the queue go
\* on, no other task is claimed (next_queued, looked at again once admitted), in every
\* behaviour in which no failed deletion has woken the queue before the service was started.
THEOREM UncertaintyBlocksUnlessWoken == Spec => UncertaintyBlocks
<1>1. Init => Dormant /\ Clear
  BY DEF Init, Dormant, Clear, AllGone, At, Gone
<1>2. IInv /\ Dormant /\ [Next]_vars => Dormant'
  BY DormantStep DEF IInv
<1>3. IInv /\ IInv' /\ Hands /\ Hands' /\ Dormant /\ Clear /\ [Next]_vars => Clear'
  BY ClearStep
<1>4. Clear =>
        [\A w \in Workers :
           w[1] = "task" /\ At(w, "claim") /\ worker'[w].pc = "claimed"
             => woken \/ \A b \in Messages :
                  ~(lane[b] = "task" /\ (status[b] = "waiting" \/ Unsettled(b, status, released)))]_vars
  BY DEF Clear, At
<1> QED BY <1>1, <1>2, <1>3, <1>4, HandsThroughout, PTL DEF Spec, UncertaintyBlocks
=============================================================================
