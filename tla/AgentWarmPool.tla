--------------------------- MODULE AgentWarmPool ---------------------------
(***************************************************************************)
(* The pool of prewarmed agent sessions of one AgentServer process          *)
(* (AgentWarmPool): a target set of keys, at most MaxReady speculative       *)
(* sessions READY or warming, a background task per warming session,         *)
(* preemption by chats, and claims that take a session out of the pool.      *)
(*                                                                          *)
(* Everything runs on one event loop, so what lies between two awaits that   *)
(* really suspend is one step.  No section under the pool's lock awaits, so  *)
(* the lock is never contended and is not modelled; the suspensions of a     *)
(* task are its `pc'.  A session id is a number, in order of allocation;     *)
(* the manager keeps one agent per key and counts its pins.                  *)
(***************************************************************************)
EXTENDS Integers, FiniteSets, SequencesExt

CONSTANTS
    KeyOrder,        \* the keys, in the order of _key_priority
    Targets,         \* the sets of keys a sync may find wanted
    Fingerprints,    \* of the configurations a sync may bring
    MaxConcurrency,  \* background tasks at a time
    MaxReady,        \* speculative sessions, READY or warming
    MaxForeground,   \* foreground preparations at a time
    MaxSessions,     \* bound: session ids of a behaviour
    MaxSyncs         \* bound: calls of sync

ASSUME PoolAssumption ==
    /\ MaxConcurrency \in Nat \ {0} /\ MaxReady \in Nat \ {0}
    /\ MaxForeground \in Nat \ {0} /\ MaxSessions \in Nat /\ MaxSyncs \in Nat
    /\ KeyOrder \in Seq(Range(KeyOrder)) /\ IsInjective(KeyOrder)
    /\ \A want \in Targets : want \subseteq Range(KeyOrder)

Keys == Range(KeyOrder)
Sids == 1..MaxSessions
NoSid == 0
NoConfig == "none"

VARIABLES
    desired,       \* keys the pool should keep warm
    rev,           \* the configuration reconciled: its sequence number and fingerprint
    syncing,       \* syncs between their numbering and their reconciliation
    syncs,         \* how many syncs have been numbered
    slots,         \* key -> READY session
    tasks,         \* key -> session of its background task
    sessionTasks,  \* sessions whose task a chat may wait for
    promoted,      \* claimed while warming
    pending,       \* keys waiting for a background task
    task,          \* session -> its preparation
    allocated,     \* session ids given out
    claimedPins,   \* claimed sessions that still pin their agent
    pins,          \* the manager's pin count of each key's agent
    disposing,     \* slots taken out of the pool whose runtime is being closed
    fgCount, idle, \* foreground sections, and the event that says there is none
    pump,          \* a delayed pump is scheduled
    closed,
    chat,          \* session -> where its chat turn is
    ready,         \* history: sessions with a prepared, undisposed runtime
    hits,          \* history: sessions handed out as READY
    newest         \* history: the reconciled sync with the highest number

config == <<desired, rev, syncing, syncs, newest>>
warming == <<tasks, sessionTasks, promoted, pending>>
pinning == <<claimedPins, pins>>
foreground == <<fgCount, idle, pump>>
handed == <<chat, hits>>
vars == <<config, slots, warming, task, allocated, pinning, disposing, foreground, closed,
          handed, ready>>

Gates == {"gate1", "gate2", "gate3"}
HoldsLock == {"gate2", "agent", "yield", "gate3", "prepare"}
HoldsSemaphore == HoldsLock \cup {"lock"}
HasAgent == {"yield", "gate3", "prepare"}
Disposals == {"drop", "fail", "stale"}

Preparation == [key : Keys \cup {NoConfig}, fp : Fingerprints \cup {NoConfig},
                keep : BOOLEAN, cancel : BOOLEAN, woken : BOOLEAN,
                pc : {"none", "new", "sem", "done"}
                        \cup Gates \cup HoldsSemaphore \cup Disposals]

NoTask == [key |-> NoConfig, fp |-> NoConfig, keep |-> FALSE, cancel |-> FALSE,
           woken |-> FALSE, pc |-> "none"]

Running(s) == task[s].pc \notin {"none", "done"}
WarmingKeys == {k \in Keys : tasks[k] # NoSid}
ReadyKeys == {k \in Keys : slots[k] # NoSid}
Queued == {pending[i].key : i \in DOMAIN pending}

Init ==
    /\ desired = {} /\ syncing = {} /\ syncs = 0
    /\ rev = [seq |-> 0, fp |-> NoConfig] /\ newest = rev
    /\ slots = [k \in Keys |-> NoSid] /\ tasks = slots
    /\ sessionTasks = {} /\ promoted = {} /\ pending = <<>>
    /\ task = [s \in Sids |-> NoTask] /\ allocated = 0
    /\ claimedPins = {} /\ pins = [k \in Keys |-> 0] /\ disposing = {}
    /\ fgCount = 0 /\ idle = TRUE /\ pump = FALSE /\ closed = FALSE
    /\ chat = [s \in Sids |-> "off"] /\ ready = {} /\ hits = {}

----------------------------------------------------------------------------
(* Helpers: each takes the state it changes and returns the changed one.     *)

\* Mutant: unpinning drops the agent's other pins too.
UnpinnedForAll(p, k) == [p EXCEPT ![k] = 0]

\* unpin_agent: the count never falls below zero.
Unpinned(p, k) == [p EXCEPT ![k] = IF @ > 0 THEN @ - 1 ELSE 0]

\* The members of the sequence q at the positions P, in their order.
Place(P, i) == Cardinality({j \in P : j <= i})
At(q, P) == [n \in 1..Cardinality(P) |-> q[CHOOSE i \in P : Place(P, i) = n]]

\* A key that _enqueue_prepare_locked puts into the queue q, for slots sl and tasks tk.
Missing(q, k, sl, tk) == sl[k] = NoSid /\ tk[k] = NoSid /\ \A i \in DOMAIN q : q[i].key # k

\* _enqueue_prepare_locked with priority, and without for each key of want in its turn.
Enqueued(q, k, fp, sl, tk) ==
    IF Missing(q, k, sl, tk) THEN <<[key |-> k, fp |-> fp]>> \o q ELSE q
AllEnqueued(q, want, fp, sl, tk) ==
    LET added == At(KeyOrder, {i \in DOMAIN KeyOrder :
                        KeyOrder[i] \in want /\ Missing(q, KeyOrder[i], sl, tk)})
    IN  q \o [n \in DOMAIN added |-> [key |-> added[n], fp |-> fp]]

\* Mutant: READY slots are not counted.
RoomForTasks(sl, tk) ==
    LET begun == Cardinality({k \in Keys : tk[k] # NoSid})
    IN  Min({MaxConcurrency - begun, MaxReady - begun, MaxSessions - allocated})

\* How many tasks the pump may start.
Room(sl, tk) ==
    LET begun == Cardinality({k \in Keys : tk[k] # NoSid})
        held == Cardinality({k \in Keys : sl[k] # NoSid})
    IN  Min({MaxConcurrency - begun, MaxReady - held - begun, MaxSessions - allocated})

\* The walk of _pump_background_locked over the queue q: the entries it starts, and
\* those it leaves because there was no room when it reached them.  An entry of another
\* configuration or of a key no longer wanted is dropped.
Pumped(q, cfg, want, sl, tk) ==
    LET wanted == {i \in DOMAIN q : q[i].fp = cfg.fp /\ q[i].key \in want}
        room == Room(sl, tk)
    IN  [started |-> At(q, {i \in wanted : Place(wanted, i) <= room}),
         left |-> At(q, {i \in DOMAIN q : Cardinality({j \in wanted : j < i}) >= room})]

\* _schedule_prepare_locked for a background task of each entry of started.
NewTask(k, fp, keep) ==
    [NoTask EXCEPT !.key = k, !.fp = fp, !.keep = keep, !.pc = "new"]
StartTasks(started, tk, t) ==
    LET sid(i) == allocated + i
        index(s) == s - allocated
    IN  /\ tasks' = [k \in Keys |->
                IF \E i \in DOMAIN started : started[i].key = k
                  THEN sid(CHOOSE i \in DOMAIN started : started[i].key = k)
                  ELSE tk[k]]
        /\ task' = [s \in Sids |->
                IF index(s) \in DOMAIN started
                  THEN NewTask(started[index(s)].key, started[index(s)].fp, TRUE)
                  ELSE t[s]]
        /\ sessionTasks' = sessionTasks \cup {sid(i) : i \in DOMAIN started}
        /\ allocated' = allocated + Len(started)

Cancel(t, sids) ==
    [s \in Sids |-> IF s \in sids /\ Running(s) THEN [t[s] EXCEPT !.cancel = TRUE] ELSE t[s]]

\* Setting the idle event wakes whoever waits at a gate; it does not look again.
Awake(t) == [s \in Sids |-> IF t[s].pc \in Gates THEN [t[s] EXCEPT !.woken = TRUE] ELSE t[s]]

\* Mutant: the foreground shuts the gates but leaves running tasks alone.
BeginForegroundQuietly(t) ==
    /\ fgCount' = fgCount + 1 /\ idle' = FALSE
    /\ task' = t

\* begin_foreground: every speculative task is cancelled; t has the caller's changes.
BeginForeground(t) ==
    /\ fgCount' = fgCount + 1 /\ idle' = FALSE
    /\ task' = Cancel(t, {tasks[k] : k \in WarmingKeys})

\* end_foreground
EndForeground(t) ==
    /\ fgCount' = IF fgCount > 0 THEN fgCount - 1 ELSE 0
    /\ IF fgCount <= 1
         THEN idle' = TRUE /\ task' = Awake(t) /\ pump' = (pump \/ ~closed)
         ELSE UNCHANGED <<idle, pump>> /\ task' = t

----------------------------------------------------------------------------
(* Synchronisation with the enabled channels and the configuration           *)

\* sync numbers itself, then looks up the projects in a thread.
SyncStart(want, fp) ==
    /\ syncs < MaxSyncs
    /\ syncs' = syncs + 1
    /\ syncing' = syncing \cup {[seq |-> syncs + 1, fp |-> fp, desired |-> want]}
    /\ UNCHANGED <<warming, pinning, foreground, handed, desired, rev, newest, slots,
                   task, allocated, disposing, closed, ready>>

\* Mutant: the last sync to arrive wins.
SupersededNever(r) == closed

\* sync is superseded by a later one that was faster, or the pool was closed.
Superseded(r) == closed \/ r.seq < rev.seq

Reconcile(r) ==
    LET keepsSlot(k) == k \in r.desired /\ task[slots[k]].fp = r.fp
        sl == [k \in Keys |-> IF slots[k] # NoSid /\ keepsSlot(k) THEN slots[k] ELSE NoSid]
        keepsTask(k) == k \in r.desired /\ task[tasks[k]].fp = r.fp
        tk == [k \in Keys |-> IF tasks[k] # NoSid /\ keepsTask(k) THEN tasks[k] ELSE NoSid]
        kept == At(pending, {i \in DOMAIN pending : pending[i].key \in r.desired /\ pending[i].fp = r.fp})
        queue == AllEnqueued(kept, r.desired, r.fp, sl, tk)
        walk == IF fgCount > 0 THEN [started |-> <<>>, left |-> queue]
                ELSE Pumped(queue, r, r.desired, sl, tk)
        cancelled == Cancel(task, {tasks[k] : k \in {x \in WarmingKeys : tk[x] = NoSid}})
    IN  /\ r \in syncing
        /\ syncing' = syncing \ {r}
        /\ IF Superseded(r)
             THEN UNCHANGED <<desired, rev, slots, tasks, sessionTasks, pending, task,
                              allocated, disposing>>
             ELSE /\ desired' = r.desired
                  /\ rev' = [seq |-> r.seq, fp |-> r.fp]
                  /\ slots' = sl
                  /\ disposing' = disposing \cup
                        {slots[k] : k \in {x \in ReadyKeys : sl[x] = NoSid}}
                  /\ pending' = walk.left
                  /\ StartTasks(walk.started, tk, cancelled)
        /\ newest' = IF ~closed /\ r.seq > newest.seq THEN [seq |-> r.seq, fp |-> r.fp]
                     ELSE newest
        /\ UNCHANGED <<pinning, foreground, handed, syncs, promoted, closed, ready>>

\* _delayed_pump, after the cooldown.
DelayedPump ==
    LET walk == IF closed \/ fgCount > 0 THEN [started |-> <<>>, left |-> pending]
                ELSE Pumped(pending, rev, desired, slots, tasks)
    IN  /\ pump /\ pump' = FALSE
        /\ pending' = walk.left
        /\ StartTasks(walk.started, tasks, task)
        /\ UNCHANGED <<config, pinning, handed, slots, promoted, disposing, fgCount,
                       idle, closed, ready>>

\* _dispose_slot of a slot that a sync or close took out.
DisposeSlot(s) ==
    /\ s \in disposing
    /\ disposing' = disposing \ {s}
    /\ pins' = Unpinned(pins, task[s].key)
    /\ ready' = ready \ {s}
    /\ UNCHANGED <<config, warming, foreground, handed, slots, task, allocated,
                   claimedPins, closed>>

----------------------------------------------------------------------------
(* One preparation                                                            *)

Holders(s, where) == {t \in Sids \ {s} : task[t].keep = task[s].keep /\ task[t].pc \in where}
SemaphoreFree(s) ==
    Cardinality(Holders(s, HoldsSemaphore)) < IF task[s].keep THEN MaxConcurrency ELSE MaxForeground
LockFree(s) == \A t \in Sids \ {s} : task[t].pc \notin HoldsLock

\* Where a task that need not wait gets to before it suspends again.
Gated(s, gate, next) == IF task[s].keep /\ ~idle THEN gate ELSE next
PastLock(s) == Gated(s, "gate2", "agent")
PastSemaphore(s) == IF LockFree(s) THEN PastLock(s) ELSE "lock"
PastGate1(s) == IF SemaphoreFree(s) THEN PastSemaphore(s) ELSE "sem"

GoOn(s, pc) == [task EXCEPT ![s].pc = pc, ![s].woken = FALSE]

\* The first step of a task; a foreground one registers itself and preempts the
\* speculative ones first.
Start(s) ==
    /\ task[s].pc = "new" /\ ~task[s].cancel
    /\ IF task[s].keep
         THEN /\ task' = GoOn(s, Gated(s, "gate1", PastGate1(s)))
              /\ UNCHANGED <<fgCount, idle>>
         ELSE BeginForeground(GoOn(s, "sem"))
    /\ UNCHANGED <<config, warming, pinning, handed, slots, allocated, disposing, pump,
                   closed, ready>>

\* A wake-up at a gate, a semaphore or lock acquired, an agent obtained, a yield.
Advance(s) ==
    /\ ~task[s].cancel
    /\ \/ /\ task[s].pc \in Gates /\ task[s].woken
          /\ task' = GoOn(s, IF task[s].pc = "gate1" THEN PastGate1(s)
                             ELSE IF task[s].pc = "gate2" THEN "agent" ELSE "prepare")
       \/ /\ task[s].pc = "sem" /\ SemaphoreFree(s)
          /\ task' = GoOn(s, PastSemaphore(s))
       \/ /\ task[s].pc = "lock" /\ LockFree(s)
          /\ task' = GoOn(s, PastLock(s))
       \/ /\ task[s].pc = "agent"
          /\ task' = GoOn(s, "yield")
       \/ /\ task[s].pc = "yield"
          /\ task' = GoOn(s, Gated(s, "gate3", "prepare"))
    /\ UNCHANGED <<config, warming, pinning, foreground, handed, slots, allocated,
                   disposing, closed, ready>>

\* The finally block, with the task's entries removed and a cancelled background
\* session queued again; sl is the pool's slots at that point.
Finally(s, cancelled, sl) ==
    LET k == task[s].key
        tk == IF tasks[k] = s THEN [tasks EXCEPT ![k] = NoSid] ELSE tasks
        again == cancelled /\ task[s].keep /\ k \in desired /\ task[s].fp = rev.fp
        ended == [task EXCEPT ![s].pc = "done", ![s].cancel = FALSE, ![s].woken = FALSE]
    IN  /\ tasks' = tk
        /\ sessionTasks' = sessionTasks \ {s}
        /\ promoted' = promoted \ {s}
        /\ pending' = IF again THEN Enqueued(pending, k, rev.fp, sl, tk) ELSE pending
        /\ IF task[s].keep
             THEN task' = ended /\ pump' = (pump \/ ~closed) /\ UNCHANGED <<fgCount, idle>>
             ELSE EndForeground(ended)

\* prepare_session returned: publish, or hand a promoted session to its claimer.
Prepared(s) ==
    LET k == task[s].key
        stale == s \notin promoted
                 /\ (closed \/ task[s].fp # rev.fp \/ k \notin desired)
    IN  /\ task[s].pc = "prepare" /\ ~task[s].cancel
        /\ ready' = ready \cup {s}
        /\ IF task[s].keep /\ stale
             THEN /\ task' = GoOn(s, "stale")
                  /\ UNCHANGED <<warming, pinning, foreground, slots>>
             ELSE /\ pins' = IF task[s].keep THEN [pins EXCEPT ![k] = @ + 1] ELSE pins
                  /\ claimedPins' = claimedPins \cup ({s} \cap promoted)
                  /\ slots' = IF task[s].keep /\ s \notin promoted
                                THEN [slots EXCEPT ![k] = s] ELSE slots
                  /\ Finally(s, FALSE, slots')
        /\ UNCHANGED <<config, handed, allocated, disposing, closed>>

\* Creating the agent or preparing the session raises.
Fail(s) ==
    /\ task[s].pc \in {"agent", "prepare"} /\ ~task[s].cancel
    /\ IF task[s].pc = "prepare"
         THEN /\ task' = GoOn(s, "fail")
              /\ UNCHANGED <<warming, foreground>>
         ELSE Finally(s, FALSE, slots)
    /\ UNCHANGED <<config, pinning, handed, slots, allocated, disposing, closed, ready>>

\* The cancellation is delivered.  A task cancelled before its first step never
\* enters its body, nor its finally block.
Cancelled(s) ==
    /\ task[s].cancel /\ task[s].pc \notin Disposals
    /\ IF task[s].pc = "new" \/ task[s].pc \in HasAgent
         THEN /\ task' = [task EXCEPT ![s].cancel = FALSE, ![s].woken = FALSE,
                             ![s].pc = IF @ = "new" THEN "done" ELSE "drop"]
              /\ UNCHANGED <<warming, foreground>>
         ELSE Finally(s, TRUE, slots)
    /\ UNCHANGED <<config, pinning, handed, slots, allocated, disposing, closed, ready>>

\* _dispose_runtime inside a preparation has ended, or was cancelled in its turn.
Disposed(s) ==
    /\ task[s].pc \in Disposals
    /\ pins' = IF task[s].pc = "stale" THEN Unpinned(pins, task[s].key) ELSE pins
    /\ ready' = ready \ {s}
    /\ Finally(s, task[s].pc = "drop", slots)
    /\ UNCHANGED <<config, handed, slots, allocated, claimedPins, disposing, closed>>

----------------------------------------------------------------------------
(* Claims and chats                                                           *)

\* Mutant: the slot is read where it should be removed.
LeftThere(k) == slots

\* The slots without that of a claimed key.
Popped(k) == [slots EXCEPT ![k] = NoSid]

Claim(k) ==
    LET sid == IF slots[k] # NoSid THEN slots[k]
               ELSE IF tasks[k] # NoSid THEN tasks[k] ELSE allocated + 1
        sl == Popped(k)
        tk == IF slots[k] = NoSid THEN [tasks EXCEPT ![k] = NoSid] ELSE tasks
    IN  /\ ~closed
        /\ sid \in Sids
        /\ slots' = sl /\ tasks' = tk
        /\ pending' = IF slots[k] # NoSid \/ k \in desired
                        THEN Enqueued(pending, k, rev.fp, sl, tk) ELSE pending
        /\ \/ /\ slots[k] # NoSid
              /\ claimedPins' = claimedPins \cup {sid}
              /\ hits' = hits \cup {sid}
              /\ UNCHANGED <<promoted, sessionTasks, task, allocated>>
           \/ /\ slots[k] = NoSid /\ tasks[k] # NoSid
              /\ promoted' = promoted \cup {sid}
              /\ sessionTasks' = sessionTasks \cup {sid}
              /\ UNCHANGED <<claimedPins, hits, task, allocated>>
           \/ /\ slots[k] = NoSid /\ tasks[k] = NoSid
              /\ task' = [task EXCEPT ![sid] = NewTask(k, rev.fp, FALSE)]
              /\ sessionTasks' = sessionTasks \cup {sid}
              /\ allocated' = sid
              /\ UNCHANGED <<claimedPins, hits, promoted>>
        /\ chat' = [chat EXCEPT ![sid] = "claimed"]
        /\ UNCHANGED <<config, foreground, pins, disposing, closed, ready>>

\* The pin of a claim is released by the first chat, by the provisioner or after 300 s.
PinReleased(s) ==
    /\ claimedPins' = claimedPins \ {s}
    /\ pins' = IF s \in claimedPins THEN Unpinned(pins, task[s].key) ELSE pins

ReleaseClaimPin(s) ==
    /\ s \in claimedPins
    /\ PinReleased(s)
    /\ UNCHANGED <<config, warming, foreground, handed, slots, task, allocated,
                   disposing, closed, ready>>

\* A chat turn opens its foreground section before anything else.
BeginChat(s) ==
    /\ chat[s] = "claimed"
    /\ chat' = [chat EXCEPT ![s] = "begun"]
    /\ BeginForeground(task)
    /\ UNCHANGED <<config, warming, pinning, slots, allocated, disposing, pump, closed,
                   ready, hits>>

\* wait_for_session: it waits for the task of the session, if there is one.
AwaitPrewarm(s) ==
    /\ \/ /\ chat[s] = "begun" /\ s \in sessionTasks
          /\ chat' = [chat EXCEPT ![s] = "waiting"]
          /\ UNCHANGED <<pinning>>
       \/ /\ \/ chat[s] = "begun" /\ s \notin sessionTasks
             \/ chat[s] = "waiting" /\ ~Running(s)
          /\ chat' = [chat EXCEPT ![s] = "served"]
          /\ PinReleased(s)
    /\ UNCHANGED <<config, warming, foreground, slots, task, allocated, disposing,
                   closed, ready, hits>>

\* The turn ends, or its user gives it up while it waits.
EndChat(s) ==
    /\ chat[s] \in {"waiting", "served"}
    /\ chat' = [chat EXCEPT ![s] = "claimed"]
    /\ EndForeground(task)
    /\ IF chat[s] = "waiting" THEN PinReleased(s) ELSE UNCHANGED pinning
    /\ UNCHANGED <<config, warming, slots, allocated, disposing, closed, ready, hits>>

\* close: the pool lets go of everything at once; its slots and pins follow.
Close ==
    /\ ~closed /\ closed' = TRUE
    /\ idle' = TRUE
    /\ task' = Cancel(Awake(task), {tasks[k] : k \in WarmingKeys} \cup sessionTasks)
    /\ tasks' = [k \in Keys |-> NoSid] /\ slots' = tasks'
    /\ pending' = <<>> /\ desired' = {} /\ sessionTasks' = {} /\ promoted' = {}
    /\ disposing' = disposing \cup {slots[k] : k \in ReadyKeys}
    /\ claimedPins' = {} /\ pump' = FALSE
    /\ pins' = [k \in Keys |->
                    pins[k] - Cardinality({s \in claimedPins : task[s].key = k})]
    /\ UNCHANGED <<handed, rev, syncing, syncs, newest, allocated, fgCount, ready>>

Next ==
    \/ \E want \in Targets, fp \in Fingerprints : SyncStart(want, fp)
    \/ \E r \in syncing : Reconcile(r)
    \/ DelayedPump
    \/ \E s \in Sids : \/ DisposeSlot(s) \/ Start(s) \/ Advance(s) \/ Prepared(s) \/ Fail(s)
                       \/ Cancelled(s) \/ Disposed(s) \/ ReleaseClaimPin(s)
                       \/ BeginChat(s) \/ AwaitPrewarm(s) \/ EndChat(s)
    \/ \E k \in Keys : Claim(k)
    \/ Close

Spec == Init /\ [][Next]_vars

----------------------------------------------------------------------------
(* Properties                                                                 *)

\* Every variable stays in its type; an unclaimed session has no chat.
TypeOK ==
    /\ desired \subseteq Keys /\ rev \in [seq : 0..MaxSyncs, fp : Fingerprints \cup {NoConfig}]
    /\ slots \in [Keys -> 0..MaxSessions] /\ tasks \in [Keys -> 0..MaxSessions]
    /\ sessionTasks \subseteq Sids /\ promoted \subseteq Sids /\ Len(pending) <= Len(KeyOrder)
    /\ task \in [Sids -> Preparation] /\ allocated \in 0..MaxSessions
    /\ claimedPins \subseteq Sids /\ pins \in [Keys -> Nat] /\ disposing \subseteq Sids
    /\ fgCount \in Nat /\ {idle, pump, closed} \subseteq BOOLEAN
    /\ chat \in [Sids -> {"off", "claimed", "begun", "waiting", "served"}]
    /\ ready \subseteq Sids /\ hits \subseteq Sids

Speculative(s) == task[s].keep /\ chat[s] = "off" /\ Running(s)
                  /\ ~task[s].cancel /\ task[s].pc \notin Disposals

\* The process holds at most MaxReady speculative sessions, READY slots and background
\* preparations still going ahead together, whatever syncs, claims and chats come
\* between (_pump_background_locked and every removal from _tasks).
SpeculationIsBounded ==
    Cardinality(ReadyKeys) + Cardinality({s \in Sids : Speculative(s)}) <= MaxReady

\* An agent is pinned once for each READY slot, each unreleased claim and each slot
\* still being closed, and by nothing else: no path pins without an owner or unpins
\* for somebody else (publish, claim, dispose, the claim's timeout, close).
PinsMatchOwners ==
    \A k \in Keys :
        pins[k] = Cardinality({s \in (claimedPins \cup disposing \cup {slots[k]}) \ {NoSid} :
                                   task[s].key = k})

\* While a chat or a foreground preparation is active, no speculative session builds
\* an agent or prepares a session (begin_foreground and the three waits for idle).
PrewarmYieldsToChats ==
    fgCount > 0 /\ ~closed =>
        \A s \in Sids : Speculative(s) => task[s].pc \notin {"agent", "yield", "prepare"}

\* A session is a READY slot, a claimer's, or one being closed, never two of them,
\* and one handed out as READY keeps its runtime: no sync, chat or close that got hold
\* of a slot earlier closes it under its new owner.
OneOwner ==
    LET slotted == {slots[k] : k \in ReadyKeys}
        owned == {s \in Sids : chat[s] # "off"}
    IN  /\ slotted \cap owned = {} /\ (slotted \cup owned) \cap disposing = {}
        /\ hits \subseteq ready

\* A READY slot was built from the configuration of the newest sync reconciled so
\* far, even when a slow older sync reconciles after it (the revision's sequence).
SlotsFollowNewestSync ==
    \A k \in ReadyKeys : task[slots[k]].fp = newest.fp

\* A chat that waits for its session's preparation is not what keeps that
\* preparation waiting ("A matching warming task is promoted to the foreground").
\* claim promotes the task but leaves it a background one, which waits for the
\* foreground to go idle.
NoStandoff ==
    \A s \in Sids : chat[s] = "waiting" =>
        ~(task[s].pc \in Gates /\ ~task[s].woken /\ ~task[s].cancel)

\* A key counted as warming has a task that still runs.  A task cancelled before its
\* first step never removes its own entry.
WarmingIsAlive == \A k \in WarmingKeys : Running(tasks[k])

\* A claimed session's preparation is not thrown away by the preemption that was
\* meant for speculative work.
ClaimsSurvivePreemption ==
    \A s \in Sids : chat[s] # "off" /\ ~closed => task[s].pc # "drop"
=============================================================================
