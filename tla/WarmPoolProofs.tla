---------------------------- MODULE WarmPoolProofs ----------------------------
(***************************************************************************)
(* The safety properties of AgentWarmPool for any number of keys, sessions, *)
(* syncs and configurations: one owner and one pin for each session, slots   *)
(* of the newest configuration, a bounded reserve, and a background that     *)
(* yields to chats.  They are proved together, by one inductive invariant,   *)
(* PoolInv.  What carries it is TaskInv: a preparation that still goes       *)
(* ahead and was not claimed is the entry its key has in the table of tasks. *)
(* So a task cancelled or overtaken can publish nothing, a session that      *)
(* publishes is nobody else's, and the reserve counts all speculative work.  *)
(***************************************************************************)
EXTENDS AgentWarmPool, FiniteSetTheorems, TLAPS

\* An entry of the queue.
Entry == [key : Keys, fp : Fingerprints \cup {NoConfig}]

\* The types, and that numbers above `allocated' are of no session yet.
Types ==
  /\ desired \subseteq Keys
  /\ rev \in [seq : Nat, fp : Fingerprints \cup {NoConfig}]
  /\ newest \in [seq : Nat, fp : Fingerprints \cup {NoConfig}]
  /\ syncs \in 0..MaxSyncs
  /\ syncing \subseteq [seq : Nat, fp : Fingerprints, desired : SUBSET Keys]
  /\ slots \in [Keys -> 0..allocated] /\ tasks \in [Keys -> 0..allocated]
  /\ sessionTasks \subseteq 1..allocated /\ promoted \subseteq 1..allocated
  /\ pending \in Seq(Entry)
  /\ task \in [Sids -> Preparation] /\ allocated \in 0..MaxSessions
  /\ claimedPins \subseteq 1..allocated /\ disposing \subseteq 1..allocated
  /\ pins \in [Keys -> Nat]
  /\ fgCount \in Nat /\ idle \in BOOLEAN /\ pump \in BOOLEAN /\ closed \in BOOLEAN
  /\ chat \in [Sids -> {"off", "claimed", "begun", "waiting", "served"}]
  /\ ready \subseteq 1..allocated /\ hits \subseteq 1..allocated
  /\ \A s \in Sids : s > allocated => task[s] = NoTask /\ chat[s] = "off"
  /\ \A s \in Sids : s <= allocated => task[s].pc # "none" /\ task[s].key \in Keys

\* The preparation of s goes ahead: nobody cancelled it and nothing failed.
GoesAhead(s) == Running(s) /\ ~task[s].cancel /\ task[s].pc \notin Disposals

\* A key is warmed once at a time: it is queued, or warming, or READY.
OnceInv ==
  /\ \A i, j \in DOMAIN pending : pending[i].key = pending[j].key => i = j
  /\ \A i \in DOMAIN pending : tasks[pending[i].key] = NoSid /\ slots[pending[i].key] = NoSid
  /\ \A k \in Keys : slots[k] = NoSid \/ tasks[k] = NoSid

\* What the pool holds, by key, is of that key, unclaimed, and of the current configuration.
HeldInv ==
  /\ \A k \in Keys : slots[k] # NoSid =>
       /\ task[slots[k]].key = k /\ task[slots[k]].pc = "done" /\ task[slots[k]].fp = rev.fp
       /\ slots[k] \in ready /\ chat[slots[k]] = "off" /\ ~closed
       /\ slots[k] \notin disposing \cup claimedPins \cup hits
  /\ \A k \in Keys : tasks[k] # NoSid =>
       /\ task[tasks[k]].key = k /\ task[tasks[k]].fp = rev.fp /\ k \in desired
       /\ task[tasks[k]].keep /\ chat[tasks[k]] = "off" /\ ~closed
       /\ tasks[k] \notin disposing \cup claimedPins \cup hits

\* Whoever still prepares is registered: in the pool's table unless it was claimed or cancelled.
TaskInv ==
  /\ \A s \in Sids : Running(s) /\ ~closed => s \in sessionTasks
  /\ \A s \in Sids : GoesAhead(s) => ~closed
  /\ \A s \in Sids : GoesAhead(s) /\ task[s].keep /\ chat[s] # "off" => s \in promoted
  /\ \A s \in Sids : GoesAhead(s) /\ task[s].keep /\ chat[s] = "off" => tasks[task[s].key] = s
  /\ \A s \in Sids : task[s].pc # "stale" /\ (task[s].pc = "done" => ~task[s].cancel)
  /\ promoted \subseteq {s \in Sids : chat[s] # "off" /\ task[s].keep}
  /\ \A s \in Sids : Running(s) => s \notin disposing \cup claimedPins \cup hits
  /\ disposing \subseteq {s \in Sids : chat[s] = "off"}
  /\ \A s \in hits : chat[s] # "off" /\ s \in ready
  /\ \A s \in claimedPins : chat[s] # "off"

Owners(k) == {s \in (claimedPins \cup disposing \cup {slots[k]}) \ {NoSid} : task[s].key = k}
PinsInv == \A k \in Keys : pins[k] = Cardinality(Owners(k))

\* Syncs are numbered, and the newest one reconciled is the configuration.
SyncInv ==
  /\ ~closed => newest = rev
  /\ rev.seq <= syncs
  /\ \A r \in syncing : r.seq <= syncs /\ r.seq # rev.seq
  /\ \A r, q \in syncing : r.seq = q.seq => r = q

\* While the foreground is busy nothing speculative is past a gate, nor woken at one.
YieldInv ==
  /\ ~closed => (idle <=> fgCount = 0)
  /\ \A s \in Sids : Speculative(s) /\ fgCount > 0 =>
       ~task[s].woken /\ task[s].pc \notin {"agent", "yield", "prepare"}

BoundInv == Cardinality(ReadyKeys) + Cardinality(WarmingKeys) <= MaxReady

PoolInv == Types /\ OnceInv /\ HeldInv /\ TaskInv /\ PinsInv /\ SyncInv /\ YieldInv /\ BoundInv

\* The smallest of three numbers is none above any of them.
LEMMA MinOfThree ==
  ASSUME NEW a \in Int, NEW b \in Int, NEW c \in Int
  PROVE  Min({a, b, c}) \in Int /\ Min({a, b, c}) <= a /\ Min({a, b, c}) <= b /\ Min({a, b, c}) <= c
<1>1. \E x \in {a, b, c} : \A y \in {a, b, c} : x =< y
  <2>1. CASE a <= b /\ a <= c
    BY <2>1
  <2>2. CASE b <= a /\ b <= c
    BY <2>2
  <2>3. CASE c <= a /\ c <= b
    BY <2>3
  <2> QED BY <2>1, <2>2, <2>3
<1>2. Min({a, b, c}) \in {a, b, c} /\ \A y \in {a, b, c} : Min({a, b, c}) =< y
  BY <1>1 DEF Min
<1> QED BY <1>2

\* The places of positions run from 1 to their number, in the order of the positions.
LEMMA PlaceFacts ==
  ASSUME NEW m \in Nat, NEW P \in SUBSET (1..m)
  PROVE  /\ IsFiniteSet(P) /\ Cardinality(P) \in Nat /\ Cardinality(P) <= m
         /\ \A i \in P : Place(P, i) \in 1..Cardinality(P)
         /\ \A i, j \in P : Place(P, i) = Place(P, j) => i = j
         /\ \A n \in 1..Cardinality(P) : \E i \in P : Place(P, i) = n
<1> DEFINE upTo(i) == {j \in P : j <= i}
<1>1. IsFiniteSet(P) /\ Cardinality(P) \in Nat /\ Cardinality(P) <= m
  <2>1. IsFiniteSet(1..m) /\ Cardinality(1..m) = m
    BY FS_Interval
  <2> QED BY <2>1, FS_Subset, FS_CardinalityType
<1>2. ASSUME NEW i \in P PROVE IsFiniteSet(upTo(i)) /\ Place(P, i) = Cardinality(upTo(i)) /\ Place(P, i) \in 1..Cardinality(P)
  <2>1. upTo(i) \in SUBSET P
    OBVIOUS
  <2>2. IsFiniteSet(upTo(i)) /\ Cardinality(upTo(i)) <= Cardinality(P) /\ Cardinality(upTo(i)) \in Nat
    BY <1>1, <2>1, FS_Subset, FS_CardinalityType
  <2>3. i \in upTo(i)
    OBVIOUS
  <2>4. Cardinality(upTo(i)) # 0
    BY <2>2, <2>3, FS_EmptySet
  <2>5. Place(P, i) = Cardinality(upTo(i))
    BY DEF Place
  <2> QED BY <1>1, <2>2, <2>4, <2>5
<1>3. ASSUME NEW i \in P, NEW j \in P, i < j PROVE Place(P, i) < Place(P, j)
  <2>0. i \in Int /\ j \in Int /\ \A x \in P : x \in Int
    OBVIOUS
  <2>1. upTo(i) \in SUBSET upTo(j)
    <3>1. ASSUME NEW x \in P, x <= i PROVE x <= j
      BY <1>3, <2>0, <3>1
    <3> QED BY <3>1
  <2>2. j \in upTo(j) /\ j \notin upTo(i)
    BY <1>3, <2>0
  <2>3. Cardinality(upTo(i)) <= Cardinality(upTo(j)) /\ Cardinality(upTo(i)) # Cardinality(upTo(j))
    BY <1>2, <2>1, <2>2, FS_Subset
  <2> QED BY <1>1, <1>2, <2>3
<1>4. \A i, j \in P : Place(P, i) = Place(P, j) => i = j
  <2> SUFFICES ASSUME NEW i \in P, NEW j \in P, Place(P, i) = Place(P, j) PROVE i = j
    OBVIOUS
  <2>0. i \in Int /\ j \in Int
    OBVIOUS
  <2>4. Place(P, i) \in 1..Cardinality(P)
    BY <1>2
  <2>1. i < j => Place(P, i) < Place(P, j)
    BY <1>3
  <2>2. j < i => Place(P, j) < Place(P, i)
    BY <1>3
  <2> QED BY <1>1, <2>0, <2>1, <2>2, <2>4
<1>5. ASSUME NEW n \in 1..Cardinality(P) PROVE \E i \in P : Place(P, i) = n
  <2> DEFINE f == [i \in P |-> Place(P, i)]
             T == 1..Cardinality(P)
  <2>1. f \in Injection(P, T)
    BY <1>2, <1>4 DEF Injection, IsInjective
  <2>2. IsFiniteSet(T) /\ Cardinality(T) = Cardinality(P)
    BY <1>1, FS_Interval
  <2>3. f \in Surjection(P, T)
    BY <2>1, <2>2, FS_Injection
  <2> QED BY <2>3 DEF Surjection
<1> QED BY <1>1, <1>2, <1>4, <1>5

\* What At returns.
LEMMA AtFacts ==
  ASSUME NEW S, NEW q \in Seq(S), NEW P \in SUBSET (1..Len(q))
  PROVE  /\ At(q, P) \in Seq(S) /\ Len(At(q, P)) = Cardinality(P) /\ Cardinality(P) \in Nat
         /\ \A n \in 1..Cardinality(P) : \E i \in P : At(q, P)[n] = q[i] /\ Place(P, i) = n
<1>1. Len(q) \in Nat /\ \A i \in 1..Len(q) : q[i] \in S
  OBVIOUS
<1>2. /\ Cardinality(P) \in Nat
      /\ \A n \in 1..Cardinality(P) : \E i \in P : Place(P, i) = n
  BY <1>1, PlaceFacts
<1>3. \A n \in 1..Cardinality(P) : (CHOOSE i \in P : Place(P, i) = n) \in P /\ Place(P, CHOOSE i \in P : Place(P, i) = n) = n
  BY <1>2
<1>4. At(q, P) = [n \in 1..Cardinality(P) |-> q[CHOOSE i \in P : Place(P, i) = n]]
  BY DEF At
<1>5. \A n \in 1..Cardinality(P) : At(q, P)[n] \in S
  BY <1>1, <1>3, <1>4
<1>6. At(q, P) \in Seq(S) /\ Len(At(q, P)) = Cardinality(P)
  BY <1>2, <1>4, <1>5
<1> QED BY <1>2, <1>3, <1>4, <1>6

\* Sequences of entries in which every key comes once.
Queue == {q \in Seq(Entry) : \A i, j \in DOMAIN q : q[i].key = q[j].key => i = j}

\* Parts of a queue are queues of its entries.
LEMMA AtOfQueue ==
  ASSUME NEW q \in Queue, NEW P \in SUBSET (1..Len(q))
  PROVE  /\ At(q, P) \in Queue /\ Len(At(q, P)) = Cardinality(P) /\ DOMAIN At(q, P) = 1..Cardinality(P)
         /\ \A n \in DOMAIN At(q, P) : \E i \in P : At(q, P)[n] = q[i]
<1>1. q \in Seq(Entry) /\ DOMAIN q = 1..Len(q)
  BY DEF Queue
<1>2. /\ At(q, P) \in Seq(Entry) /\ Len(At(q, P)) = Cardinality(P) /\ Cardinality(P) \in Nat
      /\ \A n \in 1..Cardinality(P) : \E i \in P : At(q, P)[n] = q[i] /\ Place(P, i) = n
  BY <1>1, AtFacts
<1>3. DOMAIN At(q, P) = 1..Cardinality(P)
  BY <1>2
<1>4. ASSUME NEW n \in 1..Cardinality(P), NEW m \in 1..Cardinality(P), At(q, P)[n].key = At(q, P)[m].key
      PROVE  n = m
  <2>1. PICK i \in P : At(q, P)[n] = q[i] /\ Place(P, i) = n
    BY <1>2
  <2>2. PICK j \in P : At(q, P)[m] = q[j] /\ Place(P, j) = m
    BY <1>2
  <2>3. i = j
    BY <1>1, <1>4, <2>1, <2>2 DEF Queue
  <2> QED BY <2>1, <2>2, <2>3
<1> QED BY <1>2, <1>3, <1>4 DEF Queue

\* Free(q, sl, tk): what is queued is neither held nor begun.
Unheld(q, sl, tk) == \A i \in DOMAIN q : sl[q[i].key] = NoSid /\ tk[q[i].key] = NoSid

\* What the walk of the pump starts and leaves.
LEMMA PumpedFacts ==
  ASSUME NEW q \in Queue, NEW cfg, NEW want, NEW sl, NEW tk, Room(sl, tk) \in Int
  PROVE  LET w == Pumped(q, cfg, want, sl, tk)
         IN  /\ w.started \in Queue /\ w.left \in Queue
             /\ \A n \in DOMAIN w.started : w.started[n].fp = cfg.fp /\ w.started[n].key \in want
             /\ \A n \in DOMAIN w.started : \E i \in DOMAIN q : w.started[n] = q[i]
             /\ \A n \in DOMAIN w.left : \E i \in DOMAIN q : w.left[n] = q[i]
             /\ \A n \in DOMAIN w.started : \A m \in DOMAIN w.left : w.started[n].key # w.left[m].key
             /\ Len(w.started) = 0 \/ Len(w.started) <= Room(sl, tk)
<1> DEFINE wanted == {i \in DOMAIN q : q[i].fp = cfg.fp /\ q[i].key \in want}
           room == Room(sl, tk)
           starts == {i \in wanted : Place(wanted, i) <= room}
           before(i) == {j \in wanted : j < i}
           leaves == {i \in DOMAIN q : Cardinality(before(i)) >= room}
           w == Pumped(q, cfg, want, sl, tk)
<1>1. DOMAIN q = 1..Len(q) /\ Len(q) \in Nat
  BY DEF Queue
<1>2. wanted \in SUBSET (1..Len(q)) /\ starts \in SUBSET (1..Len(q)) /\ leaves \in SUBSET (1..Len(q))
  BY <1>1
<1>3. w.started = At(q, starts) /\ w.left = At(q, leaves)
  BY DEF Pumped
<1>4. IsFiniteSet(wanted) /\ (\A i \in wanted : Place(wanted, i) \in 1..Cardinality(wanted))
      /\ \A i, j \in wanted : Place(wanted, i) = Place(wanted, j) => i = j
  BY <1>1, <1>2, PlaceFacts
<1>5. starts \cap leaves = {}
  <2> SUFFICES ASSUME NEW i \in wanted, Place(wanted, i) <= room, Cardinality(before(i)) >= room PROVE FALSE
    OBVIOUS
  <2>1. {j \in wanted : j <= i} = before(i) \cup {i} /\ i \notin before(i)
    BY <1>1
  <2>2. IsFiniteSet(before(i))
    BY <1>4, FS_Subset
  <2>3. Place(wanted, i) = Cardinality(before(i)) + 1 /\ Cardinality(before(i)) \in Nat
    BY <2>1, <2>2, FS_AddElement, FS_CardinalityType DEF Place
  <2> QED BY <2>3
<1>6. Cardinality(starts) = 0 \/ Cardinality(starts) <= room
  <2>1. CASE starts = {}
    BY <2>1, FS_EmptySet
  <2>2. CASE starts # {}
    <3> DEFINE f == [i \in starts |-> Place(wanted, i)]
    <3>1. room >= 1
      BY <1>4, <2>2
    <3>2. f \in Injection(starts, 1..room)
      BY <1>4 DEF Injection, IsInjective
    <3>3. IsFiniteSet(1..room) /\ Cardinality(1..room) = room
      BY <3>1, FS_Interval
    <3>4. Cardinality(starts) <= Cardinality(1..room)
      <4> HIDE DEF f, starts, room
      <4> QED BY <3>2, <3>3, FS_Injection
    <3> QED BY <3>3, <3>4
  <2> QED BY <2>1, <2>2
<1> HIDE DEF starts, leaves, wanted, w, room
<1>7. /\ w.started \in Queue /\ w.left \in Queue
      /\ Len(w.started) = Cardinality(starts)
      /\ \A n \in DOMAIN w.started : \E i \in starts : w.started[n] = q[i]
      /\ \A n \in DOMAIN w.left : \E i \in leaves : w.left[n] = q[i]
  BY <1>2, <1>3, AtOfQueue
<1>8. \A n \in DOMAIN w.started : w.started[n].fp = cfg.fp /\ w.started[n].key \in want
  BY <1>7 DEF starts, wanted
<1>9. ASSUME NEW n \in DOMAIN w.started, NEW m \in DOMAIN w.left, w.started[n].key = w.left[m].key PROVE FALSE
  <2>1. PICK i \in starts : w.started[n] = q[i]
    BY <1>7
  <2>2. PICK j \in leaves : w.left[m] = q[j]
    BY <1>7
  <2>3. i = j
    BY <1>1, <1>2, <1>9, <2>1, <2>2 DEF Queue
  <2> QED BY <1>5, <2>3
<1>10. Len(w.started) = 0 \/ Len(w.started) <= Room(sl, tk)
  BY <1>6, <1>7 DEF room
<1>11. starts \subseteq DOMAIN q /\ leaves \subseteq DOMAIN q
  BY <1>1, <1>2
<1> QED BY <1>7, <1>8, <1>9, <1>10, <1>11 DEF w

\* What reconciling puts into the queue behind what it kept.
LEMMA AllEnqueuedFacts ==
  ASSUME NEW q \in Queue, NEW want \in SUBSET Keys, NEW fp \in Fingerprints, NEW sl, NEW tk,
         Unheld(q, sl, tk)
  PROVE  /\ AllEnqueued(q, want, fp, sl, tk) \in Queue
         /\ Unheld(AllEnqueued(q, want, fp, sl, tk), sl, tk)
<1> DEFINE P == {i \in DOMAIN KeyOrder : KeyOrder[i] \in want /\ Missing(q, KeyOrder[i], sl, tk)}
           added == At(KeyOrder, P)
           tail == [n \in DOMAIN added |-> [key |-> added[n], fp |-> fp]]
           all == AllEnqueued(q, want, fp, sl, tk)
<1>1. KeyOrder \in Seq(Keys) /\ DOMAIN KeyOrder = 1..Len(KeyOrder) /\ \A i, j \in DOMAIN KeyOrder : KeyOrder[i] = KeyOrder[j] => i = j
  BY PoolAssumption DEF Keys, IsInjective
<1>2. P \in SUBSET (1..Len(KeyOrder))
  BY <1>1
<1>3. /\ added \in Seq(Keys) /\ Len(added) = Cardinality(P) /\ Cardinality(P) \in Nat
      /\ \A n \in 1..Cardinality(P) : \E i \in P : added[n] = KeyOrder[i] /\ Place(P, i) = n
  <2> HIDE DEF P
  <2> QED BY <1>1, <1>2, AtFacts
<1> HIDE DEF added
<1>4. /\ DOMAIN added = 1..Len(added)
      /\ \A n \in DOMAIN added : Missing(q, added[n], sl, tk) /\ added[n] \in Keys
      /\ \A n, m \in DOMAIN added : added[n] = added[m] => n = m
  <2>1. DOMAIN added = 1..Len(added)
    BY <1>3
  <2>2. \A n \in DOMAIN added : Missing(q, added[n], sl, tk) /\ added[n] \in Keys
    BY <1>3, <2>1
  <2>3. ASSUME NEW n \in DOMAIN added, NEW m \in DOMAIN added, added[n] = added[m] PROVE n = m
    <3>1. PICK i \in P : added[n] = KeyOrder[i] /\ Place(P, i) = n
      BY <1>3, <2>1
    <3>2. PICK j \in P : added[m] = KeyOrder[j] /\ Place(P, j) = m
      BY <1>3, <2>1
    <3>3. i = j
      BY <1>1, <2>3, <3>1, <3>2
    <3> QED BY <3>1, <3>2, <3>3
  <2> QED BY <2>1, <2>2, <2>3
<1>5. all = q \o tail
  BY DEF AllEnqueued, added
<1>6. q \in Seq(Entry) /\ tail \in Seq(Entry) /\ Len(tail) = Len(added) /\ Len(q) \in Nat /\ Len(added) \in Nat
  <2>1. \A n \in DOMAIN added : [key |-> added[n], fp |-> fp] \in Entry
    BY <1>4 DEF Entry
  <2> QED BY <1>3, <1>4, <2>1 DEF Queue
<1> HIDE DEF all, P
<1>7. /\ all \in Seq(Entry) /\ DOMAIN all = 1..(Len(q) + Len(added))
      /\ \A i \in 1..Len(q) : all[i] = q[i]
      /\ \A i \in 1..Len(added) : all[Len(q) + i] = tail[i] /\ tail[i].key = added[i]
  BY <1>4, <1>5, <1>6
<1>8. ASSUME NEW i \in DOMAIN all PROVE \/ i \in 1..Len(q) /\ all[i] = q[i]
                                        \/ \E n \in DOMAIN added : i = Len(q) + n /\ all[i].key = added[n]
  <2>1. CASE i <= Len(q)
    BY <1>6, <1>7, <2>1
  <2>2. CASE i > Len(q)
    <3> DEFINE n == i - Len(q)
    <3>1. n \in 1..Len(added) /\ i = Len(q) + n
      BY <1>6, <1>7, <2>2
    <3> HIDE DEF n
    <3>2. all[Len(q) + n] = tail[n] /\ tail[n].key = added[n] /\ n \in DOMAIN added
      BY <1>4, <1>7, <3>1
    <3> QED BY <3>1, <3>2
  <2> QED BY <1>6, <1>7, <2>1, <2>2
<1> HIDE DEF tail
<1>9. DOMAIN q = 1..Len(q)
  BY <1>6
<1>10. ASSUME NEW i \in DOMAIN all, NEW j \in DOMAIN all, all[i].key = all[j].key PROVE i = j
  <2>1. CASE i \in 1..Len(q) /\ all[i] = q[i]
    <3>1. CASE j \in 1..Len(q) /\ all[j] = q[j]
      BY <1>9, <1>10, <2>1, <3>1 DEF Queue
    <3>2. CASE \E n \in DOMAIN added : j = Len(q) + n /\ all[j].key = added[n]
      BY <1>4, <1>9, <1>10, <2>1, <3>2 DEF Missing
    <3> QED BY <1>8, <3>1, <3>2
  <2>2. CASE \E n \in DOMAIN added : i = Len(q) + n /\ all[i].key = added[n]
    <3>1. CASE j \in 1..Len(q) /\ all[j] = q[j]
      BY <1>4, <1>9, <1>10, <2>2, <3>1 DEF Missing
    <3>2. CASE \E n \in DOMAIN added : j = Len(q) + n /\ all[j].key = added[n]
      BY <1>4, <1>10, <2>2, <3>2
    <3> QED BY <1>8, <3>1, <3>2
  <2> QED BY <1>8, <2>1, <2>2
<1>11. ASSUME NEW i \in DOMAIN all PROVE sl[all[i].key] = NoSid /\ tk[all[i].key] = NoSid
  BY <1>4, <1>8, <1>9 DEF Missing, Unheld
<1> QED BY <1>7, <1>10, <1>11 DEF Queue, Unheld, all

\* The keys are finitely many.
LEMMA KeysFinite == IsFiniteSet(Keys)
<1>1. KeyOrder \in Seq(Keys) /\ DOMAIN KeyOrder = 1..Len(KeyOrder) /\ Len(KeyOrder) \in Nat
  BY PoolAssumption DEF Keys
<1>2. KeyOrder \in Surjection(1..Len(KeyOrder), Keys)
  BY <1>1 DEF Surjection, Keys, Range
<1> QED BY <1>1, <1>2, FS_Interval, FS_Surjection

\* The keys a table holds something for.
Holding(f) == {k \in Keys : f[k] # NoSid}

\* There are finitely many.
LEMMA HoldingFacts ==
  ASSUME NEW f
  PROVE  IsFiniteSet(Holding(f)) /\ Cardinality(Holding(f)) \in Nat
BY KeysFinite, FS_Subset, FS_CardinalityType DEF Holding

\* The pump's room is within the reserve and the session ids.
LEMMA RoomFacts ==
  ASSUME NEW sl, NEW tk, allocated \in Nat
  PROVE  /\ Room(sl, tk) \in Int
         /\ Room(sl, tk) <= MaxReady - Cardinality(Holding(sl)) - Cardinality(Holding(tk))
         /\ Room(sl, tk) <= MaxSessions - allocated
<1>1. /\ Cardinality(Holding(sl)) \in Nat /\ Cardinality(Holding(tk)) \in Nat
      /\ MaxConcurrency \in Int /\ MaxReady \in Int /\ MaxSessions \in Int
  BY HoldingFacts, PoolAssumption
<1> DEFINE a == MaxConcurrency - Cardinality(Holding(tk))
           b == MaxReady - Cardinality(Holding(sl)) - Cardinality(Holding(tk))
           c == MaxSessions - allocated
<1>2. a \in Int /\ b \in Int /\ c \in Int
  BY <1>1
<1>3. Room(sl, tk) = Min({a, b, c})
  BY DEF Room, Holding
<1> HIDE DEF a, b, c
<1>4. Room(sl, tk) \in Int /\ Room(sl, tk) <= b /\ Room(sl, tk) <= c
  BY <1>2, <1>3, MinOfThree
<1> QED BY <1>4 DEF b, c

\* What the pump makes of a queue.
Walked(cfg, want, sl, tk, w) ==
  /\ w.started \in Queue /\ w.left \in Queue
  /\ Unheld(w.started, sl, tk) /\ Unheld(w.left, sl, tk)
  /\ \A n \in DOMAIN w.started : w.started[n].fp = cfg.fp /\ w.started[n].key \in want
  /\ \A n \in DOMAIN w.started : \A m \in DOMAIN w.left : w.started[n].key # w.left[m].key
  /\ \/ Len(w.started) = 0
     \/ Len(w.started) <= MaxReady - Cardinality(Holding(sl)) - Cardinality(Holding(tk))
  /\ allocated + Len(w.started) <= MaxSessions

\* The pump keeps the queue in order, whether it may start anything or not.
LEMMA WalkFacts ==
  ASSUME NEW q \in Queue, NEW cfg, NEW want, NEW sl, NEW tk, allocated \in 0..MaxSessions,
         Unheld(q, sl, tk)
  PROVE  /\ Walked(cfg, want, sl, tk, Pumped(q, cfg, want, sl, tk))
         /\ Walked(cfg, want, sl, tk, [started |-> <<>>, left |-> q])
<1>0. allocated \in Nat /\ MaxSessions \in Nat /\ allocated <= MaxSessions
  BY PoolAssumption
<1>1. /\ Room(sl, tk) \in Int
      /\ Room(sl, tk) <= MaxReady - Cardinality(Holding(sl)) - Cardinality(Holding(tk))
      /\ Room(sl, tk) <= MaxSessions - allocated
  BY <1>0, RoomFacts
<1>2. MaxReady \in Nat /\ Cardinality(Holding(sl)) \in Nat /\ Cardinality(Holding(tk)) \in Nat
  BY HoldingFacts, PoolAssumption
<1>3. Walked(cfg, want, sl, tk, Pumped(q, cfg, want, sl, tk))
  <2> DEFINE w == Pumped(q, cfg, want, sl, tk)
  <2>1. /\ w.started \in Queue /\ w.left \in Queue
        /\ \A n \in DOMAIN w.started : w.started[n].fp = cfg.fp /\ w.started[n].key \in want
        /\ \A n \in DOMAIN w.started : \E i \in DOMAIN q : w.started[n] = q[i]
        /\ \A n \in DOMAIN w.left : \E i \in DOMAIN q : w.left[n] = q[i]
        /\ \A n \in DOMAIN w.started : \A m \in DOMAIN w.left : w.started[n].key # w.left[m].key
        /\ Len(w.started) = 0 \/ Len(w.started) <= Room(sl, tk)
    BY <1>1, PumpedFacts
  <2> HIDE DEF w
  <2>2. Unheld(w.started, sl, tk) /\ Unheld(w.left, sl, tk)
    BY <2>1 DEF Unheld
  <2>3. Len(w.started) \in Nat
    BY <2>1 DEF Queue
  <2>4. /\ \/ Len(w.started) = 0
           \/ Len(w.started) <= MaxReady - Cardinality(Holding(sl)) - Cardinality(Holding(tk))
        /\ allocated + Len(w.started) <= MaxSessions
    BY <1>0, <1>1, <1>2, <2>1, <2>3
  <2> QED BY <2>1, <2>2, <2>4 DEF w, Walked
<1>4. Walked(cfg, want, sl, tk, [started |-> <<>>, left |-> q])
  <2>1. <<>> \in Queue /\ DOMAIN <<>> = {} /\ Len(<<>>) = 0
    BY DEF Queue
  <2> QED BY <1>0, <2>1 DEF Walked, Unheld
<1> QED BY <1>3, <1>4

\* What starting tasks does to the sessions and to the table.
LEMMA StartFacts ==
  ASSUME NEW started \in Queue, NEW tk \in [Keys -> 0..allocated], NEW t,
         allocated \in 0..MaxSessions, sessionTasks \subseteq 1..allocated,
         allocated + Len(started) <= MaxSessions,
         StartTasks(started, tk, t)
  PROVE  /\ Len(started) \in Nat /\ DOMAIN started = 1..Len(started)
         /\ allocated' = allocated + Len(started) /\ allocated' \in 0..MaxSessions
         /\ DOMAIN task' = Sids
         /\ \A s \in Sids : s <= allocated \/ s > allocated' => task'[s] = t[s]
         /\ \A i \in DOMAIN started :
              /\ allocated + i \in Sids /\ allocated + i <= allocated'
              /\ task'[allocated + i] = NewTask(started[i].key, started[i].fp, TRUE)
              /\ tasks'[started[i].key] = allocated + i
              /\ allocated + i \in sessionTasks'
         /\ \A s \in Sids : s > allocated /\ s <= allocated' => \E i \in DOMAIN started : s = allocated + i
         /\ \A k \in Keys : \/ tasks'[k] = tk[k] /\ \A i \in DOMAIN started : started[i].key # k
                            \/ \E i \in DOMAIN started : started[i].key = k
         /\ tasks' \in [Keys -> 0..allocated'] /\ sessionTasks \subseteq sessionTasks'
         /\ sessionTasks' \subseteq 1..allocated'
<1>1. /\ Len(started) \in Nat /\ DOMAIN started = 1..Len(started)
      /\ \A i \in DOMAIN started : started[i] \in Entry /\ started[i].key \in Keys
  <2>1. started \in Seq(Entry)
    BY DEF Queue
  <2>2. \A i \in DOMAIN started : started[i] \in Entry
    BY <2>1
  <2>3. \A e \in Entry : e.key \in Keys
    BY DEF Entry
  <2> QED BY <2>1, <2>2, <2>3
<1>2. /\ tasks' = [k \in Keys |-> IF \E i \in DOMAIN started : started[i].key = k
                                   THEN allocated + (CHOOSE i \in DOMAIN started : started[i].key = k)
                                   ELSE tk[k]]
      /\ task' = [s \in Sids |-> IF s - allocated \in DOMAIN started
                   THEN NewTask(started[s - allocated].key, started[s - allocated].fp, TRUE)
                   ELSE t[s]]
      /\ sessionTasks' = sessionTasks \cup {allocated + i : i \in DOMAIN started}
      /\ allocated' = allocated + Len(started)
  BY DEF StartTasks
<1>3. allocated \in Nat /\ MaxSessions \in Nat /\ allocated' \in 0..MaxSessions /\ Sids = 1..MaxSessions
  BY <1>1, <1>2, PoolAssumption DEF Sids
<1>4. DOMAIN task' = Sids /\ \A s \in Sids : s <= allocated \/ s > allocated' => task'[s] = t[s]
  <2>1. DOMAIN task' = Sids
    BY <1>2
  <2>2. ASSUME NEW s \in Sids, s <= allocated \/ s > allocated' PROVE task'[s] = t[s]
    <3>1. s - allocated \notin 1..Len(started)
      BY <1>1, <1>2, <1>3, <2>2
    <3> QED BY <1>1, <1>2, <3>1
  <2> QED BY <2>1, <2>2
<1>5. \A i \in DOMAIN started : (CHOOSE j \in DOMAIN started : started[j].key = started[i].key) = i
  BY <1>1 DEF Queue
<1>6. ASSUME NEW i \in DOMAIN started
      PROVE  /\ allocated + i \in Sids /\ allocated + i <= allocated' /\ (allocated + i) - allocated = i
             /\ allocated + i \in 1..allocated'
  BY <1>1, <1>2, <1>3
<1>7. ASSUME NEW i \in DOMAIN started
      PROVE  /\ task'[allocated + i] = NewTask(started[i].key, started[i].fp, TRUE)
             /\ tasks'[started[i].key] = allocated + i
             /\ allocated + i \in sessionTasks'
  <2>1. task'[allocated + i] = NewTask(started[i].key, started[i].fp, TRUE)
    BY <1>2, <1>6
  <2>2. tasks'[started[i].key] = allocated + i
    BY <1>1, <1>2, <1>5
  <2> QED BY <1>2, <2>1, <2>2
<1>8. ASSUME NEW s \in Sids, s > allocated, s <= allocated'
      PROVE  \E i \in DOMAIN started : s = allocated + i
  <2>1. s - allocated \in DOMAIN started /\ s = allocated + (s - allocated)
    BY <1>1, <1>2, <1>3, <1>8
  <2> QED BY <2>1
<1>9. \A k \in Keys : \/ tasks'[k] = tk[k] /\ \A i \in DOMAIN started : started[i].key # k
                      \/ \E i \in DOMAIN started : started[i].key = k
  BY <1>2
<1>10. tasks' \in [Keys -> 0..allocated']
  <2>1. \A k \in Keys : tk[k] \in 0..allocated'
    BY <1>1, <1>2, <1>3
  <2>2. ASSUME NEW k \in Keys PROVE tasks'[k] \in 0..allocated'
    <3>1. CASE \E i \in DOMAIN started : started[i].key = k
      <4>1. PICK i \in DOMAIN started : started[i].key = k
        BY <3>1
      <4>2. tasks'[k] = allocated + i /\ allocated + i \in 1..allocated'
        BY <1>6, <1>7, <4>1
      <4> QED BY <1>3, <4>2
    <3>2. CASE ~\E i \in DOMAIN started : started[i].key = k
      BY <1>9, <2>1, <3>2
    <3> QED BY <3>1, <3>2
  <2> QED BY <1>2, <2>2
<1>11. sessionTasks \subseteq sessionTasks' /\ sessionTasks' \subseteq 1..allocated'
  <2>1. 1..allocated \subseteq 1..allocated'
    BY <1>1, <1>2, <1>3
  <2> QED BY <1>2, <1>6, <2>1
<1> QED BY <1>1, <1>2, <1>3, <1>4, <1>6, <1>7, <1>8, <1>9, <1>10, <1>11

\* What may become of the preparations: each goes on with its work or ends it, none is
\* begun or comes back.
OnwardTo(t) ==
  /\ t \in [Sids -> Preparation]
  /\ \A s \in Sids :
       /\ t[s].key = task[s].key /\ t[s].fp = task[s].fp /\ t[s].keep = task[s].keep
       /\ task[s].pc = "none" => t[s] = task[s]
       /\ task[s].pc = "done" => t[s].pc = "done"
       /\ task[s].pc # "none" => t[s].pc # "none"
       /\ t[s].pc # "stale" /\ (t[s].pc = "done" => ~t[s].cancel)
       /\ t[s].pc \notin {"none", "done"} /\ ~t[s].cancel /\ t[s].pc \notin Disposals => GoesAhead(s)

\* The preparations u are those of t, with one flag set of those of S that run.
CancelledIn(u, t, S) ==
  /\ u \in [Sids -> Preparation]
  /\ \A s \in Sids :
       /\ u[s].key = t[s].key /\ u[s].fp = t[s].fp /\ u[s].keep = t[s].keep /\ u[s].pc = t[s].pc
       /\ u[s].woken = t[s].woken
       /\ u[s].cancel = IF s \in S /\ Running(s) THEN TRUE ELSE t[s].cancel
       /\ ~Running(s) => u[s] = t[s]

\* Cancelling does that.
LEMMA CancelOf ==
  ASSUME NEW t \in [Sids -> Preparation], NEW S
  PROVE  CancelledIn(Cancel(t, S), t, S)
<1>1. Cancel(t, S) = [s \in Sids |-> IF s \in S /\ Running(s) THEN [t[s] EXCEPT !.cancel = TRUE] ELSE t[s]]
  BY DEF Cancel
<1>2. ASSUME NEW s \in Sids
      PROVE  /\ Cancel(t, S)[s] \in Preparation
             /\ Cancel(t, S)[s].key = t[s].key /\ Cancel(t, S)[s].fp = t[s].fp
             /\ Cancel(t, S)[s].keep = t[s].keep /\ Cancel(t, S)[s].pc = t[s].pc
             /\ Cancel(t, S)[s].woken = t[s].woken
             /\ Cancel(t, S)[s].cancel = IF s \in S /\ Running(s) THEN TRUE ELSE t[s].cancel
             /\ ~Running(s) => Cancel(t, S)[s] = t[s]
  <2>1. CASE s \in S /\ Running(s)
    BY <1>1, <2>1 DEF Preparation
  <2>2. CASE ~(s \in S /\ Running(s))
    BY <1>1, <2>2
  <2> QED BY <2>1, <2>2
<1> DEFINE u == Cancel(t, S)
<1>3. u \in [Sids -> Preparation]
  BY <1>1, <1>2
<1>4. \A s \in Sids :
       /\ u[s].key = t[s].key /\ u[s].fp = t[s].fp /\ u[s].keep = t[s].keep /\ u[s].pc = t[s].pc
       /\ u[s].woken = t[s].woken
       /\ u[s].cancel = IF s \in S /\ Running(s) THEN TRUE ELSE t[s].cancel
       /\ ~Running(s) => u[s] = t[s]
  BY <1>2
<1> HIDE DEF u
<1>5. CancelledIn(u, t, S)
  BY <1>3, <1>4 DEF CancelledIn
<1> QED BY <1>5 DEF u

\* Waking sets one flag of those at a gate.
LEMMA AwakeOf ==
  ASSUME NEW t \in [Sids -> Preparation]
  PROVE  /\ Awake(t) \in [Sids -> Preparation]
         /\ \A s \in Sids :
              /\ Awake(t)[s].key = t[s].key /\ Awake(t)[s].fp = t[s].fp
              /\ Awake(t)[s].keep = t[s].keep /\ Awake(t)[s].pc = t[s].pc
              /\ Awake(t)[s].cancel = t[s].cancel
              /\ t[s].pc \notin Gates => Awake(t)[s] = t[s]
<1>1. Awake(t) = [s \in Sids |-> IF t[s].pc \in Gates THEN [t[s] EXCEPT !.woken = TRUE] ELSE t[s]]
  BY DEF Awake
<1>2. ASSUME NEW s \in Sids
      PROVE  /\ Awake(t)[s] \in Preparation
             /\ Awake(t)[s].key = t[s].key /\ Awake(t)[s].fp = t[s].fp
             /\ Awake(t)[s].keep = t[s].keep /\ Awake(t)[s].pc = t[s].pc
             /\ Awake(t)[s].cancel = t[s].cancel
             /\ t[s].pc \notin Gates => Awake(t)[s] = t[s]
  <2>1. CASE t[s].pc \in Gates
    BY <1>1, <2>1 DEF Preparation
  <2>2. CASE t[s].pc \notin Gates
    BY <1>1, <2>2
  <2> QED BY <2>1, <2>2
<1> QED BY <1>1, <1>2

\* A session that goes on changes its place and its wake-up.
LEMMA GoOnOf ==
  ASSUME task \in [Sids -> Preparation], NEW s \in Sids,
         NEW pc \in {"sem", "done"} \cup Gates \cup HoldsSemaphore \cup Disposals
  PROVE  /\ GoOn(s, pc) \in [Sids -> Preparation]
         /\ GoOn(s, pc)[s].pc = pc /\ ~GoOn(s, pc)[s].woken
         /\ GoOn(s, pc)[s].cancel = task[s].cancel
         /\ GoOn(s, pc)[s].key = task[s].key /\ GoOn(s, pc)[s].fp = task[s].fp
         /\ GoOn(s, pc)[s].keep = task[s].keep
         /\ \A u \in Sids \ {s} : GoOn(s, pc)[u] = task[u]
<1>1. GoOn(s, pc) = [task EXCEPT ![s] = [task[s] EXCEPT !.pc = pc, !.woken = FALSE]]
  BY DEF GoOn
<1>2. task[s] \in Preparation
  OBVIOUS
<1>3. [task[s] EXCEPT !.pc = pc, !.woken = FALSE] \in Preparation
  BY <1>2 DEF Preparation
<1> DEFINE n == [task[s] EXCEPT !.pc = pc, !.woken = FALSE]
<1>4. n.pc = pc /\ ~n.woken /\ n.cancel = task[s].cancel /\ n.key = task[s].key /\ n.fp = task[s].fp /\ n.keep = task[s].keep
  BY <1>2 DEF Preparation
<1> HIDE DEF n
<1>5. GoOn(s, pc) = [task EXCEPT ![s] = n] /\ n \in Preparation
  BY <1>1, <1>3 DEF n
<1>6. GoOn(s, pc)[s] = n /\ GoOn(s, pc) \in [Sids -> Preparation] /\ \A u \in Sids \ {s} : GoOn(s, pc)[u] = task[u]
  BY <1>5
<1> QED BY <1>4, <1>6

\* What the pins are of is a session that was allocated.
LEMMA Pinned ==
  ASSUME Types, NEW k \in Keys
  PROVE  /\ (claimedPins \cup disposing \cup {slots[k]}) \ {NoSid} \subseteq 1..allocated
         /\ 1..allocated \subseteq Sids /\ IsFiniteSet(1..allocated)
<1>1. allocated \in Nat /\ MaxSessions \in Nat /\ allocated <= MaxSessions /\ Sids = 1..MaxSessions
  BY PoolAssumption DEF Types, Sids
<1>2. claimedPins \subseteq 1..allocated /\ disposing \subseteq 1..allocated
  BY DEF Types
<1>3. slots[k] \in 0..allocated
  BY DEF Types
<1>4. slots[k] # NoSid => slots[k] \in 1..allocated
  BY <1>1, <1>3 DEF NoSid
<1>5. 1..allocated \subseteq Sids /\ IsFiniteSet(1..allocated)
  BY <1>1, FS_Interval
<1> QED BY <1>2, <1>4, <1>5

\* The owners of an agent's pins are sessions, so finitely many.
LEMMA OwnersFinite ==
  ASSUME Types, NEW k \in Keys
  PROVE  IsFiniteSet(Owners(k)) /\ Owners(k) \subseteq 1..allocated /\ Owners(k) \subseteq Sids
<1>1. Owners(k) \subseteq 1..allocated
  BY Pinned DEF Owners
<1> QED BY <1>1, Pinned, FS_Subset

\* One owner less, one pin less.
LEMMA PinDropped ==
  ASSUME Types, PinsInv, NEW x, task[x].key \in Keys, x \in Owners(task[x].key),
         pins' = Unpinned(pins, task[x].key),
         \A k \in Keys : Owners(k)' = IF k = task[x].key THEN Owners(k) \ {x} ELSE Owners(k)
  PROVE  PinsInv' /\ pins' \in [Keys -> Nat]
<1>1. pins' = [pins EXCEPT ![task[x].key] = IF @ > 0 THEN @ - 1 ELSE 0]
  BY DEF Unpinned
<1>2. pins \in [Keys -> Nat] /\ \A k \in Keys : pins[k] = Cardinality(Owners(k))
  BY DEF Types, PinsInv
<1>3. IsFiniteSet(Owners(task[x].key))
  BY OwnersFinite
<1>4. Cardinality(Owners(task[x].key) \ {x}) = Cardinality(Owners(task[x].key)) - 1
  BY <1>3, FS_RemoveElement
<1>5. Cardinality(Owners(task[x].key)) > 0
  BY <1>2, <1>3, FS_EmptySet
<1>6. ASSUME NEW k \in Keys PROVE pins'[k] = Cardinality(Owners(k)')
  <2>1. CASE k = task[x].key
    BY <1>1, <1>2, <1>4, <1>5, <2>1
  <2>2. CASE k # task[x].key
    BY <1>1, <1>2, <2>2
  <2> QED BY <2>1, <2>2
<1>7. pins' \in [Keys -> Nat]
  BY <1>1, <1>2
<1> QED BY <1>6, <1>7 DEF PinsInv

\* One owner more, one pin more.
LEMMA PinTaken ==
  ASSUME Types, PinsInv, NEW x, task[x].key \in Keys, x \notin Owners(task[x].key),
         pins' = [pins EXCEPT ![task[x].key] = @ + 1],
         \A k \in Keys : Owners(k)' = IF k = task[x].key THEN Owners(k) \cup {x} ELSE Owners(k)
  PROVE  PinsInv' /\ pins' \in [Keys -> Nat]
<1>1. pins \in [Keys -> Nat] /\ \A k \in Keys : pins[k] = Cardinality(Owners(k))
  BY DEF Types, PinsInv
<1>2. IsFiniteSet(Owners(task[x].key))
  BY OwnersFinite
<1>3. Cardinality(Owners(task[x].key) \cup {x}) = Cardinality(Owners(task[x].key)) + 1
  BY <1>2, FS_AddElement
<1>4. ASSUME NEW k \in Keys PROVE pins'[k] = Cardinality(Owners(k)')
  <2>1. CASE k = task[x].key
    BY <1>1, <1>3, <2>1
  <2>2. CASE k # task[x].key
    BY <1>1, <2>2
  <2> QED BY <2>1, <2>2
<1> QED BY <1>1, <1>4 DEF PinsInv

\* Releasing a claim's pin releases that claim's and no other.
LEMMA PinReleasedKeeps ==
  ASSUME PoolInv, NEW x, PinReleased(x), disposing' = disposing, slots' = slots,
         \A s \in Sids : task'[s].key = task[s].key
  PROVE  PinsInv' /\ pins' \in [Keys -> Nat] /\ claimedPins' \subseteq claimedPins
<1>1. /\ Types /\ TaskInv /\ HeldInv /\ PinsInv
  BY DEF PoolInv
<1>2. allocated \in Nat /\ MaxSessions \in Nat /\ allocated <= MaxSessions /\ Sids = 1..MaxSessions
  BY <1>1, PoolAssumption DEF Types, Sids
<1>3. claimedPins' = claimedPins \ {x}
  BY DEF PinReleased
<1>4. \A k \in Keys : Owners(k)' = {s \in (claimedPins' \cup disposing \cup {slots[k]}) \ {NoSid} : task'[s].key = k}
  BY DEF Owners
<1>5. CASE x \notin claimedPins
  <2>1. claimedPins' = claimedPins /\ pins' = pins
    BY <1>5 DEF PinReleased
  <2>2. \A k \in Keys : Owners(k)' = Owners(k)
    <3> SUFFICES ASSUME NEW k \in Keys PROVE Owners(k)' = Owners(k)
      OBVIOUS
    <3>1. (claimedPins \cup disposing \cup {slots[k]}) \ {NoSid} \subseteq Sids
      BY <1>1, Pinned
    <3> QED BY <1>4, <2>1, <3>1 DEF Owners
  <2> QED BY <1>1, <2>1, <2>2 DEF PinsInv, Types
<1>6. CASE x \in claimedPins
  <2>1. x \in Sids /\ x \in 1..allocated /\ task[x].key \in Keys /\ x # NoSid
    <3>1. x \in 1..allocated /\ \A s \in Sids : s <= allocated => task[s].key \in Keys
      BY <1>1, <1>6 DEF Types
    <3> QED BY <1>2, <3>1 DEF NoSid
  <2>2. chat[x] # "off" /\ x \notin disposing
    BY <1>1, <1>6 DEF TaskInv
  <2>3. \A k \in Keys : slots[k] # x
    BY <1>1, <1>6, <2>1 DEF HeldInv
  <2>4. ASSUME NEW k \in Keys
        PROVE  Owners(k)' = IF k = task[x].key THEN Owners(k) \ {x} ELSE Owners(k)
    <3>1. (claimedPins \cup disposing \cup {slots[k]}) \ {NoSid} \subseteq Sids
      BY <1>1, Pinned
    <3>2. Owners(k)' = {s \in (claimedPins' \cup disposing \cup {slots[k]}) \ {NoSid} : task[s].key = k}
      BY <1>3, <1>4, <3>1
    <3>3. (claimedPins' \cup disposing \cup {slots[k]}) \ {NoSid} = ((claimedPins \cup disposing \cup {slots[k]}) \ {NoSid}) \ {x}
      BY <1>3, <2>2, <2>3
    <3> QED BY <3>2, <3>3 DEF Owners
  <2>5. x \in Owners(task[x].key)
    BY <1>6, <2>1 DEF Owners
  <2>6. pins' = Unpinned(pins, task[x].key)
    BY <1>6 DEF PinReleased
  <2> QED BY <1>1, <1>3, <2>1, <2>4, <2>5, <2>6, PinDropped
<1> QED BY <1>5, <1>6

\* Pins stay those of their owners where neither changes.
LEMMA SamePins ==
  ASSUME PoolInv, UNCHANGED <<pinning, disposing, slots>>, \A s \in Sids : task'[s].key = task[s].key
  PROVE  PinsInv' /\ pins' \in [Keys -> Nat] /\ claimedPins' \subseteq claimedPins
<1>1. Types /\ PinsInv /\ claimedPins' = claimedPins /\ pins' = pins
  BY DEF PoolInv, pinning
<1>2. allocated \in Nat /\ MaxSessions \in Nat /\ allocated <= MaxSessions /\ Sids = 1..MaxSessions
  BY <1>1, PoolAssumption DEF Types, Sids
<1>3. ASSUME NEW k \in Keys PROVE Owners(k)' = Owners(k)
  <2>1. (claimedPins \cup disposing \cup {slots[k]}) \ {NoSid} \subseteq Sids
    BY <1>1, Pinned
  <2> QED BY <1>1, <2>1 DEF Owners
<1> QED BY <1>1, <1>3 DEF PinsInv, Types

ChatStates == {"off", "claimed", "begun", "waiting", "served"}
Places == {"sem", "done"} \cup Gates \cup HoldsSemaphore \cup Disposals

\* Cancelling and waking keep what goes on going on.
LEMMA CancelOnward ==
  ASSUME NEW t, OnwardTo(t), NEW S
  PROVE  (\A s \in Sids : Running(s) => t[s].pc # "done") => OnwardTo(Cancel(t, S))
<1>1. t \in [Sids -> Preparation]
  BY DEF OnwardTo
<1>2. CancelledIn(Cancel(t, S), t, S)
  BY <1>1, CancelOf
<1> DEFINE u == Cancel(t, S)
<1> HIDE DEF u
<1>0. CancelledIn(u, t, S)
  BY <1>2 DEF u
<1> SUFFICES (\A s \in Sids : Running(s) => t[s].pc # "done") => OnwardTo(u)
  BY DEF u
<1>3. ASSUME NEW s \in Sids, ~u[s].cancel PROVE ~t[s].cancel
  <2>1. t[s].cancel \in BOOLEAN
    BY <1>1 DEF Preparation
  <2>2. u[s].cancel = IF s \in S /\ Running(s) THEN TRUE ELSE t[s].cancel
    BY <1>0 DEF CancelledIn
  <2>3. CASE s \in S /\ Running(s)
    BY <1>3, <2>2, <2>3
  <2>4. CASE ~(s \in S /\ Running(s))
    BY <1>3, <2>2, <2>4
  <2> QED BY <2>3, <2>4
<1> HAVE \A s \in Sids : Running(s) => t[s].pc # "done"
<1>4. ASSUME NEW s \in Sids, u[s].pc = "done" PROVE ~u[s].cancel
  <2>1. t[s].pc = "done" /\ ~Running(s)
    BY <1>0, <1>4 DEF CancelledIn
  <2>2. u[s] = t[s]
    BY <1>0, <2>1 DEF CancelledIn
  <2> QED BY <2>1, <2>2 DEF OnwardTo
<1>5. \A s \in Sids : u[s].pc \notin {"none", "done"} /\ ~u[s].cancel /\ u[s].pc \notin Disposals => GoesAhead(s)
  BY <1>0, <1>3 DEF CancelledIn, OnwardTo
<1>6. /\ u \in [Sids -> Preparation]
      /\ \A s \in Sids :
           /\ u[s].key = task[s].key /\ u[s].fp = task[s].fp /\ u[s].keep = task[s].keep
           /\ task[s].pc = "none" => u[s] = task[s]
           /\ task[s].pc = "done" => u[s].pc = "done"
           /\ task[s].pc # "none" => u[s].pc # "none"
           /\ u[s].pc # "stale"
  <2>1. u \in [Sids -> Preparation]
    BY <1>0 DEF CancelledIn
  <2>2. ASSUME NEW s \in Sids
        PROVE  /\ u[s].key = task[s].key /\ u[s].fp = task[s].fp /\ u[s].keep = task[s].keep
               /\ task[s].pc = "none" => u[s] = task[s]
               /\ task[s].pc = "done" => u[s].pc = "done"
               /\ task[s].pc # "none" => u[s].pc # "none"
               /\ u[s].pc # "stale"
    <3>1. /\ u[s].key = t[s].key /\ u[s].fp = t[s].fp /\ u[s].keep = t[s].keep /\ u[s].pc = t[s].pc
          /\ ~Running(s) => u[s] = t[s]
      BY <1>0 DEF CancelledIn
    <3>2. /\ t[s].key = task[s].key /\ t[s].fp = task[s].fp /\ t[s].keep = task[s].keep
          /\ task[s].pc = "none" => t[s] = task[s]
          /\ task[s].pc = "done" => t[s].pc = "done"
          /\ task[s].pc # "none" => t[s].pc # "none"
          /\ t[s].pc # "stale"
      BY DEF OnwardTo
    <3>3. task[s].pc = "none" => ~Running(s)
      BY DEF Running
    <3> QED BY <3>1, <3>2, <3>3
  <2> QED BY <2>1, <2>2
<1> QED BY <1>4, <1>5, <1>6 DEF OnwardTo

\* The same of waking.
LEMMA AwakeOnward ==
  ASSUME NEW t, OnwardTo(t)
  PROVE  OnwardTo(Awake(t))
<1>1. t \in [Sids -> Preparation]
  BY DEF OnwardTo
<1>2. /\ Awake(t) \in [Sids -> Preparation]
      /\ \A s \in Sids :
              /\ Awake(t)[s].key = t[s].key /\ Awake(t)[s].fp = t[s].fp
              /\ Awake(t)[s].keep = t[s].keep /\ Awake(t)[s].pc = t[s].pc
              /\ Awake(t)[s].cancel = t[s].cancel
              /\ t[s].pc \notin Gates => Awake(t)[s] = t[s]
  BY <1>1, AwakeOf
<1> QED BY <1>2 DEF OnwardTo, Gates

\* Nothing happening is onward.
LEMMA StayOnward ==
  ASSUME PoolInv
  PROVE  OnwardTo(task)
BY DEF PoolInv, Types, TaskInv, OnwardTo, GoesAhead, Running

\* A preparation that goes ahead may go on anywhere but to "stale".
LEMMA GoOnOnward ==
  ASSUME PoolInv, NEW s \in Sids, GoesAhead(s), NEW pc \in Places \ {"stale"}
  PROVE  /\ OnwardTo(GoOn(s, pc))
         /\ GoOn(s, pc)[s].pc = pc /\ ~GoOn(s, pc)[s].woken
         /\ \A u \in Sids \ {s} : GoOn(s, pc)[u] = task[u]
<1>1. task \in [Sids -> Preparation] /\ OnwardTo(task)
  BY StayOnward DEF OnwardTo
<1>2. /\ GoOn(s, pc) \in [Sids -> Preparation]
      /\ GoOn(s, pc)[s].pc = pc /\ ~GoOn(s, pc)[s].woken
      /\ GoOn(s, pc)[s].cancel = task[s].cancel
      /\ GoOn(s, pc)[s].key = task[s].key /\ GoOn(s, pc)[s].fp = task[s].fp
      /\ GoOn(s, pc)[s].keep = task[s].keep
      /\ \A u \in Sids \ {s} : GoOn(s, pc)[u] = task[u]
  BY <1>1, GoOnOf DEF Places
<1>3. task[s].pc \notin {"none", "done"} /\ ~task[s].cancel /\ pc \notin {"none", "stale"}
  BY DEF GoesAhead, Running, Places, Gates, HoldsSemaphore, HoldsLock, Disposals
<1>4. ASSUME NEW u \in Sids
      PROVE  /\ GoOn(s, pc)[u].key = task[u].key /\ GoOn(s, pc)[u].fp = task[u].fp /\ GoOn(s, pc)[u].keep = task[u].keep
             /\ task[u].pc = "none" => GoOn(s, pc)[u] = task[u]
             /\ task[u].pc = "done" => GoOn(s, pc)[u].pc = "done"
             /\ task[u].pc # "none" => GoOn(s, pc)[u].pc # "none"
             /\ GoOn(s, pc)[u].pc # "stale" /\ (GoOn(s, pc)[u].pc = "done" => ~GoOn(s, pc)[u].cancel)
             /\ GoOn(s, pc)[u].pc \notin {"none", "done"} /\ ~GoOn(s, pc)[u].cancel /\ GoOn(s, pc)[u].pc \notin Disposals => GoesAhead(u)
  <2>1. CASE u = s
    BY <1>2, <1>3, <2>1
  <2>2. CASE u # s
    <3>1. GoOn(s, pc)[u] = task[u]
      BY <1>2, <2>2
    <3> QED BY <1>1, <3>1 DEF OnwardTo
  <2> QED BY <2>1, <2>2
<1>5. OnwardTo(GoOn(s, pc))
  BY <1>2, <1>4 DEF OnwardTo
<1> QED BY <1>2, <1>5

\* s has ended, or its runtime is being closed.
Put(s, pc) == [task EXCEPT ![s].pc = pc, ![s].cancel = FALSE, ![s].woken = FALSE]

\* A preparation may always end.
LEMMA PutOnward ==
  ASSUME PoolInv, NEW s \in Sids, Running(s), NEW pc \in {"done", "drop"}
  PROVE  /\ OnwardTo(Put(s, pc))
         /\ Put(s, pc)[s].pc = pc
         /\ \A u \in Sids \ {s} : Put(s, pc)[u] = task[u]
<1>1. task \in [Sids -> Preparation] /\ OnwardTo(task) /\ task[s] \in Preparation
  BY StayOnward DEF OnwardTo
<1> DEFINE n == [task[s] EXCEPT !.pc = pc, !.cancel = FALSE, !.woken = FALSE]
<1>2. n \in Preparation
  BY <1>1 DEF Preparation, Disposals
<1>3. n.pc = pc /\ ~n.cancel /\ n.key = task[s].key /\ n.fp = task[s].fp /\ n.keep = task[s].keep
  BY <1>1 DEF Preparation
<1>4. Put(s, pc) = [task EXCEPT ![s] = n]
  BY DEF Put
<1> HIDE DEF n
<1>5. Put(s, pc) \in [Sids -> Preparation] /\ Put(s, pc)[s] = n /\ \A u \in Sids \ {s} : Put(s, pc)[u] = task[u]
  BY <1>1, <1>2, <1>4
<1>6. ASSUME NEW u \in Sids
      PROVE  /\ Put(s, pc)[u].key = task[u].key /\ Put(s, pc)[u].fp = task[u].fp /\ Put(s, pc)[u].keep = task[u].keep
             /\ task[u].pc = "none" => Put(s, pc)[u] = task[u]
             /\ task[u].pc = "done" => Put(s, pc)[u].pc = "done"
             /\ task[u].pc # "none" => Put(s, pc)[u].pc # "none"
             /\ Put(s, pc)[u].pc # "stale" /\ (Put(s, pc)[u].pc = "done" => ~Put(s, pc)[u].cancel)
             /\ Put(s, pc)[u].pc \notin {"none", "done"} /\ ~Put(s, pc)[u].cancel /\ Put(s, pc)[u].pc \notin Disposals => GoesAhead(u)
  <2>1. CASE u = s
    BY <1>3, <1>5, <2>1 DEF Running, Disposals
  <2>2. CASE u # s
    <3>1. Put(s, pc)[u] = task[u]
      BY <1>5, <2>2
    <3> QED BY <1>1, <3>1 DEF OnwardTo
  <2> QED BY <2>1, <2>2
<1>7. OnwardTo(Put(s, pc))
  BY <1>5, <1>6 DEF OnwardTo
<1> QED BY <1>3, <1>5, <1>7

\* A foreground section that begins leaves nothing speculative going ahead.
LEMMA BeginForegroundYields ==
  ASSUME PoolInv, NEW t, OnwardTo(t), BeginForeground(t),
         \A s \in Sids : Running(s) => t[s].pc # "done",
         \A s \in Sids : chat'[s] = "off" => chat[s] = "off"
  PROVE  YieldInv' /\ OnwardTo(task') /\ fgCount' \in Nat /\ idle' \in BOOLEAN
<1>1. Types /\ TaskInv
  BY DEF PoolInv
<1>2. fgCount' = fgCount + 1 /\ idle' = FALSE /\ task' = Cancel(t, {tasks[k] : k \in WarmingKeys})
  BY DEF BeginForeground
<1>3. fgCount \in Nat
  BY <1>1 DEF Types
<1>4. OnwardTo(task')
  BY <1>2, CancelOnward
<1>5. ASSUME NEW s \in Sids, Speculative(s)' PROVE FALSE
  <2>1. task'[s].keep /\ chat'[s] = "off" /\ task'[s].pc \notin {"none", "done"} /\ ~task'[s].cancel /\ task'[s].pc \notin Disposals
    BY <1>5 DEF Speculative, Running
  <2>2. GoesAhead(s) /\ task[s].keep /\ chat[s] = "off"
    BY <1>4, <2>1 DEF OnwardTo
  <2>3. tasks[task[s].key] = s /\ task[s].key \in Keys /\ s # NoSid /\ Running(s)
    <3>1. s # NoSid
      BY PoolAssumption DEF Sids, NoSid
    <3>2. Running(s) /\ task[s].pc # "none"
      BY <2>2 DEF GoesAhead, Running
    <3>3. task[s].key \in Keys
      <4>1. ~(s > allocated)
        BY <1>1, <3>2 DEF Types, NoTask
      <4>2. s \in Int /\ allocated \in Int
        BY <1>1, PoolAssumption DEF Types, Sids
      <4> QED BY <1>1, <4>1, <4>2 DEF Types
    <3> QED BY <1>1, <2>2, <3>1, <3>2, <3>3 DEF TaskInv
  <2>4. s \in {tasks[k] : k \in WarmingKeys}
    BY <2>3 DEF WarmingKeys
  <2>5. t \in [Sids -> Preparation]
    BY DEF OnwardTo
  <2>6. task'[s].cancel = TRUE
    <3> DEFINE S == {tasks[k] : k \in WarmingKeys}
    <3>1. task' = Cancel(t, S) /\ s \in S
      BY <1>2, <2>4
    <3> HIDE DEF S
    <3>2. CancelledIn(Cancel(t, S), t, S)
      BY <2>5, CancelOf
    <3>3. CancelledIn(task', t, S)
      BY <3>1, <3>2
    <3> QED BY <2>3, <3>1, <3>3 DEF CancelledIn
  <2> QED BY <2>1, <2>6
<1>6. fgCount' # 0 /\ fgCount' \in Nat /\ idle' \in BOOLEAN /\ ~idle'
  <2>1. fgCount' # 0 /\ fgCount' \in Nat
    BY <1>2, <1>3
  <2>2. idle' \in BOOLEAN /\ ~idle'
    BY <1>2, Zenon
  <2> QED BY <2>1, <2>2
<1>7. YieldInv'
  BY <1>5, <1>6 DEF YieldInv
<1> QED BY <1>4, <1>6, <1>7

\* A foreground section that ends lets the speculative ones on only if it was the last.
LEMMA EndForegroundYields ==
  ASSUME PoolInv, NEW t, OnwardTo(t), EndForeground(t), closed' = closed,
         \A s \in Sids : t[s] = task[s] \/ t[s].pc \in {"done"} \cup Disposals,
         \A s \in Sids : chat'[s] = "off" => chat[s] = "off"
  PROVE  YieldInv' /\ OnwardTo(task') /\ fgCount' \in Nat /\ idle' \in BOOLEAN /\ pump' \in BOOLEAN
<1>1. /\ fgCount \in Nat /\ idle \in BOOLEAN /\ pump \in BOOLEAN /\ closed \in BOOLEAN
      /\ YieldInv
  BY DEF PoolInv, Types
<1>2. CASE fgCount <= 1
  <2>1. fgCount' = 0 /\ idle' = TRUE /\ task' = Awake(t) /\ pump' = (pump \/ ~closed)
    BY <1>1, <1>2 DEF EndForeground
  <2> QED BY <1>1, <2>1, AwakeOnward DEF YieldInv
<1>3. CASE fgCount > 1
  <2>1. fgCount' = fgCount - 1 /\ idle' = idle /\ task' = t /\ pump' = pump
    BY <1>1, <1>3 DEF EndForeground
  <2>2. ASSUME NEW s \in Sids, Speculative(s)'
        PROVE  ~task'[s].woken /\ task'[s].pc \notin {"agent", "yield", "prepare"}
    <3>1. t[s] = task[s] /\ chat[s] = "off"
      BY <2>1, <2>2 DEF Speculative, Running
    <3>2. Speculative(s)
      BY <2>1, <2>2, <3>1 DEF Speculative, Running
    <3> QED BY <1>1, <1>3, <2>1, <3>1, <3>2 DEF YieldInv
  <2>3. ~closed => (idle' <=> fgCount' = 0)
    BY <1>1, <1>3, <2>1 DEF YieldInv
  <2> QED BY <1>1, <1>3, <2>1, <2>2, <2>3 DEF YieldInv
<1> QED BY <1>1, <1>2, <1>3

\* A session with a preparation was allocated, and the other way round.
LEMMA Allocated ==
  ASSUME Types, NEW s \in Sids
  PROVE  /\ s # NoSid /\ s \in Int /\ allocated \in Nat /\ allocated <= MaxSessions
         /\ (s <= allocated <=> task[s].pc # "none") /\ (s \in 1..allocated <=> s <= allocated)
         /\ s <= allocated => task[s].key \in Keys
         /\ s > allocated => task[s] = NoTask /\ chat[s] = "off"
<1>1. s \in Int /\ s >= 1 /\ allocated \in Nat /\ allocated <= MaxSessions
  BY PoolAssumption DEF Types, Sids
<1>2. s > allocated => task[s] = NoTask /\ chat[s] = "off"
  BY DEF Types
<1>3. s <= allocated => task[s].pc # "none" /\ task[s].key \in Keys
  BY DEF Types
<1>4. NoTask.pc = "none"
  BY DEF NoTask
<1> QED BY <1>1, <1>2, <1>3, <1>4 DEF NoSid

\* Sessions are of Sids.
LEMMA AllocatedSids ==
  ASSUME Types
  PROVE  1..allocated \subseteq Sids /\ NoSid \notin Sids
BY PoolAssumption DEF Types, Sids, NoSid

\* What leaves the pool's tables alone keeps the invariant, if it keeps the pins and
\* what is said of the foreground.
LEMMA QuietKeeps ==
  ASSUME PoolInv, OnwardTo(task'),
         UNCHANGED <<config, slots, warming, allocated, disposing, closed, ready, hits>>,
         PinsInv', pins' \in [Keys -> Nat], claimedPins' \subseteq claimedPins,
         fgCount' \in Nat, idle' \in BOOLEAN, pump' \in BOOLEAN,
         chat' \in [Sids -> ChatStates], \A s \in Sids : chat'[s] = "off" <=> chat[s] = "off",
         YieldInv'
  PROVE  PoolInv'
<1>1. Types /\ OnceInv /\ HeldInv /\ TaskInv /\ SyncInv /\ BoundInv
  BY DEF PoolInv
<1>2. /\ desired' = desired /\ rev' = rev /\ syncing' = syncing /\ syncs' = syncs /\ newest' = newest
      /\ slots' = slots /\ tasks' = tasks /\ sessionTasks' = sessionTasks /\ promoted' = promoted
      /\ pending' = pending /\ allocated' = allocated /\ disposing' = disposing
      /\ closed' = closed /\ ready' = ready /\ hits' = hits
  BY DEF config, warming
<1>3. /\ task' \in [Sids -> Preparation]
      /\ \A s \in Sids :
           /\ task'[s].key = task[s].key /\ task'[s].fp = task[s].fp /\ task'[s].keep = task[s].keep
           /\ task[s].pc = "none" => task'[s] = task[s]
           /\ task[s].pc = "done" => task'[s].pc = "done"
           /\ task[s].pc # "none" => task'[s].pc # "none"
           /\ task'[s].pc # "stale" /\ (task'[s].pc = "done" => ~task'[s].cancel)
           /\ GoesAhead(s)' => GoesAhead(s)
           /\ Running(s)' => Running(s)
  BY DEF OnwardTo, GoesAhead, Running
<1>4. \A s \in Sids : s > allocated => task[s].pc = "none"
  BY <1>1, Allocated
<1>5. Types'
  <2>1. \A s \in Sids : s > allocated => task'[s] = NoTask /\ chat'[s] = "off"
    BY <1>1, <1>3, <1>4, Allocated
  <2>2. \A s \in Sids : s <= allocated => task'[s].pc # "none" /\ task'[s].key \in Keys
    BY <1>1, <1>3, Allocated
  <2>3. claimedPins' \subseteq 1..allocated
    BY <1>1 DEF Types
  <2> QED BY <1>1, <1>2, <1>3, <2>1, <2>2, <2>3 DEF Types, ChatStates
<1>6. OnceInv'
  BY <1>1, <1>2 DEF OnceInv
<1>7. \A k \in Keys : /\ slots[k] # NoSid => slots[k] \in Sids
                      /\ tasks[k] # NoSid => tasks[k] \in Sids
  <2> SUFFICES ASSUME NEW k \in Keys PROVE /\ slots[k] # NoSid => slots[k] \in Sids
                                           /\ tasks[k] # NoSid => tasks[k] \in Sids
    OBVIOUS
  <2>1. slots[k] \in 0..allocated /\ tasks[k] \in 0..allocated /\ allocated \in Nat
    BY <1>1, PoolAssumption DEF Types
  <2>2. slots[k] # NoSid => slots[k] \in 1..allocated
    BY <2>1 DEF NoSid
  <2>3. tasks[k] # NoSid => tasks[k] \in 1..allocated
    BY <2>1 DEF NoSid
  <2> QED BY <1>1, <2>2, <2>3, AllocatedSids
<1>8. HeldInv'
  <2>1. ASSUME NEW k \in Keys, slots[k] # NoSid
        PROVE  /\ task'[slots[k]].key = k /\ task'[slots[k]].pc = "done" /\ task'[slots[k]].fp = rev.fp
               /\ slots[k] \in ready /\ chat'[slots[k]] = "off" /\ ~closed
               /\ slots[k] \notin disposing \cup claimedPins \cup hits
    BY <1>1, <1>3, <1>7, <2>1 DEF HeldInv
  <2>2. ASSUME NEW k \in Keys, tasks[k] # NoSid
        PROVE  /\ task'[tasks[k]].key = k /\ task'[tasks[k]].fp = rev.fp /\ k \in desired
               /\ task'[tasks[k]].keep /\ chat'[tasks[k]] = "off" /\ ~closed
               /\ tasks[k] \notin disposing \cup claimedPins \cup hits
    BY <1>1, <1>3, <1>7, <2>2 DEF HeldInv
  <2> QED BY <1>2, <2>1, <2>2 DEF HeldInv
<1>9. TaskInv'
  <2>1. \A s \in Sids : Running(s)' /\ ~closed => s \in sessionTasks
    BY <1>1, <1>3 DEF TaskInv
  <2>2. \A s \in Sids : GoesAhead(s)' => ~closed
    BY <1>1, <1>3 DEF TaskInv
  <2>3. \A s \in Sids : GoesAhead(s)' /\ task'[s].keep /\ chat'[s] # "off" => s \in promoted
    BY <1>1, <1>3 DEF TaskInv
  <2>4. \A s \in Sids : GoesAhead(s)' /\ task'[s].keep /\ chat'[s] = "off" => tasks[task'[s].key] = s
    BY <1>1, <1>3 DEF TaskInv
  <2>5. promoted \subseteq {s \in Sids : chat'[s] # "off" /\ task'[s].keep}
    BY <1>1, <1>3 DEF TaskInv
  <2>6. \A s \in Sids : Running(s)' => s \notin disposing \cup claimedPins' \cup hits
    BY <1>1, <1>3 DEF TaskInv
  <2>7. disposing \subseteq {s \in Sids : chat'[s] = "off"}
    BY <1>1 DEF TaskInv
  <2>8. hits \subseteq Sids /\ claimedPins \subseteq Sids
    BY <1>1, AllocatedSids DEF Types
  <2>9. \A s \in hits : chat'[s] # "off" /\ s \in ready
    BY <1>1, <2>8 DEF TaskInv
  <2>10. \A s \in claimedPins' : chat'[s] # "off"
    BY <1>1, <2>8 DEF TaskInv
  <2> QED BY <1>2, <1>3, <2>1, <2>2, <2>3, <2>4, <2>5, <2>6, <2>7, <2>9, <2>10 DEF TaskInv
<1>10. SyncInv'
  BY <1>1, <1>2 DEF SyncInv
<1>11. BoundInv'
  BY <1>1, <1>2 DEF BoundInv, ReadyKeys, WarmingKeys
<1> QED BY <1>5, <1>6, <1>8, <1>9, <1>10, <1>11 DEF PoolInv

\* What a step of one preparation says of the speculative ones.
LEMMA OneStepYields ==
  ASSUME PoolInv, NEW s \in Sids, UNCHANGED <<fgCount, idle, closed, chat>>,
         \A u \in Sids \ {s} : task'[u] = task[u],
         Speculative(s)' /\ fgCount > 0 => ~task'[s].woken /\ task'[s].pc \notin {"agent", "yield", "prepare"}
  PROVE  YieldInv'
<1>1. YieldInv
  BY DEF PoolInv
<1>2. ASSUME NEW u \in Sids, Speculative(u)', fgCount > 0
      PROVE  ~task'[u].woken /\ task'[u].pc \notin {"agent", "yield", "prepare"}
  <2>1. CASE u = s
    BY <1>2, <2>1
  <2>2. CASE u # s
    <3>1. task'[u] = task[u]
      BY <2>2
    <3>2. Speculative(u)
      BY <1>2, <3>1 DEF Speculative, Running
    <3> QED BY <1>1, <1>2, <3>1, <3>2 DEF YieldInv
  <2> QED BY <2>1, <2>2
<1> QED BY <1>1, <1>2 DEF YieldInv

\* The idle event is down while the foreground is busy.
LEMMA GateIsShut ==
  ASSUME PoolInv, fgCount > 0, ~closed
  PROVE  ~idle
BY DEF PoolInv, YieldInv, Types

\* Starting a preparation keeps the invariant.
LEMMA StartKeeps ==
  ASSUME PoolInv, NEW s \in Sids, Start(s)
  PROVE  PoolInv'
<1>1. /\ task[s].pc = "new" /\ ~task[s].cancel
      /\ UNCHANGED <<config, warming, pinning, handed, slots, allocated, disposing, pump, closed, ready>>
  BY DEF Start
<1>2. chat' = chat /\ hits' = hits
  BY <1>1 DEF handed
<1>3. GoesAhead(s)
  BY <1>1 DEF GoesAhead, Running, Disposals
<1>4. ~closed
  BY <1>3 DEF PoolInv, TaskInv
<1>5. /\ OnwardTo(task') /\ YieldInv' /\ fgCount' \in Nat /\ idle' \in BOOLEAN
  <2>1. CASE task[s].keep
    <3> DEFINE pc == Gated(s, "gate1", PastGate1(s))
    <3>1. task' = GoOn(s, pc) /\ fgCount' = fgCount /\ idle' = idle
      BY <2>1 DEF Start
    <3>2. pc \in {"gate1", "sem", "lock", "gate2", "agent"}
      BY DEF Gated, PastGate1, PastSemaphore, PastLock
    <3>3. fgCount > 0 => pc = "gate1"
      BY <1>4, <2>1, GateIsShut DEF Gated
    <3> HIDE DEF pc
    <3>4. pc \in Places \ {"stale"}
      BY <3>2 DEF Places, Gates, HoldsSemaphore, HoldsLock, Disposals
    <3>5. OnwardTo(task') /\ task'[s].pc = pc /\ ~task'[s].woken /\ \A u \in Sids \ {s} : task'[u] = task[u]
      BY <1>3, <3>1, <3>4, GoOnOnward
    <3>6. YieldInv'
      BY <1>1, <1>2, <3>1, <3>3, <3>5, OneStepYields
    <3>7. fgCount \in Nat /\ idle \in BOOLEAN
      BY DEF PoolInv, Types
    <3> QED BY <3>1, <3>5, <3>6, <3>7
  <2>2. CASE ~task[s].keep
    <3>1. BeginForeground(GoOn(s, "sem"))
      BY <2>2 DEF Start
    <3>2. OnwardTo(GoOn(s, "sem"))
      BY <1>3, GoOnOnward DEF Places, Disposals
    <3>3. \A u \in Sids : Running(u) => GoOn(s, "sem")[u].pc # "done"
      BY <1>3, GoOnOnward DEF Places, Disposals, Running
    <3> QED BY <1>2, <3>1, <3>2, <3>3, BeginForegroundYields
  <2> QED BY <2>1, <2>2
<1>6. \A u \in Sids : task'[u].key = task[u].key
  BY <1>5 DEF OnwardTo
<1>7. PinsInv' /\ pins' \in [Keys -> Nat] /\ claimedPins' \subseteq claimedPins
  BY <1>1, <1>6, SamePins
<1>8. pump' \in BOOLEAN /\ chat' \in [Sids -> ChatStates]
  BY <1>1, <1>2 DEF PoolInv, Types, ChatStates
<1> QED BY <1>1, <1>2, <1>5, <1>7, <1>8, QuietKeeps

\* So does its going on.
LEMMA AdvanceKeeps ==
  ASSUME PoolInv, NEW s \in Sids, Advance(s)
  PROVE  PoolInv'
<1>1. /\ ~task[s].cancel /\ task[s].pc \in Gates \cup {"sem", "lock", "agent", "yield"}
      /\ UNCHANGED <<config, warming, pinning, foreground, handed, slots, allocated, disposing, closed, ready>>
  BY DEF Advance
<1>2. chat' = chat /\ hits' = hits /\ fgCount' = fgCount /\ idle' = idle /\ pump' = pump
  BY <1>1 DEF handed, foreground
<1>3. GoesAhead(s)
  BY <1>1 DEF GoesAhead, Running, Disposals, Gates
<1>4. ~closed
  BY <1>3 DEF PoolInv, TaskInv
<1>5. PICK pc \in Places \ {"stale"} :
        /\ task' = GoOn(s, pc)
        /\ Speculative(s) /\ fgCount > 0 => pc \notin {"agent", "yield", "prepare"}
  <2> SUFFICES \E pc \in Places \ {"stale"} :
        /\ task' = GoOn(s, pc)
        /\ Speculative(s) /\ fgCount > 0 => pc \notin {"agent", "yield", "prepare"}
    OBVIOUS
  <2>1. {"gate1", "gate2", "gate3", "sem", "lock", "agent", "yield", "prepare"} \subseteq Places \ {"stale"}
    BY DEF Places, Gates, HoldsSemaphore, HoldsLock, Disposals
  <2>2. Speculative(s) /\ fgCount > 0 => ~task[s].woken /\ task[s].pc \notin {"agent", "yield", "prepare"}
    BY DEF PoolInv, YieldInv
  <2>3. Speculative(s) /\ fgCount > 0 => ~idle /\ task[s].keep
    BY <1>4, GateIsShut DEF Speculative
  <2>4. CASE task[s].pc \in Gates /\ task[s].woken /\ task' = GoOn(s, IF task[s].pc = "gate1" THEN PastGate1(s)
                             ELSE IF task[s].pc = "gate2" THEN "agent" ELSE "prepare")
    <3>1. PastGate1(s) \in {"sem", "lock", "gate2", "agent"}
      BY DEF PastGate1, PastSemaphore, PastLock, Gated
    <3> QED BY <2>1, <2>2, <2>4, <3>1
  <2>5. CASE task[s].pc = "sem" /\ task' = GoOn(s, PastSemaphore(s))
    <3>1. PastSemaphore(s) \in {"lock", "gate2", "agent"} /\ (Speculative(s) /\ fgCount > 0 => PastSemaphore(s) # "agent")
      BY <2>3 DEF PastSemaphore, PastLock, Gated
    <3> QED BY <2>1, <2>5, <3>1
  <2>6. CASE task[s].pc = "lock" /\ task' = GoOn(s, PastLock(s))
    <3>1. PastLock(s) \in {"gate2", "agent"} /\ (Speculative(s) /\ fgCount > 0 => PastLock(s) # "agent")
      BY <2>3 DEF PastLock, Gated
    <3> QED BY <2>1, <2>6, <3>1
  <2>7. CASE task[s].pc = "agent" /\ task' = GoOn(s, "yield")
    BY <2>1, <2>2, <2>7
  <2>8. CASE task[s].pc = "yield" /\ task' = GoOn(s, Gated(s, "gate3", "prepare"))
    <3>1. Gated(s, "gate3", "prepare") \in {"gate3", "prepare"}
      BY DEF Gated
    <3> QED BY <2>1, <2>2, <2>8, <3>1
  <2> QED BY <2>4, <2>5, <2>6, <2>7, <2>8 DEF Advance
<1>6. OnwardTo(task') /\ task'[s].pc = pc /\ ~task'[s].woken /\ \A u \in Sids \ {s} : task'[u] = task[u]
  BY <1>3, <1>5, GoOnOnward
<1>7. Speculative(s)' => Speculative(s)
  BY <1>2, <1>3, <1>6 DEF Speculative, OnwardTo, GoesAhead
<1>8. YieldInv'
  BY <1>1, <1>2, <1>5, <1>6, <1>7, OneStepYields
<1>9. \A u \in Sids : task'[u].key = task[u].key
  BY <1>6 DEF OnwardTo
<1>10. PinsInv' /\ pins' \in [Keys -> Nat] /\ claimedPins' \subseteq claimedPins
  BY <1>1, <1>9, SamePins
<1>11. pump' \in BOOLEAN /\ chat' \in [Sids -> ChatStates] /\ fgCount' \in Nat /\ idle' \in BOOLEAN
  BY <1>1, <1>2 DEF PoolInv, Types, ChatStates
<1> QED BY <1>1, <1>2, <1>6, <1>8, <1>10, <1>11, QuietKeeps

\* A step that moves one preparation to where it is no longer speculative, and nothing else.
LEMMA StopsKeeps ==
  ASSUME PoolInv, NEW s \in Sids, OnwardTo(task'),
         task'[s].pc \in {"done"} \cup Disposals, \A u \in Sids \ {s} : task'[u] = task[u],
         UNCHANGED <<config, warming, foreground, pinning, handed, slots, allocated, disposing, closed, ready>>
  PROVE  PoolInv'
<1>1. chat' = chat /\ hits' = hits /\ fgCount' = fgCount /\ idle' = idle /\ pump' = pump
  BY DEF handed, foreground
<1>2. YieldInv'
  <2>1. ~Speculative(s)'
    BY DEF Speculative, Running
  <2> QED BY <1>1, <2>1, OneStepYields
<1>3. \A u \in Sids : task'[u].key = task[u].key
  BY DEF OnwardTo
<1>4. PinsInv' /\ pins' \in [Keys -> Nat] /\ claimedPins' \subseteq claimedPins
  BY <1>3, SamePins
<1>5. pump' \in BOOLEAN /\ chat' \in [Sids -> ChatStates] /\ fgCount' \in Nat /\ idle' \in BOOLEAN
  BY <1>1 DEF PoolInv, Types, ChatStates
<1> QED BY <1>1, <1>2, <1>4, <1>5, QuietKeeps

\* A chat that changes its place, with the preparations as they are.
LEMMA ChatKeeps ==
  ASSUME PoolInv, NEW s \in Sids, chat[s] # "off", NEW place \in ChatStates \ {"off"},
         chat' = [chat EXCEPT ![s] = place]
  PROVE  chat' \in [Sids -> ChatStates] /\ \A u \in Sids : chat'[u] = "off" <=> chat[u] = "off"
BY DEF PoolInv, Types, ChatStates

\* A chat turn's beginning keeps the invariant.
LEMMA BeginChatKeeps ==
  ASSUME PoolInv, NEW s \in Sids, BeginChat(s)
  PROVE  PoolInv'
<1>1. /\ chat[s] = "claimed" /\ chat' = [chat EXCEPT ![s] = "begun"] /\ BeginForeground(task)
      /\ UNCHANGED <<config, warming, pinning, slots, allocated, disposing, pump, closed, ready, hits>>
  BY DEF BeginChat
<1>2. chat' \in [Sids -> ChatStates] /\ \A u \in Sids : chat'[u] = "off" <=> chat[u] = "off"
  BY <1>1, ChatKeeps DEF ChatStates
<1>3. YieldInv' /\ OnwardTo(task') /\ fgCount' \in Nat /\ idle' \in BOOLEAN
  BY <1>1, <1>2, StayOnward, BeginForegroundYields DEF Running
<1>4. \A u \in Sids : task'[u].key = task[u].key
  BY <1>3 DEF OnwardTo
<1>5. PinsInv' /\ pins' \in [Keys -> Nat] /\ claimedPins' \subseteq claimedPins
  BY <1>1, <1>4, SamePins
<1>6. pump' \in BOOLEAN
  BY <1>1 DEF PoolInv, Types
<1> QED BY <1>1, <1>2, <1>3, <1>5, <1>6, QuietKeeps

\* Without a change of task, foreground or claims the foreground is yielded to as before.
LEMMA SameYields ==
  ASSUME PoolInv, UNCHANGED <<task, fgCount, idle, closed>>, \A u \in Sids : chat'[u] = "off" <=> chat[u] = "off"
  PROVE  YieldInv' /\ OnwardTo(task')
<1>1. \A u \in Sids : Speculative(u)' => Speculative(u)
  BY DEF Speculative, Running
<1>2. YieldInv'
  BY <1>1 DEF PoolInv, YieldInv
<1>3. OnwardTo(task)
  BY StayOnward
<1>4. OnwardTo(task')
  BY <1>3 DEF OnwardTo
<1> QED BY <1>2, <1>4

\* Waiting for a preparation keeps the invariant, and so does its end.
LEMMA AwaitPrewarmKeeps ==
  ASSUME PoolInv, NEW s \in Sids, AwaitPrewarm(s)
  PROVE  PoolInv'
<1>1. /\ UNCHANGED <<config, warming, foreground, slots, task, allocated, disposing, closed, ready, hits>>
      /\ chat[s] # "off"
      /\ \E place \in ChatStates \ {"off"} : chat' = [chat EXCEPT ![s] = place]
      /\ PinReleased(s) \/ UNCHANGED pinning
  BY DEF AwaitPrewarm, ChatStates
<1>2. chat' \in [Sids -> ChatStates] /\ \A u \in Sids : chat'[u] = "off" <=> chat[u] = "off"
  BY <1>1, ChatKeeps
<1>3. fgCount' = fgCount /\ idle' = idle /\ pump' = pump /\ task' = task
  BY <1>1 DEF foreground
<1>4. YieldInv' /\ OnwardTo(task')
  BY <1>1, <1>2, <1>3, SameYields
<1>5. PinsInv' /\ pins' \in [Keys -> Nat] /\ claimedPins' \subseteq claimedPins
  BY <1>1, PinReleasedKeeps, SamePins
<1>6. pump' \in BOOLEAN /\ fgCount' \in Nat /\ idle' \in BOOLEAN
  BY <1>3 DEF PoolInv, Types
<1> QED BY <1>1, <1>2, <1>4, <1>5, <1>6, QuietKeeps

\* A claim's pin released before its chat.
LEMMA ReleaseClaimPinKeeps ==
  ASSUME PoolInv, NEW s \in Sids, ReleaseClaimPin(s)
  PROVE  PoolInv'
<1>1. /\ PinReleased(s)
      /\ UNCHANGED <<config, warming, foreground, handed, slots, task, allocated, disposing, closed, ready>>
  BY DEF ReleaseClaimPin
<1>2. fgCount' = fgCount /\ idle' = idle /\ pump' = pump /\ chat' = chat /\ hits' = hits
  BY <1>1 DEF foreground, handed
<1>3. YieldInv' /\ OnwardTo(task')
  BY <1>1, <1>2, SameYields
<1>4. PinsInv' /\ pins' \in [Keys -> Nat] /\ claimedPins' \subseteq claimedPins
  BY <1>1, PinReleasedKeeps
<1>5. pump' \in BOOLEAN /\ fgCount' \in Nat /\ idle' \in BOOLEAN /\ chat' \in [Sids -> ChatStates]
  BY <1>2 DEF PoolInv, Types, ChatStates
<1> QED BY <1>1, <1>2, <1>3, <1>4, <1>5, QuietKeeps

\* A chat turn's end keeps the invariant.
LEMMA EndChatKeeps ==
  ASSUME PoolInv, NEW s \in Sids, EndChat(s)
  PROVE  PoolInv'
<1>1. /\ chat[s] # "off" /\ chat' = [chat EXCEPT ![s] = "claimed"] /\ EndForeground(task)
      /\ PinReleased(s) \/ UNCHANGED pinning
      /\ UNCHANGED <<config, warming, slots, allocated, disposing, closed, ready, hits>>
  BY DEF EndChat
<1>2. chat' \in [Sids -> ChatStates] /\ \A u \in Sids : chat'[u] = "off" <=> chat[u] = "off"
  BY <1>1, ChatKeeps DEF ChatStates
<1>3. YieldInv' /\ OnwardTo(task') /\ fgCount' \in Nat /\ idle' \in BOOLEAN /\ pump' \in BOOLEAN
  BY <1>1, <1>2, StayOnward, EndForegroundYields
<1>4. \A u \in Sids : task'[u].key = task[u].key
  BY <1>3 DEF OnwardTo
<1>5. PinsInv' /\ pins' \in [Keys -> Nat] /\ claimedPins' \subseteq claimedPins
  BY <1>1, <1>4, PinReleasedKeeps, SamePins
<1> QED BY <1>1, <1>2, <1>3, <1>5, QuietKeeps

\* The keys of a queue are keys.
LEMMA QueueKeys ==
  ASSUME NEW q \in Queue
  PROVE  \A i \in DOMAIN q : q[i] \in Entry /\ q[i].key \in Keys
<1>1. q \in Seq(Entry)
  BY DEF Queue
<1>2. \A i \in DOMAIN q : q[i] \in Entry
  BY <1>1
<1>3. \A e \in Entry : e.key \in Keys
  BY DEF Entry
<1> QED BY <1>2, <1>3

\* A key queued again is queued once, and only if nothing else is there for it.
LEMMA EnqueuedFacts ==
  ASSUME NEW q \in Queue, NEW k \in Keys, NEW fp \in Fingerprints \cup {NoConfig}, NEW sl, NEW tk,
         Unheld(q, sl, tk)
  PROVE  Enqueued(q, k, fp, sl, tk) \in Queue /\ Unheld(Enqueued(q, k, fp, sl, tk), sl, tk)
<1>1. CASE ~Missing(q, k, sl, tk)
  BY <1>1 DEF Enqueued
<1>2. CASE Missing(q, k, sl, tk)
  <2> DEFINE e == [key |-> k, fp |-> fp]
             n == <<e>> \o q
  <2>1. q \in Seq(Entry) /\ DOMAIN q = 1..Len(q) /\ Len(q) \in Nat
    BY DEF Queue
  <2>2. e \in Entry /\ e.key = k
    BY DEF Entry
  <2>3. Enqueued(q, k, fp, sl, tk) = n
    BY <1>2 DEF Enqueued
  <2> HIDE DEF e
  <2>4. n \in Seq(Entry) /\ DOMAIN n = 1..(Len(q) + 1) /\ n[1] = e /\ \A i \in 1..Len(q) : n[i + 1] = q[i]
    BY <2>1, <2>2
  <2> HIDE DEF n
  <2>5. ASSUME NEW i \in DOMAIN n PROVE i = 1 \/ (i - 1 \in DOMAIN q /\ n[i] = q[i - 1])
    <3>1. CASE i # 1
      <4>1. i - 1 \in 1..Len(q) /\ (i - 1) + 1 = i
        BY <2>1, <2>4, <3>1
      <4> QED BY <2>1, <2>4, <4>1
    <3> QED BY <3>1
  <2>6. \A i \in DOMAIN q : q[i].key # k
    BY <1>2 DEF Missing
  <2>7. ASSUME NEW i \in DOMAIN n, NEW j \in DOMAIN n, n[i].key = n[j].key PROVE i = j
    <3>1. CASE i = 1 /\ j = 1
      BY <3>1
    <3>2. CASE i = 1 /\ j # 1
      BY <2>2, <2>4, <2>5, <2>6, <2>7, <3>2
    <3>3. CASE i # 1 /\ j = 1
      BY <2>2, <2>4, <2>5, <2>6, <2>7, <3>3
    <3>4. CASE i # 1 /\ j # 1
      <4>1. i - 1 \in DOMAIN q /\ j - 1 \in DOMAIN q /\ q[i - 1].key = q[j - 1].key
        BY <2>5, <2>7, <3>4
      <4>2. i - 1 = j - 1
        BY <4>1 DEF Queue
      <4> QED BY <2>4, <4>2
    <3> QED BY <3>1, <3>2, <3>3, <3>4
  <2>8. ASSUME NEW i \in DOMAIN n PROVE sl[n[i].key] = NoSid /\ tk[n[i].key] = NoSid
    BY <1>2, <2>2, <2>4, <2>5 DEF Missing, Unheld
  <2> QED BY <2>3, <2>4, <2>7, <2>8 DEF Queue, Unheld
<1> QED BY <1>1, <1>2

\* What is queued, said with the definitions of the lemmas.
LEMMA PendingFacts ==
  ASSUME Types
  PROVE  OnceInv <=> /\ pending \in Queue /\ Unheld(pending, slots, tasks)
                     /\ \A k \in Keys : slots[k] = NoSid \/ tasks[k] = NoSid
BY DEF Types, OnceInv, Queue, Unheld

\* The sessions in the pool's tables were allocated.
LEMMA TableSids ==
  ASSUME Types, NEW k \in Keys
  PROVE  /\ slots[k] # NoSid => slots[k] \in Sids /\ slots[k] \in 1..allocated
         /\ tasks[k] # NoSid => tasks[k] \in Sids /\ tasks[k] \in 1..allocated
<1>1. slots[k] \in 0..allocated /\ tasks[k] \in 0..allocated /\ allocated \in Nat
  BY PoolAssumption DEF Types
<1>2. slots[k] # NoSid => slots[k] \in 1..allocated
  BY <1>1 DEF NoSid
<1>3. tasks[k] # NoSid => tasks[k] \in 1..allocated
  BY <1>1 DEF NoSid
<1> QED BY <1>2, <1>3, AllocatedSids

\* What a preparation's end does to the pool's tables and to the other preparations.
LEMMA FinallyFacts ==
  ASSUME PoolInv, NEW s \in Sids, Running(s), NEW cancelled, NEW sl, Finally(s, cancelled, sl), closed' = closed,
         \A u \in Sids : chat'[u] = "off" => chat[u] = "off"
  PROVE  /\ OnwardTo(task') /\ task'[s].pc = "done" /\ YieldInv'
         /\ fgCount' \in Nat /\ idle' \in BOOLEAN /\ pump' \in BOOLEAN
         /\ tasks' \in [Keys -> 0..allocated]
         /\ \A k \in Keys : tasks'[k] = NoSid \/ tasks'[k] = tasks[k]
         /\ \A k \in Keys : tasks[k] # s => tasks'[k] = tasks[k]
         /\ tasks[task[s].key] = s => tasks'[task[s].key] = NoSid
         /\ sessionTasks' = sessionTasks \ {s} /\ promoted' = promoted \ {s}
         /\ Unheld(pending, sl, tasks') => pending' \in Queue /\ Unheld(pending', sl, tasks')
<1>1. Types /\ OnceInv /\ HeldInv /\ TaskInv
  BY DEF PoolInv
<1>2. task[s].key \in Keys /\ s # NoSid /\ s \in 1..allocated
  <2>1. task[s].pc # "none"
    BY DEF Running
  <2> QED BY <1>1, <2>1, Allocated
<1> DEFINE k0 == task[s].key
           tk == IF tasks[k0] = s THEN [tasks EXCEPT ![k0] = NoSid] ELSE tasks
           again == cancelled /\ task[s].keep /\ k0 \in desired /\ task[s].fp = rev.fp
<1>3. /\ tasks' = tk /\ sessionTasks' = sessionTasks \ {s} /\ promoted' = promoted \ {s}
      /\ pending' = IF again THEN Enqueued(pending, k0, rev.fp, sl, tk) ELSE pending
      /\ IF task[s].keep
             THEN task' = Put(s, "done") /\ pump' = (pump \/ ~closed) /\ UNCHANGED <<fgCount, idle>>
             ELSE EndForeground(Put(s, "done"))
  BY DEF Finally, Put
<1>4. /\ OnwardTo(Put(s, "done")) /\ Put(s, "done")[s].pc = "done"
      /\ \A u \in Sids \ {s} : Put(s, "done")[u] = task[u]
  BY PutOnward
<1>5. tasks \in [Keys -> 0..allocated] /\ 0 \in 0..allocated
  BY <1>1, PoolAssumption DEF Types
<1>6. /\ tasks' \in [Keys -> 0..allocated]
      /\ \A k \in Keys : tasks'[k] = NoSid \/ tasks'[k] = tasks[k]
      /\ tasks[k0] = s => tasks'[k0] = NoSid
      /\ \A k \in Keys : tasks[k] # s => tasks'[k] = tasks[k]
  BY <1>2, <1>3, <1>5 DEF NoSid
<1>7. OnwardTo(task') /\ task'[s].pc = "done" /\ YieldInv' /\ fgCount' \in Nat /\ idle' \in BOOLEAN /\ pump' \in BOOLEAN
  <2>1. CASE task[s].keep
    <3>1. task' = Put(s, "done") /\ pump' = (pump \/ ~closed) /\ fgCount' = fgCount /\ idle' = idle
      BY <1>3, <2>1
    <3>2. fgCount \in Nat /\ idle \in BOOLEAN /\ pump \in BOOLEAN /\ closed \in BOOLEAN
      BY <1>1 DEF Types
    <3>3. \A u \in Sids : Speculative(u)' => Speculative(u) /\ u # s
      BY <1>4, <3>1 DEF Speculative, Running
    <3>4. YieldInv'
      BY <1>4, <3>1, <3>3 DEF PoolInv, YieldInv
    <3> QED BY <1>4, <3>1, <3>2, <3>4
  <2>2. CASE ~task[s].keep
    <3>1. EndForeground(Put(s, "done"))
      BY <1>3, <2>2
    <3>2. \A u \in Sids : Put(s, "done")[u] = task[u] \/ Put(s, "done")[u].pc \in {"done"} \cup Disposals
      BY <1>4
    <3>3. YieldInv' /\ OnwardTo(task') /\ fgCount' \in Nat /\ idle' \in BOOLEAN /\ pump' \in BOOLEAN
      BY <1>4, <3>1, <3>2, EndForegroundYields
    <3>4. Put(s, "done") \in [Sids -> Preparation] /\ Put(s, "done")[s].pc \notin Gates
      BY <1>4 DEF OnwardTo, Gates
    <3>5. task'[s].pc = "done"
      <4>1. task' = Awake(Put(s, "done")) \/ task' = Put(s, "done")
        BY <3>1 DEF EndForeground
      <4> QED BY <1>4, <3>4, <4>1, AwakeOf
    <3> QED BY <3>3, <3>5
  <2> QED BY <2>1, <2>2
<1>8. pending \in Queue /\ Unheld(pending, slots, tasks)
  BY <1>1, PendingFacts
<1>9. ASSUME Unheld(pending, sl, tasks') PROVE pending' \in Queue /\ Unheld(pending', sl, tasks')
  <2>1. CASE again
    <3>1. rev.fp \in Fingerprints \cup {NoConfig}
      BY <1>1 DEF Types
    <3>2. pending' = Enqueued(pending, k0, rev.fp, sl, tasks')
      BY <1>3, <2>1
    <3> QED BY <1>2, <1>8, <1>9, <3>1, <3>2, EnqueuedFacts
  <2>2. CASE ~again
    BY <1>3, <1>8, <1>9, <2>2
  <2> QED BY <2>1, <2>2
<1> QED BY <1>3, <1>6, <1>7, <1>9

\* The end of a preparation that leaves no slot behind keeps the invariant.
LEMMA FinallyKeeps ==
  ASSUME PoolInv, NEW s \in Sids, Running(s), NEW cancelled, Finally(s, cancelled, slots),
         UNCHANGED <<config, slots, allocated, disposing, closed, handed>>,
         ready' \subseteq 1..allocated, ready \ {s} \subseteq ready',
         claimedPins' \subseteq claimedPins \cup ({s} \cap promoted), pins' \in [Keys -> Nat], PinsInv'
  PROVE  PoolInv'
<1>1. Types /\ OnceInv /\ HeldInv /\ TaskInv /\ SyncInv /\ BoundInv
  BY DEF PoolInv
<1>2. /\ desired' = desired /\ rev' = rev /\ syncing' = syncing /\ syncs' = syncs /\ newest' = newest
      /\ slots' = slots /\ allocated' = allocated /\ disposing' = disposing
      /\ closed' = closed /\ hits' = hits /\ chat' = chat
  BY DEF config, handed
<1>3. /\ OnwardTo(task') /\ task'[s].pc = "done" /\ YieldInv'
      /\ fgCount' \in Nat /\ idle' \in BOOLEAN /\ pump' \in BOOLEAN
      /\ tasks' \in [Keys -> 0..allocated]
      /\ \A k \in Keys : tasks'[k] = NoSid \/ tasks'[k] = tasks[k]
      /\ \A k \in Keys : tasks[k] # s => tasks'[k] = tasks[k]
      /\ sessionTasks' = sessionTasks \ {s} /\ promoted' = promoted \ {s}
      /\ Unheld(pending, slots, tasks') => pending' \in Queue /\ Unheld(pending', slots, tasks')
  BY <1>2, FinallyFacts
<1>4. /\ task' \in [Sids -> Preparation]
      /\ \A u \in Sids :
           /\ task'[u].key = task[u].key /\ task'[u].fp = task[u].fp /\ task'[u].keep = task[u].keep
           /\ task[u].pc = "none" => task'[u] = task[u]
           /\ task[u].pc = "done" => task'[u].pc = "done"
           /\ task[u].pc # "none" => task'[u].pc # "none"
           /\ task'[u].pc # "stale" /\ (task'[u].pc = "done" => ~task'[u].cancel)
           /\ GoesAhead(u)' => GoesAhead(u) /\ u # s
           /\ Running(u)' => Running(u) /\ u # s
  BY <1>3 DEF OnwardTo, GoesAhead, Running
<1>5. s \in 1..allocated /\ s # NoSid
  BY <1>1, Allocated DEF Running
<1>6. pending' \in Queue /\ Unheld(pending', slots, tasks')
  <2>1. pending \in Queue /\ Unheld(pending, slots, tasks)
    BY <1>1, PendingFacts
  <2>2. \A i \in DOMAIN pending : pending[i].key \in Keys
    BY <2>1, QueueKeys
  <2>3. Unheld(pending, slots, tasks')
    BY <1>3, <2>1, <2>2 DEF Unheld
  <2> QED BY <1>3, <2>3
<1>7. Types'
  <2>1. \A u \in Sids : u > allocated => task'[u] = NoTask /\ chat'[u] = "off"
    BY <1>1, <1>2, <1>4, Allocated
  <2>2. \A u \in Sids : u <= allocated => task'[u].pc # "none" /\ task'[u].key \in Keys
    BY <1>1, <1>4, Allocated
  <2>3. claimedPins' \subseteq 1..allocated /\ sessionTasks' \subseteq 1..allocated /\ promoted' \subseteq 1..allocated
    BY <1>1, <1>3, <1>5 DEF Types
  <2>4. pending' \in Seq(Entry)
    BY <1>6 DEF Queue
  <2> QED BY <1>1, <1>2, <1>3, <1>4, <2>1, <2>2, <2>3, <2>4 DEF Types
<1>8. OnceInv'
  <2>1. \A k \in Keys : slots'[k] = NoSid \/ tasks'[k] = NoSid
    BY <1>1, <1>2, <1>3 DEF OnceInv
  <2> QED BY <1>2, <1>6, <2>1 DEF OnceInv, Queue, Unheld
<1>9. HeldInv'
  <2>1. ASSUME NEW k \in Keys, slots[k] # NoSid
        PROVE  /\ task'[slots[k]].key = k /\ task'[slots[k]].pc = "done" /\ task'[slots[k]].fp = rev.fp
               /\ slots[k] \in ready' /\ chat[slots[k]] = "off" /\ ~closed
               /\ slots[k] \notin disposing \cup claimedPins' \cup hits
    <3>1. slots[k] \in Sids
      BY <1>1, <2>1, TableSids
    <3>2. slots[k] # s
      BY <1>1, <2>1 DEF HeldInv, Running
    <3> QED BY <1>1, <1>4, <2>1, <3>1, <3>2 DEF HeldInv
  <2>2. ASSUME NEW k \in Keys, tasks'[k] # NoSid
        PROVE  /\ task'[tasks'[k]].key = k /\ task'[tasks'[k]].fp = rev.fp /\ k \in desired
               /\ task'[tasks'[k]].keep /\ chat[tasks'[k]] = "off" /\ ~closed
               /\ tasks'[k] \notin disposing \cup claimedPins' \cup hits
    <3>1. tasks'[k] = tasks[k] /\ tasks[k] \in Sids
      BY <1>1, <1>3, <2>2, TableSids
    <3>2. s \in promoted => tasks[k] # s
      BY <1>1, <2>2, <3>1 DEF HeldInv, TaskInv
    <3> QED BY <1>1, <1>4, <2>2, <3>1, <3>2 DEF HeldInv
  <2> QED BY <1>2, <2>1, <2>2 DEF HeldInv
<1>10. TaskInv'
  <2>1. \A u \in Sids : Running(u)' /\ ~closed => u \in sessionTasks'
    BY <1>1, <1>3, <1>4 DEF TaskInv
  <2>2. \A u \in Sids : GoesAhead(u)' => ~closed
    BY <1>1, <1>4 DEF TaskInv
  <2>3. \A u \in Sids : GoesAhead(u)' /\ task'[u].keep /\ chat[u] # "off" => u \in promoted'
    BY <1>1, <1>3, <1>4 DEF TaskInv
  <2>4. ASSUME NEW u \in Sids, GoesAhead(u)', task'[u].keep, chat[u] = "off" PROVE tasks'[task'[u].key] = u
    <3>1. tasks[task[u].key] = u /\ u # s
      BY <1>1, <1>4, <2>4 DEF TaskInv
    <3>2. task[u].key \in Keys
      BY <1>1, <1>4, <2>4, Allocated DEF GoesAhead, Running
    <3> QED BY <1>3, <1>4, <3>1, <3>2
  <2>5. promoted' \subseteq {u \in Sids : chat[u] # "off" /\ task'[u].keep}
    BY <1>1, <1>3, <1>4 DEF TaskInv
  <2>6. \A u \in Sids : Running(u)' => u \notin disposing \cup claimedPins' \cup hits
    BY <1>1, <1>4 DEF TaskInv
  <2>7. s \notin hits
    BY <1>1 DEF TaskInv
  <2>8. \A u \in hits : chat[u] # "off" /\ u \in ready'
    BY <1>1, <2>7 DEF TaskInv
  <2>9. \A u \in claimedPins' : chat[u] # "off"
    BY <1>1 DEF TaskInv
  <2>10. disposing \subseteq {u \in Sids : chat[u] = "off"}
    BY <1>1 DEF TaskInv
  <2> QED BY <1>2, <1>4, <2>1, <2>2, <2>3, <2>4, <2>5, <2>6, <2>8, <2>9, <2>10 DEF TaskInv
<1>11. SyncInv'
  BY <1>1, <1>2 DEF SyncInv
<1>12. BoundInv'
  <2>1. ReadyKeys' = ReadyKeys /\ WarmingKeys' \in SUBSET WarmingKeys
    BY <1>2, <1>3 DEF ReadyKeys, WarmingKeys
  <2>2. ReadyKeys = Holding(slots) /\ WarmingKeys = Holding(tasks)
    BY DEF ReadyKeys, WarmingKeys, Holding
  <2>3. Cardinality(WarmingKeys') <= Cardinality(WarmingKeys) /\ Cardinality(WarmingKeys') \in Nat
    BY <2>1, <2>2, HoldingFacts, FS_Subset, FS_CardinalityType
  <2>4. Cardinality(ReadyKeys) \in Nat /\ Cardinality(WarmingKeys) \in Nat /\ MaxReady \in Nat
    BY <2>2, HoldingFacts, PoolAssumption
  <2> QED BY <1>1, <2>1, <2>3, <2>4 DEF BoundInv
<1> QED BY <1>3, <1>7, <1>8, <1>9, <1>10, <1>11, <1>12 DEF PoolInv

\* A failed preparation keeps the invariant.
LEMMA FailKeeps ==
  ASSUME PoolInv, NEW s \in Sids, Fail(s)
  PROVE  PoolInv'
<1>1. /\ task[s].pc \in {"agent", "prepare"} /\ ~task[s].cancel
      /\ UNCHANGED <<config, pinning, handed, slots, allocated, disposing, closed, ready>>
  BY DEF Fail
<1>2. GoesAhead(s) /\ Running(s)
  BY <1>1 DEF GoesAhead, Running, Disposals
<1>3. CASE task[s].pc = "prepare"
  <2>1. task' = GoOn(s, "fail") /\ UNCHANGED <<warming, foreground>>
    BY <1>3 DEF Fail
  <2>2. "fail" \in Places \ {"stale"} /\ "fail" \in Disposals
    BY DEF Places, Disposals
  <2>3. OnwardTo(task') /\ task'[s].pc = "fail" /\ \A u \in Sids \ {s} : task'[u] = task[u]
    BY <1>2, <2>1, <2>2, GoOnOnward
  <2> QED BY <1>1, <2>1, <2>2, <2>3, StopsKeeps
<1>4. CASE task[s].pc # "prepare"
  <2>1. Finally(s, FALSE, slots)
    BY <1>4 DEF Fail
  <2>2. PinsInv' /\ pins' \in [Keys -> Nat] /\ claimedPins' = claimedPins
    <3>1. chat' = chat
      BY <1>1 DEF handed
    <3>2. \A u \in Sids : task'[u].key = task[u].key
      BY <1>1, <1>2, <2>1, <3>1, FinallyFacts DEF OnwardTo
    <3> QED BY <1>1, <3>2, SamePins DEF pinning
  <2>3. ready' \subseteq 1..allocated /\ ready \ {s} \subseteq ready'
    BY <1>1 DEF PoolInv, Types
  <2> QED BY <1>1, <1>2, <2>1, <2>2, <2>3, FinallyKeeps
<1> QED BY <1>3, <1>4

\* A cancelled one too.
LEMMA CancelledKeeps ==
  ASSUME PoolInv, NEW s \in Sids, Cancelled(s)
  PROVE  PoolInv'
<1>1. /\ task[s].cancel /\ task[s].pc \notin Disposals
      /\ UNCHANGED <<config, pinning, handed, slots, allocated, disposing, closed, ready>>
  BY DEF Cancelled
<1>2. Running(s)
  <2>1. task[s].pc # "none"
    <3>1. Types
      BY DEF PoolInv
    <3>2. task[s].pc = "none" => task[s] = NoTask
      BY <3>1, Allocated
    <3>3. ~NoTask.cancel
      BY DEF NoTask
    <3> QED BY <1>1, <3>2, <3>3
  <2>2. task[s].pc # "done"
    BY <1>1 DEF PoolInv, TaskInv
  <2> QED BY <2>1, <2>2 DEF Running
<1>3. CASE task[s].pc = "new" \/ task[s].pc \in HasAgent
  <2> DEFINE pc == IF task[s].pc = "new" THEN "done" ELSE "drop"
  <2>1. task' = [task EXCEPT ![s].cancel = FALSE, ![s].woken = FALSE,
                             ![s].pc = IF @ = "new" THEN "done" ELSE "drop"] /\ UNCHANGED <<warming, foreground>>
    BY <1>3 DEF Cancelled
  <2>2. task' = Put(s, pc)
    BY <2>1 DEF Put, PoolInv, Types, Preparation
  <2>3. pc \in {"done", "drop"} /\ pc \in {"done"} \cup Disposals
    BY DEF Disposals
  <2> HIDE DEF pc
  <2>4. OnwardTo(task') /\ task'[s].pc = pc /\ \A u \in Sids \ {s} : task'[u] = task[u]
    BY <1>2, <2>2, <2>3, PutOnward
  <2> QED BY <1>1, <2>1, <2>3, <2>4, StopsKeeps
<1>4. CASE ~(task[s].pc = "new" \/ task[s].pc \in HasAgent)
  <2>1. Finally(s, TRUE, slots)
    BY <1>4 DEF Cancelled
  <2>2. PinsInv' /\ pins' \in [Keys -> Nat] /\ claimedPins' = claimedPins
    <3>1. chat' = chat
      BY <1>1 DEF handed
    <3>2. \A u \in Sids : task'[u].key = task[u].key
      BY <1>1, <1>2, <2>1, <3>1, FinallyFacts DEF OnwardTo
    <3> QED BY <1>1, <3>2, SamePins DEF pinning
  <2>3. ready' \subseteq 1..allocated /\ ready \ {s} \subseteq ready'
    BY <1>1 DEF PoolInv, Types
  <2> QED BY <1>1, <1>2, <2>1, <2>2, <2>3, FinallyKeeps
<1> QED BY <1>3, <1>4

\* The runtime of a failed or cancelled preparation closed.
LEMMA DisposedKeeps ==
  ASSUME PoolInv, NEW s \in Sids, Disposed(s)
  PROVE  PoolInv'
<1>1. /\ task[s].pc \in Disposals /\ ready' = ready \ {s} /\ Finally(s, task[s].pc = "drop", slots)
      /\ pins' = IF task[s].pc = "stale" THEN Unpinned(pins, task[s].key) ELSE pins
      /\ UNCHANGED <<config, handed, slots, allocated, claimedPins, disposing, closed>>
  BY DEF Disposed
<1>2. Running(s) /\ task[s].pc # "stale" /\ chat' = chat
  BY <1>1 DEF Running, Disposals, PoolInv, TaskInv, handed
<1>3. PinsInv' /\ pins' \in [Keys -> Nat]
  <2>1. \A u \in Sids : task'[u].key = task[u].key
    BY <1>1, <1>2, FinallyFacts DEF OnwardTo
  <2> QED BY <1>1, <1>2, <2>1, SamePins DEF pinning
<1>4. ready' \subseteq 1..allocated
  BY <1>1 DEF PoolInv, Types
<1> QED BY <1>1, <1>2, <1>3, <1>4, FinallyKeeps

\* A slot's runtime closed, with its pin.
LEMMA DisposeSlotKeeps ==
  ASSUME PoolInv, NEW s \in Sids, DisposeSlot(s)
  PROVE  PoolInv'
<1>1. /\ s \in disposing /\ disposing' = disposing \ {s} /\ pins' = Unpinned(pins, task[s].key) /\ ready' = ready \ {s}
      /\ UNCHANGED <<config, warming, foreground, handed, slots, task, allocated, claimedPins, closed>>
  BY DEF DisposeSlot
<1>2. Types /\ OnceInv /\ HeldInv /\ TaskInv /\ PinsInv /\ SyncInv /\ YieldInv /\ BoundInv
  BY DEF PoolInv
<1>3. /\ desired' = desired /\ rev' = rev /\ syncing' = syncing /\ syncs' = syncs /\ newest' = newest
      /\ slots' = slots /\ tasks' = tasks /\ sessionTasks' = sessionTasks /\ promoted' = promoted
      /\ pending' = pending /\ allocated' = allocated /\ task' = task /\ claimedPins' = claimedPins
      /\ closed' = closed /\ hits' = hits /\ chat' = chat
      /\ fgCount' = fgCount /\ idle' = idle /\ pump' = pump
  BY <1>1 DEF config, warming, foreground, handed
<1>4. s # NoSid /\ task[s].key \in Keys /\ chat[s] = "off"
  BY <1>1, <1>2, Allocated DEF Types, TaskInv
<1>5. s \notin claimedPins /\ s \notin hits /\ \A k \in Keys : slots[k] # s
  BY <1>1, <1>2, <1>4 DEF TaskInv, HeldInv
<1>6. PinsInv' /\ pins' \in [Keys -> Nat]
  <2>1. s \in Owners(task[s].key)
    BY <1>1, <1>4 DEF Owners
  <2>2. ASSUME NEW k \in Keys PROVE Owners(k)' = IF k = task[s].key THEN Owners(k) \ {s} ELSE Owners(k)
    <3>1. Owners(k)' = {u \in (claimedPins \cup disposing' \cup {slots[k]}) \ {NoSid} : task[u].key = k}
      BY <1>3 DEF Owners
    <3>2. (claimedPins \cup disposing' \cup {slots[k]}) \ {NoSid} = ((claimedPins \cup disposing \cup {slots[k]}) \ {NoSid}) \ {s}
      BY <1>1, <1>5
    <3> QED BY <3>1, <3>2 DEF Owners
  <2> QED BY <1>1, <1>2, <1>4, <2>1, <2>2, PinDropped
<1>7. Types'
  <2>1. disposing' \subseteq 1..allocated /\ ready' \subseteq 1..allocated
    BY <1>1, <1>2 DEF Types
  <2> QED BY <1>2, <1>3, <1>6, <2>1 DEF Types
<1>8. OnceInv' /\ SyncInv' /\ YieldInv' /\ BoundInv'
  BY <1>2, <1>3 DEF OnceInv, SyncInv, YieldInv, BoundInv, Speculative, Running, ReadyKeys, WarmingKeys
<1>9. HeldInv'
  <2>1. \A k \in Keys : slots[k] # NoSid => slots[k] \in ready'
    BY <1>1, <1>2, <1>5 DEF HeldInv
  <2> QED BY <1>1, <1>2, <1>3, <2>1 DEF HeldInv
<1>10. TaskInv'
  <2>1. \A u \in hits : u \in ready'
    BY <1>1, <1>2, <1>5 DEF TaskInv
  <2> QED BY <1>1, <1>2, <1>3, <2>1 DEF TaskInv, GoesAhead, Running
<1> QED BY <1>6, <1>7, <1>8, <1>9, <1>10 DEF PoolInv

\* A session published as its key's READY slot keeps the invariant.
LEMMA PublishKeeps ==
  ASSUME PoolInv, NEW s \in Sids, GoesAhead(s), task[s].keep, s \notin promoted,
         ready' = ready \cup {s}, claimedPins' = claimedPins,
         pins' = [pins EXCEPT ![task[s].key] = @ + 1],
         slots' = [slots EXCEPT ![task[s].key] = s],
         Finally(s, FALSE, slots'),
         UNCHANGED <<config, handed, allocated, disposing, closed>>
  PROVE  PoolInv'
<1>1. Types /\ OnceInv /\ HeldInv /\ TaskInv /\ PinsInv /\ SyncInv /\ BoundInv
  BY DEF PoolInv
<1>2. /\ desired' = desired /\ rev' = rev /\ syncing' = syncing /\ syncs' = syncs /\ newest' = newest
      /\ allocated' = allocated /\ disposing' = disposing
      /\ closed' = closed /\ hits' = hits /\ chat' = chat
  BY DEF config, handed
<1> DEFINE key == task[s].key
<1>3. Running(s) /\ key \in Keys /\ s # NoSid /\ s \in 1..allocated /\ s \in 0..allocated
  <2>1. Running(s) /\ task[s].pc # "none"
    BY DEF GoesAhead, Running
  <2>2. s \in 1..allocated /\ s # NoSid /\ key \in Keys /\ allocated \in Nat
    BY <1>1, <2>1, Allocated
  <2> QED BY <2>1, <2>2
<1>4. chat[s] = "off" /\ tasks[key] = s
  BY <1>1 DEF TaskInv
<1>5. /\ task[s].fp = rev.fp /\ ~closed /\ s \notin disposing \cup claimedPins \cup hits
      /\ slots[key] = NoSid
  BY <1>1, <1>3, <1>4 DEF HeldInv, OnceInv
<1>6. /\ OnwardTo(task') /\ task'[s].pc = "done" /\ YieldInv'
      /\ fgCount' \in Nat /\ idle' \in BOOLEAN /\ pump' \in BOOLEAN
      /\ tasks' \in [Keys -> 0..allocated]
      /\ \A k \in Keys : tasks'[k] = NoSid \/ tasks'[k] = tasks[k]
      /\ \A k \in Keys : tasks[k] # s => tasks'[k] = tasks[k]
      /\ tasks'[key] = NoSid
      /\ sessionTasks' = sessionTasks \ {s} /\ promoted' = promoted \ {s}
      /\ Unheld(pending, slots', tasks') => pending' \in Queue /\ Unheld(pending', slots', tasks')
  BY <1>2, <1>3, <1>4, FinallyFacts
<1>7. /\ task' \in [Sids -> Preparation]
      /\ \A u \in Sids :
           /\ task'[u].key = task[u].key /\ task'[u].fp = task[u].fp /\ task'[u].keep = task[u].keep
           /\ task[u].pc = "none" => task'[u] = task[u]
           /\ task[u].pc = "done" => task'[u].pc = "done"
           /\ task[u].pc # "none" => task'[u].pc # "none"
           /\ task'[u].pc # "stale" /\ (task'[u].pc = "done" => ~task'[u].cancel)
           /\ GoesAhead(u)' => GoesAhead(u) /\ u # s
           /\ Running(u)' => Running(u) /\ u # s
  BY <1>6 DEF OnwardTo, GoesAhead, Running
<1> HIDE DEF key
<1>8. /\ slots' \in [Keys -> 0..allocated] /\ slots'[key] = s
      /\ \A k \in Keys : k # key => slots'[k] = slots[k]
  BY <1>1, <1>3 DEF Types, key
<1>9. pending' \in Queue /\ Unheld(pending', slots', tasks')
  <2>1. pending \in Queue /\ Unheld(pending, slots, tasks)
    BY <1>1, PendingFacts
  <2>2. \A i \in DOMAIN pending : pending[i].key \in Keys
    BY <2>1, QueueKeys
  <2>3. \A i \in DOMAIN pending : pending[i].key # key
    BY <1>3, <1>4, <2>1 DEF Unheld
  <2>4. Unheld(pending, slots', tasks')
    BY <1>6, <1>8, <2>1, <2>2, <2>3 DEF Unheld
  <2> QED BY <1>6, <2>4
<1>10. PinsInv' /\ pins' \in [Keys -> Nat]
  <2>1. \A k \in Keys : slots[k] # s
    BY <1>1, <1>3 DEF HeldInv, Running
  <2>2. s \notin Owners(key)
    BY <1>5, <2>1, <1>3 DEF Owners
  <2>3. ASSUME NEW k \in Keys PROVE Owners(k)' = IF k = key THEN Owners(k) \cup {s} ELSE Owners(k)
    <3>1. Owners(k)' = {u \in (claimedPins \cup disposing \cup {slots'[k]}) \ {NoSid} : task'[u].key = k}
      BY <1>2 DEF Owners
    <3>2. (claimedPins \cup disposing \cup {slots[k]}) \ {NoSid} \subseteq Sids
      BY <1>1, Pinned
    <3>3. CASE k = key
      <4>1. (claimedPins \cup disposing \cup {slots'[k]}) \ {NoSid} = ((claimedPins \cup disposing \cup {slots[k]}) \ {NoSid}) \cup {s}
        BY <1>3, <1>5, <1>8, <3>3
      <4>2. task'[s].key = k
        BY <1>7, <3>3 DEF key
      <4> QED BY <1>7, <3>1, <3>2, <3>3, <4>1, <4>2 DEF Owners
    <3>4. CASE k # key
      <4>1. slots'[k] = slots[k]
        BY <1>8, <3>4
      <4> QED BY <1>7, <3>1, <3>2, <3>4, <4>1 DEF Owners
    <3> QED BY <3>3, <3>4
  <2> QED BY <1>1, <1>3, <2>2, <2>3, PinTaken DEF key
<1>11. Types'
  <2>1. \A u \in Sids : u > allocated => task'[u] = NoTask /\ chat'[u] = "off"
    BY <1>1, <1>2, <1>7, Allocated
  <2>2. \A u \in Sids : u <= allocated => task'[u].pc # "none" /\ task'[u].key \in Keys
    BY <1>1, <1>7, Allocated
  <2>3. ready' \subseteq 1..allocated /\ sessionTasks' \subseteq 1..allocated /\ promoted' \subseteq 1..allocated
    BY <1>1, <1>3, <1>6 DEF Types
  <2>4. pending' \in Seq(Entry)
    BY <1>9 DEF Queue
  <2>5. /\ slots' \in [Keys -> 0..allocated'] /\ tasks' \in [Keys -> 0..allocated']
        /\ task' \in [Sids -> Preparation] /\ pins' \in [Keys -> Nat]
    BY <1>2, <1>6, <1>7, <1>8, <1>10
  <2>6. /\ closed' \in BOOLEAN /\ fgCount' \in Nat /\ idle' \in BOOLEAN /\ pump' \in BOOLEAN
    BY <1>1, <1>2, <1>6 DEF Types
  <2>7. /\ desired' \subseteq Keys /\ rev' \in [seq : Nat, fp : Fingerprints \cup {NoConfig}]
        /\ newest' \in [seq : Nat, fp : Fingerprints \cup {NoConfig}] /\ syncs' \in 0..MaxSyncs
        /\ syncing' \subseteq [seq : Nat, fp : Fingerprints, desired : SUBSET Keys]
        /\ allocated' \in 0..MaxSessions /\ claimedPins' \subseteq 1..allocated' /\ disposing' \subseteq 1..allocated'
        /\ chat' \in [Sids -> {"off", "claimed", "begun", "waiting", "served"}] /\ hits' \subseteq 1..allocated'
    BY <1>1, <1>2 DEF Types
  <2>8. /\ sessionTasks' \subseteq 1..allocated' /\ promoted' \subseteq 1..allocated' /\ ready' \subseteq 1..allocated'
        /\ \A u \in Sids : u > allocated' => task'[u] = NoTask /\ chat'[u] = "off"
        /\ \A u \in Sids : u <= allocated' => task'[u].pc # "none" /\ task'[u].key \in Keys
    BY <1>2, <2>1, <2>2, <2>3
  <2> QED BY <2>4, <2>5, <2>6, <2>7, <2>8 DEF Types
<1>12. OnceInv'
  <2>1. \A k \in Keys : slots'[k] = NoSid \/ tasks'[k] = NoSid
    BY <1>1, <1>6, <1>8 DEF OnceInv
  <2> QED BY <1>9, <2>1 DEF OnceInv, Queue, Unheld
<1>13. HeldInv'
  <2>1. ASSUME NEW k \in Keys, slots'[k] # NoSid
        PROVE  /\ task'[slots'[k]].key = k /\ task'[slots'[k]].pc = "done" /\ task'[slots'[k]].fp = rev.fp
               /\ slots'[k] \in ready' /\ chat[slots'[k]] = "off" /\ ~closed
               /\ slots'[k] \notin disposing \cup claimedPins \cup hits
    <3>1. CASE k = key
      BY <1>4, <1>5, <1>6, <1>7, <1>8, <3>1 DEF key
    <3>2. CASE k # key
      <4>1. slots'[k] = slots[k] /\ slots[k] \in Sids
        BY <1>1, <1>8, <2>1, <3>2, TableSids
      <4> QED BY <1>1, <1>7, <2>1, <4>1 DEF HeldInv
    <3> QED BY <3>1, <3>2
  <2>2. ASSUME NEW k \in Keys, tasks'[k] # NoSid
        PROVE  /\ task'[tasks'[k]].key = k /\ task'[tasks'[k]].fp = rev.fp /\ k \in desired
               /\ task'[tasks'[k]].keep /\ chat[tasks'[k]] = "off" /\ ~closed
               /\ tasks'[k] \notin disposing \cup claimedPins \cup hits
    <3>1. tasks'[k] = tasks[k] /\ tasks[k] \in Sids
      BY <1>1, <1>6, <2>2, TableSids
    <3> QED BY <1>1, <1>7, <2>2, <3>1 DEF HeldInv
  <2> QED BY <1>2, <2>1, <2>2 DEF HeldInv
<1>14. TaskInv'
  <2>1. \A u \in Sids : Running(u)' /\ ~closed => u \in sessionTasks'
    BY <1>1, <1>6, <1>7 DEF TaskInv
  <2>2. \A u \in Sids : GoesAhead(u)' => ~closed
    BY <1>1, <1>7 DEF TaskInv
  <2>3. \A u \in Sids : GoesAhead(u)' /\ task'[u].keep /\ chat[u] # "off" => u \in promoted'
    BY <1>1, <1>6, <1>7 DEF TaskInv
  <2>4. ASSUME NEW u \in Sids, GoesAhead(u)', task'[u].keep, chat[u] = "off" PROVE tasks'[task'[u].key] = u
    <3>1. tasks[task[u].key] = u /\ u # s
      BY <1>1, <1>7, <2>4 DEF TaskInv
    <3>2. task[u].key \in Keys
      BY <1>1, <1>7, <2>4, Allocated DEF GoesAhead, Running
    <3> QED BY <1>6, <1>7, <3>1, <3>2
  <2>5. promoted' \subseteq {u \in Sids : chat[u] # "off" /\ task'[u].keep}
    BY <1>1, <1>6, <1>7 DEF TaskInv
  <2>6. \A u \in Sids : Running(u)' => u \notin disposing \cup claimedPins \cup hits
    BY <1>1, <1>7 DEF TaskInv
  <2>7. \A u \in hits : chat[u] # "off" /\ u \in ready'
    BY <1>1 DEF TaskInv
  <2> QED BY <1>1, <1>2, <1>7, <2>1, <2>2, <2>3, <2>4, <2>5, <2>6, <2>7 DEF TaskInv
<1>15. SyncInv'
  BY <1>1, <1>2 DEF SyncInv
<1>16. BoundInv'
  <2>1. ReadyKeys' = ReadyKeys \cup {key} /\ key \notin ReadyKeys
    BY <1>3, <1>5, <1>8 DEF ReadyKeys, key
  <2>2. WarmingKeys' = WarmingKeys \ {key} /\ key \in WarmingKeys
    <3>1. \A k \in Keys : k # key => tasks[k] # s
      <4> SUFFICES ASSUME NEW k \in Keys, tasks[k] = s PROVE k = key
        OBVIOUS
      <4> QED BY <1>1, <1>3 DEF HeldInv, key
    <3>2. tasks[key] = s /\ tasks'[key] = NoSid
      BY <1>4, <1>6 DEF key
    <3> QED BY <1>3, <1>6, <3>1, <3>2 DEF WarmingKeys
  <2>3. ReadyKeys = Holding(slots) /\ WarmingKeys = Holding(tasks)
    BY DEF ReadyKeys, WarmingKeys, Holding
  <2>4. /\ IsFiniteSet(ReadyKeys) /\ Cardinality(ReadyKeys) \in Nat
        /\ IsFiniteSet(WarmingKeys) /\ Cardinality(WarmingKeys) \in Nat
    BY <2>3, HoldingFacts
  <2>5. Cardinality(ReadyKeys') = Cardinality(ReadyKeys) + 1
    BY <2>1, <2>4, FS_AddElement
  <2>6. Cardinality(WarmingKeys') = Cardinality(WarmingKeys) - 1
    BY <2>2, <2>4, FS_RemoveElement
  <2>7. MaxReady \in Nat
    BY PoolAssumption
  <2> QED BY <1>1, <2>4, <2>5, <2>6, <2>7 DEF BoundInv
<1> QED BY <1>6, <1>10, <1>11, <1>12, <1>13, <1>14, <1>15, <1>16 DEF PoolInv

\* A preparation that is through keeps the invariant; none is found stale, for a sync
\* cancels those it makes stale.
LEMMA PreparedKeeps ==
  ASSUME PoolInv, NEW s \in Sids, Prepared(s)
  PROVE  PoolInv'
<1>1. /\ task[s].pc = "prepare" /\ ~task[s].cancel /\ ready' = ready \cup {s}
      /\ UNCHANGED <<config, handed, allocated, disposing, closed>>
  BY DEF Prepared
<1>2. GoesAhead(s) /\ Running(s)
  BY <1>1 DEF GoesAhead, Running, Disposals
<1>3. Types /\ HeldInv /\ TaskInv /\ PinsInv
  BY DEF PoolInv
<1>4. task[s].key \in Keys /\ s \in 1..allocated /\ s # NoSid
  BY <1>1, <1>3, Allocated
<1>5. ~(task[s].keep /\ s \notin promoted /\ (closed \/ task[s].fp # rev.fp \/ task[s].key \notin desired))
  <2> SUFFICES ASSUME task[s].keep, s \notin promoted
               PROVE  ~closed /\ task[s].fp = rev.fp /\ task[s].key \in desired
    OBVIOUS
  <2>1. tasks[task[s].key] = s /\ ~closed
    BY <1>2, <1>3 DEF TaskInv
  <2> QED BY <1>3, <1>4, <2>1 DEF HeldInv
<1>6. /\ pins' = IF task[s].keep THEN [pins EXCEPT ![task[s].key] = @ + 1] ELSE pins
      /\ claimedPins' = claimedPins \cup ({s} \cap promoted)
      /\ slots' = IF task[s].keep /\ s \notin promoted
                         THEN [slots EXCEPT ![task[s].key] = s] ELSE slots
      /\ Finally(s, FALSE, slots')
  BY <1>5 DEF Prepared
<1>7. ready' \subseteq 1..allocated /\ ready \ {s} \subseteq ready'
  BY <1>1, <1>3, <1>4 DEF Types
<1>8. chat' = chat
  BY <1>1 DEF handed
<1>9. \A u \in Sids : task'[u].key = task[u].key
  BY <1>1, <1>2, <1>6, <1>8, FinallyFacts DEF OnwardTo
<1>10. CASE ~task[s].keep
  <2>1. claimedPins' = claimedPins /\ pins' = pins /\ slots' = slots
    BY <1>3, <1>6, <1>10 DEF TaskInv
  <2>2. PinsInv' /\ pins' \in [Keys -> Nat]
    BY <1>1, <1>9, <2>1, SamePins DEF pinning
  <2>3. Finally(s, FALSE, slots)
    BY <1>6, <2>1
  <2> QED BY <1>1, <1>2, <1>7, <2>1, <2>2, <2>3, FinallyKeeps
<1>11. CASE task[s].keep /\ s \in promoted
  <2>1. claimedPins' = claimedPins \cup {s} /\ pins' = [pins EXCEPT ![task[s].key] = @ + 1] /\ slots' = slots
    BY <1>6, <1>11
  <2>2. Finally(s, FALSE, slots)
    BY <1>6, <2>1
  <2>3. s \notin claimedPins /\ s \notin disposing /\ \A k \in Keys : slots[k] # s
    BY <1>2, <1>3, <1>4 DEF TaskInv, HeldInv, Running
  <2>4. s \notin Owners(task[s].key)
    BY <1>4, <2>3 DEF Owners
  <2>5. ASSUME NEW k \in Keys
        PROVE  Owners(k)' = IF k = task[s].key THEN Owners(k) \cup {s} ELSE Owners(k)
    <3>1. Owners(k)' = {u \in (claimedPins' \cup disposing \cup {slots[k]}) \ {NoSid} : task'[u].key = k}
      BY <1>1, <2>1 DEF Owners
    <3>2. (claimedPins' \cup disposing \cup {slots[k]}) \ {NoSid} = ((claimedPins \cup disposing \cup {slots[k]}) \ {NoSid}) \cup {s}
      BY <1>4, <2>1
    <3>3. (claimedPins \cup disposing \cup {slots[k]}) \ {NoSid} \subseteq Sids
      BY <1>3, Pinned
    <3> QED BY <1>9, <3>1, <3>2, <3>3 DEF Owners
  <2>6. PinsInv' /\ pins' \in [Keys -> Nat]
    BY <1>3, <1>4, <2>1, <2>4, <2>5, PinTaken
  <2>7. claimedPins' \subseteq claimedPins \cup ({s} \cap promoted)
    BY <1>6
  <2> QED BY <1>1, <1>2, <1>7, <2>1, <2>2, <2>6, <2>7, FinallyKeeps
<1>12. CASE task[s].keep /\ s \notin promoted
  <2>1. claimedPins' = claimedPins /\ pins' = [pins EXCEPT ![task[s].key] = @ + 1]
        /\ slots' = [slots EXCEPT ![task[s].key] = s]
    BY <1>6, <1>12
  <2> QED BY <1>1, <1>2, <1>6, <1>12, <2>1, PublishKeeps
<1> QED BY <1>10, <1>11, <1>12

\* Tables that hold no more than before keep the bound.
LEMMA BoundKept ==
  ASSUME BoundInv, \A k \in Keys : slots'[k] # NoSid => slots[k] # NoSid,
         \A k \in Keys : tasks'[k] # NoSid => tasks[k] # NoSid
  PROVE  BoundInv'
<1>1. ReadyKeys' \in SUBSET ReadyKeys /\ WarmingKeys' \in SUBSET WarmingKeys
  BY DEF ReadyKeys, WarmingKeys
<1>2. ReadyKeys = Holding(slots) /\ WarmingKeys = Holding(tasks)
  BY DEF ReadyKeys, WarmingKeys, Holding
<1>3. /\ Cardinality(ReadyKeys') <= Cardinality(ReadyKeys) /\ Cardinality(ReadyKeys') \in Nat
      /\ Cardinality(WarmingKeys') <= Cardinality(WarmingKeys) /\ Cardinality(WarmingKeys') \in Nat
  BY <1>1, <1>2, HoldingFacts, FS_Subset, FS_CardinalityType
<1>4. Cardinality(ReadyKeys) \in Nat /\ Cardinality(WarmingKeys) \in Nat /\ MaxReady \in Nat
  BY <1>2, HoldingFacts, PoolAssumption
<1> QED BY <1>3, <1>4 DEF BoundInv

\* What a claim does to the tables.
LEMMA ClaimFacts ==
  ASSUME PoolInv, NEW k \in Keys, Claim(k)
  PROVE  /\ slots' \in [Keys -> 0..allocated] /\ slots'[k] = NoSid
         /\ tasks' \in [Keys -> 0..allocated] /\ tasks'[k] = NoSid
         /\ \A x \in Keys : x # k => slots'[x] = slots[x] /\ tasks'[x] = tasks[x]
         /\ pending' \in Queue /\ OnceInv' /\ BoundInv' /\ SyncInv'
         /\ fgCount' = fgCount /\ idle' = idle /\ pump' = pump
         /\ UNCHANGED <<desired, rev, syncing, syncs, newest>>
<1>1. Types /\ OnceInv /\ BoundInv /\ SyncInv
  BY DEF PoolInv
<1>2. /\ slots' = [slots EXCEPT ![k] = NoSid]
      /\ tasks' = IF slots[k] = NoSid THEN [tasks EXCEPT ![k] = NoSid] ELSE tasks
      /\ \/ pending' = pending
         \/ pending' = Enqueued(pending, k, rev.fp, slots', tasks')
      /\ UNCHANGED <<config, foreground, closed>>
  BY DEF Claim, Popped
<1>3. /\ slots \in [Keys -> 0..allocated] /\ tasks \in [Keys -> 0..allocated] /\ 0 \in 0..allocated
      /\ rev.fp \in Fingerprints \cup {NoConfig}
  BY <1>1, PoolAssumption DEF Types
<1>4. /\ slots' \in [Keys -> 0..allocated] /\ slots'[k] = NoSid
      /\ \A x \in Keys : x # k => slots'[x] = slots[x]
  BY <1>2, <1>3 DEF NoSid
<1>5. /\ tasks' \in [Keys -> 0..allocated] /\ tasks'[k] = NoSid
      /\ \A x \in Keys : x # k => tasks'[x] = tasks[x]
  <2>1. CASE slots[k] = NoSid
    BY <1>2, <1>3, <2>1 DEF NoSid
  <2>2. CASE slots[k] # NoSid
    BY <1>1, <1>2, <1>3, <2>2 DEF OnceInv
  <2> QED BY <2>1, <2>2
<1>6. pending' \in Queue /\ Unheld(pending', slots', tasks')
  <2>1. pending \in Queue /\ Unheld(pending, slots, tasks)
    BY <1>1, PendingFacts
  <2>2. \A i \in DOMAIN pending : pending[i].key \in Keys
    BY <2>1, QueueKeys
  <2>3. Unheld(pending, slots', tasks')
    BY <1>4, <1>5, <2>1, <2>2 DEF Unheld
  <2> QED BY <1>2, <1>3, <2>1, <2>3, EnqueuedFacts
<1>7. OnceInv'
  <2>1. \A x \in Keys : slots'[x] = NoSid \/ tasks'[x] = NoSid
    BY <1>1, <1>4, <1>5 DEF OnceInv
  <2> QED BY <1>6, <2>1 DEF OnceInv, Queue, Unheld
<1>8. BoundInv'
  BY <1>1, <1>4, <1>5, BoundKept
<1>9. SyncInv'
  BY <1>1, <1>2 DEF SyncInv, config
<1> QED BY <1>2, <1>4, <1>5, <1>6, <1>7, <1>8, <1>9 DEF foreground, config

\* Claiming a READY slot keeps the invariant: the pin goes with the session.
LEMMA ClaimReadyKeeps ==
  ASSUME PoolInv, NEW k \in Keys, Claim(k), slots[k] # NoSid
  PROVE  PoolInv'
<1>1. Types /\ OnceInv /\ HeldInv /\ TaskInv /\ PinsInv /\ YieldInv
  BY DEF PoolInv
<1> DEFINE sid == slots[k]
<1>2. /\ claimedPins' = claimedPins \cup {sid} /\ hits' = hits \cup {sid}
      /\ chat' = [chat EXCEPT ![sid] = "claimed"]
      /\ UNCHANGED <<promoted, sessionTasks, task, allocated, pins, disposing, closed, ready>>
  BY DEF Claim
<1>3. /\ slots' \in [Keys -> 0..allocated] /\ slots'[k] = NoSid
      /\ tasks' \in [Keys -> 0..allocated] /\ tasks'[k] = NoSid
      /\ \A x \in Keys : x # k => slots'[x] = slots[x] /\ tasks'[x] = tasks[x]
      /\ pending' \in Queue /\ OnceInv' /\ BoundInv' /\ SyncInv'
      /\ fgCount' = fgCount /\ idle' = idle /\ pump' = pump
      /\ UNCHANGED <<desired, rev, syncing, syncs, newest>>
  BY ClaimFacts
<1>4. /\ sid \in Sids /\ sid \in 1..allocated /\ task[sid].key = k /\ task[sid].pc = "done"
      /\ sid \in ready /\ chat[sid] = "off" /\ sid \notin disposing \cup claimedPins \cup hits /\ sid # NoSid
      /\ tasks[k] = NoSid
  BY <1>1, TableSids DEF HeldInv, OnceInv
<1> HIDE DEF sid
<1>5. /\ chat' \in [Sids -> {"off", "claimed", "begun", "waiting", "served"}] /\ chat'[sid] = "claimed"
      /\ \A u \in Sids : u # sid => chat'[u] = chat[u]
  BY <1>1, <1>2, <1>4 DEF Types
<1>6. Types'
  <2>0. ~(sid > allocated)
    BY <1>1, <1>4, Allocated
  <2>1. \A u \in Sids : u > allocated => task[u] = NoTask /\ chat'[u] = "off"
    BY <1>1, <1>5, <2>0, Allocated
  <2>2. \A u \in Sids : u <= allocated => task[u].pc # "none" /\ task[u].key \in Keys
    BY <1>1, Allocated
  <2>3. claimedPins' \subseteq 1..allocated /\ hits' \subseteq 1..allocated /\ pending' \in Seq(Entry)
    BY <1>1, <1>2, <1>3, <1>4 DEF Types, Queue
  <2> QED BY <1>1, <1>2, <1>3, <1>5, <2>1, <2>2, <2>3 DEF Types
<1>7. HeldInv'
  <2>1. ASSUME NEW x \in Keys, slots'[x] # NoSid
        PROVE  /\ task[slots'[x]].key = x /\ task[slots'[x]].pc = "done" /\ task[slots'[x]].fp = rev.fp
               /\ slots'[x] \in ready /\ chat'[slots'[x]] = "off" /\ ~closed
               /\ slots'[x] \notin disposing \cup claimedPins' \cup hits'
    <3>1. x # k /\ slots'[x] = slots[x] /\ slots[x] \in Sids
      BY <1>1, <1>3, <2>1, TableSids
    <3>2. slots[x] # sid
      BY <1>1, <1>4, <2>1, <3>1 DEF HeldInv
    <3> QED BY <1>1, <1>2, <1>5, <2>1, <3>1, <3>2 DEF HeldInv
  <2>2. ASSUME NEW x \in Keys, tasks'[x] # NoSid
        PROVE  /\ task[tasks'[x]].key = x /\ task[tasks'[x]].fp = rev.fp /\ x \in desired
               /\ task[tasks'[x]].keep /\ chat'[tasks'[x]] = "off" /\ ~closed
               /\ tasks'[x] \notin disposing \cup claimedPins' \cup hits'
    <3>1. x # k /\ tasks'[x] = tasks[x] /\ tasks[x] \in Sids
      BY <1>1, <1>3, <2>2, TableSids
    <3>2. tasks[x] # sid
      BY <1>1, <1>4, <2>2, <3>1 DEF HeldInv
    <3> QED BY <1>1, <1>2, <1>5, <2>2, <3>1, <3>2 DEF HeldInv
  <2> QED BY <1>2, <1>3, <2>1, <2>2 DEF HeldInv
<1>8. TaskInv'
  <2>1. \A u \in Sids : (Running(u)' <=> Running(u)) /\ (GoesAhead(u)' <=> GoesAhead(u))
    BY <1>2 DEF Running, GoesAhead
  <2>2. ~Running(sid) /\ ~GoesAhead(sid)
    BY <1>4 DEF Running, GoesAhead
  <2>3. \A u \in Sids : GoesAhead(u) /\ task[u].keep /\ chat'[u] # "off" => u \in promoted
    BY <1>1, <1>5, <2>2 DEF TaskInv
  <2>4. ASSUME NEW u \in Sids, GoesAhead(u), task[u].keep, chat'[u] = "off" PROVE tasks'[task[u].key] = u
    <3>1. tasks[task[u].key] = u /\ u # NoSid
      BY <1>1, <1>5, <2>2, <2>4, Allocated DEF TaskInv
    <3>2. task[u].key \in Keys
      BY <1>1, <2>4, Allocated DEF GoesAhead, Running
    <3> QED BY <1>3, <1>4, <3>1, <3>2
  <2>5. promoted \subseteq {u \in Sids : chat'[u] # "off" /\ task[u].keep}
    BY <1>1, <1>5 DEF TaskInv
  <2>6. \A u \in Sids : Running(u) => u \notin disposing \cup claimedPins' \cup hits'
    BY <1>1, <1>2, <2>2 DEF TaskInv
  <2>7. disposing \subseteq {u \in Sids : chat'[u] = "off"}
    BY <1>1, <1>4, <1>5 DEF TaskInv
  <2>8. hits \subseteq Sids /\ claimedPins \subseteq Sids
    BY <1>1, AllocatedSids DEF Types
  <2>9. \A u \in hits' : chat'[u] # "off" /\ u \in ready
    BY <1>1, <1>2, <1>4, <1>5, <2>8 DEF TaskInv
  <2>10. \A u \in claimedPins' : chat'[u] # "off"
    BY <1>1, <1>2, <1>5, <2>8 DEF TaskInv
  <2> QED BY <1>1, <1>2, <2>1, <2>3, <2>4, <2>5, <2>6, <2>7, <2>9, <2>10 DEF TaskInv
<1>9. PinsInv'
  <2>1. ASSUME NEW x \in Keys PROVE Owners(x)' = Owners(x)
    <3>1. Owners(x)' = {u \in (claimedPins' \cup disposing \cup {slots'[x]}) \ {NoSid} : task[u].key = x}
      BY <1>2 DEF Owners
    <3>2. CASE x = k
      <4>1. (claimedPins' \cup disposing \cup {slots'[x]}) \ {NoSid} = (claimedPins \cup disposing \cup {slots[x]}) \ {NoSid}
        BY <1>2, <1>3, <1>4, <3>2 DEF sid
      <4> QED BY <3>1, <4>1 DEF Owners
    <3>3. CASE x # k
      <4>1. (claimedPins' \cup disposing \cup {slots'[x]}) \ {NoSid} = ((claimedPins \cup disposing \cup {slots[x]}) \ {NoSid}) \cup {sid}
        BY <1>2, <1>3, <1>4, <3>3
      <4> QED BY <1>4, <3>1, <3>3, <4>1 DEF Owners
    <3> QED BY <3>2, <3>3
  <2> QED BY <1>1, <1>2, <2>1 DEF PinsInv
<1>10. YieldInv'
  <2>1. \A u \in Sids : Speculative(u)' => Speculative(u)
    BY <1>2, <1>5 DEF Speculative, Running
  <2> QED BY <1>1, <1>2, <1>3, <2>1 DEF YieldInv
<1> QED BY <1>3, <1>6, <1>7, <1>8, <1>9, <1>10 DEF PoolInv

\* Claiming a session that is being warmed keeps the invariant: it leaves the table.
LEMMA ClaimWarmingKeeps ==
  ASSUME PoolInv, NEW k \in Keys, Claim(k), slots[k] = NoSid, tasks[k] # NoSid
  PROVE  PoolInv'
<1>1. Types /\ OnceInv /\ HeldInv /\ TaskInv /\ PinsInv /\ YieldInv
  BY DEF PoolInv
<1> DEFINE sid == tasks[k]
<1>2. /\ promoted' = promoted \cup {sid} /\ sessionTasks' = sessionTasks \cup {sid}
      /\ chat' = [chat EXCEPT ![sid] = "claimed"]
      /\ UNCHANGED <<claimedPins, hits, task, allocated, pins, disposing, closed, ready>>
  BY DEF Claim
<1>3. /\ slots' \in [Keys -> 0..allocated] /\ slots'[k] = NoSid
      /\ tasks' \in [Keys -> 0..allocated] /\ tasks'[k] = NoSid
      /\ \A x \in Keys : x # k => slots'[x] = slots[x] /\ tasks'[x] = tasks[x]
      /\ pending' \in Queue /\ OnceInv' /\ BoundInv' /\ SyncInv'
      /\ fgCount' = fgCount /\ idle' = idle /\ pump' = pump
      /\ UNCHANGED <<desired, rev, syncing, syncs, newest>>
  BY ClaimFacts
<1>4. /\ sid \in Sids /\ sid \in 1..allocated /\ task[sid].key = k /\ task[sid].keep
      /\ chat[sid] = "off" /\ sid \notin disposing \cup claimedPins \cup hits /\ sid # NoSid
  BY <1>1, TableSids DEF HeldInv
<1>5. \A x \in Keys : slots'[x] = slots[x]
  BY <1>3
<1> HIDE DEF sid
<1>6. /\ chat' \in [Sids -> {"off", "claimed", "begun", "waiting", "served"}] /\ chat'[sid] = "claimed"
      /\ \A u \in Sids : u # sid => chat'[u] = chat[u]
  BY <1>1, <1>2, <1>4 DEF Types
<1>7. Types'
  <2>0. ~(sid > allocated)
    BY <1>1, <1>4, Allocated
  <2>1. \A u \in Sids : u > allocated => task[u] = NoTask /\ chat'[u] = "off"
    BY <1>1, <1>6, <2>0, Allocated
  <2>2. \A u \in Sids : u <= allocated => task[u].pc # "none" /\ task[u].key \in Keys
    BY <1>1, Allocated
  <2>3. promoted' \subseteq 1..allocated /\ sessionTasks' \subseteq 1..allocated /\ pending' \in Seq(Entry)
    BY <1>1, <1>2, <1>3, <1>4 DEF Types, Queue
  <2> QED BY <1>1, <1>2, <1>3, <1>6, <2>1, <2>2, <2>3 DEF Types
<1>8. HeldInv'
  <2>1. ASSUME NEW x \in Keys, slots'[x] # NoSid
        PROVE  /\ task[slots'[x]].key = x /\ task[slots'[x]].pc = "done" /\ task[slots'[x]].fp = rev.fp
               /\ slots'[x] \in ready /\ chat'[slots'[x]] = "off" /\ ~closed
               /\ slots'[x] \notin disposing \cup claimedPins \cup hits
    <3>1. x # k /\ slots'[x] = slots[x] /\ slots[x] \in Sids
      BY <1>1, <1>3, <2>1, TableSids
    <3>2. slots[x] # sid
      BY <1>1, <1>4, <2>1, <3>1 DEF HeldInv
    <3> QED BY <1>1, <1>6, <2>1, <3>1, <3>2 DEF HeldInv
  <2>2. ASSUME NEW x \in Keys, tasks'[x] # NoSid
        PROVE  /\ task[tasks'[x]].key = x /\ task[tasks'[x]].fp = rev.fp /\ x \in desired
               /\ task[tasks'[x]].keep /\ chat'[tasks'[x]] = "off" /\ ~closed
               /\ tasks'[x] \notin disposing \cup claimedPins \cup hits
    <3>1. x # k /\ tasks'[x] = tasks[x] /\ tasks[x] \in Sids
      BY <1>1, <1>3, <2>2, TableSids
    <3>2. tasks[x] # sid
      BY <1>1, <1>4, <2>2, <3>1 DEF HeldInv
    <3> QED BY <1>1, <1>6, <2>2, <3>1, <3>2 DEF HeldInv
  <2> QED BY <1>2, <1>3, <2>1, <2>2 DEF HeldInv
<1>9. TaskInv'
  <2>1. \A u \in Sids : (Running(u)' <=> Running(u)) /\ (GoesAhead(u)' <=> GoesAhead(u))
    BY <1>2 DEF Running, GoesAhead
  <2>2. \A u \in Sids : GoesAhead(u) /\ task[u].keep /\ chat'[u] # "off" => u \in promoted'
    BY <1>1, <1>2, <1>6 DEF TaskInv
  <2>3. ASSUME NEW u \in Sids, GoesAhead(u), task[u].keep, chat'[u] = "off" PROVE tasks'[task[u].key] = u
    <3>1. tasks[task[u].key] = u /\ u # sid
      BY <1>1, <1>6, <2>3 DEF TaskInv
    <3>2. task[u].key \in Keys /\ task[u].key # k
      BY <1>1, <2>3, <3>1, Allocated DEF GoesAhead, Running, sid
    <3> QED BY <1>3, <3>1, <3>2
  <2>4. promoted' \subseteq {u \in Sids : chat'[u] # "off" /\ task[u].keep}
    BY <1>1, <1>2, <1>4, <1>6 DEF TaskInv
  <2>5. disposing \subseteq {u \in Sids : chat'[u] = "off"}
    BY <1>1, <1>4, <1>6 DEF TaskInv
  <2>6. hits \subseteq Sids /\ claimedPins \subseteq Sids
    BY <1>1, AllocatedSids DEF Types
  <2>7. \A u \in hits : chat'[u] # "off" /\ u \in ready
    BY <1>1, <1>6, <2>6 DEF TaskInv
  <2>8. \A u \in claimedPins : chat'[u] # "off"
    BY <1>1, <1>6, <2>6 DEF TaskInv
  <2>9. \A u \in Sids : Running(u) /\ ~closed => u \in sessionTasks'
    BY <1>1, <1>2 DEF TaskInv
  <2> QED BY <1>1, <1>2, <2>1, <2>2, <2>3, <2>4, <2>5, <2>7, <2>8, <2>9 DEF TaskInv
<1>10. PinsInv'
  <2>1. ASSUME NEW x \in Keys PROVE Owners(x)' = Owners(x)
    BY <1>2, <1>5 DEF Owners
  <2> QED BY <1>1, <1>2, <2>1 DEF PinsInv
<1>11. YieldInv'
  <2>1. \A u \in Sids : Speculative(u)' => Speculative(u)
    BY <1>2, <1>6 DEF Speculative, Running
  <2> QED BY <1>1, <1>2, <1>3, <2>1 DEF YieldInv
<1> QED BY <1>3, <1>7, <1>8, <1>9, <1>10, <1>11 DEF PoolInv

\* A preparation about to begin.
LEMMA NewTaskFields ==
  ASSUME NEW k \in Keys, NEW fp \in Fingerprints \cup {NoConfig}, NEW keep \in BOOLEAN
  PROVE  /\ NewTask(k, fp, keep) \in Preparation
         /\ NewTask(k, fp, keep).key = k /\ NewTask(k, fp, keep).fp = fp /\ NewTask(k, fp, keep).keep = keep
         /\ NewTask(k, fp, keep).pc = "new" /\ ~NewTask(k, fp, keep).cancel /\ ~NewTask(k, fp, keep).woken
<1>1. NoTask \in Preparation /\ ~NoTask.cancel /\ ~NoTask.woken
  BY DEF NoTask, Preparation
<1>2. NewTask(k, fp, keep) \in Preparation
  BY <1>1 DEF NewTask, Preparation
<1>3. /\ NewTask(k, fp, keep).key = k /\ NewTask(k, fp, keep).fp = fp /\ NewTask(k, fp, keep).keep = keep
      /\ NewTask(k, fp, keep).pc = "new"
      /\ NewTask(k, fp, keep).cancel = NoTask.cancel /\ NewTask(k, fp, keep).woken = NoTask.woken
  BY <1>1 DEF NewTask, Preparation
<1> QED BY <1>1, <1>2, <1>3

\* Claiming a key for which there is nothing begins a preparation in the foreground.
LEMMA ClaimFreshKeeps ==
  ASSUME PoolInv, NEW k \in Keys, Claim(k), slots[k] = NoSid, tasks[k] = NoSid
  PROVE  PoolInv'
<1>1. Types /\ OnceInv /\ HeldInv /\ TaskInv /\ PinsInv /\ YieldInv
  BY DEF PoolInv
<1> DEFINE sid == allocated + 1
           new == NewTask(k, rev.fp, FALSE)
<1>2. /\ ~closed /\ sid \in Sids
      /\ task' = [task EXCEPT ![sid] = new] /\ sessionTasks' = sessionTasks \cup {sid}
      /\ allocated' = sid /\ chat' = [chat EXCEPT ![sid] = "claimed"]
      /\ UNCHANGED <<claimedPins, hits, promoted, pins, disposing, closed, ready>>
  BY DEF Claim
<1>3. /\ slots' \in [Keys -> 0..allocated] /\ slots'[k] = NoSid
      /\ tasks' \in [Keys -> 0..allocated] /\ tasks'[k] = NoSid
      /\ \A x \in Keys : x # k => slots'[x] = slots[x] /\ tasks'[x] = tasks[x]
      /\ pending' \in Queue /\ OnceInv' /\ BoundInv' /\ SyncInv'
      /\ fgCount' = fgCount /\ idle' = idle /\ pump' = pump
      /\ UNCHANGED <<desired, rev, syncing, syncs, newest>>
  BY ClaimFacts
<1>4. \A x \in Keys : slots'[x] = slots[x] /\ tasks'[x] = tasks[x]
  BY <1>3
<1>5. /\ allocated \in Nat /\ sid > allocated /\ sid \notin 1..allocated /\ sid # NoSid /\ sid \in 0..MaxSessions
      /\ 0..allocated \subseteq 0..sid /\ 1..allocated \subseteq 1..sid /\ sid \in 1..sid
      /\ \A u \in Sids : (u > sid => u > allocated) /\ (u <= sid /\ u # sid => u <= allocated)
  BY <1>1, <1>2, PoolAssumption DEF Types, Sids, NoSid
<1>6. /\ new \in Preparation /\ new.key = k /\ ~new.keep /\ new.pc = "new"
  <2>1. rev.fp \in Fingerprints \cup {NoConfig} /\ FALSE \in BOOLEAN
    BY <1>1 DEF Types
  <2> HIDE DEF PoolInv, Claim
  <2>2. new.key = k /\ new.keep = FALSE /\ new.pc = "new" /\ new \in Preparation
    BY <2>1, NewTaskFields, Zenon
  <2> QED BY <2>2
<1> HIDE DEF new, sid
<1>7. /\ task' \in [Sids -> Preparation] /\ task'[sid] = new /\ \A u \in Sids : u # sid => task'[u] = task[u]
  BY <1>1, <1>2, <1>6 DEF Types
<1>8. /\ chat' \in [Sids -> {"off", "claimed", "begun", "waiting", "served"}] /\ chat'[sid] = "claimed"
      /\ \A u \in Sids : u # sid => chat'[u] = chat[u]
  BY <1>1, <1>2 DEF Types
<1>9. Types'
  <2>1. \A u \in Sids : u > sid => task'[u] = NoTask /\ chat'[u] = "off"
    BY <1>1, <1>5, <1>7, <1>8, Allocated
  <2>2. ASSUME NEW u \in Sids, u <= sid PROVE task'[u].pc # "none" /\ task'[u].key \in Keys
    <3>1. CASE u = sid
      BY <1>6, <1>7, <3>1
    <3>2. CASE u # sid
      BY <1>1, <1>5, <1>7, <2>2, <3>2, Allocated
    <3> QED BY <3>1, <3>2
  <2>3. slots' \in [Keys -> 0..sid] /\ tasks' \in [Keys -> 0..sid]
    BY <1>3, <1>5
  <2>4. /\ sessionTasks' \subseteq 1..sid /\ promoted \subseteq 1..sid /\ claimedPins \subseteq 1..sid
        /\ disposing \subseteq 1..sid /\ ready \subseteq 1..sid /\ hits \subseteq 1..sid
    BY <1>1, <1>2, <1>5 DEF Types
  <2>5. pending' \in Seq(Entry)
    BY <1>3 DEF Queue
  <2>6. /\ desired' \subseteq Keys /\ rev' \in [seq : Nat, fp : Fingerprints \cup {NoConfig}]
        /\ newest' \in [seq : Nat, fp : Fingerprints \cup {NoConfig}] /\ syncs' \in 0..MaxSyncs
        /\ syncing' \subseteq [seq : Nat, fp : Fingerprints, desired : SUBSET Keys]
        /\ pins' \in [Keys -> Nat] /\ fgCount' \in Nat /\ idle' \in BOOLEAN /\ pump' \in BOOLEAN
        /\ closed' \in BOOLEAN
    BY <1>1, <1>2, <1>3 DEF Types
  <2> QED BY <1>2, <1>5, <1>7, <1>8, <2>1, <2>2, <2>3, <2>4, <2>5, <2>6 DEF Types
<1>10. HeldInv'
  <2>1. ASSUME NEW x \in Keys, slots[x] # NoSid
        PROVE  /\ task'[slots[x]].key = x /\ task'[slots[x]].pc = "done" /\ task'[slots[x]].fp = rev.fp
               /\ slots[x] \in ready /\ chat'[slots[x]] = "off" /\ ~closed
               /\ slots[x] \notin disposing \cup claimedPins \cup hits
    <3>1. slots[x] \in Sids /\ slots[x] # sid
      BY <1>1, <1>5, <2>1, TableSids
    <3> QED BY <1>1, <1>7, <1>8, <2>1, <3>1 DEF HeldInv
  <2>2. ASSUME NEW x \in Keys, tasks[x] # NoSid
        PROVE  /\ task'[tasks[x]].key = x /\ task'[tasks[x]].fp = rev.fp /\ x \in desired
               /\ task'[tasks[x]].keep /\ chat'[tasks[x]] = "off" /\ ~closed
               /\ tasks[x] \notin disposing \cup claimedPins \cup hits
    <3>1. tasks[x] \in Sids /\ tasks[x] # sid
      BY <1>1, <1>5, <2>2, TableSids
    <3> QED BY <1>1, <1>7, <1>8, <2>2, <3>1 DEF HeldInv
  <2> QED BY <1>2, <1>3, <1>4, <2>1, <2>2 DEF HeldInv
<1>11. sid \notin promoted /\ sid \notin disposing \cup claimedPins \cup hits
  BY <1>1, <1>5 DEF Types
<1>12. TaskInv'
  <2>1. \A u \in Sids : u # sid => (Running(u)' <=> Running(u)) /\ (GoesAhead(u)' <=> GoesAhead(u))
    BY <1>7 DEF Running, GoesAhead
  <2>2. \A u \in Sids : Running(u)' /\ ~closed => u \in sessionTasks'
    BY <1>1, <1>2, <2>1 DEF TaskInv
  <2>3. \A u \in Sids : GoesAhead(u)' /\ task'[u].keep /\ chat'[u] # "off" => u \in promoted
    BY <1>1, <1>6, <1>7, <1>8, <2>1 DEF TaskInv
  <2>4. ASSUME NEW u \in Sids, GoesAhead(u)', task'[u].keep, chat'[u] = "off" PROVE tasks'[task'[u].key] = u
    <3>1. tasks[task[u].key] = u /\ u # sid
      BY <1>1, <1>7, <1>8, <2>1, <2>4 DEF TaskInv
    <3>2. task[u].key \in Keys
      BY <1>1, <2>1, <2>4, <3>1, Allocated DEF GoesAhead, Running
    <3> QED BY <1>4, <1>7, <3>1, <3>2
  <2>5. promoted \subseteq {u \in Sids : chat'[u] # "off" /\ task'[u].keep}
    BY <1>1, <1>7, <1>8, <1>11 DEF TaskInv
  <2>6. disposing \subseteq {u \in Sids : chat'[u] = "off"}
    BY <1>1, <1>8, <1>11 DEF TaskInv
  <2>7. hits \subseteq Sids /\ claimedPins \subseteq Sids
    BY <1>1, AllocatedSids DEF Types
  <2>8. \A u \in hits : chat'[u] # "off" /\ u \in ready
    BY <1>1, <1>8, <2>7 DEF TaskInv
  <2>9. \A u \in claimedPins : chat'[u] # "off"
    BY <1>1, <1>8, <2>7 DEF TaskInv
  <2>10. \A u \in Sids : Running(u)' => u \notin disposing \cup claimedPins \cup hits
    BY <1>1, <1>11, <2>1 DEF TaskInv
  <2>11. \A u \in Sids : task'[u].pc # "stale" /\ (task'[u].pc = "done" => ~task'[u].cancel)
    BY <1>1, <1>6, <1>7 DEF TaskInv
  <2>12. \A u \in Sids : GoesAhead(u)' => ~closed
    BY <1>2
  <2> QED BY <1>2, <2>2, <2>3, <2>4, <2>5, <2>6, <2>8, <2>9, <2>10, <2>11, <2>12 DEF TaskInv
<1>13. PinsInv'
  <2>1. ASSUME NEW x \in Keys PROVE Owners(x)' = Owners(x)
    <3>1. (claimedPins \cup disposing \cup {slots[x]}) \ {NoSid} \subseteq Sids \ {sid}
      BY <1>1, <1>5, Pinned
    <3> QED BY <1>2, <1>4, <1>7, <3>1 DEF Owners
  <2> QED BY <1>1, <1>2, <2>1 DEF PinsInv
<1>14. YieldInv'
  <2>1. ASSUME NEW u \in Sids, Speculative(u)' PROVE Speculative(u) /\ task'[u] = task[u]
    <3>1. u # sid
      BY <1>6, <1>7, <2>1 DEF Speculative
    <3> QED BY <1>7, <1>8, <2>1, <3>1 DEF Speculative, Running
  <2> QED BY <1>1, <1>2, <1>3, <2>1 DEF YieldInv
<1> QED BY <1>3, <1>9, <1>10, <1>12, <1>13, <1>14 DEF PoolInv

\* A claim keeps the invariant.
LEMMA ClaimKeeps ==
  ASSUME PoolInv, NEW k \in Keys, Claim(k)
  PROVE  PoolInv'
BY ClaimReadyKeeps, ClaimWarmingKeeps, ClaimFreshKeeps

\* Closing lets go of the claims' pins and leaves the slots' to their disposal.
LEMMA CloseKeeps ==
  ASSUME PoolInv, Close
  PROVE  PoolInv'
<1>1. Types /\ OnceInv /\ HeldInv /\ TaskInv /\ PinsInv /\ SyncInv /\ YieldInv /\ BoundInv
  BY DEF PoolInv
<1>2. /\ ~closed /\ closed' = TRUE /\ idle' = TRUE /\ pump' = FALSE
      /\ task' = Cancel(Awake(task), {tasks[k] : k \in WarmingKeys} \cup sessionTasks)
      /\ tasks' = [k \in Keys |-> NoSid] /\ slots' = [k \in Keys |-> NoSid]
      /\ pending' = <<>> /\ desired' = {} /\ sessionTasks' = {} /\ promoted' = {}
      /\ disposing' = disposing \cup {slots[k] : k \in ReadyKeys} /\ claimedPins' = {}
      /\ pins' = [k \in Keys |-> pins[k] - Cardinality({s \in claimedPins : task[s].key = k})]
      /\ chat' = chat /\ hits' = hits
      /\ UNCHANGED <<rev, syncing, syncs, newest, allocated, fgCount, ready>>
  BY DEF Close, handed
<1>3. OnwardTo(task')
  <2>1. OnwardTo(Awake(task))
    BY StayOnward, AwakeOnward
  <2>2. \A s \in Sids : Running(s) => Awake(task)[s].pc # "done"
    BY <1>1, AwakeOf DEF Types, Running
  <2> QED BY <1>2, <2>1, <2>2, CancelOnward
<1>4. \A s \in Sids : ~GoesAhead(s)'
  <2> SUFFICES ASSUME NEW s \in Sids, GoesAhead(s)' PROVE FALSE
    OBVIOUS
  <2>1. Running(s) /\ task'[s].pc \notin {"none", "done"} /\ ~task'[s].cancel
    BY <1>3 DEF OnwardTo, GoesAhead, Running
  <2>2. s \in sessionTasks
    BY <1>1, <1>2, <2>1 DEF TaskInv
  <2>3. Awake(task) \in [Sids -> Preparation]
    BY <1>1, AwakeOf DEF Types
  <2>4. task'[s].cancel = TRUE
    <3> DEFINE S == {tasks[k] : k \in WarmingKeys} \cup sessionTasks
    <3>1. s \in S /\ task' = Cancel(Awake(task), S)
      BY <1>2, <2>2
    <3> HIDE DEF S
    <3>2. CancelledIn(Cancel(Awake(task), S), Awake(task), S)
      BY <2>3, CancelOf
    <3>3. CancelledIn(task', Awake(task), S)
      BY <3>1, <3>2
    <3> QED BY <2>1, <3>1, <3>3 DEF CancelledIn
  <2> QED BY <2>1, <2>4
<1>5. /\ task' \in [Sids -> Preparation]
      /\ \A s \in Sids :
           /\ task'[s].key = task[s].key /\ task'[s].fp = task[s].fp /\ task'[s].keep = task[s].keep
           /\ task[s].pc = "none" => task'[s] = task[s]
           /\ task[s].pc # "none" => task'[s].pc # "none"
           /\ task'[s].pc # "stale" /\ (task'[s].pc = "done" => ~task'[s].cancel)
           /\ Running(s)' => Running(s)
  BY <1>3 DEF OnwardTo, Running
<1>6. disposing' \subseteq 1..allocated /\ disposing' \subseteq {s \in Sids : chat[s] = "off"}
  <2>1. \A k \in ReadyKeys : slots[k] \in 1..allocated /\ slots[k] \in Sids /\ chat[slots[k]] = "off"
    BY <1>1, TableSids DEF ReadyKeys, HeldInv
  <2>2. disposing \subseteq 1..allocated /\ disposing \subseteq {s \in Sids : chat[s] = "off"}
    BY <1>1 DEF Types, TaskInv
  <2> QED BY <1>2, <2>1, <2>2
<1>7. \A k \in Keys : /\ pins'[k] = Cardinality(Owners(k)') /\ pins'[k] \in Nat
  <2> SUFFICES ASSUME NEW k \in Keys PROVE pins'[k] = Cardinality(Owners(k)') /\ pins'[k] \in Nat
    OBVIOUS
  <2> DEFINE claimed == {s \in claimedPins : task[s].key = k}
  <2>1. claimed \subseteq Owners(k)
    <3>1. \A s \in claimedPins : s # NoSid
      BY <1>1, AllocatedSids DEF Types
    <3> QED BY <3>1 DEF Owners
  <2>2. Owners(k)' = Owners(k) \ claimed
    <3>1. Owners(k)' = {s \in disposing' : task[s].key = k}
      <4>1. Owners(k)' = {s \in (claimedPins' \cup disposing' \cup {slots'[k]}) \ {NoSid} : task'[s].key = k}
        BY DEF Owners
      <4>2. (claimedPins' \cup disposing' \cup {slots'[k]}) \ {NoSid} = disposing'
        BY <1>1, <1>2, <1>6, AllocatedSids
      <4> QED BY <1>5, <1>6, <4>1, <4>2
    <3>2. ASSUME NEW s, s \in disposing', task[s].key = k PROVE s \in Owners(k) \ claimed
      <4>1. s # NoSid /\ chat[s] = "off"
        BY <1>1, <1>6, <3>2, AllocatedSids
      <4>2. s \notin claimedPins
        BY <1>1, <4>1 DEF TaskInv
      <4>3. s \in disposing \/ s = slots[k]
        BY <1>1, <1>2, <3>2 DEF ReadyKeys, HeldInv
      <4> QED BY <3>2, <4>1, <4>2, <4>3 DEF Owners
    <3>3. ASSUME NEW s, s \in Owners(k), s \notin claimed PROVE s \in disposing' /\ task[s].key = k
      <4>1. task[s].key = k /\ s # NoSid /\ (s \in disposing \/ s = slots[k])
        BY <3>3 DEF Owners
      <4>2. s = slots[k] => k \in ReadyKeys
        BY <4>1 DEF ReadyKeys
      <4> QED BY <1>2, <4>1, <4>2
    <3> QED BY <3>1, <3>2, <3>3
  <2> HIDE DEF claimed
  <2>3. IsFiniteSet(Owners(k))
    BY <1>1, OwnersFinite
  <2>4. Owners(k) \cap claimed = claimed
    BY <2>1
  <2>5. Cardinality(Owners(k) \ claimed) = Cardinality(Owners(k)) - Cardinality(claimed) /\ IsFiniteSet(Owners(k) \ claimed)
    BY <2>3, <2>4, FS_Difference
  <2>6. Cardinality(Owners(k) \ claimed) \in Nat
    BY <2>5, FS_CardinalityType
  <2>7. pins'[k] = pins[k] - Cardinality(claimed)
    BY <1>2 DEF claimed
  <2> QED BY <1>1, <2>2, <2>5, <2>6, <2>7 DEF PinsInv
<1>8. PinsInv' /\ pins' \in [Keys -> Nat]
  BY <1>2, <1>7 DEF PinsInv
<1>9. Types'
  <2>1. \A u \in Sids : u > allocated => task'[u] = NoTask /\ chat'[u] = "off"
    BY <1>1, <1>2, <1>5, Allocated
  <2>2. \A u \in Sids : u <= allocated => task'[u].pc # "none" /\ task'[u].key \in Keys
    BY <1>1, <1>5, Allocated
  <2>3. pending' \in Seq(Entry) /\ 0 \in 0..allocated
    BY <1>1, <1>2, PoolAssumption DEF Types
  <2>4. slots' \in [Keys -> 0..allocated] /\ tasks' \in [Keys -> 0..allocated]
    BY <1>2, <2>3 DEF NoSid
  <2> QED BY <1>1, <1>2, <1>5, <1>6, <1>8, <2>1, <2>2, <2>3, <2>4 DEF Types
<1>10. OnceInv' /\ HeldInv'
  BY <1>2 DEF OnceInv, HeldInv
<1>11. TaskInv'
  <2>1. ASSUME NEW s \in Sids, Running(s)' PROVE s \notin disposing' \cup claimedPins' \cup hits'
    <3>1. Running(s) /\ s \notin disposing \cup hits
      BY <1>1, <1>5, <2>1 DEF TaskInv
    <3>2. \A k \in Keys : slots[k] # s
      BY <1>1, <3>1, Allocated DEF HeldInv, Running
    <3> QED BY <1>2, <3>1, <3>2 DEF ReadyKeys
  <2>2. \A s \in hits' : chat'[s] # "off" /\ s \in ready'
    BY <1>1, <1>2 DEF TaskInv
  <2> QED BY <1>2, <1>4, <1>5, <1>6, <2>1, <2>2 DEF TaskInv
<1>12. SyncInv'
  BY <1>1, <1>2 DEF SyncInv
<1>13. YieldInv'
  <2>1. \A s \in Sids : ~Speculative(s)'
    BY <1>4 DEF Speculative, GoesAhead
  <2> QED BY <1>2, <2>1 DEF YieldInv
<1>14. BoundInv'
  BY <1>1, <1>2, BoundKept
<1> QED BY <1>8, <1>9, <1>10, <1>11, <1>12, <1>13, <1>14 DEF PoolInv

\* The tables after a walk of the pump hold no more than the reserve.
LEMMA RefillBound ==
  ASSUME BoundInv, NEW cfg, NEW want, NEW sl, NEW tk, NEW walk, Walked(cfg, want, sl, tk, walk),
         \A k \in Keys : sl[k] # NoSid => slots[k] # NoSid,
         \A k \in Keys : tk[k] # NoSid => tasks[k] # NoSid,
         slots' = sl,
         \A k \in Keys : \/ tasks'[k] = tk[k]
                         \/ \E i \in DOMAIN walk.started : walk.started[i].key = k
  PROVE  BoundInv'
<1> DEFINE started == walk.started
           K == {started[i].key : i \in 1..Len(started)}
<1>1. /\ Len(started) \in Nat /\ DOMAIN started = 1..Len(started)
      /\ \/ Len(started) = 0
         \/ Len(started) <= MaxReady - Cardinality(Holding(sl)) - Cardinality(Holding(tk))
  BY DEF Walked, Queue
<1> HIDE DEF started
<1>2. CASE Len(started) = 0
  <2>1. \A k \in Keys : tasks'[k] # NoSid => tasks[k] # NoSid
    BY <1>1, <1>2 DEF started
  <2> QED BY <2>1, BoundKept
<1>3. CASE Len(started) # 0
  <2>1. IsFiniteSet(K) /\ Cardinality(K) <= Len(started) /\ Cardinality(K) \in Nat
    <3>1. [i \in 1..Len(started) |-> started[i].key] \in Surjection(1..Len(started), K)
      BY DEF Surjection
    <3>2. IsFiniteSet(1..Len(started)) /\ Cardinality(1..Len(started)) = Len(started)
      BY <1>1, <1>3, FS_Interval
    <3> HIDE DEF K
    <3>3. IsFiniteSet(K) /\ Cardinality(K) <= Len(started)
      BY <3>1, <3>2, FS_Surjection
    <3> QED BY <3>3, FS_CardinalityType
  <2>2. Holding(tasks') \in SUBSET (Holding(tk) \cup K)
    BY <1>1 DEF Holding, started
  <2> HIDE DEF K
  <2>3. /\ IsFiniteSet(Holding(tk)) /\ Cardinality(Holding(tk)) \in Nat /\ Cardinality(Holding(sl)) \in Nat
        /\ Cardinality(Holding(tasks')) \in Nat
    BY HoldingFacts
  <2>4. /\ IsFiniteSet(Holding(tk) \cup K)
        /\ Cardinality(Holding(tk) \cup K) = Cardinality(Holding(tk)) + Cardinality(K) - Cardinality(Holding(tk) \cap K)
    BY <2>1, <2>3, FS_Union
  <2>5. Cardinality(Holding(tk) \cap K) \in Nat /\ Cardinality(Holding(tk) \cup K) \in Nat
    BY <2>1, <2>4, FS_Intersection, FS_CardinalityType
  <2>6. Cardinality(Holding(tasks')) <= Cardinality(Holding(tk) \cup K)
    BY <2>2, <2>4, FS_Subset
  <2>7. ReadyKeys' = Holding(sl) /\ WarmingKeys' = Holding(tasks')
    BY DEF ReadyKeys, WarmingKeys, Holding
  <2>8. MaxReady \in Nat
    BY PoolAssumption
  <2>9. Cardinality(Holding(sl)) + Cardinality(Holding(tasks')) <= MaxReady
    BY <1>1, <1>3, <2>1, <2>3, <2>4, <2>5, <2>6, <2>8
  <2> QED BY <2>7, <2>9 DEF BoundInv
<1> QED BY <1>2, <1>3

\* The sessions a step begins.
Begun(s) == s > allocated /\ s <= allocated'

\* There are session ids for what is started, and the pump may start something at all.
Fits(started) == allocated + Len(started) <= MaxSessions
MayStart(started) == started = <<>> \/ (~closed /\ fgCount = 0)

\* What cancelling some preparations and starting others does to each session.
LEMMA RefillTasks ==
  ASSUME Types, NEW started \in Queue, NEW tk \in [Keys -> 0..allocated], NEW S,
         Fits(started),
         StartTasks(started, tk, Cancel(task, S))
  PROVE  /\ allocated <= allocated' /\ allocated' \in 0..MaxSessions
         /\ tasks' \in [Keys -> 0..allocated'] /\ sessionTasks \subseteq sessionTasks'
         /\ sessionTasks' \subseteq 1..allocated' /\ task' \in [Sids -> Preparation]
         /\ \A i \in DOMAIN started :
              /\ allocated + i \in Sids /\ Begun(allocated + i) /\ started[i].key \in Keys
              /\ task'[allocated + i].key = started[i].key /\ tasks'[started[i].key] = allocated + i
         /\ \A s \in Sids : Begun(s) => \E i \in DOMAIN started :
              /\ task'[s].key = started[i].key /\ task'[s].fp = started[i].fp /\ task'[s].keep
              /\ task'[s].pc = "new" /\ ~task'[s].cancel /\ ~task'[s].woken
              /\ tasks'[task'[s].key] = s /\ s \in sessionTasks'
         /\ \A s \in Sids : ~Begun(s) =>
              /\ (s > allocated' => s > allocated) /\ (s <= allocated' => s <= allocated)
              /\ task'[s].key = task[s].key /\ task'[s].fp = task[s].fp /\ task'[s].keep = task[s].keep
              /\ task'[s].pc = task[s].pc /\ task'[s].woken = task[s].woken
              /\ (~Running(s) => task'[s] = task[s])
              /\ (Running(s)' <=> Running(s))
              /\ (GoesAhead(s)' => GoesAhead(s) /\ s \notin S)
         /\ \A k \in Keys : \/ tasks'[k] = tk[k] /\ \A i \in DOMAIN started : started[i].key # k
                            \/ \E i \in DOMAIN started : started[i].key = k
<1> DEFINE t == Cancel(task, S)
<1>1. /\ allocated \in 0..MaxSessions /\ sessionTasks \subseteq 1..allocated /\ task \in [Sids -> Preparation]
      /\ MaxSessions \in Nat
  BY PoolAssumption DEF Types
<1>2. /\ t \in [Sids -> Preparation]
      /\ \A s \in Sids :
              /\ t[s].key = task[s].key /\ t[s].fp = task[s].fp /\ t[s].keep = task[s].keep /\ t[s].pc = task[s].pc
              /\ t[s].woken = task[s].woken
              /\ t[s].cancel = IF s \in S /\ Running(s) THEN TRUE ELSE task[s].cancel
              /\ ~Running(s) => t[s] = task[s]
  <2>1. CancelledIn(t, task, S)
    BY <1>1, CancelOf
  <2> HIDE DEF t
  <2> QED BY <2>1 DEF CancelledIn
<1> HIDE DEF t
<1>3. /\ Len(started) \in Nat /\ DOMAIN started = 1..Len(started)
      /\ allocated' = allocated + Len(started) /\ allocated' \in 0..MaxSessions
      /\ DOMAIN task' = Sids
      /\ \A s \in Sids : s <= allocated \/ s > allocated' => task'[s] = t[s]
      /\ \A i \in DOMAIN started :
           /\ allocated + i \in Sids /\ allocated + i <= allocated'
           /\ task'[allocated + i] = NewTask(started[i].key, started[i].fp, TRUE)
           /\ tasks'[started[i].key] = allocated + i
           /\ allocated + i \in sessionTasks'
      /\ \A s \in Sids : s > allocated /\ s <= allocated' => \E i \in DOMAIN started : s = allocated + i
      /\ \A k \in Keys : \/ tasks'[k] = tk[k] /\ \A i \in DOMAIN started : started[i].key # k
                         \/ \E i \in DOMAIN started : started[i].key = k
      /\ tasks' \in [Keys -> 0..allocated'] /\ sessionTasks \subseteq sessionTasks'
      /\ sessionTasks' \subseteq 1..allocated'
  BY <1>1, StartFacts DEF t, Fits
<1>4. ASSUME NEW i \in DOMAIN started
      PROVE  /\ Begun(allocated + i) /\ started[i].key \in Keys
             /\ task'[allocated + i] \in Preparation
             /\ task'[allocated + i].key = started[i].key /\ task'[allocated + i].fp = started[i].fp
             /\ task'[allocated + i].keep = TRUE /\ task'[allocated + i].pc = "new"
             /\ ~task'[allocated + i].cancel /\ ~task'[allocated + i].woken
  <2>1. started[i].key \in Keys /\ started[i].fp \in Fingerprints \cup {NoConfig}
    BY QueueKeys DEF Entry
  <2>2. i \in Nat \ {0} /\ allocated \in Nat
    BY <1>1, <1>3
  <2>3. Begun(allocated + i)
    BY <1>3, <2>2 DEF Begun
  <2>4. NewTask(started[i].key, started[i].fp, TRUE) = task'[allocated + i]
    BY <1>3
  <2>5. TRUE \in BOOLEAN
    OBVIOUS
  <2> DEFINE n == NewTask(started[i].key, started[i].fp, TRUE)
  <2>6. /\ n \in Preparation
        /\ n.key = started[i].key /\ n.fp = started[i].fp /\ n.keep = TRUE
        /\ n.pc = "new" /\ ~n.cancel /\ ~n.woken
    BY <2>1, <2>5, NewTaskFields, Zenon
  <2> HIDE DEF n
  <2> QED BY <2>1, <2>3, <2>4, <2>6 DEF n
<1>5. ASSUME NEW s \in Sids, Begun(s)
      PROVE  \E i \in DOMAIN started :
              /\ task'[s].key = started[i].key /\ task'[s].fp = started[i].fp /\ task'[s].keep
              /\ task'[s].pc = "new" /\ ~task'[s].cancel /\ ~task'[s].woken
              /\ tasks'[task'[s].key] = s /\ s \in sessionTasks' /\ task'[s] \in Preparation
  <2>1. PICK i \in DOMAIN started : s = allocated + i
    BY <1>3, <1>5 DEF Begun
  <2> QED BY <1>3, <1>4, <2>1
<1>6. ASSUME NEW s \in Sids, ~Begun(s)
      PROVE  /\ task'[s] = t[s] /\ (s > allocated' => s > allocated) /\ (s <= allocated' => s <= allocated)
  <2>1. s \in Int /\ allocated \in Int /\ allocated' \in Int /\ allocated <= allocated'
    BY <1>1, <1>3 DEF Sids
  <2> QED BY <1>3, <1>6, <2>1 DEF Begun
<1>7. ASSUME NEW s \in Sids, ~Begun(s)
      PROVE  /\ Running(s)' <=> Running(s)
             /\ GoesAhead(s)' => GoesAhead(s) /\ s \notin S
  <2>1. Running(s)' <=> Running(s)
    BY <1>2, <1>6, <1>7 DEF Running
  <2>2. ASSUME GoesAhead(s)' PROVE GoesAhead(s) /\ s \notin S
    <3>1. Running(s) /\ ~t[s].cancel /\ task[s].pc \notin Disposals
      BY <1>2, <1>6, <1>7, <2>1, <2>2 DEF GoesAhead
    <3>2. ~(s \in S)
      BY <1>2, <3>1
    <3>3. ~task[s].cancel
      BY <1>2, <3>1, <3>2
    <3> QED BY <3>1, <3>2, <3>3 DEF GoesAhead
  <2> QED BY <2>1, <2>2
<1>8. task' \in [Sids -> Preparation]
  <2>1. \A s \in Sids : task'[s] \in Preparation
    BY <1>2, <1>5, <1>6
  <2>2. task' = [s \in Sids |-> task'[s]]
    BY DEF StartTasks
  <2> QED BY <2>1, <2>2
<1>9. allocated <= allocated'
  BY <1>1, <1>3
<1>10. \A s \in Sids : ~Begun(s) =>
              /\ (s > allocated' => s > allocated) /\ (s <= allocated' => s <= allocated)
              /\ task'[s].key = task[s].key /\ task'[s].fp = task[s].fp /\ task'[s].keep = task[s].keep
              /\ task'[s].pc = task[s].pc /\ task'[s].woken = task[s].woken
              /\ (~Running(s) => task'[s] = task[s])
  <2> SUFFICES ASSUME NEW s \in Sids, ~Begun(s)
               PROVE  /\ (s > allocated' => s > allocated) /\ (s <= allocated' => s <= allocated)
                      /\ task'[s].key = task[s].key /\ task'[s].fp = task[s].fp /\ task'[s].keep = task[s].keep
                      /\ task'[s].pc = task[s].pc /\ task'[s].woken = task[s].woken
                      /\ (~Running(s) => task'[s] = task[s])
    OBVIOUS
  <2>1. task'[s] = t[s] /\ (s > allocated' => s > allocated) /\ (s <= allocated' => s <= allocated)
    BY <1>6
  <2> QED BY <1>2, <2>1
<1>11. \A i \in DOMAIN started :
         /\ allocated + i \in Sids /\ Begun(allocated + i) /\ started[i].key \in Keys
         /\ task'[allocated + i].key = started[i].key /\ tasks'[started[i].key] = allocated + i
  BY <1>3, <1>4
<1>12. \A s \in Sids : Begun(s) => \E i \in DOMAIN started :
         /\ task'[s].key = started[i].key /\ task'[s].fp = started[i].fp /\ task'[s].keep
         /\ task'[s].pc = "new" /\ ~task'[s].cancel /\ ~task'[s].woken
         /\ tasks'[task'[s].key] = s /\ s \in sessionTasks'
  BY <1>5
<1>13. \A s \in Sids : ~Begun(s) =>
         /\ (s > allocated' => s > allocated) /\ (s <= allocated' => s <= allocated)
         /\ task'[s].key = task[s].key /\ task'[s].fp = task[s].fp /\ task'[s].keep = task[s].keep
         /\ task'[s].pc = task[s].pc /\ task'[s].woken = task[s].woken
         /\ (~Running(s) => task'[s] = task[s])
         /\ (Running(s)' <=> Running(s))
         /\ (GoesAhead(s)' => GoesAhead(s) /\ s \notin S)
  BY <1>7, <1>10
<1>14. \A k \in Keys : \/ tasks'[k] = tk[k] /\ \A i \in DOMAIN started : started[i].key # k
                       \/ \E i \in DOMAIN started : started[i].key = k
  BY <1>3
<1> QED BY <1>3, <1>8, <1>9, <1>11, <1>12, <1>13, <1>14

\* Only slots and tasks of the given configuration stay, what drops out is disposed of or cancelled,
\* and the walk over the queue starts the tasks.
Refilled(want, cfg, sl, tk, walk) ==
  /\ Walked(cfg, want, sl, tk, walk) /\ MayStart(walk.started)
  /\ \A k \in Keys : sl[k] # NoSid => sl[k] = slots[k] /\ task[slots[k]].fp = cfg.fp
  /\ \A k \in Keys : tk[k] # NoSid => tk[k] = tasks[k] /\ task[tasks[k]].fp = cfg.fp /\ k \in want
  /\ slots' = sl /\ pending' = walk.left
  /\ StartTasks(walk.started, tk, Cancel(task, {tasks[k] : k \in {x \in WarmingKeys : tk[x] = NoSid}}))
  /\ disposing' = disposing \cup {slots[k] : k \in {x \in ReadyKeys : sl[x] = NoSid}}
  /\ desired' = want /\ rev' \in [seq : Nat, fp : Fingerprints \cup {NoConfig}] /\ rev'.fp = cfg.fp
  /\ newest' \in [seq : Nat, fp : Fingerprints \cup {NoConfig}] /\ syncs' \in 0..MaxSyncs
  /\ syncing' \subseteq [seq : Nat, fp : Fingerprints, desired : SUBSET Keys] /\ SyncInv'
  /\ UNCHANGED <<promoted, pinning, fgCount, idle, closed, handed, ready>> /\ pump' \in BOOLEAN

\* Reconciling and pumping keep the invariant: of the tables they keep a part, they cancel
\* and dispose of the rest, and they start tasks from a queue of what is held nowhere.
LEMMA RefillKeeps ==
  ASSUME PoolInv, NEW want \in SUBSET Keys, NEW cfg, NEW sl \in [Keys -> 0..allocated],
         NEW tk \in [Keys -> 0..allocated], NEW walk, Refilled(want, cfg, sl, tk, walk)
  PROVE  PoolInv'
<1> SUFFICES ASSUME Walked(cfg, want, sl, tk, walk),
                    MayStart(walk.started),
                    \A k \in Keys : sl[k] # NoSid => sl[k] = slots[k] /\ task[slots[k]].fp = cfg.fp,
                    \A k \in Keys : tk[k] # NoSid => tk[k] = tasks[k] /\ task[tasks[k]].fp = cfg.fp /\ k \in want,
                    slots' = sl,
                    pending' = walk.left,
                    StartTasks(walk.started, tk, Cancel(task, {tasks[k] : k \in {x \in WarmingKeys : tk[x] = NoSid}})),
                    disposing' = disposing \cup {slots[k] : k \in {x \in ReadyKeys : sl[x] = NoSid}},
                    desired' = want,
                    rev' \in [seq : Nat, fp : Fingerprints \cup {NoConfig}],
                    rev'.fp = cfg.fp,
                    newest' \in [seq : Nat, fp : Fingerprints \cup {NoConfig}],
                    syncs' \in 0..MaxSyncs,
                    syncing' \subseteq [seq : Nat, fp : Fingerprints, desired : SUBSET Keys],
                    SyncInv',
                    UNCHANGED <<promoted, pinning, fgCount, idle, closed, handed, ready>>,
                    pump' \in BOOLEAN
             PROVE  PoolInv'
  BY DEF Refilled
<1>1. Types /\ OnceInv /\ HeldInv /\ TaskInv /\ PinsInv /\ YieldInv /\ BoundInv
  BY DEF PoolInv
<1>2. /\ promoted' = promoted /\ claimedPins' = claimedPins /\ pins' = pins /\ fgCount' = fgCount /\ idle' = idle
      /\ closed' = closed /\ chat' = chat /\ hits' = hits /\ ready' = ready
  BY DEF pinning, handed
<1> DEFINE started == walk.started
           dropped == {tasks[k] : k \in {x \in WarmingKeys : tk[x] = NoSid}}
           shut == {slots[k] : k \in {x \in ReadyKeys : sl[x] = NoSid}}
<1>3. /\ started \in Queue /\ walk.left \in Queue /\ Unheld(started, sl, tk) /\ Unheld(walk.left, sl, tk)
      /\ \A n \in DOMAIN started : started[n].fp = cfg.fp /\ started[n].key \in want
      /\ \A n \in DOMAIN started : \A m \in DOMAIN walk.left : started[n].key # walk.left[m].key
      /\ Fits(started) /\ MayStart(started)
  BY DEF Walked, Fits
<1>4. /\ allocated \in 0..MaxSessions /\ sessionTasks \subseteq 1..allocated /\ task \in [Sids -> Preparation]
      /\ MaxSessions \in Nat
  BY <1>1, PoolAssumption DEF Types
<1> HIDE DEF started
<1>5. /\ allocated <= allocated' /\ allocated' \in 0..MaxSessions
      /\ tasks' \in [Keys -> 0..allocated'] /\ sessionTasks \subseteq sessionTasks'
      /\ sessionTasks' \subseteq 1..allocated' /\ task' \in [Sids -> Preparation]
      /\ \A i \in DOMAIN started :
           /\ allocated + i \in Sids /\ Begun(allocated + i) /\ started[i].key \in Keys
           /\ task'[allocated + i].key = started[i].key /\ tasks'[started[i].key] = allocated + i
      /\ \A s \in Sids : Begun(s) => \E i \in DOMAIN started :
           /\ task'[s].key = started[i].key /\ task'[s].fp = started[i].fp /\ task'[s].keep
           /\ task'[s].pc = "new" /\ ~task'[s].cancel /\ ~task'[s].woken
           /\ tasks'[task'[s].key] = s /\ s \in sessionTasks'
      /\ \A s \in Sids : ~Begun(s) =>
           /\ (s > allocated' => s > allocated) /\ (s <= allocated' => s <= allocated)
           /\ task'[s].key = task[s].key /\ task'[s].fp = task[s].fp /\ task'[s].keep = task[s].keep
           /\ task'[s].pc = task[s].pc /\ task'[s].woken = task[s].woken
           /\ (~Running(s) => task'[s] = task[s])
           /\ (Running(s)' <=> Running(s))
           /\ (GoesAhead(s)' => GoesAhead(s) /\ s \notin dropped)
      /\ \A k \in Keys : \/ tasks'[k] = tk[k] /\ \A i \in DOMAIN started : started[i].key # k
                         \/ \E i \in DOMAIN started : started[i].key = k
  <2>1. StartTasks(started, tk, Cancel(task, dropped))
    BY DEF started
  <2> HIDE DEF dropped
  <2> QED BY <1>1, <1>3, <2>1, RefillTasks
<1>7. ASSUME NEW s \in Sids, Begun(s)
      PROVE  /\ task'[s].key \in Keys /\ task'[s].key \in want /\ task'[s].fp = cfg.fp /\ task'[s].keep
             /\ task'[s].pc = "new" /\ ~task'[s].cancel /\ ~task'[s].woken
             /\ tasks'[task'[s].key] = s /\ s \in sessionTasks'
             /\ \E i \in DOMAIN started : task'[s].key = started[i].key
  <2>1. PICK i \in DOMAIN started :
           /\ task'[s].key = started[i].key /\ task'[s].fp = started[i].fp /\ task'[s].keep
           /\ task'[s].pc = "new" /\ ~task'[s].cancel /\ ~task'[s].woken
           /\ tasks'[task'[s].key] = s /\ s \in sessionTasks'
    BY <1>5, <1>7
  <2> QED BY <1>3, <1>5, <2>1
<1>9. ASSUME NEW s \in 1..allocated PROVE s \in Sids /\ ~Begun(s) /\ s # NoSid /\ s \in 1..allocated'
  BY <1>4, <1>5 DEF Sids, NoSid, Begun
<1>10. \A s \in Sids : ~Begun(s) =>
           /\ task'[s].key = task[s].key /\ task'[s].fp = task[s].fp /\ task'[s].keep = task[s].keep
           /\ task'[s].pc = task[s].pc /\ task'[s].woken = task[s].woken
           /\ (Running(s)' <=> Running(s))
           /\ (GoesAhead(s)' => GoesAhead(s) /\ s \notin dropped)
           /\ (task'[s].pc = "done" => task'[s] = task[s])
  BY <1>5 DEF Running
<1> HIDE DEF dropped
<1>11. ASSUME NEW k \in Keys, sl[k] # NoSid
       PROVE  /\ sl[k] = slots[k] /\ slots[k] \in 1..allocated /\ slots[k] \in Sids /\ task[slots[k]].fp = cfg.fp
  BY <1>1, <1>11, TableSids
<1>12. ASSUME NEW k \in Keys, tk[k] # NoSid
       PROVE  /\ tk[k] = tasks[k] /\ tasks[k] \in 1..allocated /\ tasks[k] \in Sids
              /\ task[tasks[k]].fp = cfg.fp /\ k \in want
  BY <1>1, <1>12, TableSids
<1>13. \A s \in Sids : Begun(s) => s \notin 1..allocated /\ chat[s] = "off"
  <2> SUFFICES ASSUME NEW s \in Sids, Begun(s) PROVE s \notin 1..allocated /\ chat[s] = "off"
    OBVIOUS
  <2> QED BY <1>1, <1>4 DEF Types, Begun
<1>14. shut \subseteq 1..allocated /\ \A s \in shut : chat[s] = "off" /\ task[s].pc = "done" /\ s \in Sids
  BY <1>1, TableSids DEF ReadyKeys, HeldInv
<1>15. Types'
  <2>1. task' \in [Sids -> Preparation]
    BY <1>5
  <2>2. ASSUME NEW s \in Sids, s > allocated' PROVE task'[s] = NoTask /\ chat'[s] = "off"
    <3>1. ~Begun(s)
      BY <1>4, <1>5, <2>2 DEF Begun, Sids
    <3>2. s > allocated
      BY <1>5, <2>2, <3>1
    <3>3. task[s] = NoTask /\ chat[s] = "off" /\ ~Running(s)
      BY <1>1, <3>2, Allocated DEF Running
    <3> QED BY <1>2, <1>5, <3>1, <3>3
  <2>3. ASSUME NEW s \in Sids, s <= allocated' PROVE task'[s].pc # "none" /\ task'[s].key \in Keys
    <3>1. CASE Begun(s)
      BY <1>7, <3>1
    <3>2. CASE ~Begun(s)
      BY <1>1, <1>5, <1>10, <2>3, <3>2, Allocated
    <3> QED BY <3>1, <3>2
  <2>4. slots' \in [Keys -> 0..allocated']
    <3>1. 0..allocated \subseteq 0..allocated'
      BY <1>4, <1>5
    <3> QED BY <3>1
  <2>5. 1..allocated \subseteq 1..allocated'
    BY <1>9
  <2>6. /\ promoted \subseteq 1..allocated' /\ claimedPins \subseteq 1..allocated' /\ ready \subseteq 1..allocated'
        /\ hits \subseteq 1..allocated' /\ disposing' \subseteq 1..allocated'
    BY <1>1, <1>14, <2>5 DEF Types
  <2>7. pending' \in Seq(Entry)
    BY <1>3 DEF Queue
  <2>8. /\ pins \in [Keys -> Nat] /\ fgCount \in Nat /\ idle \in BOOLEAN /\ closed \in BOOLEAN
        /\ chat \in [Sids -> {"off", "claimed", "begun", "waiting", "served"}]
    BY <1>1 DEF Types
  <2> QED BY <1>2, <1>5, <2>1, <2>2, <2>3, <2>4, <2>6, <2>7, <2>8 DEF Types
<1>16. OnceInv'
  <2>1. ASSUME NEW i \in DOMAIN pending' PROVE tasks'[pending'[i].key] = NoSid /\ slots'[pending'[i].key] = NoSid
    <3>1. /\ sl[walk.left[i].key] = NoSid /\ tk[walk.left[i].key] = NoSid /\ walk.left[i].key \in Keys
          /\ \A n \in DOMAIN started : started[n].key # walk.left[i].key
      BY <1>3, <2>1, QueueKeys DEF Unheld
    <3> QED BY <1>5, <3>1
  <2>2. ASSUME NEW k \in Keys PROVE slots'[k] = NoSid \/ tasks'[k] = NoSid
    <3>1. CASE tasks'[k] = tk[k]
      BY <1>1, <1>11, <1>12, <3>1 DEF OnceInv
    <3>2. CASE \E i \in DOMAIN started : started[i].key = k
      BY <1>3, <3>2 DEF Unheld
    <3> QED BY <1>5, <3>1, <3>2
  <2> QED BY <1>3, <2>1, <2>2 DEF OnceInv, Queue
<1>17. HeldInv'
  <2>1. ASSUME NEW k \in Keys, slots'[k] # NoSid
        PROVE  /\ task'[slots'[k]].key = k /\ task'[slots'[k]].pc = "done" /\ task'[slots'[k]].fp = cfg.fp
               /\ slots'[k] \in ready /\ chat[slots'[k]] = "off" /\ ~closed
               /\ slots'[k] \notin disposing' \cup claimedPins \cup hits
    <3>1. slots'[k] = slots[k] /\ slots[k] \in Sids /\ ~Begun(slots[k]) /\ slots[k] # NoSid
      BY <1>9, <1>11, <2>1
    <3>2. slots[k] \notin shut
      <4> SUFFICES ASSUME NEW x \in ReadyKeys, sl[x] = NoSid, slots[x] = slots[k] PROVE FALSE
        OBVIOUS
      <4> QED BY <1>1, <2>1, <3>1 DEF ReadyKeys, HeldInv
    <3> QED BY <1>1, <1>10, <1>11, <2>1, <3>1, <3>2 DEF HeldInv
  <2>2. ASSUME NEW k \in Keys, tasks'[k] # NoSid
        PROVE  /\ task'[tasks'[k]].key = k /\ task'[tasks'[k]].fp = cfg.fp /\ k \in want
               /\ task'[tasks'[k]].keep /\ chat[tasks'[k]] = "off" /\ ~closed
               /\ tasks'[k] \notin disposing' \cup claimedPins \cup hits
    <3>1. CASE tasks'[k] = tk[k]
      <4>1. tasks'[k] = tasks[k] /\ tasks[k] \in Sids /\ ~Begun(tasks[k]) /\ tasks[k] # NoSid
        BY <1>9, <1>12, <2>2, <3>1
      <4>2. tasks[k] \notin shut
        <5> SUFFICES ASSUME NEW x \in ReadyKeys, slots[x] = tasks[k] PROVE FALSE
          OBVIOUS
        <5>1. x = k
          BY <1>1, <4>1 DEF ReadyKeys, HeldInv
        <5> QED BY <1>1, <4>1, <5>1 DEF ReadyKeys, OnceInv
      <4>3. /\ task[tasks[k]].key = k /\ task[tasks[k]].keep /\ chat[tasks[k]] = "off" /\ ~closed
            /\ tasks[k] \notin disposing \cup claimedPins \cup hits
        BY <1>1, <4>1 DEF HeldInv
      <4>4. task[tasks[k]].fp = cfg.fp /\ k \in want
        BY <1>12, <2>2, <3>1
      <4>5. task'[tasks[k]].key = k /\ task'[tasks[k]].keep /\ task'[tasks[k]].fp = cfg.fp
        BY <1>10, <4>1, <4>3, <4>4
      <4> QED BY <4>1, <4>2, <4>3, <4>4, <4>5
    <3>2. CASE \E i \in DOMAIN started : started[i].key = k
      <4>1. PICK i \in DOMAIN started : started[i].key = k
        BY <3>2
      <4> DEFINE s == allocated + i
      <4>2. s \in Sids /\ tasks'[k] = s /\ Begun(s)
        BY <1>5, <4>1
      <4> HIDE DEF s
      <4>3. task'[s].key \in Keys /\ task'[s].key \in want /\ task'[s].fp = cfg.fp /\ task'[s].keep
        BY <1>7, <4>2
      <4>4. task'[s].key = k
        BY <1>5, <4>1 DEF s
      <4>5. ~closed
        BY <1>3, <4>1 DEF MayStart
      <4>6. s \notin 1..allocated /\ chat[s] = "off"
        BY <1>13, <4>2
      <4>7. s \notin disposing' \cup claimedPins \cup hits
        BY <1>1, <1>14, <4>6 DEF Types
      <4> QED BY <4>2, <4>3, <4>4, <4>5, <4>6, <4>7
    <3> QED BY <1>5, <3>1, <3>2
  <2> QED BY <1>2, <2>1, <2>2 DEF HeldInv
<1>18. TaskInv'
  <2>1. ASSUME NEW s \in Sids, Running(s)', ~closed PROVE s \in sessionTasks'
    <3>1. CASE Begun(s)
      BY <1>7, <3>1
    <3>2. CASE ~Begun(s)
      BY <1>1, <1>5, <1>10, <2>1, <3>2 DEF TaskInv
    <3> QED BY <3>1, <3>2
  <2>2. ASSUME NEW s \in Sids, GoesAhead(s)' PROVE ~closed
    <3>1. CASE Begun(s)
      BY <1>3, <1>7, <3>1 DEF MayStart
    <3>2. CASE ~Begun(s)
      BY <1>1, <1>10, <2>2, <3>2 DEF TaskInv
    <3> QED BY <3>1, <3>2
  <2>3. ASSUME NEW s \in Sids, GoesAhead(s)', task'[s].keep, chat[s] # "off" PROVE s \in promoted
    BY <1>1, <1>10, <1>13, <2>3 DEF TaskInv
  <2>4. ASSUME NEW s \in Sids, GoesAhead(s)', task'[s].keep, chat[s] = "off" PROVE tasks'[task'[s].key] = s
    <3>1. CASE Begun(s)
      BY <1>7, <3>1
    <3>2. CASE ~Begun(s)
      <4>1. GoesAhead(s) /\ s \notin dropped /\ task[s].keep /\ task'[s].key = task[s].key
        BY <1>10, <2>4, <3>2
      <4>2. tasks[task[s].key] = s /\ task[s].key \in Keys /\ s # NoSid
        BY <1>1, <2>4, <4>1, Allocated DEF TaskInv, GoesAhead, Running
      <4>3. tk[task[s].key] # NoSid
        BY <4>1, <4>2 DEF dropped, WarmingKeys
      <4>4. tk[task[s].key] = s
        BY <1>12, <4>2, <4>3
      <4>5. \A i \in DOMAIN started : started[i].key # task[s].key
        BY <1>3, <4>3 DEF Unheld
      <4> QED BY <1>5, <4>1, <4>2, <4>4, <4>5
    <3> QED BY <3>1, <3>2
  <2>5. ASSUME NEW s \in Sids PROVE task'[s].pc # "stale" /\ (task'[s].pc = "done" => ~task'[s].cancel)
    <3>1. CASE Begun(s)
      BY <1>7, <3>1
    <3>2. CASE ~Begun(s)
      <4>1. task[s].pc # "stale" /\ (task[s].pc = "done" => ~task[s].cancel)
        BY <1>1 DEF TaskInv
      <4>2. task'[s].pc = task[s].pc /\ (task'[s].pc = "done" => task'[s] = task[s])
        BY <1>10, <3>2
      <4> QED BY <4>1, <4>2
    <3> QED BY <3>1, <3>2
  <2>6. ASSUME NEW s \in promoted PROVE s \in Sids /\ chat[s] # "off" /\ task'[s].keep
    <3>1. s \in Sids /\ chat[s] # "off" /\ task[s].keep
      BY <1>1 DEF TaskInv
    <3>2. ~Begun(s)
      BY <1>13, <3>1
    <3> QED BY <1>10, <3>1, <3>2
  <2>7. ASSUME NEW s \in Sids, Running(s)' PROVE s \notin disposing' \cup claimedPins \cup hits
    <3>1. CASE Begun(s)
      <4>1. s \notin 1..allocated
        BY <1>13, <3>1
      <4> QED BY <1>1, <1>14, <4>1 DEF Types
    <3>2. CASE ~Begun(s)
      <4>1. Running(s)
        BY <1>10, <2>7, <3>2
      <4>2. s \notin shut
        BY <1>14, <4>1 DEF Running
      <4> QED BY <1>1, <4>1, <4>2 DEF TaskInv
    <3> QED BY <3>1, <3>2
  <2>8. disposing' \subseteq {s \in Sids : chat[s] = "off"}
    BY <1>1, <1>14 DEF TaskInv
  <2> QED BY <1>1, <1>2, <2>1, <2>2, <2>3, <2>4, <2>5, <2>6, <2>7, <2>8 DEF TaskInv
<1>19. PinsInv'
  <2>1. ASSUME NEW k \in Keys PROVE Owners(k)' = Owners(k)
    <3>1. Owners(k)' = {s \in (claimedPins \cup disposing' \cup {sl[k]}) \ {NoSid} : task'[s].key = k}
      BY <1>2 DEF Owners
    <3>2. (claimedPins \cup disposing' \cup {sl[k]}) \ {NoSid} \subseteq 1..allocated
      <4>1. claimedPins \subseteq 1..allocated /\ disposing' \subseteq 1..allocated
        BY <1>1, <1>14 DEF Types
      <4>2. sl[k] # NoSid => sl[k] \in 1..allocated
        BY <1>11
      <4> QED BY <4>1, <4>2
    <3>3. \A s \in 1..allocated : task'[s].key = task[s].key /\ s # NoSid
      BY <1>9, <1>10
    <3>4. Owners(k)' = {s \in (claimedPins \cup disposing' \cup {sl[k]}) \ {NoSid} : task[s].key = k}
      BY <3>1, <3>2, <3>3
    <3>5. ASSUME NEW s, s \in claimedPins \cup disposing' \cup {sl[k]}, s # NoSid, task[s].key = k
          PROVE  s \in claimedPins \cup disposing \cup {slots[k]}
      <4>1. CASE s \in shut
        BY <1>1, <3>5, <4>1 DEF ReadyKeys, HeldInv
      <4>2. CASE s = sl[k]
        BY <1>11, <3>5, <4>2
      <4> QED BY <3>5, <4>1, <4>2
    <3>6. ASSUME NEW s, s \in claimedPins \cup disposing \cup {slots[k]}, s # NoSid
          PROVE  s \in claimedPins \cup disposing' \cup {sl[k]}
      <4>1. CASE s = slots[k] /\ sl[k] = NoSid
        BY <3>6, <4>1 DEF ReadyKeys
      <4>2. CASE s = slots[k] /\ sl[k] # NoSid
        BY <1>11, <4>2
      <4> QED BY <3>6, <4>1, <4>2
    <3> QED BY <3>4, <3>5, <3>6 DEF Owners
  <2> QED BY <1>1, <1>2, <2>1 DEF PinsInv
<1>20. YieldInv'
  <2>1. ASSUME NEW s \in Sids, Speculative(s)', fgCount > 0
        PROVE  ~task'[s].woken /\ task'[s].pc \notin {"agent", "yield", "prepare"}
    <3>1. CASE Begun(s)
      BY <1>7, <3>1
    <3>2. CASE ~Begun(s)
      <4>1. GoesAhead(s)' /\ task'[s].keep /\ chat[s] = "off"
        BY <1>2, <2>1 DEF Speculative, GoesAhead
      <4>2. Speculative(s)
        BY <1>10, <3>2, <4>1 DEF Speculative, GoesAhead
      <4> QED BY <1>1, <1>10, <2>1, <3>2, <4>2 DEF YieldInv
    <3> QED BY <3>1, <3>2
  <2> QED BY <1>1, <1>2, <2>1 DEF YieldInv
<1>21. BoundInv'
  <2>1. \A k \in Keys : sl[k] # NoSid => slots[k] # NoSid
    OBVIOUS
  <2>2. \A k \in Keys : tk[k] # NoSid => tasks[k] # NoSid
    OBVIOUS
  <2>3. \A k \in Keys : \/ tasks'[k] = tk[k]
                        \/ \E i \in DOMAIN walk.started : walk.started[i].key = k
    BY <1>5 DEF started
  <2> QED BY <1>1, <2>1, <2>2, <2>3, RefillBound
<1> QED BY <1>15, <1>16, <1>17, <1>18, <1>19, <1>20, <1>21 DEF PoolInv

\* The initial state satisfies the invariant.
LEMMA InitPool == Init => PoolInv
<1> SUFFICES ASSUME Init PROVE PoolInv
  OBVIOUS
<1>1. /\ desired = {} /\ syncing = {} /\ syncs = 0 /\ rev = [seq |-> 0, fp |-> NoConfig] /\ newest = rev
      /\ slots = [k \in Keys |-> NoSid] /\ tasks = slots
      /\ sessionTasks = {} /\ promoted = {} /\ pending = <<>>
      /\ task = [s \in Sids |-> NoTask] /\ allocated = 0
      /\ claimedPins = {} /\ pins = [k \in Keys |-> 0] /\ disposing = {}
      /\ fgCount = 0 /\ idle = TRUE /\ pump = FALSE /\ closed = FALSE
      /\ chat = [s \in Sids |-> "off"] /\ ready = {} /\ hits = {}
  BY DEF Init
<1>2. NoTask \in Preparation /\ NoTask.pc = "none" /\ ~NoTask.cancel /\ ~NoTask.woken /\ ~NoTask.keep
  BY DEF NoTask, Preparation
<1>3. MaxSessions \in Nat /\ MaxSyncs \in Nat /\ MaxReady \in Nat
  BY PoolAssumption
<1>4. \A s \in Sids : s >= 1
  BY <1>3 DEF Sids
<1>5. Types
  <2>1. /\ slots \in [Keys -> 0..allocated] /\ tasks \in [Keys -> 0..allocated]
        /\ allocated \in 0..MaxSessions /\ syncs \in 0..MaxSyncs /\ pending \in Seq(Entry) /\ pins \in [Keys -> Nat]
    BY <1>1, <1>3 DEF NoSid
  <2>2. \A s \in Sids : s <= allocated => task[s].pc # "none" /\ task[s].key \in Keys
    BY <1>1, <1>4 DEF Sids
  <2>3. \A s \in Sids : s > allocated => task[s] = NoTask /\ chat[s] = "off"
    BY <1>1
  <2> QED BY <1>1, <1>2, <2>1, <2>2, <2>3 DEF Types
<1>6. OnceInv /\ HeldInv
  BY <1>1 DEF OnceInv, HeldInv
<1>7. TaskInv
  BY <1>1, <1>2 DEF TaskInv, Running, GoesAhead
<1>8. PinsInv
  <2>1. \A k \in Keys : Owners(k) = {}
    BY <1>1 DEF Owners
  <2> QED BY <1>1, <2>1, FS_EmptySet DEF PinsInv
<1>9. SyncInv /\ YieldInv
  BY <1>1, <1>2 DEF SyncInv, YieldInv, Speculative, Running
<1>10. BoundInv
  <2>1. ReadyKeys = {} /\ WarmingKeys = {}
    BY <1>1 DEF ReadyKeys, WarmingKeys
  <2>2. Cardinality({}) = 0
    BY FS_EmptySet
  <2> QED BY <1>3, <2>1, <2>2 DEF BoundInv
<1> QED BY <1>5, <1>6, <1>7, <1>8, <1>9, <1>10 DEF PoolInv

\* Where only the syncs change, the invariant is what it says of them.
LEMMA SyncsKeep ==
  ASSUME PoolInv,
         UNCHANGED <<desired, rev, slots, warming, task, allocated, pinning, disposing, foreground, handed, closed, ready>>,
         newest' \in [seq : Nat, fp : Fingerprints \cup {NoConfig}], syncs' \in 0..MaxSyncs,
         syncing' \subseteq [seq : Nat, fp : Fingerprints, desired : SUBSET Keys], SyncInv'
  PROVE  PoolInv'
<1>1. Types /\ OnceInv /\ HeldInv /\ TaskInv /\ PinsInv /\ YieldInv /\ BoundInv
  BY DEF PoolInv
<1>2. /\ desired' = desired /\ rev' = rev
      /\ slots' = slots /\ tasks' = tasks /\ sessionTasks' = sessionTasks /\ promoted' = promoted
      /\ pending' = pending /\ allocated' = allocated /\ task' = task /\ claimedPins' = claimedPins /\ pins' = pins
      /\ disposing' = disposing /\ closed' = closed /\ hits' = hits /\ chat' = chat
      /\ fgCount' = fgCount /\ idle' = idle /\ pump' = pump /\ ready' = ready
  BY DEF warming, pinning, foreground, handed
<1>3. Types'
  BY <1>1, <1>2 DEF Types
<1>4. OnceInv' /\ HeldInv' /\ BoundInv'
  BY <1>1, <1>2 DEF OnceInv, HeldInv, BoundInv, ReadyKeys, WarmingKeys
<1>5. TaskInv' /\ YieldInv'
  BY <1>1, <1>2 DEF TaskInv, YieldInv, GoesAhead, Speculative, Running
<1>6. PinsInv'
  BY <1>1, <1>2 DEF PinsInv, Owners
<1> QED BY <1>3, <1>4, <1>5, <1>6 DEF PoolInv

\* A sync that numbers itself keeps the invariant.
LEMMA SyncStartKeeps ==
  ASSUME PoolInv, NEW want \in Targets, NEW fp \in Fingerprints, SyncStart(want, fp)
  PROVE  PoolInv'
<1> DEFINE r == [seq |-> syncs + 1, fp |-> fp, desired |-> want]
<1>1. /\ syncs < MaxSyncs /\ syncs' = syncs + 1 /\ syncing' = syncing \cup {r}
      /\ UNCHANGED <<warming, pinning, foreground, handed, desired, rev, newest, slots,
                     task, allocated, disposing, closed, ready>>
  BY DEF SyncStart
<1>2. Types /\ SyncInv
  BY DEF PoolInv
<1>3. /\ syncs \in Nat /\ syncs \in 0..MaxSyncs /\ MaxSyncs \in Nat /\ rev.seq \in Nat
      /\ syncing \subseteq [seq : Nat, fp : Fingerprints, desired : SUBSET Keys]
  BY <1>2, PoolAssumption DEF Types
<1>4. syncs' \in 0..MaxSyncs
  BY <1>1, <1>3
<1>5. want \in SUBSET Keys
  BY PoolAssumption DEF Keys
<1>6. r \in [seq : Nat, fp : Fingerprints, desired : SUBSET Keys] /\ r.seq = syncs + 1
  BY <1>3, <1>5
<1> HIDE DEF r
<1>7. \A q \in syncing : q.seq \in Nat /\ q.seq <= syncs /\ q.seq # r.seq
  BY <1>2, <1>3, <1>6 DEF SyncInv
<1>8. SyncInv'
  <2>1. ~closed' => newest' = rev'
    BY <1>1, <1>2 DEF SyncInv
  <2>2. rev'.seq <= syncs' /\ \A q \in syncing' : q.seq <= syncs' /\ q.seq # rev'.seq
    BY <1>1, <1>2, <1>3, <1>6, <1>7 DEF SyncInv
  <2>3. \A p, q \in syncing' : p.seq = q.seq => p = q
    BY <1>1, <1>2, <1>7 DEF SyncInv
  <2> QED BY <2>1, <2>2, <2>3 DEF SyncInv
<1>9. newest' \in [seq : Nat, fp : Fingerprints \cup {NoConfig}]
  BY <1>1, <1>2 DEF Types
<1>10. syncing' \subseteq [seq : Nat, fp : Fingerprints, desired : SUBSET Keys]
  BY <1>1, <1>3, <1>6
<1> QED BY <1>1, <1>4, <1>8, <1>9, <1>10, SyncsKeep

\* A part of a table holds nothing a queue of the whole holds.
LEMMA StillUnheld ==
  ASSUME NEW q \in Queue, NEW f, NEW g, NEW sl, NEW tk, Unheld(q, f, g),
         \A k \in Keys : sl[k] # NoSid => f[k] # NoSid,
         \A k \in Keys : tk[k] # NoSid => g[k] # NoSid
  PROVE  Unheld(q, sl, tk)
BY QueueKeys DEF Unheld

\* The reconciliation of a sync keeps the invariant.
LEMMA ReconcileKeeps ==
  ASSUME PoolInv, NEW r \in syncing, Reconcile(r)
  PROVE  PoolInv'
<1>1. Types /\ OnceInv /\ SyncInv
  BY DEF PoolInv
<1>2. /\ r \in [seq : Nat, fp : Fingerprints, desired : SUBSET Keys] /\ r.desired \in SUBSET Keys
      /\ r.fp \in Fingerprints /\ r.seq \in Nat /\ rev.seq \in Nat /\ newest.seq \in Nat
      /\ syncing \subseteq [seq : Nat, fp : Fingerprints, desired : SUBSET Keys]
  <2>1. syncing \subseteq [seq : Nat, fp : Fingerprints, desired : SUBSET Keys]
    BY <1>1 DEF Types
  <2>2. rev.seq \in Nat /\ newest.seq \in Nat
    BY <1>1 DEF Types
  <2> QED BY <2>1, <2>2
<1>3. /\ syncing' = syncing \ {r}
      /\ newest' = IF ~closed /\ r.seq > newest.seq THEN [seq |-> r.seq, fp |-> r.fp] ELSE newest
      /\ UNCHANGED <<pinning, foreground, handed, syncs, promoted, closed, ready>>
  BY DEF Reconcile
<1>4. syncs' \in 0..MaxSyncs /\ syncing' \subseteq [seq : Nat, fp : Fingerprints, desired : SUBSET Keys]
  BY <1>1, <1>2, <1>3 DEF Types
<1>5. CASE Superseded(r)
  <2>1. UNCHANGED <<desired, rev, slots, tasks, sessionTasks, pending, task, allocated, disposing>>
    BY <1>5 DEF Reconcile
  <2>2. newest' = newest
    BY <1>1, <1>2, <1>3, <1>5 DEF Superseded, SyncInv
  <2>3. newest' \in [seq : Nat, fp : Fingerprints \cup {NoConfig}]
    BY <1>1, <2>2 DEF Types
  <2>4. SyncInv'
    BY <1>1, <1>3, <2>1, <2>2 DEF SyncInv
  <2>5. UNCHANGED <<desired, rev, slots, warming, task, allocated, pinning, disposing, foreground, handed, closed, ready>>
    BY <1>3, <2>1 DEF warming
  <2> QED BY <1>4, <2>3, <2>4, <2>5, SyncsKeep
<1>6. CASE ~Superseded(r)
  <2> DEFINE keepsSlot(k) == k \in r.desired /\ task[slots[k]].fp = r.fp
             sl == [k \in Keys |-> IF slots[k] # NoSid /\ keepsSlot(k) THEN slots[k] ELSE NoSid]
             keepsTask(k) == k \in r.desired /\ task[tasks[k]].fp = r.fp
             tk == [k \in Keys |-> IF tasks[k] # NoSid /\ keepsTask(k) THEN tasks[k] ELSE NoSid]
             kept == At(pending, {i \in DOMAIN pending : pending[i].key \in r.desired /\ pending[i].fp = r.fp})
             queue == AllEnqueued(kept, r.desired, r.fp, sl, tk)
             walk == IF fgCount > 0 THEN [started |-> <<>>, left |-> queue]
                     ELSE Pumped(queue, r, r.desired, sl, tk)
             dropped == {tasks[k] : k \in {x \in WarmingKeys : tk[x] = NoSid}}
  <2>1. /\ desired' = r.desired /\ rev' = [seq |-> r.seq, fp |-> r.fp] /\ slots' = sl
        /\ disposing' = disposing \cup {slots[k] : k \in {x \in ReadyKeys : sl[x] = NoSid}}
        /\ pending' = walk.left /\ StartTasks(walk.started, tk, Cancel(task, dropped))
    BY <1>6 DEF Reconcile
  <2>2. ~closed /\ r.seq > rev.seq /\ newest = rev
    BY <1>1, <1>2, <1>6 DEF Superseded, SyncInv
  <2>3. newest' = rev' /\ rev'.fp = r.fp /\ rev'.seq = r.seq
    BY <1>3, <2>1, <2>2
  <2>4. rev' \in [seq : Nat, fp : Fingerprints \cup {NoConfig}]
    BY <1>2, <2>1
  <2>5. SyncInv'
    BY <1>1, <1>3, <2>3 DEF SyncInv
  <2>6. slots \in [Keys -> 0..allocated] /\ tasks \in [Keys -> 0..allocated] /\ 0 \in 0..allocated
    BY <1>1, PoolAssumption DEF Types
  <2>7. /\ sl \in [Keys -> 0..allocated] /\ tk \in [Keys -> 0..allocated]
        /\ \A k \in Keys : sl[k] # NoSid => slots[k] # NoSid /\ sl[k] = slots[k] /\ task[slots[k]].fp = r.fp
        /\ \A k \in Keys : tk[k] # NoSid => tasks[k] # NoSid /\ tk[k] = tasks[k] /\ task[tasks[k]].fp = r.fp /\ k \in r.desired
    BY <2>6 DEF NoSid
  <2>8. kept \in Queue /\ Unheld(kept, slots, tasks)
    <3> DEFINE P == {i \in DOMAIN pending : pending[i].key \in r.desired /\ pending[i].fp = r.fp}
    <3>1. pending \in Queue /\ Unheld(pending, slots, tasks)
      BY <1>1, PendingFacts
    <3>2. P \in SUBSET (1..Len(pending))
      BY <3>1 DEF Queue
    <3>3. kept = At(pending, P)
      OBVIOUS
    <3> HIDE DEF P, kept
    <3>4. kept \in Queue /\ \A n \in DOMAIN kept : \E i \in P : kept[n] = pending[i]
      BY <3>1, <3>2, <3>3, AtOfQueue
    <3>5. P \subseteq DOMAIN pending
      BY DEF P
    <3> QED BY <3>1, <3>4, <3>5 DEF Unheld
  <2> HIDE DEF sl, tk, kept
  <2>9. Unheld(kept, sl, tk)
    BY <2>7, <2>8, StillUnheld
  <2>10. queue \in Queue /\ Unheld(queue, sl, tk)
    BY <1>2, <2>8, <2>9, AllEnqueuedFacts
  <2> HIDE DEF queue
  <2>11. Walked(r, r.desired, sl, tk, walk) /\ MayStart(walk.started)
    <3>1. allocated \in 0..MaxSessions /\ fgCount \in Nat
      BY <1>1 DEF Types
    <3>2. CASE fgCount > 0
      <4>1. walk = [started |-> <<>>, left |-> queue]
        BY <3>2
      <4> QED BY <2>10, <3>1, <4>1, WalkFacts DEF MayStart
    <3>3. CASE ~(fgCount > 0)
      <4>1. walk = Pumped(queue, r, r.desired, sl, tk) /\ fgCount = 0
        BY <3>1, <3>3
      <4> QED BY <2>2, <2>10, <3>1, <4>1, WalkFacts DEF MayStart
    <3> QED BY <3>2, <3>3
  <2> HIDE DEF walk
  <2>12. StartTasks(walk.started, tk, Cancel(task, {tasks[k] : k \in {x \in WarmingKeys : tk[x] = NoSid}}))
    BY <2>1
  <2> HIDE DEF dropped
  <2>13. UNCHANGED <<promoted, pinning, fgCount, idle, closed, handed, ready>> /\ pump' \in BOOLEAN
    BY <1>1, <1>3 DEF foreground, Types
  <2>14. Refilled(r.desired, r, sl, tk, walk)
    BY <1>4, <2>1, <2>3, <2>4, <2>5, <2>7, <2>11, <2>12, <2>13 DEF Refilled
  <2> QED BY <1>2, <2>7, <2>14, RefillKeeps
<1> QED BY <1>5, <1>6

\* The delayed pump keeps the invariant.
LEMMA DelayedPumpKeeps ==
  ASSUME PoolInv, DelayedPump
  PROVE  PoolInv'
<1>1. Types /\ OnceInv /\ HeldInv /\ SyncInv
  BY DEF PoolInv
<1> DEFINE walk == IF closed \/ fgCount > 0 THEN [started |-> <<>>, left |-> pending]
                   ELSE Pumped(pending, rev, desired, slots, tasks)
<1>2. /\ pump' = FALSE /\ pending' = walk.left /\ StartTasks(walk.started, tasks, task)
      /\ UNCHANGED <<config, pinning, handed, slots, promoted, disposing, fgCount, idle, closed, ready>>
  BY DEF DelayedPump
<1>3. desired' = desired /\ rev' = rev /\ newest' = newest /\ syncs' = syncs /\ syncing' = syncing
  BY <1>2 DEF config
<1>4. /\ slots \in [Keys -> 0..allocated] /\ tasks \in [Keys -> 0..allocated] /\ desired \in SUBSET Keys
      /\ rev \in [seq : Nat, fp : Fingerprints \cup {NoConfig}] /\ allocated \in 0..MaxSessions /\ fgCount \in Nat
      /\ newest \in [seq : Nat, fp : Fingerprints \cup {NoConfig}] /\ syncs \in 0..MaxSyncs
      /\ syncing \subseteq [seq : Nat, fp : Fingerprints, desired : SUBSET Keys] /\ task \in [Sids -> Preparation]
  BY <1>1 DEF Types
<1>5. pending \in Queue /\ Unheld(pending, slots, tasks)
  BY <1>1, PendingFacts
<1>6. Walked(rev, desired, slots, tasks, walk) /\ MayStart(walk.started)
  <2>1. CASE closed \/ fgCount > 0
    <3>1. walk = [started |-> <<>>, left |-> pending]
      BY <2>1
    <3> QED BY <1>4, <1>5, <3>1, WalkFacts DEF MayStart
  <2>2. CASE ~(closed \/ fgCount > 0)
    <3>1. walk = Pumped(pending, rev, desired, slots, tasks) /\ ~closed /\ fgCount = 0
      BY <1>4, <2>2
    <3> QED BY <1>4, <1>5, <3>1, WalkFacts DEF MayStart
  <2> QED BY <2>1, <2>2
<1> HIDE DEF walk
<1>7. \A k \in Keys : /\ slots[k] # NoSid => slots[k] = slots[k] /\ task[slots[k]].fp = rev.fp
                      /\ tasks[k] # NoSid => tasks[k] = tasks[k] /\ task[tasks[k]].fp = rev.fp /\ k \in desired
  BY <1>1 DEF HeldInv
<1>8. disposing' = disposing \cup {slots[k] : k \in {x \in ReadyKeys : slots[x] = NoSid}}
  BY <1>2 DEF ReadyKeys
<1>9. StartTasks(walk.started, tasks, Cancel(task, {tasks[k] : k \in {x \in WarmingKeys : tasks[x] = NoSid}}))
  <2>1. {tasks[k] : k \in {x \in WarmingKeys : tasks[x] = NoSid}} = {}
    BY DEF WarmingKeys
  <2>2. Cancel(task, {}) = task
    BY <1>4 DEF Cancel
  <2> QED BY <1>2, <2>1, <2>2
<1>10. SyncInv'
  BY <1>1, <1>2, <1>3 DEF SyncInv
<1>11. pump' \in BOOLEAN /\ slots' = slots
  BY <1>2
<1>12. Refilled(desired, rev, slots, tasks, walk)
  BY <1>2, <1>3, <1>4, <1>6, <1>7, <1>8, <1>9, <1>10, <1>11 DEF Refilled
<1> QED BY <1>4, <1>12, RefillKeeps

\* Every step keeps the invariant.
LEMMA NextKeeps == PoolInv /\ [Next]_vars => PoolInv'
<1> SUFFICES ASSUME PoolInv, [Next]_vars PROVE PoolInv'
  OBVIOUS
<1>1. CASE UNCHANGED vars
  BY <1>1 DEF vars, config, warming, pinning, foreground, handed, PoolInv, Types, OnceInv, HeldInv, TaskInv, PinsInv,
              SyncInv, YieldInv, BoundInv, GoesAhead, Running, Owners, Speculative, ReadyKeys, WarmingKeys
<1>2. ASSUME NEW want \in Targets, NEW fp \in Fingerprints, SyncStart(want, fp) PROVE PoolInv'
  BY <1>2, SyncStartKeeps
<1>3. ASSUME NEW r \in syncing, Reconcile(r) PROVE PoolInv'
  BY <1>3, ReconcileKeeps
<1>4. CASE DelayedPump
  BY <1>4, DelayedPumpKeeps
<1>5. ASSUME NEW s \in Sids,
             \/ DisposeSlot(s) \/ Start(s) \/ Advance(s) \/ Prepared(s) \/ Fail(s)
             \/ Cancelled(s) \/ Disposed(s) \/ ReleaseClaimPin(s)
             \/ BeginChat(s) \/ AwaitPrewarm(s) \/ EndChat(s)
      PROVE  PoolInv'
  <2>1. CASE DisposeSlot(s)
    BY <2>1, DisposeSlotKeeps
  <2>2. CASE Start(s)
    BY <2>2, StartKeeps
  <2>3. CASE Advance(s)
    BY <2>3, AdvanceKeeps
  <2>4. CASE Prepared(s)
    BY <2>4, PreparedKeeps
  <2>5. CASE Fail(s)
    BY <2>5, FailKeeps
  <2>6. CASE Cancelled(s)
    BY <2>6, CancelledKeeps
  <2>7. CASE Disposed(s)
    BY <2>7, DisposedKeeps
  <2>8. CASE ReleaseClaimPin(s)
    BY <2>8, ReleaseClaimPinKeeps
  <2>9. CASE BeginChat(s)
    BY <2>9, BeginChatKeeps
  <2>10. CASE AwaitPrewarm(s)
    BY <2>10, AwaitPrewarmKeeps
  <2>11. CASE EndChat(s)
    BY <2>11, EndChatKeeps
  <2> QED BY <1>5, <2>1, <2>2, <2>3, <2>4, <2>5, <2>6, <2>7, <2>8, <2>9, <2>10, <2>11
<1>6. ASSUME NEW k \in Keys, Claim(k) PROVE PoolInv'
  BY <1>6, ClaimKeeps
<1>7. CASE Close
  BY <1>7, CloseKeeps
<1> QED BY <1>1, <1>2, <1>3, <1>4, <1>5, <1>6, <1>7 DEF Next

\* The inductive invariant of the pool (AgentWarmPool's slots, tasks, pins and gates).
THEOREM PoolInvHolds == Spec => []PoolInv
BY InitPool, NextKeeps, PTL DEF Spec

\* A queue with one entry a key is no longer than the configured order of keys.
LEMMA QueueBound ==
  ASSUME Types, OnceInv
  PROVE  Len(pending) <= Len(KeyOrder)
<1>1. pending \in Seq(Entry) /\ Len(pending) \in Nat /\ DOMAIN pending = 1..Len(pending)
  BY DEF Types
<1>2. \A i \in 1..Len(pending) : pending[i].key \in Keys
  <2>1. \A i \in 1..Len(pending) : pending[i] \in Entry
    BY <1>1
  <2> QED BY <2>1 DEF Entry
<1> DEFINE f == [i \in 1..Len(pending) |-> pending[i].key]
<1>3. f \in Injection(1..Len(pending), Keys)
  BY <1>1, <1>2 DEF Injection, IsInjective, OnceInv
<1> HIDE DEF f
<1>4. Cardinality(1..Len(pending)) = Len(pending)
  BY <1>1, FS_Interval
<1>5. Cardinality(1..Len(pending)) <= Cardinality(Keys)
  BY <1>3, KeysFinite, FS_Injection
<1>6. Len(KeyOrder) \in Nat /\ DOMAIN KeyOrder = 1..Len(KeyOrder) /\ KeyOrder \in Seq(Keys)
  BY PoolAssumption DEF Keys
<1>7. KeyOrder \in Surjection(1..Len(KeyOrder), Keys)
  BY <1>6 DEF Surjection, Keys, Range
<1>8. IsFiniteSet(1..Len(KeyOrder)) /\ Cardinality(1..Len(KeyOrder)) = Len(KeyOrder)
  BY <1>6, FS_Interval
<1>9. Cardinality(Keys) <= Cardinality(1..Len(KeyOrder))
  BY <1>7, <1>8, FS_Surjection
<1>10. Cardinality(Keys) \in Nat
  BY KeysFinite, FS_CardinalityType
<1> QED BY <1>1, <1>4, <1>5, <1>6, <1>8, <1>9, <1>10

\* Every variable keeps its type, the queue is no longer than the keys and no session id
\* is given out twice (AgentWarmPool.__init__ and every method that assigns).
THEOREM TypeOKHolds == Spec => []TypeOK
<1>1. PoolInv => TypeOK
  <2> SUFFICES ASSUME PoolInv PROVE TypeOK
    OBVIOUS
  <2>1. Types /\ OnceInv /\ SyncInv /\ MaxSessions \in Nat /\ MaxSyncs \in Nat
    BY PoolAssumption DEF PoolInv
  <2>2. allocated \in 0..MaxSessions /\ 1..allocated \subseteq Sids /\ 0..allocated \subseteq 0..MaxSessions
    BY <2>1 DEF Types, Sids
  <2>3. slots \in [Keys -> 0..MaxSessions] /\ tasks \in [Keys -> 0..MaxSessions]
    BY <2>1, <2>2 DEF Types
  <2>4. /\ sessionTasks \subseteq Sids /\ promoted \subseteq Sids /\ claimedPins \subseteq Sids
        /\ disposing \subseteq Sids /\ ready \subseteq Sids /\ hits \subseteq Sids
    BY <2>1, <2>2 DEF Types
  <2>5. rev \in [seq : 0..MaxSyncs, fp : Fingerprints \cup {NoConfig}]
    <3>1. rev \in [seq : Nat, fp : Fingerprints \cup {NoConfig}] /\ syncs \in 0..MaxSyncs /\ rev.seq <= syncs
      BY <2>1 DEF Types, SyncInv
    <3>2. rev.seq \in 0..MaxSyncs
      BY <2>1, <3>1
    <3> QED BY <3>1, <3>2
  <2>6. Len(pending) <= Len(KeyOrder)
    BY <2>1, QueueBound
  <2>7. /\ desired \subseteq Keys /\ task \in [Sids -> Preparation] /\ pins \in [Keys -> Nat]
        /\ fgCount \in Nat /\ {idle, pump, closed} \subseteq BOOLEAN
        /\ chat \in [Sids -> {"off", "claimed", "begun", "waiting", "served"}]
    BY <2>1 DEF Types
  <2> QED BY <2>2, <2>3, <2>4, <2>5, <2>6, <2>7 DEF TypeOK
<1> QED BY <1>1, PoolInvHolds, PTL

\* A READY slot was built from the newest configuration reconciled (sync's sequence check).
THEOREM SlotsFollowNewestSyncHolds == Spec => []SlotsFollowNewestSync
<1>1. PoolInv => SlotsFollowNewestSync
  BY DEF PoolInv, HeldInv, SyncInv, SlotsFollowNewestSync, ReadyKeys
<1> QED BY <1>1, PoolInvHolds, PTL

\* A session has one owner, and one handed out as READY keeps its runtime
\* (claim, sync, _dispose_slots).
THEOREM OneOwnerHolds == Spec => []OneOwner
<1>1. PoolInv => OneOwner
  <2> SUFFICES ASSUME PoolInv PROVE OneOwner
    OBVIOUS
  <2> DEFINE slotted == {slots[k] : k \in ReadyKeys}
             owned == {s \in Sids : chat[s] # "off"}
  <2>1. \A s \in slotted : chat[s] = "off" /\ s \notin disposing
    BY DEF PoolInv, HeldInv, ReadyKeys
  <2>2. \A s \in owned : s \notin disposing
    BY DEF PoolInv, TaskInv
  <2>3. hits \subseteq ready
    BY DEF PoolInv, TaskInv
  <2> QED BY <2>1, <2>2, <2>3 DEF OneOwner
<1> QED BY <1>1, PoolInvHolds, PTL

\* An agent's pin count is the number of its owners
\* (_publish_ready, claim, release_claim_pin, _dispose_runtime).
THEOREM PinsMatchOwnersHolds == Spec => []PinsMatchOwners
<1>1. PoolInv => PinsMatchOwners
  BY DEF PoolInv, PinsInv, Owners, PinsMatchOwners
<1> QED BY <1>1, PoolInvHolds, PTL

\* Nothing speculative builds or prepares while the foreground is busy
\* (begin_foreground and the three waits for idle).
THEOREM PrewarmYieldsToChatsHolds == Spec => []PrewarmYieldsToChats
<1>1. PoolInv => PrewarmYieldsToChats
  BY DEF PoolInv, YieldInv, PrewarmYieldsToChats
<1> QED BY <1>1, PoolInvHolds, PTL

\* READY slots and speculative preparations together stay within the reserve
\* (_pump_background_locked: every speculative session has its key's entry of the table).
THEOREM SpeculationIsBoundedHolds == Spec => []SpeculationIsBounded
<1>1. PoolInv => SpeculationIsBounded
  <2> SUFFICES ASSUME PoolInv PROVE SpeculationIsBounded
    OBVIOUS
  <2> DEFINE S == {s \in Sids : Speculative(s)}
             f == [s \in S |-> task[s].key]
  <2>1. Types /\ TaskInv /\ BoundInv
    BY DEF PoolInv
  <2>2. ASSUME NEW s \in S
        PROVE  s \in Sids /\ task[s].key \in Keys /\ tasks[task[s].key] = s /\ s # NoSid
    <3>1. s \in Sids /\ task[s].keep /\ chat[s] = "off" /\ GoesAhead(s)
      BY DEF Speculative, GoesAhead
    <3>2. tasks[task[s].key] = s
      BY <2>1, <3>1 DEF TaskInv
    <3>3. task[s].pc # "none"
      BY <3>1 DEF GoesAhead, Running
    <3> QED BY <2>1, <3>1, <3>2, <3>3, Allocated
  <2>3. \A s \in S : task[s].key \in WarmingKeys
    BY <2>2 DEF WarmingKeys
  <2>4. \A s, t \in S : task[s].key = task[t].key => s = t
    BY <2>2
  <2> HIDE DEF S
  <2>5. f \in Injection(S, WarmingKeys)
    BY <2>3, <2>4 DEF Injection, IsInjective
  <2>6. IsFiniteSet(WarmingKeys) /\ IsFiniteSet(ReadyKeys)
    BY KeysFinite, FS_Subset DEF WarmingKeys, ReadyKeys
  <2>7. IsFiniteSet(S) /\ Cardinality(S) <= Cardinality(WarmingKeys)
    BY <2>5, <2>6, FS_Injection
  <2>8. Cardinality(S) \in Nat /\ Cardinality(WarmingKeys) \in Nat /\ Cardinality(ReadyKeys) \in Nat /\ MaxReady \in Nat
    BY <2>6, <2>7, FS_CardinalityType, PoolAssumption
  <2>9. Cardinality(ReadyKeys) + Cardinality(S) <= MaxReady
    BY <2>1, <2>7, <2>8 DEF BoundInv
  <2> QED BY <2>9 DEF SpeculationIsBounded, S
<1> QED BY <1>1, PoolInvHolds, PTL
=============================================================================
