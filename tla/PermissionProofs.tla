-------------------------- MODULE PermissionProofs --------------------------
(***************************************************************************)
(* The safety properties of PermissionQueue for every number of calls and    *)
(* requests: one dispatcher, one answer in flight and at the head, an owner  *)
(* for every reservation, the shown cards are the kept calls, and no card is *)
(* taken up by an answer that a cutover superseded.  They are proved         *)
(* together, by one inductive invariant.  Its heart are Kept (the core       *)
(* keeps calls only between rounds, and then they are all the live cards),   *)
(* OnItsWay (an answer reserved while the core keeps calls has not yet been  *)
(* started, so a cutover that drops the core's inputs must drop the          *)
(* continuation with it) and Current (what is on its way without a           *)
(* quarantine was reserved in this epoch).                                   *)
(***************************************************************************)
EXTENDS PermissionQueue, FiniteSetTheorems, WellFoundedInduction, SequenceTheorems, TLAPS

\* The types of the state the argument needs; only an answer names a card.
Typed ==
    /\ cards \in [Calls -> CardStates] /\ order \in Seq(Calls) /\ quarantined \in BOOLEAN
    /\ lock \in {None} \cup Requests /\ handoff \in {None} \cup Requests
    /\ req \in [Requests -> [at : Stops, kind : Kinds, card : {None} \cup Calls,
                             superseded : {None} \cup Calls]]
    /\ \A r \in Requests : req[r].kind # "answer" => req[r].card = None
    /\ round \in {"idle", "running", "closing"}
    /\ place \in [Calls -> Places]
    /\ answering \in {None} \cup Requests /\ inputs \in Seq(Requests)
    /\ continuation \subseteq Calls
    /\ epoch \in Nat /\ reserved \in [Requests -> Nat]

\* Where a request is while it carries out a cutover.
CutoverStops == {"cancelling", "unwinding", "discarding"}

\* A request that has not arrived is nowhere.
NewIsNowhere ==
    \A r \in Requests : req[r].at = "new" =>
        r \notin {lock, handoff, answering} /\ r \notin ToSet(inputs)

\* In a cutover everything is quarantined; once the round is cancelled nothing that the
\* core accepted is left.
CutoverIsQuiet ==
    \A r \in Requests :
        /\ req[r].at \in CutoverStops => req[r].kind # "answer" /\ quarantined
        /\ req[r].at \in {"unwinding", "discarding"} => inputs = <<>> /\ round # "running"

\* The order lists live cards, each once.
OrderIsLive == IsInjective(order) /\ ToSet(order) \subseteq Live(cards)

\* Calls are somewhere only in a round, and an active card is being decided.
CallsInRounds ==
    /\ round = "idle" => \A c \in Calls : place[c] = "none"
    /\ \A c \in Calls : cards[c] = "active" => place[c] = "deciding"

\* The core keeps calls only between rounds; they are the live cards, and the order.
Kept ==
    continuation # {} =>
        round = "idle" /\ Live(cards) = continuation /\ ToSet(order) = continuation

\* While the core keeps calls, an answer that is reserved is still on its way to it.
OnItsWay ==
    \A c \in Calls : cards[c] = "resuming" /\ continuation # {} =>
        \/ \E r \in Requests : /\ r = lock /\ req[r].at = "prepared"
                               /\ req[r].kind = "answer" /\ req[r].card = c
        \/ \E r \in ToSet(inputs) : req[r].kind = "answer"

\* Without a quarantine, an answer on its way was reserved in the current epoch.
Current ==
    /\ \A r \in Requests : req[r].at \in {"prepared", "taken"} /\ req[r].kind = "answer"
                             => reserved[r] = epoch
    /\ ~quarantined => /\ \A r \in ToSet(inputs) : req[r].kind = "answer" => reserved[r] = epoch
                       /\ round = "running" /\ answering # None => reserved[answering] = epoch

\* The inductive invariant.
IInv == /\ Typed /\ OneDispatcher /\ NewIsNowhere /\ CutoverIsQuiet /\ OrderIsLive /\ CallsInRounds
        /\ HeadInFlight /\ ReservedIsOwned /\ Kept /\ OnItsWay /\ Current

----------------------------------------------------------------------------
(* Sequences and sets                                                         *)

\* A nonempty set of natural numbers contains its minimum.
LEMMA Smallest ==
  ASSUME NEW S \in SUBSET Nat, S # {}
  PROVE  Min(S) \in S
<1>1. PICK x \in S : \A y \in S : ~(<<y, x>> \in OpToRel(<, Nat))
  BY NatLessThanWellFounded, WFMin
<1>2. \A y \in S : x <= y
  <2> SUFFICES ASSUME NEW y \in S PROVE x <= y
    OBVIOUS
  <2>1. ~(y < x)
    BY <1>1, Zenon DEF OpToRel
  <2> QED BY <2>1
<1> QED BY <1>2 DEF Min

\* Removing a value from a sequence without duplicates: what is left, and that the head
\* stays unless it is the value (_remove_locked).
LEMMA Removal ==
  ASSUME NEW S, NEW s \in Seq(S), IsInjective(s), NEW c
  PROVE  /\ RemoveFirst(s, c) \in Seq(S) /\ IsInjective(RemoveFirst(s, c))
         /\ ToSet(RemoveFirst(s, c)) = ToSet(s) \ {c}
         /\ s # <<>> /\ s[1] # c => RemoveFirst(s, c) # <<>> /\ RemoveFirst(s, c)[1] = s[1]
<1>1. CASE c \notin ToSet(s)
  <2>1. RemoveFirst(s, c) = s
    BY <1>1 DEF RemoveFirst, ToSet
  <2> QED BY <2>1, <1>1
<1>2. CASE c \in ToSet(s)
  <2>1. PICK k \in 1..Len(s) : s[k] = c /\ RemoveFirst(s, c) = RemoveAt(s, k)
    <3> DEFINE I == {i \in 1..Len(s) : s[i] = c}
    <3>1. I # {} /\ I \in SUBSET Nat
      BY <1>2 DEF ToSet
    <3>2. Min(I) \in I
      BY <3>1, Smallest
    <3>3. SelectInSeq(s, LAMBDA v : v = c) = Min(I)
      BY <3>1 DEF SelectInSeq
    <3> QED BY <3>1, <3>2, <3>3 DEF RemoveFirst
  <2> DEFINE t == RemoveAt(s, k)
  <2>2. t \in Seq(S) /\ Len(t) = Len(s) - 1 /\ \A j \in 1..Len(t) : t[j] = IF j < k THEN s[j] ELSE s[j + 1]
    <3> DEFINE a == SubSeq(s, 1, k - 1)
               b == SubSeq(s, k + 1, Len(s))
    <3>1. a \in Seq(S) /\ Len(a) = k - 1 /\ \A j \in 1..(k - 1) : a[j] = s[j]
      BY SubSeqProperties
    <3>2. b \in Seq(S) /\ Len(b) = Len(s) - k /\ \A j \in 1..(Len(s) - k) : b[j] = s[j + k]
      BY SubSeqProperties
    <3>3. t = a \o b
      BY DEF RemoveAt
    <3> HIDE DEF a, b, t
    <3>4. t \in Seq(S) /\ Len(t) = Len(a) + Len(b)
          /\ \A i \in 1..(Len(a) + Len(b)) : t[i] = IF i <= Len(a) THEN a[i] ELSE b[i - Len(a)]
      BY <3>1, <3>2, <3>3, ConcatProperties
    <3> QED BY <3>1, <3>2, <3>4
  <2>3. \A i, j \in 1..Len(s) : s[i] = s[j] => i = j
    BY DEF IsInjective
  <2> HIDE DEF t
  <2>4. ToSet(t) = ToSet(s) \ {c}
    <3>1. \A x \in ToSet(t) : x \in ToSet(s) /\ x # c
      BY <2>1, <2>2, <2>3 DEF ToSet
    <3>2. ASSUME NEW i \in 1..Len(s), s[i] # c PROVE s[i] \in ToSet(t)
      <4>1. CASE i < k
        BY <4>1, <2>2, <2>1 DEF ToSet
      <4>2. CASE i > k
        <5>1. i - 1 \in 1..Len(t) /\ t[i - 1] = s[i]
          BY <4>2, <2>2, <2>1
        <5> QED BY <5>1, <2>2 DEF ToSet
      <4> QED BY <4>1, <4>2, <3>2, <2>1
    <3>3. \A x \in ToSet(s) \ {c} : x \in ToSet(t)
      BY <3>2 DEF ToSet
    <3> QED BY <3>1, <3>3
  <2>5. IsInjective(t)
    BY <2>1, <2>2, <2>3 DEF IsInjective
  <2>6. s # <<>> /\ s[1] # c => t # <<>> /\ t[1] = s[1]
    BY <2>1, <2>2
  <2> QED BY <2>1, <2>2, <2>4, <2>5, <2>6 DEF t
<1> QED BY <1>1, <1>2

\* A listing of a finite set has its elements, each once (the order reconcile takes over).
LEMMA Listed ==
  ASSUME NEW S, IsFiniteSet(S), NEW s \in SetToSeqs(S)
  PROVE  s \in Seq(S) /\ IsInjective(s) /\ ToSet(s) = S
<1>1. Cardinality(S) \in Nat /\ IsFiniteSet(1..Cardinality(S)) /\ Cardinality(1..Cardinality(S)) = Cardinality(S)
  BY FS_CardinalityType, FS_Interval
<1>2. s \in [1..Cardinality(S) -> S] /\ \A i, j \in 1..Cardinality(S) : i # j => s[i] # s[j]
  BY DEF SetToSeqs
<1>3. s \in Injection(1..Cardinality(S), S)
  BY <1>2 DEF Injection, IsInjective
<1>4. s \in Surjection(1..Cardinality(S), S)
  BY <1>1, <1>3, FS_Injection
<1> QED BY <1>1, <1>2, <1>4 DEF Surjection, ToSet, IsInjective

\* Head, tail and append of a line, and who is in it.
LEMMA Lines ==
  ASSUME NEW S, NEW s \in Seq(S)
  PROVE  /\ s # <<>> => /\ s[1] \in ToSet(s) /\ Tail(s) \in Seq(S)
                        /\ ToSet(Tail(s)) \subseteq ToSet(s)
         /\ ToSet(<<>>) = {} /\ ToSet(s) \subseteq S
         /\ \A x \in S : Append(s, x) \in Seq(S) /\ ToSet(Append(s, x)) = ToSet(s) \cup {x}
<1>1. s # <<>> => s[1] \in ToSet(s) /\ Tail(s) \in Seq(S) /\ ToSet(Tail(s)) \subseteq ToSet(s)
  BY DEF ToSet
<1>2. ToSet(<<>>) = {} /\ ToSet(s) \subseteq S
  BY DEF ToSet
<1>3. ASSUME NEW x \in S PROVE Append(s, x) \in Seq(S) /\ ToSet(Append(s, x)) = ToSet(s) \cup {x}
  <2> DEFINE t == Append(s, x)
  <2>1. t \in Seq(S) /\ Len(t) = Len(s) + 1 /\ t[Len(s) + 1] = x /\ \A i \in 1..Len(s) : t[i] = s[i]
    OBVIOUS
  <2> HIDE DEF t
  <2>2. ToSet(t) = ToSet(s) \cup {x}
    BY <2>1 DEF ToSet
  <2> QED BY <2>1, <2>2 DEF t
<1> QED BY <1>1, <1>2, <1>3

----------------------------------------------------------------------------
\* The invariant holds of a root session without cards and requests.
THEOREM Initially == Init => IInv
<1> SUFFICES ASSUME Init PROVE IInv
  OBVIOUS
<1> USE DEF Init
<1>1. Typed
  <2>1. order \in Seq(Calls) /\ inputs \in Seq(Requests)
    OBVIOUS
  <2>2. req \in [Requests -> [at : Stops, kind : Kinds, card : {None} \cup Calls,
                              superseded : {None} \cup Calls]]
    BY DEF Stops, Kinds
  <2> QED BY <2>1, <2>2 DEF Typed, CardStates, Places
<1>2. OneDispatcher /\ NewIsNowhere /\ CutoverIsQuiet /\ Current
  BY DEF OneDispatcher, NewIsNowhere, CutoverIsQuiet, CutoverStops, Current, ToSet, None, Requests
<1>3. OrderIsLive /\ CallsInRounds /\ Kept /\ OnItsWay
  BY DEF OrderIsLive, CallsInRounds, Kept, OnItsWay, ToSet, IsInjective
<1>4. HeadInFlight /\ ReservedIsOwned
  BY DEF HeadInFlight, ReservedIsOwned
<1> QED BY <1>1, <1>2, <1>3, <1>4 DEF IInv

\* None is neither a request nor a call.
LEMMA NoneIsNobody == None \notin Requests /\ None \notin Calls
BY DEF None, Requests, Calls

Request == [at : Stops, kind : Kinds, card : {None} \cup Calls, superseded : {None} \cup Calls]

\* A request goes somewhere else and stays what it is.
LEMMA Moves ==
  ASSUME req \in [Requests -> Request], NEW r \in Requests, NEW stop \in Stops, Go(r, stop)
  PROVE  /\ req' \in [Requests -> Request]
         /\ \A s \in Requests : /\ s # r => req'[s] = req[s]
                                /\ req'[s].kind = req[s].kind /\ req'[s].card = req[s].card
         /\ req'[r].at = stop
BY DEF Go, Request

\* The suspended calls are a finite set.
LEMMA CallsAreFinite == IsFiniteSet(Suspended) /\ Suspended \subseteq Calls
<1>1. Calls = 1..MaxCalls /\ IsFiniteSet(Calls)
  BY PermissionAssumption, FS_Interval DEF Calls
<1> QED BY <1>1, FS_Subset DEF Suspended

----------------------------------------------------------------------------
(* The core's rounds                                                          *)

\* A fresh input starts a round and ends what the core kept.
LEMMA StartFreshStep == ASSUME IInv, StartFresh PROVE IInv'
<1> USE DEF Places
<1>1. /\ round = "idle" /\ round' = "running" /\ inputs # <<>> /\ inputs' = Tail(inputs)
      /\ answering' = None /\ continuation' = {}
      /\ cards' = cards /\ order' = order /\ quarantined' = quarantined /\ lock' = lock
      /\ handoff' = handoff /\ req' = req /\ epoch' = epoch /\ reserved' = reserved
  BY DEF StartFresh, queue, dispatch, history
<1>2. place' \in [Calls -> Places]
  BY DEF StartFresh, Batch
<1>3. inputs' \in Seq(Requests) /\ ToSet(inputs') \subseteq ToSet(inputs)
  BY <1>1, Lines DEF IInv, Typed
<1>4. Typed'
  BY <1>1, <1>2, <1>3, NoneIsNobody DEF IInv, Typed
<1>5. OneDispatcher' /\ OrderIsLive' /\ HeadInFlight' /\ ReservedIsOwned' /\ Kept' /\ OnItsWay'
  BY <1>1 DEF IInv, OneDispatcher, OrderIsLive, HeadInFlight, ReservedIsOwned, Kept, OnItsWay, Live
<1>6. NewIsNowhere' /\ Current'
  BY <1>1, <1>3, NoneIsNobody DEF IInv, NewIsNowhere, Current
<1>7. CutoverIsQuiet'
  BY <1>1 DEF IInv, CutoverIsQuiet
<1>8. CallsInRounds'
  BY <1>1 DEF IInv, CallsInRounds
<1> QED BY <1>4, <1>5, <1>6, <1>7, <1>8 DEF IInv

\* An answer takes the continuation into its round, with the request it came from.
LEMMA StartResumeStep == ASSUME IInv, StartResume PROVE IInv'
<1> USE DEF Places
<1> DEFINE r == inputs[1]
           kept == continuation \cup questions
<1>1. /\ round = "idle" /\ inputs # <<>> /\ inputs' = Tail(inputs) /\ req[r].kind = "answer"
      /\ round' = IF kept = {} THEN "idle" ELSE "running"
      /\ answering' = IF kept = {} THEN None ELSE r
      /\ place' = [c \in Calls |-> IF c \in kept THEN "todo" ELSE "none"]
      /\ continuation' = {}
      /\ cards' = cards /\ order' = order /\ quarantined' = quarantined /\ lock' = lock
      /\ handoff' = handoff /\ req' = req /\ epoch' = epoch /\ reserved' = reserved
  BY DEF StartResume, queue, dispatch, history
<1>3. /\ inputs' \in Seq(Requests) /\ ToSet(inputs') \subseteq ToSet(inputs)
      /\ r \in ToSet(inputs) /\ r \in Requests
  BY <1>1, Lines DEF IInv, Typed
<1> HIDE DEF r, kept
<1>4. Typed'
  BY <1>1, <1>3, NoneIsNobody DEF IInv, Typed
<1>5. OneDispatcher' /\ OrderIsLive' /\ HeadInFlight' /\ ReservedIsOwned' /\ Kept' /\ OnItsWay'
  BY <1>1 DEF IInv, OneDispatcher, OrderIsLive, HeadInFlight, ReservedIsOwned, Kept, OnItsWay, Live
<1>6. NewIsNowhere' /\ Current'
  BY <1>1, <1>3, NoneIsNobody DEF IInv, NewIsNowhere, Current
<1>7. CutoverIsQuiet'
  BY <1>1 DEF IInv, CutoverIsQuiet
<1>8. CallsInRounds'
  BY <1>1 DEF IInv, CallsInRounds
<1> QED BY <1>4, <1>5, <1>6, <1>7, <1>8 DEF IInv

\* The model makes more calls or the round is over; nothing was suspended.
LEMMA GoesOnStep == ASSUME IInv, GoesOn PROVE IInv'
<1> USE DEF Places
<1>1. /\ round = "running" /\ round' \in {"idle", "running"} /\ answering' = None
      /\ Settled
      /\ inputs' = inputs /\ continuation' = continuation
      /\ cards' = cards /\ order' = order /\ quarantined' = quarantined /\ lock' = lock
      /\ handoff' = handoff /\ req' = req /\ epoch' = epoch /\ reserved' = reserved
  BY DEF GoesOn, RoundIdle, queue, dispatch, history
<1>2. place' \in [Calls -> Places]
      /\ (round' = "idle" => \A c \in Calls : place'[c] = "none")
  BY <1>1 DEF GoesOn, RoundIdle, Batch
<1>4. Typed'
  BY <1>1, <1>2, NoneIsNobody DEF IInv, Typed
<1>5. OneDispatcher' /\ OrderIsLive' /\ HeadInFlight' /\ ReservedIsOwned' /\ Kept' /\ OnItsWay'
  BY <1>1 DEF IInv, OneDispatcher, OrderIsLive, HeadInFlight, ReservedIsOwned, Kept, OnItsWay, Live
<1>6. NewIsNowhere' /\ Current' /\ CutoverIsQuiet'
  BY <1>1, NoneIsNobody DEF IInv, NewIsNowhere, Current, CutoverIsQuiet
<1>8. CallsInRounds'
  BY <1>1, <1>2 DEF IInv, CallsInRounds, Settled
<1> QED BY <1>4, <1>5, <1>6, <1>8 DEF IInv

\* What the core keeps are all the live cards: those that wait are all suspended, and the
\* active ones are still being decided.
LEMMA InterruptedStep == ASSUME IInv, Interrupted PROVE IInv'
<1> USE DEF Places
<1>1. /\ round = "running" /\ round' = "idle" /\ answering' = None
      /\ Settled /\ Consistent(Suspended)
      /\ inputs' = inputs /\ continuation' = Suspended /\ place' = [c \in Calls |-> "none"]
      /\ cards' = cards /\ quarantined' = quarantined /\ lock' = lock
      /\ handoff' = handoff /\ req' = req /\ epoch' = epoch /\ reserved' = reserved
  BY DEF Interrupted, RoundIdle, queue, dispatch, history
<1>2. order' \in Seq(Suspended) /\ IsInjective(order') /\ ToSet(order') = Suspended
  BY CallsAreFinite, Listed DEF Interrupted
<1>3. Live(cards) = Suspended /\ \A c \in Calls : cards[c] # "resuming"
  BY <1>1 DEF IInv, Typed, Consistent, In, Live, Suspended, Settled, CallsInRounds, CardStates
<1>4. Typed'
  BY <1>1, <1>2, CallsAreFinite, NoneIsNobody DEF IInv, Typed
<1>5. OrderIsLive' /\ Kept' /\ CallsInRounds' /\ HeadInFlight' /\ ReservedIsOwned' /\ OnItsWay'
  BY <1>1, <1>2, <1>3
  DEF IInv, OrderIsLive, Kept, CallsInRounds, HeadInFlight, ReservedIsOwned, OnItsWay, Settled, Live
<1>6. OneDispatcher' /\ NewIsNowhere' /\ Current' /\ CutoverIsQuiet'
  BY <1>1, NoneIsNobody DEF IInv, OneDispatcher, NewIsNowhere, Current, CutoverIsQuiet
<1> QED BY <1>4, <1>5, <1>6 DEF IInv

\* A round that ends with questions alone leaves the cards as they are: none is active.
LEMMA QuestionedStep == ASSUME IInv, Questioned PROVE IInv'
<1> USE DEF Places
<1>1. /\ round = "running" /\ round' = "idle" /\ answering' = None /\ Settled
      /\ inputs' = inputs /\ continuation' = continuation /\ place' = [c \in Calls |-> "none"]
      /\ cards' = cards /\ order' = order /\ quarantined' = quarantined /\ lock' = lock
      /\ handoff' = handoff /\ req' = req /\ epoch' = epoch /\ reserved' = reserved
  BY DEF Questioned, RoundIdle, queue, dispatch, history
<1>4. Typed'
  BY <1>1, NoneIsNobody DEF IInv, Typed
<1>5. OneDispatcher' /\ OrderIsLive' /\ HeadInFlight' /\ ReservedIsOwned' /\ Kept' /\ OnItsWay'
  BY <1>1 DEF IInv, OneDispatcher, OrderIsLive, HeadInFlight, ReservedIsOwned, Kept, OnItsWay, Live
<1>6. NewIsNowhere' /\ Current' /\ CutoverIsQuiet' /\ CallsInRounds'
  BY <1>1, NoneIsNobody DEF IInv, NewIsNowhere, Current, CutoverIsQuiet, CallsInRounds, Settled
<1> QED BY <1>4, <1>5, <1>6 DEF IInv

\* A snapshot that cannot be shown ends every card and the continuation with it.
LEMMA SnapshotCancelledStep == ASSUME IInv, SnapshotCancelled PROVE IInv'
<1> USE DEF Places
<1>1. /\ round = "running" /\ round' = "idle" /\ answering' = None
      /\ inputs' = inputs /\ continuation' = {} /\ place' = [c \in Calls |-> "none"]
      /\ cards' = [c \in Calls |-> "none"] /\ order' = <<>>
      /\ quarantined' \in BOOLEAN /\ (quarantined => quarantined') /\ lock' = lock
      /\ handoff' = handoff /\ req' = req /\ epoch' = epoch /\ reserved' = reserved
  BY DEF SnapshotCancelled, RoundIdle, NoCards, dispatch, history, IInv, Typed
<1>2. order' \in Seq(Calls) /\ IsInjective(order') /\ ToSet(order') = {}
  BY <1>1 DEF IsInjective, ToSet
<1>4. Typed'
  BY <1>1, <1>2, NoneIsNobody DEF IInv, Typed, CardStates
<1>5. OrderIsLive' /\ Kept' /\ CallsInRounds' /\ HeadInFlight' /\ ReservedIsOwned' /\ OnItsWay'
  BY <1>1, <1>2 DEF OrderIsLive, Kept, CallsInRounds, HeadInFlight, ReservedIsOwned, OnItsWay
<1>6. OneDispatcher' /\ NewIsNowhere' /\ Current' /\ CutoverIsQuiet'
  BY <1>1, NoneIsNobody DEF IInv, OneDispatcher, NewIsNowhere, Current, CutoverIsQuiet
<1> QED BY <1>4, <1>5, <1>6 DEF IInv

\* A cancelled round is over: no card is being decided any more.
LEMMA RoundUnwoundStep == ASSUME IInv, RoundUnwound PROVE IInv'
<1> USE DEF Places
<1>1. /\ round = "closing" /\ round' = "idle" /\ answering' = None /\ Settled
      /\ inputs' = inputs /\ continuation' = continuation /\ place' = [c \in Calls |-> "none"]
      /\ cards' = cards /\ order' = order /\ quarantined' = quarantined /\ lock' = lock
      /\ handoff' = handoff /\ req' = req /\ epoch' = epoch /\ reserved' = reserved
  BY DEF RoundUnwound, RoundIdle, queue, dispatch, history
<1>4. Typed'
  BY <1>1, NoneIsNobody DEF IInv, Typed
<1>5. OneDispatcher' /\ OrderIsLive' /\ HeadInFlight' /\ ReservedIsOwned' /\ Kept' /\ OnItsWay'
  BY <1>1 DEF IInv, OneDispatcher, OrderIsLive, HeadInFlight, ReservedIsOwned, Kept, OnItsWay, Live
<1>6. NewIsNowhere' /\ Current' /\ CutoverIsQuiet' /\ CallsInRounds'
  BY <1>1, NoneIsNobody DEF IInv, NewIsNowhere, Current, CutoverIsQuiet, CallsInRounds, Settled
<1> QED BY <1>4, <1>5, <1>6 DEF IInv

----------------------------------------------------------------------------
(* The callbacks of a round                                                   *)

\* A card that is removed leaves the rest as it is.
LEMMA OneRemoved ==
  ASSUME IInv, NEW c \in Calls, Removed(c)
  PROVE  /\ cards' \in [Calls -> CardStates] /\ order' \in Seq(Calls)
         /\ \A d \in Calls : cards'[d] = IF d = c THEN "none" ELSE cards[d]
         /\ OrderIsLive' /\ HeadInFlight'
<1>1. /\ cards \in [Calls -> CardStates] /\ order \in Seq(Calls) /\ IsInjective(order)
      /\ ToSet(order) \subseteq Live(cards)
  BY DEF IInv, Typed, OrderIsLive
<1>2. cards' = [cards EXCEPT ![c] = "none"] /\ order' = RemoveFirst(order, c)
  BY DEF Removed
<1>3. /\ order' \in Seq(Calls) /\ IsInjective(order') /\ ToSet(order') = ToSet(order) \ {c}
      /\ order # <<>> /\ order[1] # c => order' # <<>> /\ order'[1] = order[1]
  BY <1>1, <1>2, Removal
<1>4. cards' \in [Calls -> CardStates] /\ \A d \in Calls : cards'[d] = IF d = c THEN "none" ELSE cards[d]
  BY <1>1, <1>2 DEF CardStates
<1>5. OrderIsLive'
  BY <1>1, <1>3, <1>4 DEF OrderIsLive, Live
<1>6. HeadInFlight'
  BY <1>3, <1>4 DEF IInv, HeadInFlight
<1> QED BY <1>3, <1>4, <1>5, <1>6

\* A call without an answer opens its card, unless everything is quarantined.
LEMMA BeginCallStep == ASSUME IInv, NEW c \in Calls, BeginCall(c) PROVE IInv'
<1> USE DEF Places
<1>1. /\ round = "running" /\ place[c] = "todo" /\ round' = round /\ answering' = answering
      /\ inputs' = inputs /\ continuation' = continuation
      /\ order' = order /\ quarantined' = quarantined /\ lock' = lock
      /\ handoff' = handoff /\ req' = req /\ epoch' = epoch /\ reserved' = reserved
      /\ cards \in [Calls -> CardStates]
      /\ place \in [Calls -> Places]
  BY DEF BeginCall, dispatch, history, IInv, Typed
<1>2. /\ cards' \in [Calls -> CardStates]
      /\ \A d \in Calls : cards'[d] = cards[d] \/ (d = c /\ cards[d] = "none" /\ cards'[d] = "active")
      /\ place' \in [Calls -> Places]
      /\ \A d \in Calls : place'[d] = place[d] \/ d = c
      /\ cards'[c] = "active" => place'[c] = "deciding" \/ cards[c] = "active"
  BY <1>1 DEF BeginCall, CardStates
<1>3. cards[c] # "active"
  BY <1>1 DEF IInv, CallsInRounds
<1>4. Typed'
  BY <1>1, <1>2, NoneIsNobody DEF IInv, Typed
<1>5. OneDispatcher' /\ NewIsNowhere' /\ Current' /\ CutoverIsQuiet'
  BY <1>1, NoneIsNobody DEF IInv, OneDispatcher, NewIsNowhere, Current, CutoverIsQuiet
<1>6. OrderIsLive' /\ HeadInFlight' /\ ReservedIsOwned'
  BY <1>1, <1>2 DEF IInv, OrderIsLive, HeadInFlight, ReservedIsOwned, Live
<1>7. CallsInRounds' /\ Kept' /\ OnItsWay'
  BY <1>1, <1>2, <1>3 DEF IInv, CallsInRounds, Kept, OnItsWay
<1> QED BY <1>4, <1>5, <1>6, <1>7 DEF IInv

\* The answered call takes its card: the reservation is over, and with it its handoff.
LEMMA ClaimStep == ASSUME IInv, NEW c \in Calls, Claim(c) PROVE IInv'
<1> USE DEF Places
<1>1. /\ round = "running" /\ cards[c] = "resuming" /\ round' = round /\ answering' = answering
      /\ inputs' = inputs /\ continuation' = continuation
      /\ quarantined' = quarantined /\ lock' = lock
      /\ handoff' = Closed(c) /\ req' = req /\ epoch' = epoch /\ reserved' = reserved
      /\ cards \in [Calls -> CardStates] /\ order \in Seq(Calls)
      /\ place \in [Calls -> Places]
      /\ place' = [place EXCEPT ![c] = "deciding"]
  BY DEF Claim, dispatch, history, IInv, Typed
<1>2. /\ cards' \in [Calls -> CardStates] /\ order' \in Seq(Calls)
      /\ \A d \in Calls : d # c => cards'[d] = cards[d]
      /\ cards'[c] = IF quarantined THEN "none" ELSE "active"
      /\ OrderIsLive' /\ HeadInFlight'
  <2>1. CASE quarantined
    BY <2>1, OneRemoved DEF Claim
  <2>2. CASE ~quarantined
    <3>1. cards' = [cards EXCEPT ![c] = "active"] /\ order' = order
      BY <2>2 DEF Claim
    <3>2. cards' \in [Calls -> CardStates] /\ \A d \in Calls : cards'[d] = IF d = c THEN "active" ELSE cards[d]
      BY <3>1, <1>1 DEF CardStates
    <3>3. OrderIsLive' /\ HeadInFlight'
      BY <3>1, <3>2 DEF IInv, OrderIsLive, HeadInFlight, Live
    <3> QED BY <2>2, <3>1, <3>2, <3>3, <1>1
  <2> QED BY <2>1, <2>2
<1>3. handoff' \in {handoff, None}
  BY <1>1 DEF Closed
<1>4. Typed'
  BY <1>1, <1>2, <1>3, NoneIsNobody DEF IInv, Typed
<1>5. OneDispatcher' /\ NewIsNowhere' /\ Current' /\ CutoverIsQuiet'
  BY <1>1, <1>3, NoneIsNobody DEF IInv, OneDispatcher, NewIsNowhere, Current, CutoverIsQuiet
<1>6. ReservedIsOwned'
  <2> SUFFICES ASSUME NEW d \in Calls, cards'[d] = "resuming" PROVE FALSE
    BY DEF ReservedIsOwned
  <2>1. d # c /\ cards[d] = "resuming"
    BY <1>2
  <2> QED BY <2>1, <1>1 DEF IInv, HeadInFlight
<1>7. CallsInRounds' /\ Kept' /\ OnItsWay'
  BY <1>1, <1>2 DEF IInv, CallsInRounds, Kept, OnItsWay
<1> QED BY <1>2, <1>4, <1>5, <1>6, <1>7 DEF IInv

\* A decision removes its card or makes it wait for the user; it never reserves one.
LEMMA EvaluatedStep ==
  ASSUME IInv, NEW c \in Calls, Decided(c) \/ Asks(c) \/ CallbackCancelled(c)
  PROVE  IInv'
<1> USE DEF Places
<1>1. /\ round # "idle" /\ place[c] \in {"deciding", "unbound"} /\ round' = round /\ answering' = answering
      /\ inputs' = inputs /\ continuation' = continuation
      /\ quarantined' = quarantined /\ lock' = lock
      /\ handoff' = handoff /\ req' = req /\ epoch' = epoch /\ reserved' = reserved
      /\ cards \in [Calls -> CardStates] /\ order \in Seq(Calls)
      /\ place \in [Calls -> Places]
      /\ \E p \in {"none", "suspended", "question"} : place' = [place EXCEPT ![c] = p]
  BY DEF Decided, Asks, CallbackCancelled, dispatch, history, IInv, Typed
<1>2. /\ cards' \in [Calls -> CardStates] /\ order' \in Seq(Calls)
      /\ \A d \in Calls : d # c => cards'[d] = cards[d]
      /\ cards'[c] # "active" /\ (cards'[c] = "resuming" => cards[c] = "resuming")
      /\ OrderIsLive' /\ HeadInFlight'
  <2>1. CASE Removed(c)
    BY <2>1, OneRemoved
  <2>2. CASE cards' = cards /\ order' = order /\ cards[c] # "active"
    BY <2>2, <1>1 DEF IInv, OrderIsLive, HeadInFlight, Live
  <2>3. CASE cards' = [cards EXCEPT ![c] = "pending"] /\ order' = order /\ cards[c] = "active"
    <3>1. cards' = [cards EXCEPT ![c] = "pending"] /\ order' = order /\ cards[c] = "active"
      BY <2>3
    <3>2. cards' \in [Calls -> CardStates] /\ \A d \in Calls : cards'[d] = IF d = c THEN "pending" ELSE cards[d]
      BY <3>1, <1>1 DEF CardStates
    <3>3. OrderIsLive' /\ HeadInFlight'
      BY <3>1, <3>2 DEF IInv, OrderIsLive, HeadInFlight, Live
    <3> QED BY <3>1, <3>2, <3>3, <1>1
  <2>4. place[c] = "unbound" => cards[c] # "active"
    BY DEF IInv, CallsInRounds
  <2>5. CASE Asks(c)
    <3>1. cards' = [cards EXCEPT ![c] = IF @ = "active" THEN "pending" ELSE @] /\ order' = order
      BY <2>5 DEF Asks
    <3>2. cards[c] # "active" => cards' = cards
      BY <3>1, <1>1
    <3> QED BY <3>1, <3>2, <2>2, <2>3
  <2> QED BY <2>1, <2>2, <2>4, <2>5, <1>1 DEF Decided, CallbackCancelled
<1>3. place' \in [Calls -> Places]
  BY <1>1
<1>4. Typed'
  <2> USE DEF IInv, Typed
  <2>1. handoff' \in {None} \cup Requests /\ lock' \in {None} \cup Requests
    BY <1>1
  <2> QED BY <1>1, <1>2, <1>3, <2>1
<1>5. OneDispatcher' /\ NewIsNowhere' /\ Current' /\ CutoverIsQuiet'
  BY <1>1, NoneIsNobody DEF IInv, OneDispatcher, NewIsNowhere, Current, CutoverIsQuiet
<1>6. ReservedIsOwned'
  BY <1>1, <1>2 DEF IInv, ReservedIsOwned
<1>7. CallsInRounds' /\ Kept' /\ OnItsWay'
  BY <1>1, <1>2 DEF IInv, CallsInRounds, Kept, OnItsWay
<1> QED BY <1>2, <1>4, <1>5, <1>6, <1>7 DEF IInv

----------------------------------------------------------------------------
(* The requests                                                               *)

\* The part of the invariant that a step of a request leaves alone with the cards.
LEMMA CardsStay ==
  ASSUME IInv, cards' = cards, order' = order, round' = round, place' = place
  PROVE  OrderIsLive' /\ HeadInFlight' /\ CallsInRounds'
BY DEF IInv, OrderIsLive, HeadInFlight, CallsInRounds, Live

\* A request that arrives was nowhere, so its new kind and card change nothing.
LEMMA ArriveStep ==
  ASSUME IInv, NEW r \in Requests, NEW kind \in Kinds, NEW card \in {None} \cup Calls,
         Arrive(r, kind, card)
  PROVE  IInv'
<1>1. /\ req[r].at = "new"
      /\ cards' = cards /\ order' = order /\ quarantined' = quarantined /\ lock' = lock
      /\ handoff' = handoff /\ round' = round /\ place' = place /\ answering' = answering
      /\ inputs' = inputs /\ continuation' = continuation
      /\ epoch' = epoch /\ reserved' = reserved
  BY DEF Arrive, queue, core, history
<1> DEFINE new == [at |-> "waiting", kind |-> kind, card |-> card, superseded |-> None]
<1>2. new \in Request /\ new.at = "waiting" /\ req' = [req EXCEPT ![r] = new]
      /\ (new.kind # "answer" => new.card = None)
  BY DEF Arrive, Request, Stops
<1> HIDE DEF new
<1>3. req \in [Requests -> Request] /\ req' \in [Requests -> Request]
      /\ \A s \in Requests : req'[s] = IF s = r THEN new ELSE req[s]
  BY <1>2 DEF IInv, Typed, Request
<1>4. Typed'
  BY <1>1, <1>2, <1>3 DEF IInv, Typed, Request
<1>5. r # lock /\ r # handoff /\ r \notin ToSet(inputs) /\ ToSet(inputs) \subseteq Requests
  BY <1>1, Lines DEF IInv, NewIsNowhere, Typed
<1>6. OneDispatcher' /\ NewIsNowhere' /\ CutoverIsQuiet'
  BY <1>1, <1>2, <1>3 DEF IInv, OneDispatcher, NewIsNowhere, CutoverIsQuiet, CutoverStops
<1>7. ReservedIsOwned' /\ OnItsWay' /\ Kept'
  BY <1>1, <1>2, <1>3, <1>5 DEF IInv, ReservedIsOwned, OnItsWay, Kept, Live
<1>8. Current'
  BY <1>1, <1>2, <1>3, <1>5 DEF IInv, Current
<1> QED BY <1>1, <1>4, <1>6, <1>7, <1>8, CardsStay DEF IInv

\* A request that leaves the line or has read its output.
LEMMA DoneStep ==
  ASSUME IInv, NEW r \in Requests, Withdraw(r) \/ Finalize(r)
  PROVE  IInv'
<1>1. /\ Go(r, "done") /\ req[r].at \in {"waiting", "reading"}
      /\ cards' = cards /\ order' = order /\ quarantined' = quarantined /\ lock' = lock
      /\ round' = round /\ place' = place /\ answering' = answering
      /\ inputs' = inputs /\ continuation' = continuation
      /\ epoch' = epoch /\ reserved' = reserved
      /\ handoff' = handoff \/ (handoff' = None /\ handoff = r /\ cards[req[r].card] = "none")
  BY DEF Withdraw, Finalize, queue, core, history
<1>2. /\ req' \in [Requests -> Request] /\ req \in [Requests -> Request]
      /\ \A s \in Requests : /\ s # r => req'[s] = req[s]
                             /\ req'[s].kind = req[s].kind /\ req'[s].card = req[s].card
      /\ req'[r].at = "done"
  <2>1. req \in [Requests -> Request] /\ "done" \in Stops
    BY DEF IInv, Typed, Request, Stops
  <2> QED BY <1>1, <2>1, Moves
<1>3. ToSet(inputs) \subseteq Requests
  BY Lines DEF IInv, Typed
<1>4. Typed'
  BY <1>1, <1>2, NoneIsNobody DEF IInv, Typed, Request
<1>6. OneDispatcher' /\ NewIsNowhere' /\ CutoverIsQuiet'
  BY <1>1, <1>2, NoneIsNobody DEF IInv, OneDispatcher, NewIsNowhere, CutoverIsQuiet, CutoverStops
<1>5. Kept'
  BY <1>1 DEF IInv, Kept, Live
<1>7. ReservedIsOwned'
  <2> SUFFICES ASSUME NEW c \in Calls, cards[c] = "resuming"
               PROVE  \E s \in {lock', handoff'} \ {None} : req'[s].kind = "answer" /\ req'[s].card = c
    BY <1>1 DEF ReservedIsOwned
  <2>1. PICK s \in {lock, handoff} \ {None} : req[s].kind = "answer" /\ req[s].card = c
    BY DEF IInv, ReservedIsOwned
  <2>2. s \in Requests
    BY DEF IInv, Typed
  <2>3. s \in {lock', handoff'}
    BY <1>1, <2>1
  <2> QED BY <1>2, <2>1, <2>2, <2>3
<1>8. Current' /\ OnItsWay'
  BY <1>1, <1>2, <1>3 DEF IInv, Current, OnItsWay
<1> QED BY <1>1, <1>4, <1>5, <1>6, <1>7, <1>8, CardsStay DEF IInv

\* An answer reserves the head of the queue, when nothing else is reserved, or is refused.
LEMMA AnswerEntersStep == ASSUME IInv, NEW r \in Requests, AnswerEnters(r) PROVE IInv'
<1> DEFINE c == req[r].card
<1>1. /\ lock = None /\ req[r].kind = "answer"
      /\ order' = order /\ quarantined' = quarantined
      /\ round' = round /\ place' = place /\ answering' = answering /\ handoff' = handoff
      /\ inputs' = inputs /\ continuation' = continuation /\ epoch' = epoch
  BY DEF AnswerEnters, Enters, core
<1>2. /\ req \in [Requests -> Request] /\ ToSet(inputs) \subseteq Requests /\ {"done", "prepared"} \subseteq Stops
      /\ \A s \in Requests : req[s].at \notin CutoverStops \cup {"prepared", "taken"}
  BY <1>1, Lines, NoneIsNobody DEF IInv, Typed, Request, Stops, OneDispatcher, CutoverStops
<1>3. CASE Reservable(c)
  <2>1. /\ lock' = r /\ Go(r, "prepared") /\ cards' = [cards EXCEPT ![c] = "resuming"]
        /\ reserved' = [reserved EXCEPT ![r] = epoch]
        /\ ~quarantined /\ order # <<>> /\ c = order[1] /\ cards[c] = "pending"
    BY <1>3 DEF AnswerEnters, Reservable
  <2>2. c \in Calls
    BY <2>1, Lines DEF IInv, Typed
  <2>3. /\ req' \in [Requests -> Request]
        /\ \A s \in Requests : /\ s # r => req'[s] = req[s]
                               /\ req'[s].kind = req[s].kind /\ req'[s].card = req[s].card
        /\ req'[r].at = "prepared"
    BY <1>2, <2>1, Moves
  <2> HIDE DEF c
  <2>4. cards' \in [Calls -> CardStates] /\ \A d \in Calls : cards'[d] = IF d = c THEN "resuming" ELSE cards[d]
    BY <2>1, <2>2 DEF IInv, Typed, CardStates
  <2>5. \A d \in Calls : cards[d] # "resuming"
    BY <2>1 DEF IInv, HeadInFlight
  <2>6. Typed'
    <3>1. Typed
      BY DEF IInv
    <3>2. cards' \in [Calls -> CardStates]
      BY <2>4
    <3>3. req' \in [Requests -> Request]
      BY <2>3
    <3>4. \A s \in Requests : req'[s].kind # "answer" => req'[s].card = None
      BY <2>3, <3>1 DEF Typed
    <3>5. reserved' \in [Requests -> Nat] /\ lock' \in {None} \cup Requests
      BY <2>1, <3>1 DEF Typed
    <3> HIDE DEF IInv
    <3>6. /\ order' \in Seq(Calls) /\ quarantined' \in BOOLEAN /\ handoff' \in {None} \cup Requests
          /\ round' \in {"idle", "running", "closing"}
          /\ place' \in [Calls -> Places]
          /\ answering' \in {None} \cup Requests /\ inputs' \in Seq(Requests)
          /\ continuation' \subseteq Calls /\ epoch' \in Nat
      BY <1>1, <3>1 DEF Typed
    <3> QED BY <3>2, <3>3, <3>4, <3>5, <3>6 DEF Typed, Request
  <2>7. OneDispatcher' /\ NewIsNowhere' /\ CutoverIsQuiet'
    BY <1>1, <1>2, <2>1, <2>3, NoneIsNobody DEF IInv, OneDispatcher, NewIsNowhere, CutoverIsQuiet, CutoverStops
  <2>8. OrderIsLive' /\ HeadInFlight' /\ CallsInRounds' /\ Kept'
    BY <1>1, <2>1, <2>4, <2>5 DEF IInv, OrderIsLive, HeadInFlight, CallsInRounds, Kept, Live
  <2>9. ReservedIsOwned'
    <3> SUFFICES ASSUME NEW d \in Calls, cards'[d] = "resuming"
                 PROVE  r \in {lock', handoff'} \ {None} /\ req'[r].kind = "answer" /\ req'[r].card = d
      BY DEF ReservedIsOwned
    <3> QED BY <1>1, <2>1, <2>3, <2>4, <2>5, NoneIsNobody DEF c
  <2>10. OnItsWay'
    <3> SUFFICES ASSUME NEW d \in Calls, cards'[d] = "resuming"
                 PROVE  r = lock' /\ req'[r].at = "prepared" /\ req'[r].kind = "answer" /\ req'[r].card = d
      BY DEF OnItsWay
    <3> QED BY <1>1, <2>1, <2>3, <2>4, <2>5 DEF c
  <2>11. Current'
    BY <1>1, <1>2, <2>1, <2>3 DEF IInv, Typed, Current
  <2> QED BY <2>6, <2>7, <2>8, <2>9, <2>10, <2>11 DEF IInv
<1>4. CASE ~Reservable(c)
  <2>1. Go(r, "done") /\ lock' = lock /\ cards' = cards /\ reserved' = reserved
    BY <1>4 DEF AnswerEnters
  <2>3. /\ req' \in [Requests -> Request]
        /\ \A s \in Requests : /\ s # r => req'[s] = req[s]
                               /\ req'[s].kind = req[s].kind /\ req'[s].card = req[s].card
        /\ req'[r].at = "done"
    BY <1>2, <2>1, Moves
  <2>6. Typed'
    BY <1>1, <2>1, <2>3 DEF IInv, Typed, Request
  <2>7. OneDispatcher' /\ NewIsNowhere' /\ CutoverIsQuiet'
    BY <1>1, <1>2, <2>1, <2>3, NoneIsNobody DEF IInv, OneDispatcher, NewIsNowhere, CutoverIsQuiet, CutoverStops
  <2>8. Kept'
    BY <1>1, <2>1 DEF IInv, Kept, Live
  <2>10. ReservedIsOwned'
    <3> SUFFICES ASSUME NEW d \in Calls, cards[d] = "resuming"
                 PROVE  \E s \in {lock, handoff} \ {None} : req'[s].kind = "answer" /\ req'[s].card = d
      BY <1>1, <2>1 DEF ReservedIsOwned
    <3>1. PICK s \in {lock, handoff} \ {None} : req[s].kind = "answer" /\ req[s].card = d
      BY DEF IInv, ReservedIsOwned
    <3>2. s \in Requests
      BY DEF IInv, Typed
    <3> QED BY <2>3, <3>1, <3>2
  <2>9. OnItsWay' /\ Current'
    BY <1>1, <1>2, <2>1, <2>3 DEF IInv, OnItsWay, Current
  <2> QED BY <1>1, <2>1, <2>6, <2>7, <2>8, <2>9, <2>10, CardsStay DEF IInv
<1> QED BY <1>3, <1>4


\* A cutover begins: from here on everything is quarantined, and nobody else is dispatching.
LEMMA PublishStep ==
  ASSUME IInv, NEW r \in Requests, NEW kind \in {"fresh", "interrupt"}, Enters(r, kind), Publish(r),
         UNCHANGED <<cards, order, handoff, core, dirty, reserved>>
  PROVE  IInv'
<1> DEFINE old == IF handoff = None THEN None ELSE req[handoff].card
           new == [req[r] EXCEPT !.at = "cancelling", !.superseded = old]
<1>1. /\ lock = None /\ lock' = r /\ req[r].kind = kind /\ quarantined' = TRUE /\ epoch' = epoch + 1
      /\ order' = order /\ cards' = cards /\ reserved' = reserved
      /\ round' = round /\ place' = place /\ answering' = answering /\ handoff' = handoff
      /\ inputs' = inputs /\ continuation' = continuation
  BY DEF Enters, Publish, core
<1>2. /\ req \in [Requests -> Request] /\ ToSet(inputs) \subseteq Requests
      /\ \A s \in Requests : req[s].at \notin CutoverStops \cup {"prepared", "taken"}
  BY <1>1, Lines, NoneIsNobody DEF IInv, Typed, Request, OneDispatcher, CutoverStops
<1>3. old \in {None} \cup Calls
  BY <1>2 DEF IInv, Typed, Request
<1>4. req' = [req EXCEPT ![r].at = "cancelling", ![r].superseded = old]
  BY DEF Publish
<1> HIDE DEF old
<1>5. /\ req' \in [Requests -> Request]
      /\ \A s \in Requests : /\ s # r => req'[s] = req[s]
                             /\ req'[s].kind = req[s].kind /\ req'[s].card = req[s].card
      /\ req'[r].at = "cancelling"
  BY <1>2, <1>3, <1>4 DEF Request, Stops
<1>6. Typed'
  BY <1>1, <1>5 DEF IInv, Typed, Request
<1>7. OneDispatcher' /\ NewIsNowhere' /\ CutoverIsQuiet'
  BY <1>1, <1>2, <1>5, NoneIsNobody DEF IInv, OneDispatcher, NewIsNowhere, CutoverIsQuiet, CutoverStops
<1>8. Kept'
  BY <1>1 DEF IInv, Kept, Live
<1>9. ReservedIsOwned'
  <2> SUFFICES ASSUME NEW c \in Calls, cards[c] = "resuming"
               PROVE  \E s \in {lock', handoff'} \ {None} : req'[s].kind = "answer" /\ req'[s].card = c
    BY <1>1 DEF ReservedIsOwned
  <2>1. PICK s \in {lock, handoff} \ {None} : req[s].kind = "answer" /\ req[s].card = c
    BY DEF IInv, ReservedIsOwned
  <2>2. s \in Requests /\ s = handoff'
    BY <1>1 DEF IInv, Typed
  <2> QED BY <1>5, <2>1, <2>2
<1>10. OnItsWay' /\ Current'
  BY <1>1, <1>2, <1>5 DEF IInv, OnItsWay, Current
<1> QED BY <1>1, <1>6, <1>7, <1>8, <1>9, <1>10, CardsStay DEF IInv

\* Without a card and without a quarantine a fresh input is prepared, and a cancellation
\* goes to the round, which it may do without the lock.
LEMMA EntersPlainStep ==
  ASSUME IInv, NEW r \in Requests, NEW kind \in {"fresh", "interrupt"}, Enters(r, kind), ~NeedsCutover,
         IF kind = "fresh" THEN lock' = r /\ Go(r, "prepared") ELSE lock' = lock /\ Go(r, "plain"),
         UNCHANGED <<quarantined, epoch>>,
         UNCHANGED <<cards, order, handoff, core, dirty, reserved>>
  PROVE  IInv'
<1>1. /\ lock = None /\ req[r].kind = kind /\ ~quarantined /\ Live(cards) = {}
      /\ quarantined' = quarantined /\ epoch' = epoch
      /\ order' = order /\ cards' = cards /\ reserved' = reserved
      /\ round' = round /\ place' = place /\ answering' = answering /\ handoff' = handoff
      /\ inputs' = inputs /\ continuation' = continuation
  BY DEF Enters, NeedsCutover, core
<1>2. /\ req \in [Requests -> Request] /\ ToSet(inputs) \subseteq Requests /\ {"plain", "prepared"} \subseteq Stops
      /\ \A s \in Requests : req[s].at \notin CutoverStops \cup {"prepared", "taken"}
  BY <1>1, Lines, NoneIsNobody DEF IInv, Typed, Request, Stops, OneDispatcher, CutoverStops
<1>3. PICK stop \in {"prepared", "plain"} : Go(r, stop) /\ (stop = "prepared" => lock' = r) /\ lock' \in {r, None}
  BY <1>1
<1>5. /\ req' \in [Requests -> Request]
      /\ \A s \in Requests : /\ s # r => req'[s] = req[s]
                             /\ req'[s].kind = req[s].kind /\ req'[s].card = req[s].card
      /\ req'[r].at = stop
  BY <1>2, <1>3, Moves
<1>6. Typed'
  BY <1>1, <1>3, <1>5 DEF IInv, Typed, Request
<1>7. OneDispatcher' /\ NewIsNowhere' /\ CutoverIsQuiet'
  BY <1>1, <1>2, <1>3, <1>5, NoneIsNobody DEF IInv, OneDispatcher, NewIsNowhere, CutoverIsQuiet, CutoverStops
<1>8. \A c \in Calls : cards'[c] = "none"
  BY <1>1 DEF Live
<1>9. Kept' /\ ReservedIsOwned' /\ OnItsWay'
  BY <1>1, <1>8 DEF IInv, Kept, Live, ReservedIsOwned, OnItsWay
<1>10. Current'
  BY <1>1, <1>2, <1>5 DEF IInv, Current
<1> QED BY <1>1, <1>6, <1>7, <1>9, <1>10, CardsStay DEF IInv

\* A fresh input or a cancellation acquires the lock.
LEMMA EntersStep == ASSUME IInv, NEW r \in Requests, FreshEnters(r) \/ InterruptEnters(r) PROVE IInv'
<1>1. CASE FreshEnters(r)
  BY <1>1, PublishStep, EntersPlainStep DEF FreshEnters
<1>2. CASE InterruptEnters(r)
  BY <1>2, PublishStep, EntersPlainStep DEF InterruptEnters
<1> QED BY <1>1, <1>2

\* The round is cancelled: the calls not yet begun and the accepted inputs are dropped, and
\* with an answer among these the continuation it would have resumed.
LEMMA CancelRoundStep == ASSUME IInv, NEW r \in Requests, CancelRound(r) PROVE IInv'
<1> DEFINE stop == IF req[r].at = "plain" THEN "done" ELSE "unwinding"
<1>1. /\ req[r].at \in {"cancelling", "plain"} /\ Go(r, stop)
      /\ round' = IF round = "running" THEN "closing" ELSE round
      /\ place' = [c \in Calls |-> IF place[c] = "todo" THEN "none" ELSE place[c]]
      /\ inputs' = <<>>
      /\ continuation' = IF \E s \in ToSet(inputs) : req[s].kind = "answer" THEN {} ELSE continuation
      /\ cards' = cards /\ order' = order /\ quarantined' = quarantined /\ lock' = lock
      /\ handoff' = handoff /\ answering' = answering /\ epoch' = epoch /\ reserved' = reserved
  BY DEF CancelRound, queue, history
<1>2. /\ req \in [Requests -> Request] /\ ToSet(inputs) \subseteq Requests /\ stop \in Stops
      /\ inputs' \in Seq(Requests) /\ ToSet(inputs') = {}
  BY <1>1, Lines DEF IInv, Typed, Request, Stops
<1>3. /\ req' \in [Requests -> Request]
      /\ \A s \in Requests : /\ s # r => req'[s] = req[s]
                             /\ req'[s].kind = req[s].kind /\ req'[s].card = req[s].card
      /\ req'[r].at = stop
  BY <1>1, <1>2, Moves
<1> USE DEF Places
<1>4. round' # "running" /\ round' \in {"idle", "closing"} /\ (round' = "idle" <=> round = "idle")
  BY <1>1 DEF IInv, Typed
<1>5. /\ place' \in [Calls -> Places]
      /\ \A c \in Calls : place'[c] = IF place[c] = "todo" THEN "none" ELSE place[c]
  BY <1>1 DEF IInv, Typed
<1>6. Typed'
  <2>1. continuation' \in SUBSET Calls
    BY <1>1 DEF IInv, Typed
  <2> QED BY <1>1, <1>2, <1>3, <1>4, <1>5, <2>1 DEF IInv, Typed, Request
<1>7. OneDispatcher' /\ NewIsNowhere' /\ CutoverIsQuiet'
  BY <1>1, <1>2, <1>3, <1>4, NoneIsNobody DEF IInv, OneDispatcher, NewIsNowhere, CutoverIsQuiet, CutoverStops
<1>8. OrderIsLive' /\ HeadInFlight' /\ CallsInRounds' /\ Kept'
  BY <1>1, <1>4, <1>5 DEF IInv, OrderIsLive, HeadInFlight, CallsInRounds, Kept, Live
<1>9. ReservedIsOwned'
  <2> SUFFICES ASSUME NEW c \in Calls, cards[c] = "resuming"
               PROVE  \E s \in {lock', handoff'} \ {None} : req'[s].kind = "answer" /\ req'[s].card = c
    BY <1>1 DEF ReservedIsOwned
  <2>1. PICK s \in {lock, handoff} \ {None} : req[s].kind = "answer" /\ req[s].card = c
    BY DEF IInv, ReservedIsOwned
  <2>2. s \in Requests /\ s \in {lock', handoff'}
    BY <1>1, <2>1 DEF IInv, Typed
  <2> QED BY <1>3, <2>1, <2>2
<1>10. OnItsWay'
  <2> SUFFICES ASSUME NEW c \in Calls, cards[c] = "resuming", continuation' # {}
               PROVE  \E s \in Requests : /\ s = lock' /\ req'[s].at = "prepared"
                                           /\ req'[s].kind = "answer" /\ req'[s].card = c
    BY <1>1 DEF OnItsWay
  <2>1. PICK s \in Requests : /\ s = lock /\ req[s].at = "prepared"
                              /\ req[s].kind = "answer" /\ req[s].card = c
    BY <1>1 DEF IInv, OnItsWay
  <2> QED BY <1>1, <1>3, <2>1
<1>11. Current'
  BY <1>1, <1>2, <1>3, <1>4 DEF IInv, Current
<1> QED BY <1>6, <1>7, <1>8, <1>9, <1>10, <1>11 DEF IInv

\* Who is in a cutover holds the lock and reserved nothing: what is reserved is handed over,
\* and the request that accepted it is not on its way any more.
LEMMA InCutover ==
  ASSUME IInv, NEW r \in Requests, req[r].at \in CutoverStops
  PROVE  /\ lock = r /\ quarantined /\ req[r].kind # "answer"
         /\ \A s \in Requests : s # r => req[s].at \notin CutoverStops \cup {"prepared", "taken"}
         /\ \A c \in Calls : cards[c] = "resuming" =>
               handoff \in Requests /\ req[handoff].kind = "answer" /\ req[handoff].card = c
         /\ req[r].at # "cancelling" =>
               inputs = <<>> /\ round # "running"
               /\ ((\E c \in Calls : cards[c] = "resuming") => continuation = {})
<1>1. lock = r /\ quarantined /\ req[r].kind # "answer"
  BY DEF IInv, OneDispatcher, CutoverIsQuiet, CutoverStops
<1>2. \A s \in Requests : s # r => req[s].at \notin CutoverStops \cup {"prepared", "taken"}
  BY <1>1 DEF IInv, OneDispatcher, CutoverStops
<1>3. \A c \in Calls : cards[c] = "resuming" =>
               handoff \in Requests /\ req[handoff].kind = "answer" /\ req[handoff].card = c
  BY <1>1, NoneIsNobody DEF IInv, Typed, ReservedIsOwned
<1>4. req[r].at # "cancelling" => inputs = <<>> /\ round # "running"
  BY DEF IInv, CutoverIsQuiet, CutoverStops
<1>5. ToSet(<<>>) = {}
  BY DEF ToSet
<1>6. ASSUME req[r].at # "cancelling", NEW c \in Calls, cards[c] = "resuming" PROVE continuation = {}
  BY <1>1, <1>4, <1>5, <1>6 DEF IInv, OnItsWay, CutoverStops
<1> QED BY <1>1, <1>2, <1>3, <1>4, <1>6

\* A cutover fails or is cut off: the cards stay as they are, and so does their quarantine.
LEMMA AbortStep ==
  ASSUME IInv, NEW r \in Requests, req[r].at \in CutoverStops, NEW stop \in {"done", "torn"},
         Go(r, stop), lock' \in {lock, None}, UNCHANGED <<queue, handoff, core, history>>
  PROVE  IInv'
<1>1. /\ cards' = cards /\ order' = order /\ quarantined' = quarantined
      /\ round' = round /\ place' = place /\ answering' = answering /\ handoff' = handoff
      /\ inputs' = inputs /\ continuation' = continuation /\ epoch' = epoch /\ reserved' = reserved
  BY DEF queue, core, history
<1>2. req \in [Requests -> Request] /\ ToSet(inputs) \subseteq Requests /\ stop \in Stops
  BY Lines DEF IInv, Typed, Request, Stops
<1>3. /\ req' \in [Requests -> Request]
      /\ \A s \in Requests : /\ s # r => req'[s] = req[s]
                             /\ req'[s].kind = req[s].kind /\ req'[s].card = req[s].card
      /\ req'[r].at = stop
  BY <1>2, Moves
<1>4. Typed'
  BY <1>1, <1>3 DEF IInv, Typed, Request
<1>5. OneDispatcher' /\ NewIsNowhere' /\ CutoverIsQuiet'
  BY <1>1, <1>3, InCutover, NoneIsNobody DEF IInv, OneDispatcher, NewIsNowhere, CutoverIsQuiet, CutoverStops
<1>6. Kept'
  BY <1>1 DEF IInv, Kept, Live
<1>7. ReservedIsOwned'
  <2> SUFFICES ASSUME NEW c \in Calls, cards[c] = "resuming"
               PROVE  handoff' # None /\ req'[handoff'].kind = "answer" /\ req'[handoff'].card = c
    BY <1>1 DEF ReservedIsOwned
  <2> QED BY <1>1, <1>3, InCutover, NoneIsNobody
<1>8. OnItsWay'
  <2> SUFFICES ASSUME NEW c \in Calls, cards[c] = "resuming", continuation # {}
               PROVE  \E s \in ToSet(inputs) : req'[s].kind = "answer"
    BY <1>1 DEF OnItsWay
  <2>1. \E s \in ToSet(inputs) : req[s].kind = "answer"
    BY InCutover DEF IInv, OnItsWay, CutoverStops
  <2> QED BY <1>2, <1>3, <2>1
<1>9. Current'
  BY <1>1, <1>2, <1>3 DEF IInv, Current
<1> QED BY <1>1, <1>4, <1>5, <1>6, <1>7, <1>8, <1>9, CardsStay DEF IInv

\* A cutover whose cancellation raises, or whose task is cancelled.
LEMMA FailsStep == ASSUME IInv, NEW r \in Requests, CancelFails(r) \/ Torn(r) PROVE IInv'
<1>1. CASE CancelFails(r)
  BY <1>1, AbortStep DEF CancelFails, Failed, CutoverStops
<1>2. CASE Torn(r)
  BY <1>2, AbortStep DEF Torn, Failed, CutoverStops
<1> QED BY <1>1, <1>2

\* The answer that the cutover superseded is removed, if it is still unclaimed; whatever is
\* then in flight fails the cutover, and nothing else can be on its way to the core.
LEMMA CompleteStep == ASSUME IInv, NEW r \in Requests, Complete(r) PROVE IInv'
<1> DEFINE c == req[r].superseded
<1>1. /\ req[r].at = "unwinding" /\ Consumed(r)
      /\ handoff' = IF c = None THEN handoff ELSE Closed(c)
      /\ round' = round /\ place' = place /\ answering' = answering
      /\ inputs' = inputs /\ continuation' = continuation /\ epoch' = epoch /\ reserved' = reserved
  BY DEF Complete, core, history
<1>2. \E stop \in {"done", "prepared", "discarding"} :
        /\ Go(r, stop) /\ lock' \in {lock, None} /\ (stop # "done" => lock' = lock)
        /\ quarantined' \in BOOLEAN /\ (stop = "discarding" => quarantined' = quarantined)
        /\ (stop = "prepared" \/ quarantined' # quarantined => Live(cards') = {})
  <2>1. quarantined \in BOOLEAN
    BY DEF IInv, Typed
  <2>2. CASE In(cards', {"active", "resuming"}) # {}
    BY <2>1, <2>2 DEF Complete, Failed
  <2>3. CASE In(cards', {"active", "resuming"}) = {} /\ Live(cards') = {}
    BY <2>1, <2>3 DEF Complete, CutOver
  <2>4. CASE In(cards', {"active", "resuming"}) = {} /\ Live(cards') # {}
    BY <2>1, <2>4 DEF Complete
  <2> QED BY <2>2, <2>3, <2>4
<1>3. PICK stop \in {"done", "prepared", "discarding"} :
        /\ Go(r, stop) /\ lock' \in {lock, None} /\ (stop # "done" => lock' = lock)
        /\ quarantined' \in BOOLEAN /\ (stop = "discarding" => quarantined' = quarantined)
        /\ (stop = "prepared" \/ quarantined' # quarantined => Live(cards') = {})
  BY <1>2
<1>4. /\ lock = r /\ quarantined /\ req[r].kind # "answer"
      /\ \A s \in Requests : s # r => req[s].at \notin CutoverStops \cup {"prepared", "taken"}
      /\ \A d \in Calls : cards[d] = "resuming" =>
               handoff \in Requests /\ req[handoff].kind = "answer" /\ req[handoff].card = d
      /\ inputs = <<>> /\ ToSet(inputs) = {} /\ round # "running"
      /\ \A d \in Calls : cards[d] = "resuming" => continuation = {}
  BY <1>1, InCutover DEF CutoverStops, ToSet
<1>5. /\ req \in [Requests -> Request] /\ stop \in Stops /\ c \in {None} \cup Calls
      /\ handoff' \in {handoff, None}
  BY <1>1 DEF IInv, Typed, Request, Stops, Closed
<1>6. /\ req' \in [Requests -> Request]
      /\ \A s \in Requests : /\ s # r => req'[s] = req[s]
                             /\ req'[s].kind = req[s].kind /\ req'[s].card = req[s].card
      /\ req'[r].at = stop
  BY <1>3, <1>5, Moves
<1>7. /\ cards' \in [Calls -> CardStates] /\ order' \in Seq(Calls) /\ OrderIsLive' /\ HeadInFlight'
      /\ \A d \in Calls : cards'[d] = cards[d] \/ (d = c /\ cards[d] = "resuming" /\ cards'[d] = "none")
      /\ c \in Calls => cards'[c] # "resuming"
      /\ (cards' = cards /\ order' = order) \/ continuation = {}
  <2>1. CASE c # None /\ cards[c] = "resuming"
    <3>1. Removed(c) /\ c \in Calls
      BY <1>1, <1>5, <2>1 DEF Consumed
    <3>2. /\ cards' \in [Calls -> CardStates] /\ order' \in Seq(Calls) /\ OrderIsLive' /\ HeadInFlight'
          /\ \A d \in Calls : cards'[d] = IF d = c THEN "none" ELSE cards[d]
      BY <3>1, OneRemoved
    <3> QED BY <3>1, <3>2, <2>1, <1>4
  <2>2. CASE ~(c # None /\ cards[c] = "resuming")
    <3>1. cards' = cards /\ order' = order
      BY <1>1, <2>2 DEF Consumed
    <3>2. cards \in [Calls -> CardStates] /\ order \in Seq(Calls) /\ OrderIsLive' /\ HeadInFlight'
      BY <1>1, <3>1, CardsStay DEF IInv, Typed
    <3> QED BY <3>1, <3>2, <2>2, NoneIsNobody
  <2> QED BY <2>1, <2>2
<1> HIDE DEF c
<1>8. Typed'
  BY <1>1, <1>3, <1>5, <1>6, <1>7 DEF IInv, Typed, Request
<1>9. OneDispatcher' /\ NewIsNowhere'
  BY <1>1, <1>3, <1>4, <1>5, <1>6, NoneIsNobody DEF IInv, OneDispatcher, NewIsNowhere, CutoverStops
<1>14. CutoverIsQuiet'
  BY <1>1, <1>3, <1>4, <1>6 DEF CutoverIsQuiet, CutoverStops
<1>10. CallsInRounds' /\ Kept'
  BY <1>1, <1>7 DEF IInv, CallsInRounds, Kept, Live
<1>11. ReservedIsOwned'
  <2> SUFFICES ASSUME NEW d \in Calls, cards'[d] = "resuming"
               PROVE  handoff' # None /\ req'[handoff'].kind = "answer" /\ req'[handoff'].card = d
    BY DEF ReservedIsOwned
  <2>1. d # c /\ cards[d] = "resuming"
    BY <1>7
  <2>2. handoff \in Requests /\ req[handoff].kind = "answer" /\ req[handoff].card = d
    BY <1>4, <2>1
  <2>3. handoff' = handoff
    BY <1>1, <2>1, <2>2 DEF Closed
  <2> QED BY <1>6, <2>2, <2>3, NoneIsNobody
<1>12. OnItsWay'
  BY <1>1, <1>4, <1>7 DEF OnItsWay
<1>13. Current'
  BY <1>1, <1>4, <1>6, <1>3 DEF IInv, Current
<1> QED BY <1>7, <1>8, <1>9, <1>10, <1>11, <1>12, <1>13, <1>14 DEF IInv

\* The continuation is discarded with every card, or the cutover fails.
LEMMA DiscardStep == ASSUME IInv, NEW r \in Requests, Discard(r) PROVE IInv'
<1>1. CASE Failed(r) /\ UNCHANGED <<queue, continuation>>
  BY <1>1, AbortStep DEF Discard, Failed, CutoverStops, queue, core, history
<1>2. CASE continuation' = {} /\ NoCards /\ quarantined' = FALSE /\ CutOver(r)
  <2>1. /\ req[r].at = "discarding"
        /\ round' = round /\ place' = place /\ answering' = answering /\ handoff' = handoff
        /\ inputs' = inputs /\ epoch' = epoch /\ reserved' = reserved
    BY DEF Discard, history
  <2>2. PICK stop \in {"done", "prepared"} :
          Go(r, stop) /\ lock' \in {lock, None} /\ (stop # "done" => lock' = lock)
    BY <1>2 DEF CutOver
  <2>3. /\ lock = r /\ quarantined /\ req[r].kind # "answer"
        /\ \A s \in Requests : s # r => req[s].at \notin CutoverStops \cup {"prepared", "taken"}
        /\ inputs = <<>> /\ ToSet(inputs) = {} /\ round # "running"
    BY <2>1, InCutover DEF CutoverStops, ToSet
  <2>4. req \in [Requests -> Request] /\ stop \in Stops
    BY DEF IInv, Typed, Request, Stops
  <2>5. /\ req' \in [Requests -> Request]
        /\ \A s \in Requests : /\ s # r => req'[s] = req[s]
                               /\ req'[s].kind = req[s].kind /\ req'[s].card = req[s].card
        /\ req'[r].at = stop
    BY <2>2, <2>4, Moves
  <2>6. /\ cards' = [c \in Calls |-> "none"] /\ order' = <<>> /\ IsInjective(order') /\ ToSet(order') = {}
        /\ continuation' = {} /\ quarantined' = FALSE
    BY <1>2 DEF NoCards, IsInjective, ToSet
  <2>7. Typed'
    <3>1. cards' \in [Calls -> CardStates]
      BY <2>6 DEF CardStates
    <3>2. order' \in Seq(Calls)
      <4>1. order' = <<>>
        BY <2>6
      <4> QED BY <4>1
    <3>3. continuation' \subseteq Calls /\ quarantined' \in BOOLEAN
      BY <2>6
    <3> QED BY <2>1, <2>2, <2>5, <3>1, <3>2, <3>3 DEF IInv, Typed, Request
  <2>8. OneDispatcher' /\ NewIsNowhere' /\ CutoverIsQuiet'
    BY <2>1, <2>2, <2>3, <2>5, NoneIsNobody
    DEF IInv, OneDispatcher, NewIsNowhere, CutoverIsQuiet, CutoverStops
  <2>9. OrderIsLive' /\ HeadInFlight' /\ ReservedIsOwned' /\ Kept' /\ OnItsWay'
    BY <2>6 DEF OrderIsLive, HeadInFlight, ReservedIsOwned, Kept, OnItsWay
  <2>10. CallsInRounds' /\ Current'
    BY <2>1, <2>3, <2>5, <2>6 DEF IInv, CallsInRounds, Current
  <2> QED BY <2>7, <2>8, <2>9, <2>10 DEF IInv
<1> QED BY <1>1, <1>2 DEF Discard

\* An input that is not sent: its reservation, the only one, is given back.
LEMMA DroppedStep == ASSUME IInv, NEW r \in Requests, Dropped(r) PROVE IInv'
<1>1. /\ req[r].at = "prepared" /\ Go(r, "done") /\ lock' = None
      /\ cards' = [c \in Calls |-> IF c = req[r].card /\ cards[c] = "resuming" THEN "pending" ELSE cards[c]]
      /\ order' = order /\ quarantined' = quarantined
      /\ round' = round /\ place' = place /\ answering' = answering /\ handoff' = handoff
      /\ inputs' = inputs /\ continuation' = continuation /\ epoch' = epoch /\ reserved' = reserved
  BY DEF Dropped, Failed, core, history
<1>2. /\ req \in [Requests -> Request] /\ ToSet(inputs) \subseteq Requests /\ "done" \in Stops
      /\ lock = r
  BY <1>1, Lines DEF IInv, Typed, Request, Stops, OneDispatcher
<1>3. /\ req' \in [Requests -> Request]
      /\ \A s \in Requests : /\ s # r => req'[s] = req[s]
                             /\ req'[s].kind = req[s].kind /\ req'[s].card = req[s].card
      /\ req'[r].at = "done"
  BY <1>1, <1>2, Moves
<1>4. /\ cards' \in [Calls -> CardStates]
      /\ \A c \in Calls : cards'[c] = IF c = req[r].card /\ cards[c] = "resuming" THEN "pending" ELSE cards[c]
  BY <1>1 DEF IInv, Typed, CardStates
<1>5. Live(cards') = Live(cards)
  BY <1>4 DEF Live
<1>6. Typed'
  BY <1>1, <1>3, <1>4 DEF IInv, Typed, Request
<1>7. OneDispatcher' /\ NewIsNowhere' /\ CutoverIsQuiet'
  BY <1>1, <1>2, <1>3, NoneIsNobody DEF IInv, OneDispatcher, NewIsNowhere, CutoverIsQuiet, CutoverStops
<1>8. OrderIsLive' /\ HeadInFlight' /\ CallsInRounds' /\ Kept'
  BY <1>1, <1>4, <1>5 DEF IInv, OrderIsLive, HeadInFlight, CallsInRounds, Kept
<1>9. \A c \in Calls : cards'[c] = "resuming" => cards[c] = "resuming" /\ req[r].card # c
  BY <1>4
<1>10. ReservedIsOwned'
  <2> SUFFICES ASSUME NEW c \in Calls, cards'[c] = "resuming"
               PROVE  \E s \in {lock', handoff'} \ {None} : req'[s].kind = "answer" /\ req'[s].card = c
    BY DEF ReservedIsOwned
  <2>1. PICK s \in {lock, handoff} \ {None} : req[s].kind = "answer" /\ req[s].card = c
    BY <1>9 DEF IInv, ReservedIsOwned
  <2>2. s \in Requests /\ s = handoff'
    BY <1>1, <1>2, <1>9, <2>1 DEF IInv, Typed
  <2> QED BY <1>3, <2>1, <2>2
<1>11. OnItsWay'
  <2> SUFFICES ASSUME NEW c \in Calls, cards'[c] = "resuming", continuation # {}
               PROVE  \E s \in ToSet(inputs) : req'[s].kind = "answer"
    BY <1>1 DEF OnItsWay
  <2>1. \E s \in ToSet(inputs) : req[s].kind = "answer"
    BY <1>2, <1>9 DEF IInv, OnItsWay
  <2> QED BY <1>2, <1>3, <2>1
<1>12. Current'
  BY <1>1, <1>2, <1>3 DEF IInv, Current
<1> QED BY <1>6, <1>7, <1>8, <1>10, <1>11, <1>12 DEF IInv

\* The core takes a prepared input; a reserved answer is now on its way there.
LEMMA TakenStep == ASSUME IInv, NEW r \in Requests, Taken(r) PROVE IInv'
<1>1. /\ req[r].at = "prepared" /\ Go(r, "taken") /\ inputs' = Append(inputs, r)
      /\ cards' = cards /\ order' = order /\ quarantined' = quarantined /\ lock' = lock
      /\ round' = round /\ place' = place /\ answering' = answering /\ handoff' = handoff
      /\ continuation' = continuation /\ epoch' = epoch /\ reserved' = reserved
  BY DEF Taken, queue, history
<1>2. /\ req \in [Requests -> Request] /\ ToSet(inputs) \subseteq Requests /\ "taken" \in Stops
      /\ lock = r /\ inputs' \in Seq(Requests) /\ ToSet(inputs') = ToSet(inputs) \cup {r}
  BY <1>1, Lines DEF IInv, Typed, Request, Stops, OneDispatcher
<1>3. /\ req' \in [Requests -> Request]
      /\ \A s \in Requests : /\ s # r => req'[s] = req[s]
                             /\ req'[s].kind = req[s].kind /\ req'[s].card = req[s].card
      /\ req'[r].at = "taken"
  BY <1>1, <1>2, Moves
<1>6. Typed'
  BY <1>1, <1>2, <1>3 DEF IInv, Typed, Request
<1>7. OneDispatcher' /\ NewIsNowhere' /\ CutoverIsQuiet'
  BY <1>1, <1>2, <1>3, NoneIsNobody DEF IInv, OneDispatcher, NewIsNowhere, CutoverIsQuiet, CutoverStops
<1>8. Kept'
  BY <1>1 DEF IInv, Kept, Live
<1>10. ReservedIsOwned'
  <2> SUFFICES ASSUME NEW c \in Calls, cards[c] = "resuming"
               PROVE  \E s \in {lock', handoff'} \ {None} : req'[s].kind = "answer" /\ req'[s].card = c
    BY <1>1 DEF ReservedIsOwned
  <2>1. PICK s \in {lock, handoff} \ {None} : req[s].kind = "answer" /\ req[s].card = c
    BY DEF IInv, ReservedIsOwned
  <2>2. s \in Requests /\ s \in {lock', handoff'}
    BY <1>1, <2>1 DEF IInv, Typed
  <2> QED BY <1>3, <2>1, <2>2
<1>11. OnItsWay'
  <2> SUFFICES ASSUME NEW c \in Calls, cards[c] = "resuming", continuation # {}
               PROVE  \E s \in ToSet(inputs') : req'[s].kind = "answer"
    BY <1>1 DEF OnItsWay
  <2>1. \E s \in ToSet(inputs) \cup {r} : req[s].kind = "answer"
    BY <1>2 DEF IInv, OnItsWay
  <2> QED BY <1>2, <1>3, <2>1
<1>12. Current'
  BY <1>1, <1>2, <1>3 DEF IInv, Current
<1> QED BY <1>1, <1>6, <1>7, <1>8, <1>10, <1>11, <1>12, CardsStay DEF IInv

\* The sender gives the lock up; an answer that no callback has claimed is handed over.
LEMMA SentStep == ASSUME IInv, NEW r \in Requests, Sent(r) PROVE IInv'
<1>1. /\ req[r].at = "taken" /\ Go(r, "reading") /\ lock' = None
      /\ handoff' = IF Unclaimed(r) THEN r ELSE handoff
      /\ cards' = cards /\ order' = order /\ quarantined' = quarantined
      /\ round' = round /\ place' = place /\ answering' = answering /\ inputs' = inputs
      /\ continuation' = continuation /\ epoch' = epoch /\ reserved' = reserved
  BY DEF Sent, queue, core, history
<1>2. /\ req \in [Requests -> Request] /\ ToSet(inputs) \subseteq Requests /\ "reading" \in Stops
      /\ lock = r
  BY <1>1, Lines DEF IInv, Typed, Request, Stops, OneDispatcher
<1>3. /\ req' \in [Requests -> Request]
      /\ \A s \in Requests : /\ s # r => req'[s] = req[s]
                             /\ req'[s].kind = req[s].kind /\ req'[s].card = req[s].card
      /\ req'[r].at = "reading"
  BY <1>1, <1>2, Moves
<1>6. Typed'
  BY <1>1, <1>2, <1>3 DEF IInv, Typed, Request
<1>7. OneDispatcher' /\ NewIsNowhere' /\ CutoverIsQuiet'
  BY <1>1, <1>2, <1>3, NoneIsNobody DEF IInv, OneDispatcher, NewIsNowhere, CutoverIsQuiet, CutoverStops
<1>8. Kept'
  BY <1>1 DEF IInv, Kept, Live
<1>10. ReservedIsOwned'
  <2> SUFFICES ASSUME NEW c \in Calls, cards[c] = "resuming"
               PROVE  \E s \in {lock', handoff'} \ {None} : req'[s].kind = "answer" /\ req'[s].card = c
    BY <1>1 DEF ReservedIsOwned
  <2>1. PICK s \in {lock, handoff} \ {None} : req[s].kind = "answer" /\ req[s].card = c
    BY DEF IInv, ReservedIsOwned
  <2>2. s \in Requests
    BY <2>1 DEF IInv, Typed
  <2>3. CASE Unclaimed(r)
    <3>1. req[r].card = c /\ req[r].kind = "answer" /\ handoff' = r
      BY <1>1, <1>2, <2>3 DEF Unclaimed, IInv, Typed, HeadInFlight, Request
    <3> QED BY <1>3, <3>1, NoneIsNobody
  <2>4. CASE ~Unclaimed(r)
    <3>1. s # r
      BY <2>1, <2>4, NoneIsNobody DEF Unclaimed
    <3> QED BY <1>1, <1>2, <1>3, <2>1, <2>2, <2>4, <3>1
  <2> QED BY <2>3, <2>4
<1>11. OnItsWay'
  <2> SUFFICES ASSUME NEW c \in Calls, cards[c] = "resuming", continuation # {}
               PROVE  \E s \in ToSet(inputs) : req'[s].kind = "answer"
    BY <1>1 DEF OnItsWay
  <2>1. \E s \in ToSet(inputs) : req[s].kind = "answer"
    BY <1>1, <1>2 DEF IInv, OnItsWay
  <2> QED BY <1>2, <1>3, <2>1
<1>12. Current'
  BY <1>1, <1>2, <1>3 DEF IInv, Current
<1> QED BY <1>1, <1>6, <1>7, <1>8, <1>10, <1>11, <1>12, CardsStay DEF IInv

----------------------------------------------------------------------------
\* Every step keeps the invariant.
THEOREM Inductive == IInv /\ [Next]_vars => IInv'
<1> SUFFICES ASSUME IInv, [Next]_vars PROVE IInv'
  OBVIOUS
<1>1. CASE Round
  BY <1>1, StartFreshStep, StartResumeStep, GoesOnStep, InterruptedStep, QuestionedStep, SnapshotCancelledStep,
     RoundUnwoundStep DEF Round
<1>2. ASSUME NEW c \in Calls, Callback(c) PROVE IInv'
  BY <1>2, BeginCallStep, ClaimStep, EvaluatedStep DEF Callback
<1>3. ASSUME NEW r \in Requests, NEW kind \in Kinds, NEW card \in {None} \cup Calls, Arrive(r, kind, card)
      PROVE  IInv'
  BY <1>3, ArriveStep
<1>4. ASSUME NEW r \in Requests, Serve(r) PROVE IInv'
  BY <1>4, AnswerEntersStep, EntersStep, CancelRoundStep, FailsStep, CompleteStep, DiscardStep,
     DroppedStep, TakenStep, SentStep DEF Serve
<1>5. ASSUME NEW r \in Requests, Withdraw(r) \/ Torn(r) \/ Finalize(r) PROVE IInv'
  BY <1>5, DoneStep, FailsStep
<1>6. CASE UNCHANGED vars
  <2>1. /\ cards' = cards /\ order' = order /\ quarantined' = quarantined /\ lock' = lock
        /\ handoff' = handoff /\ req' = req /\ round' = round /\ place' = place
        /\ answering' = answering /\ inputs' = inputs /\ continuation' = continuation
        /\ epoch' = epoch /\ reserved' = reserved
    BY <1>6 DEF vars, queue, dispatch, core, history
  <2>2. Typed' /\ OneDispatcher' /\ NewIsNowhere' /\ CutoverIsQuiet'
    BY <2>1 DEF IInv, Typed, OneDispatcher, NewIsNowhere, CutoverIsQuiet
  <2>3. ReservedIsOwned' /\ Kept' /\ OnItsWay' /\ Current'
    BY <2>1 DEF IInv, ReservedIsOwned, Kept, Live, OnItsWay, Current
  <2> QED BY <2>1, <2>2, <2>3, CardsStay DEF IInv
<1> QED BY <1>1, <1>2, <1>3, <1>4, <1>5, <1>6 DEF Next

\* So it holds throughout.
THEOREM Invariance == Spec => []IInv
BY Initially, Inductive, PTL DEF Spec

\* No request that is past the dispatch lock ever loses it to another (release, which asks
\* only whether the lock is held, is never called by a request that has given it up).
THEOREM OneDispatcherHolds == Spec => []OneDispatcher
<1>1. IInv => OneDispatcher
  BY DEF IInv
<1> QED BY <1>1, Invariance, PTL

\* Only the head of the queue is ever being answered.
THEOREM HeadInFlightHolds == Spec => []HeadInFlight
<1>1. IInv => HeadInFlight
  BY DEF IInv
<1> QED BY <1>1, Invariance, PTL

\* Every reserved card has a request that will settle it, the sender or the handoff.
THEOREM ReservedIsOwnedHolds == Spec => []ReservedIsOwned
<1>1. IInv => ReservedIsOwned
  BY DEF IInv
<1> QED BY <1>1, Invariance, PTL

\* The cards that are shown are the calls the core keeps, and no other card is live.
THEOREM ShownIsKeptHolds == Spec => []ShownIsKept
<1>1. IInv => ShownIsKept
  BY DEF IInv, Kept, ShownIsKept
<1> QED BY <1>1, Invariance, PTL

\* The one step that takes a reserved card up again is its claim, outside a quarantine.
LEMMA TakenUpCurrent ==
  ASSUME IInv, [Next]_vars, NEW c \in Calls, cards[c] = "resuming", cards'[c] = "active"
  PROVE  Answered(c) /\ reserved[answering] = epoch
<1>0. cards \in [Calls -> CardStates]
  BY DEF IInv, Typed
<1>1. ASSUME Round PROVE FALSE
  BY <1>1 DEF Round, StartFresh, StartResume, GoesOn, Interrupted, Questioned, SnapshotCancelled,
     RoundUnwound, NoCards, queue
<1>2. ASSUME NEW d \in Calls, Callback(d) PROVE Answered(c) /\ reserved[answering] = epoch
  <2>1. CASE Claim(d)
    <3>1. round = "running" /\ Answered(d)
          /\ (quarantined => Removed(d)) /\ (~quarantined => cards' = [cards EXCEPT ![d] = "active"])
      BY <2>1 DEF Claim
    <3>2. d = c /\ ~quarantined
      BY <3>1, <1>0 DEF Removed
    <3>3. answering # None
      BY <3>1 DEF Answered
    <3> QED BY <3>1, <3>2, <3>3 DEF IInv, Current
  <2>2. CASE BeginCall(d)
    BY <2>2, <1>0 DEF BeginCall
  <2>3. CASE Decided(d) \/ Asks(d) \/ CallbackCancelled(d)
    BY <2>3, <1>0 DEF Decided, Asks, CallbackCancelled, Removed
  <2> QED BY <1>2, <2>1, <2>2, <2>3 DEF Callback
<1>3. ASSUME NEW r \in Requests, Serve(r) PROVE FALSE
  <2>1. CASE AnswerEnters(r) \/ FreshEnters(r) \/ InterruptEnters(r)
    BY <2>1, <1>0 DEF AnswerEnters, FreshEnters, InterruptEnters
  <2>2. CASE CancelRound(r) \/ CancelFails(r) \/ Taken(r) \/ Sent(r)
    BY <2>2 DEF CancelRound, CancelFails, Taken, Sent, queue
  <2>3. CASE Complete(r)
    BY <2>3, <1>0 DEF Complete, Consumed, Removed
  <2>4. CASE Discard(r)
    BY <2>4 DEF Discard, NoCards, queue
  <2>5. CASE Dropped(r)
    BY <2>5 DEF Dropped
  <2> QED BY <1>3, <2>1, <2>2, <2>3, <2>4, <2>5 DEF Serve
<1>4. ASSUME NEW r \in Requests, Withdraw(r) \/ Torn(r) \/ Finalize(r)
             \/ \E kind \in Kinds, card \in {None} \cup Calls : Arrive(r, kind, card)
      PROVE  FALSE
  BY <1>4 DEF Withdraw, Torn, Finalize, Arrive, queue
<1>5. ASSUME UNCHANGED vars PROVE FALSE
  BY <1>5 DEF vars, queue
<1> QED BY <1>1, <1>2, <1>3, <1>4, <1>5 DEF Next

\* No card is taken up again by an answer reserved before a cutover began: what is on its
\* way outside a quarantine was reserved in the current epoch.
THEOREM SupersededNeverBindsHolds == Spec => SupersededNeverBinds
<1> DEFINE A == \A c \in Calls : (cards[c] = "resuming" /\ cards'[c] = "active")
                                   => Answered(c) /\ reserved[answering] = epoch
<1>1. IInv /\ [Next]_vars => A
  BY TakenUpCurrent
<1>2. SupersededNeverBinds <=> [][A]_vars
  BY DEF SupersededNeverBinds
<1> HIDE DEF A
<1>3. Spec => [][A]_vars
  BY <1>1, Invariance, PTL DEF Spec
<1> QED BY <1>2, <1>3

=============================================================================
