-------------------------- MODULE AuthorConversation --------------------------
(***************************************************************************)
(* The author conversation of tyche/paper/writer.py: one append-only       *)
(* exchange with the writing model (Conversation of tyche/llm.py), in      *)
(* which the write stage drafts the sections and which the review stage    *)
(* resumes to revise, repair and shorten them (tyche/paper/compose.py,     *)
(* tyche/review/loop.py).                                                  *)
(*                                                                         *)
(* The writer mirrors what the conversation already shows, the latest text *)
(* of every section and the sections whose contract it holds, so as not to *)
(* send it again.  Conversation and mirror must agree through restarts of  *)
(* the conversation, roll-backs and the change of process.                 *)
(*                                                                         *)
(* A text is named by the call that wrote it.  The system prompt is named  *)
(* by the version of the shared context it renders.  A request and its     *)
(* reply are one exchange; a conversation's size is its exchanges.         *)
(***************************************************************************)
EXTENDS Naturals, Sequences, FiniteSets, SequencesExt

CONSTANTS
  Order,        \* WRITE_ORDER: the sections, the abstract last
  MaxHistory,   \* max_history_tokens, in exchanges
  MaxContexts,  \* bound: versions of the shared context
  MaxCalls      \* bound: requests that write a text

Sections == ToSet(Order)
Abstract == Last(Order)
NoText == 0

ASSUME ConversationConstants ==
  /\ Order \in Seq(STRING) /\ Order # <<>>
  /\ MaxHistory \in Nat /\ MaxContexts \in Nat /\ MaxCalls \in Nat

VARIABLES
  stage,       \* write, titled; load, first (round 0), review (between rounds) and round of the review
  context,     \* version of the shared context
  sections,    \* composer.sections
  drafted,     \* sections drafted by the write stage so far
  convs,       \* the Conversation objects, by number
  conv,        \* writer.conversation
  latest,      \* writer._latest
  introduced,  \* writer._introduced
  exported,    \* the saved draft and author_conversation
  saved,       \* section snapshot and writer checkpoint of the running round
  calls,       \* history: texts asked for so far
  asked,       \* history: the last request
  discarded    \* history: texts of rejected rounds

conversationVars == << stage, context, sections, drafted, convs, conv, latest, introduced, exported,
           saved, calls, asked, discarded >>

NoTexts == [s \in Sections |-> NoText]
NoRequest == [text |-> "shown", contract |-> "shown", fresh |-> "no"]
NothingExported == [turns |-> <<>>, latest |-> NoTexts, introduced |-> {}, sections |-> NoTexts]
NothingSaved == [conv |-> 0, mark |-> 0, latest |-> NoTexts, introduced |-> {}, sections |-> NoTexts, calls |-> 0]

ConversationInit ==
  /\ stage = "write" /\ context = 1
  /\ sections = NoTexts /\ drafted = 0
  /\ convs = <<>> /\ conv = 0 /\ latest = NoTexts /\ introduced = {}
  /\ exported = NothingExported /\ saved = NothingSaved
  /\ calls = 0 /\ asked = NoRequest /\ discarded = {}

\* Mutant: the length of the history is not looked at.
RestartOnNewContext == conv = 0 \/ convs[conv].system # context

\* _conversation_for: none yet, another system prompt, or too long a history.
NeedsRestart ==
  conv = 0 \/ convs[conv].system # context \/ Len(convs[conv].turns) > MaxHistory

\* sent, what the model was last sent of a conversation, is no part of the object.
NewConversation == [system |-> context, turns |-> <<>>, sent |-> <<>>]

Heap == IF NeedsRestart THEN Append(convs, NewConversation) ELSE convs
Current == IF NeedsRestart THEN Len(Heap) ELSE conv

\* Mutant: the mirror outlives the conversation it describes.
KeepMirror == [latest |-> latest, introduced |-> introduced]

Mirror == IF NeedsRestart THEN [latest |-> NoTexts, introduced |-> {}]
                          ELSE [latest |-> latest, introduced |-> introduced]

\* Mutant: a section's text goes along with its contract only.
BlocksOnce(s, current) ==
  IF s \in introduced THEN {} ELSE { "contract" } \union IF current = NoText THEN {} ELSE { "current" }

\* _blocks decides what to send from the mirror as it is before the call.
Blocks(s, current) ==
  (IF s \in introduced THEN {} ELSE { "contract" }) \union
  (IF current = NoText \/ latest[s] = current THEN {} ELSE { "current" })

\* Mutant: every reply so far is replaced by the text kept from the last one.
KeepEverywhere(history, exchange) == [k \in 1..(Len(history) + 1) |-> exchange]

\* Conversation.ask, then set_last_reply: the exchange ends with the text kept of it.
Extend(history, exchange) == Append(history, exchange)

\* The texts a request shows in full, and the sections whose contract it holds.
Texts(history) ==
  { history[k].kept : k \in DOMAIN history }
    \union { history[k].current : k \in { j \in DOMAIN history : "current" \in history[j].sends } }
Contracts(history) == { history[k].section : k \in { j \in DOMAIN history : "contract" \in history[j].sends } }
Shown(test) == IF test THEN "shown" ELSE "missing"

Send(exchange) ==
  LET before == Heap[Current].turns IN
  /\ convs' = [Heap EXCEPT ![Current].turns = Extend(@, exchange), ![Current].sent = before]
  /\ conv' = Current
  /\ asked' = [text |-> Shown(exchange.current \in { NoText } \union Texts(Append(before, exchange))),
               contract |-> Shown(exchange.section \in { "title" } \union Contracts(Append(before, exchange))),
               fresh |-> IF NeedsRestart THEN "yes" ELSE "no"]

\* _call: the reply may hold no text; otherwise the mirror follows it.
Call(s, current, text) ==
  /\ Send([section |-> s, current |-> current, sends |-> Blocks(s, current), kept |-> text])
  /\ latest' = IF text = NoText THEN Mirror.latest ELSE [Mirror.latest EXCEPT ![s] = text]
  /\ introduced' = Mirror.introduced \union { s }
  /\ calls' = calls + 1

Replies == { NoText, calls + 1 }

\* composer.draft, one section: its text is stored whatever it is.
Draft ==
  /\ stage = "write" /\ drafted < Len(Order) /\ calls < MaxCalls
  /\ drafted' = drafted + 1
  /\ LET s == Order[drafted'] IN
     \E text \in Replies : Call(s, NoText, text) /\ sections' = [sections EXCEPT ![s] = text]
  /\ UNCHANGED << stage, context, exported, saved, discarded >>

\* The title is asked for; the mirror does not change.
AskTitle ==
  /\ stage = "write" /\ drafted = Len(Order)
  /\ LET sends == IF Mirror.latest[Abstract] = sections[Abstract] THEN {} ELSE { "current" }
     IN  Send([section |-> "title", current |-> sections[Abstract], sends |-> sends, kept |-> NoText])
  /\ latest' = Mirror.latest /\ introduced' = Mirror.introduced
  /\ stage' = "titled"
  /\ UNCHANGED << context, sections, drafted, exported, saved, calls, discarded >>

\* Draft and conversation are saved, the write stage is done and its process ends.
Export ==
  /\ stage = "titled" /\ stage' = "load"
  /\ exported' = [turns |-> convs[conv].turns, latest |-> latest, introduced |-> introduced, sections |-> sections]
  /\ convs' = << convs[conv] >> /\ conv' = 0 /\ latest' = NoTexts /\ introduced' = {}
  /\ UNCHANGED << context, sections, drafted, saved, calls, asked, discarded >>

\* The shared context may have changed: a citation was admitted while the paper was
\* reviewed (_admit_requested_citations), or stages were run again.
MayChangeContext == context' \in { context, context + 1 } \intersect 1..MaxContexts

\* stage_review in a process of its own: the draft, and the saved conversation if
\* the system prompt it was held under is still current.
Resume ==
  /\ stage = "load" /\ MayChangeContext
  /\ sections' = exported.sections
  /\ IF convs[1].system = context'
       THEN /\ convs' = convs /\ conv' = 1
            /\ latest' = exported.latest /\ introduced' = exported.introduced
       ELSE /\ convs' = Append(convs, [NewConversation EXCEPT !.system = context']) /\ conv' = 2
            /\ latest' = NoTexts /\ introduced' = {}
  /\ stage' = "first"
  /\ UNCHANGED << drafted, exported, saved, calls, asked, discarded >>

\* A revision or a trim (an empty reply leaves the text), or a repair (it does not).
Change(s) ==
  /\ stage \in { "first", "round" } /\ calls < MaxCalls
  /\ \E text \in Replies :
       /\ Call(s, sections[s], text)
       /\ \/ sections' = [sections EXCEPT ![s] = text]
          \/ text = NoText /\ sections' = sections
  /\ UNCHANGED << stage, context, drafted, exported, saved, discarded >>

\* A round begins with a snapshot of the texts and a checkpoint of the writer.
StartRound ==
  /\ stage = "review" /\ stage' = "round"
  /\ saved' = [conv |-> conv, mark |-> IF conv = 0 THEN 0 ELSE Len(convs[conv].turns), latest |-> latest,
               introduced |-> introduced, sections |-> sections, calls |-> calls]
  /\ UNCHANGED << context, sections, drafted, convs, conv, latest, introduced, exported,
                  calls, asked, discarded >>

\* Round 0 or a round whose candidate is kept.
Keep ==
  /\ stage \in { "first", "round" } /\ stage' = "review" /\ saved' = NothingSaved
  /\ MayChangeContext
  /\ UNCHANGED << sections, drafted, convs, conv, latest, introduced, exported,
                  calls, asked, discarded >>

\* Mutant: the mirror is not rolled back.
RestoreConversationOnly ==
  /\ convs' = [convs EXCEPT ![saved.conv].turns = SubSeq(@, 1, saved.mark)]
  /\ conv' = saved.conv /\ UNCHANGED << latest, introduced >>

\* SectionWriter.rollback: the conversation of the checkpoint is truncated and current again.
RollBackWriter ==
  /\ convs' = IF saved.conv = 0 THEN convs ELSE [convs EXCEPT ![saved.conv].turns = SubSeq(@, 1, saved.mark)]
  /\ conv' = saved.conv /\ latest' = saved.latest /\ introduced' = saved.introduced

Reject ==
  /\ stage = "round" /\ stage' = "review" /\ MayChangeContext
  /\ RollBackWriter
  /\ sections' = saved.sections
  /\ discarded' = discarded \union ((saved.calls + 1)..calls)
  /\ saved' = NothingSaved
  /\ UNCHANGED << drafted, exported, calls, asked >>

\* The process dies; the review starts over from what the write stage saved.
Die ==
  /\ stage \in { "first", "review", "round" } /\ stage' = "load"
  /\ saved' = NothingSaved
  /\ convs' = << [convs[1] EXCEPT !.turns = exported.turns] >>
  /\ conv' = 0 /\ latest' = NoTexts /\ introduced' = {}
  /\ UNCHANGED << context, sections, drafted, exported, calls, asked, discarded >>

ConversationNext ==
  \/ Draft \/ AskTitle \/ Export \/ Resume \/ StartRound \/ Keep \/ Reject \/ Die
  \/ \E s \in Sections : Change(s)

ConversationSpec == ConversationInit /\ [][ConversationNext]_conversationVars

-----------------------------------------------------------------------------
Exchanges == [section : Sections \union { "title" }, current : 0..calls,
              sends : SUBSET { "contract", "current" }, kept : 0..calls]
\* The types of the state; no conversation exceeds the history limit by more than the
\* one exchange that is tested for before the call (PaperWriter._conversation_for).
ConversationTypeOK ==
  /\ stage \in { "write", "titled", "load", "first", "review", "round" } /\ context \in 1..MaxContexts
  /\ sections \in [Sections -> 0..calls] /\ drafted \in 0..Len(Order)
  /\ convs \in Seq([system : 1..context, turns : Seq(Exchanges), sent : Seq(Exchanges)])
  /\ \A c \in DOMAIN convs : Len(convs[c].turns) <= MaxHistory + 1
  /\ conv \in 0..Len(convs)
  /\ latest \in [Sections -> 0..calls] /\ introduced \subseteq Sections
  /\ calls \in 0..MaxCalls /\ discarded \subseteq 1..calls

turns == IF conv = 0 THEN <<>> ELSE convs[conv].turns

\* A request only ever extends what the model was last sent of its conversation,
\* or a truncation of it: no earlier turn is edited, through set_last_reply,
\* roll-backs and the change of process (the prefix the provider has cached).
SentPrefixesStand ==
  \A c \in DOMAIN convs : IsPrefix(convs[c].sent, convs[c].turns) \/ IsPrefix(convs[c].turns, convs[c].sent)

\* What the writer takes for its latest text of a section is the last text the
\* conversation holds of it.
LatestIsHeld ==
  stage # "load" => \A s \in Sections : latest[s] # NoText =>
    \E k \in DOMAIN turns :
      /\ turns[k].section = s /\ turns[k].kept = latest[s]
      /\ \A j \in (k + 1)..Len(turns) : turns[j].section = s => turns[j].kept = NoText

\* No text of a rejected round is left in the conversation, the mirror or the paper.
DiscardedIsGone ==
  stage \in { "first", "review", "round" } => \A t \in discarded :
    /\ t \notin Texts(turns)
    /\ \A s \in Sections : latest[s] # t /\ sections[s] # t

\* A request that continues a conversation shows the writer the text it is to change.
ContinuedRequestsShowTheText ==
  asked.fresh = "no" => asked.text = "shown"

-----------------------------------------------------------------------------
(* What the documentation says, and the code does not keep.                 *)

\* writer.py:205: within the conversation a section's contract is sent once, and
\* the current section is sent if the history does not hold it.
EveryRequestIsComplete == asked.text = "shown" /\ asked.contract = "shown"
=============================================================================
