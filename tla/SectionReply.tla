----------------------------- MODULE SectionReply -----------------------------
(***************************************************************************)
(* The turns of one section of a conversation: sendMessage of              *)
(* src/modules/conversation/conversation.controller.ts and the reply it    *)
(* asks for, src/ai/services/section-reply.service.ts.                     *)
(*                                                                         *)
(* A turn reads the section's history and best card, stores the user's     *)
(* message and makes one call that talks (CONVERSATION) and, when the      *)
(* section is over, one that extracts a card from what it read             *)
(* (EXTRACTION), each retried with reminders, an empty extraction checked  *)
(* once more.  The code then decides what the model is not trusted with:   *)
(* when the section closes, which card is shown, and what is still asked.  *)
(* Last it stores its text and then its card.                              *)
(*                                                                         *)
(* Nothing keeps two turns apart: a client that lost the stream may write  *)
(* again while the first turn still runs, and the second then decides from *)
(* a history without the first one's answer, the first from one without    *)
(* the second's question.  A turn is a process with what it read as its    *)
(* local state; every step between two awaits is an action.                *)
(*                                                                         *)
(* A card of an array section is its set of entries (the code compares     *)
(* their number), a card of an object section the set of its fields that   *)
(* hold a value.  A message is whether it asks something and which of the  *)
(* required fields its words mention.  What the model answers is free.     *)
(***************************************************************************)
EXTENDS Integers, Sequences, FiniteSets

CONSTANTS
    Turns,              \* the messages that may be in flight at once
    Entries,            \* entries an array section may hold
    REMINDERS,          \* length of CONVERSATION_RETRY_REMINDERS
    EXTRACT_REMINDERS,  \* reminders of the extraction call
    ASK_LIMIT,          \* REQUIRED_FIELD_ASK_LIMIT
    MaxTurns            \* bound: user messages in the section

ASSUME SectionReplyAssumption ==
    /\ IsFiniteSet(Turns)
    /\ IsFiniteSet(Entries) /\ "null" \notin Entries
    /\ {REMINDERS, EXTRACT_REMINDERS, MaxTurns} \subseteq Nat
    /\ ASK_LIMIT \in Nat \ {0}

VARIABLES
    section,    \* the section talked about
    analysis,   \* its card in the upload's analysis, NoCard in a build session
    users,      \* user messages in its history
    clarified,  \* how many of the assistant's messages were clarifying questions
    mentions,   \* how many mentioned each required field
    cards,      \* the section_card messages, oldest first, with how many cards their turns had read
    turn,       \* the turns in flight
    forced      \* how often each required field's own question was forced

vars == <<section, analysis, users, clarified, mentions, cards, turn, forced>>

Object == {"basic"}
Array  == {"experience", "certificates", "skills"}

(* REQUIRED_FIELDS_BY_SECTION, in order: what is asked for, and the fields *)
(* one of which answers it.                                                *)
Required == <<"title", "contact">>
FieldsOf == [title |-> {"title"}, contact |-> {"phone", "email"}]
Rules    == {Required[i] : i \in DOMAIN Required}

(* null, as a set no card is.                                              *)
NoCard == {"null"}

SECTIONS_ALLOWED_EMPTY == {"certificates"}

(* An object card always has its name (basicCardSchema); the others may be *)
(* empty lists.                                                            *)
Cards == IF section \in Object
         THEN {{"name"} \cup F : F \in SUBSET {"title", "phone", "email"}}
         ELSE SUBSET Entries

(* What is mentioned counts in the section that has required fields.       *)
Message == [asks : BOOLEAN, about : IF section = "basic" THEN SUBSET Rules ELSE {{}}]
Quiet   == [asks |-> FALSE, about |-> {}]

(* getMessageHistoryForPrompt, as far as the reply depends on it.          *)
History == [users : Nat, clarified : Nat, mentions : [Rules -> Nat]]
Nothing == [users |-> 0, clarified |-> 0, mentions |-> [f \in Rules |-> 0]]

Stages == {"idle", "heard", "read", "talk", "extract", "recheck", "card"}

(* The local variables of sendMessage and generate.                        *)
Turn == [at      : Stages,
         heard   : History,                 \* the history it read
         saw     : Nat,                     \* how many cards it read
         prior   : Cards \cup {NoCard},     \* previousBestCard
         closing : BOOLEAN,                 \* hasClosingIntent of the user's message
         attempt : Nat,                     \* calls of this stage that failed
         said    : Message,                 \* its message so far
         card    : Cards \cup {NoCard}]     \* its card, once its text is stored
Idle == [at |-> "idle", heard |-> Nothing, saw |-> 0, prior |-> NoCard, closing |-> FALSE,
         attempt |-> 0, said |-> Quiet, card |-> NoCard]

HasEntries(card) == card # NoCard /\ card # {}

(* Card d holds no less than card c.                                       *)
AtLeast(c, d) == IF section \in Object THEN c \subseteq d ELSE Cardinality(c) <= Cardinality(d)

-----------------------------------------------------------------------------
Init ==
    /\ section \in Object \cup Array
    /\ analysis \in Cards \cup {NoCard}
    /\ users = 0 /\ clarified = 0
    \* The opening message of a session over an upload asks for what it lacks.
    /\ \E asked \in IF section = "basic" /\ analysis # NoCard THEN {{}, {"title"}, {"contact"}} ELSE {{}} :
          mentions = [f \in Rules |-> IF f \in asked THEN 1 ELSE 0]
    /\ cards = <<>>
    /\ turn = [t \in Turns |-> Idle]
    /\ forced = [f \in Rules |-> 0]

-----------------------------------------------------------------------------
(* What a turn starts from.                                                *)

(* A message comes; its turn reads the history.  (After a switch to        *)
(* projects this takes a stale save of the session, see Conversation.)     *)
ReadHistory(t) ==
    /\ turn[t].at = "idle" /\ users < MaxTurns
    /\ turn' = [turn EXCEPT ![t].at = "heard",
                            ![t].heard = [users |-> users, clarified |-> clarified, mentions |-> mentions]]
    /\ UNCHANGED <<section, analysis, users, clarified, mentions, cards, forced>>

(* getBestPriorSectionCard: the largest of the array cards, the latest of  *)
(* the object cards, or before any card what the upload's analysis read.   *)
Size(i) == Cardinality(cards[i].holds)
BestPriorCard ==
    IF cards = <<>> THEN analysis
    ELSE IF section \in Object THEN cards[Len(cards)].holds
    ELSE cards[CHOOSE i \in DOMAIN cards : /\ \A j \in DOMAIN cards : Size(j) <= Size(i)
                                           /\ \A j \in 1 .. i - 1 : Size(j) < Size(i)].holds

ReadBestCard(t) ==
    /\ turn[t].at = "heard"
    /\ turn' = [turn EXCEPT ![t].at = "read", ![t].saw = Len(cards), ![t].prior = BestPriorCard]
    /\ UNCHANGED <<section, analysis, users, clarified, mentions, cards, forced>>

(* A device has one analysis: the next upload's takes its place, and       *)
(* getAnalysisForUpload no longer finds the session's.                     *)
AnalysisGoes ==
    /\ analysis # NoCard
    /\ analysis' = NoCard
    /\ UNCHANGED <<section, users, clarified, mentions, cards, turn, forced>>

(* hasClosingIntent: whether the user's words mean there is nothing to add.*)
ClosingIntent == BOOLEAN

(* appendUserMessage.                                                      *)
UserSays(t) ==
    /\ turn[t].at = "read" /\ users < MaxTurns
    /\ users' = users + 1
    /\ \E closing \in ClosingIntent :
          turn' = [turn EXCEPT ![t].at = "talk", ![t].closing = closing]
    /\ UNCHANGED <<section, analysis, clarified, mentions, cards, forced>>

-----------------------------------------------------------------------------
(* The end of a turn: the assistant's message is stored and, if there is a *)
(* card, the turn goes on to store it.                                     *)
Answers(t, message, card) ==
    /\ mentions' = [f \in Rules |-> mentions[f] + IF f \in message.about THEN 1 ELSE 0]
    /\ turn' = [turn EXCEPT ![t] = IF card = NoCard THEN Idle
                                   ELSE [@ EXCEPT !.at = "card", !.attempt = 0, !.said = message, !.card = card]]
    /\ UNCHANGED <<section, analysis, users, cards>>

(* appendSectionCardMessage, after the text was streamed.                  *)
StoreCard(t) ==
    /\ turn[t].at = "card"
    /\ cards' = Append(cards, [holds |-> turn[t].card, saw |-> turn[t].saw])
    /\ turn' = [turn EXCEPT ![t] = Idle]
    /\ UNCHANGED <<section, analysis, users, clarified, mentions, forced>>

(* An error of a call or of the database ends the turn with an error       *)
(* event, a crash ends it without: what it has stored stays.               *)
Breaks(t) ==
    /\ turn[t].at # "idle"
    /\ turn' = [turn EXCEPT ![t] = Idle]
    /\ UNCHANGED <<section, analysis, users, clarified, mentions, cards, forced>>

(* Mutant of MayRetry: one call too many, with no reminder left for it.    *)
MayRetryOnceMore(t, reminders) == turn[t].attempt <= reminders

MayRetry(t, reminders) == turn[t].attempt < reminders

(* Both calls: a reply that is not JSON or not of the schema is retried    *)
(* with the next reminder.                                                 *)
Retry(t, reminders) ==
    /\ MayRetry(t, reminders)
    /\ turn' = [turn EXCEPT ![t].attempt = @ + 1]
    /\ UNCHANGED <<section, analysis, users, clarified, mentions, cards, forced>>

-----------------------------------------------------------------------------
(* The conversation call.                                                  *)

SOFT_FALLBACK_MESSAGE == [asks |-> TRUE, about |-> {}]

TalkIsBad(t) ==
    /\ turn[t].at = "talk"
    /\ \/ Retry(t, REMINDERS)
       \/ /\ turn[t].attempt = REMINDERS
          /\ Answers(t, SOFT_FALLBACK_MESSAGE, NoCard)
          /\ UNCHANGED <<clarified, forced>>

(* Mutant of Sanitized: the question stays in a forced close.              *)
Unsanitized(message, rest) == message

(* sanitizeForcedCloseMessage drops the sentences that ask; `rest` is what *)
(* the others mention.                                                     *)
Sanitized(message, rest) == IF message.asks THEN [asks |-> FALSE, about |-> rest] ELSE message

(* Whether the model's words say that the section is over.                 *)
ClosingPhrase == BOOLEAN

(* sectionDone as the code sees it: the model says so, its message is a    *)
(* closing phrase that asks nothing, or the user closes; but only the      *)
(* user's word closes over a question.                                     *)
Closes(t, done, message, phrase) ==
    \/ turn[t].closing
    \/ (done \/ phrase) /\ ~message.asks

TalkIsGood(t) ==
    /\ turn[t].at = "talk"
    /\ \E done \in BOOLEAN, phrase \in ClosingPhrase, message \in Message, rest \in SUBSET Rules :
        /\ rest \subseteq message.about
        /\ \/ /\ Closes(t, done, message, phrase)
              /\ turn' = [turn EXCEPT ![t].at = "extract", ![t].attempt = 0,
                            ![t].said = IF turn[t].closing THEN Sanitized(message, rest) ELSE message]
              /\ UNCHANGED <<section, analysis, users, mentions, cards>>
           \/ ~Closes(t, done, message, phrase) /\ Answers(t, message, NoCard)
    /\ UNCHANGED <<clarified, forced>>

(* hasNoExperience: the section is switched to projects, question or not   *)
(* (Conversation has the switch itself).                                   *)
TalkSwitches(t) ==
    /\ turn[t].at = "talk" /\ section = "experience"
    /\ \E message \in Message : Answers(t, message, NoCard)
    /\ UNCHANGED <<clarified, forced>>

-----------------------------------------------------------------------------
(* The extraction call and what is made of its outcome.                    *)

(* Mutants of Kept: what was extracted replaces what there was; an earlier *)
(* card does not stand in for a failed extraction.                         *)
KeptAsExtracted(prior, kind, card) ==
    IF kind = "card" THEN card ELSE IF HasEntries(prior) THEN prior ELSE NoCard
KeptUnlessFailed(prior, kind, card) ==
    IF kind # "card" THEN NoCard
    ELSE IF section \in Object /\ prior # NoCard THEN prior \cup card
    ELSE card

(* The card a turn ends with: an object card completed by the prior one,   *)
(* an array card unless it has fewer entries than the prior one, no card   *)
(* at all replaced by the prior one; two empty answers are an empty card   *)
(* only where a section may be empty.                                      *)
Kept(prior, kind, card) ==
    LET found == IF kind = "card" THEN card
                 ELSE IF kind = "empty" /\ section \in SECTIONS_ALLOWED_EMPTY THEN {}
                 ELSE NoCard
    IN  IF found = NoCard THEN IF HasEntries(prior) THEN prior ELSE NoCard
        ELSE IF prior = NoCard THEN found
        ELSE IF section \in Object THEN prior \cup found
        ELSE IF Cardinality(found) < Cardinality(prior) THEN prior ELSE found

(* Mutant of Unmet: fields already asked about are asked about again.      *)
UnmetAgain(card, heard) == IF section = "basic" THEN {f \in Rules : FieldsOf[f] \cap card = {}} ELSE {}

(* The required fields a card lacks and the history asks for too rarely.   *)
Unmet(card, heard) ==
    IF section = "basic"
    THEN {f \in Rules : FieldsOf[f] \cap card = {} /\ heard.mentions[f] < ASK_LIMIT}
    ELSE {}

First(F) == Required[CHOOSE i \in DOMAIN Required :
                        /\ Required[i] \in F
                        /\ \A j \in 1 .. i - 1 : Required[j] \notin F]

(* clarifyingQuestion takes turns; basic's second one is about the title.  *)
Clarifying(heard) ==
    [asks |-> TRUE, about |-> IF section = "basic" /\ heard.clarified % 2 = 1 THEN {"title"} ELSE {}]

Concludes(t, kind, extracted) ==
    LET heard == turn[t].heard
        card  == Kept(turn[t].prior, kind, extracted)
        unmet == Unmet(card, heard)
    IN  \/ /\ card = NoCard
           /\ Answers(t, Clarifying(heard), NoCard)
           /\ clarified' = clarified + 1
           /\ UNCHANGED forced
        \/ /\ card # NoCard /\ unmet # {}
           /\ Answers(t, [asks |-> TRUE, about |-> {First(unmet)}], NoCard)
           /\ forced' = [forced EXCEPT ![First(unmet)] = @ + 1]
           /\ UNCHANGED clarified
        \/ /\ card # NoCard /\ unmet = {}
           /\ Answers(t, turn[t].said, card)
           /\ UNCHANGED <<clarified, forced>>

ExtractIsBad(t) ==
    /\ turn[t].at = "extract"
    /\ \/ Retry(t, EXTRACT_REMINDERS)
       \/ turn[t].attempt = EXTRACT_REMINDERS /\ Concludes(t, "failed", NoCard)

(* Mutant of WorthRechecking: an empty list is taken at its word.          *)
NeverRechecked(card, heard) == FALSE

(* An empty list is checked once more when the user's message is not the   *)
(* first of the section.                                                   *)
WorthRechecking(card, heard) == card = {} /\ heard.users + 1 > 1

ExtractIsGood(t) ==
    /\ turn[t].at = "extract"
    /\ \E card \in Cards :
        \/ /\ WorthRechecking(card, turn[t].heard)
           /\ turn' = [turn EXCEPT ![t].at = "recheck", ![t].attempt = 0]
           /\ UNCHANGED <<section, analysis, users, clarified, mentions, cards, forced>>
        \/ ~WorthRechecking(card, turn[t].heard) /\ Concludes(t, "card", card)

(* The second look has no retries.                                         *)
Recheck(t) ==
    /\ turn[t].at = "recheck"
    /\ \/ Concludes(t, "failed", NoCard)
       \/ Concludes(t, "empty", NoCard)
       \/ \E card \in Cards \ {{}} : Concludes(t, "card", card)

-----------------------------------------------------------------------------
Step(t) ==
    \/ ReadHistory(t) \/ ReadBestCard(t) \/ UserSays(t)
    \/ TalkIsBad(t) \/ TalkIsGood(t) \/ TalkSwitches(t)
    \/ ExtractIsBad(t) \/ ExtractIsGood(t) \/ Recheck(t)
    \/ StoreCard(t) \/ Breaks(t)

Next == AnalysisGoes \/ \E t \in Turns : Step(t)

Spec == Init /\ [][Next]_vars

-----------------------------------------------------------------------------
(* Properties.                                                             *)

Reminders(at) == IF at = "talk" THEN REMINDERS ELSE IF at = "extract" THEN EXTRACT_REMINDERS ELSE 0

(* The variables' types, and every call of the model has its reminder      *)
(* (completeWithRetries).                                                  *)
TypeOK ==
    /\ users \in 0 .. MaxTurns /\ clarified \in Nat
    /\ mentions \in [Rules -> Nat] /\ forced \in [Rules -> Nat]
    /\ analysis \in Cards \cup {NoCard}
    /\ cards \in Seq([holds : Cards, saw : Nat])
    /\ turn \in [Turns -> Turn]
    /\ \A t \in Turns : turn[t].attempt <= Reminders(turn[t].at)

(* "A card [never appears] next to an unanswerable question"               *)
(* (section-reply.service.ts:218-225): the message a turn stores before    *)
(* its card asks nothing, whatever the model wrote and however the section *)
(* was closed.                                                             *)
NoQuestionBesideCard == \A t \in Turns : turn[t].at = "card" => ~turn[t].said.asks

(* What the turn of card j knew of card i: it had read it, and so, where a *)
(* turn goes on from the latest card only, had those of the cards between. *)
Knew(j, i) == \A k \in IF section \in Object THEN i + 1 .. j ELSE {j} : cards[k].saw >= i

(* No card holds less than an earlier one its turn knew of: lists do not   *)
(* get shorter, filled fields stay filled, and nothing goes of what the    *)
(* upload's analysis read ("losing a user's data is worse than showing a   *)
(* slightly stale card", lines 481-487).  A turn that overlaps the one     *)
(* that stored the earlier card may not know of it (see NoCardShrinks).    *)
NothingIsLost ==
    /\ \A i, j \in DOMAIN cards : i < j /\ Knew(j, i) => AtLeast(cards[i].holds, cards[j].holds)
    /\ analysis # NoCard => \A i \in DOMAIN cards : AtLeast(analysis, cards[i].holds)

(* The same of every two cards: proved of messages that come one at a      *)
(* time.  When they overlap it does not hold: of two turns that read no    *)
(* card the one with fewer entries may store last.                         *)
NoCardShrinks ==
    \A i, j \in DOMAIN cards : i < j => AtLeast(cards[i].holds, cards[j].holds)

(* The basics never close without title or contact unless the user was     *)
(* asked for it, and the code forces its own question the limit's times at *)
(* most, once more for each further message in flight, so the section gets *)
(* past a field the user does not have (lines 124-145).                    *)
AskedOnceBeforeClose ==
    /\ \A f \in Rules : forced[f] <= ASK_LIMIT - 1 + Cardinality(Turns)
    /\ section = "basic" => \A i \in DOMAIN cards, f \in Rules :
            FieldsOf[f] \cap cards[i].holds = {} => mentions[f] > 0

(* A section that has entries never asks the user to say them again: a     *)
(* turn that read a card with entries, or found them in the upload's       *)
(* analysis, ends with a card whatever extraction returns or fails to.     *)
NeverAsksAgain ==
    [][\A t \in Turns : clarified' # clarified /\ turn'[t] # turn[t] =>
            /\ \A i \in 1 .. turn[t].saw : ~HasEntries(cards[i].holds)
            /\ turn[t].saw = 0 => ~HasEntries(analysis)]_vars

(* An empty list is stored only where a section may be empty, or by a turn *)
(* that read no earlier word of the user (lines 564-568).  The comment at  *)
(* lines 65-70 says more, that every other section ends with real entries; *)
(* the first answer of a section is not checked again and may be empty.    *)
EmptyCardIsMeant ==
    [][\A t \in Turns : cards' # cards /\ turn'[t] # turn[t] /\ turn[t].card = {} =>
            section \in SECTIONS_ALLOWED_EMPTY \/ turn[t].heard.users = 0]_vars
=============================================================================
