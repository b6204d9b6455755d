----------------------------- MODULE Conversation -----------------------------
(***************************************************************************)
(* The conversation that builds a CV: src/modules/conversation, on the CV  *)
(* of module Cv.                                                           *)
(*                                                                         *)
(* POST /conversations opens a session with a list of sections to go       *)
(* through (all of them, or those an uploaded file lacks).  A message to   *)
(* the session calls the model, streams its answer and may end in a card   *)
(* for the current section, or replace experience by projects.  Confirming *)
(* a card writes the section into the CV and moves to the next one; the    *)
(* last confirm completes both.  Meanwhile PATCH /cv edits sections, and an *)
(* upload's analysis may replace the CV.                                   *)
(*                                                                         *)
(* No request holds a lock.  Each works on the rows it READ and saves them *)
(* whole, so what a request holds between its reads and its writes is      *)
(* state: post[r], turn[m], confirm[c], patch[p].  Saving a session or CV  *)
(* whose row is gone inserts it again, unless a foreign key forbids it.    *)
(*                                                                         *)
(* One device: nothing here is shared between devices.  A session has the  *)
(* name of the POST that made it.  Message texts are left out: they reach  *)
(* only the model, whose answers are chosen freely.                        *)
(***************************************************************************)
EXTENDS Cv

CONSTANTS
    Posts,          \* calls of POST /conversations and DELETE /conversations/:id
    Turns,          \* in-flight calls of POST .../messages
    Confirms,       \* in-flight calls of POST .../confirm
    Patches,        \* in-flight calls of PATCH /cv
    Uploads,        \* uploads whose analysis may complete
    Old,            \* author of a CV from before
    BuildSections,  \* DEFAULT_BUILD_SECTIONS, in order
    MaxRequests     \* bound: requests and finished analyses of a behaviour

ASSUME ConversationAssumption ==
    /\ Authors = Posts \cup Patches \cup Uploads \cup {Old}
    /\ Old \notin Posts \cup Patches \cup Uploads
    /\ BuildSections \in Seq(Sections)
    /\ {BuildSections[i] : i \in DOMAIN BuildSections} = Sections \ {"projects"}
    /\ \A i, j \in DOMAIN BuildSections : BuildSections[i] = BuildSections[j] => i = j
    /\ BuildSections[1] = "basic"
    /\ MaxRequests \in Nat

VARIABLES
    cv,         \* the device's row of `cvs`, None without one
    rows,       \* its rows of `cv_sections`
    analysis,   \* its row of `cv_analyses`: of which upload, and the sections with low confidence
    sessions,   \* table conversation_sessions
    cards,      \* table messages: the sections each session has a card for
    post, turn, confirm, patch,     \* requests in flight
    requests    \* how many have begun

vars == <<cv, rows, analysis, sessions, cards, post, turn, confirm, patch, requests>>

Entry == [id : Sections, status : {"pending", "confirmed"}]

Session == [status : {"in_progress", "completed"}, list : Seq(Entry),
            current : Sections \cup {None}, cv : CvIds \cup {None}]

ASSUME SessionAssumption == None \notin Session

(* Of an analysis, what create asks it: which sections the file lacks.     *)
Analysis == [upload : Uploads, low : SUBSET Sections]

Pending(names) == [i \in DOMAIN names |-> [id |-> names[i], status |-> "pending"]]

(* currentSection and status of a session whose first open entry is at i.  *)
At(list, i) == IF i \in DOMAIN list THEN list[i].id ELSE None
StatusAt(list, i) == IF i \in DOMAIN list THEN "in_progress" ELSE "completed"

Position(list, s) == CHOOSE i \in DOMAIN list : list[i].id = s
Has(list, s) == \E i \in DOMAIN list : list[i].id = s

Active == {x \in Posts : sessions[x] # None /\ sessions[x].status = "in_progress"}

Idle == [at |-> "idle"]

Init ==
    /\ \/ cv = None /\ rows = NoRows
       \/ \E id \in CvIds :
            /\ cv = [id |-> id, confirmed |-> Sections, complete |-> TRUE]
            /\ rows = [s \in Sections |-> <<Old, s>>]
    /\ analysis = None
    /\ sessions = [x \in Posts |-> None]
    /\ cards = [x \in Posts |-> {}]
    /\ post = [r \in Posts |-> Idle]
    /\ turn = [m \in Turns |-> Idle]
    /\ confirm = [c \in Confirms |-> Idle]
    /\ patch = [p \in Patches |-> Idle]
    /\ requests = 0

-----------------------------------------------------------------------------
(* Rows and foreign keys.                                                  *)

(* Ids no row and no copy in memory mentions: a new CV gets one of them.   *)
FreshCvIds ==
    CvIds \ ({IF cv = None THEN None ELSE cv.id}
             \cup {sessions[x].cv : x \in {y \in Posts : sessions[y] # None}}
             \cup {post[r].copy.cv : r \in {q \in Posts : post[q].at = "drop"}}
             \cup {turn[m].copy.cv : m \in {n \in Turns : turn[n].at # "idle"}}
             \cup {confirm[c].copy.cv : c \in {d \in Confirms : confirm[d].at # "idle"}}
             \cup {patch[p].copy.id : p \in {q \in Patches : patch[q].at # "idle"}})

(* sessions.cvId references cvs.                                           *)
CvExists(id) == id = None \/ (cv # None /\ cv.id = id)

(* Mutant of OneInProgress: no such index.                                 *)
NoIndex(x, row) == TRUE

(* The unique index on deviceId of sessions in progress lets session x be  *)
(* saved as this row only while no other one is in progress.               *)
OneInProgress(x, row) == row.status = "in_progress" => Active \subseteq {x}

(* Mutant of DeleteSessions: their messages stay.                          *)
DeleteSessionsOnly(X) ==
    /\ sessions' = [x \in Posts |-> IF x \in X THEN None ELSE sessions[x]]
    /\ UNCHANGED cards

(* Deleting sessions takes their messages along (ON DELETE CASCADE).       *)
DeleteSessions(X) ==
    /\ sessions' = [x \in Posts |-> IF x \in X THEN None ELSE sessions[x]]
    /\ cards' = [x \in Posts |-> IF x \in X THEN {} ELSE cards[x]]

(* deleteSessionAndItsCv: the CV the read session points at, with its      *)
(* sections and every session that points at it, then the session.         *)
DeleteSessionAndItsCv(x, copy) ==
    IF copy.cv # None /\ CvExists(copy.cv)
    THEN /\ cv' = None
         /\ rows' = NoRows
         /\ DeleteSessions({x} \cup {y \in Posts : sessions[y] # None /\ sessions[y].cv = copy.cv})
    ELSE /\ DeleteSessions({x})
         /\ UNCHANGED <<cv, rows>>

(* Another request (the bound).                                            *)
Begins == requests < MaxRequests /\ requests' = requests + 1

-----------------------------------------------------------------------------
(* POST and DELETE /conversations.                                         *)

(* create, up to what it finds: an upload must have its analysis; a        *)
(* session in progress is only given up for `restart` (else 409, which     *)
(* changes nothing).                                                       *)
PostBegins(r) ==
    /\ Begins
    /\ post[r].at = "idle"
    /\ \E mode \in {"build", "upload"} :
        /\ mode = "upload" => analysis # None
        /\ LET open == [at |-> "make", mode |-> mode, dropped |-> None, copy |-> None,
                        low |-> IF mode = "upload" THEN analysis.low ELSE {}]
           IN  IF Active = {}
               THEN post' = [post EXCEPT ![r] = open]
               ELSE \E x \in Active :
                      post' = [post EXCEPT ![r] = [open EXCEPT !.at = "drop", !.dropped = x,
                                                                !.copy = sessions[x]]]
    /\ UNCHANGED <<cv, rows, analysis, sessions, cards, turn, confirm, patch>>

(* deleteByIdForDevice, after getOwnedSession.                             *)
DeleteBegins(r) ==
    /\ Begins
    /\ post[r].at = "idle"
    /\ \E x \in Posts :
        /\ sessions[x] # None
        /\ post' = [post EXCEPT ![r] = [at |-> "drop", mode |-> "delete", dropped |-> x,
                                        low |-> {}, copy |-> sessions[x]]]
    /\ UNCHANGED <<cv, rows, analysis, sessions, cards, turn, confirm, patch>>

(* The restart's or the DELETE's deletion.  A restart over an upload keeps *)
(* the CV, which is the file's by now.                                     *)
DropSession(r) ==
    /\ post[r].at = "drop"
    /\ IF post[r].mode = "upload"
       THEN DeleteSessions({post[r].dropped}) /\ UNCHANGED <<cv, rows>>
       ELSE DeleteSessionAndItsCv(post[r].dropped, post[r].copy)
    /\ post' = [post EXCEPT ![r].at = IF post[r].mode = "delete" THEN "done" ELSE "make",
                           ![r].copy = None]
    /\ UNCHANGED <<analysis, turn, confirm, patch, requests>>

(* Mutant of SectionPlan: the sections of an upload are not filtered.      *)
EverySection(mode, low) == BuildSections

(* Those of the first n build sections that are in `low`: the filter of    *)
(* DEFAULT_BUILD_SECTIONS.                                                 *)
Filtered(low) ==
    LET kept[n \in 0 .. Len(BuildSections)] ==
            IF n = 0 THEN <<>>
            ELSE IF BuildSections[n] \in low THEN Append(kept[n - 1], BuildSections[n])
            ELSE kept[n - 1]
    IN  kept[Len(BuildSections)]

(* The sections to go through.  (projects is never of low confidence, so   *)
(* the code's insertion of it never happens.)                              *)
SectionPlan(mode, low) == IF mode = "build" THEN BuildSections ELSE Filtered(low)

(* The session create makes.                                               *)
NewSession(r) ==
    LET list == Pending(SectionPlan(post[r].mode, post[r].low))
    IN  [status |-> StatusAt(list, 1), list |-> list, current |-> At(list, 1),
         cv |-> IF post[r].mode = "upload" THEN cv.id ELSE None]

(* The rest of create: a session over an upload needs the device's CV (a   *)
(* 404 otherwise), and of two POSTs at once the index refuses one (a 500). *)
MakeSession(r) ==
    /\ post[r].at = "make"
    /\ IF (post[r].mode = "upload" => cv # None) /\ OneInProgress(r, NewSession(r))
       THEN /\ sessions' = [sessions EXCEPT ![r] = NewSession(r)]
            /\ post' = [post EXCEPT ![r].at = "done"]
       ELSE /\ post' = [post EXCEPT ![r].at = "refused"]
            /\ UNCHANGED sessions
    /\ UNCHANGED <<cv, rows, analysis, cards, turn, confirm, patch, requests>>

-----------------------------------------------------------------------------
(* POST .../messages.                                                      *)

(* getActiveOwnedSession and the other reads before the model is called.   *)
SendMessage(m, x) ==
    /\ Begins
    /\ turn[m].at = "idle"
    /\ x \in Active
    /\ turn' = [turn EXCEPT ![m] = [at |-> "model", session |-> x, copy |-> sessions[x], ends |-> "text"]]
    /\ UNCHANGED <<cv, rows, analysis, sessions, cards, post, confirm, patch>>

(* The model's answer, saved before it is streamed: a session deleted      *)
(* meanwhile makes that save fail, and the turn ends in an error event.    *)
(* An answer that ends in neither a card nor the switch changes nothing    *)
(* more.                                                                   *)
Reply(m) ==
    /\ turn[m].at = "model"
    /\ \/ turn' = [turn EXCEPT ![m] = Idle]
       \/ /\ sessions[turn[m].session] # None
          /\ \E ends \in {"card"} \cup (IF turn[m].copy.current = "experience" THEN {"switch"} ELSE {}) :
                turn' = [turn EXCEPT ![m].at = "stream", ![m].ends = ends]
    /\ UNCHANGED <<cv, rows, analysis, sessions, cards, post, confirm, patch, requests>>

(* appendSectionCardMessage, after the stream; it fails when the session   *)
(* is gone.                                                                *)
AppendCard(m) ==
    /\ turn[m].at = "stream" /\ turn[m].ends = "card"
    /\ cards' = IF sessions[turn[m].session] = None THEN cards
                ELSE [cards EXCEPT ![turn[m].session] = @ \cup {turn[m].copy.current}]
    /\ turn' = [turn EXCEPT ![m] = Idle]
    /\ UNCHANGED <<cv, rows, analysis, sessions, post, confirm, patch, requests>>

(* switchExperienceToProjects on the copy read before the model call.      *)
Switched(copy) ==
    [copy EXCEPT !.list[Position(copy.list, "experience")] = [id |-> "projects", status |-> "pending"],
                 !.current = "projects"]

SwitchToProjects(m) ==
    /\ turn[m].at = "stream" /\ turn[m].ends = "switch"
    /\ sessions' = IF /\ Has(turn[m].copy.list, "experience") /\ CvExists(turn[m].copy.cv)
                      /\ OneInProgress(turn[m].session, Switched(turn[m].copy))
                   THEN [sessions EXCEPT ![turn[m].session] = Switched(turn[m].copy)]
                   ELSE sessions
    /\ turn' = [turn EXCEPT ![m] = Idle]
    /\ UNCHANGED <<cv, rows, analysis, cards, post, confirm, patch, requests>>

-----------------------------------------------------------------------------
(* POST .../confirm.                                                       *)

(* Mutant of Confirmable: the card's section is not compared.              *)
AnyCard(x, s, y, card) == sessions[x].current = s /\ y = x

(* confirmSection's conditions on the session, the section asked for and   *)
(* the message: session y's card for section `card`.                       *)
Confirmable(x, s, y, card) == sessions[x].current = s /\ y = x /\ card = s

(* The reads and checks before the transaction.  Edits are validated       *)
(* against the section's own shape: the content stays one of the section.  *)
ConfirmReads(c, x) ==
    /\ Begins
    /\ confirm[c].at = "idle"
    /\ x \in Active
    /\ \E s \in Sections, y \in Posts : \E card \in cards[y] :
        /\ Confirmable(x, s, y, card)
        /\ confirm' = [confirm EXCEPT ![c] =
                [at |-> "read", session |-> x, copy |-> sessions[x], section |-> s,
                 content |-> <<y, card>>, cv |-> None]]
    /\ UNCHANGED <<cv, rows, analysis, sessions, cards, post, turn, patch>>

(* In the transaction, the CV is read first: by the session's cvId, else   *)
(* the device's.  Under READ COMMITTED others may commit after that read.  *)
ConfirmReadsCv(c) ==
    /\ confirm[c].at = "read"
    /\ confirm' = [confirm EXCEPT ![c].at = "tx", ![c].cv = cv]
    /\ UNCHANGED <<cv, rows, analysis, sessions, cards, post, turn, patch, requests>>

(* Mutant of Advanced: the section after the next one.                     *)
AdvancedByTwo(copy, s, cvId) ==
    LET i == Position(copy.list, s)
    IN  [copy EXCEPT !.list[i].status = "confirmed", !.current = At(copy.list, i + 2),
                     !.cv = cvId, !.status = StatusAt(copy.list, i + 2)]

(* The session after the confirm: the next section of its own list.        *)
Advanced(copy, s, cvId) ==
    LET i == Position(copy.list, s)
    IN  [copy EXCEPT !.list[i].status = "confirmed", !.current = At(copy.list, i + 1),
                     !.cv = cvId, !.status = StatusAt(copy.list, i + 1)]

IsLastOf(copy, s) == At(copy.list, Position(copy.list, s) + 1) = None

(* The transaction's writes: the CV, the section, the session, all on the  *)
(* copies read.                                                            *)
ConfirmCommits(c) ==
    LET seen == confirm[c].cv
        copy == confirm[c].copy
        s    == confirm[c].section
    IN  /\ confirm[c].at = "tx"
        /\ \E id \in IF seen = None THEN FreshCvIds ELSE {seen.id} :
            /\ IF seen = None THEN cv = None ELSE CvExists(id)
            /\ cv' = ConfirmedCv(IF seen = None THEN EmptyCv(id) ELSE seen, copy.cv, s, IsLastOf(copy, s))
            /\ rows' = ConfirmedRows(rows, copy.cv, s, confirm[c].content)
            /\ OneInProgress(confirm[c].session, Advanced(copy, s, id))
            /\ sessions' = [sessions EXCEPT ![confirm[c].session] = Advanced(copy, s, id)]
        /\ confirm' = [confirm EXCEPT ![c] = Idle]
        /\ UNCHANGED <<analysis, cards, post, turn, patch, requests>>

(* ... or none of them: another request created the device's CV first      *)
(* (unique deviceId), deleted this one (foreign keys), inserted the same   *)
(* section's row first (unique index), or another session is in progress.  *)
ConfirmAborts(c) ==
    /\ confirm[c].at = "tx"
    /\ confirm' = [confirm EXCEPT ![c] = Idle]
    /\ UNCHANGED <<cv, rows, analysis, sessions, cards, post, turn, patch, requests>>

-----------------------------------------------------------------------------
(* PATCH /cv: no transaction.                                              *)

(* The CV is read, and the sections to write are known.                    *)
PatchReads(p) ==
    /\ Begins
    /\ patch[p].at = "idle"
    /\ cv # None
    /\ \E S \in SUBSET (Sections \ {"basic"}), basic \in BOOLEAN :
        patch' = [patch EXCEPT ![p] =
            [at |-> "write", todo |-> S,
             copy |-> IF basic THEN Listed(cv, {"basic"}) ELSE cv]]
    /\ UNCHANGED <<cv, rows, analysis, sessions, cards, post, turn, confirm>>

(* One upsertSection; it fails when the CV read is gone.                   *)
PatchSection(p, s) ==
    /\ patch[p].at = "write" /\ s \in patch[p].todo
    /\ IF CvExists(patch[p].copy.id)
       THEN /\ rows' = [rows EXCEPT ![s] = <<p, s>>]
            /\ patch' = [patch EXCEPT ![p].todo = @ \ {s}, ![p].copy = Listed(@, {s})]
       ELSE /\ patch' = [patch EXCEPT ![p] = Idle]
            /\ UNCHANGED rows
    /\ UNCHANGED <<cv, analysis, sessions, cards, post, turn, confirm, requests>>

(* saveCv of the copy: a CV deleted meanwhile comes back, without sections.*)
PatchSaves(p) ==
    /\ patch[p].at = "write" /\ patch[p].todo = {}
    /\ cv' = IF cv = None \/ cv.id = patch[p].copy.id THEN patch[p].copy ELSE cv
    /\ patch' = [patch EXCEPT ![p] = Idle]
    /\ UNCHANGED <<rows, analysis, sessions, cards, post, turn, confirm, requests>>

-----------------------------------------------------------------------------
(* saveAnalysis of a finished upload, in one transaction under a lock.     *)
SaveAnalysis(u) ==
    /\ Begins
    /\ \E filled \in SUBSET Sections :
        /\ analysis' = [upload |-> u, low |-> Low(filled)]
        /\ \E id \in IF cv = None THEN FreshCvIds ELSE {cv.id} : cv' = AnalysedCv(id, filled)
        /\ rows' = AnalysedRows(u, filled)
    /\ UNCHANGED <<sessions, cards, post, turn, confirm, patch>>

-----------------------------------------------------------------------------
Next ==
    \/ \E r \in Posts : PostBegins(r) \/ DeleteBegins(r) \/ DropSession(r) \/ MakeSession(r)
    \/ \E m \in Turns, x \in Posts : SendMessage(m, x)
    \/ \E m \in Turns : Reply(m) \/ AppendCard(m) \/ SwitchToProjects(m)
    \/ \E c \in Confirms, x \in Posts : ConfirmReads(c, x)
    \/ \E c \in Confirms : ConfirmReadsCv(c) \/ ConfirmCommits(c) \/ ConfirmAborts(c)
    \/ \E p \in Patches : PatchReads(p) \/ PatchSaves(p)
    \/ \E p \in Patches, s \in Sections : PatchSection(p, s)
    \/ \E u \in Uploads : SaveAnalysis(u)

Spec == Init /\ [][Next]_vars

-----------------------------------------------------------------------------
(* Properties.                                                             *)

(* Every row has its type; a card belongs to a session that is there       *)
(* (conversation.repository, cv.repository and the foreign keys).          *)
TypeOK ==
    /\ cv \in CvRow \cup {None} /\ rows \in Rows
    /\ cv = None => rows = NoRows
    /\ analysis \in Analysis \cup {None}
    /\ \A x \in Posts :
        /\ sessions[x] = None \/ sessions[x] \in Session
        /\ cards[x] \subseteq Sections
        /\ sessions[x] = None => cards[x] = {}

(* However requests with old copies overlap, a session is always at its    *)
(* first unconfirmed section, everything before it confirmed and           *)
(* everything from it on pending, and completed exactly when none is left  *)
(* (confirmSection and switchExperienceToProjects write whole copies).     *)
SessionConsistent ==
    \A x \in Posts : sessions[x] # None =>
        LET list == sessions[x].list
        IN  \E n \in 0 .. Len(list) :
                /\ \A i \in DOMAIN list : list[i].status = "confirmed" <=> i <= n
                /\ sessions[x].current = At(list, n + 1)
                /\ sessions[x].status = StatusAt(list, n + 1)

(* However POSTs, restarts and saves of sessions already deleted overlap,  *)
(* a device has at most one session in progress                            *)
(* (InitPhase1Schema.ts:66), so the one a restart finds is the one.        *)
OneActive == Cardinality(Active) <= 1

(* Sections of an older CV never end up in the document of a build         *)
(* conversation that has confirmed anything (cv.service.ts:93-100), unless *)
(* the row is of someone who wrote it since.                               *)
NothingOldLeaks ==
    \A x \in Posts : (sessions[x] # None /\ post[x].mode = "build" /\ sessions[x].cv # None) =>
        \A s \in Sections : rows[s] = None \/ rows[s][1] # Old

(* A section of the CV holds a card made for that section, whichever       *)
(* message a client names when confirming and whatever the session has     *)
(* moved on to (confirmSection's checks).                                  *)
CardsStayInSection ==
    \A s \in Sections : rows[s] = None \/ rows[s][2] = s

(* A confirm of a session that already has its CV removes no section: in   *)
(* particular a conversation over an upload keeps what the file gave, even *)
(* when `basic` is among the sections it asks for.                         *)
ConfirmKeepsOthers ==
    [][\A c \in Confirms :
        (confirm[c].at = "tx" /\ confirm'[c].at = "idle" /\ confirm[c].copy.cv # None)
            => \A s \in Sections : rows[s] # None => rows'[s] # None]_vars

(* A session over an upload asks for exactly what the analysis found       *)
(* missing when it was read, although another upload's analysis may have   *)
(* replaced that one since.                                                *)
UploadAsksForMissing ==
    [][\A x \in Posts : (sessions[x] = None /\ sessions'[x] # None /\ post[x].at = "make"
                                            /\ post[x].mode = "upload")
        => {sessions'[x].list[i].id : i \in DOMAIN sessions'[x].list} = post[x].low]_vars

(* "A typo/stale upload id must never destroy the conversation the user    *)
(* can still resume" (conversation.service.ts:56-57): a POST that is       *)
(* refused has not deleted the session it found.                           *)
RefusalKeepsConversation ==
    \A r \in Posts : post[r].at = "refused" => post[r].dropped = None
=============================================================================
