-------------------------- MODULE ConversationProofs --------------------------
(***************************************************************************)
(* Proofs about Conversation, for any sections, CVs, ids, requests and any *)
(* overlap of them.                                                        *)
(*                                                                         *)
(* No invariant of the tables is inductive: the requests save the copies   *)
(* they read, whatever the tables have become.  The argument is that a     *)
(* copy of a session in progress is as good as the session: it is at its   *)
(* first unconfirmed section, and either it has confirmed nothing and is   *)
(* at `basic`, or no section of an older CV is left.  That stays true of   *)
(* the copy whatever others do, because the POST that made the session is  *)
(* over and an older CV's section never comes back.                        *)
(***************************************************************************)
EXTENDS Conversation, TLAPS, FiniteSetTheorems, SequenceTheorems, WellFoundedInduction, NaturalsInduction

Distinct(list) == \A i, j \in DOMAIN list : list[i].id = list[j].id => i = j

(* Projects only replaces experience.                                      *)
NotBoth(list) == ~(Has(list, "experience") /\ Has(list, "projects"))

(* At its first unconfirmed section.                                       *)
AtFirstOpen(copy) ==
    \E n \in 0 .. Len(copy.list) :
        /\ \A i \in DOMAIN copy.list : copy.list[i].status = "confirmed" <=> i <= n
        /\ copy.current = At(copy.list, n + 1)
        /\ copy.status = StatusAt(copy.list, n + 1)

Good(copy) ==
    /\ copy \in Session
    /\ Distinct(copy.list) /\ NotBoth(copy.list)
    /\ AtFirstOpen(copy)

(* No section of the CV from before is left.                               *)
OldGone == \A s \in Sections : rows[s] = None \/ rows[s][1] # Old

(* Session x as some request read it, or as its table has it.              *)
Held(x, copy) ==
    /\ Good(copy)
    /\ post[x].at = "done"
    /\ post[x].mode = "build" => IF copy.cv = None THEN copy.current = "basic" ELSE OldGone

Post == [at : {"idle"}]
        \cup [at : {"drop", "make", "done", "refused"}, mode : {"build", "upload", "delete"},
              dropped : Posts \cup {None}, copy : Session \cup {None},
              low : SUBSET (Sections \ {"projects"})]
Turn == [at : {"idle"}]
        \cup [at : {"model", "stream"}, session : Posts, copy : Session,
              ends : {"text", "card", "switch"}]
Confirm == [at : {"idle"}]
           \cup [at : {"read", "tx"}, session : Posts, copy : Session, section : Sections,
                 content : Posts \X Sections, cv : CvRow \cup {None}]
Patch == [at : {"idle"}] \cup [at : {"write"}, todo : SUBSET Sections, copy : CvRow]

Tables ==
    /\ cv \in CvRow \cup {None} /\ rows \in Rows
    /\ cv = None => rows = NoRows
    /\ analysis \in Analysis \cup {None}
    /\ analysis # None => "projects" \notin analysis.low
    /\ sessions \in [Posts -> Session \cup {None}]
    /\ cards \in [Posts -> SUBSET Sections]
    /\ \A x \in Posts : sessions[x] = None => cards[x] = {}

Calls ==
    /\ post \in [Posts -> Post] /\ turn \in [Turns -> Turn]
    /\ confirm \in [Confirms -> Confirm] /\ patch \in [Patches -> Patch]

Types == Tables /\ Calls

(* What the tables and the requests hold of sessions.                      *)
SessionsHeld == \A x \in Posts : sessions[x] # None => Held(x, sessions[x])

TurnsHeld ==
    \A m \in Turns : turn[m].at # "idle" =>
        /\ Held(turn[m].session, turn[m].copy)
        /\ turn[m].copy.status = "in_progress"
        /\ turn[m].ends = "switch" => turn[m].copy.current = "experience"

ConfirmsHeld ==
    \A c \in Confirms : confirm[c].at # "idle" =>
        /\ Held(confirm[c].session, confirm[c].copy)
        /\ confirm[c].copy.status = "in_progress"
        /\ confirm[c].copy.current = confirm[c].section
        /\ confirm[c].content[2] = confirm[c].section

OnlyOne == \A x, y \in Active : x = y

IInv ==
    /\ Types
    /\ SessionsHeld /\ TurnsHeld /\ ConfirmsHeld
    /\ OnlyOne
    /\ CardsStayInSection
-----------------------------------------------------------------------------
(* The list of sections.                                                   *)

LEMMA LeastExists ==
    ASSUME NEW S, S \subseteq Nat, S # {}
    PROVE  \E k \in S : \A m \in S : k <= m
<1>1. IsWellFoundedOn(OpToRel(<, Nat), Nat)
  BY NatLessThanWellFounded
<1>2. PICK k \in S : \A m \in S : <<m, k>> \notin OpToRel(<, Nat)
  BY <1>1, WFMin
<1>3. ASSUME NEW m \in S PROVE k <= m
  <2>1. m \in Nat /\ k \in Nat /\ <<m, k>> \in Nat \X Nat
    OBVIOUS
  <2>2. ~(m < k)
    BY <1>2, <2>1 DEF OpToRel
  <2> QED
    BY <2>1, <2>2
<1> QED
  BY <1>3

(* The filter's function, up to n.                                         *)
Filters(kept, n, low) ==
    kept = [k \in 0 .. n |->
                IF k = 0 THEN <<>>
                ELSE IF BuildSections[k] \in low THEN Append(kept[k - 1], BuildSections[k])
                ELSE kept[k - 1]]

LEMMA FilterExists ==
    ASSUME NEW low
    PROVE  \A n \in Nat : \E kept : Filters(kept, n, low)
<1> DEFINE Lacking == {n \in Nat : ~ \E kept : Filters(kept, n, low)}
<1>1. SUFFICES ASSUME Lacking # {}
               PROVE  FALSE
  OBVIOUS
<1>2. PICK n \in Lacking : \A m \in Lacking : n <= m
  <2>1. Lacking \subseteq Nat
    OBVIOUS
  <2> HIDE DEF Lacking
  <2> QED
    BY <1>1, <2>1, LeastExists
<1>3. n # 0
  <2>1. SUFFICES ASSUME n = 0
                 PROVE  FALSE
    OBVIOUS
  <2>2. Filters([k \in 0 .. 0 |-> <<>>], 0, low)
    BY DEF Filters
  <2> QED
    BY <2>1, <2>2
<1>4. n - 1 \in Nat /\ n - 1 \notin Lacking
  <2>1. n \in Nat
    OBVIOUS
  <2>2. n - 1 \in Nat /\ ~(n <= n - 1)
    BY <2>1, <1>3
  <2> QED
    BY <2>2, <1>2
<1>5. PICK kept : Filters(kept, n - 1, low)
  BY <1>4
<1> DEFINE last == IF BuildSections[n] \in low THEN Append(kept[n - 1], BuildSections[n])
                                               ELSE kept[n - 1]
           more == [k \in 0 .. n |-> IF k = n THEN last ELSE kept[k]]
<1>6. Filters(more, n, low)
  <2>1. \A k \in 0 .. n : k # 0 => k - 1 \in 0 .. n /\ k - 1 # n /\ more[k - 1] = kept[k - 1]
    OBVIOUS
  <2>2. ASSUME NEW k \in 0 .. n
        PROVE  more[k] = IF k = 0 THEN <<>>
                         ELSE IF BuildSections[k] \in low THEN Append(more[k - 1], BuildSections[k])
                         ELSE more[k - 1]
    <3>1. CASE k = n
      BY <3>1, <2>1, <1>3
    <3>2. CASE k # n
      <4>1. k \in 0 .. n - 1
        BY <3>2
      <4>2. more[k] = kept[k]
        BY <3>2
      <4>3. kept[k] = IF k = 0 THEN <<>>
                      ELSE IF BuildSections[k] \in low THEN Append(kept[k - 1], BuildSections[k])
                      ELSE kept[k - 1]
        BY <4>1, <1>5 DEF Filters
      <4> HIDE DEF more
      <4> QED
        BY <4>2, <4>3, <2>1
    <3> QED
      BY <3>1, <3>2
  <2>3. more = [k \in 0 .. n |-> more[k]]
    OBVIOUS
  <2> HIDE DEF more
  <2> QED
    BY <2>2, <2>3 DEF Filters
<1> QED
  BY <1>6

(* What the filter has kept after n of the build sections.                 *)
Kept(list, n, low) ==
    /\ list \in Seq(Sections)
    /\ {list[i] : i \in DOMAIN list} = {BuildSections[i] : i \in 1 .. n} \cap low
    /\ \A i, j \in DOMAIN list : list[i] = list[j] => i = j

LEMMA FilterKeeps ==
    ASSUME NEW low, NEW kept, Filters(kept, Len(BuildSections), low)
    PROVE  Kept(kept[Len(BuildSections)], Len(BuildSections), low)
<1> DEFINE L == Len(BuildSections)
           Lacking == {n \in 0 .. L : ~ Kept(kept[n], n, low)}
<1>0. L \in Nat /\ DOMAIN BuildSections = 1 .. L
  BY ConversationAssumption
<1>a. L \in 0 .. L
  BY <1>0
<1>1. SUFFICES ASSUME Lacking # {}
               PROVE  FALSE
  BY <1>a
<1>2. PICK n \in Lacking : \A m \in Lacking : n <= m
  <2>1. Lacking \subseteq Nat
    BY <1>0
  <2> HIDE DEF Lacking
  <2> QED
    BY <1>1, <2>1, LeastExists
<1>3. \A k \in 0 .. L : kept[k] = IF k = 0 THEN <<>>
                      ELSE IF BuildSections[k] \in low THEN Append(kept[k - 1], BuildSections[k])
                      ELSE kept[k - 1]
  BY DEF Filters
<1> HIDE DEF L
<1>4. n # 0
  <2>1. SUFFICES ASSUME n = 0
                 PROVE  FALSE
    OBVIOUS
  <2>2. kept[0] = <<>>
    BY <1>3, <1>0, <2>1
  <2>3. Kept(<<>>, 0, low)
    BY DEF Kept
  <2> QED
    BY <2>1, <2>2, <2>3
<1>5. n \in 1 .. L /\ n - 1 \in 0 .. L /\ ~(n <= n - 1)
  BY <1>4, <1>0
<1>6. Kept(kept[n - 1], n - 1, low)
  BY <1>5, <1>2
<1> DEFINE before == kept[n - 1]
           b == BuildSections[n]
<1>7. b \in Sections /\ b \notin {BuildSections[i] : i \in 1 .. n - 1}
  <2>1. b \in Sections
    BY <1>5, <1>0, ConversationAssumption, ElementOfSeq DEF L
  <2>2. \A i \in 1 .. n - 1 : i \in 1 .. L /\ i # n
    BY <1>5, <1>0
  <2> QED
    BY <2>1, <2>2, <1>0, <1>5, ConversationAssumption
<1>8. {BuildSections[i] : i \in 1 .. n} = {BuildSections[i] : i \in 1 .. n - 1} \cup {b}
  BY <1>5, <1>0
<1>9. Kept(kept[n], n, low)
  <2>1. CASE b \notin low
    <3>1. kept[n] = before
      BY <1>3, <1>5, <1>4, <2>1
    <3>2. {BuildSections[i] : i \in 1 .. n} \cap low = {BuildSections[i] : i \in 1 .. n - 1} \cap low
      BY <1>8, <2>1
    <3> HIDE DEF before, b
    <3> QED
      BY <3>1, <3>2, <1>6 DEF Kept, before
  <2>2. CASE b \in low
    <3> DEFINE after == Append(before, b)
    <3>1. kept[n] = after
      BY <1>3, <1>5, <1>4, <2>2
    <3>2. /\ before \in Seq(Sections)
          /\ {before[i] : i \in DOMAIN before} = {BuildSections[i] : i \in 1 .. n - 1} \cap low
          /\ \A i, j \in DOMAIN before : before[i] = before[j] => i = j
      BY <1>6 DEF Kept
    <3>3. /\ after \in Seq(Sections) /\ Len(after) = Len(before) + 1
          /\ \A i \in 1 .. Len(before) : after[i] = before[i]
          /\ after[Len(before) + 1] = b
      BY <3>2, <1>7, AppendProperties
    <3>4. /\ Len(before) \in Nat /\ DOMAIN before = 1 .. Len(before)
          /\ DOMAIN after = 1 .. Len(before) + 1
      BY <3>2, <3>3, LenProperties
    <3>5. \A i \in DOMAIN before : before[i] # b
      BY <3>2, <1>7
    <3> HIDE DEF after, before, b
    <3>6. {after[i] : i \in DOMAIN after} = {before[i] : i \in DOMAIN before} \cup {b}
      BY <3>3, <3>4
    <3>7. \A i, j \in DOMAIN after : after[i] = after[j] => i = j
      BY <3>2, <3>3, <3>4, <3>5
    <3>8. {after[i] : i \in DOMAIN after} = {BuildSections[i] : i \in 1 .. n} \cap low
      BY <3>6, <3>2, <1>8, <2>2
    <3> QED
      BY <3>1, <3>3, <3>7, <3>8 DEF Kept
  <2> QED
    BY <2>1, <2>2
<1> QED
  BY <1>9

LEMMA PlanIs ==
    ASSUME NEW mode, NEW low \in SUBSET (Sections \ {"projects"})
    PROVE  LET plan == SectionPlan(mode, low)
           IN  /\ plan \in Seq(Sections)
               /\ \A i \in DOMAIN plan : plan[i] # "projects"
               /\ \A i, j \in DOMAIN plan : plan[i] = plan[j] => i = j
               /\ mode # "build" => {plan[i] : i \in DOMAIN plan} = low
               /\ mode = "build" => 1 \in DOMAIN plan /\ plan[1] = "basic"
<1>1. CASE mode = "build"
  <2>1. SectionPlan(mode, low) = BuildSections
    BY <1>1 DEF SectionPlan
  <2>2. DOMAIN BuildSections = 1 .. Len(BuildSections) /\ Len(BuildSections) \in Nat
    BY ConversationAssumption
  <2>3. \A i \in DOMAIN BuildSections : BuildSections[i] # "projects"
    BY ConversationAssumption
  <2>4. 1 \in DOMAIN BuildSections
    <3>1. PICK i \in DOMAIN BuildSections : BuildSections[i] = "basic"
      BY ConversationAssumption, CvAssumption
    <3> QED
      BY <3>1, <2>2
  <2> QED
    BY <1>1, <2>1, <2>3, <2>4, ConversationAssumption
<1>2. CASE mode # "build"
  <2> DEFINE L == Len(BuildSections)
  <2>1. L \in Nat /\ DOMAIN BuildSections = 1 .. L
    BY ConversationAssumption
  <2>2. PICK kept : Filters(kept, L, low) /\ Filtered(low) = kept[L]
    <3>1. \E kept : Filters(kept, L, low)
      BY FilterExists, <2>1
    <3> QED
      BY <3>1, Zenon DEF Filtered, Filters
  <2> DEFINE plan == Filtered(low)
  <2>3. Kept(plan, L, low)
    BY <2>2, FilterKeeps
  <2>4. {BuildSections[i] : i \in 1 .. L} \cap low = low
    BY <2>1, ConversationAssumption
  <2>5. SectionPlan(mode, low) = plan
    BY <1>2 DEF SectionPlan
  <2> HIDE DEF plan
  <2>6. /\ plan \in Seq(Sections)
        /\ {plan[i] : i \in DOMAIN plan} = low
        /\ \A i, j \in DOMAIN plan : plan[i] = plan[j] => i = j
    BY <2>3, <2>4 DEF Kept
  <2> QED
    BY <1>2, <2>5, <2>6
<1> QED
  BY <1>1, <1>2

-----------------------------------------------------------------------------
(* The copies of sessions.                                                 *)

LEMMA SessionFields ==
    ASSUME NEW copy \in Session
    PROVE  /\ copy.list \in Seq(Entry) /\ Len(copy.list) \in Nat
           /\ DOMAIN copy.list = 1 .. Len(copy.list)
           /\ \A i \in DOMAIN copy.list : copy.list[i] \in Entry
           /\ copy.current \in Sections \cup {None}
           /\ copy.cv \in CvIds \cup {None}
           /\ copy.status \in {"in_progress", "completed"}
<1>1. copy.list \in Seq(Entry)
  BY DEF Session
<1> QED
  BY <1>1, LenProperties, ElementOfSeq DEF Session

(* Where a session in progress is: its current section is the one after    *)
(* the confirmed ones, and the only entry of that name.                    *)
LEMMA CurrentIs ==
    ASSUME NEW copy, Good(copy), copy.status = "in_progress"
    PROVE  \E i \in DOMAIN copy.list :
              /\ copy.list[i].id = copy.current
              /\ Position(copy.list, copy.current) = i
              /\ \A j \in DOMAIN copy.list : copy.list[j].status = "confirmed" <=> j < i
<1>1. copy \in Session /\ Distinct(copy.list)
  BY DEF Good
<1>2. Len(copy.list) \in Nat /\ DOMAIN copy.list = 1 .. Len(copy.list)
  BY <1>1, SessionFields
<1>3. PICK n \in 0 .. Len(copy.list) :
        /\ \A i \in DOMAIN copy.list : copy.list[i].status = "confirmed" <=> i <= n
        /\ copy.current = At(copy.list, n + 1)
        /\ copy.status = StatusAt(copy.list, n + 1)
  BY DEF Good, AtFirstOpen
<1> DEFINE i == n + 1
<1>4. i \in DOMAIN copy.list
  BY <1>3 DEF StatusAt
<1>5. copy.list[i].id = copy.current
  BY <1>3, <1>4 DEF At
<1>6. \A j \in DOMAIN copy.list : copy.list[j].id = copy.current => j = i
  BY <1>1, <1>4, <1>5 DEF Distinct
<1>7. Position(copy.list, copy.current) = i
  BY <1>4, <1>5, <1>6 DEF Position
<1>8. \A j \in DOMAIN copy.list : j <= n <=> j < i
  BY <1>2
<1> QED
  BY <1>3, <1>4, <1>5, <1>7, <1>8

(* A new session.                                                          *)
LEMMA PendingIs ==
    ASSUME NEW names \in Seq(Sections), NEW id \in CvIds \cup {None},
           \A i \in DOMAIN names : names[i] # "projects",
           \A i, j \in DOMAIN names : names[i] = names[j] => i = j
    PROVE  Good([status |-> StatusAt(Pending(names), 1), list |-> Pending(names),
                 current |-> At(Pending(names), 1), cv |-> id])
<1> DEFINE list == Pending(names)
           new == [status |-> StatusAt(list, 1), list |-> list, current |-> At(list, 1), cv |-> id]
<1>1. Len(names) \in Nat /\ DOMAIN names = 1 .. Len(names) /\ \A i \in DOMAIN names : names[i] \in Sections
  BY LenProperties, ElementOfSeq
<1>2. /\ DOMAIN list = DOMAIN names
      /\ \A i \in DOMAIN names : list[i].id = names[i] /\ list[i].status = "pending"
  BY DEF Pending
<1>3. list \in Seq(Entry)
  <2>1. list \in [1 .. Len(names) -> Entry]
    BY <1>1 DEF Pending, Entry
  <2> QED
    BY <2>1, <1>1, SeqDef
<1>4. Len(list) = Len(names)
  BY <1>1, <1>2, <1>3, LenProperties
<1> HIDE DEF list
<1>5. At(list, 1) \in Sections \cup {None} /\ StatusAt(list, 1) \in {"in_progress", "completed"}
  BY <1>1, <1>2 DEF At, StatusAt
<1>6. new \in Session
  BY <1>3, <1>5 DEF Session
<1>7. new.list = list /\ new.current = At(list, 1) /\ new.status = StatusAt(list, 1)
  OBVIOUS
<1> HIDE DEF new
<1>8. Distinct(new.list) /\ NotBoth(new.list)
  BY <1>2, <1>7 DEF Distinct, NotBoth, Has
<1>9. AtFirstOpen(new)
  <2>1. 0 \in 0 .. Len(list)
    BY <1>1, <1>4
  <2>2. \A i \in DOMAIN list : ~(list[i].status = "confirmed") /\ ~(i <= 0)
    BY <1>1, <1>2
  <2>3. 0 + 1 = 1
    OBVIOUS
  <2> QED
    BY <2>1, <2>2, <2>3, <1>7 DEF AtFirstOpen
<1> QED
  BY <1>6, <1>8, <1>9 DEF Good, new, list

(* A confirm of the current section.                                       *)
LEMMA AdvancedIs ==
    ASSUME NEW copy, Good(copy), copy.status = "in_progress", NEW id \in CvIds
    PROVE  /\ Good(Advanced(copy, copy.current, id))
           /\ Advanced(copy, copy.current, id).cv = id
<1> DEFINE new == Advanced(copy, copy.current, id)
           L == Len(copy.list)
<1>1. PICK i \in DOMAIN copy.list :
          /\ copy.list[i].id = copy.current
          /\ Position(copy.list, copy.current) = i
          /\ \A j \in DOMAIN copy.list : copy.list[j].status = "confirmed" <=> j < i
  BY CurrentIs
<1>2. /\ copy.list \in Seq(Entry) /\ L \in Nat /\ DOMAIN copy.list = 1 .. L
      /\ \A j \in DOMAIN copy.list : copy.list[j] \in Entry
      /\ copy \in Session
  BY SessionFields DEF Good
<1> DEFINE list == [copy.list EXCEPT ![i].status = "confirmed"]
<1>3. new = [copy EXCEPT !.list[i].status = "confirmed", !.current = At(copy.list, i + 1),
                         !.cv = id, !.status = StatusAt(copy.list, i + 1)]
  BY <1>1 DEF Advanced
<1>4. list \in Seq(Entry) /\ Len(list) = L
  <2>1. [copy.list[i] EXCEPT !.status = "confirmed"] \in Entry
    BY <1>2 DEF Entry
  <2> QED
    BY <2>1, <1>2, ExceptSeq
<1>5. /\ DOMAIN list = 1 .. L
      /\ \A j \in 1 .. L : list[j].id = copy.list[j].id
      /\ \A j \in 1 .. L : list[j].status = IF j = i THEN "confirmed" ELSE copy.list[j].status
  BY <1>2 DEF Entry
<1>6. /\ At(copy.list, i + 1) \in Sections \cup {None}
      /\ StatusAt(copy.list, i + 1) \in {"in_progress", "completed"}
  BY <1>2 DEF At, StatusAt, Entry
<1>7. /\ new.list = list /\ new.current = At(copy.list, i + 1)
      /\ new.cv = id /\ new.status = StatusAt(copy.list, i + 1)
      /\ new \in [status : {"in_progress", "completed"}, list : {list},
                  current : Sections \cup {None}, cv : CvIds \cup {None}]
  BY <1>3, <1>2, <1>6 DEF Session
<1> HIDE DEF new, list
<1>8. new \in Session
  BY <1>4, <1>7 DEF Session
<1>9. Distinct(new.list) /\ NotBoth(new.list)
  BY <1>2, <1>5, <1>7 DEF Good, Distinct, NotBoth, Has
<1>10. AtFirstOpen(new)
  <2>1. i \in 0 .. Len(list) /\ i \in 1 .. L
    BY <1>2, <1>4
  <2>2. \A j \in 1 .. L : list[j].status = "confirmed" <=> j <= i
    BY <1>1, <1>2, <1>5
  <2>3. At(list, i + 1) = At(copy.list, i + 1) /\ StatusAt(list, i + 1) = StatusAt(copy.list, i + 1)
    BY <1>2, <1>5 DEF At, StatusAt
  <2> QED
    BY <2>1, <2>2, <2>3, <1>5, <1>7 DEF AtFirstOpen
<1> QED
  BY <1>7, <1>8, <1>9, <1>10 DEF Good, new

(* The switch while experience is the current section.                     *)
LEMMA SwitchedIs ==
    ASSUME NEW copy, Good(copy), copy.status = "in_progress", copy.current = "experience",
           "projects" \in Sections
    PROVE  /\ Good(Switched(copy))
           /\ Switched(copy).cv = copy.cv
<1> DEFINE new == Switched(copy)
           L == Len(copy.list)
           open == [id |-> "projects", status |-> "pending"]
<1>1. PICK i \in DOMAIN copy.list :
          /\ copy.list[i].id = "experience"
          /\ Position(copy.list, "experience") = i
          /\ \A j \in DOMAIN copy.list : copy.list[j].status = "confirmed" <=> j < i
  BY CurrentIs
<1>2. /\ copy.list \in Seq(Entry) /\ L \in Nat /\ DOMAIN copy.list = 1 .. L
      /\ \A j \in DOMAIN copy.list : copy.list[j] \in Entry
      /\ copy \in Session
  BY SessionFields DEF Good
<1> DEFINE list == [copy.list EXCEPT ![i] = open]
<1>3. new = [copy EXCEPT !.list[i] = open, !.current = "projects"]
  BY <1>1 DEF Switched
<1>4. list \in Seq(Entry) /\ Len(list) = L
  <2>1. open \in Entry
    BY DEF Entry
  <2> QED
    BY <2>1, <1>2, ExceptSeq
<1>5. /\ DOMAIN list = 1 .. L
      /\ \A j \in 1 .. L : list[j] = IF j = i THEN open ELSE copy.list[j]
  BY <1>2
<1>6. /\ new.list = list /\ new.current = "projects"
      /\ new.cv = copy.cv /\ new.status = "in_progress"
      /\ new \in [status : {"in_progress", "completed"}, list : {list},
                  current : Sections \cup {None}, cv : CvIds \cup {None}]
  BY <1>3, <1>2 DEF Session
<1> HIDE DEF new, list
<1>7. new \in Session
  BY <1>4, <1>6 DEF Session
<1>8. Distinct(new.list) /\ NotBoth(new.list)
  <2>1. \A j \in 1 .. L : copy.list[j].id # "projects"
    BY <1>1, <1>2 DEF Good, NotBoth, Has
  <2>2. \A j \in 1 .. L : j # i => copy.list[j].id # "experience"
    BY <1>1, <1>2 DEF Good, Distinct
  <2> QED
    BY <2>1, <2>2, <1>2, <1>5, <1>6 DEF Good, Distinct, NotBoth, Has
<1>9. AtFirstOpen(new)
  <2>1. i - 1 \in 0 .. Len(list) /\ i \in 1 .. L /\ (i - 1) + 1 = i
    BY <1>2, <1>4
  <2>2. \A j \in 1 .. L : list[j].status = "confirmed" <=> j <= i - 1
    BY <1>1, <1>2, <1>5
  <2>3. At(list, i) = "projects" /\ StatusAt(list, i) = "in_progress"
    BY <2>1, <1>5 DEF At, StatusAt
  <2> QED
    BY <2>1, <2>2, <2>3, <1>5, <1>6 DEF AtFirstOpen
<1> QED
  BY <1>6, <1>7, <1>8, <1>9 DEF Good, new

-----------------------------------------------------------------------------
(* What others' steps leave of them.                                       *)

(* A POST that is over stays over, and ...                                 *)
PostsStay == \A x \in Posts : post[x].at = "done" => post'[x] = post[x]

(* ... an older CV's section does not come back.                           *)
OldStaysAway == OldGone => OldGone'

LEMMA HeldStays ==
    ASSUME PostsStay, OldStaysAway, NEW x \in Posts, NEW copy, Held(x, copy)
    PROVE  Held(x, copy)'
<1>1. post'[x] = post[x]
  BY DEF Held, PostsStay
<1> QED
  BY <1>1 DEF Held, OldStaysAway

LEMMA SessionsStay ==
    ASSUME IInv, PostsStay, OldStaysAway,
           \A x \in Posts : sessions'[x] \in {sessions[x], None}
    PROVE  SessionsHeld' /\ OnlyOne'
<1>1. ASSUME NEW x \in Posts, sessions'[x] # None
      PROVE  Held(x, sessions[x])'
  <2>1. PICK copy : copy = sessions[x]
    OBVIOUS
  <2>2. sessions'[x] = copy
    BY <1>1, <2>1
  <2>3. Held(x, copy)'
    BY <1>1, <2>1, <2>2, HeldStays DEF IInv, SessionsHeld
  <2> QED
    BY <2>2, <2>3
<1>2. Active' \subseteq Active
  BY DEF Active
<1> QED
  BY <1>1, <1>2 DEF SessionsHeld, IInv, OnlyOne

LEMMA TurnsStay ==
    ASSUME IInv, PostsStay, OldStaysAway,
           \A m \in Turns : turn'[m] \in {turn[m], Idle}
    PROVE  TurnsHeld'
<1>1. ASSUME NEW m \in Turns, turn'[m].at # "idle"
      PROVE  /\ Held(turn[m].session, turn[m].copy)'
             /\ turn'[m].copy.status = "in_progress"
             /\ turn'[m].ends = "switch" => turn'[m].copy.current = "experience"
  <2>1. turn'[m] = turn[m]
    BY <1>1 DEF Idle
  <2>2. turn[m].at # "idle" /\ turn[m] \in Turn
    BY <1>1, <2>1 DEF IInv, Types, Calls
  <2>3. PICK x \in Posts, copy \in Session : x = turn[m].session /\ copy = turn[m].copy
    BY <2>2 DEF Turn
  <2>4. Held(x, copy)'
    BY <2>2, <2>3, HeldStays DEF IInv, TurnsHeld
  <2>5. turn'[m].session = x /\ turn'[m].copy = copy
    BY <2>1, <2>3
  <2> QED
    BY <2>1, <2>2, <2>4, <2>5 DEF IInv, TurnsHeld
<1> QED
  BY <1>1 DEF TurnsHeld

LEMMA ConfirmsStay ==
    ASSUME IInv, PostsStay, OldStaysAway,
           \A c \in Confirms : confirm'[c] \in {confirm[c], Idle}
    PROVE  ConfirmsHeld'
<1>1. ASSUME NEW c \in Confirms, confirm'[c].at # "idle"
      PROVE  /\ Held(confirm[c].session, confirm[c].copy)'
             /\ confirm'[c].copy.status = "in_progress"
             /\ confirm'[c].copy.current = confirm'[c].section
             /\ confirm'[c].content[2] = confirm'[c].section
  <2>1. confirm'[c] = confirm[c]
    BY <1>1 DEF Idle
  <2>2. confirm[c].at # "idle" /\ confirm[c] \in Confirm
    BY <1>1, <2>1 DEF IInv, Types, Calls
  <2>3. PICK x \in Posts, copy \in Session : x = confirm[c].session /\ copy = confirm[c].copy
    BY <2>2 DEF Confirm
  <2>4. Held(x, copy)'
    BY <2>2, <2>3, HeldStays DEF IInv, ConfirmsHeld
  <2>5. confirm'[c].session = x /\ confirm'[c].copy = copy
    BY <2>1, <2>3
  <2> QED
    BY <2>1, <2>2, <2>4, <2>5 DEF IInv, ConfirmsHeld
<1> QED
  BY <1>1 DEF ConfirmsHeld

(* One session saved, when the index lets it.                              *)
LEMMA SessionSaved ==
    ASSUME IInv, PostsStay, OldStaysAway, NEW x \in Posts, NEW copy,
           sessions' = [sessions EXCEPT ![x] = copy],
           Held(x, copy)', OneInProgress(x, copy)
    PROVE  SessionsHeld' /\ OnlyOne' /\ sessions' \in [Posts -> Session \cup {None}]
<1>1. copy \in Session
  BY DEF Held, Good
<1>2. sessions' \in [Posts -> Session \cup {None}]
  BY <1>1 DEF IInv, Types, Tables
<1>3. sessions'[x] = copy /\ \A y \in Posts \ {x} : sessions'[y] = sessions[y]
  BY DEF IInv, Types, Tables
<1>4. ASSUME NEW y \in Posts, sessions'[y] # None
      PROVE  Held(y, sessions[y])'
  <2>1. CASE y = x
    BY <2>1, <1>3
  <2>2. CASE y # x
    <3>1. PICK other : other = sessions[y]
      OBVIOUS
    <3>2. sessions'[y] = other
      BY <2>2, <3>1, <1>3
    <3>3. Held(y, other)'
      BY <1>4, <3>1, <3>2, HeldStays DEF IInv, SessionsHeld
    <3> QED
      BY <3>2, <3>3
  <2> QED
    BY <2>1, <2>2
<1>5. OnlyOne'
  <2>1. CASE copy.status = "in_progress"
    <3>1. Active \subseteq {x}
      BY <2>1 DEF OneInProgress
    <3>2. Active' \subseteq {x}
      BY <3>1, <1>3 DEF Active
    <3> QED
      BY <3>2 DEF OnlyOne
  <2>2. CASE copy.status # "in_progress"
    <3>1. Active' \subseteq Active
      BY <2>2, <1>3 DEF Active
    <3> QED
      BY <3>1 DEF OnlyOne, IInv
  <2> QED
    BY <2>1, <2>2
<1> QED
  BY <1>2, <1>4, <1>5 DEF SessionsHeld

-----------------------------------------------------------------------------
(* The steps.                                                              *)

LEMMA InitHolds == Init => IInv
<1> SUFFICES ASSUME Init
             PROVE  IInv
  OBVIOUS
<1>1. Types
  <2>1. /\ Old \in Authors /\ \A s \in Sections : <<Old, s>> \in Content
        /\ NoRows \in Rows
    BY ConversationAssumption DEF Content, Rows, NoRows
  <2>2. cv \in CvRow \cup {None} /\ rows \in Rows /\ (cv = None => rows = NoRows)
    <3>1. CASE cv = None /\ rows = NoRows
      BY <2>1, <3>1
    <3>2. CASE \E id \in CvIds :
                  /\ cv = [id |-> id, confirmed |-> Sections, complete |-> TRUE]
                  /\ rows = [s \in Sections |-> <<Old, s>>]
      <4>1. cv \in CvRow
        BY <3>2 DEF CvRow
      <4>2. rows \in Rows
        BY <3>2, <2>1 DEF Rows
      <4> QED
        BY <4>1, <4>2, CvAssumption
    <3> QED
      BY <3>1, <3>2 DEF Init
  <2>3. Idle \in Post /\ Idle \in Turn /\ Idle \in Confirm /\ Idle \in Patch
    BY DEF Idle, Post, Turn, Confirm, Patch
  <2> QED
    BY <2>2, <2>3 DEF Init, Types, Tables, Calls
<1>2. SessionsHeld /\ OnlyOne
  BY DEF Init, SessionsHeld, OnlyOne, Active
<1>3. TurnsHeld /\ ConfirmsHeld
  BY DEF Init, TurnsHeld, ConfirmsHeld, Idle
<1>4. CardsStayInSection
  BY DEF Init, CardsStayInSection, NoRows
<1> QED
  BY <1>1, <1>2, <1>3, <1>4 DEF IInv

LEMMA PostBeginsKeeps ==
    ASSUME IInv, NEW r \in Posts, PostBegins(r)
    PROVE  IInv'
<1>1. PICK new : /\ post' = [post EXCEPT ![r] = new]
                 /\ new \in Post
  <2>1. PICK mode \in {"build", "upload"} :
          /\ mode = "upload" => analysis # None
          /\ LET open == [at |-> "make", mode |-> mode, dropped |-> None, copy |-> None,
                          low |-> IF mode = "upload" THEN analysis.low ELSE {}]
             IN  IF Active = {}
                 THEN post' = [post EXCEPT ![r] = open]
                 ELSE \E x \in Active :
                        post' = [post EXCEPT ![r] = [open EXCEPT !.at = "drop", !.dropped = x,
                                                                 !.copy = sessions[x]]]
    BY DEF PostBegins
  <2> DEFINE low == IF mode = "upload" THEN analysis.low ELSE {}
             open == [at |-> "make", mode |-> mode, dropped |-> None, copy |-> None, low |-> low]
  <2>2. low \in SUBSET (Sections \ {"projects"})
    BY <2>1 DEF IInv, Types, Tables, Analysis
  <2> HIDE DEF low
  <2>3. open \in Post
    BY <2>2 DEF Post
  <2>4. ASSUME NEW x \in Active
        PROVE  [open EXCEPT !.at = "drop", !.dropped = x, !.copy = sessions[x]] \in Post
    <3>1. x \in Posts /\ sessions[x] \in Session
      BY DEF IInv, Types, Tables, Active
    <3> QED
      BY <3>1, <2>2 DEF Post
  <2> QED
    BY <2>1, <2>3, <2>4 DEF low
<1>2. post[r].at = "idle" /\ UNCHANGED <<cv, rows, analysis, sessions, cards, turn, confirm, patch>>
  BY DEF PostBegins
<1>3. Types'
  BY <1>1, <1>2 DEF IInv, Types, Tables, Calls
<1>4. PostsStay /\ OldStaysAway
  BY <1>1, <1>2 DEF PostsStay, OldStaysAway, OldGone, IInv, Types, Calls
<1> QED
  BY <1>2, <1>3, <1>4, SessionsStay, TurnsStay, ConfirmsStay DEF IInv, CardsStayInSection

LEMMA DeleteBeginsKeeps ==
    ASSUME IInv, NEW r \in Posts, DeleteBegins(r)
    PROVE  IInv'
<1>1. PICK x \in Posts :
        /\ sessions[x] # None
        /\ post' = [post EXCEPT ![r] = [at |-> "drop", mode |-> "delete", dropped |-> x,
                                        low |-> {}, copy |-> sessions[x]]]
  BY DEF DeleteBegins
<1>2. post[r].at = "idle" /\ UNCHANGED <<cv, rows, analysis, sessions, cards, turn, confirm, patch>>
  BY DEF DeleteBegins
<1>3. [at |-> "drop", mode |-> "delete", dropped |-> x, low |-> {}, copy |-> sessions[x]] \in Post
  <2>1. sessions[x] \in Session \cup {None}
    BY DEF IInv, Types, Tables
  <2> QED
    BY <2>1 DEF Post
<1>4. Types'
  BY <1>1, <1>2, <1>3 DEF IInv, Types, Tables, Calls
<1>5. PostsStay /\ OldStaysAway
  BY <1>1, <1>2 DEF PostsStay, OldStaysAway, OldGone, IInv, Types, Calls
<1> QED
  BY <1>2, <1>4, <1>5, SessionsStay, TurnsStay, ConfirmsStay DEF IInv, CardsStayInSection

LEMMA DropSessionKeeps ==
    ASSUME IInv, NEW r \in Posts, DropSession(r)
    PROVE  IInv'
<1>1. PICK X : DeleteSessions(X)
  BY DEF DropSession, DeleteSessionAndItsCv
<1>2. \/ UNCHANGED <<cv, rows>>
      \/ cv' = None /\ rows' = NoRows
  BY DEF DropSession, DeleteSessionAndItsCv
<1>3. post[r].at = "drop" /\ UNCHANGED <<analysis, turn, confirm, patch>>
  BY DEF DropSession
<1>4. PICK at \in {"done", "make"} : post' = [post EXCEPT ![r].at = at, ![r].copy = None]
  BY DEF DropSession
<1>5. post[r] \in Post
  BY DEF IInv, Types, Calls
<1>6. [post[r] EXCEPT !.at = at, !.copy = None] \in Post
  BY <1>3, <1>5 DEF Post
<1>7. post' \in [Posts -> Post] /\ PostsStay
  BY <1>3, <1>4, <1>6 DEF IInv, Types, Calls, PostsStay
<1>8. NoRows \in Rows /\ \A s \in Sections : NoRows[s] = None
  BY DEF Rows, NoRows
<1>9. Tables'
  <2>1. sessions' \in [Posts -> Session \cup {None}] /\ cards' \in [Posts -> SUBSET Sections]
    BY <1>1 DEF DeleteSessions, IInv, Types, Tables
  <2>2. \A x \in Posts : sessions'[x] = None => cards'[x] = {}
    BY <1>1 DEF DeleteSessions, IInv, Types, Tables
  <2> QED
    BY <1>2, <1>3, <1>8, <2>1, <2>2 DEF IInv, Types, Tables
<1>10. Types'
  BY <1>3, <1>7, <1>9 DEF IInv, Types, Calls
<1>11. OldStaysAway /\ CardsStayInSection'
  BY <1>2, <1>8 DEF OldStaysAway, OldGone, CardsStayInSection, IInv
<1>12. \A x \in Posts : sessions'[x] \in {sessions[x], None}
  BY <1>1 DEF DeleteSessions
<1> QED
  BY <1>3, <1>7, <1>10, <1>11, <1>12, SessionsStay, TurnsStay, ConfirmsStay DEF IInv

(* The session create makes is one at its first section, which is basic    *)
(* when it builds from nothing.                                            *)
LEMMA NewSessionIs ==
    ASSUME IInv, NEW r \in Posts, post[r].at = "make", post[r].mode = "upload" => cv # None
    PROVE  /\ Good(NewSession(r))
           /\ post[r].mode = "build" => NewSession(r).current = "basic" /\ NewSession(r).cv = None
           /\ post[r].mode = "upload" =>
                {NewSession(r).list[i].id : i \in DOMAIN NewSession(r).list} = post[r].low
<1>1. post[r] \in Post /\ post[r].low \in SUBSET (Sections \ {"projects"})
  BY DEF IInv, Types, Calls, Post
<1>2. PICK plan : plan = SectionPlan(post[r].mode, post[r].low)
  OBVIOUS
<1>3. /\ plan \in Seq(Sections)
      /\ \A i \in DOMAIN plan : plan[i] # "projects"
      /\ \A i, j \in DOMAIN plan : plan[i] = plan[j] => i = j
      /\ post[r].mode # "build" => {plan[i] : i \in DOMAIN plan} = post[r].low
      /\ post[r].mode = "build" => 1 \in DOMAIN plan /\ plan[1] = "basic"
  BY <1>1, <1>2, PlanIs
<1>4. PICK id \in CvIds \cup {None} : id = IF post[r].mode = "upload" THEN cv.id ELSE None
  BY DEF IInv, Types, Tables, CvRow
<1>5. NewSession(r) = [status |-> StatusAt(Pending(plan), 1), list |-> Pending(plan),
                       current |-> At(Pending(plan), 1), cv |-> id]
  BY <1>2, <1>4 DEF NewSession
<1>6. Good(NewSession(r))
  BY <1>3, <1>5, PendingIs
<1>7. DOMAIN Pending(plan) = DOMAIN plan /\ \A i \in DOMAIN plan : Pending(plan)[i].id = plan[i]
  BY DEF Pending
<1>8. post[r].mode = "build" => NewSession(r).current = "basic" /\ NewSession(r).cv = None
  BY <1>3, <1>4, <1>5, <1>7 DEF At
<1>9. NewSession(r).list = Pending(plan)
  BY <1>5
<1> QED
  BY <1>3, <1>6, <1>7, <1>8, <1>9

LEMMA MakeSessionKeeps ==
    ASSUME IInv, NEW r \in Posts, MakeSession(r)
    PROVE  IInv'
<1>1. /\ post[r].at = "make" /\ post[r] \in Post
      /\ UNCHANGED <<cv, rows, analysis, cards, turn, confirm, patch, requests>>
  BY DEF MakeSession, IInv, Types, Calls
<1>2. PICK at \in {"done", "refused"} : post' = [post EXCEPT ![r].at = at]
  BY DEF MakeSession
<1>3. [post[r] EXCEPT !.at = at] \in Post
  BY <1>1 DEF Post
<1>4. post' \in [Posts -> Post] /\ PostsStay
  BY <1>1, <1>2, <1>3 DEF IInv, Types, Calls, PostsStay
<1>5. OldStaysAway /\ CardsStayInSection'
  BY <1>1 DEF OldStaysAway, OldGone, CardsStayInSection, IInv
<1>6. Calls'
  BY <1>1, <1>4 DEF IInv, Types, Calls
<1>7. TurnsHeld' /\ ConfirmsHeld'
  BY <1>1, <1>4, <1>5, TurnsStay, ConfirmsStay
<1>8. CASE UNCHANGED sessions
  <2>1. Tables'
    BY <1>1, <1>8 DEF IInv, Types, Tables
  <2> QED
    BY <1>4, <1>5, <1>6, <1>7, <1>8, <2>1, SessionsStay DEF IInv, Types
<1>9. CASE /\ post[r].mode = "upload" => cv # None
           /\ OneInProgress(r, NewSession(r))
           /\ sessions' = [sessions EXCEPT ![r] = NewSession(r)]
           /\ post' = [post EXCEPT ![r].at = "done"]
  <2>1. PICK new : new = NewSession(r)
    OBVIOUS
  <2>2. /\ Good(new)
        /\ post[r].mode = "build" => new.current = "basic" /\ new.cv = None
    BY <1>1, <1>9, <2>1, NewSessionIs
  <2>3. post'[r].at = "done" /\ post'[r].mode = post[r].mode
    <3>1. post'[r] = [post[r] EXCEPT !.at = "done"]
      BY <1>9 DEF IInv, Types, Calls
    <3> QED
      BY <1>1, <3>1 DEF Post
  <2>4. Held(r, new)'
    BY <2>2, <2>3 DEF Held
  <2>5. SessionsHeld' /\ OnlyOne' /\ sessions' \in [Posts -> Session \cup {None}]
    BY <1>4, <1>5, <1>9, <2>1, <2>4, SessionSaved
  <2>6. \A x \in Posts : sessions'[x] = None => sessions[x] = None
    BY <1>9, <2>1, <2>2, SessionAssumption DEF Good, IInv, Types, Tables
  <2>7. Tables'
    BY <1>1, <2>5, <2>6 DEF IInv, Types, Tables
  <2> QED
    BY <1>5, <1>6, <1>7, <2>5, <2>7 DEF IInv, Types
<1> QED
  BY <1>8, <1>9 DEF MakeSession

LEMMA SendMessageKeeps ==
    ASSUME IInv, NEW m \in Turns, NEW x \in Posts, SendMessage(m, x)
    PROVE  IInv'
<1>1. PICK copy : copy = sessions[x]
  OBVIOUS
<1>2. /\ x \in Active
      /\ turn' = [turn EXCEPT ![m] = [at |-> "model", session |-> x, copy |-> copy, ends |-> "text"]]
      /\ UNCHANGED <<cv, rows, analysis, sessions, cards, post, confirm, patch>>
  BY <1>1 DEF SendMessage
<1>3. copy \in Session /\ copy.status = "in_progress" /\ Held(x, copy)
  BY <1>1, <1>2 DEF IInv, Types, Tables, Active, SessionsHeld
<1>4. PostsStay /\ OldStaysAway
  BY <1>2 DEF PostsStay, OldStaysAway, OldGone
<1>5. [at |-> "model", session |-> x, copy |-> copy, ends |-> "text"] \in Turn
  BY <1>3 DEF Turn
<1>6. Types'
  BY <1>2, <1>5 DEF IInv, Types, Tables, Calls
<1>7. TurnsHeld'
  <2>1. ASSUME NEW n \in Turns, turn'[n].at # "idle"
        PROVE  /\ Held(turn[n].session, turn[n].copy)'
               /\ turn'[n].copy.status = "in_progress"
               /\ turn'[n].ends = "switch" => turn'[n].copy.current = "experience"
    <3>1. CASE n = m
      <4>1. turn'[n] = [at |-> "model", session |-> x, copy |-> copy, ends |-> "text"]
        BY <1>2, <3>1 DEF IInv, Types, Calls
      <4>2. turn'[n].session = x /\ turn'[n].copy = copy /\ turn'[n].ends = "text"
        BY <4>1
      <4>3. Held(x, copy)'
        BY <1>3, <1>4, HeldStays
      <4> QED
        BY <1>3, <4>2, <4>3
    <3>2. CASE n # m
      <4>1. turn'[n] = turn[n] /\ turn[n] \in Turn
        BY <1>2, <3>2 DEF IInv, Types, Calls
      <4>2. PICK y \in Posts, other \in Session : y = turn[n].session /\ other = turn[n].copy
        BY <2>1, <4>1 DEF Turn
      <4>3. Held(y, other)'
        BY <1>4, <2>1, <4>1, <4>2, HeldStays DEF IInv, TurnsHeld
      <4>4. turn'[n].session = y /\ turn'[n].copy = other
        BY <4>1, <4>2
      <4> QED
        BY <2>1, <4>1, <4>3, <4>4 DEF IInv, TurnsHeld
    <3> QED
      BY <3>1, <3>2
  <2> QED
    BY <2>1 DEF TurnsHeld
<1> QED
  BY <1>2, <1>4, <1>6, <1>7, SessionsStay, ConfirmsStay DEF IInv, CardsStayInSection

LEMMA ReplyKeeps ==
    ASSUME IInv, NEW m \in Turns, Reply(m)
    PROVE  IInv'
<1>1. /\ turn[m].at = "model" /\ turn[m] \in Turn
      /\ UNCHANGED <<cv, rows, analysis, sessions, cards, post, confirm, patch>>
  BY DEF Reply, IInv, Types, Calls
<1>2. PostsStay /\ OldStaysAway
  BY <1>1 DEF PostsStay, OldStaysAway, OldGone
<1>3. SessionsHeld' /\ OnlyOne' /\ ConfirmsHeld' /\ CardsStayInSection'
  BY <1>1, <1>2, SessionsStay, ConfirmsStay DEF IInv, CardsStayInSection
<1>4. CASE turn' = [turn EXCEPT ![m] = Idle]
  <2>1. Idle \in Turn
    BY DEF Idle, Turn
  <2>2. Types'
    BY <1>1, <1>4, <2>1 DEF IInv, Types, Tables, Calls
  <2>3. TurnsHeld'
    BY <1>2, <1>4, TurnsStay DEF IInv, Types, Calls
  <2> QED
    BY <1>3, <2>2, <2>3 DEF IInv
<1>5. CASE \E ends \in {"card", "switch"} :
              /\ ends = "switch" => turn[m].copy.current = "experience"
              /\ turn' = [turn EXCEPT ![m].at = "stream", ![m].ends = ends]
  <2>1. PICK ends \in {"card", "switch"} :
              /\ ends = "switch" => turn[m].copy.current = "experience"
              /\ turn' = [turn EXCEPT ![m].at = "stream", ![m].ends = ends]
    BY <1>5
  <2>2. PICK new : new = [turn[m] EXCEPT !.at = "stream", !.ends = ends]
    OBVIOUS
  <2>3. /\ new \in Turn /\ new.ends = ends
        /\ new.session = turn[m].session /\ new.copy = turn[m].copy
    BY <1>1, <2>2 DEF Turn
  <2>4. turn' = [turn EXCEPT ![m] = new]
    BY <2>1, <2>2
  <2>5. Types'
    BY <1>1, <2>3, <2>4 DEF IInv, Types, Tables, Calls
  <2>6. TurnsHeld'
    <3>1. ASSUME NEW n \in Turns, turn'[n].at # "idle"
          PROVE  /\ Held(turn[n].session, turn[n].copy)'
                 /\ turn'[n].copy.status = "in_progress"
                 /\ turn'[n].ends = "switch" => turn'[n].copy.current = "experience"
      <4>1. /\ turn'[n].session = turn[n].session /\ turn'[n].copy = turn[n].copy
            /\ turn[n].at # "idle" /\ turn[n] \in Turn
            /\ turn'[n].ends = "switch" => turn[n].copy.current = "experience"
        <5>1. CASE n = m
          BY <1>1, <2>1, <2>3, <2>4, <5>1 DEF IInv, Types, Calls
        <5>2. CASE n # m
          BY <3>1, <2>4, <5>2 DEF IInv, Types, Calls, TurnsHeld
        <5> QED
          BY <5>1, <5>2
      <4>2. PICK y \in Posts, other \in Session : y = turn[n].session /\ other = turn[n].copy
        BY <4>1 DEF Turn
      <4>3. Held(y, other)'
        BY <1>2, <4>1, <4>2, HeldStays DEF IInv, TurnsHeld
      <4>4. turn'[n].session = y /\ turn'[n].copy = other
        BY <4>1, <4>2
      <4> QED
        BY <4>1, <4>3, <4>4 DEF IInv, TurnsHeld
    <3> QED
      BY <3>1 DEF TurnsHeld
  <2> QED
    BY <1>3, <2>5, <2>6 DEF IInv
<1> QED
  BY <1>4, <1>5 DEF Reply

LEMMA AppendCardKeeps ==
    ASSUME IInv, NEW m \in Turns, AppendCard(m)
    PROVE  IInv'
<1>1. /\ turn[m].at = "stream" /\ turn[m] \in Turn
      /\ turn' = [turn EXCEPT ![m] = Idle]
      /\ UNCHANGED <<cv, rows, analysis, sessions, post, confirm, patch>>
  BY DEF AppendCard, IInv, Types, Calls
<1>2. PostsStay /\ OldStaysAway
  BY <1>1 DEF PostsStay, OldStaysAway, OldGone
<1>3. Idle \in Turn
  BY DEF Idle, Turn
<1>4. cards' \in [Posts -> SUBSET Sections] /\ \A x \in Posts : sessions[x] = None => cards'[x] = {}
  <2>1. CASE sessions[turn[m].session] = None
    BY <2>1 DEF AppendCard, IInv, Types, Tables
  <2>2. CASE sessions[turn[m].session] # None
    <3>1. turn[m].copy.current \in Sections
      <4>1. Good(turn[m].copy) /\ turn[m].copy.status = "in_progress"
        BY <1>1 DEF IInv, TurnsHeld, Held
      <4>2. PICK copy : copy = turn[m].copy
        OBVIOUS
      <4>3. PICK i \in DOMAIN copy.list : copy.list[i].id = copy.current
        BY <4>1, <4>2, CurrentIs
      <4>4. copy.list[i] \in Entry
        BY <4>1, <4>2, SessionFields DEF Good
      <4> QED
        BY <4>2, <4>3, <4>4 DEF Entry
    <3>2. cards' = [cards EXCEPT ![turn[m].session] = @ \cup {turn[m].copy.current}]
      BY <2>2 DEF AppendCard
    <3> QED
      BY <2>2, <3>1, <3>2 DEF IInv, Types, Tables
  <2> QED
    BY <2>1, <2>2
<1>5. Types'
  BY <1>1, <1>3, <1>4 DEF IInv, Types, Tables, Calls
<1>6. TurnsHeld'
  BY <1>1, <1>2, TurnsStay DEF IInv, Types, Calls
<1> QED
  BY <1>1, <1>2, <1>5, <1>6, SessionsStay, ConfirmsStay DEF IInv, CardsStayInSection

LEMMA SwitchToProjectsKeeps ==
    ASSUME IInv, NEW m \in Turns, SwitchToProjects(m)
    PROVE  IInv'
<1>1. /\ turn[m].at = "stream" /\ turn[m].ends = "switch" /\ turn[m] \in Turn
      /\ turn' = [turn EXCEPT ![m] = Idle]
      /\ UNCHANGED <<cv, rows, analysis, cards, post, confirm, patch>>
  BY DEF SwitchToProjects, IInv, Types, Calls
<1>2. PostsStay /\ OldStaysAway
  BY <1>1 DEF PostsStay, OldStaysAway, OldGone
<1>3. Idle \in Turn
  BY DEF Idle, Turn
<1>4. Calls'
  BY <1>1, <1>3 DEF IInv, Types, Calls
<1>5. TurnsHeld' /\ ConfirmsHeld' /\ CardsStayInSection'
  BY <1>1, <1>2, TurnsStay, ConfirmsStay DEF IInv, Types, Calls, CardsStayInSection
<1>6. CASE UNCHANGED sessions
  <2>1. Types'
    BY <1>1, <1>4, <1>6 DEF IInv, Types, Tables
  <2> QED
    BY <1>2, <1>5, <1>6, <2>1, SessionsStay DEF IInv
<1>7. CASE /\ OneInProgress(turn[m].session, Switched(turn[m].copy))
           /\ sessions' = [sessions EXCEPT ![turn[m].session] = Switched(turn[m].copy)]
  <2>1. PICK x \in Posts, copy \in Session : x = turn[m].session /\ copy = turn[m].copy
    BY <1>1 DEF Turn
  <2>2. /\ Held(x, copy)
        /\ copy.status = "in_progress" /\ copy.current = "experience"
    BY <1>1, <2>1 DEF IInv, TurnsHeld
  <2>3. PICK new : new = Switched(copy)
    OBVIOUS
  <2>4. Good(new) /\ new.cv = copy.cv
    BY <2>2, <2>3, SwitchedIs, CvAssumption DEF Held
  <2>5. Held(x, copy)'
    BY <1>2, <2>2, HeldStays
  <2>6. Held(x, new)'
    BY <2>2, <2>4, <2>5 DEF Held
  <2>7. sessions' = [sessions EXCEPT ![x] = new] /\ OneInProgress(x, new)
    BY <1>7, <2>1, <2>3
  <2>8. SessionsHeld' /\ OnlyOne' /\ sessions' \in [Posts -> Session \cup {None}]
    BY <1>2, <2>6, <2>7, SessionSaved
  <2>9. \A y \in Posts : sessions'[y] = None => sessions[y] = None
    BY <2>4, <2>7, SessionAssumption DEF Good, IInv, Types, Tables
  <2>10. Types'
    BY <1>1, <1>4, <2>8, <2>9 DEF IInv, Types, Tables
  <2> QED
    BY <1>5, <2>8, <2>10 DEF IInv
<1> QED
  BY <1>6, <1>7 DEF SwitchToProjects

LEMMA ConfirmReadsKeeps ==
    ASSUME IInv, NEW c \in Confirms, NEW x \in Posts, ConfirmReads(c, x)
    PROVE  IInv'
<1>1. PICK copy : copy = sessions[x]
  OBVIOUS
<1>2. PICK s \in Sections, y \in Posts : \E card \in cards[y] :
        /\ Confirmable(x, s, y, card)
        /\ confirm' = [confirm EXCEPT ![c] =
                [at |-> "read", session |-> x, copy |-> copy, section |-> s,
                 content |-> <<y, card>>, cv |-> None]]
  BY <1>1 DEF ConfirmReads
<1>3. /\ x \in Active
      /\ UNCHANGED <<cv, rows, analysis, sessions, cards, post, turn, patch>>
  BY DEF ConfirmReads
<1>4. PICK new : new = [at |-> "read", session |-> x, copy |-> copy, section |-> s,
                        content |-> <<y, s>>, cv |-> None]
  OBVIOUS
<1>5. confirm' = [confirm EXCEPT ![c] = new] /\ copy.current = s
  BY <1>1, <1>2, <1>4 DEF Confirmable
<1>6. copy \in Session /\ copy.status = "in_progress" /\ Held(x, copy)
  BY <1>1, <1>3 DEF IInv, Types, Tables, Active, SessionsHeld
<1>7. PostsStay /\ OldStaysAway
  BY <1>3 DEF PostsStay, OldStaysAway, OldGone
<1>8. new \in Confirm
  BY <1>4, <1>6 DEF Confirm
<1>9. Types'
  BY <1>3, <1>5, <1>8 DEF IInv, Types, Tables, Calls
<1>10. ConfirmsHeld'
  <2>1. ASSUME NEW d \in Confirms, confirm'[d].at # "idle"
        PROVE  /\ Held(confirm[d].session, confirm[d].copy)'
               /\ confirm'[d].copy.status = "in_progress"
               /\ confirm'[d].copy.current = confirm'[d].section
               /\ confirm'[d].content[2] = confirm'[d].section
    <3>1. CASE d = c
      <4>1. confirm'[d] = new
        BY <1>5, <3>1 DEF IInv, Types, Calls
      <4>2. /\ confirm'[d].session = x /\ confirm'[d].copy = copy
            /\ confirm'[d].section = s /\ confirm'[d].content[2] = s
        BY <4>1, <1>4
      <4>3. Held(x, copy)'
        BY <1>6, <1>7, HeldStays
      <4> QED
        BY <1>5, <1>6, <4>2, <4>3
    <3>2. CASE d # c
      <4>1. confirm'[d] = confirm[d] /\ confirm[d] \in Confirm
        BY <1>5, <3>2 DEF IInv, Types, Calls
      <4>2. PICK z \in Posts, other \in Session : z = confirm[d].session /\ other = confirm[d].copy
        BY <2>1, <4>1 DEF Confirm
      <4>3. Held(z, other)'
        BY <1>7, <2>1, <4>1, <4>2, HeldStays DEF IInv, ConfirmsHeld
      <4>4. confirm'[d].session = z /\ confirm'[d].copy = other
        BY <4>1, <4>2
      <4> QED
        BY <2>1, <4>1, <4>3, <4>4 DEF IInv, ConfirmsHeld
    <3> QED
      BY <3>1, <3>2
  <2> QED
    BY <2>1 DEF ConfirmsHeld
<1> QED
  BY <1>3, <1>7, <1>9, <1>10, SessionsStay, TurnsStay DEF IInv, CardsStayInSection

LEMMA ConfirmReadsCvKeeps ==
    ASSUME IInv, NEW c \in Confirms, ConfirmReadsCv(c)
    PROVE  IInv'
<1>1. /\ confirm[c].at = "read" /\ confirm[c] \in Confirm
      /\ UNCHANGED <<cv, rows, analysis, sessions, cards, post, turn, patch>>
  BY DEF ConfirmReadsCv, IInv, Types, Calls
<1>2. PostsStay /\ OldStaysAway
  BY <1>1 DEF PostsStay, OldStaysAway, OldGone
<1>3. PICK new : new = [confirm[c] EXCEPT !.at = "tx", !.cv = cv]
  OBVIOUS
<1>4. confirm' = [confirm EXCEPT ![c] = new]
  BY <1>3 DEF ConfirmReadsCv
<1>5. /\ new \in Confirm /\ new.session = confirm[c].session /\ new.copy = confirm[c].copy
      /\ new.section = confirm[c].section /\ new.content = confirm[c].content
  <2>1. cv \in CvRow \cup {None}
    BY DEF IInv, Types, Tables
  <2> QED
    BY <1>1, <1>3, <2>1 DEF Confirm
<1>6. Types'
  BY <1>1, <1>4, <1>5 DEF IInv, Types, Tables, Calls
<1>7. ConfirmsHeld'
  <2>1. ASSUME NEW d \in Confirms, confirm'[d].at # "idle"
        PROVE  /\ Held(confirm[d].session, confirm[d].copy)'
               /\ confirm'[d].copy.status = "in_progress"
               /\ confirm'[d].copy.current = confirm'[d].section
               /\ confirm'[d].content[2] = confirm'[d].section
    <3>1. /\ confirm'[d].session = confirm[d].session /\ confirm'[d].copy = confirm[d].copy
          /\ confirm'[d].section = confirm[d].section /\ confirm'[d].content = confirm[d].content
          /\ confirm[d].at # "idle" /\ confirm[d] \in Confirm
      <4>1. CASE d = c
        BY <1>1, <1>4, <1>5, <4>1 DEF IInv, Types, Calls
      <4>2. CASE d # c
        BY <2>1, <1>4, <4>2 DEF IInv, Types, Calls
      <4> QED
        BY <4>1, <4>2
    <3>2. PICK z \in Posts, other \in Session : z = confirm[d].session /\ other = confirm[d].copy
      BY <3>1 DEF Confirm
    <3>3. Held(z, other)'
      BY <1>2, <3>1, <3>2, HeldStays DEF IInv, ConfirmsHeld
    <3>4. confirm'[d].session = z /\ confirm'[d].copy = other
      BY <3>1, <3>2
    <3> QED
      BY <3>1, <3>3, <3>4 DEF IInv, ConfirmsHeld
  <2> QED
    BY <2>1 DEF ConfirmsHeld
<1> QED
  BY <1>1, <1>2, <1>6, <1>7, SessionsStay, TurnsStay DEF IInv, CardsStayInSection

(* What a confirm writes to the CV.                                        *)
LEMMA ConfirmedIs ==
    ASSUME IInv, NEW c \in Confirms, confirm[c].at = "tx", NEW id \in CvIds,
           NEW row \in CvRow, row = IF confirm[c].cv = None THEN EmptyCv(id) ELSE confirm[c].cv,
           NEW last \in BOOLEAN
    PROVE  LET s == confirm[c].section
           IN  /\ ConfirmedCv(row, confirm[c].copy.cv, s, last) \in CvRow
               /\ ConfirmedRows(rows, confirm[c].copy.cv, s, confirm[c].content) \in Rows
<1>1. confirm[c] \in Confirm /\ confirm[c].section \in Sections /\ confirm[c].content \in Posts \X Sections
  BY DEF IInv, Types, Calls, Confirm
<1>2. PICK s \in Sections : s = confirm[c].section
  BY <1>1
<1>3. PICK base \in CvRow : base = IF StartsOver(confirm[c].copy.cv, s) THEN EmptyCv(row.id) ELSE row
  <2>1. EmptyCv(row.id) \in CvRow
    BY DEF EmptyCv, CvRow
  <2> QED
    BY <2>1
<1>4. [Listed(base, {s}) EXCEPT !.complete = @ \/ last] \in CvRow
  BY DEF Listed, CvRow
<1>5. ConfirmedCv(row, confirm[c].copy.cv, s, last) \in CvRow
  BY <1>3, <1>4 DEF ConfirmedCv
<1>6. confirm[c].content \in Content
  BY <1>1, ConversationAssumption DEF Content
<1>7. ConfirmedRows(rows, confirm[c].copy.cv, s, confirm[c].content) \in Rows
  BY <1>6 DEF ConfirmedRows, NoRows, Rows, IInv, Types, Tables
<1> QED
  BY <1>2, <1>5, <1>7

LEMMA ConfirmCommitsKeeps ==
    ASSUME IInv, NEW c \in Confirms, ConfirmCommits(c)
    PROVE  IInv'
<1>1. /\ confirm[c].at = "tx" /\ confirm[c] \in Confirm
      /\ confirm' = [confirm EXCEPT ![c] = Idle]
      /\ UNCHANGED <<analysis, cards, post, turn, patch>>
  BY DEF ConfirmCommits, IInv, Types, Calls
<1>2. PICK copy \in Session, x \in Posts, s \in Sections, content \in Posts \X Sections :
        /\ copy = confirm[c].copy /\ x = confirm[c].session
        /\ s = confirm[c].section /\ content = confirm[c].content
  BY <1>1 DEF Confirm
<1>3. /\ Held(x, copy) /\ copy.status = "in_progress"
      /\ copy.current = s /\ content[2] = s
  BY <1>1, <1>2 DEF IInv, ConfirmsHeld
<1>4. PICK id \in IF confirm[c].cv = None THEN FreshCvIds ELSE {confirm[c].cv.id} :
        /\ cv' = ConfirmedCv(IF confirm[c].cv = None THEN EmptyCv(id) ELSE confirm[c].cv,
                             copy.cv, s, IsLastOf(copy, s))
        /\ rows' = ConfirmedRows(rows, copy.cv, s, content)
        /\ OneInProgress(x, Advanced(copy, s, id))
        /\ sessions' = [sessions EXCEPT ![x] = Advanced(copy, s, id)]
  BY <1>2 DEF ConfirmCommits
<1>5. id \in CvIds
  BY <1>1, <1>4 DEF FreshCvIds, Confirm, CvRow
<1>6. PICK new : new = Advanced(copy, s, id)
  OBVIOUS
<1>7. Good(new) /\ new.cv = id
  BY <1>3, <1>5, <1>6, AdvancedIs DEF Held
<1>8. cv' \in CvRow /\ rows' \in Rows
  <2>1. PICK row \in CvRow : row = IF confirm[c].cv = None THEN EmptyCv(id) ELSE confirm[c].cv
    BY <1>1, <1>5 DEF Confirm, EmptyCv, CvRow
  <2>2. IsLastOf(copy, s) \in BOOLEAN
    BY DEF IsLastOf
  <2> QED
    BY <1>1, <1>2, <1>4, <1>5, <2>1, <2>2, ConfirmedIs
<1>9. content[1] # Old
  BY <1>2, ConversationAssumption
<1>10. OldStaysAway
  BY <1>4, <1>9 DEF OldStaysAway, OldGone, ConfirmedRows, NoRows, IInv, Types, Tables, Rows
<1>11. PostsStay
  BY <1>1 DEF PostsStay
<1>12. Held(x, new)'
  <2>1. Held(x, copy)'
    BY <1>3, <1>10, <1>11, HeldStays
  <2>2. copy.cv = None /\ post[x].mode = "build" => OldGone'
    <3>1. SUFFICES ASSUME copy.cv = None, post[x].mode = "build"
                   PROVE  OldGone'
      OBVIOUS
    <3>2. s = "basic"
      BY <3>1, <1>3 DEF Held
    <3>3. rows' = [NoRows EXCEPT ![s] = content]
      BY <3>1, <3>2, <1>4 DEF ConfirmedRows, StartsOver
    <3> QED
      BY <3>3, <1>9 DEF OldGone, NoRows
  <2>3. new.cv # None
    BY <1>5, <1>7, CvAssumption
  <2>4. post'[x] = post[x]
    BY <1>1
  <2> QED
    BY <1>7, <2>1, <2>2, <2>3, <2>4 DEF Held
<1>13. SessionsHeld' /\ OnlyOne' /\ sessions' \in [Posts -> Session \cup {None}]
  BY <1>4, <1>6, <1>10, <1>11, <1>12, SessionSaved
<1>14. \A y \in Posts : sessions'[y] = None => sessions[y] = None
  BY <1>4, <1>6, <1>7, SessionAssumption DEF Good, IInv, Types, Tables
<1>15. Idle \in Confirm
  BY DEF Idle, Confirm
<1>16. Types'
  <2>1. Tables'
    BY <1>1, <1>8, <1>13, <1>14, CvAssumption DEF IInv, Types, Tables
  <2>2. Calls'
    BY <1>1, <1>15 DEF IInv, Types, Calls
  <2> QED
    BY <2>1, <2>2 DEF Types
<1>17. CardsStayInSection'
  BY <1>3, <1>4 DEF CardsStayInSection, ConfirmedRows, NoRows, IInv, Types, Tables, Rows
<1>18. TurnsHeld' /\ ConfirmsHeld'
  BY <1>1, <1>10, <1>11, TurnsStay, ConfirmsStay DEF IInv, Types, Calls
<1> QED
  BY <1>13, <1>16, <1>17, <1>18 DEF IInv

LEMMA ConfirmAbortsKeeps ==
    ASSUME IInv, NEW c \in Confirms, ConfirmAborts(c)
    PROVE  IInv'
<1>1. /\ confirm' = [confirm EXCEPT ![c] = Idle]
      /\ UNCHANGED <<cv, rows, analysis, sessions, cards, post, turn, patch>>
  BY DEF ConfirmAborts
<1>2. PostsStay /\ OldStaysAway
  BY <1>1 DEF PostsStay, OldStaysAway, OldGone
<1>3. Idle \in Confirm
  BY DEF Idle, Confirm
<1>4. Types'
  BY <1>1, <1>3 DEF IInv, Types, Tables, Calls
<1>5. ConfirmsHeld'
  BY <1>1, <1>2, ConfirmsStay DEF IInv, Types, Calls
<1> QED
  BY <1>1, <1>2, <1>4, <1>5, SessionsStay, TurnsStay DEF IInv, CardsStayInSection

LEMMA ListedIs ==
    ASSUME NEW row \in CvRow, NEW S \in SUBSET Sections
    PROVE  Listed(row, S) \in CvRow
BY DEF Listed, CvRow

LEMMA PatchReadsKeeps ==
    ASSUME IInv, NEW p \in Patches, PatchReads(p)
    PROVE  IInv'
<1>1. /\ cv # None
      /\ UNCHANGED <<cv, rows, analysis, sessions, cards, post, turn, confirm>>
  BY DEF PatchReads
<1>2. PICK S \in SUBSET (Sections \ {"basic"}), basic \in BOOLEAN :
        patch' = [patch EXCEPT ![p] =
            [at |-> "write", todo |-> S,
             copy |-> IF basic THEN Listed(cv, {"basic"}) ELSE cv]]
  BY DEF PatchReads
<1>3. [at |-> "write", todo |-> S, copy |-> IF basic THEN Listed(cv, {"basic"}) ELSE cv] \in Patch
  <2>1. cv \in CvRow /\ Listed(cv, {"basic"}) \in CvRow
    BY <1>1, ListedIs, CvAssumption DEF IInv, Types, Tables
  <2> QED
    BY <2>1 DEF Patch
<1>4. Types'
  BY <1>1, <1>2, <1>3 DEF IInv, Types, Tables, Calls
<1>5. PostsStay /\ OldStaysAway
  BY <1>1 DEF PostsStay, OldStaysAway, OldGone
<1> QED
  BY <1>1, <1>4, <1>5, SessionsStay, TurnsStay, ConfirmsStay DEF IInv, CardsStayInSection

LEMMA PatchSectionKeeps ==
    ASSUME IInv, NEW p \in Patches, NEW s \in Sections, PatchSection(p, s)
    PROVE  IInv'
<1>1. /\ patch[p].at = "write" /\ patch[p] \in Patch
      /\ UNCHANGED <<cv, analysis, sessions, cards, post, turn, confirm>>
  BY DEF PatchSection, IInv, Types, Calls
<1>2. CASE CvExists(patch[p].copy.id)
  <2>1. /\ rows' = [rows EXCEPT ![s] = <<p, s>>]
        /\ patch' = [patch EXCEPT ![p].todo = @ \ {s}, ![p].copy = Listed(@, {s})]
    BY <1>2 DEF PatchSection
  <2>2. [patch[p] EXCEPT !.todo = @ \ {s}, !.copy = Listed(@, {s})] \in Patch
    <3>1. patch[p].copy \in CvRow /\ Listed(patch[p].copy, {s}) \in CvRow
      BY <1>1, ListedIs DEF Patch
    <3> QED
      BY <1>1, <3>1 DEF Patch
  <2>3. <<p, s>> \in Content /\ p # Old
    BY ConversationAssumption DEF Content
  <2>4. cv # None
    BY <1>1, <1>2, CvAssumption DEF CvExists, Patch, CvRow
  <2>5. rows' \in Rows
    BY <2>1, <2>3 DEF IInv, Types, Tables, Rows
  <2>6. Tables'
    BY <1>1, <2>4, <2>5 DEF IInv, Types, Tables
  <2>7. Calls'
    BY <1>1, <2>1, <2>2 DEF IInv, Types, Calls
  <2>8. PostsStay /\ OldStaysAway
    BY <1>1, <2>1, <2>3 DEF PostsStay, OldStaysAway, OldGone, IInv, Types, Tables, Rows
  <2>9. CardsStayInSection'
    BY <2>1 DEF IInv, CardsStayInSection, Types, Tables, Rows
  <2> QED
    BY <1>1, <2>6, <2>7, <2>8, <2>9, SessionsStay, TurnsStay, ConfirmsStay DEF IInv, Types
<1>3. CASE ~ CvExists(patch[p].copy.id)
  <2>1. patch' = [patch EXCEPT ![p] = Idle] /\ UNCHANGED rows
    BY <1>3 DEF PatchSection
  <2>2. Idle \in Patch
    BY DEF Idle, Patch
  <2>3. Types'
    BY <1>1, <2>1, <2>2 DEF IInv, Types, Tables, Calls
  <2>4. PostsStay /\ OldStaysAway
    BY <1>1, <2>1 DEF PostsStay, OldStaysAway, OldGone
  <2> QED
    BY <1>1, <2>1, <2>3, <2>4, SessionsStay, TurnsStay, ConfirmsStay DEF IInv, CardsStayInSection
<1> QED
  BY <1>2, <1>3

LEMMA PatchSavesKeeps ==
    ASSUME IInv, NEW p \in Patches, PatchSaves(p)
    PROVE  IInv'
<1>1. /\ patch[p].at = "write" /\ patch[p] \in Patch
      /\ patch' = [patch EXCEPT ![p] = Idle]
      /\ UNCHANGED <<rows, analysis, sessions, cards, post, turn, confirm>>
  BY DEF PatchSaves, IInv, Types, Calls
<1>2. cv' = cv \/ cv' \in CvRow
  BY <1>1 DEF PatchSaves, Patch
<1>3. Idle \in Patch
  BY DEF Idle, Patch
<1>4. Types'
  BY <1>1, <1>2, <1>3, CvAssumption DEF IInv, Types, Tables, Calls
<1>5. PostsStay /\ OldStaysAway
  BY <1>1 DEF PostsStay, OldStaysAway, OldGone
<1> QED
  BY <1>1, <1>4, <1>5, SessionsStay, TurnsStay, ConfirmsStay DEF IInv, CardsStayInSection

LEMMA SaveAnalysisKeeps ==
    ASSUME IInv, NEW u \in Uploads, SaveAnalysis(u)
    PROVE  IInv'
<1>1. UNCHANGED <<sessions, cards, post, turn, confirm, patch>>
  BY DEF SaveAnalysis
<1>2. PICK filled \in SUBSET Sections :
        /\ analysis' = [upload |-> u, low |-> Low(filled)]
        /\ \E id \in IF cv = None THEN FreshCvIds ELSE {cv.id} : cv' = AnalysedCv(id, filled)
        /\ rows' = AnalysedRows(u, filled)
  BY DEF SaveAnalysis
<1>3. PICK id \in CvIds : cv' = AnalysedCv(id, filled)
  BY <1>2 DEF FreshCvIds, IInv, Types, Tables, CvRow
<1>4. High(filled) \in SUBSET Sections /\ Low(filled) \in SUBSET Sections /\ "projects" \notin Low(filled)
  BY DEF High, Low
<1>5. cv' \in CvRow
  BY <1>3, <1>4 DEF AnalysedCv, CvRow
<1>6. \A s \in Sections : <<u, s>> \in Content /\ u # Old
  BY ConversationAssumption DEF Content
<1>7. rows' \in Rows /\ OldGone' /\ CardsStayInSection'
  BY <1>2, <1>6 DEF AnalysedRows, Rows, OldGone, CardsStayInSection
<1>8. analysis' \in Analysis /\ analysis'.low = Low(filled)
  BY <1>2, <1>4 DEF Analysis
<1>9. Tables'
  BY <1>1, <1>4, <1>5, <1>7, <1>8, CvAssumption DEF IInv, Types, Tables
<1>10. Calls'
  BY <1>1 DEF IInv, Types, Calls
<1>11. PostsStay /\ OldStaysAway
  BY <1>1, <1>7 DEF PostsStay, OldStaysAway
<1> QED
  BY <1>1, <1>7, <1>9, <1>10, <1>11, SessionsStay, TurnsStay, ConfirmsStay DEF IInv, Types

LEMMA NextKeeps == IInv /\ [Next]_vars => IInv'
<1> SUFFICES ASSUME IInv, [Next]_vars
             PROVE  IInv'
  OBVIOUS
<1>1. CASE \E r \in Posts : PostBegins(r) \/ DeleteBegins(r) \/ DropSession(r) \/ MakeSession(r)
  BY <1>1, PostBeginsKeeps, DeleteBeginsKeeps, DropSessionKeeps, MakeSessionKeeps
<1>2. CASE \E m \in Turns, x \in Posts : SendMessage(m, x)
  BY <1>2, SendMessageKeeps
<1>3. CASE \E m \in Turns : Reply(m) \/ AppendCard(m) \/ SwitchToProjects(m)
  BY <1>3, ReplyKeeps, AppendCardKeeps, SwitchToProjectsKeeps
<1>4. CASE \E c \in Confirms, x \in Posts : ConfirmReads(c, x)
  BY <1>4, ConfirmReadsKeeps
<1>5. CASE \E c \in Confirms : ConfirmReadsCv(c) \/ ConfirmCommits(c) \/ ConfirmAborts(c)
  BY <1>5, ConfirmReadsCvKeeps, ConfirmCommitsKeeps, ConfirmAbortsKeeps
<1>6. CASE \E p \in Patches : PatchReads(p) \/ PatchSaves(p)
  BY <1>6, PatchReadsKeeps, PatchSavesKeeps
<1>7. CASE \E p \in Patches, s \in Sections : PatchSection(p, s)
  BY <1>7, PatchSectionKeeps
<1>8. CASE \E u \in Uploads : SaveAnalysis(u)
  BY <1>8, SaveAnalysisKeeps
<1>9. CASE UNCHANGED vars
  <2>1. Types'
    BY <1>9 DEF vars, IInv, Types, Tables, Calls
  <2>2. PostsStay /\ OldStaysAway
    BY <1>9 DEF vars, PostsStay, OldStaysAway, OldGone
  <2> QED
    BY <1>9, <2>1, <2>2, SessionsStay, TurnsStay, ConfirmsStay DEF vars, IInv, CardsStayInSection
<1> QED
  BY <1>1, <1>2, <1>3, <1>4, <1>5, <1>6, <1>7, <1>8, <1>9 DEF Next

(* However requests with old copies overlap, what the tables and the       *)
(* copies hold of sessions stays what IInv says.                           *)
THEOREM InvariantHolds == Spec => []IInv
BY InitHolds, NextKeeps, PTL DEF Spec

-----------------------------------------------------------------------------
(* Every row has its type, and a card belongs to a session that is there:  *)
(* confirms, switches and PATCH /cv save whole copies over whatever is in  *)
(* the tables, and deletions cascade.                                      *)
THEOREM TypeCorrect == Spec => []TypeOK
<1>1. IInv => TypeOK
  BY DEF IInv, Types, Tables, TypeOK
<1> QED
  BY <1>1, InvariantHolds, PTL

(* A session is always at its first unconfirmed section, and completed     *)
(* exactly when none is left, whichever copies confirmSection and          *)
(* switchExperienceToProjects save over each other.                        *)
THEOREM SessionsAreConsistent == Spec => []SessionConsistent
<1>1. IInv => SessionConsistent
  BY DEF IInv, SessionsHeld, Held, Good, AtFirstOpen, SessionConsistent
<1> QED
  BY <1>1, InvariantHolds, PTL

(* A device never has two sessions in progress: every save of a session    *)
(* passes the unique index, those that insert a deleted one again too.     *)
THEOREM OneIsActive == Spec => []OneActive
<1>1. ASSUME IInv
      PROVE  OneActive
  <2>1. CASE Active = {}
    BY <2>1, FS_EmptySet DEF OneActive
  <2>2. CASE Active # {}
    <3>1. PICK x : Active = {x}
      BY <1>1, <2>2 DEF IInv, OnlyOne
    <3> QED
      BY <3>1, FS_Singleton DEF OneActive
  <2> QED
    BY <2>1, <2>2
<1> QED
  BY <1>1, InvariantHolds, PTL

(* Once a conversation that builds a CV has confirmed anything, no section *)
(* of the CV from before is in the document: its first confirm is that of  *)
(* `basic`, which starts over, and nobody writes an old section again.     *)
THEOREM OldNeverLeaks == Spec => []NothingOldLeaks
<1>1. ASSUME IInv
      PROVE  NothingOldLeaks
  BY <1>1 DEF IInv, SessionsHeld, Held, OldGone, NothingOldLeaks
<1> QED
  BY <1>1, InvariantHolds, PTL

(* A section of the CV holds a card made for that section: confirmSection  *)
(* compares the card's section with the one asked for and that with the    *)
(* current one, and the copy it saves is the one it compared.              *)
THEOREM CardsStay == Spec => []CardsStayInSection
<1>1. IInv => CardsStayInSection
  BY DEF IInv
<1> QED
  BY <1>1, InvariantHolds, PTL

(* A confirm of a session that has its CV removes no section, committed or *)
(* aborted: only the first confirm of a session without one starts over.   *)
THEOREM ConfirmsKeepOthers == Spec => ConfirmKeepsOthers
<1> DEFINE Keeps(c) ==
        (confirm[c].at = "tx" /\ confirm'[c].at = "idle" /\ confirm[c].copy.cv # None)
            => \A s \in Sections : rows[s] # None => rows'[s] # None
<1>1. IInv /\ [Next]_vars => [\A c \in Confirms : Keeps(c)]_vars
  <2> SUFFICES ASSUME IInv, [Next]_vars, NEW c \in Confirms,
                      confirm[c].at = "tx", confirm'[c].at = "idle", confirm[c].copy.cv # None,
                      NEW s \in Sections, rows[s] # None
               PROVE  rows'[s] # None
    OBVIOUS
  <2>1. CASE UNCHANGED rows
    BY <2>1
  <2>2. CASE ConfirmCommits(c)
    <3>1. rows' = [rows EXCEPT ![confirm[c].section] = confirm[c].content]
      BY <2>2 DEF ConfirmCommits, ConfirmedRows, StartsOver
    <3>2. confirm[c].content \in Content
      BY ConversationAssumption DEF IInv, Types, Calls, Confirm, Content
    <3> QED
      BY <3>1, <3>2, CvAssumption DEF IInv, Types, Tables, Rows
  <2>3. CASE UNCHANGED confirm
    BY <2>3
  <2>4. CASE \E d \in Confirms : d # c /\ ConfirmCommits(d)
    <3>1. confirm'[c] = confirm[c]
      BY <2>4 DEF ConfirmCommits, IInv, Types, Calls
    <3> QED
      BY <3>1
  <2>5. \/ UNCHANGED confirm \/ UNCHANGED rows
        \/ \E d \in Confirms : ConfirmCommits(d)
    BY DEF Next, vars, PostBegins, DeleteBegins, DropSession, MakeSession, SendMessage, Reply,
           AppendCard, SwitchToProjects, ConfirmReads, ConfirmReadsCv, ConfirmAborts,
           PatchReads, PatchSection, PatchSaves, SaveAnalysis
  <2> QED
    BY <2>1, <2>2, <2>3, <2>4, <2>5
<1> QED
  BY <1>1, InvariantHolds, PTL DEF Spec, ConfirmKeepsOthers

(* A session over an upload asks for exactly the sections the analysis it  *)
(* was created from found missing: the filter of the build sections loses  *)
(* none of them and adds none.                                             *)
THEOREM UploadsAskForMissing == Spec => UploadAsksForMissing
<1> DEFINE Asks(x) ==
        (sessions[x] = None /\ sessions'[x] # None /\ post[x].at = "make" /\ post[x].mode = "upload")
            => {sessions'[x].list[i].id : i \in DOMAIN sessions'[x].list} = post[x].low
<1>1. IInv /\ [Next]_vars => [\A x \in Posts : Asks(x)]_vars
  <2> SUFFICES ASSUME IInv, [Next]_vars, NEW x \in Posts,
                      sessions[x] = None, sessions'[x] # None,
                      post[x].at = "make", post[x].mode = "upload"
               PROVE  {sessions'[x].list[i].id : i \in DOMAIN sessions'[x].list} = post[x].low
    OBVIOUS
  <2>1. CASE MakeSession(x)
    <3>1. /\ sessions'[x] = NewSession(x)
          /\ post[x].mode = "upload" => cv # None
      BY <2>1 DEF MakeSession, IInv, Types, Tables
    <3> QED
      BY <3>1, NewSessionIs
  <2>2. CASE \E r \in Posts : r # x /\ MakeSession(r)
    BY <2>2 DEF MakeSession, IInv, Types, Tables
  <2>3. CASE \E m \in Turns : SwitchToProjects(m)
    <3>1. PICK m \in Turns : SwitchToProjects(m)
      BY <2>3
    <3>2. turn[m].session # x
      BY <3>1 DEF SwitchToProjects, IInv, TurnsHeld, Held
    <3> QED
      BY <3>1, <3>2 DEF SwitchToProjects, IInv, Types, Tables
  <2>4. CASE \E c \in Confirms : ConfirmCommits(c)
    <3>1. PICK c \in Confirms : ConfirmCommits(c)
      BY <2>4
    <3>2. confirm[c].session # x
      BY <3>1 DEF ConfirmCommits, IInv, ConfirmsHeld, Held
    <3> QED
      BY <3>1, <3>2 DEF ConfirmCommits, IInv, Types, Tables
  <2>5. CASE \E r \in Posts : DropSession(r)
    BY <2>5 DEF DropSession, DeleteSessionAndItsCv, DeleteSessions
  <2>6. CASE UNCHANGED sessions
    BY <2>6
  <2>7. \/ UNCHANGED sessions
        \/ \E r \in Posts : DropSession(r) \/ MakeSession(r)
        \/ \E m \in Turns : SwitchToProjects(m)
        \/ \E c \in Confirms : ConfirmCommits(c)
    BY DEF Next, vars, PostBegins, DeleteBegins, SendMessage, Reply, AppendCard, ConfirmReads,
           ConfirmReadsCv, ConfirmAborts, PatchReads, PatchSection, PatchSaves, SaveAnalysis
  <2> QED
    BY <2>1, <2>2, <2>3, <2>4, <2>5, <2>6, <2>7
<1> QED
  BY <1>1, InvariantHolds, PTL DEF Spec, UploadAsksForMissing
===============================================================================
