-------------------------- MODULE SectionReplyProofs --------------------------
(***************************************************************************)
(* Proofs about SectionReply, for any entries, reminders and limits, any   *)
(* number of turns in flight, whatever the user and the model say.         *)
(*                                                                         *)
(* No property is inductive alone.  They rest on what a turn in flight     *)
(* still knows of tables that others have changed since (Knows, Heard):    *)
(* the card it starts from holds no less than any it has read and than the *)
(* analysis, and what its history mentions is mentioned.  That a card      *)
(* takes nothing from the one its turn started from is KeptHoldsPrior;     *)
(* that a question is forced once more only by a turn already in flight    *)
(* when it was first asked is counted by Stale.                            *)
(***************************************************************************)
EXTENDS SectionReply, TLAPS, NaturalsInduction, FiniteSetTheorems, SequenceTheorems

(* One message at a time.                                                  *)
Alone == \A s, t \in Turns : s = t

Types == TypeOK /\ section \in Object \cup Array

(* A turn that has read what it starts from.                               *)
Past(t) == turn[t].at \in {"read", "talk", "extract", "recheck", "card"}

Knows(t) ==
    Past(t) =>
        /\ turn[t].saw \in 0 .. Len(cards)
        /\ turn[t].saw > 0 =>
              /\ turn[t].prior \in Cards
              /\ IF section \in Object THEN turn[t].prior = cards[turn[t].saw].holds
                 ELSE \A i \in 1 .. turn[t].saw : AtLeast(cards[i].holds, turn[t].prior)
        /\ analysis # NoCard => turn[t].prior \in Cards /\ AtLeast(analysis, turn[t].prior)
        /\ Alone => turn[t].saw = Len(cards)

Heard(t) == \A f \in Rules : turn[t].heard.mentions[f] <= mentions[f]

(* What is said once the section is taken for closed.                      *)
Quieted(t) == turn[t].at \in {"extract", "recheck", "card"} => ~turn[t].said.asks

(* The card a turn is about to store.                                      *)
Meant(t) ==
    turn[t].at = "card" =>
        /\ turn[t].card \in Cards
        /\ turn[t].prior # NoCard => AtLeast(turn[t].prior, turn[t].card)
        /\ section = "basic" => \A f \in Rules : FieldsOf[f] \cap turn[t].card = {} => mentions[f] > 0
        /\ turn[t].card = {} => section \in SECTIONS_ALLOWED_EMPTY \/ turn[t].heard.users = 0

TurnOk(t) == Knows(t) /\ Heard(t) /\ Quieted(t) /\ Meant(t)

(* The turns that may still ask for a field although it was asked for.     *)
Stale(f) == {t \in Turns : turn[t].at \notin {"idle", "card"} /\ turn[t].heard.mentions[f] < ASK_LIMIT}

Asked ==
    /\ \A f \in Rules : forced[f] <= mentions[f]
    /\ \A f \in Rules : mentions[f] >= ASK_LIMIT =>
            forced[f] + Cardinality(Stale(f)) <= ASK_LIMIT - 1 + Cardinality(Turns)

Lacking ==
    section = "basic" => \A i \in DOMAIN cards, f \in Rules :
            FieldsOf[f] \cap cards[i].holds = {} => mentions[f] > 0

InTurn == Alone => \A i \in DOMAIN cards : cards[i].saw = i - 1

IInv == Types /\ (\A t \in Turns : TurnOk(t)) /\ NothingIsLost /\ Asked /\ Lacking /\ InTurn

-----------------------------------------------------------------------------
(* Cards and how they compare.                                             *)
LEMMA LeastExists ==
    ASSUME NEW S, S \subseteq Nat, S # {}
    PROVE  \E k \in S : \A m \in S : k <= m
<1>1. IsWellFoundedOn(OpToRel(<, Nat), Nat)
  BY NatLessThanWellFounded
<1>2. PICK k \in S : \A m \in S : <<m, k>> \notin OpToRel(<, Nat)
  BY <1>1, WFMin
<1>3. ASSUME NEW m \in S PROVE k <= m
  <2>1. m \in Nat /\ k \in Nat /\ <<m, k>> \in Nat \X Nat
    OBVIOUS
  <2>2. ~(m < k)
    BY <1>2, <2>1 DEF OpToRel
  <2> QED
    BY <2>1, <2>2
<1> QED
  BY <1>3

LEMMA GreatestExists ==
    ASSUME NEW S, S \subseteq Nat, S # {}, NEW b \in Nat, \A m \in S : m <= b
    PROVE  \E k \in S : \A m \in S : m <= k
<1> DEFINE Bounds == {n \in Nat : \A m \in S : m <= n}
<1>1. Bounds \subseteq Nat /\ Bounds # {}
  OBVIOUS
<1>2. PICK k \in Bounds : \A n \in Bounds : k <= n
  BY <1>1, LeastExists
<1>3. k \in S
  <2> SUFFICES ASSUME k \notin S
               PROVE  FALSE
    OBVIOUS
  <2>1. \A m \in S : m \in Nat /\ m < k
    BY <1>2
  <2>2. PICK m \in S : m \in Nat /\ m < k
    BY <2>1
  <2>3. k - 1 \in Nat /\ \A n \in S : n <= k - 1
    BY <1>2, <2>1, <2>2
  <2>4. k <= k - 1
    BY <1>2, <2>3
  <2> QED
    BY <1>2, <2>4
<1> QED
  BY <1>2, <1>3

LEMMA CardFacts ==
    ASSUME section \in Object \cup Array, NEW c \in Cards
    PROVE  /\ c # NoCard
           /\ section \in Object => c # {}
           /\ section \notin Object => /\ IsFiniteSet(c) /\ Cardinality(c) \in Nat
                                     /\ Cardinality(c) <= Cardinality(Entries)
<1>1. CASE section \in Object
  BY <1>1 DEF Cards, NoCard
<1>2. CASE section \notin Object
  <2>1. c \in SUBSET Entries
    BY <1>2 DEF Cards
  <2>2. IsFiniteSet(c) /\ Cardinality(c) <= Cardinality(Entries)
    BY <2>1, FS_Subset, SectionReplyAssumption
  <2> QED
    BY <1>2, <2>1, <2>2, FS_CardinalityType, SectionReplyAssumption DEF NoCard
<1> QED
  BY <1>1, <1>2

LEMMA UnionIsCard ==
    ASSUME section \in Object, NEW c \in Cards, NEW d \in Cards
    PROVE  c \cup d \in Cards
<1>1. PICK F \in SUBSET {"title", "phone", "email"} : c = {"name"} \cup F
  BY DEF Cards
<1>2. PICK G \in SUBSET {"title", "phone", "email"} : d = {"name"} \cup G
  BY DEF Cards
<1>3. c \cup d = {"name"} \cup (F \cup G) /\ F \cup G \in SUBSET {"title", "phone", "email"}
  BY <1>1, <1>2
<1> QED
  BY <1>3 DEF Cards

LEMMA AtLeastIsOrder ==
    ASSUME section \in Object \cup Array, NEW c \in Cards, NEW d \in Cards, NEW e \in Cards
    PROVE  /\ AtLeast(c, c)
           /\ AtLeast(c, d) /\ AtLeast(d, e) => AtLeast(c, e)
           /\ section \notin Object => AtLeast(c, d) \/ AtLeast(d, c)
<1>1. CASE section \in Object
  BY <1>1 DEF AtLeast
<1>2. CASE section \notin Object
  <2>1. Cardinality(c) \in Nat /\ Cardinality(d) \in Nat /\ Cardinality(e) \in Nat
    BY <1>2, CardFacts
  <2> QED
    BY <1>2, <2>1 DEF AtLeast
<1> QED
  BY <1>1, <1>2

(* A card that holds no less than one with entries has entries.            *)
LEMMA EntriesStay ==
    ASSUME section \in Object \cup Array, NEW c \in Cards, NEW d \in Cards, AtLeast(c, d), HasEntries(c)
    PROVE  HasEntries(d)
<1>1. CASE section \in Object
  BY <1>1, CardFacts DEF HasEntries
<1>2. CASE section \notin Object
  <2>1. IsFiniteSet(c) /\ IsFiniteSet(d) /\ Cardinality(c) \in Nat /\ Cardinality(d) \in Nat /\ d # NoCard
    BY <1>2, CardFacts
  <2>2. Cardinality(c) # 0
    BY <2>1, FS_EmptySet DEF HasEntries
  <2>3. Cardinality(d) # 0
    BY <1>2, <2>1, <2>2 DEF AtLeast
  <2> QED
    BY <2>1, <2>3, FS_EmptySet DEF HasEntries
<1> QED
  BY <1>1, <1>2

LEMMA CardsFacts ==
    ASSUME Types
    PROVE  /\ Len(cards) \in Nat /\ DOMAIN cards = 1 .. Len(cards)
           /\ \A i \in DOMAIN cards : cards[i].holds \in Cards /\ cards[i].saw \in Nat
           /\ cards # <<>> => Len(cards) \in DOMAIN cards
<1>1. cards \in Seq([holds : Cards, saw : Nat])
  BY DEF Types, TypeOK
<1>2. Len(cards) \in Nat /\ DOMAIN cards = 1 .. Len(cards)
  BY <1>1, LenProperties
<1>3. \A i \in DOMAIN cards : cards[i] \in [holds : Cards, saw : Nat]
  BY <1>1, <1>2, ElementOfSeq
<1>4. cards # <<>> => Len(cards) # 0
  BY <1>1, EmptySeq
<1> QED
  BY <1>2, <1>3, <1>4

(* What a turn starts from is a card as soon as there is one: the latest   *)
(* of the object cards, and of the array cards one no less than any.       *)
LEMMA PriorIsBest ==
    ASSUME Types, NothingIsLost
    PROVE  /\ BestPriorCard \in Cards \cup {NoCard}
           /\ cards # <<>> =>
                /\ BestPriorCard \in Cards
                /\ IF section \in Object THEN BestPriorCard = cards[Len(cards)].holds
                   ELSE \A i \in DOMAIN cards : AtLeast(cards[i].holds, BestPriorCard)
           /\ analysis # NoCard => BestPriorCard \in Cards /\ AtLeast(analysis, BestPriorCard)
<1>0. /\ Len(cards) \in Nat /\ DOMAIN cards = 1 .. Len(cards)
      /\ \A i \in DOMAIN cards : cards[i].holds \in Cards
      /\ analysis \in Cards \cup {NoCard} /\ section \in Object \cup Array
  BY CardsFacts DEF Types, TypeOK
<1>1. CASE cards = <<>>
  <2>1. BestPriorCard = analysis
    BY <1>1 DEF BestPriorCard
  <2> QED
    BY <1>0, <1>1, <2>1, AtLeastIsOrder
<1>2. CASE cards # <<>>
  <2>1. Len(cards) \in DOMAIN cards
    BY <1>2, CardsFacts
  <2>2. \E k \in DOMAIN cards : BestPriorCard = cards[k].holds
           /\ IF section \in Object THEN k = Len(cards)
              ELSE \A i \in DOMAIN cards : AtLeast(cards[i].holds, cards[k].holds)
    <3>1. CASE section \in Object
      BY <1>2, <2>1, <3>1 DEF BestPriorCard
    <3>2. CASE section \notin Object
      <4>1. \A i \in DOMAIN cards : Size(i) \in Nat /\ Size(i) <= Cardinality(Entries)
        BY <1>0, <3>2, CardFacts DEF Size
      <4> DEFINE Sizes == {Size(i) : i \in DOMAIN cards}
                 Largest(i) == \A j \in DOMAIN cards : Size(j) <= Size(i)
                 Tops == {i \in DOMAIN cards : Largest(i)}
      <4>2. \E i \in DOMAIN cards : Largest(i)
        <5>1. Cardinality(Entries) \in Nat
          BY FS_CardinalityType, SectionReplyAssumption
        <5>2. Sizes \subseteq Nat /\ Sizes # {} /\ \A m \in Sizes : m <= Cardinality(Entries)
          BY <2>1, <4>1
        <5>3. PICK m \in Sizes : \A o \in Sizes : o <= m
          BY <5>1, <5>2, GreatestExists
        <5> QED
          BY <5>3
      <4>3. Tops \subseteq Nat /\ Tops # {}
        BY <1>0, <4>2
      <4>4. PICK k \in Tops : \A m \in Tops : k <= m
        BY <4>3, LeastExists
      <4>5. ASSUME NEW j \in 1 .. k - 1
            PROVE  Size(j) < Size(k)
        <5>1. j \in DOMAIN cards /\ k \in DOMAIN cards /\ j \notin Tops /\ Largest(k)
          BY <1>0, <4>3, <4>4
        <5>2. PICK m \in DOMAIN cards : ~(Size(m) <= Size(j))
          BY <5>1
        <5>3. Size(m) <= Size(k)
          BY <5>1, <5>2
        <5> QED
          BY <4>1, <5>1, <5>2, <5>3
      <4> DEFINE P(i) == /\ \A j \in DOMAIN cards : Size(j) <= Size(i)
                         /\ \A j \in 1 .. i - 1 : Size(j) < Size(i)
                 n == CHOOSE i \in DOMAIN cards : P(i)
      <4>6. k \in DOMAIN cards /\ P(k)
        BY <4>4, <4>5
      <4>7. n \in DOMAIN cards /\ P(n)
        BY <4>6
      <4>8. BestPriorCard = cards[n].holds
        BY <1>2, <3>2 DEF BestPriorCard
      <4>9. \A i \in DOMAIN cards : AtLeast(cards[i].holds, cards[n].holds)
        BY <3>2, <4>7 DEF AtLeast, Size
      <4> QED
        BY <3>2, <4>7, <4>8, <4>9
    <3> QED
      BY <3>1, <3>2
  <2>3. PICK k \in DOMAIN cards : BestPriorCard = cards[k].holds
           /\ IF section \in Object THEN k = Len(cards)
              ELSE \A i \in DOMAIN cards : AtLeast(cards[i].holds, cards[k].holds)
    BY <2>2
  <2>4. analysis # NoCard => AtLeast(analysis, BestPriorCard)
    BY <2>3 DEF NothingIsLost
  <2> QED
    BY <1>0, <2>3, <2>4
<1> QED
  BY <1>1, <1>2

(* What the extraction may hand to Concludes.                              *)
Outcome(kind, extracted) ==
    \/ kind = "card" /\ extracted \in Cards
    \/ kind \in {"failed", "empty"}

(* The card a turn ends with is a card, none only if there was nothing to  *)
(* keep, and holds what the prior one held; it is empty only if that is    *)
(* what was extracted or what the section allows.                          *)
LEMMA KeptHoldsPrior ==
    ASSUME section \in Object \cup Array, NEW prior \in Cards \cup {NoCard},
           NEW kind, NEW extracted, Outcome(kind, extracted)
    PROVE  LET card == Kept(prior, kind, extracted)
           IN  /\ card \in Cards \cup {NoCard}
               /\ HasEntries(prior) => card # NoCard
               /\ card # NoCard /\ prior # NoCard => AtLeast(prior, card)
               /\ card = {} => \/ kind = "card" /\ extracted = {}
                              \/ section \in SECTIONS_ALLOWED_EMPTY
<1> DEFINE found == IF kind = "card" THEN extracted
                    ELSE IF kind = "empty" /\ section \in SECTIONS_ALLOWED_EMPTY THEN {}
                    ELSE NoCard
<1>1. found \in Cards \cup {NoCard}
  BY DEF Outcome, SECTIONS_ALLOWED_EMPTY, Object, Cards
<1>2. found = {} => (kind = "card" /\ extracted = {}) \/ section \in SECTIONS_ALLOWED_EMPTY
  BY DEF NoCard
<1>3. Kept(prior, kind, extracted) =
        IF found = NoCard THEN IF HasEntries(prior) THEN prior ELSE NoCard
        ELSE IF prior = NoCard THEN found
        ELSE IF section \in Object THEN prior \cup found
        ELSE IF Cardinality(found) < Cardinality(prior) THEN prior ELSE found
  BY DEF Kept
<1>4. {} # NoCard
  BY DEF NoCard
<1> HIDE DEF found
<1>5. CASE found = NoCard
  <2>1. CASE HasEntries(prior)
    <3>1. Kept(prior, kind, extracted) = prior /\ prior \in Cards /\ prior # {}
      BY <1>3, <1>5, <2>1 DEF HasEntries
    <3> QED
      BY <3>1, CardFacts, AtLeastIsOrder
  <2>2. CASE ~HasEntries(prior)
    BY <1>3, <1>4, <1>5, <2>2
  <2> QED
    BY <2>1, <2>2
<1>6. CASE found # NoCard /\ prior = NoCard
  BY <1>1, <1>2, <1>3, <1>6 DEF HasEntries
<1>7. CASE found # NoCard /\ prior # NoCard /\ section \in Object
  <2>1. Kept(prior, kind, extracted) = prior \cup found /\ prior \cup found \in Cards
    BY <1>1, <1>3, <1>7, UnionIsCard
  <2>2. AtLeast(prior, prior \cup found)
    BY <1>7 DEF AtLeast
  <2> QED
    BY <1>7, <2>1, <2>2, CardFacts
<1>8. CASE found # NoCard /\ prior # NoCard /\ section \notin Object
  <2>1. prior \in Cards /\ found \in Cards
    BY <1>1, <1>8
  <2>2. /\ Cardinality(prior) \in Nat /\ Cardinality(found) \in Nat
        /\ prior = {} => Cardinality(prior) = 0
    BY <2>1, <1>8, CardFacts, FS_EmptySet
  <2>3. Kept(prior, kind, extracted) = IF Cardinality(found) < Cardinality(prior) THEN prior ELSE found
    BY <1>3, <1>8
  <2>4. /\ Kept(prior, kind, extracted) \in Cards
        /\ AtLeast(prior, Kept(prior, kind, extracted))
        /\ Kept(prior, kind, extracted) = {} => found = {}
    BY <2>1, <2>2, <2>3, <1>8 DEF AtLeast
  <2> QED
    BY <1>2, <2>4, CardFacts
<1> QED
  BY <1>5, <1>6, <1>7, <1>8

-----------------------------------------------------------------------------
(* Steps of one turn.                                                      *)

(* The others keep their local state.                                      *)
Moves(t) == turn' \in [Turns -> Turn'] /\ \A s \in Turns \ {t} : turn'[s] = turn[s]

(* What the others may find changed: mentions and cards added, the         *)
(* analysis gone.                                                          *)
Grows ==
    /\ section' = section
    /\ analysis' \in {analysis, NoCard}
    /\ \A f \in Rules : mentions[f] \in Nat /\ mentions'[f] \in Nat /\ mentions'[f] >= mentions[f]
    /\ Len(cards') \in Nat /\ Len(cards') >= Len(cards)
    /\ \A i \in 1 .. Len(cards) : cards'[i] = cards[i]

LEMMA RuleTypes ==
    /\ Rules = {"title", "contact"}
    /\ \A i \in DOMAIN Required : Required[i] \in Rules
    /\ DOMAIN Required = {1, 2} /\ Required[1] = "title" /\ Required[2] = "contact"
BY DEF Rules, Required

(* A turn's type, taken apart.                                             *)
LEMMA TurnFacts ==
    ASSUME Types, NEW t \in Turns
    PROVE  /\ turn[t] \in Turn
           /\ turn[t].saw \in Nat /\ turn[t].attempt \in Nat
           /\ turn[t].prior \in Cards \cup {NoCard} /\ turn[t].card \in Cards \cup {NoCard}
           /\ turn[t].heard \in History /\ turn[t].heard.users \in Nat
           /\ \A f \in Rules : turn[t].heard.mentions[f] \in Nat
           /\ turn[t].said \in Message
<1>1. turn[t] \in Turn
  BY DEF Types, TypeOK
<1>2. turn[t].heard \in History
  BY <1>1 DEF Turn
<1> QED
  BY <1>1, <1>2 DEF Turn, History

(* What a turn in flight relies on outlasts the others' steps.             *)
LEMMA OthersKeep ==
    ASSUME Types, Grows, NEW t \in Turns, turn'[t] = turn[t], TurnOk(t),
           ~Alone \/ cards' = cards
    PROVE  TurnOk(t)'
<1>1. Cards' = Cards /\ \A c, d : AtLeast(c, d)' <=> AtLeast(c, d)
  BY DEF Grows, Cards, AtLeast
<1>2. Knows(t)'
  <2> SUFFICES ASSUME Past(t)'
               PROVE  /\ turn[t].saw \in 0 .. Len(cards')
                      /\ turn[t].saw > 0 =>
                            /\ turn[t].prior \in Cards
                            /\ IF section \in Object THEN turn[t].prior = cards'[turn[t].saw].holds
                               ELSE \A i \in 1 .. turn[t].saw : AtLeast(cards'[i].holds, turn[t].prior)
                      /\ analysis' # NoCard => turn[t].prior \in Cards /\ AtLeast(analysis', turn[t].prior)
                      /\ Alone => turn[t].saw = Len(cards')
    BY <1>1 DEF Knows, Grows, Alone, AtLeast
  <2>1. Past(t)
    BY DEF Past
  <2>2. Len(cards) \in Nat /\ turn[t].saw \in 0 .. Len(cards)
    BY <2>1, CardsFacts DEF TurnOk, Knows
  <2>3. \A i \in 1 .. turn[t].saw : cards'[i] = cards[i]
    BY <2>2 DEF Grows
  <2> QED
    BY <2>1, <2>2, <2>3 DEF TurnOk, Knows, Grows
<1>3. Heard(t)'
  <2>1. \A f \in Rules : turn[t].heard.mentions[f] \in Nat
    BY TurnFacts
  <2> QED
    BY <2>1 DEF TurnOk, Heard, Grows
<1>4. Quieted(t)' /\ Meant(t)'
  BY <1>1 DEF TurnOk, Quieted, Meant, Grows, AtLeast
<1> QED
  BY <1>2, <1>3, <1>4 DEF TurnOk

(* The number of turns that may still ask for what was asked for.          *)
LEMMA StaleCounts ==
    ASSUME NEW f
    PROVE  /\ IsFiniteSet(Stale(f)) /\ Cardinality(Stale(f)) \in Nat
           /\ Cardinality(Turns) \in Nat
           /\ \A S \in SUBSET Stale(f) : Cardinality(S) \in Nat /\ Cardinality(S) <= Cardinality(Stale(f))
           /\ \A S \in SUBSET Turns, t \in Turns : t \notin S =>
                  Cardinality(S) \in Nat /\ Cardinality(S) + 1 <= Cardinality(Turns)
           /\ \A S \in SUBSET Stale(f), t \in Stale(f) : t \notin S =>
                  Cardinality(S) \in Nat /\ Cardinality(S) + 1 <= Cardinality(Stale(f))
<1>1. Stale(f) \in SUBSET Turns /\ IsFiniteSet(Turns)
  BY SectionReplyAssumption DEF Stale
<1>2. \A T : IsFiniteSet(T) => /\ Cardinality(T) \in Nat
                               /\ \A S \in SUBSET T : IsFiniteSet(S) /\ Cardinality(S) \in Nat
                                                        /\ Cardinality(S) <= Cardinality(T)
  BY FS_Subset, FS_CardinalityType
<1>3. ASSUME NEW T, IsFiniteSet(T), NEW S \in SUBSET T, NEW t \in T, t \notin S
      PROVE  Cardinality(S) \in Nat /\ Cardinality(S) + 1 <= Cardinality(T)
  <2>1. S \in SUBSET (T \ {t}) /\ IsFiniteSet(T \ {t}) /\ Cardinality(T \ {t}) = Cardinality(T) - 1
    BY <1>3, FS_RemoveElement
  <2>2. Cardinality(S) \in Nat /\ Cardinality(S) <= Cardinality(T) - 1 /\ Cardinality(T) \in Nat
    BY <1>2, <1>3, <2>1
  <2> QED
    BY <2>2
<1>4. IsFiniteSet(Stale(f))
  BY <1>1, <1>2
<1> QED
  BY <1>1, <1>2, <1>3, <1>4

(* A step that changes no table but the number of user messages.           *)
LEMMA LocalKeeps ==
    ASSUME IInv, NEW t \in Turns, Moves(t), turn'[t].attempt <= Reminders(turn'[t].at), TurnOk(t)',
           users' \in 0 .. MaxTurns,
           UNCHANGED <<section, analysis, clarified, mentions, cards, forced>>,
           \A f \in Rules : mentions[f] >= ASK_LIMIT /\ t \in Stale(f)' => t \in Stale(f)
    PROVE  IInv'
<1>1. Grows
  BY CardsFacts DEF IInv, Grows, Types, TypeOK
<1>2. Cards' = Cards /\ Turn' = Turn
  BY DEF Cards, Turn, Message
<1>3. Types'
  BY <1>2 DEF IInv, Types, TypeOK, Moves
<1>4. ASSUME NEW s \in Turns PROVE TurnOk(s)'
  <2>1. CASE s = t
    BY <2>1
  <2>2. CASE s # t
    <3>1. turn'[s] = turn[s]
      BY <2>2 DEF Moves
    <3> QED
      BY <1>1, <3>1, OthersKeep DEF IInv
  <2> QED
    BY <2>1, <2>2
<1>5. Asked'
  <2>1. ASSUME NEW f \in Rules, mentions[f] >= ASK_LIMIT
        PROVE  forced[f] + Cardinality(Stale(f)') <= ASK_LIMIT - 1 + Cardinality(Turns)
    <3>1. Stale(f)' \in SUBSET Stale(f)
      BY <2>1 DEF Stale, Moves
    <3>2. Cardinality(Stale(f)') \in Nat /\ Cardinality(Stale(f)') <= Cardinality(Stale(f))
          /\ Cardinality(Stale(f)) \in Nat /\ Cardinality(Turns) \in Nat
      BY <3>1, StaleCounts
    <3>3. forced[f] \in Nat /\ ASK_LIMIT \in Nat
      BY SectionReplyAssumption DEF IInv, Types, TypeOK
    <3>4. forced[f] + Cardinality(Stale(f)) <= ASK_LIMIT - 1 + Cardinality(Turns)
      BY <2>1 DEF IInv, Asked
    <3> QED
      BY <3>2, <3>3, <3>4
  <2> QED
    BY <2>1 DEF IInv, Asked
<1>6. NothingIsLost' /\ Lacking' /\ InTurn'
  BY DEF IInv, NothingIsLost, Knew, AtLeast, Lacking, InTurn, Alone
<1> QED
  BY <1>3, <1>4, <1>5, <1>6 DEF IInv

LEMMA AnalysisGoesKeeps == IInv /\ AnalysisGoes => IInv'
<1> SUFFICES ASSUME IInv, AnalysisGoes
             PROVE  IInv'
  OBVIOUS
<1>1. Grows /\ cards' = cards /\ turn' = turn
  BY CardsFacts DEF IInv, Grows, Types, TypeOK, AnalysisGoes
<1>2. Types'
  <2>1. Cards' = Cards /\ Turn' = Turn
    BY DEF Cards, Turn, Message, AnalysisGoes
  <2> QED
    BY <2>1 DEF IInv, Types, TypeOK, AnalysisGoes
<1>3. \A t \in Turns : TurnOk(t)'
  BY <1>1, OthersKeep DEF IInv
<1>4. Asked'
  BY DEF IInv, Asked, Stale, AnalysisGoes
<1>5. NothingIsLost' /\ Lacking' /\ InTurn'
  BY DEF IInv, NothingIsLost, Knew, AtLeast, Lacking, InTurn, Alone, AnalysisGoes
<1> QED
  BY <1>2, <1>3, <1>4, <1>5 DEF IInv

(* The turn that ends is an idle one like any other.                       *)
LEMMA IdleIsOk ==
    ASSUME NEW t \in Turns, turn'[t] = Idle, \A f \in Rules : mentions'[f] \in Nat
    PROVE  /\ TurnOk(t)' /\ Idle \in Turn' /\ Idle.attempt <= Reminders(Idle.at)
           /\ \A f : t \notin Stale(f)'
<1>1. Nothing \in History /\ Quiet \in Message'
  BY RuleTypes DEF Nothing, History, Quiet, Message
<1>2. Idle \in Turn'
  BY <1>1 DEF Idle, Turn, Stages
<1>3. TurnOk(t)'
  BY DEF TurnOk, Knows, Past, Heard, Quieted, Meant, Idle, Nothing
<1> QED
  BY <1>2, <1>3 DEF Idle, Reminders, Stale

LEMMA ReadHistoryKeeps == ASSUME IInv, NEW t \in Turns, ReadHistory(t) PROVE IInv'
<1> DEFINE u == [turn[t] EXCEPT !.at = "heard",
                    !.heard = [users |-> users, clarified |-> clarified, mentions |-> mentions]]
<1>1. /\ turn' = [turn EXCEPT ![t] = u]
      /\ UNCHANGED <<section, analysis, users, clarified, mentions, cards, forced>>
  BY DEF ReadHistory, IInv, Types, TypeOK
<1>2. u \in Turn /\ turn[t] \in Turn /\ turn[t].attempt = 0
  <2>1. turn[t] \in Turn /\ turn[t].attempt <= 0
    BY DEF IInv, Types, TypeOK, ReadHistory, Reminders
  <2>2. users \in Nat /\ clarified \in Nat /\ mentions \in [Rules -> Nat]
    BY SectionReplyAssumption DEF IInv, Types, TypeOK
  <2>3. [users |-> users, clarified |-> clarified, mentions |-> mentions] \in History
    BY <2>2 DEF History
  <2>4. "heard" \in Stages
    BY DEF Stages
  <2> HIDE DEF u
  <2>5. turn[t].attempt = 0
    BY <2>1 DEF Turn
  <2>6. u \in Turn
    BY <2>1, <2>3, <2>4 DEF Turn, u
  <2> QED
    BY <2>1, <2>5, <2>6
<1>3. turn'[t] = u /\ Moves(t) /\ Turn' = Turn
  BY <1>1, <1>2 DEF IInv, Types, TypeOK, Moves, Turn, Cards, Message
<1>4. TurnOk(t)'
  BY <1>1, <1>2, <1>3 DEF TurnOk, Knows, Past, Heard, Quieted, Meant, IInv, Types, TypeOK
<1>5. turn'[t].attempt <= Reminders(turn'[t].at)
  BY <1>2, <1>3 DEF Reminders, Turn
<1>6. \A f \in Rules : mentions[f] >= ASK_LIMIT /\ t \in Stale(f)' => t \in Stale(f)
  BY <1>1, <1>2, <1>3, SectionReplyAssumption DEF Stale, IInv, Types, TypeOK, Turn
<1>7. users' \in 0 .. MaxTurns
  BY <1>1 DEF IInv, Types, TypeOK
<1> QED
  BY <1>1, <1>3, <1>4, <1>5, <1>6, <1>7, LocalKeeps

LEMMA ReadBestCardKeeps == ASSUME IInv, NEW t \in Turns, ReadBestCard(t) PROVE IInv'
<1> DEFINE u == [turn[t] EXCEPT !.at = "read", !.saw = Len(cards), !.prior = BestPriorCard]
<1>1. /\ turn' = [turn EXCEPT ![t] = u]
      /\ UNCHANGED <<section, analysis, users, clarified, mentions, cards, forced>>
  BY DEF ReadBestCard, IInv, Types, TypeOK
<1>2. turn[t] \in Turn /\ turn[t].attempt = 0 /\ turn[t].at = "heard"
  <2>1. turn[t].attempt \in Nat /\ turn[t].attempt <= 0
    BY TurnFacts DEF IInv, Types, TypeOK, ReadBestCard, Reminders
  <2> QED
    BY <2>1 DEF IInv, Types, TypeOK, ReadBestCard
<1>3. /\ Len(cards) \in Nat /\ DOMAIN cards = 1 .. Len(cards)
      /\ BestPriorCard \in Cards \cup {NoCard}
      /\ Len(cards) > 0 =>
            /\ BestPriorCard \in Cards
            /\ IF section \in Object THEN BestPriorCard = cards[Len(cards)].holds
               ELSE \A i \in DOMAIN cards : AtLeast(cards[i].holds, BestPriorCard)
      /\ analysis # NoCard => BestPriorCard \in Cards /\ AtLeast(analysis, BestPriorCard)
  <2>1. Len(cards) > 0 => cards # <<>>
    OBVIOUS
  <2> QED
    BY <2>1, CardsFacts, PriorIsBest DEF IInv
<1>4. u \in Turn
  BY <1>2, <1>3 DEF Turn, Stages
<1>5. turn'[t] = u /\ Moves(t) /\ Turn' = Turn /\ Cards' = Cards
  BY <1>1, <1>4 DEF IInv, Types, TypeOK, Moves, Turn, Cards, Message
<1>6. /\ turn'[t].at = "read" /\ turn'[t].saw = Len(cards) /\ turn'[t].prior = BestPriorCard
      /\ turn'[t].heard = turn[t].heard /\ turn'[t].attempt = 0
  BY <1>2, <1>5 DEF Turn
<1>7. TurnOk(t)'
  <2>1. Knows(t)'
    BY <1>1, <1>3, <1>5, <1>6 DEF Knows, AtLeast
  <2>2. Heard(t)'
    BY <1>1, <1>6 DEF IInv, TurnOk, Heard
  <2>3. Quieted(t)' /\ Meant(t)'
    BY <1>6 DEF Quieted, Meant
  <2> QED
    BY <2>1, <2>2, <2>3 DEF TurnOk
<1>8. turn'[t].attempt <= Reminders(turn'[t].at)
  BY <1>6 DEF Reminders
<1>9. \A f \in Rules : t \in Stale(f)' => t \in Stale(f)
  BY <1>2, <1>6 DEF Stale
<1>10. users' \in 0 .. MaxTurns
  BY <1>1 DEF IInv, Types, TypeOK
<1> QED
  BY <1>1, <1>5, <1>7, <1>8, <1>9, <1>10, LocalKeeps

(* A step of the calls: what the turn has read stays.                      *)
LEMMA CallKeeps ==
    ASSUME IInv, NEW t \in Turns, NEW u \in Turn, turn' = [turn EXCEPT ![t] = u],
           turn[t].at \in {"read", "talk", "extract", "recheck"},
           u.at \in {"talk", "extract", "recheck"}, u.attempt <= Reminders(u.at),
           u.heard = turn[t].heard, u.saw = turn[t].saw, u.prior = turn[t].prior,
           u.at \in {"extract", "recheck"} => ~u.said.asks,
           users' \in 0 .. MaxTurns,
           UNCHANGED <<section, analysis, clarified, mentions, cards, forced>>
    PROVE  IInv'
<1>1. turn'[t] = u /\ Moves(t) /\ Turn' = Turn /\ Cards' = Cards
  BY DEF IInv, Types, TypeOK, Moves, Turn, Cards, Message
<1>2. TurnOk(t)'
  <2>1. Knows(t)'
    BY <1>1 DEF IInv, TurnOk, Knows, Past, AtLeast, Alone
  <2>2. Heard(t)' /\ Quieted(t)' /\ Meant(t)'
    BY <1>1 DEF IInv, TurnOk, Heard, Quieted, Meant
  <2> QED
    BY <2>1, <2>2 DEF TurnOk
<1>3. \A f \in Rules : t \in Stale(f)' => t \in Stale(f)
  BY <1>1 DEF Stale
<1> QED
  BY <1>1, <1>2, <1>3, LocalKeeps

LEMMA UserSaysKeeps == ASSUME IInv, NEW t \in Turns, UserSays(t) PROVE IInv'
<1>1. PICK closing \in ClosingIntent : turn' = [turn EXCEPT ![t].at = "talk", ![t].closing = closing]
  BY DEF UserSays
<1> DEFINE u == [turn[t] EXCEPT !.at = "talk", !.closing = closing]
<1>2. turn[t] \in Turn /\ turn[t].at = "read" /\ turn' = [turn EXCEPT ![t] = u]
  BY <1>1 DEF UserSays, IInv, Types, TypeOK
<1>3. turn[t].attempt <= 0
  BY <1>2 DEF IInv, Types, TypeOK, Reminders
<1>4. u \in Turn
  BY <1>2 DEF Turn, Stages, ClosingIntent
<1>5. /\ u.at = "talk" /\ u.attempt = turn[t].attempt /\ turn[t].attempt \in Nat
      /\ u.heard = turn[t].heard /\ u.saw = turn[t].saw /\ u.prior = turn[t].prior
  BY <1>2 DEF Turn
<1>6. u.attempt <= Reminders(u.at)
  BY <1>3, <1>5, SectionReplyAssumption DEF Reminders
<1>7. /\ users' \in 0 .. MaxTurns
      /\ UNCHANGED <<section, analysis, clarified, mentions, cards, forced>>
  BY SectionReplyAssumption DEF UserSays, IInv, Types, TypeOK
<1> HIDE DEF u
<1> QED
  BY <1>2, <1>4, <1>5, <1>6, <1>7, CallKeeps

(* A retry changes only how many calls failed, and has a reminder left.    *)
LEMMA RetryKeeps ==
    ASSUME IInv, NEW t \in Turns, NEW reminders, Retry(t, reminders),
           \/ turn[t].at = "talk" /\ reminders = REMINDERS
           \/ turn[t].at = "extract" /\ reminders = EXTRACT_REMINDERS
    PROVE  IInv'
<1> DEFINE u == [turn[t] EXCEPT !.attempt = @ + 1]
<1>1. turn[t] \in Turn /\ turn' = [turn EXCEPT ![t] = u]
  BY DEF Retry, IInv, Types, TypeOK
<1>2. turn[t].attempt \in Nat /\ turn[t].attempt + 1 <= reminders /\ reminders = Reminders(turn[t].at)
  BY <1>1, SectionReplyAssumption DEF Retry, MayRetry, Turn, Reminders
<1>3. u \in Turn
  BY <1>1, <1>2 DEF Turn
<1>4. /\ u.at = turn[t].at /\ u.attempt = turn[t].attempt + 1 /\ u.said = turn[t].said
      /\ u.heard = turn[t].heard /\ u.saw = turn[t].saw /\ u.prior = turn[t].prior
  BY <1>1 DEF Turn
<1>5. u.attempt <= Reminders(u.at)
  BY <1>2, <1>4
<1>6. u.at \in {"extract", "recheck"} => ~u.said.asks
  BY <1>4 DEF IInv, TurnOk, Quieted
<1>7. users' \in 0 .. MaxTurns /\ UNCHANGED <<section, analysis, clarified, mentions, cards, forced>>
  BY DEF Retry, IInv, Types, TypeOK
<1> HIDE DEF u
<1> QED
  BY <1>1, <1>3, <1>4, <1>5, <1>6, <1>7, CallKeeps

LEMMA BreaksKeeps == ASSUME IInv, NEW t \in Turns, Breaks(t) PROVE IInv'
<1>1. /\ turn' = [turn EXCEPT ![t] = Idle]
      /\ UNCHANGED <<section, analysis, users, clarified, mentions, cards, forced>>
  BY DEF Breaks
<1>2. turn'[t] = Idle /\ \A f \in Rules : mentions'[f] \in Nat
  BY <1>1 DEF IInv, Types, TypeOK
<1>3. /\ TurnOk(t)' /\ Idle \in Turn' /\ Idle.attempt <= Reminders(Idle.at)
      /\ \A f : t \notin Stale(f)'
  BY <1>2, IdleIsOk
<1>4. Turn' = Turn
  BY <1>1 DEF Turn, Cards, Message
<1>5. Moves(t)
  BY <1>1, <1>3, <1>4 DEF Moves, IInv, Types, TypeOK
<1>6. users' \in 0 .. MaxTurns
  BY <1>1 DEF IInv, Types, TypeOK
<1> QED
  BY <1>1, <1>2, <1>3, <1>5, <1>6, LocalKeeps

-----------------------------------------------------------------------------
(* The card is stored: the others find one card more.                      *)
LEMMA StoreCardKeeps == ASSUME IInv, NEW t \in Turns, StoreCard(t) PROVE IInv'
<1> DEFINE n == Len(cards) + 1
           stored == [holds |-> turn[t].card, saw |-> turn[t].saw]
<1>1. /\ turn[t].at = "card" /\ cards' = Append(cards, stored) /\ turn' = [turn EXCEPT ![t] = Idle]
      /\ UNCHANGED <<section, analysis, users, clarified, mentions, forced>>
  BY DEF StoreCard
<1>2. /\ turn[t].card \in Cards /\ turn[t].saw \in Nat /\ turn[t].prior \in Cards \cup {NoCard}
      /\ Knows(t) /\ Past(t) /\ Meant(t)
  BY <1>1, TurnFacts DEF IInv, TurnOk, Meant, Past
<1>3. stored \in [holds : Cards, saw : Nat] /\ cards \in Seq([holds : Cards, saw : Nat])
  BY <1>2 DEF IInv, Types, TypeOK
<1> HIDE DEF stored
<1>4. /\ cards' \in Seq([holds : Cards, saw : Nat])
      /\ Len(cards') = n /\ Len(cards) \in Nat
      /\ DOMAIN cards' = 1 .. n /\ DOMAIN cards = 1 .. Len(cards)
      /\ cards'[n] = stored
      /\ \A i \in DOMAIN cards : cards'[i] = cards[i]
  BY <1>1, <1>3, AppendProperties, LenProperties
<1>5. stored.holds = turn[t].card /\ stored.saw = turn[t].saw
  BY DEF stored
<1>6. Grows
  BY <1>1, <1>4 DEF Grows, IInv, Types, TypeOK
<1>7. turn'[t] = Idle /\ \A f \in Rules : mentions'[f] \in Nat
  BY <1>1 DEF IInv, Types, TypeOK
<1>8. /\ TurnOk(t)' /\ Idle \in Turn' /\ Idle.attempt <= Reminders(Idle.at)
      /\ \A f : t \notin Stale(f)'
  BY <1>7, IdleIsOk
<1>9. Turn' = Turn /\ Cards' = Cards
  BY <1>1 DEF Turn, Cards, Message
<1>10. Types'
  BY <1>1, <1>4, <1>8, <1>9 DEF IInv, Types, TypeOK
<1>11. ASSUME NEW s \in Turns PROVE TurnOk(s)'
  <2>1. CASE s = t
    BY <2>1, <1>8
  <2>2. CASE s # t
    <3>1. turn'[s] = turn[s] /\ ~Alone
      BY <1>1, <2>2 DEF Alone, IInv, Types, TypeOK
    <3>2. TurnOk(s) /\ Types
      BY DEF IInv
    <3> QED
      BY <1>6, <3>1, <3>2, OthersKeep
  <2> QED
    BY <2>1, <2>2
<1>12. Asked'
  <2>1. \A f \in Rules : Stale(f)' = Stale(f)
    BY <1>1, <1>7 DEF Stale, Idle, IInv, Types, TypeOK
  <2> QED
    BY <1>1, <2>1 DEF IInv, Asked
<1>13. \A i \in 1 .. Len(cards) : cards[i].holds \in Cards /\ cards[i].saw \in Nat
  BY CardsFacts DEF IInv
<1>14. ASSUME NEW i \in 1 .. Len(cards), turn[t].saw >= i,
              section \in Object => \A k \in i + 1 .. Len(cards) : cards[k].saw >= i
       PROVE  AtLeast(cards[i].holds, turn[t].card)
  <2>1. turn[t].saw \in 1 .. Len(cards) /\ turn[t].prior \in Cards
    BY <1>2, <1>14 DEF Knows
  <2>2. AtLeast(turn[t].prior, turn[t].card)
    BY <1>2, <2>1, <1>1, CardFacts DEF Meant, IInv, Types
  <2>3. AtLeast(cards[i].holds, turn[t].prior)
    <3>1. CASE section \notin Object
      BY <1>2, <1>14, <2>1, <3>1 DEF Knows
    <3>2. CASE section \in Object
      <4> DEFINE m == turn[t].saw
      <4>1. turn[t].prior = cards[m].holds
        BY <1>2, <2>1, <3>2 DEF Knows
      <4>2. CASE m = i
        BY <1>2, <3>2, <4>1, <4>2 DEF AtLeast
      <4>3. CASE m # i
        <5>1. i < m /\ i \in DOMAIN cards /\ m \in DOMAIN cards /\ Knew(m, i)
          BY <1>4, <1>14, <2>1, <3>2, <4>3 DEF Knew
        <5> QED
          BY <4>1, <5>1 DEF IInv, NothingIsLost
      <4> QED
        BY <4>2, <4>3
    <3> QED
      BY <3>1, <3>2
  <2> QED
    BY <1>2, <1>13, <2>1, <2>2, <2>3, AtLeastIsOrder DEF IInv, Types
<1>15. NothingIsLost'
  <2>1. ASSUME NEW i \in 1 .. n, NEW j \in 1 .. n, i < j, Knew(j, i)'
        PROVE  AtLeast(cards'[i].holds, cards'[j].holds)
    <3>1. i \in 1 .. Len(cards) /\ i \in DOMAIN cards
      BY <1>4, <2>1
    <3>2. CASE j = n
      <4>1. turn[t].saw >= i
        BY <1>1, <1>4, <1>5, <2>1, <3>2 DEF Knew
      <4>2. section \in Object => \A k \in i + 1 .. Len(cards) : cards[k].saw >= i
        <5>1. \A k \in i + 1 .. Len(cards) : k \in i + 1 .. n /\ k \in DOMAIN cards
          BY <1>4, <3>1
        <5> QED
          BY <1>1, <1>4, <2>1, <3>2, <5>1 DEF Knew
      <4>3. AtLeast(cards[i].holds, turn[t].card)
        BY <1>14, <3>1, <4>1, <4>2
      <4> QED
        BY <1>4, <1>5, <3>1, <3>2, <4>3
    <3>3. CASE j # n
      <4>1. j \in DOMAIN cards
        <5>1. Len(cards) \in Nat /\ DOMAIN cards = 1 .. Len(cards)
          BY <1>4
        <5>2. j \in 1 .. n /\ j # n
          BY <2>1, <3>3
        <5> QED
          BY <5>1, <5>2
      <4>2. Knew(j, i)
        <5>1. \A k \in i + 1 .. j : k \in DOMAIN cards
          BY <1>4, <3>1, <4>1
        <5> QED
          BY <1>1, <1>4, <2>1, <4>1, <5>1 DEF Knew
      <4> QED
        BY <1>4, <2>1, <3>1, <4>1, <4>2 DEF IInv, NothingIsLost
    <3> QED
      BY <3>2, <3>3
  <2>2. ASSUME analysis # NoCard, NEW i \in 1 .. n
        PROVE  AtLeast(analysis, cards'[i].holds)
    <3>1. CASE i = n
      <4>1. analysis \in Cards /\ turn[t].prior \in Cards /\ AtLeast(analysis, turn[t].prior)
        BY <1>2, <2>2 DEF Knows, IInv, Types, TypeOK
      <4>2. AtLeast(turn[t].prior, turn[t].card)
        BY <1>1, <1>2, <4>1, CardFacts DEF Meant, IInv, Types
      <4>3. AtLeast(analysis, turn[t].card)
        BY <1>2, <4>1, <4>2, AtLeastIsOrder DEF IInv, Types
      <4> QED
        BY <1>4, <1>5, <3>1, <4>3
    <3>2. CASE i # n
      <4>1. i \in DOMAIN cards
        BY <1>4, <3>2
      <4> QED
        BY <1>4, <2>2, <4>1 DEF IInv, NothingIsLost
    <3> QED
      BY <3>1, <3>2
  <2>3. \A c, d : AtLeast(c, d)' <=> AtLeast(c, d)
    BY <1>1 DEF AtLeast
  <2> QED
    BY <1>1, <1>4, <2>1, <2>2, <2>3 DEF NothingIsLost, AtLeast
<1>16. Lacking'
  <2>1. ASSUME section = "basic", NEW i \in 1 .. n, NEW f \in Rules, FieldsOf[f] \cap cards'[i].holds = {}
        PROVE  mentions[f] > 0
    <3>1. CASE i = n
      BY <1>1, <1>2, <1>4, <1>5, <2>1, <3>1 DEF Meant
    <3>2. CASE i # n
      <4>1. i \in DOMAIN cards
        BY <1>4, <3>2
      <4> QED
        BY <1>4, <2>1, <4>1 DEF IInv, Lacking
    <3> QED
      BY <3>1, <3>2
  <2> QED
    BY <1>1, <1>4, <2>1 DEF Lacking
<1>17. InTurn'
  <2>1. ASSUME Alone, NEW i \in 1 .. n
        PROVE  cards'[i].saw = i - 1
    <3>1. CASE i = n
      BY <1>2, <1>4, <1>5, <2>1, <3>1 DEF Knows
    <3>2. CASE i # n
      <4>1. i \in DOMAIN cards
        BY <1>4, <3>2
      <4> QED
        BY <1>4, <2>1, <4>1 DEF IInv, InTurn
    <3> QED
      BY <3>1, <3>2
  <2> QED
    BY <1>4, <2>1 DEF InTurn, Alone
<1> QED
  BY <1>10, <1>11, <1>12, <1>15, <1>16, <1>17 DEF IInv

(* The text is stored: it may mention what was not mentioned, and a forced *)
(* question counts.                                                        *)
LEMMA AnswersKeep ==
    ASSUME IInv, NEW t \in Turns, turn[t].at \in {"talk", "extract", "recheck"},
           NEW message, message.about \subseteq Rules,
           NEW card \in Cards \cup {NoCard}, Answers(t, message, card),
           clarified' \in {clarified, clarified + 1},
           \/ forced' = forced
           \/ \E f \in message.about :
                  forced' = [forced EXCEPT ![f] = @ + 1] /\ turn[t].heard.mentions[f] < ASK_LIMIT,
           card # NoCard =>
              /\ message \in Message /\ ~message.asks
              /\ turn[t].prior # NoCard => AtLeast(turn[t].prior, card)
              /\ section = "basic" => \A f \in Rules : FieldsOf[f] \cap card = {} => mentions[f] > 0
              /\ card = {} => section \in SECTIONS_ALLOWED_EMPTY \/ turn[t].heard.users = 0
    PROVE  IInv'
<1> DEFINE u == [turn[t] EXCEPT !.at = "card", !.attempt = 0, !.said = message, !.card = card]
<1>1. UNCHANGED <<section, analysis, users, cards>>
  BY DEF Answers
<1>2. /\ mentions \in [Rules -> Nat] /\ forced \in [Rules -> Nat] /\ ASK_LIMIT \in Nat \ {0}
      /\ mentions' = [f \in Rules |-> mentions[f] + IF f \in message.about THEN 1 ELSE 0]
  BY SectionReplyAssumption DEF IInv, Types, TypeOK, Answers
<1>3. /\ mentions' \in [Rules -> Nat] /\ forced' \in [Rules -> Nat]
      /\ \A f \in Rules : mentions'[f] >= mentions[f]
      /\ \A f \in message.about : mentions'[f] = mentions[f] + 1
  BY <1>2
<1>4. Grows
  BY <1>1, <1>2, <1>3, CardsFacts DEF Grows, IInv
<1>5. Turn' = Turn /\ Cards' = Cards
  BY <1>1 DEF Turn, Cards, Message
<1>6. /\ turn' \in [Turns -> Turn]
      /\ \A s \in Turns \ {t} : turn'[s] = turn[s]
      /\ turn'[t].attempt = 0 /\ turn'[t].at \in {"idle", "card"}
      /\ TurnOk(t)'
  <2>1. CASE card = NoCard
    <3>1. turn' = [turn EXCEPT ![t] = Idle]
      BY <2>1 DEF Answers
    <3>2. turn'[t] = Idle /\ \A f \in Rules : mentions'[f] \in Nat
      BY <1>3, <3>1 DEF IInv, Types, TypeOK
    <3>3. TurnOk(t)' /\ Idle \in Turn'
      BY <3>2, IdleIsOk
    <3> QED
      BY <1>5, <3>1, <3>2, <3>3 DEF Idle, IInv, Types, TypeOK
  <2>2. CASE card # NoCard
    <3>1. turn' = [turn EXCEPT ![t] = u] /\ turn[t] \in Turn
      BY <2>2 DEF Answers, IInv, Types, TypeOK
    <3>2. u \in Turn
      BY <2>2, <3>1 DEF Turn, Stages
    <3>3. turn'[t] = u
      BY <3>1 DEF IInv, Types, TypeOK
    <3>4. /\ u.at = "card" /\ u.attempt = 0 /\ u.said = message /\ u.card = card
          /\ u.heard = turn[t].heard /\ u.saw = turn[t].saw /\ u.prior = turn[t].prior
      BY <3>1 DEF Turn
    <3> HIDE DEF u
    <3>5. Knows(t)'
      BY <1>1, <1>5, <3>3, <3>4 DEF IInv, TurnOk, Knows, Past, AtLeast, Alone
    <3>6. Heard(t)'
      <4>1. \A f \in Rules : turn[t].heard.mentions[f] \in Nat /\ turn[t].heard.mentions[f] <= mentions[f]
        BY TurnFacts DEF IInv, TurnOk, Heard
      <4> QED
        BY <1>2, <1>3, <3>3, <3>4, <4>1 DEF Heard
    <3>7. Quieted(t)'
      BY <2>2, <3>3, <3>4 DEF Quieted
    <3>8. Meant(t)'
      BY <1>1, <1>2, <1>3, <1>5, <2>2, <3>3, <3>4 DEF Meant, AtLeast
    <3> QED
      BY <3>1, <3>2, <3>3, <3>4, <3>5, <3>6, <3>7, <3>8 DEF TurnOk, IInv, Types, TypeOK
  <2> QED
    BY <2>1, <2>2
<1>7. Types'
  <2>1. clarified' \in Nat
    BY DEF IInv, Types, TypeOK
  <2>2. \A s \in Turns : turn'[s].attempt <= Reminders(turn'[s].at)
    BY <1>6 DEF Reminders, IInv, Types, TypeOK
  <2> QED
    BY <1>1, <1>3, <1>5, <1>6, <2>1, <2>2 DEF IInv, Types, TypeOK
<1>8. ASSUME NEW s \in Turns PROVE TurnOk(s)'
  <2>1. CASE s = t
    BY <2>1, <1>6
  <2>2. CASE s # t
    BY <2>2, <1>1, <1>4, <1>6, OthersKeep DEF IInv
  <2> QED
    BY <2>1, <2>2
<1>9. ASSUME NEW f \in Rules
      PROVE  /\ forced'[f] <= mentions'[f]
             /\ mentions'[f] >= ASK_LIMIT =>
                    forced'[f] + Cardinality(Stale(f)') <= ASK_LIMIT - 1 + Cardinality(Turns)
  <2>1. forced[f] <= mentions[f] /\ forced[f] \in Nat /\ mentions[f] \in Nat
    BY <1>2 DEF IInv, Asked
  <2>2. \/ forced'[f] = forced[f]
        \/ forced'[f] = forced[f] + 1 /\ f \in message.about /\ turn[t].heard.mentions[f] < ASK_LIMIT
    BY <1>2
  <2>3. Stale(f)' \in SUBSET Stale(f) /\ Stale(f)' \in SUBSET Turns /\ t \notin Stale(f)'
    BY <1>6 DEF Stale
  <2>4. /\ Cardinality(Stale(f)') \in Nat /\ Cardinality(Stale(f)) \in Nat /\ Cardinality(Turns) \in Nat
        /\ Cardinality(Stale(f)') <= Cardinality(Stale(f))
        /\ Cardinality(Stale(f)') + 1 <= Cardinality(Turns)
        /\ t \in Stale(f) => Cardinality(Stale(f)') + 1 <= Cardinality(Stale(f))
    BY <2>3, StaleCounts
  <2>5. turn[t].heard.mentions[f] < ASK_LIMIT => t \in Stale(f)
    BY DEF Stale
  <2>6. mentions[f] >= ASK_LIMIT => forced[f] + Cardinality(Stale(f)) <= ASK_LIMIT - 1 + Cardinality(Turns)
    BY DEF IInv, Asked
  <2>7. CASE mentions[f] >= ASK_LIMIT
    BY <1>2, <1>3, <2>1, <2>2, <2>4, <2>5, <2>6, <2>7
  <2>8. CASE mentions[f] < ASK_LIMIT
    BY <1>2, <1>3, <2>1, <2>2, <2>4, <2>8
  <2> QED
    BY <1>2, <2>1, <2>7, <2>8
<1>10. Asked'
  BY <1>9 DEF Asked
<1>11. NothingIsLost' /\ InTurn'
  BY <1>1 DEF IInv, NothingIsLost, Knew, AtLeast, InTurn, Alone
<1>12. Lacking'
  BY <1>1, <1>2, <1>3 DEF IInv, Lacking
<1> QED
  BY <1>7, <1>8, <1>10, <1>11, <1>12 DEF IInv

LEMMA TalkIsBadKeeps == ASSUME IInv, NEW t \in Turns, TalkIsBad(t) PROVE IInv'
<1>1. turn[t].at = "talk"
  BY DEF TalkIsBad
<1>2. CASE Retry(t, REMINDERS)
  BY <1>1, <1>2, RetryKeeps
<1>3. CASE Answers(t, SOFT_FALLBACK_MESSAGE, NoCard) /\ UNCHANGED <<clarified, forced>>
  <2>1. SOFT_FALLBACK_MESSAGE.about \subseteq Rules
    BY DEF SOFT_FALLBACK_MESSAGE
  <2> QED
    BY <1>1, <1>3, <2>1, AnswersKeep
<1> QED
  BY <1>2, <1>3 DEF TalkIsBad

(* What a message mentions are required fields.                            *)
LEMMA MessageFacts ==
    ASSUME NEW message \in Message
    PROVE  message.about \subseteq Rules /\ message.asks \in BOOLEAN
BY DEF Message

(* A section is closed over a message that asks nothing.                   *)
LEMMA ClosedQuietly ==
    ASSUME NEW t, NEW done, NEW phrase, NEW message \in Message, NEW rest \in SUBSET message.about,
           Closes(t, done, message, phrase)
    PROVE  LET said == IF turn[t].closing THEN Sanitized(message, rest) ELSE message
           IN  said \in Message /\ ~said.asks
<1>1. message.asks => turn[t].closing
  BY DEF Closes
<1>2. message.asks \in BOOLEAN
  BY MessageFacts
<1>3. Sanitized(message, rest) \in Message /\ ~Sanitized(message, rest).asks
  <2>1. CASE message.asks
    BY <2>1 DEF Sanitized, Message
  <2>2. CASE ~message.asks
    BY <2>2 DEF Sanitized
  <2> QED
    BY <2>1, <2>2
<1> QED
  BY <1>1, <1>3

LEMMA TalkIsGoodKeeps == ASSUME IInv, NEW t \in Turns, TalkIsGood(t) PROVE IInv'
<1>1. PICK done \in BOOLEAN, phrase \in ClosingPhrase, message \in Message, rest \in SUBSET Rules :
        /\ rest \subseteq message.about
        /\ \/ /\ Closes(t, done, message, phrase)
              /\ turn' = [turn EXCEPT ![t].at = "extract", ![t].attempt = 0,
                            ![t].said = IF turn[t].closing THEN Sanitized(message, rest) ELSE message]
              /\ UNCHANGED <<section, analysis, users, mentions, cards>>
           \/ ~Closes(t, done, message, phrase) /\ Answers(t, message, NoCard)
  BY DEF TalkIsGood
<1>2. turn[t].at = "talk" /\ turn[t] \in Turn /\ UNCHANGED <<clarified, forced>>
  BY DEF TalkIsGood, IInv, Types, TypeOK
<1>3. CASE Closes(t, done, message, phrase)
  <2> DEFINE said == IF turn[t].closing THEN Sanitized(message, rest) ELSE message
             u == [turn[t] EXCEPT !.at = "extract", !.attempt = 0, !.said = said]
  <2>1. said \in Message /\ ~said.asks
    BY <1>1, <1>3, ClosedQuietly
  <2>2. /\ turn' = [turn EXCEPT ![t].at = "extract", ![t].attempt = 0, ![t].said = said]
        /\ UNCHANGED <<section, analysis, users, mentions, cards>>
    BY <1>1, <1>3
  <2> HIDE DEF said
  <2>3. turn' = [turn EXCEPT ![t] = u]
    BY <1>2, <2>2 DEF IInv, Types, TypeOK
  <2>4. u \in Turn
    BY <1>2, <2>1 DEF Turn, Stages
  <2>5. /\ u.at = "extract" /\ u.attempt = 0 /\ u.said = said
        /\ u.heard = turn[t].heard /\ u.saw = turn[t].saw /\ u.prior = turn[t].prior
    BY <1>2 DEF Turn
  <2>6. u.attempt <= Reminders(u.at) /\ users' \in 0 .. MaxTurns
    BY <2>2, <2>5, SectionReplyAssumption DEF Reminders, IInv, Types, TypeOK
  <2> HIDE DEF u
  <2> QED
    BY <1>2, <2>1, <2>2, <2>3, <2>4, <2>5, <2>6, CallKeeps
<1>4. CASE ~Closes(t, done, message, phrase)
  BY <1>1, <1>2, <1>4, MessageFacts, AnswersKeep
<1> QED
  BY <1>3, <1>4

LEMMA TalkSwitchesKeeps == ASSUME IInv, NEW t \in Turns, TalkSwitches(t) PROVE IInv'
<1>1. PICK message \in Message : Answers(t, message, NoCard)
  BY DEF TalkSwitches
<1> QED
  BY <1>1, MessageFacts, AnswersKeep DEF TalkSwitches

-----------------------------------------------------------------------------
(* The outcome of the extraction: one of three answers.                    *)
LEMMA FirstIsUnmet ==
    ASSUME NEW F \in SUBSET Rules, F # {}
    PROVE  First(F) \in F
<1> DEFINE P(i) == Required[i] \in F /\ \A j \in 1 .. i - 1 : Required[j] \notin F
<1>1. \E i \in DOMAIN Required : P(i)
  <2>1. CASE "title" \in F
    <3>1. P(1)
      BY <2>1, RuleTypes
    <3> QED
      BY <3>1, RuleTypes
  <2>2. CASE "title" \notin F
    <3>1. "contact" \in F
      BY <2>2, RuleTypes
    <3>2. \A j \in 1 .. 2 - 1 : j = 1
      OBVIOUS
    <3>3. P(2)
      BY <2>2, <3>1, <3>2, RuleTypes
    <3> QED
      BY <3>3, RuleTypes
  <2> QED
    BY <2>1, <2>2
<1>2. P(CHOOSE i \in DOMAIN Required : P(i))
  BY <1>1
<1> QED
  BY <1>2 DEF First

LEMMA ConcludesKeeps ==
    ASSUME IInv, NEW t \in Turns, turn[t].at \in {"extract", "recheck"},
           NEW kind, NEW extracted, Outcome(kind, extracted), Concludes(t, kind, extracted),
           kind = "card" /\ extracted = {} => turn[t].heard.users = 0
    PROVE  IInv'
<1> DEFINE heard == turn[t].heard
           card  == Kept(turn[t].prior, kind, extracted)
           unmet == Unmet(card, heard)
<1>1. turn[t].prior \in Cards \cup {NoCard} /\ section \in Object \cup Array
  BY TurnFacts DEF IInv, Types
<1>2. /\ card \in Cards \cup {NoCard}
      /\ card # NoCard /\ turn[t].prior # NoCard => AtLeast(turn[t].prior, card)
      /\ card = {} => section \in SECTIONS_ALLOWED_EMPTY \/ heard.users = 0
  BY <1>1, KeptHoldsPrior
<1>3. \/ /\ Answers(t, Clarifying(heard), NoCard)
         /\ clarified' = clarified + 1
         /\ UNCHANGED forced
      \/ /\ unmet # {}
         /\ Answers(t, [asks |-> TRUE, about |-> {First(unmet)}], NoCard)
         /\ forced' = [forced EXCEPT ![First(unmet)] = @ + 1]
         /\ UNCHANGED clarified
      \/ /\ card # NoCard /\ unmet = {}
         /\ Answers(t, turn[t].said, card)
         /\ UNCHANGED <<clarified, forced>>
  BY DEF Concludes
<1>4. unmet \subseteq Rules /\ \A f \in unmet : heard.mentions[f] < ASK_LIMIT
  BY DEF Unmet
<1>5. section = "basic" => \A f \in Rules :
            FieldsOf[f] \cap card = {} /\ f \notin unmet => ~(heard.mentions[f] < ASK_LIMIT)
  BY DEF Unmet
<1> HIDE DEF card, unmet
<1>6. CASE Answers(t, Clarifying(heard), NoCard) /\ clarified' = clarified + 1 /\ UNCHANGED forced
  <2>1. Clarifying(heard).about \subseteq Rules
    BY RuleTypes DEF Clarifying
  <2> QED
    BY <1>6, <2>1, AnswersKeep
<1>7. CASE /\ unmet # {}
           /\ Answers(t, [asks |-> TRUE, about |-> {First(unmet)}], NoCard)
           /\ forced' = [forced EXCEPT ![First(unmet)] = @ + 1]
           /\ UNCHANGED clarified
  <2> DEFINE f == First(unmet)
             message == [asks |-> TRUE, about |-> {f}]
  <2>1. f \in unmet
    BY <1>4, <1>7, FirstIsUnmet
  <2>2. f \in Rules /\ turn[t].heard.mentions[f] < ASK_LIMIT
    BY <1>4, <2>1
  <2>3. message.about \subseteq Rules /\ f \in message.about
    BY <2>2
  <2>4. Answers(t, message, NoCard) /\ forced' = [forced EXCEPT ![f] = @ + 1] /\ clarified' = clarified
    BY <1>7
  <2> HIDE DEF f, message
  <2> QED
    BY <2>2, <2>3, <2>4, AnswersKeep
<1>8. CASE card # NoCard /\ unmet = {} /\ Answers(t, turn[t].said, card) /\ UNCHANGED <<clarified, forced>>
  <2>1. turn[t].said \in Message /\ ~turn[t].said.asks /\ turn[t].said.about \subseteq Rules
    BY TurnFacts, MessageFacts DEF IInv, TurnOk, Quieted
  <2>2. ASSUME section = "basic", NEW f \in Rules, FieldsOf[f] \cap card = {}
        PROVE  mentions[f] > 0
    <3>1. ~(heard.mentions[f] < ASK_LIMIT)
      BY <1>5, <1>8, <2>2
    <3>2. heard.mentions[f] \in Nat /\ heard.mentions[f] <= mentions[f] /\ mentions[f] \in Nat
      BY TurnFacts DEF IInv, TurnOk, Heard, Types, TypeOK
    <3> QED
      BY <3>1, <3>2, SectionReplyAssumption
  <2> QED
    BY <1>2, <1>8, <2>1, <2>2, AnswersKeep
<1> QED
  BY <1>3, <1>6, <1>7, <1>8

LEMMA ExtractIsBadKeeps == ASSUME IInv, NEW t \in Turns, ExtractIsBad(t) PROVE IInv'
<1>1. CASE Retry(t, EXTRACT_REMINDERS)
  BY <1>1, RetryKeeps DEF ExtractIsBad
<1>2. CASE Concludes(t, "failed", NoCard)
  BY <1>2, ConcludesKeeps DEF Outcome, ExtractIsBad
<1> QED
  BY <1>1, <1>2 DEF ExtractIsBad

LEMMA ExtractIsGoodKeeps == ASSUME IInv, NEW t \in Turns, ExtractIsGood(t) PROVE IInv'
<1>1. turn[t].at = "extract" /\ turn[t] \in Turn
  BY DEF ExtractIsGood, IInv, Types, TypeOK
<1>2. PICK card \in Cards :
        \/ /\ WorthRechecking(card, turn[t].heard)
           /\ turn' = [turn EXCEPT ![t].at = "recheck", ![t].attempt = 0]
           /\ UNCHANGED <<section, analysis, users, clarified, mentions, cards, forced>>
        \/ ~WorthRechecking(card, turn[t].heard) /\ Concludes(t, "card", card)
  BY DEF ExtractIsGood
<1>3. CASE WorthRechecking(card, turn[t].heard)
  <2> DEFINE u == [turn[t] EXCEPT !.at = "recheck", !.attempt = 0]
  <2>1. turn' = [turn EXCEPT ![t] = u]
        /\ UNCHANGED <<section, analysis, users, clarified, mentions, cards, forced>>
    BY <1>1, <1>2, <1>3 DEF IInv, Types, TypeOK
  <2>2. u \in Turn
    BY <1>1 DEF Turn, Stages
  <2>3. /\ u.at = "recheck" /\ u.attempt = 0 /\ u.said = turn[t].said
        /\ u.heard = turn[t].heard /\ u.saw = turn[t].saw /\ u.prior = turn[t].prior
    BY <1>1 DEF Turn
  <2>4. u.attempt <= Reminders(u.at) /\ users' \in 0 .. MaxTurns
    BY <2>1, <2>3 DEF Reminders, IInv, Types, TypeOK
  <2>5. ~u.said.asks
    BY <1>1, <2>3 DEF IInv, TurnOk, Quieted
  <2> HIDE DEF u
  <2> QED
    BY <1>1, <2>1, <2>2, <2>3, <2>4, <2>5, CallKeeps
<1>4. CASE ~WorthRechecking(card, turn[t].heard)
  <2>1. card = {} => turn[t].heard.users = 0
    BY <1>4, TurnFacts DEF WorthRechecking, IInv
  <2> QED
    BY <1>1, <1>2, <1>4, <2>1, ConcludesKeeps DEF Outcome
<1> QED
  BY <1>3, <1>4

LEMMA RecheckKeeps == ASSUME IInv, NEW t \in Turns, Recheck(t) PROVE IInv'
<1>1. PICK kind \in {"card", "failed", "empty"}, extracted \in Cards \cup {NoCard} :
        /\ Outcome(kind, extracted) /\ Concludes(t, kind, extracted)
        /\ ~(kind = "card" /\ extracted = {})
  BY DEF Recheck, Outcome
<1> QED
  BY <1>1, ConcludesKeeps DEF Recheck

-----------------------------------------------------------------------------
(* The invariant holds at the start and is kept by every step.             *)
LEMMA InitIsSound == Init => IInv
<1> SUFFICES ASSUME Init
             PROVE  IInv
  OBVIOUS
<1>1. /\ cards = <<>> /\ DOMAIN cards = {} /\ Len(cards) = 0
      /\ cards \in Seq([holds : Cards, saw : Nat]) /\ section \in Object \cup Array
  BY DEF Init
<1>2. /\ mentions \in [Rules -> Nat] /\ forced \in [Rules -> Nat]
      /\ \A f \in Rules : forced[f] = 0 /\ mentions[f] >= 0
  BY DEF Init
<1>3. \A t \in Turns : turn[t] = Idle
  BY DEF Init
<1>4. Nothing \in History /\ Quiet \in Message
  BY RuleTypes DEF Nothing, History, Quiet, Message
<1>5. Idle \in Turn /\ Idle.at = "idle" /\ Idle.attempt = 0 /\ Idle.heard = Nothing
  BY <1>4 DEF Idle, Turn, Stages
<1>6. Types
  <2>1. users \in 0 .. MaxTurns /\ clarified \in Nat /\ analysis \in Cards \cup {NoCard}
    BY SectionReplyAssumption DEF Init
  <2>2. turn \in [Turns -> Turn] /\ \A t \in Turns : turn[t].attempt <= Reminders(turn[t].at)
    BY <1>3, <1>5 DEF Init, Reminders
  <2> QED
    BY <1>1, <1>2, <2>1, <2>2 DEF Types, TypeOK
<1>7. \A t \in Turns : TurnOk(t)
  BY <1>2, <1>3, <1>5 DEF TurnOk, Knows, Past, Heard, Quieted, Meant, Nothing
<1>8. NothingIsLost /\ Lacking /\ InTurn
  BY <1>1 DEF NothingIsLost, Lacking, InTurn
<1>9. Asked
  <2>1. ASSUME NEW f \in Rules
        PROVE  Cardinality(Stale(f)) = 0 /\ Cardinality(Turns) \in Nat
    <3>1. Stale(f) = {}
      BY <1>3, <1>5 DEF Stale
    <3> QED
      BY <3>1, FS_EmptySet, StaleCounts
  <2> QED
    BY <1>2, <2>1, SectionReplyAssumption DEF Asked
<1> QED
  BY <1>6, <1>7, <1>8, <1>9 DEF IInv

LEMMA StutterKeeps == IInv /\ UNCHANGED vars => IInv'
<1> SUFFICES ASSUME IInv, UNCHANGED vars
             PROVE  IInv'
  OBVIOUS
<1>1. Grows /\ cards' = cards /\ turn' = turn
  BY CardsFacts DEF IInv, Grows, Types, TypeOK, vars
<1>2. Types'
  <2>1. Cards' = Cards /\ Turn' = Turn
    BY DEF Cards, Turn, Message, vars
  <2> QED
    BY <2>1 DEF IInv, Types, TypeOK, vars
<1>3. \A t \in Turns : TurnOk(t)'
  BY <1>1, OthersKeep DEF IInv
<1>4. Asked' /\ NothingIsLost' /\ Lacking' /\ InTurn'
  BY DEF IInv, Asked, Stale, NothingIsLost, Knew, AtLeast, Lacking, InTurn, Alone, vars
<1> QED
  BY <1>2, <1>3, <1>4 DEF IInv

LEMMA StepKeeps == IInv /\ [Next]_vars => IInv'
<1>1. ASSUME IInv, NEW t \in Turns, Step(t)
      PROVE  IInv'
  BY <1>1, ReadHistoryKeeps, ReadBestCardKeeps, UserSaysKeeps, TalkIsBadKeeps, TalkIsGoodKeeps,
     TalkSwitchesKeeps, ExtractIsBadKeeps, ExtractIsGoodKeeps, RecheckKeeps, StoreCardKeeps,
     BreaksKeeps DEF Step
<1> QED
  BY <1>1, AnalysisGoesKeeps, StutterKeeps DEF Next

LEMMA InvariantHolds == Spec => []IInv
BY InitIsSound, StepKeeps, PTL DEF Spec

-----------------------------------------------------------------------------
(* The variables have their types, and no call is made without a reminder  *)
(* left for it (completeWithRetries).                                      *)
THEOREM TypeCorrect == Spec => []TypeOK
<1>1. IInv => TypeOK
  BY DEF IInv, Types
<1> QED
  BY <1>1, InvariantHolds, PTL

(* Whatever the model wrote and however the section was closed, no turn    *)
(* puts a card beside its question (section-reply.service.ts:218-225).     *)
THEOREM CardsAskNothing == Spec => []NoQuestionBesideCard
<1>1. IInv => NoQuestionBesideCard
  BY DEF IInv, TurnOk, Quieted, NoQuestionBesideCard
<1> QED
  BY <1>1, InvariantHolds, PTL

(* However the extraction fails or forgets and however the turns overlap,  *)
(* no card holds less than an earlier one its turn knew of, or than the    *)
(* upload's analysis (lines 481-487).                                      *)
THEOREM KnownCardsStay == Spec => []NothingIsLost
<1>1. IInv => NothingIsLost
  BY DEF IInv
<1> QED
  BY <1>1, InvariantHolds, PTL

(* While a section's messages come one at a time, no card of it holds less *)
(* than any earlier one.                                                   *)
THEOREM AloneNoCardShrinks ==
    ASSUME \A s, t \in Turns : s = t
    PROVE  Spec => []NoCardShrinks
<1>0. Alone
  BY DEF Alone
<1>1. ASSUME IInv
      PROVE  NoCardShrinks
  <2>1. Len(cards) \in Nat /\ DOMAIN cards = 1 .. Len(cards)
    BY <1>1, CardsFacts DEF IInv
  <2>2. ASSUME NEW i \in DOMAIN cards, NEW j \in DOMAIN cards, i < j
        PROVE  AtLeast(cards[i].holds, cards[j].holds)
    <3>1. ASSUME NEW k \in i + 1 .. j
          PROVE  cards[k].saw >= i
      <4>1. k \in DOMAIN cards
        BY <2>1, <2>2
      <4>2. cards[k].saw = k - 1
        BY <1>0, <1>1, <4>1 DEF IInv, InTurn
      <4> QED
        BY <2>1, <4>2
    <3>2. Knew(j, i)
      <4>1. j \in i + 1 .. j
        BY <2>1, <2>2
      <4> QED
        BY <3>1, <4>1 DEF Knew
    <3> QED
      BY <1>1, <2>2, <3>2 DEF IInv, NothingIsLost
  <2> QED
    BY <2>2 DEF NoCardShrinks
<1>2. IInv => NoCardShrinks
  BY <1>1
<1> QED
  BY <1>2, InvariantHolds, PTL

(* The basics never close without title or contact unless it was asked     *)
(* for, and no question is forced more often than the limit and once for   *)
(* each further turn in flight (124-145).                                  *)
THEOREM FieldsAreAskedFor == Spec => []AskedOnceBeforeClose
<1>1. IInv => AskedOnceBeforeClose
  <2> SUFFICES ASSUME IInv
               PROVE  AskedOnceBeforeClose
    OBVIOUS
  <2>1. ASSUME NEW f \in Rules
        PROVE  forced[f] <= ASK_LIMIT - 1 + Cardinality(Turns)
    <3>1. forced[f] \in Nat /\ mentions[f] \in Nat /\ forced[f] <= mentions[f] /\ ASK_LIMIT \in Nat
      BY SectionReplyAssumption DEF IInv, Types, TypeOK, Asked
    <3>2. Cardinality(Stale(f)) \in Nat /\ Cardinality(Turns) \in Nat
      BY StaleCounts
    <3>3. mentions[f] >= ASK_LIMIT =>
             forced[f] + Cardinality(Stale(f)) <= ASK_LIMIT - 1 + Cardinality(Turns)
      BY DEF IInv, Asked
    <3> QED
      BY <3>1, <3>2, <3>3
  <2> QED
    BY <2>1 DEF AskedOnceBeforeClose, IInv, Lacking
<1> QED
  BY <1>1, InvariantHolds, PTL

(* Which steps add a clarifying question: the end of an extraction that    *)
(* left nothing to show.                                                   *)
LEMMA OnlyConcluding ==
    ASSUME IInv, NEW t \in Turns, Step(t), clarified' # clarified
    PROVE  /\ turn[t].at \in {"extract", "recheck"}
           /\ ~HasEntries(turn[t].prior)
<1>1. \E kind \in {"card", "failed", "empty"}, extracted \in Cards \cup {NoCard} :
        Outcome(kind, extracted) /\ Concludes(t, kind, extracted) /\ turn[t].at \in {"extract", "recheck"}
  <2>1. ExtractIsBad(t) \/ ExtractIsGood(t) \/ Recheck(t)
    BY DEF Step, ReadHistory, ReadBestCard, UserSays, TalkIsBad, Retry, TalkIsGood, TalkSwitches,
           StoreCard, Breaks
  <2>2. CASE ExtractIsBad(t)
    BY <2>2 DEF ExtractIsBad, Retry, Outcome
  <2>3. CASE ExtractIsGood(t)
    BY <2>3 DEF ExtractIsGood, Outcome
  <2>4. CASE Recheck(t)
    BY <2>4 DEF Recheck, Outcome
  <2> QED
    BY <2>1, <2>2, <2>3, <2>4
<1>2. PICK kind \in {"card", "failed", "empty"}, extracted \in Cards \cup {NoCard} :
        Outcome(kind, extracted) /\ Concludes(t, kind, extracted) /\ turn[t].at \in {"extract", "recheck"}
  BY <1>1
<1>3. Kept(turn[t].prior, kind, extracted) = NoCard
  BY <1>2 DEF Concludes
<1>4. turn[t].prior \in Cards \cup {NoCard} /\ section \in Object \cup Array
  BY TurnFacts DEF IInv, Types
<1> QED
  BY <1>2, <1>3, <1>4, KeptHoldsPrior

(* The step is of the turn it moves.                                       *)
LEMMA StepIsOfTurn ==
    ASSUME IInv, NEW s \in Turns, NEW t \in Turns, Step(s), turn'[t] # turn[t]
    PROVE  s = t
<1> SUFFICES ASSUME s # t
             PROVE  turn'[t] = turn[t]
  OBVIOUS
<1>1. turn \in [Turns -> Turn]
  BY DEF IInv, Types, TypeOK
<1>2. CASE ReadHistory(s) \/ ReadBestCard(s) \/ StoreCard(s) \/ Breaks(s)
  BY <1>1, <1>2 DEF ReadHistory, ReadBestCard, StoreCard, Breaks
<1>3. CASE UserSays(s)
  BY <1>1, <1>3 DEF UserSays
<1>4. ASSUME NEW reminders, Retry(s, reminders)
      PROVE  turn'[t] = turn[t]
  BY <1>1, <1>4 DEF Retry
<1>5. ASSUME NEW message, NEW card, Answers(s, message, card)
      PROVE  turn'[t] = turn[t]
  BY <1>1, <1>5 DEF Answers
<1>6. ASSUME NEW kind, NEW extracted, Concludes(s, kind, extracted)
      PROVE  turn'[t] = turn[t]
  BY <1>5, <1>6 DEF Concludes
<1>7. CASE TalkIsBad(s) \/ TalkSwitches(s)
  BY <1>4, <1>5, <1>7 DEF TalkIsBad, TalkSwitches
<1>8. CASE TalkIsGood(s)
  BY <1>1, <1>5, <1>8 DEF TalkIsGood
<1>9. CASE ExtractIsBad(s) \/ Recheck(s)
  BY <1>4, <1>6, <1>9 DEF ExtractIsBad, Recheck
<1>10. CASE ExtractIsGood(s)
  BY <1>1, <1>6, <1>10 DEF ExtractIsGood
<1> QED
  BY <1>2, <1>3, <1>7, <1>8, <1>9, <1>10 DEF Step

(* A turn that read entries, in a card or in the upload's analysis, never  *)
(* asks for them again (lines 456-466 and 481-493).                        *)
THEOREM EntriesAreNotAskedAgain == Spec => NeverAsksAgain
<1>1. ASSUME IInv, [Next]_vars, NEW t \in Turns, clarified' # clarified, turn'[t] # turn[t]
      PROVE  /\ \A i \in 1 .. turn[t].saw : ~HasEntries(cards[i].holds)
             /\ turn[t].saw = 0 => ~HasEntries(analysis)
  <2>1. PICK s \in Turns : Step(s)
    BY <1>1 DEF Next, AnalysisGoes, vars
  <2>2. turn[t].at \in {"extract", "recheck"} /\ ~HasEntries(turn[t].prior)
    BY <1>1, <2>1, StepIsOfTurn, OnlyConcluding
  <2>3. Knows(t) /\ Past(t) /\ Types
    BY <1>1, <2>2 DEF IInv, TurnOk, Past
  <2>4. section \in Object \cup Array
    BY <2>3 DEF Types
  <2>5. ASSUME NEW i \in 1 .. turn[t].saw
        PROVE  ~HasEntries(cards[i].holds)
    <3>1. turn[t].saw > 0 /\ turn[t].saw \in 0 .. Len(cards) /\ turn[t].prior \in Cards
      BY <2>3 DEF Knows
    <3>2. cards[i].holds \in Cards
      BY <2>3, <3>1, CardsFacts
    <3>3. CASE section \in Object
      BY <2>2, <3>1, <3>3, <2>4, CardFacts DEF HasEntries
    <3>4. CASE section \notin Object
      <4>1. AtLeast(cards[i].holds, turn[t].prior)
        BY <2>3, <3>1, <3>4 DEF Knows
      <4> QED
        BY <2>2, <2>4, <3>1, <3>2, <4>1, EntriesStay
    <3> QED
      BY <3>3, <3>4
  <2>6. ~HasEntries(analysis)
    <3>1. CASE analysis = NoCard
      BY <3>1 DEF HasEntries
    <3>2. CASE analysis # NoCard
      <4>1. analysis \in Cards /\ turn[t].prior \in Cards /\ AtLeast(analysis, turn[t].prior)
        BY <2>3, <3>2 DEF Knows, Types, TypeOK
      <4> QED
        BY <2>2, <2>4, <4>1, EntriesStay
    <3> QED
      BY <3>1, <3>2
  <2> QED
    BY <2>5, <2>6
<1>2. IInv /\ [Next]_vars =>
        [\A t \in Turns : clarified' # clarified /\ turn'[t] # turn[t] =>
            /\ \A i \in 1 .. turn[t].saw : ~HasEntries(cards[i].holds)
            /\ turn[t].saw = 0 => ~HasEntries(analysis)]_vars
  BY <1>1
<1> QED
  BY <1>2, InvariantHolds, PTL DEF Spec, NeverAsksAgain

(* An empty list is stored only where a section may be empty, or by a turn *)
(* that read no earlier word of the user (lines 65-70 and 564-568).        *)
THEOREM EmptyIsMeant == Spec => EmptyCardIsMeant
<1>1. ASSUME IInv, [Next]_vars, NEW t \in Turns, cards' # cards, turn'[t] # turn[t], turn[t].card = {}
      PROVE  section \in SECTIONS_ALLOWED_EMPTY \/ turn[t].heard.users = 0
  <2>1. PICK s \in Turns : Step(s)
    BY <1>1 DEF Next, AnalysisGoes, vars
  <2>2. Step(t)
    BY <1>1, <2>1, StepIsOfTurn
  <2>3. StoreCard(t)
    BY <1>1, <2>2 DEF Step, ReadHistory, ReadBestCard, UserSays, TalkIsBad, Retry, TalkIsGood, TalkSwitches,
           ExtractIsBad, ExtractIsGood, Recheck, Concludes, Answers, Breaks
  <2> QED
    BY <1>1, <2>3 DEF StoreCard, IInv, TurnOk, Meant
<1>2. IInv /\ [Next]_vars =>
        [\A t \in Turns : cards' # cards /\ turn'[t] # turn[t] /\ turn[t].card = {} =>
            section \in SECTIONS_ALLOWED_EMPTY \/ turn[t].heard.users = 0]_vars
  BY <1>1
<1> QED
  BY <1>2, InvariantHolds, PTL DEF Spec, EmptyCardIsMeant
=============================================================================
