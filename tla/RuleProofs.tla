------------------------------ MODULE RuleProofs ------------------------------
(***************************************************************************)
(* Theorems about the pure rules: Tailoring, Explaining, MatchCards,       *)
(* Candidates, Listings, Ranking, ReasonGuard and SentCv.                  *)
(***************************************************************************)
EXTENDS Tailoring, Explaining, MatchCards, Candidates, WellFoundedInduction,
        FiniteSetTheorems, SequenceTheorems, TLAPS

F == INSTANCE Listings
K == INSTANCE Ranking
G == INSTANCE ReasonGuard
V == INSTANCE SentCv

-----------------------------------------------------------------------------
(* A set of naturals that is not empty has a least element.                *)
LEMMA LeastExists ==
    ASSUME NEW S, S \subseteq Nat, S # {}
    PROVE  \E k \in S : \A m \in S : k <= m
<1>1. IsWellFoundedOn(OpToRel(<, Nat), Nat)
  BY NatLessThanWellFounded
<1>2. PICK k \in S : \A m \in S : <<m, k>> \notin OpToRel(<, Nat)
  BY <1>1, WFMin
<1>3. ASSUME NEW m \in S PROVE k <= m
  <2>1. <<m, k>> \notin OpToRel(<, Nat)
    BY <1>2
  <2>2. m \in Nat /\ k \in Nat
    OBVIOUS
  <2>3. <<m, k>> \in Nat \X Nat
    BY <2>2
  <2>4. ~(m < k)
    BY <2>1, <2>3 DEF OpToRel
  <2> QED
    BY <2>2, <2>4
<1> QED
  BY <1>3

(* What the CHOOSE of Least is.                                            *)
LEMMA LeastIs ==
    ASSUME NEW S, S \subseteq Nat, S # {}
    PROVE  Least(S) \in S /\ \A m \in S : Least(S) <= m
BY LeastExists DEF Least

-----------------------------------------------------------------------------
(* MatchCards.                                                             *)

LEMMA SameJobIsEquivalence ==
    ASSUME NEW found,
           NEW i \in DOMAIN found, NEW k \in DOMAIN found, NEW m \in DOMAIN found
    PROVE  /\ SameJob(found, i, i)
           /\ SameJob(found, i, k) => SameJob(found, k, i)
           /\ SameJob(found, i, k) /\ SameJob(found, k, m) => SameJob(found, i, m)
BY DEF SameJob

LEMMA MembersOfSameJob ==
    ASSUME NEW found, NEW i \in DOMAIN found, NEW k \in DOMAIN found, SameJob(found, i, k)
    PROVE  Members(found, i) = Members(found, k)
BY SameJobIsEquivalence, Zenon DEF Members

LEMMA CardIsMember ==
    ASSUME NEW S, NEW found \in Seq(S), NEW applied, NEW i \in DOMAIN found
    PROVE  LET card == CardOf(found, applied, i)
           IN  /\ card \in Members(found, i)
               /\ (\E k \in Members(found, i) : found[k].id \in applied) => found[card].id \in applied
               /\ (\E k \in Members(found, i) : found[k].email)
                      => found[card].email \/ found[card].id \in applied
<1> DEFINE members == Members(found, i)
           chosen  == {k \in members : found[k].id \in applied}
           mailed  == {k \in members : found[k].email}
           pool    == IF chosen # {} THEN chosen ELSE IF mailed # {} THEN mailed ELSE members
<1>1. i \in members
  BY DEF Members, SameJob
<1>2. members \subseteq Nat
  BY DEF Members
<1>3. pool # {} /\ pool \subseteq members
  BY <1>1
<1>4. CardOf(found, applied, i) = Least(pool)
  BY DEF CardOf
<1> HIDE DEF pool
<1>5. Least(pool) \in pool
  BY <1>2, <1>3, LeastIs
<1>6. CASE chosen # {}
  BY <1>3, <1>4, <1>5, <1>6 DEF pool
<1>7. CASE chosen = {} /\ mailed # {}
  BY <1>3, <1>4, <1>5, <1>7 DEF pool
<1>8. CASE chosen = {} /\ mailed = {}
  BY <1>3, <1>4, <1>5, <1>8 DEF pool
<1> QED
  BY <1>6, <1>7, <1>8

(* collapseDuplicates shows every listing by one card of its own job.      *)
THEOREM CardsCover ==
    ASSUME NEW S, NEW found \in Seq(S), NEW applied
    PROVE  OneCardEach(found, applied)
<1> SUFFICES ASSUME NEW i \in DOMAIN found
             PROVE  \E card \in Cards(found, applied) :
                        /\ SameJob(found, i, card)
                        /\ \A other \in Cards(found, applied) :
                                SameJob(found, i, other) => other = card
  BY DEF OneCardEach
<1> DEFINE card == CardOf(found, applied, i)
<1>1. card \in Cards(found, applied)
  BY DEF Cards
<1>2. card \in DOMAIN found /\ SameJob(found, i, card)
  BY CardIsMember DEF Members
<1>3. ASSUME NEW other \in Cards(found, applied), SameJob(found, i, other)
      PROVE  other = card
  <2>1. PICK k \in DOMAIN found : other = CardOf(found, applied, k)
    BY DEF Cards
  <2>2. other \in DOMAIN found /\ SameJob(found, k, other)
    BY <2>1, CardIsMember DEF Members
  <2>3. SameJob(found, i, k)
    BY <1>3, <2>2, SameJobIsEquivalence
  <2>4. Members(found, i) = Members(found, k)
    BY <2>3, MembersOfSameJob
  <2> QED
    BY <2>1, <2>4 DEF CardOf
<1> QED
  BY <1>1, <1>2, <1>3

(* Collapsing hides neither an application nor a way to apply by email.    *)
THEOREM CardsHideNothing ==
    ASSUME NEW S, NEW found \in Seq(S), NEW applied
    PROVE  NothingHidden(found, applied)
<1> SUFFICES ASSUME NEW i \in DOMAIN found
             PROVE  LET card == CardOf(found, applied, i)
                    IN  /\ found[i].id \in applied => found[card].id \in applied
                        /\ found[i].email => found[card].email \/ found[card].id \in applied
  BY DEF NothingHidden
<1>1. i \in Members(found, i)
  BY DEF Members, SameJob
<1> QED
  BY <1>1, CardIsMember

(* A card keeps the place in the list of the best listing of its job and   *)
(* loses none of the places the job is posted for.                         *)
THEOREM CardsKeepPlaces ==
    ASSUME NEW S, NEW found \in Seq(S), NEW applied
    PROVE  PlacesKept(found, applied)
<1> SUFFICES ASSUME NEW i \in DOMAIN found
             PROVE  LET card == CardOf(found, applied, i)
                    IN  /\ PlaceInList(found, card) <= i
                        /\ SameJob(found, i, PlaceInList(found, card))
                        /\ found[i].place # Nowhere => found[i].place \in Places(found, card)
  BY DEF PlacesKept
<1> DEFINE card == CardOf(found, applied, i)
<1>1. card \in DOMAIN found /\ SameJob(found, i, card)
  BY CardIsMember DEF Members
<1>2. Members(found, card) = Members(found, i)
  BY <1>1, MembersOfSameJob
<1>3. i \in Members(found, i) /\ Members(found, i) \subseteq Nat
  BY DEF Members, SameJob
<1>4. /\ Least(Members(found, i)) \in Members(found, i)
      /\ Least(Members(found, i)) <= i
  BY <1>3, LeastIs
<1> QED
  BY <1>2, <1>3, <1>4 DEF PlaceInList, Places, Members

-----------------------------------------------------------------------------
(* Tailoring.                                                              *)

(* Of proposed bullets as of the CV's own: none claims what its entry does *)
(* not hold.                                                               *)
LEMMA BulletsClaimNothingNew ==
    ASSUME NEW cv, IsCv(cv), NEW reply, NEW e \in DOMAIN cv.entries
    PROVE  /\ Len(Bullets(cv, reply, e)) = Len(cv.entries[e].bullets)
           /\ \A i \in DOMAIN Bullets(cv, reply, e) :
                  Bullets(cv, reply, e)[i].claims \subseteq Source(cv.entries[e])
<1>1. CASE Accepts(cv, reply, e)
  BY <1>1 DEF Bullets, Accepts, Acceptable, IntroducesNewFacts
<1>2. CASE ~Accepts(cv, reply, e)
  <2>1. Bullets(cv, reply, e) = cv.entries[e].bullets
    BY <1>2 DEF Bullets
  <2>2. ASSUME NEW i \in DOMAIN cv.entries[e].bullets
        PROVE  cv.entries[e].bullets[i].claims \subseteq Source(cv.entries[e])
    <3>1. cv.entries[e].bullets[i].claims \subseteq cv.entries[e].bullets[i].holds
      BY DEF IsCv, IsBullet
    <3>2. cv.entries[e].bullets[i].holds \subseteq Source(cv.entries[e])
      BY DEF Source
    <3> QED
      BY <3>1, <3>2
  <2> QED
    BY <2>1, <2>2
<1> QED
  BY <1>1, <1>2

(* A finite set of numbers in order has each of them at one place.         *)
LEMMA InOrderIs ==
    ASSUME NEW S, S \subseteq Nat, IsFiniteSet(S)
    PROVE  /\ Cardinality(S) \in Nat
           /\ DOMAIN InOrder(S) = 1 .. Cardinality(S)
           /\ \A k \in DOMAIN InOrder(S) : InOrder(S)[k] \in S
           /\ \A i \in S : \E k \in DOMAIN InOrder(S) : InOrder(S)[k] = i
           /\ \A k, m \in DOMAIN InOrder(S) : k # m => InOrder(S)[k] # InOrder(S)[m]
<1> DEFINE N       == Cardinality(S)
           upTo(i) == {j \in S : j <= i}
           rank    == [i \in S |-> Cardinality(upTo(i))]
<1>1. N \in Nat /\ IsFiniteSet(1 .. N) /\ Cardinality(1 .. N) = N
  BY FS_CardinalityType, FS_Interval
<1>2. ASSUME NEW i \in S
      PROVE  /\ IsFiniteSet(upTo(i))
             /\ Cardinality(upTo(i)) \in 1 .. N
  <2>1. upTo(i) \in SUBSET S /\ i \in upTo(i)
    OBVIOUS
  <2>2. IsFiniteSet(upTo(i)) /\ Cardinality(upTo(i)) <= N
    BY <2>1, FS_Subset
  <2>3. Cardinality(upTo(i)) \in Nat /\ Cardinality(upTo(i)) # 0
    BY <2>1, <2>2, FS_CardinalityType, FS_EmptySet
  <2> QED
    BY <1>1, <2>2, <2>3
<1>3. ASSUME NEW i \in S, NEW j \in S, i < j
      PROVE  Cardinality(upTo(i)) # Cardinality(upTo(j))
  <2>1. i \in Nat /\ j \in Nat
    OBVIOUS
  <2>2. upTo(i) \in SUBSET upTo(j)
    <3> SUFFICES ASSUME NEW k \in S, k <= i PROVE k <= j
      OBVIOUS
    <3> QED
      BY <1>3, <2>1
  <2>3. j \in upTo(j) /\ j \notin upTo(i)
    BY <1>3, <2>1
  <2>4. upTo(i) # upTo(j)
    BY <2>3
  <2> HIDE DEF upTo
  <2> QED
    BY <1>2, <2>2, <2>4, FS_Subset
<1> HIDE DEF N, upTo
<1>4. \A i, j \in S : rank[i] = rank[j] => i = j
  BY <1>3
<1>5. rank \in Injection(S, 1 .. N)
  BY <1>2, <1>4 DEF Injection, IsInjective
<1>6. rank \in Surjection(S, 1 .. N)
  BY <1>1, <1>5, FS_Injection DEF N
<1>7. \A k \in 1 .. N : \E i \in S : rank[i] = k
  BY <1>6 DEF Surjection
<1>8. ASSUME NEW k \in 1 .. N
      PROVE  InOrder(S)[k] \in S /\ rank[InOrder(S)[k]] = k
  <2>1. PICK i \in S : Cardinality({j \in S : j <= i}) = k
    BY <1>7 DEF upTo
  <2>2. InOrder(S)[k] = CHOOSE x \in S : Cardinality({j \in S : j <= x}) = k
    BY DEF InOrder, N
  <2>3. InOrder(S)[k] \in S /\ Cardinality({j \in S : j <= InOrder(S)[k]}) = k
    BY <2>1, <2>2
  <2> QED
    BY <2>3 DEF upTo
<1>9. \A k \in 1 .. N : InOrder(S)[k] \in S /\ rank[InOrder(S)[k]] = k
  BY <1>8
<1>10. \A i \in S : rank[i] \in 1 .. N /\ InOrder(S)[rank[i]] = i
  BY <1>2, <1>4, <1>9
<1> HIDE DEF rank
<1>11. DOMAIN InOrder(S) = 1 .. N
  BY DEF InOrder, N
<1>12. \A k, m \in DOMAIN InOrder(S) : k # m => InOrder(S)[k] # InOrder(S)[m]
  BY <1>9, <1>11
<1> QED
  BY <1>1, <1>9, <1>10, <1>11, <1>12 DEF N

(* The skill a key finds is one of the list, and has that key.             *)
LEMMA LastOfIs ==
    ASSUME NEW skills, IsSequence(skills), NEW key, NEW k \in DOMAIN skills, skills[k].key = key
    PROVE  LastOf(skills, key) \in DOMAIN skills /\ skills[LastOf(skills, key)].key = key
<1> DEFINE found == {i \in DOMAIN skills : skills[i].key = key}
           n     == Len(skills)
           back  == {n - i : i \in found}
<1>1. n \in Nat /\ DOMAIN skills = 1 .. n
  BY LenProperties DEF IsSequence
<1>2. back \subseteq Nat /\ back # {}
  BY <1>1
<1>3. PICK d \in back : \A m \in back : d <= m
  BY <1>2, LeastExists
<1>4. PICK i \in found : d = n - i
  BY <1>3
<1>5. \A j \in i + 1 .. n : skills[j].key # key
  <2> SUFFICES ASSUME NEW j \in i + 1 .. n, skills[j].key = key PROVE FALSE
    OBVIOUS
  <2>1. i \in 1 .. n
    BY <1>1, <1>4
  <2>2. j \in 1 .. n /\ i < j
    BY <1>1, <2>1
  <2>3. n - j \in back
    BY <1>1, <2>2
  <2>4. n - i <= n - j
    BY <1>3, <1>4, <2>3
  <2> QED
    BY <1>1, <2>1, <2>2, <2>4
<1> QED
  BY <1>5 DEF LastOf

(* What of a reply's order counts, and of the list beside it, is finite.   *)
LEMMA PlacesAreFinite ==
    ASSUME NEW skills, IsSequence(skills), NEW order, IsSequence(order)
    PROVE  /\ Picks(skills, order) \subseteq Nat /\ IsFiniteSet(Picks(skills, order))
           /\ Others(skills, order) \subseteq Nat /\ IsFiniteSet(Others(skills, order))
<1>1. /\ Len(skills) \in Nat /\ DOMAIN skills = 1 .. Len(skills)
      /\ Len(order) \in Nat /\ DOMAIN order = 1 .. Len(order)
  BY LenProperties DEF IsSequence
<1>2. IsFiniteSet(1 .. Len(skills)) /\ IsFiniteSet(1 .. Len(order))
  BY <1>1, FS_Interval
<1>3. /\ Picks(skills, order) \in SUBSET (1 .. Len(order))
      /\ Others(skills, order) \in SUBSET (1 .. Len(skills))
  BY <1>1 DEF Picks, Others
<1> QED
  BY <1>1, <1>2, <1>3, FS_Subset

(* The new order: which skill stands where, for every reply.               *)
LEMMA SkillOrderIs ==
    ASSUME NEW skills, IsSequence(skills), NEW order, IsSequence(order)
    PROVE  LET ordered == SkillOrder(skills, order)
               P       == Picks(skills, order)
               O       == Others(skills, order)
               m       == Cardinality(P)
           IN  /\ m \in Nat /\ Cardinality(O) \in Nat
               /\ DOMAIN ordered = 1 .. m + Cardinality(O)
               /\ ordered = [i \in DOMAIN ordered |-> ordered[i]]
               /\ \A i \in 1 .. m : /\ InOrder(P)[i] \in P
                                    /\ LastOf(skills, order[InOrder(P)[i]]) \in DOMAIN skills
                                    /\ ordered[i] = skills[LastOf(skills, order[InOrder(P)[i]])]
               /\ \A i \in m + 1 .. m + Cardinality(O) : /\ InOrder(O)[i - m] \in O
                                                        /\ ordered[i] = skills[InOrder(O)[i - m]]
<1> DEFINE P == Picks(skills, order)
           O == Others(skills, order)
           m == Cardinality(P)
           n == Cardinality(O)
           S == {skills[i] : i \in DOMAIN skills}
           picked == [i \in DOMAIN InOrder(P) |-> skills[LastOf(skills, order[InOrder(P)[i]])]]
           others == [i \in DOMAIN InOrder(O) |-> skills[InOrder(O)[i]]]
<1>1. /\ m \in Nat /\ DOMAIN InOrder(P) = 1 .. m
      /\ \A i \in 1 .. m : InOrder(P)[i] \in P
  BY PlacesAreFinite, InOrderIs
<1>2. /\ n \in Nat /\ DOMAIN InOrder(O) = 1 .. n
      /\ \A i \in 1 .. n : InOrder(O)[i] \in O
  BY PlacesAreFinite, InOrderIs
<1>3. \A p \in P : LastOf(skills, order[p]) \in DOMAIN skills
  BY LastOfIs DEF Picks
<1>4. O \subseteq DOMAIN skills
  BY DEF Others
<1> HIDE DEF m, n
<1>5. picked \in [1 .. m -> S]
  <2> HIDE DEF P
  <2> QED
    BY <1>1, <1>3
<1>6. others \in [1 .. n -> S]
  <2> HIDE DEF O
  <2> QED
    BY <1>2, <1>4
<1>7. picked \in Seq(S) /\ others \in Seq(S) /\ Len(picked) = m /\ Len(others) = n
  <2> HIDE DEF picked, others, S
  <2> QED
    BY <1>1, <1>2, <1>5, <1>6
<1>8. SkillOrder(skills, order) = picked \o others
  BY DEF SkillOrder
<1>9. /\ DOMAIN (picked \o others) = 1 .. m + n
      /\ picked \o others = [i \in DOMAIN (picked \o others) |-> (picked \o others)[i]]
      /\ \A i \in 1 .. m + n : (picked \o others)[i] = IF i <= m THEN picked[i] ELSE others[i - m]
  <2> HIDE DEF picked, others, S
  <2> QED
    BY <1>1, <1>2, <1>7, ConcatProperties, LenProperties
<1>10. ASSUME NEW i \in 1 .. m
       PROVE  /\ InOrder(P)[i] \in P
              /\ LastOf(skills, order[InOrder(P)[i]]) \in DOMAIN skills
              /\ (picked \o others)[i] = skills[LastOf(skills, order[InOrder(P)[i]])]
  <2>1. i \in 1 .. m + n /\ i <= m
    BY <1>1, <1>2
  <2>2. (picked \o others)[i] = picked[i]
    BY <1>9, <2>1
  <2> HIDE DEF P
  <2> QED
    BY <1>1, <1>3, <2>2
<1>11. ASSUME NEW i \in m + 1 .. m + n
       PROVE  /\ InOrder(O)[i - m] \in O
              /\ (picked \o others)[i] = skills[InOrder(O)[i - m]]
  <2>1. i \in 1 .. m + n /\ ~(i <= m) /\ i - m \in 1 .. n
    BY <1>1, <1>2
  <2>2. (picked \o others)[i] = others[i - m]
    BY <1>9, <2>1
  <2> HIDE DEF O
  <2> QED
    BY <1>2, <2>1, <2>2
<1> HIDE DEF picked, others, P, O, S
<1> QED
  BY <1>1, <1>2, <1>8, <1>9, <1>10, <1>11 DEF P, O, m, n

(* It has the CV's skills, all of them, and once each if the CV has.       *)
LEMMA SkillOrderReorders ==
    ASSUME NEW skills, IsSequence(skills), NEW order, IsSequence(order)
    PROVE  LET ordered == SkillOrder(skills, order)
           IN  /\ \A i \in DOMAIN ordered : \E k \in DOMAIN skills : ordered[i] = skills[k]
               /\ \A k \in DOMAIN skills : \E i \in DOMAIN ordered : ordered[i] = skills[k]
               /\ Distinct(skills) => Distinct(ordered)
<1> DEFINE ordered == SkillOrder(skills, order)
           P == Picks(skills, order)
           O == Others(skills, order)
           m == Cardinality(P)
           n == Cardinality(O)
           at(i) == LastOf(skills, order[InOrder(P)[i]])
<1>1. m \in Nat /\ n \in Nat /\ DOMAIN ordered = 1 .. m + n
  BY SkillOrderIs
<1>2. \A i \in 1 .. m : InOrder(P)[i] \in P /\ at(i) \in DOMAIN skills /\ ordered[i] = skills[at(i)]
  BY SkillOrderIs
<1>3. \A i \in m + 1 .. m + n : InOrder(O)[i - m] \in O /\ ordered[i] = skills[InOrder(O)[i - m]]
  BY SkillOrderIs
<1>4. /\ DOMAIN InOrder(P) = 1 .. m
      /\ \A p \in P : \E i \in 1 .. m : InOrder(P)[i] = p
      /\ \A i, k \in 1 .. m : i # k => InOrder(P)[i] # InOrder(P)[k]
  BY PlacesAreFinite, InOrderIs
<1>5. /\ DOMAIN InOrder(O) = 1 .. n
      /\ \A o \in O : \E i \in 1 .. n : InOrder(O)[i] = o
      /\ \A i, k \in 1 .. n : i # k => InOrder(O)[i] # InOrder(O)[k]
  BY PlacesAreFinite, InOrderIs
<1>6. \A o \in O : o \in DOMAIN skills /\ skills[o] \notin Picked(skills, order)
  BY DEF Others
<1>7. ASSUME NEW i \in 1 .. m
      PROVE  skills[at(i)] \in Picked(skills, order) /\ skills[at(i)].key = order[InOrder(P)[i]]
  <2>1. InOrder(P)[i] \in P
    BY <1>2
  <2>2. PICK k \in DOMAIN skills : skills[k].key = order[InOrder(P)[i]]
    BY <2>1 DEF Picks
  <2>3. skills[at(i)].key = order[InOrder(P)[i]]
    BY <2>2, LastOfIs
  <2> QED
    BY <2>1, <2>3 DEF Picked
<1>8. /\ DOMAIN order \subseteq Nat
      /\ \A p, q \in P : p # q => order[p] # order[q]
  <2>1. DOMAIN order = 1 .. Len(order) /\ Len(order) \in Nat
    BY LenProperties DEF IsSequence
  <2>2. ASSUME NEW p \in P, NEW q \in P, p < q PROVE order[p] # order[q]
    BY <2>1, <2>2 DEF Picks
  <2>3. P \subseteq Nat
    BY <2>1 DEF Picks
  <2> HIDE DEF P
  <2> QED
    BY <2>1, <2>2, <2>3
<1>9. \A k \in DOMAIN skills :
          \/ k \in O
          \/ \E p \in P : skills[k] = skills[LastOf(skills, order[p])]
  BY DEF Others, Picked
<1> HIDE DEF ordered, P, O, m, n
<1>10. ASSUME NEW i \in DOMAIN ordered
       PROVE  \E k \in DOMAIN skills : ordered[i] = skills[k]
  <2>1. i \in 1 .. m \/ i \in m + 1 .. m + n
    BY <1>1
  <2>2. CASE i \in 1 .. m
    BY <1>2, <2>2
  <2>3. CASE i \in m + 1 .. m + n
    BY <1>3, <1>6, <2>3
  <2> QED
    BY <2>1, <2>2, <2>3
<1>11. ASSUME NEW k \in DOMAIN skills
       PROVE  \E i \in DOMAIN ordered : ordered[i] = skills[k]
  <2>1. CASE k \in O
    <3>1. PICK i \in 1 .. n : InOrder(O)[i] = k
      BY <1>5, <2>1
    <3>2. m + i \in m + 1 .. m + n /\ m + i - m = i /\ m + i \in 1 .. m + n
      BY <1>1
    <3>3. ordered[m + i] = skills[InOrder(O)[m + i - m]]
      BY <1>1, <1>3, <3>2
    <3>4. ordered[m + i] = skills[k]
      BY <3>1, <3>2, <3>3
    <3> QED
      BY <1>1, <3>2, <3>4
  <2>2. ASSUME NEW p \in P, skills[k] = skills[LastOf(skills, order[p])]
        PROVE  \E i \in DOMAIN ordered : ordered[i] = skills[k]
    <3>1. PICK i \in 1 .. m : InOrder(P)[i] = p
      BY <1>4
    <3>2. ordered[i] = skills[k] /\ i \in 1 .. m + n
      BY <1>1, <1>2, <2>2, <3>1
    <3> QED
      BY <1>1, <3>2
  <2> QED
    BY <1>9, <2>1, <2>2
<1>12. ASSUME Distinct(skills), NEW i \in DOMAIN ordered, NEW k \in DOMAIN ordered, i < k
       PROVE  ordered[i] # ordered[k]
  <2>1. i \in Nat /\ k \in Nat
    BY <1>1
  <2>2. CASE k \in 1 .. m
    <3>1. i \in 1 .. m
      BY <1>1, <1>12, <2>1, <2>2
    <3>2. order[InOrder(P)[i]] # order[InOrder(P)[k]]
      BY <1>2, <1>4, <1>8, <1>12, <2>1, <2>2, <3>1
    <3> QED
      BY <1>2, <1>7, <2>2, <3>1, <3>2
  <2>3. CASE i \in 1 .. m /\ k \in m + 1 .. m + n
    BY <1>2, <1>3, <1>6, <1>7, <2>3
  <2>4. CASE i \in m + 1 .. m + n /\ k \in m + 1 .. m + n
    <3>1. i - m \in 1 .. n /\ k - m \in 1 .. n /\ i - m # k - m
      BY <1>1, <1>12, <2>1, <2>4
    <3>2. InOrder(O)[i - m] # InOrder(O)[k - m]
      BY <1>5, <3>1
    <3> QED
      BY <1>3, <1>6, <1>12, <2>4, <3>2 DEF Distinct
  <2> QED
    BY <1>1, <1>12, <2>1, <2>2, <2>3, <2>4
<1>13. Distinct(skills) => Distinct(ordered)
  <2>1. DOMAIN ordered \subseteq Nat
    BY <1>1
  <2> QED
    BY <1>12, <2>1 DEF Distinct
<1> QED
  BY <1>10, <1>11, <1>13 DEF ordered

(* The outcome of the attempts is that of one usable reply, or the CV      *)
(* untouched.                                                              *)
LEMMA TailoredIs ==
    ASSUME NEW cv, NEW replies, NEW usable
    PROVE  \/ Tailored(cv, replies, usable) = Untouched(cv)
           \/ \E n \in usable : Tailored(cv, replies, usable) = Outcome(cv, replies[n])
<1> DEFINE made == (1 .. MAX_ATTEMPTS) \cap usable
           n == CHOOSE i \in made : \A j \in 1 .. i - 1 : j \notin usable
<1>1. CASE ~WorthTailoring(cv) \/ made = {}
  BY <1>1 DEF Tailored
<1>2. CASE WorthTailoring(cv) /\ made # {}
  <2>1. PICK k \in made : \A m \in made : k <= m
    BY <1>2, LeastExists, made \subseteq Nat
  <2>2. \A j \in 1 .. k - 1 : j \notin usable
    BY <2>1 DEF MAX_ATTEMPTS
  <2>3. n \in usable
    BY <2>1, <2>2
  <2>4. Tailored(cv, replies, usable) = Outcome(cv, replies[n])
    BY <1>2 DEF Tailored
  <2> QED
    BY <2>3, <2>4
<1> QED
  BY <1>1, <1>2

(* Whatever the model answers, and whichever attempt is the first usable   *)
(* one, no bullet of the tailored CV claims a new fact, its skills are the *)
(* CV's own, none is lost, and none is doubled.                            *)
THEOREM TailoringInventsNothing ==
    ASSUME NEW cv, IsCv(cv), NEW replies, NEW usable, \A n \in usable : IsReply(replies[n])
    PROVE  LET result == Tailored(cv, replies, usable)
           IN  NothingInvented(cv, result) /\ SkillsReordered(cv, result)
<1>1. NothingInvented(cv, Untouched(cv)) /\ SkillsReordered(cv, Untouched(cv))
  <2>1. ASSUME NEW e \in DOMAIN cv.entries, NEW i \in DOMAIN cv.entries[e].bullets
        PROVE  cv.entries[e].bullets[i].claims \subseteq Source(cv.entries[e])
    <3>1. cv.entries[e].bullets[i].claims \subseteq cv.entries[e].bullets[i].holds
      BY DEF IsCv, IsBullet
    <3>2. cv.entries[e].bullets[i].holds \subseteq Source(cv.entries[e])
      BY DEF Source
    <3> QED
      BY <3>1, <3>2
  <2> QED
    BY <2>1 DEF NothingInvented, SkillsReordered, Untouched
<1>2. ASSUME NEW n \in usable
      PROVE  /\ NothingInvented(cv, Outcome(cv, replies[n]))
             /\ SkillsReordered(cv, Outcome(cv, replies[n]))
  <2>1. IsSequence(cv.skills) /\ IsSequence(replies[n].order)
    BY DEF IsCv, IsReply
  <2>2. Outcome(cv, replies[n]).skills = SkillOrder(cv.skills, replies[n].order)
    BY DEF Outcome
  <2>3. \A e \in DOMAIN cv.entries : Outcome(cv, replies[n]).bullets[e] = Bullets(cv, replies[n], e)
    BY DEF Outcome
  <2>4. SkillsReordered(cv, Outcome(cv, replies[n]))
    BY <2>1, <2>2, SkillOrderReorders DEF SkillsReordered
  <2>5. NothingInvented(cv, Outcome(cv, replies[n]))
    BY <2>1, <2>2, <2>3, SkillOrderReorders, BulletsClaimNothingNew DEF NothingInvented
  <2> QED
    BY <2>4, <2>5
<1> QED
  BY <1>1, <1>2, TailoredIs

(* Bullets that differ nowhere are the same bullets.                       *)
LEMMA NotReworded ==
    ASSUME NEW cv, IsCv(cv), NEW reply, ~Rewords(cv, reply), NEW e \in DOMAIN cv.entries,
           Accepts(cv, reply, e) => \E S : reply.bullets[e] \in Seq(S)
    PROVE  Bullets(cv, reply, e) = cv.entries[e].bullets
<1>1. CASE Accepts(cv, reply, e)
  <2> DEFINE new == reply.bullets[e]
             old == cv.entries[e].bullets
  <2>1. Len(new) = Len(old) /\ \A i \in DOMAIN new : new[i] = old[i]
    BY <1>1 DEF Rewords, Accepts, Acceptable
  <2>2. PICK S : new \in Seq(S)
    BY <1>1
  <2>3. old \in Seq({old[i] : i \in DOMAIN old})
    BY DEF IsCv, IsSequence
  <2> HIDE DEF new, old
  <2>4. new = old
    BY <2>1, <2>2, <2>3
  <2> QED
    BY <1>1, <2>4 DEF Bullets, new, old
<1>2. CASE ~Accepts(cv, reply, e)
  BY <1>2 DEF Bullets
<1> QED
  BY <1>1, <1>2

(* A list that begins like another, has all of it, and whose other has     *)
(* nothing twice, is that other.                                           *)
LEMMA NothingLeftOut ==
    ASSUME NEW old, IsSequence(old), Distinct(old), NEW new, NEW n \in Nat, DOMAIN new = 1 .. n,
           ~SkillsChanged(old, new),
           \A k \in DOMAIN old : \E i \in DOMAIN new : new[i] = old[k]
    PROVE  n = Len(old) /\ \A i \in 1 .. n : new[i] = old[i]
<1>1. Len(old) \in Nat /\ DOMAIN old = 1 .. Len(old)
  BY LenProperties DEF IsSequence
<1>2. \A i \in 1 .. n : i \in DOMAIN old /\ new[i] = old[i]
  BY DEF SkillsChanged
<1>3. ASSUME n < Len(old) PROVE FALSE
  <2>1. Len(old) \in DOMAIN old
    BY <1>1, <1>3
  <2>2. PICK i \in 1 .. n : new[i] = old[Len(old)]
    BY <2>1
  <2>3. i # Len(old)
    BY <1>1, <1>3
  <2> QED
    BY <1>2, <2>1, <2>2, <2>3 DEF Distinct
<1>4. n <= Len(old)
  <2>1. CASE n = 0
    BY <1>1, <2>1
  <2>2. CASE n # 0
    <3>1. n \in 1 .. n
      BY <2>2
    <3> QED
      BY <1>1, <1>2, <3>1
  <2> QED
    BY <2>1, <2>2
<1> QED
  <2>1. n = Len(old)
    BY <1>1, <1>3, <1>4
  <2> QED
    BY <1>2, <2>1

(* A CV called tailored differs from the CV as written.  One that is not   *)
(* has its bullets, and its skills but for what stood there twice.         *)
THEOREM TailoredFlagIsHonest ==
    ASSUME NEW cv, IsCv(cv), NEW replies, NEW usable, \A n \in usable : IsReply(replies[n])
    PROVE  HonestFlag(cv, Tailored(cv, replies, usable))
<1>1. HonestFlag(cv, Untouched(cv))
  BY DEF HonestFlag, Untouched, AsWritten, SkillsChanged
<1>2. ASSUME NEW n \in usable
      PROVE  HonestFlag(cv, Outcome(cv, replies[n]))
  <2> DEFINE reply   == replies[n]
             after   == Outcome(cv, reply)
             ordered == SkillOrder(cv.skills, reply.order)
  <2>1. /\ \A e \in DOMAIN cv.entries : after.bullets[e] = Bullets(cv, reply, e)
        /\ after.skills = ordered
        /\ after.tailored <=> Rewords(cv, reply) \/ SkillsChanged(cv.skills, ordered)
    BY DEF Outcome
  <2>2. IsSequence(cv.skills) /\ IsSequence(reply.order)
    BY DEF IsCv, IsReply
  <2> HIDE DEF after, ordered
  <2>3. ASSUME Rewords(cv, reply) PROVE ~AsWritten(cv, after)
    <3>1. PICK e \in DOMAIN cv.entries :
              /\ Accepts(cv, reply, e)
              /\ \E i \in DOMAIN reply.bullets[e] : reply.bullets[e][i] # cv.entries[e].bullets[i]
      BY <2>3 DEF Rewords
    <3>2. after.bullets[e] # cv.entries[e].bullets
      BY <2>1, <3>1 DEF Bullets
    <3> QED
      BY <3>2 DEF AsWritten
  <2>4. ASSUME SkillsChanged(cv.skills, ordered) PROVE ~AsWritten(cv, after)
    BY <2>1, <2>4 DEF SkillsChanged, AsWritten
  <2>5. ASSUME ~Rewords(cv, reply), NEW e \in DOMAIN cv.entries
        PROVE  after.bullets[e] = cv.entries[e].bullets
    <3>1. Accepts(cv, reply, e) => \E S : reply.bullets[e] \in Seq(S)
      BY DEF Accepts, IsReply, IsSequence
    <3> QED
      BY <2>1, <2>5, <3>1, NotReworded
  <2>6. ASSUME ~SkillsChanged(cv.skills, ordered), Distinct(cv.skills)
        PROVE  ordered = cv.skills
    <3> DEFINE m == Cardinality(Picks(cv.skills, reply.order)) + Cardinality(Others(cv.skills, reply.order))
    <3>1. /\ m \in Nat /\ DOMAIN ordered = 1 .. m
          /\ ordered = [i \in DOMAIN ordered |-> ordered[i]]
      BY <2>2, SkillOrderIs DEF ordered
    <3>2. \A k \in DOMAIN cv.skills : \E i \in DOMAIN ordered : ordered[i] = cv.skills[k]
      BY <2>2, SkillOrderReorders DEF ordered
    <3> HIDE DEF m
    <3>3. m = Len(cv.skills) /\ \A i \in 1 .. m : ordered[i] = cv.skills[i]
      BY <2>2, <2>6, <3>1, <3>2, NothingLeftOut
    <3>4. cv.skills = [i \in 1 .. Len(cv.skills) |-> cv.skills[i]]
      BY <2>2, LenProperties DEF IsSequence
    <3> QED
      BY <3>1, <3>3, <3>4
  <2>7. ASSUME after.tailored PROVE HonestFlag(cv, after)
    BY <2>1, <2>3, <2>4, <2>7 DEF HonestFlag
  <2>8. ASSUME ~after.tailored PROVE HonestFlag(cv, after)
    <3>1. ~Rewords(cv, reply) /\ ~SkillsChanged(cv.skills, ordered)
      BY <2>1, <2>8
    <3>2. /\ \A e \in DOMAIN cv.entries : after.bullets[e] = cv.entries[e].bullets
          /\ ~SkillsChanged(cv.skills, after.skills)
          /\ Distinct(cv.skills) => after.skills = cv.skills
      BY <2>1, <2>5, <2>6, <3>1
    <3> QED
      BY <2>8, <3>2 DEF HonestFlag, AsWritten
  <2>9. HonestFlag(cv, after)
    BY <2>7, <2>8
  <2> QED
    BY <2>9 DEF after
<1> QED
  BY <1>1, <1>2, TailoredIs

-----------------------------------------------------------------------------
(* Explaining.                                                             *)

(* Of the items about a job the reply answers, one counts.                 *)
LEMMA OneItemCounts ==
    ASSUME NEW S, NEW items \in Seq(S), NEW wanted, NEW j \in Answered(items, wanted)
    PROVE  \E i \in DOMAIN items : items[i].jobId = j /\ Counts(items, wanted, i)
<1> DEFINE valid == {i \in DOMAIN items : Valid(items[i], wanted) /\ items[i].jobId = j}
<1>1. valid # {} /\ valid \subseteq Nat
  BY DEF Answered
<1>2. PICK i \in valid : \A k \in valid : i <= k
  BY <1>1, LeastExists
<1>3. i \in DOMAIN items /\ Valid(items[i], wanted) /\ items[i].jobId = j
  BY <1>2
<1>4. ASSUME NEW k \in 1 .. i - 1
      PROVE  ~(Valid(items[k], wanted) /\ items[k].jobId = items[i].jobId)
  <2>1. k \in DOMAIN items /\ k \in Int /\ i \in Int /\ ~(i <= k)
    BY <1>3
  <2> QED
    BY <1>2, <1>3, <2>1
<1> QED
  BY <1>3, <1>4 DEF Counts

(* One attempt: what was explained stays as it is, what is added is of a   *)
(* job still missing, made of one of its valid items.                      *)
LEMMA ReadReplyAdds ==
    ASSUME NEW S, NEW items \in Seq(S), NEW explained, NEW batch, NEW candidate,
           NEW after, after = ReadReply(explained, batch, items, candidate)
    PROVE  /\ DOMAIN explained \subseteq DOMAIN after
           /\ \A j \in DOMAIN explained : after[j] = explained[j]
           /\ \A j \in DOMAIN after \ DOMAIN explained :
                /\ j \in batch
                /\ \E i \in DOMAIN items :
                    /\ items[i].jobId = j
                    /\ Valid(items[i], batch \ DOMAIN explained)
                    /\ after[j] = Explanation(items[i], candidate)
           /\ Honest(batch, explained, candidate) => Honest(batch, after, candidate)
<1> DEFINE wanted   == batch \ DOMAIN explained
           answered == Answered(items, wanted)
           of(j)    == CHOOSE i \in DOMAIN items : items[i].jobId = j /\ Counts(items, wanted, i)
<1>1. after = [j \in DOMAIN explained \cup answered |->
                 IF j \in DOMAIN explained THEN explained[j]
                                           ELSE Explanation(items[of(j)], candidate)]
  BY DEF ReadReply
<1>2. DOMAIN after = DOMAIN explained \cup answered
  BY <1>1
<1>3. ASSUME NEW j \in DOMAIN explained
      PROVE  after[j] = explained[j]
  BY <1>1, <1>3
<1>4. ASSUME NEW j \in DOMAIN after \ DOMAIN explained
      PROVE  /\ j \in batch
             /\ \E i \in DOMAIN items : /\ items[i].jobId = j
                                        /\ Valid(items[i], wanted)
                                        /\ after[j] = Explanation(items[i], candidate)
  <2>1. j \in answered
    BY <1>2, <1>4
  <2>2. \E i \in DOMAIN items : items[i].jobId = j /\ Counts(items, wanted, i)
    BY <2>1, OneItemCounts
  <2>3. /\ of(j) \in DOMAIN items
        /\ items[of(j)].jobId = j
        /\ Counts(items, wanted, of(j))
    BY <2>2
  <2>4. Valid(items[of(j)], wanted)
    BY <2>3 DEF Counts
  <2>5. j \in batch
    BY <2>3, <2>4 DEF Valid
  <2>6. after[j] = Explanation(items[of(j)], candidate)
    BY <1>1, <1>2, <1>4
  <2> QED
    BY <2>3, <2>4, <2>5, <2>6
<1>5. ASSUME Honest(batch, explained, candidate)
      PROVE  Honest(batch, after, candidate)
  <2>1. DOMAIN after \subseteq batch
    BY <1>4, <1>5 DEF Honest
  <2>2. ASSUME NEW j \in DOMAIN after
        PROVE  /\ \A line \in after[j].whyMatch : line.arabic /\ line.traced
               /\ \A gap \in after[j].gaps : gap.arabic /\ ~Met(gap, candidate)
    <3>1. CASE j \in DOMAIN explained
      <4>1. after[j] = explained[j]
        BY <3>1, <1>3
      <4> QED
        BY <1>5, <3>1, <4>1 DEF Honest
    <3>2. CASE j \notin DOMAIN explained
      <4>1. PICK i \in DOMAIN items : after[j] = Explanation(items[i], candidate)
        BY <1>4, <2>2, <3>2
      <4> QED
        BY <4>1 DEF Explanation, Arabic
    <3> QED
      BY <3>1, <3>2
  <2> QED
    BY <2>1, <2>2 DEF Honest
<1> QED
  BY <1>2, <1>3, <1>4, <1>5

LEMMA ReadReplyStaysHonest ==
    ASSUME NEW S, NEW items \in Seq(S), NEW explained, NEW batch, NEW candidate,
           Honest(batch, explained, candidate)
    PROVE  Honest(batch, ReadReply(explained, batch, items, candidate), candidate)
<1> DEFINE after == ReadReply(explained, batch, items, candidate)
<1>1. after = ReadReply(explained, batch, items, candidate)
  OBVIOUS
<1> HIDE DEF after
<1>2. Honest(batch, explained, candidate) => Honest(batch, after, candidate)
  BY <1>1, ReadReplyAdds, Zenon
<1> QED
  BY <1>1, <1>2

(* Whatever the model answers in its three attempts, nothing it says of a  *)
(* candidate is shown that is not the candidate's own, in Arabic.          *)
THEOREM ExplanationsAreHonest ==
    ASSUME NEW S, NEW replies \in [1 .. 3 -> Seq(S)], NEW batch, NEW candidate
    PROVE  Honest(batch, ExplainBatch(batch, replies, candidate), candidate)
<1> DEFINE none   == [j \in {} |-> {}]
           first  == ReadReply(none, batch, replies[1], candidate)
           second == ReadReply(first, batch, replies[2], candidate)
<1>1. Honest(batch, none, candidate)
  BY DEF Honest
<1>2. replies[1] \in Seq(S) /\ replies[2] \in Seq(S) /\ replies[3] \in Seq(S)
  OBVIOUS
<1> HIDE DEF none
<1>3. Honest(batch, first, candidate)
  BY <1>1, <1>2, ReadReplyStaysHonest
<1> HIDE DEF first
<1>4. Honest(batch, second, candidate)
  BY <1>2, <1>3, ReadReplyStaysHonest
<1> HIDE DEF second
<1>5. Honest(batch, ReadReply(second, batch, replies[3], candidate), candidate)
  BY <1>2, <1>4, ReadReplyStaysHonest
<1> QED
  BY <1>5 DEF ExplainBatch, second, first, none

(* A job is never explained, and so never taken for a non-fit, by an item  *)
(* whose reasons are all in English.                                       *)
THEOREM LanguageIsAskedAgain ==
    ASSUME NEW S, NEW items \in Seq(S), NEW explained, NEW batch, NEW candidate
    PROVE  NotCachedForLanguage(items, explained, ReadReply(explained, batch, items, candidate))
BY ReadReplyAdds DEF NotCachedForLanguage, Valid

-----------------------------------------------------------------------------
(* Candidates.                                                             *)

(* An analysis of somebody else's CV changes nothing in the matches.       *)
THEOREM OldAnalysisDoesNotLeak ==
    ASSUME NEW cvs, NEW analyses, \A cv, other \in cvs : cv = other
    PROVE  NoLeak(cvs, analyses)
<1> SUFFICES ASSUME NEW cv \in cvs,
                    cv.name # Blank /\ \A analysis \in analyses : analysis.cv.name # cv.name
             PROVE  MatchCandidate(cvs, analyses) = MatchCandidate(cvs, {})
  BY DEF NoLeak
<1>1. Usable(cvs, analyses) = {} /\ Usable(cvs, {}) = {}
  BY DEF Usable
<1>2. Basis(cvs, analyses) = cvs /\ Basis(cvs, {}) = cvs
  BY DEF Basis
<1> QED
  BY <1>1, <1>2 DEF MatchCandidate

(* What the user's own CV says is what jobs are matched with.              *)
THEOREM OwnCvIsTruth ==
    ASSUME NEW cvs, NEW analyses, \A cv, other \in cvs : cv = other
    PROVE  CvIsTruth(cvs, analyses)
<1> SUFFICES ASSUME NEW candidate \in MatchCandidate(cvs, analyses), NEW cv \in cvs
             PROVE  /\ candidate.title = cv.title /\ candidate.past = cv.past
                    /\ cv.skills # {} => candidate.skills = cv.skills
  BY DEF CvIsTruth
<1>1. PICK own \in Basis(cvs, analyses) : candidate = CandidateOf(own, Usable(cvs, analyses))
  BY DEF MatchCandidate
<1>2. own = cv
  BY <1>1 DEF Basis
<1> QED
  BY <1>1, <1>2 DEF CandidateOf, Skills

-----------------------------------------------------------------------------
(* Listings, whatever the tables of names.                                 *)

LEMMA CityNamesCountry ==
    ASSUME NEW cities, NEW location, F!ResolveCity(cities, location) # F!Unknown
    PROVE  F!Aliases(cities) \cap location # {}
<1>1. PICK i \in DOMAIN cities : cities[i].aliases \cap location # {}
  BY DEF F!ResolveCity
<1> QED
  BY <1>1 DEF F!Aliases

(* A listing that is given one of a market's cities is never hidden from   *)
(* that market's searches: resolveCity and isInMarket agree.               *)
THEOREM CitiesStayInMarket ==
    ASSUME NEW own, NEW citiesOf, NEW others, NEW market, NEW location
    PROVE  F!CityIsInMarket(own, citiesOf, others, market, location)
BY CityNamesCountry DEF F!CityIsInMarket, F!IsInMarket, F!NamesOf

(* The country countryOfLocation reads off an address is one whose market  *)
(* the address is in: the two readings of one text agree.                  *)
THEOREM CountriesAreMarkets ==
    ASSUME NEW n \in Nat, NEW order, DOMAIN order = 1 .. n,
           NEW own, NEW citiesOf, NEW others, NEW location
    PROVE  F!CountryIsInMarket(own, citiesOf, others, order, location)
<1> DEFINE named == {i \in DOMAIN order : F!Aliases(citiesOf[order[i]]) \cap location # {}}
           first == CHOOSE i \in named : \A k \in named : i <= k
<1>1. CASE named = {}
  BY <1>1 DEF F!CountryIsInMarket, F!CountryOfLocation
<1>2. CASE named # {}
  <2>1. named \subseteq Nat
    OBVIOUS
  <2>2. first \in named
    BY <1>2, <2>1, LeastExists
  <2>3. F!CountryOfLocation(order, citiesOf, location) = order[first]
    BY <1>2 DEF F!CountryOfLocation
  <2>4. F!Aliases(citiesOf[order[first]]) \cap location # {}
    BY <2>2
  <2> QED
    BY <2>3, <2>4 DEF F!CountryIsInMarket, F!IsInMarket, F!NamesOf
<1> QED
  BY <1>1, <1>2

-----------------------------------------------------------------------------
(* Ranking.                                                                *)

(* The comparator of computeMatches is a strict weak order on all scores,  *)
(* ranks and similarities, so what the sort returns is determined but for  *)
(* ties.                                                                   *)
THEOREM MatchOrderIsStrict ==
    ASSUME NEW a \in [match : Int, rank : Int, near : Int],
           NEW b \in [match : Int, rank : Int, near : Int],
           NEW c \in [match : Int, rank : Int, near : Int]
    PROVE  K!StrictlyOrders(a, b, c)
BY DEF K!StrictlyOrders, K!Before

(* For a CV with a known role nothing found is called merely related: the  *)
(* query's group filter and roleMatchFor agree.                            *)
THEOREM FoundIsOfTheGroup ==
    ASSUME NEW listing, NEW preferences, NEW target
    PROVE  K!GroupsAgree(listing, preferences, target)
BY DEF K!GroupsAgree, K!Passes, K!RoleMatch

-----------------------------------------------------------------------------
(* ReasonGuard, for every table of abbreviations and every line.           *)

LEMMA FormIsSaid ==
    ASSUME NEW form, NEW pairs,
           NEW text \in [words : SUBSET STRING, parts : SUBSET STRING, numbers : SUBSET STRING],
           G!IsInFacts(form, G!CandidateFacts(text, pairs))
    PROVE  \/ G!IsInFacts(form, text)
           \/ \E pair \in pairs : G!Said(text, pair) /\ G!IsInFacts(form, G!OtherForm(text, pair))
<1> DEFINE extra == {G!OtherForm(text, pair) : pair \in {p \in pairs : G!Said(text, p)}}
<1>1. /\ G!CandidateFacts(text, pairs).words = text.words \cup UNION {other.words : other \in extra}
      /\ G!CandidateFacts(text, pairs).parts = text.parts \cup UNION {other.parts : other \in extra}
  BY DEF G!CandidateFacts
<1>2. \A other \in extra : \E pair \in pairs : G!Said(text, pair) /\ other = G!OtherForm(text, pair)
  OBVIOUS
<1>3. CASE form.short
  BY <1>1, <1>2, <1>3 DEF G!IsInFacts
<1>4. CASE ~form.short
  BY <1>1, <1>2, <1>4 DEF G!IsInFacts
<1> QED
  BY <1>3, <1>4

(* No reason gets through with a fact that is neither in the candidate's   *)
(* data nor another spelling of something in it (isTraceableReason over    *)
(* candidateFactsText).                                                    *)
THEOREM ReasonsAreGroundedInFacts ==
    ASSUME NEW line, NEW pairs, NEW years, NEW nonFacts,
           NEW text \in [words : SUBSET STRING, parts : SUBSET STRING, numbers : SUBSET STRING]
    PROVE  G!NothingInvented(line, text, pairs, years, nonFacts)
<1> DEFINE facts == G!CandidateFacts(text, pairs)
<1> SUFFICES ASSUME G!IsTraceableReason(line, facts, years, nonFacts)
             PROVE  /\ line # {}
                    /\ \A term \in line : term.value \notin nonFacts => G!Grounded(term, text, pairs, years)
  BY DEF G!NothingInvented
<1>1. line # {}
  BY DEF G!IsTraceableReason
<1>2. ASSUME NEW term \in line, term.value \notin nonFacts
      PROVE  G!Grounded(term, text, pairs, years)
  <2>1. G!IsTraced(term, facts, years)
    BY <1>2 DEF G!IsTraceableReason
  <2>2. facts.numbers = text.numbers
    BY DEF G!CandidateFacts
  <2>3. CASE term.number
    BY <2>1, <2>2, <2>3 DEF G!IsTraced, G!Grounded
  <2>4. CASE ~term.number
    <3>1. PICK form \in term.forms : G!IsInFacts(form, facts)
      BY <2>1, <2>4 DEF G!IsTraced
    <3> QED
      BY <2>4, <3>1, FormIsSaid DEF G!Grounded
  <2> QED
    BY <2>3, <2>4
<1> QED
  BY <1>1, <1>2

(* A CV that gains facts, by its abbreviations or by growing, loses no     *)
(* reason that could be shown before.                                      *)
THEOREM ReasonsSurviveMoreFacts ==
    ASSUME NEW line, NEW less, NEW more, NEW years, NEW nonFacts
    PROVE  G!MoreFactsHelp(line, less, more, years, nonFacts)
<1> SUFFICES ASSUME less.words \subseteq more.words, less.parts \subseteq more.parts,
                    less.numbers \subseteq more.numbers,
                    G!IsTraceableReason(line, less, years, nonFacts)
             PROVE  G!IsTraceableReason(line, more, years, nonFacts)
  BY DEF G!MoreFactsHelp
<1>1. ASSUME NEW form, G!IsInFacts(form, less) PROVE G!IsInFacts(form, more)
  BY <1>1 DEF G!IsInFacts
<1>2. ASSUME NEW term, G!IsTraced(term, less, years) PROVE G!IsTraced(term, more, years)
  BY <1>1, <1>2 DEF G!IsTraced
<1> QED
  BY <1>2 DEF G!IsTraceableReason

-----------------------------------------------------------------------------
(* SentCv.                                                                 *)

(* A phone with a country code keeps it, but for a landline written with   *)
(* 0020, which loses it (OnlyLandlinesLoseTheirCountry of MCApplications). *)
THEOREM MobilesStayDialable ==
    ASSUME NEW begins \in STRING, NEW mobile \in BOOLEAN, begins = "0020" => mobile
    PROVE  V!StaysDialable([begins |-> begins, mobile |-> mobile])
BY DEF V!StaysDialable, V!InternationalPhone, V!LocalPhone
=============================================================================
