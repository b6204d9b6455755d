-------------------------------- MODULE Ranking --------------------------------
(***************************************************************************)
(* Which jobs a device is shown and in which order: computeMatches and     *)
(* roleMatchFor of src/modules/matching/matching.service.ts on             *)
(* searchByEmbedding of src/modules/jobs/job.repository.ts, with the       *)
(* preferences of src/modules/preferences/preferences.service.ts.          *)
(* Matching has when this happens, MatchCards how listings become cards.   *)
(*                                                                         *)
(* A listing is its columns: country, workType, city, group, role, whether *)
(* it has an embedding of the present model and comes from the present     *)
(* provider (`searchable`), how near it is to the CV, and whether its      *)
(* location is of its market (isInMarket).  An explanation is its score    *)
(* and whether it has reasons.  The answer is a relation where the code    *)
(* leaves ties to the database or to the sort.                             *)
(***************************************************************************)
EXTENDS Integers, Sequences, FiniteSets

Worldwide == "worldwide"
AnyCity   == "any"      \* also the city of a listing that names none
NoRole    == [code |-> "none", group |-> "none"]

TARGET_COUNTRIES == {"EG", "SA", "AE", "DE"}
WORK_TYPES       == {"on_site", "hybrid", "remote"}
MIN_MATCH        == 40

-----------------------------------------------------------------------------
(* getForDevice: what was saved, else what follows from the device's       *)
(* region.  `saved` is a set of at most one; a region that is no country   *)
(* code is NoRegion.                                                       *)
NoRegion == "?"

Preferences(saved, region) ==
    IF saved # {} THEN CHOOSE preferences \in saved : TRUE
    ELSE [country |-> IF region = NoRegion THEN "EG" ELSE region, city |-> AnyCity, workTypes |-> WORK_TYPES]

(* put refuses a city without a country.                                   *)
MaySave(preferences) == ~(preferences.country = Worldwide /\ preferences.city # AnyCity)

(* A country without job source has an empty answer.                       *)
Sourced(preferences) == preferences.country \in TARGET_COUNTRIES \cup {Worldwide}

-----------------------------------------------------------------------------
(* searchByEmbedding: hard filters, then the nearest `limit`.              *)
Passes(listing, preferences, target) ==
    /\ listing.searchable
    /\ preferences.country \in {Worldwide, listing.country}
    /\ listing.workType \in preferences.workTypes
    /\ preferences.country = Worldwide \/ preferences.city = AnyCity \/ listing.city \in {AnyCity, preferences.city}
    /\ target = NoRole \/ listing.group = target.group

Searches(listings, preferences, target, limit) ==
    LET passing == {listing \in listings : Passes(listing, preferences, target)}
    IN  {found \in SUBSET passing :
            /\ Cardinality(found) = IF Cardinality(passing) < limit THEN Cardinality(passing) ELSE limit
            /\ \A listing \in found, other \in passing \ found : listing.near >= other.near}

(* Listings located abroad are dropped after the search.                   *)
Found(search) == {listing \in search : listing.inMarket}

-----------------------------------------------------------------------------
RoleMatch(listing, target) ==
    IF target = NoRole THEN "related"
    ELSE IF listing.role = target.code THEN "exact"
    ELSE IF listing.group = target.group THEN "adjacent" ELSE "related"

ROLE_MATCH_RANK == [exact |-> 0, adjacent |-> 1, related |-> 2]

Fits(explanation) == explanation.match >= MIN_MATCH /\ explanation.reasons

(* The comparator of the final sort, on what it looks at.                  *)
Key(listing, explanation, target) ==
    [match |-> explanation.match, rank |-> ROLE_MATCH_RANK[RoleMatch(listing, target)], near |-> listing.near]

Before(a, b) ==
    \/ a.match > b.match
    \/ a.match = b.match /\ a.rank < b.rank
    \/ a.match = b.match /\ a.rank = b.rank /\ a.near > b.near

(* The answers: every explained fit once, none after a worse one.          *)
Answers(found, explained, target) ==
    LET shown == {listing \in found : listing \in DOMAIN explained /\ Fits(explained[listing])}
        key(listing) == Key(listing, explained[listing], target)
    IN  {answer \in [1 .. Cardinality(shown) -> shown] :
            /\ \A listing \in shown : \E i \in DOMAIN answer : answer[i] = listing
            /\ \A i, k \in DOMAIN answer : i < k => ~Before(key(answer[k]), key(answer[i]))}

-----------------------------------------------------------------------------
(* The comparator is one the sort can rely on (a strict order in which     *)
(* being tied is transitive), whatever scores, roles and similarities: the *)
(* order shown does not depend on the engine.                              *)
StrictlyOrders(a, b, c) ==
    /\ ~Before(a, a)
    /\ Before(a, b) => ~Before(b, a)
    /\ Before(a, b) => Before(a, c) \/ Before(c, b)

(* "By score; exact role only breaks ties" (matching.service.ts:122-123):  *)
(* no job stands behind one with a lower score, and with a known role      *)
(* nothing is shown of another group (the filter and roleMatchFor agree).  *)
ScoreFirst(answer, explained) ==
    \A i, k \in DOMAIN answer : i < k => explained[answer[i]].match >= explained[answer[k]].match

GroupsAgree(listing, preferences, target) ==
    (target # NoRole /\ Passes(listing, preferences, target)) => RoleMatch(listing, target) # "related"

(* Whatever is explained, a listing shown is in the country asked for and  *)
(* located there, and names no other city than the one asked for.          *)
AsPreferred(answer, preferences) ==
    \A i \in DOMAIN answer :
        /\ answer[i].inMarket
        /\ preferences.country # Worldwide => answer[i].country = preferences.country
        /\ preferences.country = Worldwide \/ preferences.city \in {AnyCity, answer[i].city} \/ answer[i].city = AnyCity
=============================================================================
