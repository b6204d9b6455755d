----------------------------- MODULE MCIngestion -----------------------------
(* Small instances of Ingestion for TLC, of what is read off a listing     *)
(* (Listings) and of what of it is embedded (Embeddings).                  *)
EXTENDS Ingestion, Sequences, TLC

CONSTANTS g1, g2, c1, c2, s1, s2, s3, a1, a2, m1, j1, t1, t2, server, seed, none

(* Both groups draw on the budget of one country. *)
OneCountry == [g \in Groups |-> c1]

(* Two sweeps of the server, one of the seed script. *)
OneProcess == [s \in Sweeps |-> server]
SeedToo    == s1 :> server @@ s2 :> server @@ s3 :> seed

-----------------------------------------------------------------------------
F == INSTANCE Listings

(* Two markets and one country more; every location that mentions any of   *)
(* their names.                                                            *)
Markets  == <<"EG", "DE">>
OwnNames == [EG |-> {"egypt"}, DE |-> {"germany"}]
CitiesOf == [EG |-> <<[code |-> "cairo", aliases |-> {"cairo", "new cairo"}], [code |-> "giza", aliases |-> {"giza"}]>>,
             DE |-> <<[code |-> "berlin", aliases |-> {"berlin"}]>>]
Others   == {"austria"}
Places   == {F!Nowhere} \cup SUBSET {"egypt", "germany", "austria", "cairo", "new cairo", "giza", "berlin", "linz"}

ASSUME LocationsAgree ==
    \A location \in Places :
        /\ F!CountryIsInMarket(OwnNames, CitiesOf, Others, Markets, location)
        /\ \A market \in {"EG", "DE"} : F!CityIsInMarket(OwnNames, CitiesOf, Others, market, location)

(* "Homeoffice" alone is some days at home (job-facets.ts:12-13), the      *)
(* listing's own words come before what the role is by nature.             *)
ASSUME FacetsFollowWords ==
    /\ F!WorkType({"hybrid", "fully remote"}) = "remote" /\ F!WorkType({"hybrid", "remote"}) = "hybrid"
    /\ F!EmploymentType("driver", {}, {"shifts"}) = "shifts" /\ F!EmploymentType("driver", {}, {}) = "field"

-----------------------------------------------------------------------------
B == INSTANCE Embeddings

Upto(S, n) == UNION {[1 .. k -> S] : k \in 0 .. n}

(* The longer names first, as the module sorts them.                       *)
PlaceNames == <<<<"frankfurt", "am", "main">>, <<"new", "cairo">>, <<"frankfurt">>, <<"cairo">>>>
Plain      == Upto({"cook", "for"}, 2)

ASSUME ValuesAreUnique == \A keys \in Upto({"a", "b", B!NoKey}, 4) : B!EachOnce(keys)

ASSUME PlacesAreTakenOut ==
    \A before, after \in Plain : \A n \in DOMAIN PlaceNames :
        B!NoPieceLeft(before, PlaceNames[n], after, PlaceNames)

(* In the order they are listed in cities.ts, a word would stay behind.    *)
ASSUME OrderMatters ==
    ~B!NoPieceLeft(<<>>, <<"new", "cairo">>, <<>>, <<<<"cairo">>, <<"new", "cairo">>>>)

(* Up to three texts in slices of two, the items of each reply in any      *)
(* order, some missing, doubled or of the wrong size.                      *)
Replies == Upto([index : {0, 1}, vector : {"x", "y", "z", B!WrongSize}], 2)

ASSUME VectorsFindTheirTexts ==
    \A texts \in {<<>>, <<"x">>, <<"x", "y">>, <<"x", "y", "z">>} :
        \A first, second \in Replies : B!OwnVector(texts, 2, <<first, second>>)
=============================================================================
