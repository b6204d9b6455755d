-------------------------------- MODULE Listings --------------------------------
(***************************************************************************)
(* What code reads off a job listing's text: src/modules/jobs,             *)
(* job-facets.ts, cities.ts and job-country.ts.                            *)
(*                                                                         *)
(* A text is the set of the patterns it matches and the place names it     *)
(* mentions as whole words; several texts joined are their union.  The     *)
(* tables of names are given: of each country its own names and its        *)
(* cities, in order, each a code and its aliases; and the names of other   *)
(* countries.  Nowhere is a listing without a location.                    *)
(***************************************************************************)
EXTENDS Integers, Sequences, FiniteSets

Unknown == "unknown"
Nowhere == {"no location"}

-----------------------------------------------------------------------------
(* job-facets.ts.                                                          *)

WorkType(text) ==
    IF "fully remote" \in text THEN "remote"
    ELSE IF "hybrid" \in text THEN "hybrid"
    ELSE IF "remote" \in text THEN "remote" ELSE "on_site"

FIELD_ROLES == {"driver", "delivery_rider"}

EmploymentType(role, jobType, text) ==
    IF "part time" \in jobType \cup text THEN "part_time"
    ELSE IF "shifts" \in jobType \cup text THEN "shifts"
    ELSE IF role \in FIELD_ROLES \/ "field" \in jobType \cup text THEN "field" ELSE "full_time"

(* Of the title alone.                                                     *)
SeniorityOf(title) ==
    IF "junior" \in title THEN "junior" ELSE IF "senior" \in title THEN "senior" ELSE Unknown

-----------------------------------------------------------------------------
(* cities.ts.                                                              *)

Aliases(cities) == UNION {cities[i].aliases : i \in DOMAIN cities}

(* The country's first city that the location names.                       *)
ResolveCity(cities, location) ==
    LET named == {i \in DOMAIN cities : cities[i].aliases \cap location # {}}
    IN  IF named = {} THEN Unknown
        ELSE cities[CHOOSE i \in named : \A k \in named : i <= k].code

(* The first country one of whose cities the location names.               *)
CountryOfLocation(order, citiesOf, location) ==
    LET named == {i \in DOMAIN order : Aliases(citiesOf[order[i]]) \cap location # {}}
    IN  IF named = {} THEN Unknown
        ELSE order[CHOOSE i \in named : \A k \in named : i <= k]

-----------------------------------------------------------------------------
(* job-country.ts.                                                         *)

NamesOf(own, citiesOf, country) == own[country] \cup Aliases(citiesOf[country])

(* Of this market unless the location names another country, and not this  *)
(* one beside it.                                                          *)
IsInMarket(own, citiesOf, others, market, location) ==
    \/ location = Nowhere
    \/ NamesOf(own, citiesOf, market) \cap location # {}
    \/ (others \cup UNION {NamesOf(own, citiesOf, c) : c \in DOMAIN own \ {market}}) \cap location = {}

-----------------------------------------------------------------------------
(* A listing given one of a market's cities is never then hidden as from   *)
(* abroad, whatever else its location names: the two tables agree.         *)
CityIsInMarket(own, citiesOf, others, market, location) ==
    ResolveCity(citiesOf[market], location) # Unknown
        => IsInMarket(own, citiesOf, others, market, location)

(* A country found in a location (contactForJobCountry, for the user's own *)
(* address) is one the market check would let through, too.                *)
CountryIsInMarket(own, citiesOf, others, order, location) ==
    LET country == CountryOfLocation(order, citiesOf, location)
    IN  country # Unknown => IsInMarket(own, citiesOf, others, country, location)
=============================================================================
