----------------------------- MODULE TravelMap -----------------------------
(***************************************************************************)
(* The map of the home page: the regions that it counts (entities/region), *)
(* which of them the visits have coloured (HomePage, TravelMap), and the    *)
(* way into a province and a district and back (travelMapState).            *)
(*                                                                          *)
(* A region is <<area>> or <<area, sigungu>>, as the queries of the records *)
(* group visits; the map is at <<>>, the country, or at one of these.       *)
(***************************************************************************)
EXTENDS RegionCodes, SequencesExt

----------------------------------------------------------------------------
(* region.ts                                                                *)

createNumericCodeSet(last, excluded) == {ToString(n) : n \in (1..last) \ excluded}

KTO_AREA_CODES == {ToString(n) : n \in 1..8 \cup 31..39}

isKtoAreaCode(area) == area \in KTO_AREA_CODES

\* Codes of regions that no longer exist are left out.
PROVINCE_CITY_COUNTY_CODES ==
    [area \in {ToString(n) : n \in 31..38} |->
        CASE area = "31" -> createNumericCodeSet(31, {})
          [] area = "32" -> createNumericCodeSet(18, {})
          [] area = "33" -> createNumericCodeSet(12, {9})
          [] area = "34" -> createNumericCodeSet(16, {10})
          [] area = "35" -> createNumericCodeSet(23, {5})
          [] area = "36" -> createNumericCodeSet(21, {6, 11, 14})
          [] area = "37" -> createNumericCodeSet(14, {})
          [] area = "38" -> createNumericCodeSet(24, {14, 15})]

METROPOLITAN_COUNTY_KEYS ==
    {<<"2", "1">>, <<"2", "9">>, <<"4", "3">>, <<"4", "9">>, <<"6", "3">>, <<"7", "5">>}

TOTAL_TRAVEL_CITY_COUNTY_COUNT == 157

collectVisitedAreaCodes(regions) == {r[1] : r \in {q \in regions : isKtoAreaCode(q[1])}}

\* createKtoSigunguKey gives a key, not null.
HasSigunguKey(region) == isKtoAreaCode(region[1]) /\ region[2] # None

collectVisitedSigunguKeys(regions) == {r \in regions : HasSigunguKey(r)}

isTravelCityCountyKey(region) ==
    /\ HasSigunguKey(region)
    /\ \/ /\ region[1] \in DOMAIN PROVINCE_CITY_COUNTY_CODES
          /\ region[2] \in PROVINCE_CITY_COUNTY_CODES[region[1]]
       \/ region \in METROPOLITAN_COUNTY_KEYS

collectVisitedCityCountyKeys(regions) == {r \in regions : isTravelCityCountyKey(r)}

\* Visits by area, of the valid areas; the areas visited are those counted.
summarizeRegionVisits(areaOf, visits) ==
    LET count == [area \in KTO_AREA_CODES |-> Cardinality({v \in visits : areaOf[v] = area})]
        visited == {area \in KTO_AREA_CODES : count[area] > 0}
    IN  [total |-> Cardinality(KTO_AREA_CODES), count |-> count,
         visited |-> visited, visitedCount |-> Cardinality(visited)]

CityCountyKeys ==
    METROPOLITAN_COUNTY_KEYS \cup
        UNION {{area} \X PROVINCE_CITY_COUNTY_CODES[area] : area \in DOMAIN PROVINCE_CITY_COUNTY_CODES}

\* The home page shows "visited of 157": so many cities and counties can be
\* visited, each has a district in the table of region codes, by which a place
\* gets its codes, and outside the metropolitan cities and Jeju every district
\* of the table counts for one.
ASSUME EveryCityCountyCounts ==
    LET legacy == {<<e.legacy.area, e.legacy.sigungu>> : e \in Entries}
    IN  /\ Cardinality(CityCountyKeys) = TOTAL_TRAVEL_CITY_COUNTY_COUNT
        /\ {key \in legacy : isTravelCityCountyKey(key)} = CityCountyKeys
        /\ \A key \in legacy :
              /\ isKtoAreaCode(key[1])
              /\ key[1] \in DOMAIN PROVINCE_CITY_COUNTY_CODES => key \in CityCountyKeys
        /\ {key[1] : key \in legacy} = KTO_AREA_CODES

----------------------------------------------------------------------------
(* TravelMap: a province is coloured for any visit, a district for one of   *)
(* its own; a province without districts (Sejong) for any.                  *)

\* The districts drawn are those of the table of codes, from which the
\* geometry was generated too.
getDistrictMap(area) == {e.legacy.sigungu : e \in {x \in Entries : x.legacy.area = area}}

isDistrictVisited(area, sigungu, areas, keys) ==
    IF sigungu = None THEN area \in areas ELSE <<area, sigungu>> \in keys

----------------------------------------------------------------------------
(* travelMapState                                                           *)

Country == <<>>
currentMapDepth(history) == IF history = <<>> THEN Country ELSE Last(history)
previousMapDepth(depth) == IF Len(depth) = 2 THEN <<depth[1]>> ELSE Country

\* A district of the same province takes the place of the one shown.
navigateMapHistory(history, depth) ==
    LET current == currentMapDepth(history)
    IN  IF current = depth THEN history
        ELSE IF Len(current) = 2 /\ Len(depth) = 2 /\ current[1] = depth[1]
             THEN Append(Front(history), depth)
        ELSE Append(history, depth)

goBackMapHistory(history) == IF Len(history) > 1 THEN Front(history) ELSE history

\* What can be pressed: a province on the country, a district on its province.
Pressable(depth) ==
    CASE Len(depth) = 0 -> {<<area>> : area \in KTO_AREA_CODES}
      [] Len(depth) = 1 -> {<<depth[1], sigungu>> : sigungu \in getDistrictMap(depth[1]) \ {None}}
      [] Len(depth) = 2 -> {}

\* Every history that a few presses make, forth and back.
Histories(presses) ==
    LET after[n \in 0..presses] ==
            IF n = 0 THEN {<<Country>>}
            ELSE after[n - 1] \cup {goBackMapHistory(h) : h \in after[n - 1]}
                     \cup UNION {{navigateMapHistory(h, d) : d \in Pressable(Last(h))} : h \in after[n - 1]}
    IN  after[presses]

\* Back leads to what previousMapDepth names, whatever was pressed before: the
\* page's history and the map's own way back agree.
ASSUME BackIsUp ==
    \A h \in Histories(4) :
        /\ h # <<>> /\ Head(h) = Country
        /\ Len(h) > 1 => Last(goBackMapHistory(h)) = previousMapDepth(Last(h))

----------------------------------------------------------------------------
(* HomePage                                                                 *)

\* What the map is given, from the regions that the two queries answer.
HomeMap(areas, sigungus) ==
    [visitedAreaCodes |-> collectVisitedAreaCodes(areas),
     visitedSigunguKeys |-> collectVisitedSigunguKeys(sigungus),
     visitedCityCountyKeys |-> collectVisitedCityCountyKeys(sigungus)]

=============================================================================
