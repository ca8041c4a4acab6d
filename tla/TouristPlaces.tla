--------------------------- MODULE TouristPlaces ---------------------------
(***************************************************************************)
(* What the mobile app asks KTO and what it offers the user: the client    *)
(* (shared/api/kto), the candidates made of its answers                    *)
(* (entities/tourist-place) and the limits of both (entities/app-config).  *)
(* The device has its own copy of the API's region codes, so this module   *)
(* takes them from Tourism.                                                 *)
(*                                                                          *)
(* Every photo is taken at the same spot.                                   *)
(***************************************************************************)
EXTENDS Tourism

CONSTANT Distance    \* metres from that spot, by content id

ASSUME DistanceAssumption == Distance \in [DOMAIN KtoItems -> Nat]

----------------------------------------------------------------------------
(* normalizeAppConfig                                                       *)

MaxRadius == 20000
positiveIntegerOr(value, fallback) == IF value # None /\ value > 0 THEN value ELSE fallback

candidateCountOr(value, fallback) == SmallerOf(positiveIntegerOr(value, fallback), MaxRows)
radiusMetersOr(value, fallback) == SmallerOf(positiveIntegerOr(value, fallback), MaxRadius)

\* Whatever the server sends, a configuration with which a search can work.
normalizeAppConfig(raw) ==
    LET max == radiusMetersOr(raw.maxRadiusM, 1000)
    IN  [defaultRadiusM |-> SmallerOf(radiusMetersOr(raw.defaultRadiusM, 300), max),
         maxRadiusM |-> max,
         maxCandidates |-> candidateCountOr(raw.maxCandidates, 5)]

----------------------------------------------------------------------------
(* requestKto                                                               *)

\* How a request ends: "ok" or the code of the error.
requestKto(aborted, configured, reply) ==
    IF aborted THEN "ABORTED"
    ELSE IF ~configured THEN "MISSING_SERVICE_KEY"
    ELSE IF reply.end = "timeout" THEN "TIMEOUT"
    ELSE IF reply.end = "unreachable" THEN "NETWORK_ERROR"
    ELSE IF ~reply.json THEN (IF reply.ok THEN "INVALID_RESPONSE" ELSE "HTTP")
    ELSE IF reply.code # "0000" THEN reply.code
    ELSE IF ~reply.ok THEN "HTTP" ELSE "ok"

\* The ends of a request that nobody aborts.
RequestEnds ==
    {requestKto(FALSE, configured, reply) : configured \in BOOLEAN, reply \in KtoReplies}

----------------------------------------------------------------------------
(* The lists                                                                *)

CodesOf == [c \in DOMAIN KtoItems |-> resolveKtoRegionCodes(KtoItems[c])]

candidateLimit(value) == SmallerOf(IF value > 0 THEN value ELSE 5, MaxRows)
nearbyRadiusMeters(value) == SmallerOf(IF value > 1 THEN value ELSE 1, MaxRadius)

\* The other order that KTO is asked for.
ByDistance(S) ==
    Ordered(S, LAMBDA c, k : Distance[c] < Distance[k] \/ (Distance[c] = Distance[k] /\ c < k))

\* KTO counts the rows before the client drops the unusable ones.
Parsed(limit, rows) == First(limit, Selected(First(limit, rows), parseListItem))

fetchNearbyKtoPlaces(radius, limit) ==
    Parsed(candidateLimit(limit),
           ByDistance({c \in DOMAIN KtoItems : Distance[c] <= nearbyRadiusMeters(radius)}))

searchKtoPlaces(keyword, limit) == Parsed(candidateLimit(limit), ByTitle(keyword))

\* Two areas share a legal area: for them as many rows as KTO gives are asked
\* for, since those of the other area are dropped.
isSharedLegalAreaBrowse(area) == area \in {"5", "38"}

fetchKtoPlacesByArea(area, limit) ==
    LET asked == IF isSharedLegalAreaBrowse(area) THEN MaxRows ELSE candidateLimit(limit)
        rows == IF area = None THEN {First(asked, ByTitle(DOMAIN KtoItems))}
                ELSE {First(asked, ByTitle(Lists(f))) : f \in areaSearchFilters(area, None)}
        fits(c) == parseListItem(c) /\ area \in {None, CodesOf[c].area}
    IN  First(candidateLimit(limit), ByTitle({c \in UNION {Range(s) : s \in rows} : fits(c)}))

----------------------------------------------------------------------------
(* Candidates                                                               *)

confidenceForCandidate(c, count) ==
    IF Distance[c] <= 100 /\ count = 1 THEN "HIGH"
    ELSE IF Distance[c] <= 300 THEN "MEDIUM" ELSE "LOW"

Candidate(c, method, count) ==
    [content |-> c, method |-> method,
     area |-> CodesOf[c].area,
     sigungu |-> CodesOf[c].sigungu,
     confidence |-> IF method = "GPS_CANDIDATE" THEN confidenceForCandidate(c, count) ELSE "MANUAL"]

\* Those that can be offered: the area is known.
OfferedPlaces ==
    {p \in [content : DOMAIN KtoItems,
            method : {"GPS_CANDIDATE", "MANUAL_SEARCH", "MANUAL_REGION_SELECT"},
            area : {CodesOf[c].area : c \in DOMAIN KtoItems},
            sigungu : {CodesOf[c].sigungu : c \in DOMAIN KtoItems},
            confidence : {"HIGH", "MEDIUM", "LOW", "MANUAL"}] : p.area # None}

\* Mutant: a place without an area is offered.
toCandidatesOfAny(places, method) ==
    [k \in DOMAIN places |-> Candidate(places[k], method, Len(places))]

\* toCandidate of each place: one without an area is left out.
toCandidates(places, method) ==
    Selected([k \in DOMAIN places |-> Candidate(places[k], method, Len(places))],
              LAMBDA candidate : candidate.area # None)

\* The second, wider search of findNearbyTouristPlaces.
SearchesWider(places, kto) == places = <<>> /\ kto.maxRadiusM # kto.defaultRadiusM

searchTouristPlaces(keyword, kto) ==
    toCandidates(searchKtoPlaces(keyword, kto.maxCandidates), "MANUAL_SEARCH")

browseTouristPlacesByArea(area, kto) ==
    First(kto.maxCandidates,
          toCandidates(fetchKtoPlacesByArea(area, kto.maxCandidates), "MANUAL_REGION_SELECT"))

=============================================================================
