------------------------------ MODULE Tourism ------------------------------
(***************************************************************************)
(* The TourAPI proxy of the API (src/apps/api/src/tourism): pure functions  *)
(* from a question to what the KTO service answers and what the adapter     *)
(* makes of it.  KTO numbers regions in two ways, by the legacy area and    *)
(* sigungu codes that Tripic stores and by the newer legal-district codes;  *)
(* region-code-map.ts turns the newer into the legacy ones (RegionCodes).   *)
(*                                                                          *)
(* Content ids are numbered in the order of their titles, and a keyword is  *)
(* the set of the places whose title has it.                                *)
(*                                                                          *)
(* Codes are strings, a missing field is None.  A legal district is         *)
(* [area, district], area being None when the field holds the short code.   *)
(***************************************************************************)
EXTENDS RegionCodes, Lists, SequencesExt

CONSTANTS
    KtoItems,    \* what KTO has, by content id: raw items
    MaxRows      \* MAX_TOURISM_LIST_LIMIT, MAX_KTO_LIST_CANDIDATES

CodeTexts == STRING \cup {None}
RawItems ==
    [named : BOOLEAN, area : CodeTexts, sigungu : CodeTexts, legalArea : CodeTexts,
     legalSigungu : [area : CodeTexts, district : STRING] \cup {None}]

ASSUME KtoAssumption == KtoItems \in Seq(RawItems) /\ MaxRows \in Nat \ {0}

SmallerOf(a, b) == IF a < b THEN a ELSE b
First(n, s) == SubSeq(s, 1, SmallerOf(n, Len(s)))

----------------------------------------------------------------------------
(* region-code-map.ts                                                       *)

\* The full code of a district: the short form is prefixed by the legal area,
\* a full one counts when it has that prefix; with another the code has seven
\* digits, and None stands for it.
administrativeCode(legalArea, legalSigungu) ==
    IF legalArea = None \/ legalSigungu = None THEN None
    ELSE IF legalSigungu.area \in {None, legalArea}
         THEN <<legalArea, legalSigungu.district>>
         ELSE None

Mapped(item) ==
    LET code == administrativeCode(item.legalArea, item.legalSigungu)
    IN  code # None /\ code \in DOMAIN administrativeCodeToLegacy

\* The codes Tripic stores: the mapped district first, then KTO's legacy
\* fields, then the area of the legal area; None stands for "".
resolveKtoRegionCodes(item) ==
    IF Mapped(item)
    THEN administrativeCodeToLegacy[administrativeCode(item.legalArea, item.legalSigungu)]
    ELSE [area |-> IF item.area # None THEN item.area
                   ELSE IF item.legalArea \in DOMAIN legalAreaCodeToLegacy
                        THEN legalAreaCodeToLegacy[item.legalArea] ELSE None,
          sigungu |-> item.sigungu]

legalDistrictCodesByLegacyKey ==
    [key \in {e.legacy : e \in {x \in Entries : x.legacy.sigungu # None}} |->
        {e.code[2] : e \in {x \in Entries : x.legacy = key}}]

getLegalDistrictCodes(area, sigungu) ==
    LET key == [area |-> area, sigungu |-> sigungu]
    IN  IF key \in DOMAIN legalDistrictCodesByLegacyKey THEN legalDistrictCodesByLegacyKey[key] ELSE {}

----------------------------------------------------------------------------
(* kto-api.adapter.ts                                                       *)

\* Mutant: the legacy sigungu code is sent as a legal district.
areaSearchFiltersUnmapped(area, sigungu) ==
    IF area \notin DOMAIN legacyAreaCodeToLegal
    THEN {[kind |-> "legacy", area |-> area, sigungu |-> sigungu]}
    ELSE {[kind |-> "legal", area |-> legacyAreaCodeToLegal[area], sigungu |-> sigungu]}

\* The questions put to areaBasedList2 for an area: by the legal codes when
\* they are known, by the legacy ones otherwise.
areaSearchFilters(area, sigungu) ==
    LET legacy == {[kind |-> "legacy", area |-> area, sigungu |-> sigungu]}
        codes == getLegalDistrictCodes(area, sigungu)
    IN  IF area \notin DOMAIN legacyAreaCodeToLegal THEN legacy
        ELSE IF sigungu = None
             THEN {[kind |-> "legal", area |-> legacyAreaCodeToLegal[area], sigungu |-> None]}
        ELSE IF codes = {} THEN legacy
        ELSE {[kind |-> "legal", area |-> legacyAreaCodeToLegal[area], sigungu |-> c] : c \in codes}

\* What KTO lists for one of them.
Lists(filter) ==
    {c \in DOMAIN KtoItems :
        LET item == KtoItems[c]
        IN  IF filter.kind = "legacy"
            THEN item.area = filter.area /\ filter.sigungu \in {None, item.sigungu}
            ELSE /\ item.legalArea = filter.area
                 /\ \/ filter.sigungu = None
                    \/ item.legalSigungu # None /\ item.legalSigungu.district = filter.sigungu}

\* parseListItem drops an item without a title or a content id.
parseListItem(c) == KtoItems[c].named

listLimit(value) == IF value <= 0 THEN 1 ELSE SmallerOf(value, MaxRows)

\* The order that KTO is asked for.
ByTitle(S) == Ascending(S)

\* KTO counts the rows before the adapter drops the unusable ones.
searchByKeyword(keyword, limit) ==
    First(listLimit(limit), Selected(First(listLimit(limit), ByTitle(keyword)), parseListItem))

\* Mutant: only Jeonnam is known to share its legal area.
isSharedLegalAreaOnce(area, sigungu) == sigungu = None /\ area = "38"

\* The areas whose list has rows of another area.
isSharedLegalArea(area, sigungu) == sigungu = None /\ area \in {"5", "38"}

\* The lists of all filters, narrowed to the codes asked for; more rows are
\* asked for when many may be dropped.
findByArea(area, sigungu, limit) ==
    LET asked == IF isSharedLegalArea(area, sigungu) THEN MaxRows ELSE listLimit(limit)
        rows == UNION {Range(First(asked, ByTitle(Lists(f)))) : f \in areaSearchFilters(area, sigungu)}
        fits(c) == LET codes == resolveKtoRegionCodes(KtoItems[c])
                   IN  parseListItem(c) /\ codes.area = area /\ sigungu \in {None, codes.sigungu}
    IN  First(listLimit(limit), ByTitle({c \in rows : fits(c)}))

----------------------------------------------------------------------------
(* request: how a call to KTO can end, and the status it becomes.           *)

\* No connection, no answer in time, or an answer that is JSON or not, with a
\* status that is ok or not, and with a result code in its header or in the
\* gateway's error.
KtoReplies ==
    {[end |-> e, ok |-> o, json |-> j, code |-> c] :
        e \in {"answered", "timeout", "unreachable"}, o \in BOOLEAN,
        j \in BOOLEAN, c \in {"0000", "gateway", "other"}}

\* The proxy is disabled when no service key is configured.
request(configured, reply) ==
    IF ~configured THEN "503"
    ELSE IF reply.end = "timeout" THEN "504"
    ELSE IF reply.end = "unreachable" THEN "502"
    ELSE IF ~reply.json \/ reply.code # "0000" \/ ~reply.ok THEN "502"
    ELSE "ok"

\* findDetail of content c: its codes, "404" when KTO does not know it (or
\* its item cannot be used), or the status of the failed call.
findDetail(c, configured, reply) ==
    LET status == request(configured, reply)
    IN  IF status # "ok" THEN status
        ELSE IF c \in DOMAIN KtoItems /\ parseListItem(c) THEN "ok" ELSE "404"

DetailCodes(c) == {findDetail(c, configured, reply) : configured \in BOOLEAN, reply \in KtoReplies}

=============================================================================
