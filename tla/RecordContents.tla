--------------------------- MODULE RecordContents ---------------------------
(***************************************************************************)
(* What a travel record on the device consists of, and the functions that  *)
(* make, change, check and list it: saveLocalRecordDraft,                   *)
(* buildRecordPlaceUpdate, removeRecordPhoto, the checks and constraints of *)
(* localRecordRepository and its database, and the queries over the rows.   *)
(*                                                                          *)
(* A record is a sequence of days in the order of their day_index.  A day   *)
(* has an id, a date, a note ("" for none), its photos and its visits; a    *)
(* visit links a place to a photo.  Titles and tags are left out: no         *)
(* operation relates them to anything else.  A date is <<year, month, day>>.*)
(***************************************************************************)
EXTENDS Lists, SequencesExt

CONSTANTS Records,     \* record ids
          NoValue      \* null

----------------------------------------------------------------------------
(* Dates                                                                    *)

\* A text of the form YYYY-MM-DD, whether there is such a day or not.
DateTexts == Nat \X Nat \X Nat

isLeapYear(y) == y % 4 = 0 /\ (y % 100 # 0 \/ y % 400 = 0)

daysInMonth(y, m) ==
    <<31, IF isLeapYear(y) THEN 29 ELSE 28, 31, 30, 31, 30, 31, 31, 30, 31, 30, 31>>[m]

\* isDateOnlyString of the record contract counts the days of the month.
isDateOnlyString(d) ==
    d # NoValue /\ d[2] \in 1..12 /\ d[3] \in 1..daysInMonth(d[1], d[2])

CalendarDates == {d \in DateTexts : isDateOnlyString(d)}

\* new Date("...T00:00:00.000Z"): no date for a month or a day that no month
\* has, and otherwise a day beyond the end of its month rolls over.
DateOf(d) ==
    IF d[2] \notin 1..12 \/ d[3] \notin 1..31 THEN NoValue
    ELSE IF d[3] <= daysInMonth(d[1], d[2]) THEN d
    ELSE <<d[1], d[2] + 1, d[3] - daysInMonth(d[1], d[2])>>

\* The pages and the repository print that date and compare.
isValidDateOnly(d) == d # NoValue /\ DateOf(d) = d
normalizeDateOnly(d) == isValidDateOnly(d)

Before(d, e) ==
    \/ d[1] < e[1]
    \/ d[1] = e[1] /\ d[2] < e[2]
    \/ d[1] = e[1] /\ d[2] = e[2] /\ d[3] < e[3]

----------------------------------------------------------------------------
(* Shapes                                                                   *)

\* The rows of a record that hang on its days.
PhotosOf(day) == Range(day.photos)
VisitsOf(day) == Range(day.visits)
DaysOf(days) == Range(days)
AllPhotos(days) == UNION {PhotosOf(day) : day \in DaysOf(days)}
AllVisits(days) == UNION {VisitsOf(day) : day \in DaysOf(days)}

ByDate(S) == Ordered(S, LAMBDA d, e : Before(d.date, e.date))

----------------------------------------------------------------------------
(* saveLocalRecordDraft                                                     *)

\* The n-th photo of a draft becomes photo n of the record; the file that it
\* names is LocalPhotos' matter.
Planned(r, photos) == [n \in DOMAIN photos |-> [id |-> <<r, n>>, asset |-> photos[n].id]]

\* Mutant: the visits of a day all take the place of its first photo.
SavedDayOnePlace(r, photos, notes, date, n) ==
    LET ofDate == Ascending({k \in DOMAIN photos : photos[k].date = date})
    IN  [id |-> <<r, <<>>, n>>, date |-> date, note |-> notes[date],
         photos |-> [k \in DOMAIN ofDate |-> Planned(r, photos)[ofDate[k]]],
         visits |-> [k \in DOMAIN ofDate |->
             [id |-> <<r, n, k>>, photo |-> <<r, ofDate[k]>>,
              place |-> photos[ofDate[1]].place, at |-> date]]]

\* One day for each date of the photos, with a visit for each of its photos.
SavedDay(r, photos, notes, date, n) ==
    LET ofDate == Ascending({k \in DOMAIN photos : photos[k].date = date})
    IN  [id |-> <<r, <<>>, n>>, date |-> date, note |-> notes[date],
         photos |-> [k \in DOMAIN ofDate |-> Planned(r, photos)[ofDate[k]]],
         visits |-> [k \in DOMAIN ofDate |->
             [id |-> <<r, n, k>>, photo |-> <<r, ofDate[k]>>,
              place |-> photos[ofDate[k]].place, at |-> date]]]

\* The days that record r is created with; photos are the draft's, with the
\* date and the place chosen for each.
savedDays(r, photos, notes) ==
    LET dates == Ordered({photos[k].date : k \in DOMAIN photos}, Before)
    IN  [n \in DOMAIN dates |-> SavedDay(r, photos, notes, dates[n], n)]

----------------------------------------------------------------------------
(* updateRecordPlace and removeRecordPhoto                                  *)

hasDayContent(day) == day.note # "" \/ day.photos # <<>> \/ day.visits # <<>>

\* The day and the visit with this id; findRecordVisit answers null otherwise.
VisitDays(days, visitId) == {day \in DaysOf(days) : \E v \in VisitsOf(day) : v.id = visitId}

createDayId(r, days, date) ==
    LET taken == {day.id : day \in DaysOf(days)}
        suffix == CHOOSE k \in 1..(Len(days) + 1) :
                     /\ <<r, date, k>> \notin taken
                     /\ \A j \in 1..(k - 1) : <<r, date, j>> \in taken
    IN  <<r, date, suffix>>

\* Mutant: a visit is moved and its photo stays behind.
MovedAlone(r, days, from, visit, photo, date) ==
    LET left == [from EXCEPT !.visits = Selected(@, LAMBDA v : v.id # visit.id)]
        there == {day \in DaysOf(days) : day.date = date}
        onto == IF there # {} THEN CHOOSE day \in there : TRUE
                ELSE [id |-> createDayId(r, days, date), date |-> date, note |-> "",
                      photos |-> <<>>, visits |-> <<>>]
    IN  {left, [onto EXCEPT !.visits = Append(@, visit)]}
            \cup (DaysOf(days) \ ({from} \cup there))

\* A visit that changes its day takes its photo along, to the day of that date
\* or to a new one.
Moved(r, days, from, visit, photo, date) ==
    LET left == [from EXCEPT !.photos = Selected(@, LAMBDA p : p.id # visit.photo),
                             !.visits = Selected(@, LAMBDA v : v.id # visit.id)]
        there == {day \in DaysOf(days) : day.date = date}
        onto == IF there # {} THEN CHOOSE day \in there : TRUE
                ELSE [id |-> createDayId(r, days, date), date |-> date, note |-> "",
                      photos |-> <<>>, visits |-> <<>>]
    IN  {left, [onto EXCEPT !.photos = @ \o photo, !.visits = Append(@, visit)]}
            \cup (DaysOf(days) \ ({from} \cup there))

\* What buildRecordPlaceUpdate refuses.
PlaceUpdateRefused(days, visitId, date) ==
    \/ ~isValidDateOnly(date)
    \/ VisitDays(days, visitId) = {}
    \/ \E day \in VisitDays(days, visitId), v \in AllVisits(days) :
          /\ v.id = visitId
          /\ \/ \A p \in PhotosOf(day) : p.id # v.photo
             \/ /\ date # day.date
                /\ \E w \in VisitsOf(day) : w.id # visitId /\ w.photo = v.photo

\* place is NoValue when only the date changes.
buildRecordPlaceUpdate(r, days, visitId, date, place) ==
    LET from == CHOOSE day \in VisitDays(days, visitId) : TRUE
        visit == CHOOSE v \in VisitsOf(from) : v.id = visitId
        photo == Selected(from.photos, LAMBDA p : p.id = visit.photo)
        updated == [visit EXCEPT !.place = IF place = NoValue THEN @ ELSE place, !.at = date]
        inPlace == [from EXCEPT !.visits = [k \in DOMAIN from.visits |->
                       IF from.visits[k].id = visitId THEN updated ELSE from.visits[k]]]
    IN  IF date = from.date
        THEN ByDate({inPlace} \cup (DaysOf(days) \ {from}))
        ELSE ByDate({day \in Moved(r, days, from, updated, photo, date) : hasDayContent(day)})

removeRecordPhoto(days, dayId, photoId) ==
    LET rest(day) == [day EXCEPT !.photos = Selected(@, LAMBDA p : p.id # photoId),
                                 !.visits = Selected(@, LAMBDA v : v.photo # photoId)]
    IN  Selected([k \in DOMAIN days |-> IF days[k].id = dayId THEN rest(days[k]) ELSE days[k]],
                  LAMBDA day : day.id # dayId \/ hasDayContent(day))

----------------------------------------------------------------------------
(* localRecordRepository                                                    *)

Distinct(s) == IsInjective(s)

\* A photo of the app has always its local URI, so normalizePhoto accepts it.
normalizeVisit(visit, day) ==
    /\ visit.photo \in {p.id : p \in PhotosOf(day)}
    /\ visit.place.area # NoValue
    /\ visit.place.content # NoValue
    /\ isValidDateOnly(visit.at)

Ids(rows) == [k \in DOMAIN rows |-> rows[k].id]
PhotoLists(days) == [k \in DOMAIN days |-> days[k].photos]
VisitLists(days) == [k \in DOMAIN days |-> days[k].visits]

\* No two rows of these lists have one id.
DistinctAcross(lists) ==
    \A k, l \in DOMAIN lists : \A i \in DOMAIN lists[k], j \in DOMAIN lists[l] :
        lists[k][i].id = lists[l][j].id => k = l /\ i = j

normalizeRecordInput(days) ==
    /\ days # <<>>
    /\ \A day \in DaysOf(days) :
          normalizeDateOnly(day.date) /\ \A v \in VisitsOf(day) : normalizeVisit(v, day)
    /\ Distinct(Ids(days)) /\ DistinctAcross(PhotoLists(days)) /\ DistinctAcross(VisitLists(days))
    /\ Distinct([k \in DOMAIN days |-> days[k].date])

\* The primary keys of the tables span all records.
KeysAreFree(others, days) ==
    /\ {day.id : day \in DaysOf(days)} \cap {day.id : day \in UNION {DaysOf(o) : o \in others}} = {}
    /\ {p.id : p \in AllPhotos(days)} \cap {p.id : p \in UNION {AllPhotos(o) : o \in others}} = {}
    /\ {v.id : v \in AllVisits(days)} \cap {v.id : v \in UNION {AllVisits(o) : o \in others}} = {}

\* insertRecordChildren writes the positions as day_index and sort_order and
\* readRecord orders by them: what is read is what was written.
Accepts(others, days) == normalizeRecordInput(days) /\ KeysAreFree(others, days)

----------------------------------------------------------------------------
(* The queries, over the set of the records of one owner.                   *)

Earliest(S) == CHOOSE d \in S : \A e \in S : ~Before(e, d)
Latest(S) == CHOOSE d \in S : \A e \in S : ~Before(d, e)

\* One row of listRecords.
Summary(days) ==
    LET dates == {day.date : day \in DaysOf(days)}
        withPhotos == Selected(days, LAMBDA day : day.photos # <<>>)
    IN  [dayCount |-> Len(days), startDate |-> Earliest(dates), endDate |-> Latest(dates),
         cover |-> IF withPhotos = <<>> THEN NoValue ELSE withPhotos[1].photos[1].id,
         photoCount |-> Cardinality(AllPhotos(days)), visitCount |-> Cardinality(AllVisits(days)),
         areas |-> {v.place.area : v \in AllVisits(days)}]

VisitsIn(all) == UNION {AllVisits(days) : days \in all}

\* Region is what the rows are grouped by: an area or an area with a sigungu.
RegionOf(visit, scope) ==
    IF scope = "area" THEN <<visit.place.area>> ELSE <<visit.place.area, visit.place.sigungu>>

getRegionProgress(all, scope) ==
    LET counted == {v \in VisitsIn(all) : scope = "area" \/ v.place.sigungu # NoValue}
        group == [g \in {RegionOf(v, scope) : v \in counted} |-> {v \in counted : RegionOf(v, scope) = g}]
        datesOf == [g \in DOMAIN group |-> {v.at : v \in group[g]}]
    IN  {[region |-> g, visitCount |-> Cardinality(group[g]),
          first |-> Earliest(datesOf[g]), last |-> Latest(datesOf[g])] : g \in DOMAIN group}

getStats(all) ==
    [recordCount |-> Cardinality(all),
     photoCount |-> Cardinality(UNION {AllPhotos(days) : days \in all}),
     places |-> Cardinality({v.place.content : v \in VisitsIn(all)}),
     areas |-> Cardinality({v.place.area : v \in VisitsIn(all)}),
     sigungus |-> Cardinality({<<v.place.area, v.place.sigungu>> :
                      v \in {w \in VisitsIn(all) : w.place.sigungu # NoValue}})]

\* mapLocalRecordToDisplay: the days that the itinerary shows, numbered from
\* one, and the place of the record, that of the first visit of its first day.
mapLocalRecordToDisplay(days) ==
    [days |-> [k \in DOMAIN days |-> [day |-> k, id |-> days[k].id, photos |-> days[k].photos]],
     place |-> IF days = <<>> \/ days[1].visits = <<>> THEN NoValue ELSE days[1].visits[1].place.content,
     photo |-> IF days = <<>> \/ days[1].photos = <<>> THEN NoValue ELSE days[1].photos[1].id]

=============================================================================
