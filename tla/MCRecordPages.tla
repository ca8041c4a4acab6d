--------------------------- MODULE MCRecordPages ---------------------------
(***************************************************************************)
(* An instance of RecordPages for TLC: four places, two photos with         *)
(* coordinates, and the scenes the instance is cut into.                    *)
(***************************************************************************)
EXTENDS RecordPages

CONSTANTS p1, p2, r1, r2

Item(named, a, la, d) ==
    [named |-> named, area |-> a, sigungu |-> None, legalArea |-> la,
     legalSigungu |-> IF d = None THEN None ELSE [area |-> None, district |-> d]]

\* A place in Gwangju and one in Jeonnam, of which only KTO's legacy area is
\* known, and which share legal area 12, one whose area cannot be told, and one
\* without a name.
TheItems ==
    <<Item(TRUE, None, "12", "210"), Item(TRUE, "38", "12", None),
      Item(TRUE, None, "12", None), Item(FALSE, "5", "12", "210")>>
TheDistances == <<50, 250, 80, 10>>
TheKeywords == {{1, 3}, {3, 4}}

TheServerConfigs ==
    {[defaultRadiusM |-> None, maxRadiusM |-> None, maxCandidates |-> None],
     [defaultRadiusM |-> 20, maxRadiusM |-> 300, maxCandidates |-> 3]}

Feb28 == <<2024, 2, 28>>
Feb29 == <<2024, 2, 29>>
TheTakenDates == p1 :> Feb29 @@ p2 :> Feb28
TheDates == {Feb28, Feb29}
TheTypedDates == {Feb28, <<2023, 2, 29>>}

\* Record ids are used in order.
InOrder == records[r2] # None \/ (\E s \in saves : s.record = r2) =>
               records[r1] # None \/ \E s \in saves : s.record = r1

\* Bound: a behaviour is about coordinates, about the save of a draft, about
\* the changes of a saved record, or about one of them beside a draft.
Undated == \A p \in Photos : draft.details[p] = None \/ draft.details[p].date = TakenDate[p]
Default == normalizeAppConfig([defaultRadiusM |-> None, maxRadiusM |-> None, maxCandidates |-> None])

\* About coordinates.
GpsScene == saves = {} /\ (\A r \in Records : records[r] = None) /\ Undated

\* About saves.  A second draft follows one that is saved with its photos'
\* own dates, one place and no notes.
PlainPlace == Candidate(1, "MANUAL_SEARCH", 1)
PlainSave(s) ==
    /\ \A k \in DOMAIN s.photos : s.photos[k].date = TakenDate[s.photos[k].id] /\ s.photos[k].place = PlainPlace
    /\ \A date \in DOMAIN s.notes : s.notes[date] = ""
PlainRecord(days) ==
    \A day \in DaysOf(days) :
        /\ day.note = "" /\ \A v \in VisitsOf(day) : v.place = PlainPlace
        /\ \A p \in PhotosOf(day) : TakenDate[p.asset] = day.date
Plain ==
    /\ \A s \in saves : PlainSave(s)
    /\ \A r \in Records : Exists(r) => PlainRecord(records[r])

SaveScene ==
    /\ draft.gps = {} /\ found = <<>> /\ config = Default
    /\ draft.decision # "nearby" /\ edits = 0 /\ alert = None /\ page.mode # "area"
    /\ Plain \/ page.at \in {"compose", "detail"}
    /\ Undated \/ Cardinality({r \in Records : records[r] # None}) + Cardinality(saves) < 2

\* About changes.  The record that is changed has one place, and p1 was chosen
\* first for it.
PlainStart(days) ==
    /\ \A v \in AllVisits(days) : v.place = PlainPlace
    /\ \A p \in AllPhotos(days) : p.asset = p1 <=> p.id = <<r1, 1>>

EditScene ==
    /\ draft = EmptyDraft /\ page.at \notin DraftPages
    /\ saves = {} /\ picker = None /\ config = Default /\ records[r2] = None
    /\ edits = 0 => PlainStart(records[r1])
    /\ edits = MaxEdits => /\ writes # <<>> /\ alert = None
                           /\ page.at \notin {"edit", "placeEdit"} \/ page.saving
    /\ \A k \in DOMAIN writes : \A v \in AllVisits(writes[k].days) :
          v.place.content = 1 => v.place = PlainPlace

\* About a change that ends while the next record is drafted.
BesideScene ==
    /\ draft.decision # "nearby" /\ Undated /\ config = Default
    /\ page.at \in {"photos", "places"} /\ saves = {} /\ alert = None
    /\ edits = 1
    /\ \A w \in Range(writes) : PlainStart(w.copy) /\ PlainStart(w.days)

Scenes == GpsScene \/ SaveScene \/ EditScene \/ BesideScene

=============================================================================
