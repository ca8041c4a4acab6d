---------------------------- MODULE RecordPages ----------------------------
(***************************************************************************)
(* The pages on which a travel record is made and edited: the draft of a   *)
(* new record (CreateRecordSessionProvider and the pages of records/new)   *)
(* and the record's own pages (detail, edit, place edit).                  *)
(*                                                                          *)
(* A photo's coordinates live in the draft only, until they have been used *)
(* once.  A save and a change of a record are asynchronous: the user can    *)
(* leave the page, go on and come back before they end, and the picker of   *)
(* photos answers whenever it likes.  Files are LocalPhotos' matter, what    *)
(* a save or a change makes of a record RecordContents', the places that    *)
(* are offered TouristPlaces'.                                              *)
(***************************************************************************)
EXTENDS RecordContents, TouristPlaces, TravelMap

CONSTANTS
    Photos,          \* photos of the library
    Located,         \* those with coordinates in their EXIF data
    TakenDate,       \* and the date of each
    Dates,           \* dates of the visit-date sheet
    TypedDates,      \* what is typed as a date into the place edit page
    Notes,           \* texts of a note, "" among them
    Keywords,
    AreaCodes,       \* KtoAreaCode
    ServerConfigs,   \* what the server sends as configuration
    MaxPhotos,       \* photos of a draft
    MaxEdits         \* bound: changes of records in a behaviour

ASSUME PagesAssumption ==
    /\ NoValue = None /\ None \notin Records \cup Nat
    /\ Located \subseteq Photos
    /\ TakenDate \in [Photos -> CalendarDates]
    /\ Dates \subseteq CalendarDates /\ TypedDates \subseteq DateTexts
    /\ Keywords \subseteq SUBSET DOMAIN KtoItems
    /\ ServerConfigs \subseteq [defaultRadiusM : Int \cup {None}, maxRadiusM : Int \cup {None},
                               maxCandidates : Int \cup {None}]
    /\ MaxPhotos \in Nat \ {0} /\ MaxEdits \in Nat

VARIABLES
    draft,     \* CreateRecordSessionProvider
    page,      \* the page on top
    picker,    \* the decision seen by the picker that is open, or None
    config,    \* useAppConfigQuery: None while pending
    search,    \* the nearby search under way, or None
    found,     \* what the last one found
    saves,     \* saves of drafts under way
    records,   \* localRecordRepository: the days of each record, None before
               \* it is created and <<>> once it is deleted
    cache,     \* the query client's copy of each record, or None
    writes,    \* changes of records under way, in the order of the queue
    alert,     \* the question whether a photo is to be deleted, or None
    missed,    \* history: records of which a change has ended while none of
               \* their pages was open, and that were not read since
    refused,   \* history: why the repository refused a save or a change
    closed,    \* history: photos of the draft whose coordinates were used up
    late,      \* history: photos picked by a picker opened before a decision
    emptied,   \* history: days without photos whose note the editor cleared
    edits      \* history: how many changes were asked for

drafting == <<draft, picker, search, found, closed, late>>
stored == <<records, cache, missed, refused>>
changing == <<writes, alert, emptied, edits>>
vars == <<draft, page, picker, config, search, found, saves, records, cache, missed,
          writes, alert, refused, closed, late, emptied, edits>>

----------------------------------------------------------------------------
(* The draft                                                                *)

\* The state of resetDraft.
EmptyDraft ==
    [photos |-> <<>>, gps |-> {}, details |-> [p \in Photos |-> None],
     decision |-> "undecided", selected |-> None]

initialPhotoDetails(p) == [date |-> TakenDate[p], place |-> None]

getPhotoDetails(d, p) == IF d.details[p] = None THEN initialPhotoDetails(p) ELSE d.details[p]

selectedPhoto(d) == IF d.selected \in Range(d.photos) THEN d.selected ELSE d.photos[1]

hasUnconfirmedPhoto(d) == \E p \in Range(d.photos) : getPhotoDetails(d, p).place = None

addPhotosFromLibrary(d, assets, decision) ==
    LET new == Selected(assets, LAMBDA p : p \notin Range(d.photos))
        kept == First(MaxPhotos, d.photos \o new)
    IN  [d EXCEPT !.photos = kept,
                  !.gps = @ \cup (IF decision = "manual" THEN {}
                                  ELSE Located \cap (Range(kept) \ Range(d.photos))),
                  !.details = [p \in Photos |->
                      IF p \in Range(assets) THEN getPhotoDetails(d, p) ELSE @[p]]]

removePhoto(d, p) ==
    [d EXCEPT !.photos = Selected(@, LAMBDA q : q # p), !.gps = @ \ {p},
              !.details[p] = None, !.selected = IF @ = p THEN None ELSE @]

discardTransientGps(d, S) == [d EXCEPT !.gps = @ \ S]

\* Mutant: the coordinates are kept when the user will search himself.
decideLocationSearchOnly(d, decision) == [d EXCEPT !.decision = decision]

decideLocationSearch(d, decision) ==
    [d EXCEPT !.decision = decision, !.gps = IF decision = "manual" THEN {} ELSE @]

setPhotoDate(d, date) ==
    [d EXCEPT !.details[selectedPhoto(d)] = [getPhotoDetails(d, selectedPhoto(d)) EXCEPT !.date = date]]

setPhotoPlace(d, place) ==
    [d EXCEPT !.details[selectedPhoto(d)] = [getPhotoDetails(d, selectedPhoto(d)) EXCEPT !.place = place]]

----------------------------------------------------------------------------
(* The pages                                                                *)

Pages == {"home", "photos", "places", "info", "compose", "detail", "edit", "placeEdit"}
DraftPages == {"photos", "places", "info", "compose"}
RecordPagesOpen == {"detail", "edit", "placeEdit"}

\* mode: how the info page looks for places; record and visit: what the
\* record's pages show; saving: the page waits for its change.
NewPage(at, r, visit) ==
    [at |-> at, mode |-> "nearby", record |-> r, visit |-> visit, saving |-> FALSE]

Home == NewPage("home", None, None)

\* The page beneath.
Below(p) ==
    CASE p.at \in {"photos", "detail", "home"} -> Home
      [] p.at = "places" -> NewPage("photos", None, None)
      [] p.at \in {"info", "compose"} -> NewPage("places", None, None)
      [] p.at \in {"edit", "placeEdit"} -> NewPage("detail", p.record, None)

\* Mutant: a photo is searched for again after its coordinates were used.
canStartNearbySearchAgain(d, p, c) ==
    /\ p.at = "info" /\ c # None
    /\ d.decision = "nearby" /\ p.mode = "nearby"
    /\ selectedPhoto(d) \in Located

canStartNearbySearch(d, p, c) ==
    /\ p.at = "info" /\ c # None
    /\ d.decision = "nearby"
    /\ p.mode = "nearby"
    /\ selectedPhoto(d) \in d.gps

\* The search that the page's effect starts when something it depends on has
\* changed; the one before is aborted.
Started(d, p, c) ==
    IF canStartNearbySearch(d, p, c) THEN [photo |-> selectedPhoto(d), wide |-> FALSE] ELSE None

\* The coordinates that the pages discard on the way from p to another.
LeftBehind(d, p) == IF p.at = "info" THEN {selectedPhoto(d)} ELSE {}

\* A page is replaced or popped: the info page discards the coordinates of
\* its photo, the layout of records/new resets the draft when it is unmounted.
ArriveAt(new, d) ==
    /\ page' = new
    /\ draft' = IF page.at \in DraftPages /\ new.at \notin DraftPages THEN EmptyDraft
                ELSE discardTransientGps(d, LeftBehind(d, page))
    /\ closed' = IF page.at \in DraftPages /\ new.at \notin DraftPages THEN {}
                 ELSE closed \cup LeftBehind(d, page)
    /\ late' = late \cap Range(draft'.photos)
    /\ search' = IF new.at = "info" THEN Started(draft', new, config) ELSE None

Unattended(S) == {[s EXCEPT !.left = TRUE] : s \in S}
UnattendedSeq(s) == [k \in DOMAIN s |-> [s[k] EXCEPT !.left = TRUE]]

Exists(r) == records[r] \notin {None, <<>>}
Others(r) == {records[o] : o \in {o \in Records \ {r} : Exists(o)}}

----------------------------------------------------------------------------
(* Making a draft                                                           *)

\* HomePage: startPhotoRecord.
StartRecord ==
    /\ page.at = "home"
    /\ ArriveAt(NewPage("photos", None, None), EmptyDraft)
    /\ UNCHANGED <<picker, config, found, saves, stored, changing>>

\* The picker keeps the addPhotosFromLibrary of the page as it is now.
PickerOpened ==
    /\ page.at = "photos" /\ picker = None
    /\ Len(draft.photos) < MaxPhotos
    /\ picker' = draft.decision
    /\ UNCHANGED <<draft, page, config, search, found, saves, closed, late, stored, changing>>

Picks == {s \in SeqOf(Photos, MaxPhotos) : s # <<>> /\ IsInjective(s)}

PhotosPicked(assets) ==
    LET new == Range(assets) \ Range(draft.photos)
    IN  /\ picker # None
        /\ draft' = addPhotosFromLibrary(draft, assets, picker)
        /\ picker' = None
        /\ closed' = closed \ new
        /\ late' = IF draft.decision = "manual" /\ picker # "manual" THEN late \cup new ELSE late \ new
        /\ UNCHANGED <<page, config, search, found, saves, stored, changing>>

\* Cancelled, or refused by the system.
PickerClosed ==
    /\ picker # None
    /\ picker' = None
    /\ UNCHANGED <<draft, page, config, search, found, saves, closed, late, stored, changing>>

PhotoRemoved(p) ==
    /\ page.at = "photos" /\ p \in Range(draft.photos)
    /\ draft' = removePhoto(draft, p)
    /\ closed' = closed \ {p}
    /\ late' = late \ {p}
    /\ UNCHANGED <<page, picker, config, search, found, saves, stored, changing>>

\* goToPlaces: the user is asked once, when there is something to ask about.
GoToPlaces(decision) ==
    /\ page.at = "photos" /\ draft.photos # <<>>
    /\ decision \in IF draft.gps = {} THEN {"manual"}
                    ELSE IF draft.decision # "undecided" THEN {draft.decision}
                    ELSE {"manual", "nearby"}
    /\ LET d == IF draft.gps # {} /\ draft.decision # "undecided" THEN draft
                ELSE decideLocationSearch(draft, decision)
       IN  ArriveAt(NewPage("places", None, None), d)
    /\ UNCHANGED <<picker, config, found, saves, stored, changing>>

OpenInfo(p) ==
    /\ page.at = "places" /\ p \in Range(draft.photos)
    /\ LET d == [draft EXCEPT !.selected = p,
                             !.gps = IF draft.decision = "nearby" THEN @ ELSE @ \ {p}]
       IN  ArriveAt(NewPage("info", None, None), d)
    /\ found' = <<>>
    /\ UNCHANGED <<picker, config, saves, stored, changing>>

\* The query ends, with the default when it failed, or refetches something
\* else; a search that depends on it starts again.
ConfigSettles(c) ==
    /\ c # config
    /\ config' = c
    /\ search' = Started(draft, page, c)
    /\ found' = IF search' # None THEN <<>> ELSE found
    /\ UNCHANGED <<draft, page, picker, saves, closed, late, stored, changing>>

Nearby ==
    fetchNearbyKtoPlaces(IF search.wide THEN config.maxRadiusM ELSE config.defaultRadiusM,
                         config.maxCandidates)

SearchWidens ==
    /\ search # None /\ ~search.wide
    /\ SearchesWider(Nearby, config)
    /\ search' = [search EXCEPT !.wide = TRUE]
    /\ UNCHANGED <<draft, page, picker, config, found, saves, closed, late, stored, changing>>

\* An answer or an error; either way the coordinates have had their use.
SearchEnds(end) ==
    /\ search # None
    /\ end = "ok" => search.wide \/ ~SearchesWider(Nearby, config)
    /\ found' = IF end = "ok" THEN toCandidates(Nearby, "GPS_CANDIDATE") ELSE <<>>
    /\ search' = None
    /\ draft' = discardTransientGps(draft, {search.photo})
    /\ closed' = closed \cup {search.photo}
    /\ UNCHANGED <<page, picker, config, saves, late, stored, changing>>

DateChosen(date) ==
    /\ page.at = "info"
    /\ draft' = setPhotoDate(draft, date)
    /\ UNCHANGED <<page, picker, config, search, found, saves, closed, late, stored, changing>>

\* A region is selected, a keyword typed or cleared.
ModeChosen(mode) ==
    LET d == IF mode = "nearby" THEN draft ELSE discardTransientGps(draft, {selectedPhoto(draft)})
    IN  /\ page.at = "info" /\ mode # page.mode
        /\ mode = "nearby" => page.mode = "keyword"
        /\ page' = [page EXCEPT !.mode = mode]
        /\ draft' = d
        /\ closed' = IF mode = "nearby" THEN closed ELSE closed \cup {selectedPhoto(draft)}
        /\ search' = Started(d, page', config)
        /\ UNCHANGED <<picker, config, found, saves, late, stored, changing>>

Configs == {normalizeAppConfig(raw) : raw \in ServerConfigs}

\* The lists of a keyword or of a region, once the configuration is there.
Offered ==
    [c \in Configs |->
        [keyword |-> UNION {Range(searchTouristPlaces(k, c)) : k \in Keywords},
         area |-> UNION {Range(browseTouristPlacesByArea(a, c)) : a \in AreaCodes \cup {None}}]]

Searched(mode) == IF config = None THEN {} ELSE Offered[config][mode]

PlaceChosen(place) ==
    /\ page.at = "info"
    /\ place \in IF page.mode = "nearby" THEN Range(found) ELSE Searched(page.mode)
    /\ draft' = discardTransientGps(setPhotoPlace(draft, place), {selectedPhoto(draft)})
    /\ closed' = closed \cup {selectedPhoto(draft)}
    /\ search' = None
    /\ UNCHANGED <<page, picker, config, found, saves, late, stored, changing>>

OpenCompose ==
    /\ page.at = "places" /\ ~hasUnconfirmedPhoto(draft)
    /\ ArriveAt(NewPage("compose", None, None), draft)
    /\ UNCHANGED <<picker, config, found, saves, stored, changing>>

----------------------------------------------------------------------------
(* Saving it: RecordComposePage                                             *)

\* A mutation belongs to the page that started it.
isPending == \E s \in saves : ~s.left

\* Photos were added in the meantime.
ConfirmationAsked ==
    /\ page.at = "compose" /\ ~isPending /\ hasUnconfirmedPhoto(draft)
    /\ ArriveAt(NewPage("places", None, None), draft)
    /\ UNCHANGED <<picker, config, found, saves, stored, changing>>

DraftPhotos(d) ==
    [k \in DOMAIN d.photos |->
        [id |-> d.photos[k], date |-> getPhotoDetails(d, d.photos[k]).date,
         place |-> getPhotoDetails(d, d.photos[k]).place]]

SaveSubmitted(r, notes) ==
    /\ page.at = "compose" /\ ~isPending /\ ~hasUnconfirmedPhoto(draft)
    /\ records[r] = None /\ \A s \in saves : s.record # r
    /\ draft' = discardTransientGps(draft, Photos)
    /\ closed' = Range(draft.photos)
    /\ saves' = saves \cup {[record |-> r, photos |-> DraftPhotos(draft), notes |-> notes,
                             left |-> FALSE, picking |-> picker # None]}
    /\ UNCHANGED <<page, picker, config, search, found, late, stored, changing>>

SaveRow(s) == savedDays(s.record, s.photos, s.notes)

\* The end of a save or a change invalidates every query.  It waits until
\* those of the pages that are open have been read again; the copy of a record
\* without an open page stays as it is until one is opened.
Reread(r) == IF r = None THEN cache ELSE [cache EXCEPT ![r] = records[r]]

\* createRecord, finishDraft and the way to the record, from wherever the
\* user is by now.
SaveStored(s) ==
    /\ Accepts(Others(s.record), SaveRow(s))
    /\ records' = [records EXCEPT ![s.record] = SaveRow(s)]
    /\ cache' = Reread(page.record)
    /\ missed' = missed \ {page.record}
    /\ ArriveAt(NewPage("detail", s.record, None), EmptyDraft)
    /\ saves' = Unattended(saves \ {s})
    /\ writes' = UnattendedSeq(writes)
    /\ UNCHANGED <<picker, config, found, refused, alert, emptied, edits>>

\* Mutant: the draft is finished before its save has succeeded.
SaveFailsFinished(s) ==
    /\ refused' = IF Accepts(Others(s.record), SaveRow(s)) THEN refused ELSE refused \cup {"save"}
    /\ saves' = saves \ {s}
    /\ draft' = EmptyDraft /\ closed' = {} /\ late' = {}
    /\ UNCHANGED <<page, picker, config, search, found, records, cache, missed, changing>>

SaveFails(s) ==
    /\ refused' = IF Accepts(Others(s.record), SaveRow(s)) THEN refused ELSE refused \cup {"save"}
    /\ saves' = saves \ {s}
    /\ UNCHANGED <<page, picker, config, records, cache, missed, drafting, changing>>

----------------------------------------------------------------------------
(* The pages of a record                                                    *)

\* The page shows the copy that the query client has of the record, however
\* old, while it is read again beside; without a copy the page waits.
OpenRecord(r) ==
    /\ page.at = "home" /\ Exists(r)
    /\ ArriveAt(NewPage("detail", r, None), draft)
    /\ UNCHANGED <<picker, config, found, saves, stored, changing>>

localRecord == cache[page.record]

Shown == page.record # None /\ localRecord \notin {None, <<>>}

OpenEdit ==
    /\ page.at = "detail" /\ Shown
    /\ ArriveAt(NewPage("edit", page.record, None), draft)
    /\ writes' = UnattendedSeq(writes)
    /\ UNCHANGED <<picker, config, found, saves, stored, alert, emptied, edits>>

OpenPlaceEdit(visit) ==
    /\ page.at = "detail" /\ Shown /\ visit \in AllVisits(localRecord)
    /\ ArriveAt(NewPage("placeEdit", page.record, visit.id), draft)
    /\ writes' = UnattendedSeq(writes)
    /\ UNCHANGED <<picker, config, found, saves, stored, alert, emptied, edits>>

\* The record of an open page has been read.
RecordRead ==
    /\ page.record # None /\ (localRecord # records[page.record] \/ page.record \in missed)
    /\ cache' = Reread(page.record)
    /\ missed' = missed \ {page.record}
    /\ UNCHANGED <<page, config, saves, records, refused, drafting, changing>>

\* The query client lets go of a copy that no page has used for some time.
CopyForgotten(r) ==
    /\ r # page.record /\ cache[r] # None
    /\ cache' = [cache EXCEPT ![r] = None]
    /\ missed' = missed \ {r}
    /\ UNCHANGED <<page, config, saves, records, refused, drafting, changing>>

Overlapping(r) == \E k \in DOMAIN writes : writes[k].record = r

\* The copy may be older than the record.
MayBeBehind(r) == Overlapping(r) \/ r \in missed

Write(r, op, of, days, from, behind) ==
    [record |-> r, op |-> op, of |-> of, days |-> days, copy |-> from,
     behind |-> behind, done |-> FALSE, left |-> FALSE]

Submitted(w) ==
    /\ edits < MaxEdits
    /\ edits' = edits + 1
    /\ writes' = Append(writes, w)
    /\ UNCHANGED <<config, saves, stored, drafting>>

WithNotes(days, notes) == [k \in DOMAIN days |-> [days[k] EXCEPT !.note = notes[k]]]

\* RecordEditPage: submit; the editor starts with the notes of the copy.
EditSubmitted(notes) ==
    /\ page.at = "edit" /\ Shown /\ ~page.saving
    /\ DOMAIN notes = DOMAIN localRecord
    /\ Submitted(Write(page.record, "notes", None, WithNotes(localRecord, notes),
                       localRecord, MayBeBehind(page.record)))
    /\ page' = [page EXCEPT !.saving = TRUE]
    /\ emptied' = emptied \cup
          {localRecord[k].id : k \in {k \in DOMAIN localRecord : localRecord[k].visits = <<>> /\ notes[k] = ""}}
    /\ UNCHANGED alert

RecordDeleteSubmitted ==
    /\ page.at = "edit" /\ Shown /\ ~page.saving
    /\ Submitted(Write(page.record, "record", None, <<>>, localRecord, MayBeBehind(page.record)))
    /\ page' = [page EXCEPT !.saving = TRUE]
    /\ UNCHANGED <<alert, emptied>>

\* RecordPlaceEditPage: submit, with a place of the page's lists or none.
PlaceEditSubmitted(date, place) ==
    /\ page.at = "placeEdit" /\ Shown /\ ~page.saving
    /\ isValidDateOnly(date) /\ VisitDays(localRecord, page.visit) # {}
    /\ ~PlaceUpdateRefused(localRecord, page.visit, date)
    /\ Submitted(Write(page.record, "place", page.visit,
                       buildRecordPlaceUpdate(page.record, localRecord, page.visit, date, place),
                       localRecord, MayBeBehind(page.record)))
    /\ page' = [page EXCEPT !.saving = TRUE]
    /\ UNCHANGED <<alert, emptied>>

\* RecordDetailPage: confirmPlaceDelete keeps the record as it is shown now.
DeleteAsked(day, photo) ==
    /\ page.at = "detail" /\ Shown
    /\ day \in DaysOf(localRecord) /\ photo \in PhotosOf(day)
    /\ alert' = [record |-> page.record, copy |-> localRecord, day |-> day.id, photo |-> photo.id,
                 behind |-> MayBeBehind(page.record)]
    /\ UNCHANGED <<page, config, saves, writes, emptied, edits, stored, drafting>>

DeleteAnswered(confirmed) ==
    LET days == removeRecordPhoto(alert.copy, alert.day, alert.photo)
        behind == alert.behind \/ Overlapping(alert.record)
    IN  /\ alert # None
        /\ alert' = None
        /\ IF confirmed
           THEN Submitted([Write(alert.record, IF days = <<>> THEN "record" ELSE "photo", alert.photo,
                                 days, alert.copy, behind)
                              EXCEPT !.left = page.at # "detail" \/ page.record # alert.record])
           ELSE UNCHANGED <<config, saves, writes, edits, stored, drafting>>
        /\ UNCHANGED <<page, emptied>>

----------------------------------------------------------------------------
(* The queue of the repository, and what the pages do when a change ends    *)

AtHead(k) == k \in DOMAIN writes /\ ~writes[k].done /\ \A j \in 1..(k - 1) : writes[j].done

Possible(w) ==
    \/ w.op = "record"
    \/ Exists(w.record) /\ Accepts(Others(w.record), w.days)

WriteCommits(k) ==
    /\ AtHead(k) /\ Possible(writes[k])
    /\ records' = [records EXCEPT ![writes[k].record] = writes[k].days]
    /\ writes' = [writes EXCEPT ![k].done = TRUE]
    /\ UNCHANGED <<page, config, saves, cache, missed, refused, alert, emptied, edits, drafting>>

\* The record is gone, the repository refuses the change or the database
\* fails: the page says so and stays.
WriteFails(k) ==
    /\ AtHead(k)
    /\ writes' = RemoveAt(writes, k)
    /\ refused' = IF Possible(writes[k]) THEN refused
                  ELSE refused \cup {IF Exists(writes[k].record) THEN "change" ELSE "not found"}
    /\ page' = [page EXCEPT !.saving = @ /\ writes[k].left]
    /\ UNCHANGED <<config, saves, records, cache, missed, alert, emptied, edits, drafting>>

\* Where the page of the change goes: it pops or replaces whatever is on top.
NextPage(w) ==
    CASE w.op = "photo" -> page
      [] w.op = "record" -> Home
      [] w.op \in {"notes", "place"} ->
            IF page.at = "home" THEN NewPage("detail", w.record, None) ELSE Below(page)

\* Mutant: the queries are not invalidated.
WriteSettlesUnread(k) ==
    LET w == writes[k]
    IN  /\ w.done
        /\ IF w.op = "photo" THEN UNCHANGED <<page, draft, closed, late, search>>
           ELSE ArriveAt(NextPage(w), draft)
        /\ writes' = IF w.op = "photo" THEN RemoveAt(writes, k) ELSE UnattendedSeq(RemoveAt(writes, k))
        /\ saves' = IF w.op = "photo" THEN saves ELSE Unattended(saves)
        /\ UNCHANGED <<picker, config, found, stored, alert, emptied, edits>>

\* The queries are invalidated before the page goes on.
WriteSettles(k) ==
    LET w == writes[k]
    IN  /\ w.done
        /\ IF w.op = "photo" THEN UNCHANGED <<page, draft, closed, late, search>>
           ELSE ArriveAt(NextPage(w), draft)
        /\ cache' = Reread(page.record)
        /\ missed' = (missed \cup {w.record}) \ {page.record}
        /\ writes' = IF w.op = "photo" THEN RemoveAt(writes, k) ELSE UnattendedSeq(RemoveAt(writes, k))
        /\ saves' = IF w.op = "photo" THEN saves ELSE Unattended(saves)
        /\ UNCHANGED <<picker, config, found, records, refused, alert, emptied, edits>>

Back ==
    /\ page.at # "home"
    /\ ArriveAt(Below(page), draft)
    /\ writes' = UnattendedSeq(writes)
    /\ saves' = IF page.at = "compose" THEN Unattended(saves) ELSE saves
    /\ UNCHANGED <<picker, config, found, stored, alert, emptied, edits>>

----------------------------------------------------------------------------
(* The specification                                                        *)

Init ==
    /\ draft = EmptyDraft /\ page = Home /\ picker = None /\ config = None
    /\ search = None /\ found = <<>> /\ saves = {}
    /\ records = [r \in Records |-> None] /\ cache = [r \in Records |-> None] /\ missed = {}
    /\ writes = <<>> /\ alert = None
    /\ refused = {} /\ closed = {} /\ late = {} /\ emptied = {} /\ edits = 0

Drafting ==
    \/ StartRecord \/ PickerOpened \/ OpenCompose \/ ConfirmationAsked
    \/ \E p \in Photos : PhotoRemoved(p) \/ OpenInfo(p)
    \/ \E decision \in {"manual", "nearby"} : GoToPlaces(decision)
    \/ \E date \in Dates : DateChosen(date)
    \/ \E mode \in {"nearby", "keyword", "area"} : ModeChosen(mode)
    \/ page.at = "info" /\ \E place \in Range(found) \cup Searched("keyword") \cup Searched("area") :
            PlaceChosen(place)
    \/ page.at = "compose" /\ \E r \in Records :
            \E notes \in [{getPhotoDetails(draft, p).date : p \in Range(draft.photos)} -> Notes] :
                SaveSubmitted(r, notes)

Editing ==
    \/ OpenEdit \/ RecordDeleteSubmitted
    \/ \E r \in Records : OpenRecord(r)
    \/ page.at = "detail" /\ Shown /\
            (\/ \E visit \in AllVisits(localRecord) : OpenPlaceEdit(visit)
             \/ \E day \in DaysOf(localRecord) : \E photo \in PhotosOf(day) : DeleteAsked(day, photo))
    \/ page.at = "edit" /\ Shown /\ \E notes \in [DOMAIN localRecord -> Notes] : EditSubmitted(notes)
    \/ page.at = "placeEdit" /\ \E date \in TypedDates :
            \E place \in {None} \cup Searched("keyword") \cup Searched("area") :
                PlaceEditSubmitted(date, place)

Elsewhere ==
    \/ PickerClosed \/ SearchWidens \/ RecordRead
    \/ picker # None /\ \E assets \in Picks : PhotosPicked(assets)
    \/ \E r \in Records : CopyForgotten(r)
    \/ \E c \in Configs : ConfigSettles(c)
    \/ \E end \in RequestEnds : SearchEnds(end)
    \/ \E s \in saves : SaveStored(s) \/ SaveFails(s)
    \/ \E k \in DOMAIN writes : WriteCommits(k) \/ WriteFails(k) \/ WriteSettles(k)
    \/ \E confirmed \in BOOLEAN : DeleteAnswered(confirmed)

\* An alert is answered before anything else is pressed.
Next == (alert = None /\ (Drafting \/ Editing \/ Back)) \/ Elsewhere

Spec == Init /\ [][Next]_vars

----------------------------------------------------------------------------
(* Properties                                                               *)

\* What a record of the repository looks like: days in the order of their
\* dates, every photo on one day with one visit of that day, which has an
\* area; a day is empty only when the editor has cleared its note.
Sound(days) ==
    /\ \A k \in 2..Len(days) : Before(days[k - 1].date, days[k].date)
    /\ IsInjective(Ids(days)) /\ DistinctAcross(PhotoLists(days)) /\ DistinctAcross(VisitLists(days))
    /\ \A day \in DaysOf(days) :
          /\ isDateOnlyString(day.date) /\ Len(day.photos) = Len(day.visits)
          /\ {p.id : p \in PhotosOf(day)} = {v.photo : v \in VisitsOf(day)}
          /\ \A v \in VisitsOf(day) : v.at = day.date /\ v.place.area # None
          /\ hasDayContent(day) \/ day.id \in emptied

\* A change is about what was asked for and keeps the rest of the copy it was
\* made from.
KeepsTheRest(w) ==
    LET Rest(days) == {v \in AllVisits(days) : w.of \notin {v.id, v.photo}}
        Noted(days) == {<<day.id, day.note>> : day \in {x \in DaysOf(days) : x.note # ""}}
        Bare(days) == WithNotes(days, [k \in DOMAIN days |-> ""])
    IN  CASE w.op = "notes" -> Bare(w.days) = Bare(w.copy)
          [] w.op = "place" -> /\ AllPhotos(w.days) = AllPhotos(w.copy)
                               /\ Rest(w.days) = Rest(w.copy) /\ Noted(w.days) = Noted(w.copy)
          [] w.op = "photo" -> /\ AllPhotos(w.days) = {p \in AllPhotos(w.copy) : p.id # w.of}
                               /\ AllVisits(w.days) = Rest(w.copy) /\ Noted(w.days) = Noted(w.copy)
          [] w.op = "record" -> w.of = None \/ AllPhotos(w.copy) = {p \in AllPhotos(w.copy) : p.id = w.of}

\* The statistics count what the list of records and the rows of the regions do.
CountsAgree(all, summary, areas, sigungus) ==
    LET stats == getStats(all)
    IN  /\ stats.recordCount = Cardinality(all)
        /\ stats.photoCount = Total(all, LAMBDA days : summary[days].photoCount)
        /\ Total(areas, LAMBDA g : g.visitCount) =
               Total(all, LAMBDA days : summary[days].visitCount)
        /\ stats.areas = Cardinality(areas) /\ stats.sigungus = Cardinality(sigungus)

\* The map shows the district of a visit, a city or county that counts is a
\* district shown, and its province is.
MapAgrees(all, home) ==
    /\ \A v \in VisitsIn(all) : isKtoAreaCode(v.place.area) =>
          isDistrictVisited(v.place.area, v.place.sigungu, home.visitedAreaCodes, home.visitedSigunguKeys)
    /\ home.visitedCityCountyKeys = home.visitedSigunguKeys \cap CityCountyKeys
    /\ {key[1] : key \in home.visitedSigunguKeys} \subseteq home.visitedAreaCodes

\* What a record itself shows is what its row of the list and those of its
\* regions say.
RowAgrees(display, row, areas) ==
    /\ Len(display.days) = row.dayCount
    /\ display.photo \in {None, row.cover}
    /\ ~Before(row.endDate, row.startDate)
    /\ \A g \in areas : g.region[1] \in row.areas =>
          ~Before(row.endDate, g.first) /\ ~Before(g.last, row.startDate)

\* The lists and counts of the home page agree with the records.
ListsAgree ==
    LET all == {records[r] : r \in {r \in Records : Exists(r)}}
        areas == getRegionProgress(all, "area")
        sigungus == getRegionProgress(all, "sigungu")
        summary == [days \in all |-> Summary(days)]
    IN  /\ CountsAgree(all, summary, areas, sigungus)
        /\ {g.region[1] : g \in areas} = UNION {summary[days].areas : days \in all}
        /\ MapAgrees(all, HomeMap({g.region : g \in areas}, {g.region : g \in sigungus}))
        /\ \A days \in all : RowAgrees(mapLocalRecordToDisplay(days), summary[days], areas)

\* Every record that the pages make and change together is sound, the
\* repository refuses nothing they send but a change of a deleted record,
\* every change keeps the rest of the copy it was made from, and the lists
\* agree with the records.  The copy of a change at the head of the queue is
\* the stored record unless, when it was asked for, another change of the
\* record was under way, or one had ended since its page was last read
\* (saveLocalRecordDraft, updateRecordPlace, removeRecordPhoto, the pages and
\* the invalidation of their queries).
RecordsAreSound ==
    /\ \A r \in Records : Exists(r) => Sound(records[r])
    /\ refused \subseteq {"not found"}
    /\ \A k \in DOMAIN writes :
          /\ KeepsTheRest(writes[k])
          /\ AtHead(k) /\ ~writes[k].behind => writes[k].copy = records[writes[k].record]
    /\ ListsAgree

\* A photo leaves the draft because the user removes it or leaves the pages,
\* or because it is stored with the date and the place that the draft has for
\* it.  Two ways lose photos, and are exempt: a save whose page was left ends
\* over what was drafted since (or was opened beside a picker), and a change of a record whose
\* page was left ends over the pages of a draft.
Holds(days, d, p) ==
    \E day \in DaysOf(days) :
        /\ day.date = getPhotoDetails(d, p).date
        /\ \E photo \in PhotosOf(day), v \in VisitsOf(day) :
              photo.asset = p /\ v.photo = photo.id /\ v.place = getPhotoDetails(d, p).place

LeavesTheDraft(lost) ==
    \/ page.at = "photos" /\ page'.at = "photos" /\ Cardinality(lost) = 1
    \/ page.at = "photos" /\ page'.at = "home" /\ writes' = writes
    \/ page.at = "home" /\ page'.at = "photos"
    \/ \E s \in saves :
          /\ s.record \notin {t.record : t \in saves'}
          /\ \/ s.left \/ s.picking
             \/ Exists(s.record)' /\ \A p \in lost : Holds(records'[s.record], draft, p)
    \/ \E k \in DOMAIN writes : writes[k].left /\ Len(writes') < Len(writes)

DraftIsKept ==
    [][LET lost == Range(draft.photos) \ Range(draft'.photos)
       IN  lost # {} => LeavesTheDraft(lost)]_vars

\* The coordinates of a photo are used at most once and with consent: a search
\* runs only while its page looks for what is nearby, the user has agreed to
\* it, and the draft still has them; a photo that was searched for, given a
\* place, looked at or saved has none, and none has any after the user chose
\* to search himself, unless the picker was open at that time
\* (PhotoInfoPage, CreateRecordSessionProvider).
CoordinatesAreTransient ==
    /\ draft.gps \subseteq Range(draft.photos) \cap Located
    /\ draft.gps \cap closed = {}
    /\ draft.decision = "manual" => draft.gps \subseteq late
    /\ search # None =>
          /\ page.at = "info" /\ page.mode = "nearby" /\ draft.decision = "nearby"
          /\ search.photo = selectedPhoto(draft) /\ search.photo \in draft.gps
    /\ \A k \in DOMAIN found : found[k].confidence = "HIGH" => Len(found) = 1


----------------------------------------------------------------------------
(* The inductive invariants behind the properties above.                    *)

Decisions == {"undecided", "manual", "nearby"}
Modes == {"nearby", "keyword", "area"}

PhotoDetails == [date : CalendarDates, place : OfferedPlaces \cup {None}]

Drafts ==
    [photos : Seq(Photos), gps : SUBSET Photos, details : [Photos -> PhotoDetails \cup {None}],
     decision : Decisions, selected : Photos \cup {None}]

IsPage(p) ==
    /\ p.at \in Pages /\ p.mode \in Modes /\ p.saving \in BOOLEAN
    /\ p = [at |-> p.at, mode |-> p.mode, record |-> p.record, visit |-> p.visit, saving |-> p.saving]

DraftTypeOK ==
    /\ draft \in Drafts /\ IsPage(page)
    /\ picker \in Decisions \cup {None}
    /\ config \in Configs \cup {None}
    /\ search \in [photo : Photos, wide : BOOLEAN] \cup {None}
    /\ found \in Seq(OfferedPlaces)
    /\ closed \subseteq Photos /\ late \subseteq Photos

\* The queue holds changes.
Ops == {"notes", "place", "photo", "record"}

QueueOK ==
    /\ writes \in Seq(Range(writes))
    /\ \A w \in Range(writes) :
          /\ w = [record |-> w.record, op |-> w.op, of |-> w.of, days |-> w.days, copy |-> w.copy,
                  behind |-> w.behind, done |-> w.done, left |-> w.left]
          /\ w.op \in Ops /\ {w.behind, w.done, w.left} \subseteq BOOLEAN

\* A photo is shown while one is looked at, and one that is searched for has
\* a configuration to be searched with.
CoordinatesIInv ==
    /\ DraftTypeOK
    /\ Len(draft.photos) <= MaxPhotos
    /\ page.at = "info" => draft.selected \in Range(draft.photos)
    /\ search # None => config # None
    /\ CoordinatesAreTransient

\* A save is of a draft with places, and as long as its page is there, of the
\* draft as it is, unless photos were being picked; a record is saved once.
SavedPhotos == [id : Photos, date : CalendarDates, place : OfferedPlaces]

SavesOK ==
    /\ \A s \in saves :
          /\ s = [record |-> s.record, photos |-> s.photos, notes |-> s.notes,
                  left |-> s.left, picking |-> s.picking]
          /\ s.record \in Records
          /\ s.photos \in Seq(SavedPhotos) /\ s.photos # <<>>
          /\ s.notes \in [{s.photos[k].date : k \in DOMAIN s.photos} -> Notes]
          /\ {s.left, s.picking} \subseteq BOOLEAN
          /\ ~s.left => /\ page.at = "compose"
                        /\ s.picking \/ (picker = None /\ s.photos = DraftPhotos(draft))
    /\ \A s, t \in saves : s.record = t.record => s = t

\* What is stored of record r: every id names the record.
StoredPhotos(r) == [id : {r} \X Nat, asset : Photos]
StoredVisits(r) ==
    [id : {r} \X Nat \X Nat, photo : {r} \X Nat, place : OfferedPlaces, at : DateTexts]
StoredDays(r) ==
    [id : {r} \X ({<<>>} \cup DateTexts) \X Nat, date : DateTexts, note : Notes \cup {""},
     photos : Seq(StoredPhotos(r)), visits : Seq(StoredVisits(r))]

ASSUME StoredAssumption == \A r \in Records : None \notin Seq(StoredDays(r))

\* On the pages of a draft and on the home page no page waits for a change,
\* and no question about a photo is open over the pages of a draft.
DraftIInv ==
    /\ CoordinatesIInv /\ QueueOK /\ SavesOK
    /\ page.at \in {"places", "info", "compose"} => draft.photos # <<>>
    /\ page.at \in DraftPages \cup {"home"} => \A k \in DOMAIN writes : writes[k].left
    /\ alert # None => page.at \in {"home", "detail"}
    /\ records = [r \in Records |-> records[r]]

\* The days of a record: a visit for each photo of a day, and ids that differ.
DayOK(day, cleared) ==
    /\ isDateOnlyString(day.date)
    /\ {p.id : p \in PhotosOf(day)} = {v.photo : v \in VisitsOf(day)}
    /\ \A i, j \in DOMAIN day.visits : day.visits[i].photo = day.visits[j].photo => i = j
    /\ \A v \in VisitsOf(day) : v.at = day.date
    /\ hasDayContent(day) \/ day.id \in cleared

SameRow(d, e, rows, others) ==
    \A i \in DOMAIN rows, j \in DOMAIN others : rows[i].id = others[j].id => d = e /\ i = j

DaysFit(D, cleared) ==
    /\ \A day \in D : DayOK(day, cleared)
    /\ \A d, e \in D :
          /\ d.id = e.id \/ d.date = e.date => d = e
          /\ SameRow(d, e, d.photos, e.photos) /\ SameRow(d, e, d.visits, e.visits)

RecordOK(r, days, cleared) ==
    /\ days \in Seq(StoredDays(r))
    /\ \A m, n \in DOMAIN days : m < n => Before(days[m].date, days[n].date)
    /\ DaysFit(DaysOf(days), cleared)

\* The query client, the question about a photo and a change of the queue have
\* a copy of a record that was stored; it is the record as it is now when no
\* change of it can have come between.
Settled(r) == \A k \in DOMAIN writes : writes[k].record = r => ~writes[k].done

PageShows == page.record # None => page.record \in Records /\ records[page.record] # None

CopiesOK ==
    /\ cache = [r \in Records |-> cache[r]]
    /\ \A r \in Records : cache[r] # None =>
          /\ records[r] # None /\ RecordOK(r, cache[r], emptied)
          /\ r \notin missed /\ Settled(r) => cache[r] = records[r]

AlertAsks ==
    alert # None =>
        /\ alert.record \in Records /\ records[alert.record] # None
        /\ RecordOK(alert.record, alert.copy, emptied) /\ alert.behind \in BOOLEAN
        /\ \E day \in DaysOf(alert.copy) : day.id = alert.day /\ alert.photo \in {p.id : p \in PhotosOf(day)}
        /\ ~alert.behind => alert.copy = records[alert.record] /\ ~Overlapping(alert.record)

WritesOK ==
    \A k \in DOMAIN writes :
        LET w == writes[k]
        IN  /\ w.record \in Records /\ records[w.record] # None
            /\ RecordOK(w.record, w.days, emptied) /\ (w.op # "record" => w.days # <<>>)
            /\ KeepsTheRest(w)
            /\ ~w.behind => \A j \in 1..(k - 1) : writes[j].record # w.record
            /\ ~w.behind /\ ~w.done => w.copy = records[w.record]

Stored == {r \in Records : records[r] # None}

RecordsIInv ==
    /\ DraftIInv
    /\ IsFiniteSet(Stored) /\ \A r \in Stored : RecordOK(r, records[r], emptied)
    /\ \A s \in saves : s.record \notin Stored
    /\ PageShows /\ CopiesOK /\ AlertAsks /\ WritesOK
    /\ refused \subseteq {"not found"}

=============================================================================
