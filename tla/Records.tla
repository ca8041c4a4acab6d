------------------------------ MODULE Records ------------------------------
(***************************************************************************)
(* The travel records of the API: RecordsService, RecordPlacesService and   *)
(* their Prisma adapters (src/apps/api/src/records).  Requests of any users *)
(* run side by side; a step is one SQL statement, one call to KTO or one    *)
(* inspection of an image, so that anything may happen between the check of *)
(* the owner and the write that relies on it.                               *)
(*                                                                          *)
(* Of PostgreSQL the model has what the statements meet at READ COMMITTED:  *)
(* the foreign keys and their cascade, the unique keys, the row locks of    *)
(* statements that wait and of the one transaction (upsertEntry), and the   *)
(* abortion of a statement in a deadlock.  Titles, texts and times are left *)
(* out.  The ids the database makes are new ones.                           *)
(***************************************************************************)
EXTENDS Tourism

CONSTANTS
    Users,
    Records,     \* ids of records
    Photos,      \* ids of photos
    Visits,      \* ids of record places
    Contents,    \* KTO content ids a client may send
    LastDay,     \* the days of a trip are 1 .. LastDay
    Requests,    \* requests in progress at a time
    MaxPhotos,   \* MAX_PHOTOS_PER_RECORD
    MaxTotal,    \* MAX_TOTAL_BYTES_PER_USER, in photos of the size of all photos here
    Images       \* the uploads a client may send, as the image decoder sees them

ASSUME RecordsAssumption ==
    /\ None \notin Users \cup Records \cup Photos \cup Visits \cup Contents \cup Requests
    /\ {"new", "deleted"} \cap Users = {}
    /\ MaxPhotos \in Nat /\ MaxTotal \in Nat /\ LastDay \in Nat
    /\ IsFiniteSet(Requests) /\ Requests # {}

Days == 1 .. LastDay

VARIABLES
    owner,     \* records: the user of each record, "new" or "deleted"
    entries,   \* record_entries: the days of each record that have one
    photos,    \* record_photos: the rows [id, record, day]
    places,    \* record_places: the rows [id, record, content, day, area, sigungu]
    used,      \* the photo and place ids given out
    locks,     \* row locks on records that outlive a step: [by, record, mode]
    held,      \* the transaction that holds the row of an entry, or None
    task       \* what each request is doing

db == <<owner, entries, photos, places, used>>
vars == <<owner, entries, photos, places, used, locks, held, task>>

----------------------------------------------------------------------------
(* Tables.                                                                  *)

Live == {r \in Records : owner[r] \in Users}
Owns(u, r) == r # None /\ owner[r] = u
RecordsOf(u) == {r \in Live : owner[r] = u}
PhotosOf(r) == {p \in photos : p.record = r}
PhotosOfUser(u) == {p \in photos : Owns(u, p.record)}
PlacesOf(r) == {v \in places : v.record = r}

\* The statement `where: { id, recordId, record: { userId } }` of a child row.
PhotoRows(t) == {p \in PhotosOf(t.record) : p.id = t.item /\ p.day = t.day /\ Owns(t.user, t.record)}
PlaceRows(t) == {v \in PlacesOf(t.record) : v.id = t.item /\ Owns(t.user, t.record)}

\* The rows of records R go with them: onDelete: Cascade.
DeleteRows(R) ==
    /\ owner' = [r \in Records |-> IF r \in R THEN "deleted" ELSE owner[r]]
    /\ entries' = [r \in Records |-> IF r \in R THEN {} ELSE entries[r]]
    /\ photos' = {p \in photos : p.record \notin R}
    /\ places' = {v \in places : v.record \notin R}

\* Row locks.  An insert into a child table takes FOR KEY SHARE on its record,
\* a deletion FOR UPDATE, an update of other columns FOR NO KEY UPDATE.
Conflicts ==
    {{"key share", "update"}, {"share", "update"}, {"update"},
     {"share", "no key update"}, {"no key update", "update"}, {"no key update"}}

Blockers(q, r, mode) ==
    {l.by : l \in {k \in locks : k.record = r /\ k.by # q /\ {k.mode, mode} \in Conflicts}}

EntryHolder(r, d) == held[<<r, d>>]

----------------------------------------------------------------------------
(* Requests.                                                                *)

Ops == {"create", "get", "update", "delete", "deleteAll", "upsertEntry", "deleteEntry",
        "addPhoto", "deletePhoto", "addPlace", "updatePlace", "deletePlace"}

Places == {"insert", "find", "set", "reread", "rows", "lock", "upsert", "stamp", "remove",
           "measure", "inspect", "own", "store", "verify"}

Answers == {"200", "400", "404", "409", "413", "502", "503", "504", "error", "aborted"}

ASSUME NoneAssumption == None \notin Ops /\ None \notin Days /\ None \notin {"new", "deleted"}

Done(answer) ==
    [op |-> None, pc |-> answer, user |-> None, record |-> None, day |-> None,
     item |-> None, content |-> None, codes |-> None, rows |-> {}, left |-> {}, room |-> TRUE]

Codes == {resolveKtoRegionCodes(KtoItems[c]) : c \in DOMAIN KtoItems}

Task ==
    [op : Ops \cup {None}, pc : Places \cup Answers, user : Users \cup {None},
     record : Records \cup {None}, day : Days \cup {None},
     item : Photos \cup Visits \cup {None}, content : Contents \cup {None},
     codes : Codes \cup {None}, rows : SUBSET Records,
     left : SUBSET {"count", "sum"}, room : BOOLEAN]

Init ==
    /\ owner = [r \in Records |-> "new"]
    /\ entries = [r \in Records |-> {}]
    /\ photos = {} /\ places = {} /\ used = {}
    /\ locks = {}
    /\ held = [e \in Records \X Days |-> None]
    /\ task = [q \in Requests |-> Done("200")]

Idle(q) == task[q].pc \in Answers
At(q, op, pc) == task[q].op = op /\ task[q].pc = pc
Goto(q, pc) == task' = [task EXCEPT ![q].pc = pc]
Answer(q, answer) == task' = [task EXCEPT ![q] = Done(answer)]
NoLocks == UNCHANGED <<locks, held>>

\* Bound: a request that makes an id arrives while there is one left for it.
Makes == [create |-> {r \in Records : owner[r] = "new"}, addPhoto |-> Photos \ used,
          addPlace |-> Visits \ used]
IdsLeft(op) ==
    op \in DOMAIN Makes =>
        Cardinality(Makes[op]) > Cardinality({q \in Requests : task[q].op = op})

\* A request arrives, for a record that exists or has existed.
Sent(q, op, pc, u, r, d, i, c) ==
    /\ IdsLeft(op)
    /\ task' = [task EXCEPT ![q] =
           [Done("200") EXCEPT !.op = op, !.pc = pc, !.user = u, !.record = r,
                               !.day = d, !.item = i, !.content = c]]

Arrive(q) ==
    /\ Idle(q)
    /\ \E u \in Users :
        \/ Sent(q, "create", "insert", u, None, None, None, None)
        \/ Sent(q, "deleteAll", "rows", u, None, None, None, None)
        \/ \E r \in {x \in Records : owner[x] # "new"} :
            \/ Sent(q, "get", "find", u, r, None, None, None)
            \/ Sent(q, "update", "set", u, r, None, None, None)
            \/ Sent(q, "delete", "rows", u, r, None, None, None)
            \/ \E d \in Days :
                \/ Sent(q, "upsertEntry", "find", u, r, d, None, None)
                \/ Sent(q, "deleteEntry", "remove", u, r, d, None, None)
                \/ Sent(q, "addPhoto", "find", u, r, d, None, None)
                \/ \E c \in Contents : Sent(q, "addPlace", "find", u, r, d, None, c)
                \/ \E i \in used \cap Photos :
                    \/ Sent(q, "get", "find", u, r, d, i, None)
                    \/ Sent(q, "deletePhoto", "remove", u, r, d, i, None)
            \/ \E i \in used \cap Visits :
                \/ Sent(q, "deletePlace", "remove", u, r, None, i, None)
                \/ \E d \in Days : Sent(q, "updatePlace", "store", u, r, d, i, None)
                \/ \E d \in Days \cup {None}, c \in Contents :
                       Sent(q, "updatePlace", "verify", u, r, d, i, c)
    /\ NoLocks /\ UNCHANGED db

----------------------------------------------------------------------------
(* Records.                                                                 *)

\* POST /records
Create(q) ==
    /\ At(q, "create", "insert")
    /\ \E r \in Records : owner[r] = "new" /\ owner' = [owner EXCEPT ![r] = task[q].user]
    /\ Answer(q, "200")
    /\ NoLocks /\ UNCHANGED <<entries, photos, places, used>>

\* GET of a record, of its places or of a photo: 404 unless it is the caller's.
Get(q) ==
    LET t == task[q]
        found == IF t.item = None THEN Owns(t.user, t.record) ELSE PhotoRows(t) # {}
    IN  /\ At(q, "get", "find")
        /\ Answer(q, IF found THEN "200" ELSE "404")
        /\ NoLocks /\ UNCHANGED db

\* PATCH /records/:id: updateMany, then a read that throws when the record
\* has been deleted in between.
Update(q) ==
    /\ At(q, "update", "set")
    /\ IF Owns(task[q].user, task[q].record)
       THEN Blockers(q, task[q].record, "no key update") = {} /\ Goto(q, "reread")
       ELSE Answer(q, "404")
    /\ NoLocks /\ UNCHANGED db

Reread(q) ==
    /\ At(q, "update", "reread")
    /\ Answer(q, IF Owns(task[q].user, task[q].record) THEN "200" ELSE "error")
    /\ NoLocks /\ UNCHANGED db

\* DELETE /records/:id and /records.  The statement takes the rows its
\* snapshot shows one after the other, skips those that are gone by then, and
\* cascades once it has them all.
FindRows(q) ==
    LET t == task[q]
        rows == IF t.op = "deleteAll" THEN RecordsOf(t.user)
                ELSE {r \in Records : r = t.record /\ Owns(t.user, r)}
    IN  /\ t.pc = "rows"
        /\ IF rows # {} THEN task' = [task EXCEPT ![q].pc = "lock", ![q].rows = rows]
           ELSE Answer(q, IF t.op = "delete" THEN "404" ELSE "200")
        /\ NoLocks /\ UNCHANGED db

Locked(q) == {l.record : l \in {k \in locks : k.by = q}}

LockRow(q) ==
    /\ task[q].pc = "lock"
    /\ \E r \in task[q].rows \ Locked(q) :
        IF r \in Live
        THEN /\ Blockers(q, r, "update") = {}
             /\ locks' = locks \cup {[by |-> q, record |-> r, mode |-> "update"]}
             /\ UNCHANGED task
        ELSE /\ task' = [task EXCEPT ![q].rows = @ \ {r}]
             /\ UNCHANGED locks
    /\ UNCHANGED <<db, held>>

EntryHolders(q) ==
    {EntryHolder(r, d) : r \in task[q].rows, d \in Days} \ {None, q}

Cascade(q) ==
    LET t == task[q]
    IN  /\ t.pc = "lock" /\ t.rows \subseteq Locked(q)
        /\ EntryHolders(q) = {}
        /\ DeleteRows(t.rows)
        /\ locks' = {l \in locks : l.by # q}
        /\ Answer(q, IF t.op = "delete" /\ t.rows = {} THEN "404" ELSE "200")
        /\ UNCHANGED <<used, held>>

----------------------------------------------------------------------------
(* Entries.                                                                 *)

\* Mutant: the owner is checked with FOR SHARE.
UpsertFindShared(q) ==
    LET t == task[q]
    IN  /\ At(q, "upsertEntry", "find")
        /\ IF Owns(t.user, t.record)
           THEN /\ Goto(q, "upsert") /\ Blockers(q, t.record, "share") = {}
                /\ locks' = locks \cup {[by |-> q, record |-> t.record, mode |-> "share"]}
           ELSE Answer(q, "404") /\ UNCHANGED locks
        /\ UNCHANGED <<db, held>>

\* PUT .../entry: one transaction.  The owner is checked, the entry is
\* inserted or updated, and the record is updated.
UpsertFind(q) ==
    /\ At(q, "upsertEntry", "find")
    /\ IF Owns(task[q].user, task[q].record) THEN Goto(q, "upsert") ELSE Answer(q, "404")
    /\ NoLocks /\ UNCHANGED db

UpsertEntry(q) ==
    LET t == task[q]
    IN  /\ At(q, "upsertEntry", "upsert")
        /\ EntryHolder(t.record, t.day) = None
        /\ \/ t.record \in Live /\ t.day \in entries[t.record] /\ UNCHANGED locks
           \/ /\ t.record \in Live /\ t.day \notin entries[t.record]
              /\ Blockers(q, t.record, "key share") = {}
              /\ locks' = locks \cup {[by |-> q, record |-> t.record, mode |-> "key share"]}
        /\ held' = [held EXCEPT ![<<t.record, t.day>>] = q]
        /\ Goto(q, "stamp")
        /\ UNCHANGED db

\* The foreign key of the entry, when the record is gone.
UpsertFails(q) ==
    /\ At(q, "upsertEntry", "upsert") /\ task[q].record \notin Live
    /\ locks' = {l \in locks : l.by # q}
    /\ Answer(q, "error")
    /\ UNCHANGED <<db, held>>

\* Mutant: the transaction is left open after the answer.
CommitLeftOpen(q) ==
    LET t == task[q]
    IN  /\ At(q, "upsertEntry", "stamp")
        /\ Blockers(q, t.record, "no key update") = {}
        /\ entries' = [entries EXCEPT ![t.record] = @ \cup {t.day}]
        /\ Answer(q, "200")
        /\ NoLocks /\ UNCHANGED <<owner, photos, places, used>>

\* record.update and the commit.
Commit(q) ==
    LET t == task[q]
    IN  /\ At(q, "upsertEntry", "stamp")
        /\ Blockers(q, t.record, "no key update") = {}
        /\ entries' = [entries EXCEPT ![t.record] = @ \cup {t.day}]
        /\ locks' = {l \in locks : l.by # q}
        /\ held' = [e \in DOMAIN held |-> IF held[e] = q THEN None ELSE held[e]]
        /\ Answer(q, "200")
        /\ UNCHANGED <<owner, photos, places, used>>

\* DELETE .../entry: waits for a transaction that holds the row.
RemoveEntry(q) ==
    LET t == task[q]
        found == Owns(t.user, t.record) /\ t.day \in entries[t.record]
    IN  /\ At(q, "deleteEntry", "remove")
        /\ found => EntryHolder(t.record, t.day) = None
        /\ entries' = IF found THEN [entries EXCEPT ![t.record] = @ \ {t.day}] ELSE entries
        /\ Answer(q, IF found THEN "200" ELSE "404")
        /\ NoLocks /\ UNCHANGED <<owner, photos, places, used>>

----------------------------------------------------------------------------
(* Deadlocks.                                                               *)

\* The requests that a request waits for.
WaitsFor(q) ==
    LET t == task[q]
    IN  CASE At(q, "upsertEntry", "upsert") /\ t.record \in Live ->
               ({EntryHolder(t.record, t.day)} \ {None})
                   \cup IF t.day \in entries[t.record] THEN {} ELSE Blockers(q, t.record, "key share")
          [] At(q, "upsertEntry", "stamp") -> Blockers(q, t.record, "no key update")
          [] t.pc = "lock" ->
               IF t.rows \subseteq Locked(q) THEN EntryHolders(q)
               ELSE UNION {Blockers(q, r, "update") : r \in (t.rows \ Locked(q)) \cap Live}
          [] OTHER -> {}

\* Cycles of two.
Deadlocked(q) == \E p \in Requests \ {q} : p \in WaitsFor(q) /\ q \in WaitsFor(p)

\* PostgreSQL aborts one of them: a transaction loses what it did, a deletion
\* deletes nothing, and the client gets a 500.
Abort(q) ==
    /\ Deadlocked(q)
    /\ locks' = {l \in locks : l.by # q}
    /\ held' = [e \in DOMAIN held |-> IF held[e] = q THEN None ELSE held[e]]
    /\ Answer(q, "aborted")
    /\ UNCHANGED db

----------------------------------------------------------------------------
(* Photos.                                                                  *)

\* SharpImageInspectorAdapter.inspect: what it rejects, "ok" otherwise.
inspect(image) ==
    IF ~image.decodes THEN "NOT_AN_IMAGE"
    ELSE IF image.format \notin {"jpeg", "webp"} THEN "UNSUPPORTED_FORMAT"
    ELSE IF image.side = 0 THEN "NOT_AN_IMAGE"
    ELSE IF image.side > 4096 THEN "TOO_LARGE_DIMENSIONS"
    ELSE IF image.meta \in {"exif", "xmp", "iptc"} THEN "HAS_METADATA"
    ELSE "ok"

Inspections == {inspect(image) : image \in Images}

\* POST .../photos.  FileInterceptor refuses a request without a file (400)
\* or with one above MAX_PHOTO_BYTES (413) before the service sees it.
RefuseUpload(q) ==
    /\ At(q, "addPhoto", "find")
    /\ \E answer \in {"400", "413"} : Answer(q, answer)
    /\ NoLocks /\ UNCHANGED db

\* photoUsage: the owner, then the number of photos of the record and the
\* bytes of the user, two statements in either order.
FindUsage(q) ==
    /\ At(q, "addPhoto", "find")
    /\ IF Owns(task[q].user, task[q].record)
       THEN task' = [task EXCEPT ![q].pc = "measure", ![q].left = {"count", "sum"}]
       ELSE Answer(q, "404")
    /\ NoLocks /\ UNCHANGED db

\* Mutant: the limit itself is let through.
RoomAtLimit(t, measure) ==
    IF measure = "count" THEN Cardinality(PhotosOf(t.record)) <= MaxPhotos
    ELSE Cardinality(PhotosOfUser(t.user)) <= MaxTotal

Room(t, measure) ==
    IF measure = "count" THEN Cardinality(PhotosOf(t.record)) < MaxPhotos
    ELSE Cardinality(PhotosOfUser(t.user)) + 1 <= MaxTotal

Measure(q) ==
    LET t == task[q]
    IN  /\ At(q, "addPhoto", "measure")
        /\ \E m \in t.left :
            task' = [task EXCEPT ![q].room = @ /\ Room(t, m), ![q].left = @ \ {m},
                                 ![q].pc = IF t.left = {m} THEN "inspect" ELSE @]
        /\ NoLocks /\ UNCHANGED db

\* The quota first, then the image.
Inspect(q) ==
    /\ At(q, "addPhoto", "inspect")
    /\ IF ~task[q].room THEN Answer(q, "413")
       ELSE \E result \in Inspections :
                IF result = "ok" THEN Goto(q, "own") ELSE Answer(q, "400")
    /\ NoLocks /\ UNCHANGED db

OwnsPhotoRecord(q) ==
    /\ At(q, "addPhoto", "own")
    /\ IF Owns(task[q].user, task[q].record) THEN Goto(q, "store") ELSE Answer(q, "404")
    /\ NoLocks /\ UNCHANGED db

\* Mutant: record_photos has no foreign key.
StorePhotoLoose(q) ==
    LET t == task[q]
    IN  /\ At(q, "addPhoto", "store")
        /\ \E i \in Photos \ used :
                /\ photos' = photos \cup {[id |-> i, record |-> t.record, day |-> t.day]}
                /\ used' = used \cup {i}
        /\ Answer(q, "200")
        /\ NoLocks /\ UNCHANGED <<owner, entries, places>>

StorePhoto(q) ==
    LET t == task[q]
    IN  /\ At(q, "addPhoto", "store")
        /\ Blockers(q, t.record, "key share") = {}
        /\ IF t.record \in Live
           THEN \E i \in Photos \ used :
                    /\ photos' = photos \cup {[id |-> i, record |-> t.record, day |-> t.day]}
                    /\ used' = used \cup {i}
                    /\ Answer(q, "200")
           ELSE Answer(q, "error") /\ UNCHANGED <<photos, used>>
        /\ NoLocks /\ UNCHANGED <<owner, entries, places>>

\* DELETE .../photos/:photoId
RemovePhoto(q) ==
    LET rows == PhotoRows(task[q])
    IN  /\ At(q, "deletePhoto", "remove")
        /\ photos' = photos \ rows
        /\ Answer(q, IF rows = {} THEN "404" ELSE "200")
        /\ NoLocks /\ UNCHANGED <<owner, entries, places, used>>

----------------------------------------------------------------------------
(* Places.                                                                  *)

\* POST .../places: the owner is checked before KTO is asked.
FindPlaces(q) ==
    /\ At(q, "addPlace", "find")
    /\ IF Owns(task[q].user, task[q].record) THEN Goto(q, "verify") ELSE Answer(q, "404")
    /\ NoLocks /\ UNCHANGED db

\* verify: the codes of the content come from KTO, never from the client.
Verify(q) ==
    LET t == task[q]
    IN  /\ t.pc = "verify"
        /\ \E code \in DetailCodes(t.content) :
            IF code = "ok"
            THEN task' = [task EXCEPT ![q].codes = resolveKtoRegionCodes(KtoItems[t.content]),
                                      ![q].pc = IF t.op = "addPlace" THEN "own" ELSE "store"]
            ELSE Answer(q, code)
        /\ NoLocks /\ UNCHANGED db

OwnsPlaceRecord(q) ==
    /\ At(q, "addPlace", "own")
    /\ IF Owns(task[q].user, task[q].record) THEN Goto(q, "store") ELSE Answer(q, "404")
    /\ NoLocks /\ UNCHANGED db

\* The unique key (recordId, ktoContentId, visitedAt).
Taken(row) ==
    \E v \in places : /\ v.id # row.id /\ v.record = row.record
                      /\ v.content = row.content /\ v.day = row.day

\* Mutant: the list that was read first decides, there is no unique key.
StorePlaceAgain(q) ==
    LET t == task[q]
    IN  /\ At(q, "addPlace", "store") /\ t.record \in Live
        /\ \E i \in Visits \ used :
                /\ places' = places \cup {[id |-> i, record |-> t.record, content |-> t.content,
                                day |-> t.day, area |-> t.codes.area, sigungu |-> t.codes.sigungu]}
                /\ used' = used \cup {i}
        /\ Answer(q, "200")
        /\ NoLocks /\ UNCHANGED <<owner, entries, photos>>

\* Mutant: every error of the insert is taken for a duplicate.
StorePlaceAbsorbs(q) ==
    /\ At(q, "addPlace", "store") /\ task[q].record \notin Live
    /\ Answer(q, "409")
    /\ NoLocks /\ UNCHANGED db

StorePlace(q) ==
    LET t == task[q]
        row(i) == [id |-> i, record |-> t.record, content |-> t.content, day |-> t.day,
                   area |-> t.codes.area, sigungu |-> t.codes.sigungu]
    IN  /\ At(q, "addPlace", "store")
        /\ Blockers(q, t.record, "key share") = {}
        /\ IF t.record \notin Live THEN Answer(q, "error") /\ UNCHANGED <<places, used>>
           ELSE \E i \in Visits \ used :
                    IF Taken(row(i)) THEN Answer(q, "409") /\ UNCHANGED <<places, used>>
                    ELSE /\ places' = places \cup {row(i)}
                         /\ used' = used \cup {i}
                         /\ Answer(q, "200")
        /\ NoLocks /\ UNCHANGED <<owner, entries, photos>>

\* Mutant: a field that is not sent is set as well.
PatchedWhole(v, t) == [v EXCEPT !.day = t.day]

\* Mutant: the codes stay when the content changes.
PatchedContent(v, t) ==
    [v EXCEPT !.content = IF t.content # None THEN t.content ELSE @,
              !.day = IF t.day # None THEN t.day ELSE @]

\* PATCH .../places/:placeId: only the fields that are sent are set, and the
\* codes with the content.
Patched(v, t) ==
    [v EXCEPT !.content = IF t.content # None THEN t.content ELSE @,
              !.day = IF t.day # None THEN t.day ELSE @,
              !.area = IF t.content # None THEN t.codes.area ELSE @,
              !.sigungu = IF t.content # None THEN t.codes.sigungu ELSE @]

UpdatePlace(q) ==
    LET t == task[q]
    IN  /\ At(q, "updatePlace", "store")
        /\ IF PlaceRows(t) = {} THEN Answer(q, "404") /\ UNCHANGED places
           ELSE \E v \in PlaceRows(t) :
                    IF Taken(Patched(v, t)) THEN Answer(q, "409") /\ UNCHANGED places
                    ELSE places' = (places \ {v}) \cup {Patched(v, t)} /\ Goto(q, "reread")
        /\ NoLocks /\ UNCHANGED <<owner, entries, photos, used>>

RereadPlace(q) ==
    /\ At(q, "updatePlace", "reread")
    /\ Answer(q, IF PlaceRows(task[q]) # {} THEN "200" ELSE "404")
    /\ NoLocks /\ UNCHANGED db

RemovePlace(q) ==
    LET rows == PlaceRows(task[q])
    IN  /\ At(q, "deletePlace", "remove")
        /\ places' = places \ rows
        /\ Answer(q, IF rows = {} THEN "404" ELSE "200")
        /\ NoLocks /\ UNCHANGED <<owner, entries, photos, used>>

----------------------------------------------------------------------------
(* What the lists show.                                                     *)

Least(S) == CHOOSE x \in S : \A y \in S : x <= y
Greatest(S) == CHOOSE x \in S : \A y \in S : x >= y

\* Mutant: the range covers the entries only.
SummaryOfEntries(r) ==
    LET first == {p \in PhotosOf(r) : \A o \in PhotosOf(r) : p.day <= o.day}
    IN  [entryCount |-> Cardinality(entries[r]),
         startDate |-> IF entries[r] = {} THEN None ELSE Least(entries[r]),
         endDate |-> IF entries[r] = {} THEN None ELSE Greatest(entries[r]),
         coverDay |-> IF first = {} THEN None ELSE (CHOOSE p \in first : TRUE).day]

\* toSummary: the range covers entries and photos, the cover is the first
\* photo of the earliest day.
Summary(r) ==
    LET days == entries[r] \cup {p.day : p \in PhotosOf(r)}
        first == {p \in PhotosOf(r) : \A o \in PhotosOf(r) : p.day <= o.day}
    IN  [entryCount |-> Cardinality(entries[r]),
         startDate |-> IF days = {} THEN None ELSE Least(days),
         endDate |-> IF days = {} THEN None ELSE Greatest(days),
         coverDay |-> IF first = {} THEN None ELSE (CHOOSE p \in first : TRUE).day]

\* findDetail: entries and photos are put on their days, in order.
Detail(r) ==
    LET days == entries[r] \cup {p.day : p \in PhotosOf(r)}
        at == Ascending(days)
        day(d) == [date |-> d, entry |-> d \in entries[r],
                   photos |-> {p \in PhotosOf(r) : p.day = d}]
    IN  [n \in DOMAIN at |-> day(at[n])]

\* Mutant: the places of all users are grouped.
tallyRegionsOfAll(u) ==
    LET of(a) == {v \in places : v.area = a}
    IN  {[area |-> a, visitCount |-> Cardinality(of(a)),
          firstVisitedAt |-> Least({v.day : v \in of(a)}),
          lastVisitedAt |-> Greatest({v.day : v \in of(a)})] : a \in {v.area : v \in places}}

\* The places of a user by area; an unknown area is one of its own.
tallyRegions(u) ==
    LET mine == {v \in places : Owns(u, v.record)}
        of(a) == {v \in mine : v.area = a}
    IN  {[area |-> a, visitCount |-> Cardinality(of(a)),
          firstVisitedAt |-> Least({v.day : v \in of(a)}),
          lastVisitedAt |-> Greatest({v.day : v \in of(a)})] : a \in {v.area : v \in mine}}

progress(u) ==
    [visitedAreaCount |-> Cardinality(tallyRegions(u)),
     recordedPlaceCount |-> Total(tallyRegions(u), LAMBDA g : g.visitCount),
     regions |-> tallyRegions(u)]

----------------------------------------------------------------------------
(* The specification.                                                       *)

RecordStep(q) == Create(q) \/ Get(q) \/ Update(q) \/ Reread(q) \/ FindRows(q)
Deletion(q) == LockRow(q) \/ Cascade(q)
EntryStep(q) == UpsertFind(q) \/ UpsertEntry(q) \/ UpsertFails(q) \/ Commit(q) \/ RemoveEntry(q)
PhotoStep(q) ==
    \/ RefuseUpload(q) \/ FindUsage(q) \/ Measure(q) \/ Inspect(q)
    \/ OwnsPhotoRecord(q) \/ StorePhoto(q) \/ RemovePhoto(q)
PlaceStep(q) ==
    \/ FindPlaces(q) \/ Verify(q) \/ OwnsPlaceRecord(q) \/ StorePlace(q)
    \/ UpdatePlace(q) \/ RereadPlace(q) \/ RemovePlace(q)

Runs(q) == RecordStep(q) \/ Deletion(q) \/ EntryStep(q) \/ PhotoStep(q) \/ PlaceStep(q)

Next == \E q \in Requests : Arrive(q) \/ Runs(q) \/ Abort(q)

Spec == Init /\ [][Next]_vars

----------------------------------------------------------------------------
(* Properties.                                                              *)

\* The tables and the requests hold values of their kinds.
TypeOK ==
    /\ owner \in [Records -> Users \cup {"new", "deleted"}]
    /\ entries \in [Records -> SUBSET Days]
    /\ photos \subseteq [id : Photos, record : Records, day : Days]
    /\ places \subseteq [id : Visits, record : Records, content : Contents, day : Days,
                         area : {c.area : c \in Codes}, sigungu : {c.sigungu : c \in Codes}]
    /\ used \subseteq Photos \cup Visits
    /\ locks \subseteq [by : Requests, record : Records, mode : {"key share", "share", "update"}]
    /\ held \in [Records \X Days -> Requests \cup {None}]
    /\ task \in [Requests -> Task]

\* However a deletion falls between the check of the owner and the write of an
\* entry, a photo or a place, no row is left of a record that is gone
\* (addPhoto, upsertEntry, RecordPlacesService.add).
NoOrphans ==
    /\ \A r \in Records \ Live : entries[r] = {}
    /\ \A x \in photos \cup places : x.record \in Live

\* The quota is read before the photo is stored, so uploads side by side pass
\* it; but each request passes it by one photo at most, and never more
\* (RecordsService.addPhoto).
QuotaOvershoot ==
    /\ \A r \in Live : Cardinality(PhotosOf(r)) < MaxPhotos + Cardinality(Requests)
    /\ \A u \in Users : Cardinality(PhotosOfUser(u)) < MaxTotal + Cardinality(Requests)

\* Two clients that write entries of one record never deadlock, on the same day
\* or on two: of two statements that wait for each other one is a deletion
\* (PrismaRecordsAdapter.upsertEntry).
WritersNeverDeadlock ==
    \A p, q \in Requests :
        p # q /\ p \in WaitsFor(q) /\ q \in WaitsFor(p)
            => "lock" \in {task[p].pc, task[q].pc}

\* No lock outlives the request that took it: an answered request, also one that
\* failed or was aborted, has none, so whoever waits waits for one that runs.
LocksAreReleased ==
    /\ \A l \in locks : task[l.by].pc \in {"stamp", "lock"}
    /\ \A e \in DOMAIN held : held[e] # None => At(held[e], "upsertEntry", "stamp")

\* Row locks are held by running requests only, and only a deletion can close
\* a circle of waiting requests.
LocksAreSound == WritersNeverDeadlock /\ LocksAreReleased

\* A record never has the same place twice on a day, whatever adds and updates
\* run side by side (RecordPlacesService.add, update).
PlacesAreDistinct ==
    \A v, w \in places :
        v.record = w.record /\ v.content = w.content /\ v.day = w.day => v = w

\* A stored place is one that KTO knows and has its codes, also after updates
\* of its content and its day that run side by side (verify).
CodesAreVerified ==
    \A v \in places :
        LET codes == resolveKtoRegionCodes(KtoItems[v.content])
        IN  /\ v.content \in DOMAIN KtoItems /\ parseListItem(v.content)
            /\ v.area = codes.area /\ v.sigungu = codes.sigungu

\* The rows of the four tables agree, whatever requests overlap.
RowsAgree == TypeOK /\ NoOrphans /\ PlacesAreDistinct /\ CodesAreVerified

\* A list of at most `limit' places has this one, or so many of the region or of
\* the titles asked for come before it.
ListedOrLater(c, list, region, limit) ==
    c \in Range(list) \/ Cardinality({o \in region : o < c}) >= limit

\* The usable places of a region by the codes Tripic stores, and the rows that
\* KTO has in the legal area of c, or in its district.
Region(area, sigungu) ==
    {o \in DOMAIN KtoItems :
        LET codes == resolveKtoRegionCodes(KtoItems[o])
        IN  parseListItem(o) /\ codes.area = area /\ sigungu \in {None, codes.sigungu}}

District(item) == IF item.legalSigungu = None THEN None ELSE item.legalSigungu.district
LegalRegion(c, whole) ==
    {o \in DOMAIN KtoItems :
        /\ KtoItems[o].legalArea = KtoItems[c].legalArea
        /\ whole \/ District(KtoItems[o]) = District(KtoItems[c])}

\* Only so many rows of a legal region are asked for; of one that two areas
\* share, as many as can be had.
RowsAsked(area, sigungu, limit) ==
    IF sigungu = None /\ SharesLegalArea(area) THEN MaxRows ELSE limit

\* The search finds content c by the codes k, with any limit.
Finds(c, k) ==
    \A limit \in 1..MaxRows :
        /\ \A sigungu \in {None, k.sigungu} :
              \/ ListedOrLater(c, findByArea(k.area, sigungu, limit), Region(k.area, sigungu), limit)
              \/ Cardinality({o \in LegalRegion(c, sigungu = None) : o < c})
                     >= RowsAsked(k.area, sigungu, limit)
        /\ \A keyword \in SUBSET DOMAIN KtoItems :
              c \in keyword => ListedOrLater(c, searchByKeyword(keyword, limit), keyword, limit)

FoundByCodes ==
    UNION {{<<c, k>> : c \in {x \in Contents \cap DOMAIN KtoItems : Finds(x, k)}} :
               k \in {x \in Codes : x.area # None}}

\* A stored place whose district is mapped is found again when its region is
\* searched, by area and by district, with any limit unless so many usable places
\* of that region come before it, or as many rows of the legal region as are
\* asked for; and by a keyword of its title.  The search asks KTO in legal
\* codes for what was stored in legacy ones (areaSearchFilters, findByArea,
\* resolveKtoRegionCodes).
StoredPlacesAreFound ==
    \A v \in places :
        Mapped(KtoItems[v.content]) =>
            <<v.content, [area |-> v.area, sigungu |-> v.sigungu]>> \in FoundByCodes

\* The list and the detail of a record tell the same: its first and last day,
\* the number of entries and the day of the cover (toSummary, findDetail).
SummaryMatchesDetail ==
    \A r \in Live :
        LET days == Detail(r)
            withPhotos == {n \in DOMAIN days : days[n].photos # {}}
        IN  Summary(r) =
                [entryCount |-> Cardinality({n \in DOMAIN days : days[n].entry}),
                 startDate |-> IF days = <<>> THEN None ELSE days[1].date,
                 endDate |-> IF days = <<>> THEN None ELSE days[Len(days)].date,
                 coverDay |-> IF withPhotos = {} THEN None ELSE days[Least(withPhotos)].date]

\* The map's progress counts every place of the user's records once, for the
\* area KTO gives it, on days on which it was visited, and forgets a deleted
\* record with its places (tallyRegions, progress).
ProgressMatchesPlaces ==
    \A u \in Users :
        LET mine == UNION {PlacesOf(r) : r \in RecordsOf(u)}
            p == progress(u)
        IN  /\ p.recordedPlaceCount = Cardinality(mine)
            /\ p.visitedAreaCount =
                   Cardinality({resolveKtoRegionCodes(KtoItems[v.content]).area : v \in mine})
            /\ \A v \in mine : \E g \in p.regions :
                  g.area = v.area /\ v.day \in g.firstVisitedAt .. g.lastVisitedAt

\* What is counted and listed is what is stored.
ListsAreTrue == SummaryMatchesDetail /\ ProgressMatchesPlaces

Answers404(q) ==
    LET t == task[q]
    IN  \/ t.record # None /\ ~Owns(t.user, t.record)
        \/ t.op = "deleteEntry" /\ t.day \notin entries[t.record]
        \/ t.op \in {"get", "deletePhoto"} /\ t.item # None /\ PhotoRows(t) = {}
        \/ t.op \in {"updatePlace", "deletePlace"} /\ PlaceRows(t) = {}
        \/ t.pc = "verify" /\ (t.content \notin DOMAIN KtoItems \/ ~parseListItem(t.content))

\* What the answer that a step gives to q says.
AnswerIsTrue(q) ==
    LET t == task[q]  answer == task'[q].pc
    IN    /\ answer = "404" => Answers404(q)
          /\ answer = "error" => t.record \notin Live /\ owner[t.record] = "deleted"
          /\ answer = "409" =>
                 \E v \in PlacesOf(t.record) :
                     t.content \in {None, v.content} /\ t.day \in {None, v.day}
          /\ answer = "200" /\ t.op = "delete" => owner'[t.record] = "deleted"

\* What an answer says is so when it is given: 404 that the caller has no such
\* row, 409 that the place is there already, 200 to a deletion that the record
\* is gone; and a 500 other than a deadlock's means that the record was deleted
\* after its owner had been checked.
AnswersAreTrue == [][\A q \in {x \in Requests : ~Idle(x)} : AnswerIsTrue(q)]_vars

----------------------------------------------------------------------------
(* The inductive invariants behind the properties above.                    *)

\* The owner was checked before these steps.
AfterCheck == [update |-> {"reread"}, upsertEntry |-> {"upsert", "stamp"},
               addPhoto |-> {"measure", "inspect", "own", "store"},
               addPlace |-> {"verify", "own", "store"}]

CodesVerified(t) ==
    /\ t.content \in DOMAIN KtoItems /\ parseListItem(t.content)
    /\ t.codes = resolveKtoRegionCodes(KtoItems[t.content])

\* What a request in state t holds and still knows.
TaskOK(t) ==
    /\ t.pc \in {"rows", "lock"} => t.op \in {"delete", "deleteAll"}
    /\ t.pc = "verify" => t.op \in {"addPlace", "updatePlace"}
    /\ t.op \notin {None, "create", "deleteAll"} => t.record # None /\ owner[t.record] # "new"
    /\ t.op \in {"create", "deleteAll"} => t.user # None
    /\ t.op \in {"upsertEntry", "deleteEntry", "addPhoto", "addPlace"} => t.day # None
    /\ t.op = "addPlace" => t.content # None
    /\ t.op = "deletePhoto" => t.item # None
    /\ t.op \in DOMAIN AfterCheck /\ t.pc \in AfterCheck[t.op] =>
           t.user # None /\ owner[t.record] \in {t.user, "deleted"}
    /\ t.op = "addPhoto" /\ t.pc \in {"inspect", "own", "store"} => t.left = {}
    /\ t.op = "addPhoto" /\ t.pc \in {"own", "store"} => t.room
    /\ t.op = "addPlace" /\ t.pc \in {"own", "store"} => CodesVerified(t)
    /\ t.op = "updatePlace" /\ t.pc = "store" /\ t.content # None => CodesVerified(t)
    /\ t.op = "delete" => t.rows \subseteq {t.record}
    /\ t.op = "delete" /\ t.pc = "lock" => t.record \in t.rows \/ owner[t.record] = "deleted"

TasksOK == \A q \in Requests : TaskOK(task[q])

\* An open transaction has its entry, and no deletion takes the record from it;
\* its lock and a deletion's are of one kind each.
TransactionsOK ==
    /\ \A q \in Requests :
          task[q].pc = "stamp" =>
              /\ task[q].op = "upsertEntry" /\ task[q].record \in Live
              /\ EntryHolder(task[q].record, task[q].day) = q
    /\ \A l \in locks : l.mode = IF task[l.by].pc = "stamp" THEN "key share" ELSE "update"

\* A place has one row, under an id that was given out.
PlaceIds ==
    /\ \A v \in places : v.id \in used
    /\ \A v, w \in places : v.id = w.id => v = w

IInv ==
    /\ RowsAgree
    /\ TasksOK
    /\ TransactionsOK
    /\ PlaceIds
    /\ LocksAreReleased

\* The uploads that found room, and may still store their photo.
Uploading(q, measure) ==
    /\ task[q].op = "addPhoto" /\ task[q].pc \in AfterCheck["addPhoto"]
    /\ task[q].room /\ measure \notin task[q].left
ToRecord(r) == {q \in Requests : Uploading(q, "count") /\ task[q].record = r}
ToUser(u) == {q \in Requests : Uploading(q, "sum") /\ task[q].user = u}

\* Each of them counts against the overshoot from the moment it found room.
QuotaIInv ==
    /\ IsFiniteSet(photos)
    /\ \A r \in Records :
          Cardinality(PhotosOf(r)) + Cardinality(ToRecord(r)) < MaxPhotos + Cardinality(Requests)
    /\ \A u \in Users :
          Cardinality(PhotosOfUser(u)) + Cardinality(ToUser(u)) < MaxTotal + Cardinality(Requests)

\* What is counted is finite.
RowsAreFinite == IsFiniteSet(photos) /\ IsFiniteSet(places)

=============================================================================
