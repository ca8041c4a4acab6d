---------------------------- MODULE LocalPhotos ----------------------------
(***************************************************************************)
(* The photo files of the mobile app and the two tables that account for   *)
(* them: the photo rows of the saved records and the cleanup queue.  A     *)
(* copy of every chosen photo is written to the app's own directory; the   *)
(* rows live in SQLite, so no transaction spans both.                      *)
(*                                                                         *)
(* A task is one asynchronous call of the app: saveLocalRecordDraft, one   *)
(* of the mutations that end in flushQueuedPhotoCleanup, or a flush that   *)
(* the start of the app or a change of account begins.  Tasks interleave   *)
(* at every await; the repository runs its transactions one at a time      *)
(* (enqueue), so each of them is one step.  The app may be killed at any   *)
(* step: the database and the files remain.                                *)
(***************************************************************************)
EXTENDS FiniteSets, Naturals

CONSTANTS Owners,      \* owner keys: 'guest' and 'user:...'
          Records,     \* record ids
          Slots,       \* positions of the photos in a draft
          Tasks,       \* asynchronous calls in flight at the same time
          None         \* no value

ASSUME NoneAssumption == None \notin Owners \cup Records

VARIABLES owner,    \* owner[r]: the owner key of record r, None while unused
          saved,    \* rows of local_records
          refs,     \* refs[r]: the photo rows of record r
          queue,    \* queue[p]: the owner key of the cleanup row of p, or None
          files,    \* photo files that exist
          shown,    \* shown[r]: what the query cache holds of r, or None
          task,     \* the calls in flight
          raced     \* history: photos that lost a race, see below

dbVars == <<saved, refs, queue>>
vars == <<owner, dbVars, files, shown, task, raced>>

\* localUri: the file is named after the record and the photo's position.
Photos == Records \X Slots

Step == {"idle", "stage", "copy", "list", "delete"}

Task == [step    : Step,
         owner   : Owners \cup {None},
         record  : Records \cup {None},
         plan    : SUBSET Photos,     \* the photos of the draft
         todo    : SUBSET Photos,     \* still to copy, or to delete
         cleaned : SUBSET Photos]     \* deleted by this flush

Idle == [step |-> "idle", owner |-> None, record |-> None,
         plan |-> {}, todo |-> {}, cleaned |-> {}]

Flush(o) == [Idle EXCEPT !.step = "list", !.owner = o]

Referenced(p) == \E r \in saved : p \in refs[r]

\* The photo belongs to a draft that is being saved.
Held(p) == \E t \in Tasks : task[t].step = "copy" /\ p \in task[t].plan

\* queuePhotoCleanup and cancelPhotoCleanup: rows are keyed by the photo.
Queued(S, o) == [p \in Photos |-> IF p \in S THEN o ELSE queue[p]]
Cancelled(S) == [p \in Photos |-> IF p \in S THEN None ELSE queue[p]]

Init ==
    /\ owner = [r \in Records |-> None]
    /\ saved = {}
    /\ refs = [r \in Records |-> {}]
    /\ queue = [p \in Photos |-> None]
    /\ files = {}
    /\ shown = [r \in Records |-> None]
    /\ task = [t \in Tasks |-> Idle]
    /\ raced = {}

(***************************************************************************)
(* saveLocalRecordDraft: register the copies for cleanup, copy the photos, *)
(* then create the record, which takes its photos off the queue.  Any      *)
(* failure ends in a flush.                                                *)
(***************************************************************************)
StartSave(t, o, r, S) ==
    /\ task[t].step = "idle"
    /\ owner[r] = None
    /\ S # {}
    /\ owner' = [owner EXCEPT ![r] = o]
    /\ task' = [task EXCEPT ![t] = [Idle EXCEPT !.step = "stage", !.owner = o, !.record = r,
                                                !.plan = {r} \X S, !.todo = {r} \X S]]
    /\ UNCHANGED <<dbVars, files, shown, raced>>

\* Mutant: nothing is registered before the copies are made.
StageNothing(t) ==
    /\ task[t].step = "stage"
    /\ task' = [task EXCEPT ![t].step = "copy"]
    /\ UNCHANGED <<owner, dbVars, files, shown, raced>>

Stage(t) ==
    /\ task[t].step = "stage"
    /\ queue' = Queued(task[t].plan, task[t].owner)
    /\ task' = [task EXCEPT ![t].step = "copy"]
    /\ UNCHANGED <<owner, saved, refs, files, shown, raced>>

CopyPhoto(t, p) ==
    /\ task[t].step = "copy"
    /\ p \in task[t].todo
    /\ files' = files \cup {p}
    /\ task' = [task EXCEPT ![t].todo = @ \ {p}]
    /\ UNCHANGED <<owner, dbVars, shown, raced>>

\* createDurablePhotoCopy removes what a failed copy wrote, if it can.
CopyFails(t, p) ==
    /\ task[t].step = "copy"
    /\ p \in task[t].todo
    /\ files' \in {files, files \cup {p}}
    /\ task' = [task EXCEPT ![t] = Flush(task[t].owner)]
    /\ UNCHANGED <<owner, dbVars, shown, raced>>

\* Mutant: the record is stored while photos are still to be copied.
CreateRecordEarly(t) ==
    /\ task[t].step = "copy"
    /\ saved' = saved \cup {task[t].record}
    /\ refs' = [refs EXCEPT ![task[t].record] = task[t].plan]
    /\ queue' = Cancelled(task[t].plan)
    /\ task' = [task EXCEPT ![t] = Idle]
    /\ UNCHANGED <<owner, files, shown, raced>>

\* Mutant: createRecord without cancelPhotoCleanup.
CreateRecordKeepsQueue(t) ==
    /\ task[t].step = "copy"
    /\ task[t].todo = {}
    /\ saved' = saved \cup {task[t].record}
    /\ refs' = [refs EXCEPT ![task[t].record] = task[t].plan]
    /\ task' = [task EXCEPT ![t] = Idle]
    /\ UNCHANGED <<owner, queue, files, shown, raced>>

CreateRecord(t) ==
    /\ task[t].step = "copy"
    /\ task[t].todo = {}
    /\ saved' = saved \cup {task[t].record}
    /\ refs' = [refs EXCEPT ![task[t].record] = task[t].plan]
    /\ queue' = Cancelled(task[t].plan)
    /\ task' = [task EXCEPT ![t] = Idle]
    /\ UNCHANGED <<owner, files, shown, raced>>

\* The database refuses stagePhotoCleanup or createRecord, or a photo
\* cannot be rendered: nothing was written.
SaveFails(t) ==
    /\ task[t].step \in {"stage", "copy"}
    /\ task' = [task EXCEPT ![t] = Flush(task[t].owner)]
    /\ UNCHANGED <<owner, dbVars, files, shown, raced>>

(***************************************************************************)
(* The pages show what the query cache holds; the refetch that a mutation  *)
(* asks for is a read of its own, which may come late or fail.             *)
(***************************************************************************)
Show(r) ==
    /\ shown' = [shown EXCEPT ![r] = IF r \in saved THEN refs[r] ELSE None]
    /\ UNCHANGED <<owner, dbVars, files, task, raced>>

\* updateRecord with the days of the record on display, at most one photo
\* removed from them (the edit pages keep all, the detail page drops one).
\* It replaces the photo rows and queues the rows that are gone.
UpdateRecord(t, r, keep) ==
    /\ task[t].step = "idle"
    /\ shown[r] # None
    /\ keep \subseteq shown[r] /\ Cardinality(shown[r] \ keep) <= 1
    /\ r \in saved
    /\ refs' = [refs EXCEPT ![r] = keep]
    /\ queue' = Queued(refs[r] \ keep, owner[r])
    /\ task' = [task EXCEPT ![t] = Flush(owner[r])]
    /\ raced' = raced \cup (keep \ refs[r])
    /\ UNCHANGED <<owner, saved, files, shown>>

\* Mutant: the photos of a deleted record are not queued.
DeleteRecordNoQueue(t, r) ==
    /\ task[t].step = "idle"
    /\ shown[r] # None
    /\ saved' = saved \ {r}
    /\ refs' = [refs EXCEPT ![r] = {}]
    /\ task' = [task EXCEPT ![t] = Flush(owner[r])]
    /\ UNCHANGED <<owner, queue, files, shown, raced>>

\* Mutant: deleting a record does not delete its photo rows.
DeleteRecordKeepsRows(t, r) ==
    /\ task[t].step = "idle"
    /\ shown[r] # None
    /\ saved' = saved \ {r}
    /\ queue' = Queued(refs[r], owner[r])
    /\ task' = [task EXCEPT ![t] = Flush(owner[r])]
    /\ UNCHANGED <<owner, refs, files, shown, raced>>

DeleteRecord(t, r) ==
    /\ task[t].step = "idle"
    /\ shown[r] # None
    /\ saved' = saved \ {r}
    /\ refs' = [refs EXCEPT ![r] = {}]
    /\ queue' = Queued(refs[r], owner[r])
    /\ task' = [task EXCEPT ![t] = Flush(owner[r])]
    /\ UNCHANGED <<owner, files, shown, raced>>

\* clearRecords: the settings page, a withdrawal or its recovery.
ClearRecords(t, o) ==
    LET mine == {r \in saved : owner[r] = o}
    IN  /\ task[t].step = "idle"
        /\ saved' = saved \ mine
        /\ refs' = [r \in Records |-> IF r \in mine THEN {} ELSE refs[r]]
        /\ queue' = Queued(UNION {refs[r] : r \in mine}, o)
        /\ task' = [task EXCEPT ![t] = Flush(o)]
        /\ UNCHANGED <<owner, files, shown, raced>>

(***************************************************************************)
(* flushQueuedPhotoCleanup: list, delete the files, dequeue the deleted.   *)
(***************************************************************************)
\* flushAllQueuedPhotoCleanup at the start of the app, or the flush of the
\* account that has just become the owner.
StartFlush(t, o) ==
    /\ task[t].step = "idle"
    /\ \E p \in Photos : queue[p] = o
    /\ task' = [task EXCEPT ![t] = Flush(o)]
    /\ UNCHANGED <<owner, dbVars, files, shown, raced>>

\* Mutant: the subquery does not compare the two rows, so that nothing is
\* pending while any photo row exists.
ListUncorrelated(t) ==
    /\ task[t].step = "list"
    /\ task' = [task EXCEPT ![t].step = "delete",
                            ![t].todo = {p \in Photos : /\ queue[p] = task[t].owner
                                                        /\ ~\E x \in Photos : Referenced(x)}]
    /\ UNCHANGED <<owner, dbVars, files, shown, raced>>

ListPending(t) ==
    /\ task[t].step = "list"
    /\ task' = [task EXCEPT ![t].step = "delete",
                            ![t].todo = {p \in Photos : queue[p] = task[t].owner /\ ~Referenced(p)}]
    /\ UNCHANGED <<owner, dbVars, files, shown, raced>>

\* The photo may have been saved since the listing, or its draft may still
\* be on the way to it: then it has lost a race.
DeleteFile(t, p) ==
    /\ task[t].step = "delete"
    /\ p \in task[t].todo
    /\ files' = files \ {p}
    /\ task' = [task EXCEPT ![t].todo = @ \ {p}, ![t].cleaned = @ \cup {p}]
    /\ raced' = IF Referenced(p) \/ Held(p) THEN raced \cup {p} ELSE raced
    /\ UNCHANGED <<owner, dbVars, shown>>

\* Mutant: a rejected deletion counts as cleaned.
DeleteFailsCleaned(t, p) ==
    /\ task[t].step = "delete"
    /\ p \in task[t].todo
    /\ task' = [task EXCEPT ![t].todo = @ \ {p}, ![t].cleaned = @ \cup {p}]
    /\ UNCHANGED <<owner, dbVars, files, shown, raced>>

DeleteFails(t, p) ==
    /\ task[t].step = "delete"
    /\ p \in task[t].todo
    /\ task' = [task EXCEPT ![t].todo = @ \ {p}]
    /\ UNCHANGED <<owner, dbVars, files, shown, raced>>

Complete(t) ==
    /\ task[t].step = "delete"
    /\ task[t].todo = {}
    /\ queue' = Cancelled({p \in task[t].cleaned : queue[p] = task[t].owner})
    /\ task' = [task EXCEPT ![t] = Idle]
    /\ UNCHANGED <<owner, saved, refs, files, shown, raced>>

\* The list or the dequeuing fails: the work is deferred.
Defer(t) ==
    /\ task[t].step = "list" \/ (task[t].step = "delete" /\ task[t].todo = {})
    /\ task' = [task EXCEPT ![t] = Idle]
    /\ UNCHANGED <<owner, dbVars, files, shown, raced>>

\* The app is killed and started again: the calls and the cache are gone.
Crash ==
    /\ task' = [t \in Tasks |-> Idle]
    /\ shown' = [r \in Records |-> None]
    /\ UNCHANGED <<owner, dbVars, files, raced>>

Next ==
    \/ \E t \in Tasks :
         \/ \E o \in Owners, r \in Records, S \in SUBSET Slots : StartSave(t, o, r, S)
         \/ Stage(t)
         \/ \E p \in Photos : CopyPhoto(t, p)
         \/ \E p \in Photos : CopyFails(t, p)
         \/ CreateRecord(t)
         \/ SaveFails(t)
         \/ \E r \in Records : \E keep \in SUBSET ({r} \X Slots) : UpdateRecord(t, r, keep)
         \/ \E r \in Records : DeleteRecord(t, r)
         \/ \E o \in Owners : ClearRecords(t, o)
         \/ \E o \in Owners : StartFlush(t, o)
         \/ ListPending(t)
         \/ \E p \in Photos : DeleteFile(t, p)
         \/ \E p \in Photos : DeleteFails(t, p)
         \/ Complete(t)
         \/ Defer(t)
    \/ \E r \in Records : Show(r)
    \/ Crash

Spec == Init /\ [][Next]_vars

(***************************************************************************)
(* Calls run on; the app is started again from time to time, or some other *)
(* mutation flushes; the database and the file system do not fail a call   *)
(* that is repeated without end.                                           *)
(***************************************************************************)
Runs(t) ==
    \/ Stage(t) \/ CreateRecord(t) \/ SaveFails(t)
    \/ ListPending(t) \/ Complete(t) \/ Defer(t)
    \/ \E p \in Photos : CopyPhoto(t, p) \/ CopyFails(t, p) \/ DeleteFile(t, p) \/ DeleteFails(t, p)

FairSpec ==
    /\ Spec
    /\ \A t \in Tasks : WF_vars(Runs(t))
    /\ \A p \in Photos : SF_vars(\E t \in Tasks : DeleteFile(t, p))
    /\ \A o \in Owners :
           /\ SF_vars(\E t \in Tasks : StartFlush(t, o))
           /\ SF_vars(\E t \in Tasks : task[t].owner = o /\ ListPending(t))

-----------------------------------------------------------------------------
(* Type correctness of the tables, the files and the calls.                *)
TypeOK ==
    /\ owner \in [Records -> Owners \cup {None}]
    /\ saved \subseteq Records
    /\ refs \in [Records -> SUBSET Photos]
    /\ \A r \in Records : refs[r] \subseteq {r} \X Slots /\ (refs[r] # {} => r \in saved)
    /\ \A r \in saved : owner[r] \in Owners
    /\ queue \in [Photos -> Owners \cup {None}]
    /\ files \subseteq Photos
    /\ shown \in [Records -> (SUBSET Photos) \cup {None}]
    /\ \A r \in Records : shown[r] # None => shown[r] \subseteq {r} \X Slots /\ owner[r] \in Owners
    /\ task \in [Tasks -> Task]
    /\ raced \subseteq Photos

(* A saved record shows every photo: the file of each of its rows exists,  *)
(* however the save failed or was repeated before.  The exceptions are the *)
(* photos that lost a race with a flush or came back from a stale page.    *)
RecordPhotosExist ==
    \A r \in saved : \A p \in refs[r] : p \in files \/ p \in raced

(* No photo file is forgotten: through failures and crashes each is either *)
(* shown by a record or waits in the cleanup queue, so that deleting the   *)
(* records really removes the user's photos (same exceptions).             *)
NoFileForgotten ==
    \A p \in files : Referenced(p) \/ queue[p] # None \/ p \in raced

(* A photo of a record that exists is not up for cleanup, unless a stale   *)
(* page put it back: the queue of createRecord and updateRecord is exact.  *)
SavedNotQueued ==
    \A p \in Photos : Referenced(p) /\ queue[p] # None => p \in raced

(***************************************************************************)
(* The inductive invariant behind the three invariants above.              *)
(***************************************************************************)
\* No trace of the photos of record r yet.
Untouched(r) ==
    \A p \in {r} \X Slots :
        /\ queue[p] = None
        /\ p \notin files
        /\ \A t \in Tasks : p \notin task[t].cleaned /\ (task[t].step = "delete" => p \notin task[t].todo)

FreshRecords ==
    /\ \A r \in Records : owner[r] = None => r \notin saved /\ Untouched(r)
    /\ \A t \in Tasks : task[t].step = "stage" => Untouched(task[t].record)

\* What a call h knows of its draft or of its flush.
CallOK(h) ==
    /\ h.step \in {"stage", "copy"} =>
           /\ h.record \in Records /\ h.record \notin saved
           /\ h.owner \in Owners /\ owner[h.record] = h.owner
           /\ h.plan \subseteq {h.record} \X Slots
           /\ h.todo \subseteq h.plan
           /\ h.step = "stage" => h.todo = h.plan
    /\ h.step = "copy" =>
           \A p \in h.plan : p \in raced \/ (queue[p] # None /\ (p \in h.todo \/ p \in files))
    /\ h.step \in {"list", "delete"} => h.owner \in Owners
    /\ \A p \in h.cleaned : p \in raced \/ (p \notin files /\ ~Held(p))

CallsOK == \A t \in Tasks : CallOK(task[t])

\* A record is saved by one call.
OneSave ==
    \A s, t \in Tasks :
        task[s].step \in {"stage", "copy"} /\ task[t].step \in {"stage", "copy"} /\ s # t
            => task[s].record # task[t].record

(* The inductive invariant, with the invariants it implies as conjuncts.   *)
IInv ==
    /\ TypeOK
    /\ RecordPhotosExist
    /\ NoFileForgotten
    /\ SavedNotQueued
    /\ FreshRecords
    /\ CallsOK
    /\ OneSave

-----------------------------------------------------------------------------
(* A flush only ever deletes files that no record refers to at that time   *)
(* (flushAllQueuedPhotoCleanup's comment).                                 *)
DeletesOnlyUnreferenced ==
    [][\A p \in Photos : p \in files /\ p \notin files' => ~Referenced(p)]_vars

(* A file that waits for cleanup and is in nobody's hands is removed in    *)
(* the end, whichever deletions fail and however often the app is killed   *)
(* (same exceptions).                                                      *)
EventuallySwept ==
    \A p \in Photos :
        p \in files /\ queue[p] # None /\ ~Referenced(p) /\ ~Held(p)
            ~> p \notin files \/ Referenced(p) \/ p \in raced

=============================================================================
