------------------------- MODULE LocalPhotosProofs -------------------------
(***************************************************************************)
(* Proofs about LocalPhotos, for any sets of owners, records, photo        *)
(* positions and calls in flight.  IInv is                                 *)
(* inductive: each lemma below is one action, each of its steps one        *)
(* conjunct of IInv.                                                       *)
(***************************************************************************)
EXTENDS LocalPhotos, TLAPS

(* The empty tables satisfy the inductive invariant.                       *)
LEMMA InitIInv == Init => IInv
  <1> SUFFICES ASSUME Init PROVE IInv
    OBVIOUS
  <1> USE DEF Init
  <1>1. Idle \in Task
    BY DEF Idle, Task, Step
  <1>2. TypeOK
    <2>1. shown \in [Records -> (SUBSET Photos) \cup {None}]
      OBVIOUS
    <2>2. QED
      BY <1>1, <2>1 DEF TypeOK
  <1>3. RecordPhotosExist /\ NoFileForgotten /\ SavedNotQueued
    BY DEF RecordPhotosExist, NoFileForgotten, SavedNotQueued, Referenced
  <1>4. FreshRecords /\ CallsOK /\ OneSave
    BY DEF FreshRecords, Untouched, CallsOK, CallOK, OneSave, Idle, Photos
  <1>5. QED
    BY <1>2, <1>3, <1>4 DEF IInv

(* A record's photos are photos.                                           *)
LEMMA PhotosOfRecord ==
    \A r \in Records : {r} \X Slots \subseteq Photos
  BY DEF Photos

(* A photo belongs to one record.                                          *)
LEMMA RecordOfPhoto ==
    \A r, q \in Records : \A p \in {r} \X Slots : p \in {q} \X Slots => r = q
  OBVIOUS

(* What the invariant says of a call that saves a draft.                   *)
LEMMA CallsOfDrafts ==
    ASSUME IInv, NEW t \in Tasks, task[t].step \in {"stage", "copy"}
    PROVE  /\ task[t].record \in Records /\ owner[task[t].record] \in Owners
           /\ task[t].plan \subseteq {task[t].record} \X Slots
           /\ task[t].todo \subseteq task[t].plan
  BY DEF IInv, CallsOK, CallOK

(* A new draft takes a record id nobody has used.                          *)
LEMMA StartSaveStep ==
    ASSUME IInv, NEW t \in Tasks, NEW o \in Owners, NEW r \in Records, NEW S \in SUBSET Slots, StartSave(t, o, r, S)
    PROVE  IInv'
<1>1. TypeOK'
  <2> DEFINE h == [Idle EXCEPT !.step = "stage", !.owner = o, !.record = r, !.plan = {r} \X S, !.todo = {r} \X S]
  <2>1. h \in Task
    BY ZenonT(40), PhotosOfRecord DEF IInv, TypeOK, Task, Step, Idle, StartSave
  <2>2. task' = [task EXCEPT ![t] = h]
    BY DEF IInv, TypeOK, Task, StartSave
  <2>3. task' \in [Tasks -> Task]
    BY <2>1, <2>2 DEF IInv, TypeOK
  <2> HIDE DEF h
  <2>4. QED
    BY <2>3, PhotosOfRecord, CallsOfDrafts DEF IInv, TypeOK, StartSave, dbVars
<1>2. RecordPhotosExist'
  BY NoneAssumption DEF IInv, StartSave, TypeOK, RecordPhotosExist, CallsOK, CallOK, Referenced, Held, Task, Idle, dbVars
<1>3. NoFileForgotten'
  BY NoneAssumption DEF IInv, StartSave, TypeOK, NoFileForgotten, CallsOK, CallOK, FreshRecords, Untouched, Referenced, Held, Task, Idle, dbVars
<1>4. SavedNotQueued'
  BY NoneAssumption DEF IInv, StartSave, TypeOK, SavedNotQueued, CallsOK, CallOK, Referenced, Photos, Task, Idle, dbVars
<1>5. FreshRecords'
  BY NoneAssumption DEF IInv, StartSave, TypeOK, FreshRecords, Untouched, CallsOK, CallOK, OneSave, Photos, Task, Idle, dbVars
<1>6. CallsOK'
  BY NoneAssumption DEF IInv, StartSave, TypeOK, CallsOK, CallOK, FreshRecords, Untouched, OneSave, Held, Referenced, Photos, Task, Idle, dbVars
<1>7. OneSave'
  BY NoneAssumption DEF IInv, StartSave, TypeOK, OneSave, FreshRecords, CallsOK, CallOK, Task, Idle, dbVars
<1> QED
  BY <1>1, <1>2, <1>3, <1>4, <1>5, <1>6, <1>7 DEF IInv

(* The photos of a draft enter the queue before any of them is copied.     *)
LEMMA StageStep ==
    ASSUME IInv, NEW t \in Tasks, Stage(t)
    PROVE  IInv'
<1>1. TypeOK'
  <2>1. task' \in [Tasks -> Task]
    BY SMTT(30) DEF IInv, TypeOK, Task, Step, Stage
  <2>2. queue' \in [Photos -> Owners \cup {None}]
    BY CallsOfDrafts DEF IInv, TypeOK, Task, Stage, Queued
  <2>3. QED
    BY <2>1, <2>2 DEF IInv, TypeOK, Stage
<1>2. RecordPhotosExist'
  BY NoneAssumption DEF IInv, Stage, Queued, TypeOK, RecordPhotosExist, CallsOK, CallOK, Referenced, Held, Task, Idle, dbVars
<1>3. NoFileForgotten'
  BY NoneAssumption DEF IInv, Stage, Queued, TypeOK, NoFileForgotten, CallsOK, CallOK, FreshRecords, Untouched, Referenced, Held, Task, Idle, dbVars
<1>4. SavedNotQueued'
  BY NoneAssumption DEF IInv, Stage, Queued, TypeOK, SavedNotQueued, CallsOK, CallOK, Referenced, Photos, Task, Idle, dbVars
<1>5. FreshRecords'
  <2>1. ASSUME NEW q \in Records, Untouched(q), q \notin saved,
               task[t].plan \cap ({q} \X Slots) = {},
               \A s \in Tasks : task'[s].cleaned \subseteq task[s].cleaned
        PROVE  Untouched(q)'
    BY <2>1, PhotosOfRecord DEF IInv, TypeOK, Stage, Queued, Untouched, dbVars, Task, Idle
  <2>2. \A q \in Records : q \notin saved /\ Untouched(q) /\ q # task[t].record => task[t].plan \cap ({q} \X Slots) = {}
    <3> SUFFICES ASSUME NEW q \in Records, q \notin saved, Untouched(q), q # task[t].record,
                        NEW x \in task[t].plan, x \in {q} \X Slots
                 PROVE  FALSE
      OBVIOUS
    <3> QED
      BY RecordOfPhoto, CallsOfDrafts DEF IInv, TypeOK, Untouched, Stage, Queued
  <2>3. \A s \in Tasks : task'[s].cleaned \subseteq task[s].cleaned
    BY DEF IInv, TypeOK, Task, Idle, Stage, Queued
  <2> QED
    BY <2>1, <2>2, <2>3, NoneAssumption, CallsOfDrafts DEF IInv, Stage, Queued, TypeOK, FreshRecords, CallsOK, CallOK, OneSave, Task, Idle, dbVars
<1>6. CallsOK'
  <2>1. task[t].owner \in Owners /\ task[t].plan \in SUBSET Photos /\ task[t].plan \subseteq {task[t].record} \X Slots
        /\ task[t].todo = task[t].plan
    BY PhotosOfRecord DEF Stage, IInv, CallsOK, CallOK
  <2>2. \A p \in task[t].plan : queue'[p] # None
    BY <2>1, NoneAssumption DEF Stage, Queued
  <2>3. \A p \in Photos : queue[p] # None => queue'[p] # None
    BY <2>1, NoneAssumption DEF Stage, Queued
  <2>4. \A p \in Photos : Held(p)' => Held(p) \/ p \in task[t].plan
    BY DEF Stage, Held, IInv, TypeOK, Task
  <2>5. \A s \in Tasks : \A p \in task[s].cleaned : p \in Photos /\ p \notin task[t].plan
    BY <2>1 DEF Stage, IInv, TypeOK, Task, FreshRecords, Untouched
  <2>6. ASSUME NEW s \in Tasks PROVE CallOK(task[s])'
    <3>1. CallOK(task[s]) /\ task[s] \in Task
      BY DEF IInv, CallsOK, TypeOK
    <3>2. CASE s = t
      BY <3>1, <3>2, <2>1, <2>2, <2>4, <2>5 DEF Stage, CallOK, IInv, TypeOK, Task
    <3>3. CASE s # t
      BY <3>1, <3>3, <2>3, <2>4, <2>5 DEF Stage, CallOK, IInv, TypeOK, Task
    <3>4. QED
      BY <3>2, <3>3
  <2>7. QED
    BY <2>6 DEF CallsOK
<1>7. OneSave'
  BY NoneAssumption DEF IInv, Stage, Queued, TypeOK, OneSave, FreshRecords, CallsOK, CallOK, Task, Idle, dbVars
<1> QED
  BY <1>1, <1>2, <1>3, <1>4, <1>5, <1>6, <1>7 DEF IInv

(* A copied photo is queued already.                                       *)
LEMMA CopyPhotoStep ==
    ASSUME IInv, NEW t \in Tasks, NEW p \in Photos, CopyPhoto(t, p)
    PROVE  IInv'
<1>1. TypeOK'
  <2> DEFINE h == [task[t] EXCEPT !.todo = @ \ {p}]
  <2>1. h \in Task
    BY PhotosOfRecord DEF IInv, TypeOK, Task, Step, Idle
  <2>2. task' = [task EXCEPT ![t] = h]
    BY DEF IInv, TypeOK, Task, CopyPhoto
  <2>3. task' \in [Tasks -> Task]
    BY <2>1, <2>2 DEF IInv, TypeOK
  <2> HIDE DEF h
  <2>4. QED
    BY <2>3, PhotosOfRecord, CallsOfDrafts DEF IInv, TypeOK, CopyPhoto, dbVars
<1>2. RecordPhotosExist'
  BY NoneAssumption DEF IInv, CopyPhoto, TypeOK, RecordPhotosExist, CallsOK, CallOK, Referenced, Held, Task, Idle, dbVars
<1>3. NoFileForgotten'
  BY NoneAssumption DEF IInv, CopyPhoto, TypeOK, NoFileForgotten, CallsOK, CallOK, FreshRecords, Untouched, Referenced, Held, Task, Idle, dbVars
<1>4. SavedNotQueued'
  BY NoneAssumption DEF IInv, CopyPhoto, TypeOK, SavedNotQueued, CallsOK, CallOK, Referenced, Photos, Task, Idle, dbVars
<1>5. FreshRecords'
  BY NoneAssumption DEF IInv, CopyPhoto, TypeOK, FreshRecords, Untouched, CallsOK, CallOK, OneSave, Photos, Task, Idle, dbVars
<1>6. CallsOK'
  BY NoneAssumption DEF IInv, CopyPhoto, TypeOK, CallsOK, CallOK, FreshRecords, Untouched, OneSave, Held, Referenced, Photos, Task, Idle, dbVars
<1>7. OneSave'
  BY NoneAssumption DEF IInv, CopyPhoto, TypeOK, OneSave, FreshRecords, CallsOK, CallOK, Task, Idle, dbVars
<1> QED
  BY <1>1, <1>2, <1>3, <1>4, <1>5, <1>6, <1>7 DEF IInv

(* What a failed copy leaves behind is queued.                             *)
LEMMA CopyFailsStep ==
    ASSUME IInv, NEW t \in Tasks, NEW p \in Photos, CopyFails(t, p)
    PROVE  IInv'
<1>1. TypeOK'
  BY NoneAssumption DEF IInv, CopyFails, Flush, TypeOK, Task, Step, Photos, Idle, dbVars
<1>2. RecordPhotosExist'
  BY NoneAssumption DEF IInv, CopyFails, Flush, TypeOK, RecordPhotosExist, CallsOK, CallOK, Referenced, Held, Task, Idle, dbVars
<1>3. NoFileForgotten'
  BY NoneAssumption DEF IInv, CopyFails, Flush, TypeOK, NoFileForgotten, CallsOK, CallOK, FreshRecords, Untouched, Referenced, Held, Task, Idle, dbVars
<1>4. SavedNotQueued'
  BY NoneAssumption DEF IInv, CopyFails, Flush, TypeOK, SavedNotQueued, CallsOK, CallOK, Referenced, Photos, Task, Idle, dbVars
<1>5. FreshRecords'
  BY NoneAssumption DEF IInv, CopyFails, Flush, TypeOK, FreshRecords, Untouched, CallsOK, CallOK, OneSave, Photos, Task, Idle, dbVars
<1>6. CallsOK'
  BY NoneAssumption DEF IInv, CopyFails, Flush, TypeOK, CallsOK, CallOK, FreshRecords, Untouched, OneSave, Held, Referenced, Photos, Task, Idle, dbVars
<1>7. OneSave'
  BY NoneAssumption DEF IInv, CopyFails, Flush, TypeOK, OneSave, FreshRecords, CallsOK, CallOK, Task, Idle, dbVars
<1> QED
  BY <1>1, <1>2, <1>3, <1>4, <1>5, <1>6, <1>7 DEF IInv

(* The photos of the new record have been copied, or have lost a race.     *)
LEMMA CreateRecordStep ==
    ASSUME IInv, NEW t \in Tasks, CreateRecord(t)
    PROVE  IInv'
<1>1. TypeOK'
  <2> DEFINE h == Idle
  <2>1. h \in Task
    BY PhotosOfRecord DEF IInv, TypeOK, Task, Step, Idle
  <2>2. task' = [task EXCEPT ![t] = h]
    BY DEF IInv, TypeOK, Task, CreateRecord
  <2>3. task' \in [Tasks -> Task]
    BY <2>1, <2>2 DEF IInv, TypeOK
  <2> HIDE DEF h
  <2>4. QED
    BY <2>3, PhotosOfRecord, CallsOfDrafts DEF IInv, TypeOK, CreateRecord, Cancelled, dbVars
<1>2. RecordPhotosExist'
  BY NoneAssumption DEF IInv, CreateRecord, Cancelled, TypeOK, RecordPhotosExist, CallsOK, CallOK, Referenced, Held, Task, Idle, dbVars
<1>3. NoFileForgotten'
  BY NoneAssumption DEF IInv, CreateRecord, Cancelled, TypeOK, NoFileForgotten, CallsOK, CallOK, FreshRecords, Untouched, Referenced, Held, Task, Idle, dbVars
<1>4. SavedNotQueued'
  BY NoneAssumption DEF IInv, CreateRecord, Cancelled, TypeOK, SavedNotQueued, CallsOK, CallOK, Referenced, Photos, Task, Idle, dbVars
<1>5. FreshRecords'
  <2>1. ASSUME NEW q \in Records, Untouched(q), q \notin saved,
               task[t].plan \cap ({q} \X Slots) = {},
               \A s \in Tasks : task'[s].cleaned \subseteq task[s].cleaned
        PROVE  Untouched(q)'
    BY <2>1, PhotosOfRecord DEF IInv, TypeOK, CreateRecord, Cancelled, Untouched, dbVars, Task, Idle
  <2>2. \A q \in Records : q \notin saved /\ Untouched(q) /\ q # task[t].record => task[t].plan \cap ({q} \X Slots) = {}
    <3> SUFFICES ASSUME NEW q \in Records, q \notin saved, Untouched(q), q # task[t].record,
                        NEW x \in task[t].plan, x \in {q} \X Slots
                 PROVE  FALSE
      OBVIOUS
    <3> QED
      BY RecordOfPhoto, CallsOfDrafts DEF IInv, TypeOK, Untouched, CreateRecord, Cancelled
  <2>3. \A s \in Tasks : task'[s].cleaned \subseteq task[s].cleaned
    BY DEF IInv, TypeOK, Task, Idle, CreateRecord, Cancelled
  <2> QED
    BY <2>1, <2>2, <2>3, NoneAssumption, CallsOfDrafts DEF IInv, CreateRecord, Cancelled, TypeOK, FreshRecords, CallsOK, CallOK, OneSave, Task, Idle, dbVars
<1>6. CallsOK'
  <2>1. ASSUME NEW s \in Tasks PROVE CallOK(task[s])'
    <3>1. CallOK(task[s]) /\ task[s] \in Task
      BY DEF IInv, CallsOK, TypeOK
    <3>2. CASE s = t
      BY <3>2 DEF CreateRecord, CallOK, IInv, TypeOK, Idle
    <3>3. CASE s # t /\ task[s].step \in {"stage", "copy"}
      <4>1. task[s].record # task[t].record
        BY <3>3 DEF IInv, OneSave, CreateRecord
      <4>2. \A p \in task[s].plan : p \in Photos /\ queue'[p] = queue[p]
        BY <3>1, <3>3, <4>1, CallsOfDrafts, RecordOfPhoto, PhotosOfRecord DEF CreateRecord, Cancelled
      <4>3. QED
        BY <3>1, <3>3, <4>1, <4>2 DEF CreateRecord, CallOK, Held, IInv, TypeOK, Task, Idle
    <3>4. CASE s # t /\ task[s].step \notin {"stage", "copy"}
      BY <3>1, <3>4 DEF CreateRecord, CallOK, Held, IInv, TypeOK, Task, Idle
    <3>5. QED
      BY <3>2, <3>3, <3>4
  <2>2. QED
    BY <2>1 DEF CallsOK
<1>7. OneSave'
  BY NoneAssumption DEF IInv, CreateRecord, Cancelled, TypeOK, OneSave, FreshRecords, CallsOK, CallOK, Task, Idle, dbVars
<1> QED
  BY <1>1, <1>2, <1>3, <1>4, <1>5, <1>6, <1>7 DEF IInv

(* Giving a draft up leaves its photos in the queue.                       *)
LEMMA SaveFailsStep ==
    ASSUME IInv, NEW t \in Tasks, SaveFails(t)
    PROVE  IInv'
<1>1. TypeOK'
  BY NoneAssumption DEF IInv, SaveFails, Flush, TypeOK, Task, Step, Photos, Idle, dbVars
<1>2. RecordPhotosExist'
  BY NoneAssumption DEF IInv, SaveFails, Flush, TypeOK, RecordPhotosExist, CallsOK, CallOK, Referenced, Held, Task, Idle, dbVars
<1>3. NoFileForgotten'
  BY NoneAssumption DEF IInv, SaveFails, Flush, TypeOK, NoFileForgotten, CallsOK, CallOK, FreshRecords, Untouched, Referenced, Held, Task, Idle, dbVars
<1>4. SavedNotQueued'
  BY NoneAssumption DEF IInv, SaveFails, Flush, TypeOK, SavedNotQueued, CallsOK, CallOK, Referenced, Photos, Task, Idle, dbVars
<1>5. FreshRecords'
  BY NoneAssumption DEF IInv, SaveFails, Flush, TypeOK, FreshRecords, Untouched, CallsOK, CallOK, OneSave, Photos, Task, Idle, dbVars
<1>6. CallsOK'
  BY NoneAssumption DEF IInv, SaveFails, Flush, TypeOK, CallsOK, CallOK, FreshRecords, Untouched, OneSave, Held, Referenced, Photos, Task, Idle, dbVars
<1>7. OneSave'
  BY NoneAssumption DEF IInv, SaveFails, Flush, TypeOK, OneSave, FreshRecords, CallsOK, CallOK, Task, Idle, dbVars
<1> QED
  BY <1>1, <1>2, <1>3, <1>4, <1>5, <1>6, <1>7 DEF IInv

(* Reading a record changes no table and no file.                          *)
LEMMA ShowStep ==
    ASSUME IInv, NEW r \in Records, Show(r)
    PROVE  IInv'
<1>1. TypeOK'
  <2>1. shown' \in [Records -> (SUBSET Photos) \cup {None}]
    <3> DEFINE V == (SUBSET Photos) \cup {None}
               v == IF r \in saved THEN refs[r] ELSE None
    <3>1. v \in V /\ shown \in [Records -> V]
      BY DEF IInv, TypeOK
    <3>2. shown' = [shown EXCEPT ![r] = v]
      BY DEF Show
    <3> HIDE DEF V, v
    <3>3. shown' \in [Records -> V]
      BY <3>1, <3>2
    <3> QED
      BY <3>3 DEF V
  <2>2. \A q \in Records : shown'[q] # None => shown'[q] \subseteq {q} \X Slots /\ owner'[q] \in Owners
    BY DEF IInv, TypeOK, Show
  <2>3. QED
    BY <2>1, <2>2 DEF IInv, TypeOK, Show, dbVars
<1>2. RecordPhotosExist'
  BY NoneAssumption DEF IInv, Show, TypeOK, RecordPhotosExist, CallsOK, CallOK, Referenced, Held, Task, Idle, dbVars
<1>3. NoFileForgotten'
  BY NoneAssumption DEF IInv, Show, TypeOK, NoFileForgotten, CallsOK, CallOK, FreshRecords, Untouched, Referenced, Held, Task, Idle, dbVars
<1>4. SavedNotQueued'
  BY NoneAssumption DEF IInv, Show, TypeOK, SavedNotQueued, CallsOK, CallOK, Referenced, Photos, Task, Idle, dbVars
<1>5. FreshRecords'
  BY NoneAssumption DEF IInv, Show, TypeOK, FreshRecords, Untouched, CallsOK, CallOK, OneSave, Photos, Task, Idle, dbVars
<1>6. CallsOK'
  BY NoneAssumption DEF IInv, Show, TypeOK, CallsOK, CallOK, FreshRecords, Untouched, OneSave, Held, Referenced, Photos, Task, Idle, dbVars
<1>7. OneSave'
  BY NoneAssumption DEF IInv, Show, TypeOK, OneSave, FreshRecords, CallsOK, CallOK, Task, Idle, dbVars
<1> QED
  BY <1>1, <1>2, <1>3, <1>4, <1>5, <1>6, <1>7 DEF IInv

(* The photos that an update drops are queued, those it puts back are raced. *)
LEMMA UpdateRecordStep ==
    ASSUME IInv, NEW t \in Tasks, NEW r \in Records, NEW keep \in SUBSET ({r} \X Slots), UpdateRecord(t, r, keep)
    PROVE  IInv'
<1>1. TypeOK'
  <2> DEFINE h == Flush(owner[r])
  <2>1. h \in Task
    BY PhotosOfRecord DEF IInv, TypeOK, Task, Step, Idle, Flush, UpdateRecord
  <2>2. task' = [task EXCEPT ![t] = h]
    BY DEF IInv, TypeOK, Task, UpdateRecord
  <2>3. task' \in [Tasks -> Task]
    BY <2>1, <2>2 DEF IInv, TypeOK
  <2> HIDE DEF h
  <2>4. QED
    BY <2>3, PhotosOfRecord, CallsOfDrafts DEF IInv, TypeOK, UpdateRecord, Queued, Flush, dbVars
<1>2. RecordPhotosExist'
  BY NoneAssumption DEF IInv, UpdateRecord, Queued, Flush, TypeOK, RecordPhotosExist, CallsOK, CallOK, Referenced, Held, Task, Idle, dbVars
<1>3. NoFileForgotten'
  BY NoneAssumption DEF IInv, UpdateRecord, Queued, Flush, TypeOK, NoFileForgotten, CallsOK, CallOK, FreshRecords, Untouched, Referenced, Held, Task, Idle, dbVars
<1>4. SavedNotQueued'
  BY NoneAssumption DEF IInv, UpdateRecord, Queued, Flush, TypeOK, SavedNotQueued, CallsOK, CallOK, Referenced, Photos, Task, Idle, dbVars
<1>5. FreshRecords'
  <2>1. ASSUME NEW q \in Records, Untouched(q), q \notin saved,
               (refs[r] \ keep) \cap ({q} \X Slots) = {},
               \A s \in Tasks : task'[s].cleaned \subseteq task[s].cleaned
        PROVE  Untouched(q)'
    BY <2>1, PhotosOfRecord DEF IInv, TypeOK, UpdateRecord, Queued, Flush, Untouched, dbVars, Task, Idle
  <2>2. \A q \in Records : q \notin saved /\ Untouched(q) => (refs[r] \ keep) \cap ({q} \X Slots) = {}
    <3> SUFFICES ASSUME NEW q \in Records, q \notin saved, Untouched(q),
                        NEW x \in (refs[r] \ keep), x \in {q} \X Slots
                 PROVE  FALSE
      OBVIOUS
    <3> QED
      BY RecordOfPhoto DEF IInv, TypeOK, Untouched, UpdateRecord, Queued, Flush
  <2>3. \A s \in Tasks : task'[s].cleaned \subseteq task[s].cleaned
    BY DEF IInv, TypeOK, Task, Idle, UpdateRecord, Queued, Flush
  <2> QED
    BY <2>1, <2>2, <2>3, NoneAssumption DEF IInv, UpdateRecord, Queued, Flush, TypeOK, FreshRecords, CallsOK, CallOK, OneSave, Task, Idle, dbVars
<1>6. CallsOK'
  BY NoneAssumption DEF IInv, UpdateRecord, Queued, Flush, TypeOK, CallsOK, CallOK, FreshRecords, Untouched, OneSave, Held, Referenced, Photos, Task, Idle, dbVars
<1>7. OneSave'
  BY NoneAssumption DEF IInv, UpdateRecord, Queued, Flush, TypeOK, OneSave, FreshRecords, CallsOK, CallOK, Task, Idle, dbVars
<1> QED
  BY <1>1, <1>2, <1>3, <1>4, <1>5, <1>6, <1>7 DEF IInv

(* The photos of a deleted record are queued.                              *)
LEMMA DeleteRecordStep ==
    ASSUME IInv, NEW t \in Tasks, NEW r \in Records, DeleteRecord(t, r)
    PROVE  IInv'
<1>1. TypeOK'
  BY NoneAssumption DEF IInv, DeleteRecord, Queued, Flush, TypeOK, Task, Step, Photos, Idle, dbVars
<1>2. RecordPhotosExist'
  BY NoneAssumption DEF IInv, DeleteRecord, Queued, Flush, TypeOK, RecordPhotosExist, CallsOK, CallOK, Referenced, Held, Task, Idle, dbVars
<1>3. NoFileForgotten'
  BY NoneAssumption DEF IInv, DeleteRecord, Queued, Flush, TypeOK, NoFileForgotten, CallsOK, CallOK, FreshRecords, Untouched, Referenced, Held, Task, Idle, dbVars
<1>4. SavedNotQueued'
  BY NoneAssumption DEF IInv, DeleteRecord, Queued, Flush, TypeOK, SavedNotQueued, CallsOK, CallOK, Referenced, Photos, Task, Idle, dbVars
<1>5. FreshRecords'
  <2>1. ASSUME NEW q \in Records, Untouched(q), q \notin saved,
               refs[r] \cap ({q} \X Slots) = {},
               \A s \in Tasks : task'[s].cleaned \subseteq task[s].cleaned
        PROVE  Untouched(q)'
    BY <2>1, PhotosOfRecord DEF IInv, TypeOK, DeleteRecord, Queued, Flush, Untouched, dbVars, Task, Idle
  <2>2. \A q \in Records : q \notin saved /\ Untouched(q) => refs[r] \cap ({q} \X Slots) = {}
    <3> SUFFICES ASSUME NEW q \in Records, q \notin saved, Untouched(q),
                        NEW x \in refs[r], x \in {q} \X Slots
                 PROVE  FALSE
      OBVIOUS
    <3> QED
      BY RecordOfPhoto DEF IInv, TypeOK, Untouched, DeleteRecord, Queued, Flush
  <2>3. \A s \in Tasks : task'[s].cleaned \subseteq task[s].cleaned
    BY DEF IInv, TypeOK, Task, Idle, DeleteRecord, Queued, Flush
  <2> QED
    BY <2>1, <2>2, <2>3, NoneAssumption DEF IInv, DeleteRecord, Queued, Flush, TypeOK, FreshRecords, CallsOK, CallOK, OneSave, Task, Idle, dbVars
<1>6. CallsOK'
  <2>1. \A p \in Photos : queue[p] # None => queue'[p] # None
    BY NoneAssumption DEF DeleteRecord, Queued, IInv, TypeOK
  <2>2. \A p \in Photos : Held(p)' => Held(p)
    BY DEF DeleteRecord, Flush, Idle, Held, IInv, TypeOK, Task
  <2>3. Flush(owner[r]).owner \in Owners
    BY DEF Flush, Idle, DeleteRecord, IInv, TypeOK
  <2>4. ASSUME NEW s \in Tasks PROVE CallOK(task[s])'
    <3>1. CallOK(task[s]) /\ task[s] \in Task
      BY DEF IInv, CallsOK, TypeOK
    <3>2. CASE s = t
      BY <3>1, <3>2, <2>3 DEF DeleteRecord, CallOK, IInv, TypeOK, Task, Flush, Idle
    <3>3. CASE s # t
      BY <3>1, <3>3, <2>1, <2>2 DEF DeleteRecord, CallOK, IInv, TypeOK, Task
    <3>4. QED
      BY <3>2, <3>3
  <2>5. QED
    BY <2>4 DEF CallsOK
<1>7. OneSave'
  BY NoneAssumption DEF IInv, DeleteRecord, Queued, Flush, TypeOK, OneSave, FreshRecords, CallsOK, CallOK, Task, Idle, dbVars
<1> QED
  BY <1>1, <1>2, <1>3, <1>4, <1>5, <1>6, <1>7 DEF IInv

(* So are those of all records of an owner.                                *)
LEMMA ClearRecordsStep ==
    ASSUME IInv, NEW t \in Tasks, NEW o \in Owners, ClearRecords(t, o)
    PROVE  IInv'
<1>1. TypeOK'
  BY NoneAssumption DEF IInv, ClearRecords, Queued, Flush, TypeOK, Task, Step, Photos, Idle, dbVars
<1>2. RecordPhotosExist'
  BY NoneAssumption DEF IInv, ClearRecords, Queued, Flush, TypeOK, RecordPhotosExist, CallsOK, CallOK, Referenced, Held, Task, Idle, dbVars
<1>3. NoFileForgotten'
  BY NoneAssumption DEF IInv, ClearRecords, Queued, Flush, TypeOK, NoFileForgotten, CallsOK, CallOK, FreshRecords, Untouched, Referenced, Held, Task, Idle, dbVars
<1>4. SavedNotQueued'
  BY NoneAssumption DEF IInv, ClearRecords, Queued, Flush, TypeOK, SavedNotQueued, CallsOK, CallOK, Referenced, Photos, Task, Idle, dbVars
<1>5. FreshRecords'
  <2>1. ASSUME NEW q \in Records, Untouched(q), q \notin saved,
               (UNION {refs[z] : z \in {x \in saved : owner[x] = o}}) \cap ({q} \X Slots) = {},
               \A s \in Tasks : task'[s].cleaned \subseteq task[s].cleaned
        PROVE  Untouched(q)'
    BY <2>1, PhotosOfRecord DEF IInv, TypeOK, ClearRecords, Queued, Flush, Untouched, dbVars, Task, Idle
  <2>2. \A q \in Records : q \notin saved /\ Untouched(q) => (UNION {refs[z] : z \in {x \in saved : owner[x] = o}}) \cap ({q} \X Slots) = {}
    <3> SUFFICES ASSUME NEW q \in Records, q \notin saved, Untouched(q),
                        NEW x \in (UNION {refs[z] : z \in {x \in saved : owner[x] = o}}), x \in {q} \X Slots
                 PROVE  FALSE
      OBVIOUS
    <3> QED
      BY RecordOfPhoto DEF IInv, TypeOK, Untouched, ClearRecords, Queued, Flush
  <2>3. \A s \in Tasks : task'[s].cleaned \subseteq task[s].cleaned
    BY DEF IInv, TypeOK, Task, Idle, ClearRecords, Queued, Flush
  <2> QED
    BY <2>1, <2>2, <2>3, NoneAssumption DEF IInv, ClearRecords, Queued, Flush, TypeOK, FreshRecords, CallsOK, CallOK, OneSave, Task, Idle, dbVars
<1>6. CallsOK'
  BY NoneAssumption DEF IInv, ClearRecords, Queued, Flush, TypeOK, CallsOK, CallOK, FreshRecords, Untouched, OneSave, Held, Referenced, Photos, Task, Idle, dbVars
<1>7. OneSave'
  BY NoneAssumption DEF IInv, ClearRecords, Queued, Flush, TypeOK, OneSave, FreshRecords, CallsOK, CallOK, Task, Idle, dbVars
<1> QED
  BY <1>1, <1>2, <1>3, <1>4, <1>5, <1>6, <1>7 DEF IInv

(* Beginning a flush changes no table and no file.                         *)
LEMMA StartFlushStep ==
    ASSUME IInv, NEW t \in Tasks, NEW o \in Owners, StartFlush(t, o)
    PROVE  IInv'
<1>1. TypeOK'
  BY NoneAssumption DEF IInv, StartFlush, Flush, TypeOK, Task, Step, Photos, Idle, dbVars
<1>2. RecordPhotosExist'
  BY NoneAssumption DEF IInv, StartFlush, Flush, TypeOK, RecordPhotosExist, CallsOK, CallOK, Referenced, Held, Task, Idle, dbVars
<1>3. NoFileForgotten'
  BY NoneAssumption DEF IInv, StartFlush, Flush, TypeOK, NoFileForgotten, CallsOK, CallOK, FreshRecords, Untouched, Referenced, Held, Task, Idle, dbVars
<1>4. SavedNotQueued'
  BY NoneAssumption DEF IInv, StartFlush, Flush, TypeOK, SavedNotQueued, CallsOK, CallOK, Referenced, Photos, Task, Idle, dbVars
<1>5. FreshRecords'
  BY NoneAssumption DEF IInv, StartFlush, Flush, TypeOK, FreshRecords, Untouched, CallsOK, CallOK, OneSave, Photos, Task, Idle, dbVars
<1>6. CallsOK'
  BY NoneAssumption DEF IInv, StartFlush, Flush, TypeOK, CallsOK, CallOK, FreshRecords, Untouched, OneSave, Held, Referenced, Photos, Task, Idle, dbVars
<1>7. OneSave'
  BY NoneAssumption DEF IInv, StartFlush, Flush, TypeOK, OneSave, FreshRecords, CallsOK, CallOK, Task, Idle, dbVars
<1> QED
  BY <1>1, <1>2, <1>3, <1>4, <1>5, <1>6, <1>7 DEF IInv

(* What is listed is queued, hence no photo of a fresh record.             *)
LEMMA ListPendingStep ==
    ASSUME IInv, NEW t \in Tasks, ListPending(t)
    PROVE  IInv'
<1>1. TypeOK'
  <2> DEFINE S == {p \in Photos : queue[p] = task[t].owner /\ ~Referenced(p)}
             h == [task[t] EXCEPT !.step = "delete", !.todo = S]
  <2>1. S \in SUBSET Photos
    OBVIOUS
  <2>2. task' = [task EXCEPT ![t] = h]
    BY DEF IInv, TypeOK, Task, ListPending
  <2> HIDE DEF S
  <2>3. h \in Task
    BY <2>1 DEF IInv, TypeOK, Task, Step
  <2> HIDE DEF h
  <2>4. task' \in [Tasks -> Task]
    BY <2>2, <2>3 DEF IInv, TypeOK
  <2>5. QED
    BY <2>4 DEF IInv, TypeOK, ListPending, dbVars
<1>2. RecordPhotosExist'
  BY NoneAssumption DEF IInv, ListPending, TypeOK, RecordPhotosExist, CallsOK, CallOK, Referenced, Held, Task, Idle, dbVars
<1>3. NoFileForgotten'
  BY NoneAssumption DEF IInv, ListPending, TypeOK, NoFileForgotten, CallsOK, CallOK, FreshRecords, Untouched, Referenced, Held, Task, Idle, dbVars
<1>4. SavedNotQueued'
  BY NoneAssumption DEF IInv, ListPending, TypeOK, SavedNotQueued, CallsOK, CallOK, Referenced, Photos, Task, Idle, dbVars
<1>5. FreshRecords'
  BY NoneAssumption DEF IInv, ListPending, TypeOK, FreshRecords, Untouched, CallsOK, CallOK, OneSave, Photos, Task, Idle, dbVars
<1>6. CallsOK'
  BY NoneAssumption DEF IInv, ListPending, TypeOK, CallsOK, CallOK, FreshRecords, Untouched, OneSave, Held, Referenced, Photos, Task, Idle, dbVars
<1>7. OneSave'
  BY NoneAssumption DEF IInv, ListPending, TypeOK, OneSave, FreshRecords, CallsOK, CallOK, Task, Idle, dbVars
<1> QED
  BY <1>1, <1>2, <1>3, <1>4, <1>5, <1>6, <1>7 DEF IInv

(* A file that is deleted under a record or a draft is raced.              *)
LEMMA DeleteFileStep ==
    ASSUME IInv, NEW t \in Tasks, NEW p \in Photos, DeleteFile(t, p)
    PROVE  IInv'
<1>1. TypeOK'
  <2> DEFINE h == [task[t] EXCEPT !.todo = @ \ {p}, !.cleaned = @ \cup {p}]
  <2>1. task[t] \in Task
    BY DEF IInv, TypeOK
  <2>2. task[t].todo \ {p} \in SUBSET Photos /\ task[t].cleaned \cup {p} \in SUBSET Photos
    BY <2>1 DEF Task
  <2>3. h \in Task
    BY <2>1, <2>2 DEF Task
  <2>4. task' = [task EXCEPT ![t] = h]
    BY DEF IInv, TypeOK, Task, DeleteFile
  <2> HIDE DEF h
  <2>5. task' \in [Tasks -> Task]
    BY <2>3, <2>4 DEF IInv, TypeOK
  <2>6. QED
    BY <2>5 DEF IInv, TypeOK, DeleteFile, dbVars
<1>2. RecordPhotosExist'
  BY NoneAssumption DEF IInv, DeleteFile, TypeOK, RecordPhotosExist, CallsOK, CallOK, Referenced, Held, Task, Idle, dbVars
<1>3. NoFileForgotten'
  BY NoneAssumption DEF IInv, DeleteFile, TypeOK, NoFileForgotten, CallsOK, CallOK, FreshRecords, Untouched, Referenced, Held, Task, Idle, dbVars
<1>4. SavedNotQueued'
  BY NoneAssumption DEF IInv, DeleteFile, TypeOK, SavedNotQueued, CallsOK, CallOK, Referenced, Photos, Task, Idle, dbVars
<1>5. FreshRecords'
  BY NoneAssumption DEF IInv, DeleteFile, TypeOK, FreshRecords, Untouched, CallsOK, CallOK, OneSave, Photos, Task, Idle, dbVars
<1>6. CallsOK'
  BY NoneAssumption DEF IInv, DeleteFile, TypeOK, CallsOK, CallOK, FreshRecords, Untouched, OneSave, Held, Referenced, Photos, Task, Idle, dbVars
<1>7. OneSave'
  BY NoneAssumption DEF IInv, DeleteFile, TypeOK, OneSave, FreshRecords, CallsOK, CallOK, Task, Idle, dbVars
<1> QED
  BY <1>1, <1>2, <1>3, <1>4, <1>5, <1>6, <1>7 DEF IInv

(* A failed deletion leaves the photo in the queue.                        *)
LEMMA DeleteFailsStep ==
    ASSUME IInv, NEW t \in Tasks, NEW p \in Photos, DeleteFails(t, p)
    PROVE  IInv'
<1>1. TypeOK'
  <2> DEFINE h == [task[t] EXCEPT !.todo = @ \ {p}]
  <2>1. task[t] \in Task
    BY DEF IInv, TypeOK
  <2>2. task[t].todo \ {p} \in SUBSET Photos /\ task[t].cleaned \cup {p} \in SUBSET Photos
    BY <2>1 DEF Task
  <2>3. h \in Task
    BY <2>1, <2>2 DEF Task
  <2>4. task' = [task EXCEPT ![t] = h]
    BY DEF IInv, TypeOK, Task, DeleteFails
  <2> HIDE DEF h
  <2>5. task' \in [Tasks -> Task]
    BY <2>3, <2>4 DEF IInv, TypeOK
  <2>6. QED
    BY <2>5 DEF IInv, TypeOK, DeleteFails, dbVars
<1>2. RecordPhotosExist'
  BY NoneAssumption DEF IInv, DeleteFails, TypeOK, RecordPhotosExist, CallsOK, CallOK, Referenced, Held, Task, Idle, dbVars
<1>3. NoFileForgotten'
  BY NoneAssumption DEF IInv, DeleteFails, TypeOK, NoFileForgotten, CallsOK, CallOK, FreshRecords, Untouched, Referenced, Held, Task, Idle, dbVars
<1>4. SavedNotQueued'
  BY NoneAssumption DEF IInv, DeleteFails, TypeOK, SavedNotQueued, CallsOK, CallOK, Referenced, Photos, Task, Idle, dbVars
<1>5. FreshRecords'
  BY NoneAssumption DEF IInv, DeleteFails, TypeOK, FreshRecords, Untouched, CallsOK, CallOK, OneSave, Photos, Task, Idle, dbVars
<1>6. CallsOK'
  BY NoneAssumption DEF IInv, DeleteFails, TypeOK, CallsOK, CallOK, FreshRecords, Untouched, OneSave, Held, Referenced, Photos, Task, Idle, dbVars
<1>7. OneSave'
  BY NoneAssumption DEF IInv, DeleteFails, TypeOK, OneSave, FreshRecords, CallsOK, CallOK, Task, Idle, dbVars
<1> QED
  BY <1>1, <1>2, <1>3, <1>4, <1>5, <1>6, <1>7 DEF IInv

(* What a flush dequeues has no file left, or is raced.                    *)
LEMMA CompleteStep ==
    ASSUME IInv, NEW t \in Tasks, Complete(t)
    PROVE  IInv'
<1>1. TypeOK'
  BY NoneAssumption DEF IInv, Complete, Cancelled, TypeOK, Task, Step, Photos, Idle, dbVars
<1>2. RecordPhotosExist'
  BY NoneAssumption DEF IInv, Complete, Cancelled, TypeOK, RecordPhotosExist, CallsOK, CallOK, Referenced, Held, Task, Idle, dbVars
<1>3. NoFileForgotten'
  BY NoneAssumption DEF IInv, Complete, Cancelled, TypeOK, NoFileForgotten, CallsOK, CallOK, FreshRecords, Untouched, Referenced, Held, Task, Idle, dbVars
<1>4. SavedNotQueued'
  BY NoneAssumption DEF IInv, Complete, Cancelled, TypeOK, SavedNotQueued, CallsOK, CallOK, Referenced, Photos, Task, Idle, dbVars
<1>5. FreshRecords'
  <2>1. ASSUME NEW q \in Records, Untouched(q), q \notin saved,
               task[t].cleaned \cap ({q} \X Slots) = {},
               \A s \in Tasks : task'[s].cleaned \subseteq task[s].cleaned
        PROVE  Untouched(q)'
    BY <2>1, PhotosOfRecord DEF IInv, TypeOK, Complete, Cancelled, Untouched, dbVars, Task, Idle
  <2>2. \A q \in Records : q \notin saved /\ Untouched(q) => task[t].cleaned \cap ({q} \X Slots) = {}
    <3> SUFFICES ASSUME NEW q \in Records, q \notin saved, Untouched(q),
                        NEW x \in task[t].cleaned, x \in {q} \X Slots
                 PROVE  FALSE
      OBVIOUS
    <3> QED
      BY RecordOfPhoto DEF IInv, TypeOK, Untouched, Complete, Cancelled
  <2>3. \A s \in Tasks : task'[s].cleaned \subseteq task[s].cleaned
    BY DEF IInv, TypeOK, Task, Idle, Complete, Cancelled
  <2> QED
    BY <2>1, <2>2, <2>3, NoneAssumption DEF IInv, Complete, Cancelled, TypeOK, FreshRecords, CallsOK, CallOK, OneSave, Task, Idle, dbVars
<1>6. CallsOK'
  BY NoneAssumption DEF IInv, Complete, Cancelled, TypeOK, CallsOK, CallOK, FreshRecords, Untouched, OneSave, Held, Referenced, Photos, Task, Idle, dbVars
<1>7. OneSave'
  BY NoneAssumption DEF IInv, Complete, Cancelled, TypeOK, OneSave, FreshRecords, CallsOK, CallOK, Task, Idle, dbVars
<1> QED
  BY <1>1, <1>2, <1>3, <1>4, <1>5, <1>6, <1>7 DEF IInv

(* A deferred flush leaves the queue as it is.                             *)
LEMMA DeferStep ==
    ASSUME IInv, NEW t \in Tasks, Defer(t)
    PROVE  IInv'
<1>1. TypeOK'
  BY NoneAssumption DEF IInv, Defer, TypeOK, Task, Step, Photos, Idle, dbVars
<1>2. RecordPhotosExist'
  BY NoneAssumption DEF IInv, Defer, TypeOK, RecordPhotosExist, CallsOK, CallOK, Referenced, Held, Task, Idle, dbVars
<1>3. NoFileForgotten'
  BY NoneAssumption DEF IInv, Defer, TypeOK, NoFileForgotten, CallsOK, CallOK, FreshRecords, Untouched, Referenced, Held, Task, Idle, dbVars
<1>4. SavedNotQueued'
  BY NoneAssumption DEF IInv, Defer, TypeOK, SavedNotQueued, CallsOK, CallOK, Referenced, Photos, Task, Idle, dbVars
<1>5. FreshRecords'
  BY NoneAssumption DEF IInv, Defer, TypeOK, FreshRecords, Untouched, CallsOK, CallOK, OneSave, Photos, Task, Idle, dbVars
<1>6. CallsOK'
  BY NoneAssumption DEF IInv, Defer, TypeOK, CallsOK, CallOK, FreshRecords, Untouched, OneSave, Held, Referenced, Photos, Task, Idle, dbVars
<1>7. OneSave'
  BY NoneAssumption DEF IInv, Defer, TypeOK, OneSave, FreshRecords, CallsOK, CallOK, Task, Idle, dbVars
<1> QED
  BY <1>1, <1>2, <1>3, <1>4, <1>5, <1>6, <1>7 DEF IInv

(* Nothing the invariant needs is lost with the memory of the app.         *)
LEMMA CrashStep ==
    ASSUME IInv, Crash
    PROVE  IInv'
<1>1. TypeOK'
  <2>1. Idle \in Task
    BY DEF Idle, Task, Step
  <2>2. task' \in [Tasks -> Task]
    BY <2>1 DEF Crash
  <2>6. shown' \in [Records -> (SUBSET Photos) \cup {None}]
    <3> DEFINE V == (SUBSET Photos) \cup {None}
    <3>1. None \in V
      OBVIOUS
    <3> HIDE DEF V
    <3>2. shown' \in [Records -> V]
      BY <3>1 DEF Crash
    <3> QED
      BY <3>2 DEF V
  <2>4. \A q \in Records : shown'[q] # None => shown'[q] \subseteq {q} \X Slots /\ owner'[q] \in Owners
    BY DEF Crash
  <2>5. QED
    BY <2>2, <2>4, <2>6 DEF IInv, TypeOK, Crash, dbVars
<1>2. RecordPhotosExist'
  BY NoneAssumption DEF IInv, Crash, TypeOK, RecordPhotosExist, CallsOK, CallOK, Referenced, Held, Task, Idle, dbVars
<1>3. NoFileForgotten'
  BY NoneAssumption DEF IInv, Crash, TypeOK, NoFileForgotten, CallsOK, CallOK, FreshRecords, Untouched, Referenced, Held, Task, Idle, dbVars
<1>4. SavedNotQueued'
  BY NoneAssumption DEF IInv, Crash, TypeOK, SavedNotQueued, CallsOK, CallOK, Referenced, Photos, Task, Idle, dbVars
<1>5. FreshRecords'
  BY NoneAssumption DEF IInv, Crash, TypeOK, FreshRecords, Untouched, CallsOK, CallOK, OneSave, Photos, Task, Idle, dbVars
<1>6. CallsOK'
  BY NoneAssumption DEF IInv, Crash, TypeOK, CallsOK, CallOK, FreshRecords, Untouched, OneSave, Held, Referenced, Photos, Task, Idle, dbVars
<1>7. OneSave'
  BY NoneAssumption DEF IInv, Crash, TypeOK, OneSave, FreshRecords, CallsOK, CallOK, Task, Idle, dbVars
<1> QED
  BY <1>1, <1>2, <1>3, <1>4, <1>5, <1>6, <1>7 DEF IInv

LEMMA StutterStep ==
    ASSUME IInv, UNCHANGED vars
    PROVE  IInv'
<1> USE DEF IInv, vars, dbVars
<1>1. TypeOK' /\ RecordPhotosExist' /\ NoFileForgotten' /\ SavedNotQueued'
  BY DEF TypeOK, RecordPhotosExist, NoFileForgotten, SavedNotQueued, Referenced
<1>2. FreshRecords' /\ CallsOK' /\ OneSave'
  BY DEF FreshRecords, Untouched, CallsOK, CallOK, OneSave, Held
<1>3. QED
  BY <1>1, <1>2

(* Every step keeps the inductive invariant.                               *)
LEMMA NextIInv == IInv /\ [Next]_vars => IInv'
<1> SUFFICES ASSUME IInv, [Next]_vars PROVE IInv'
  OBVIOUS
<1>1. CASE UNCHANGED vars
  BY <1>1, StutterStep
<1>2. CASE Crash
  BY <1>2, CrashStep
<1>3. CASE \E r \in Records : Show(r)
  BY <1>3, ShowStep
<1>4. ASSUME NEW t \in Tasks,
             \/ \E o \in Owners, r \in Records, S \in SUBSET Slots : StartSave(t, o, r, S)
             \/ Stage(t)
             \/ \E p \in Photos : CopyPhoto(t, p)
             \/ \E p \in Photos : CopyFails(t, p)
             \/ CreateRecord(t)
             \/ SaveFails(t)
      PROVE  IInv'
  BY <1>4, StartSaveStep, StageStep, CopyPhotoStep, CopyFailsStep, CreateRecordStep, SaveFailsStep
<1>5. ASSUME NEW t \in Tasks,
             \/ \E r \in Records : \E keep \in SUBSET ({r} \X Slots) : UpdateRecord(t, r, keep)
             \/ \E r \in Records : DeleteRecord(t, r)
             \/ \E o \in Owners : ClearRecords(t, o)
             \/ \E o \in Owners : StartFlush(t, o)
      PROVE  IInv'
  BY <1>5, UpdateRecordStep, DeleteRecordStep, ClearRecordsStep, StartFlushStep
<1>6. ASSUME NEW t \in Tasks,
             \/ ListPending(t)
             \/ \E p \in Photos : DeleteFile(t, p)
             \/ \E p \in Photos : DeleteFails(t, p)
             \/ Complete(t)
             \/ Defer(t)
      PROVE  IInv'
  BY <1>6, ListPendingStep, DeleteFileStep, DeleteFailsStep, CompleteStep, DeferStep
<1>7. QED
  BY <1>1, <1>2, <1>3, <1>4, <1>5, <1>6 DEF Next

(* IInv holds in every state the app can reach.                            *)
THEOREM Invariance == Spec => []IInv
  BY InitIInv, NextIInv, PTL DEF Spec

(* Every photo of a saved record has its file, unless the photo lost a     *)
(* race with a flush or came back from a stale page.                       *)
THEOREM SavedPhotosExist == Spec => []RecordPhotosExist
<1>1. IInv => RecordPhotosExist
  BY DEF IInv
<1>2. QED
  BY <1>1, Invariance, PTL

(* Every photo file is shown by a record or waits in the cleanup queue,    *)
(* with the same exceptions: failures and crashes leak no file.            *)
THEOREM FilesAccountedFor == Spec => []NoFileForgotten
<1>1. IInv => NoFileForgotten
  BY DEF IInv
<1>2. QED
  BY <1>1, Invariance, PTL

(* The queue never names a photo of an existing record, unless a stale     *)
(* page put it back.                                                       *)
THEOREM QueueIsExact == Spec => []SavedNotQueued
<1>1. IInv => SavedNotQueued
  BY DEF IInv
<1>2. QED
  BY <1>1, Invariance, PTL

=============================================================================
