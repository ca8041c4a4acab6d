# Tripic: TLA+ specifications, model checking and proofs

Tripic is a photo travel record: a NestJS API over PostgreSQL (`apps/api`), an
Expo/React Native app that keeps its records on the device (`apps/mobile`), a
React web client of the API (`apps/web`) and the zod schemas they share
(`packages/shared`). This directory holds TLA+ modules of the parts whose
correctness depends on the order in which things happen, TLC configurations
that check them on small instances, and TLAPS proofs of the properties that
matter most.

Contents

1. Inventory: the components, what each keeps, what can go wrong
2. The modules and how they correspond to the code
3. Properties and hazards
4. The runs, their bounds, and the fairness they assume
5. Where the code and its documentation disagree
6. What is proved, and how
7. What is only model-checked, and what is not modelled
8. Plan

To run a check or the proofs of a module, in this directory:

    tlc -workers 2 -config MCWithdrawal.cfg MCWithdrawal    # a run
    tlapm WithdrawalProofs.tla                              # the proofs of a module

---

## 1. Inventory

### API sessions (modelled)

*Code*: `apps/api/src/auth/auth.service.ts`, `auth.controller.ts`,
`jwt-auth.guard.ts`, `adapters/prisma-refresh-tokens.adapter.ts`, the session
side of `apple-auth.service.ts` and `adapters/prisma-auth-accounts.adapter.ts`.
*State*: the rows of `users` and `refresh_tokens`.
*Operations*: login (find or create the account, insert the first token of a new
family), refresh (find the row, judge it, exchange it in a transaction), logout,
consent-revoked (revoke every session of the account), account deletion, and
the guard's question whether a family still has a usable row.
*Hard*: any two requests interleave at every statement. The adapter relies on
PostgreSQL's READ COMMITTED rules: what a statement sees was committed when it
started, an UPDATE that waited for a row lock looks at the row again but does not
look for new rows, and uncommitted inserts are invisible.
*Correct when*: a family has at most one usable row; a dead family stays dead; a
revocation that was answered has ended its sessions; a deleted account leaves
nothing to sign in with; nobody ends somebody else's session; no login, refresh or
logout is part of a circle of requests that wait for each other's rows.

### Mobile session (modelled, with the exceptions of section 7)

*Code*: `features/auth-session/model/AuthSessionProvider.tsx`,
`shared/api/http.ts`, `shared/lib/storage/sessionTokenStorage.ts`.
*State*: the refresh token in the secure store; in memory the access token, the
refreshed token of the last second, the session revision, three promises
(refresh, login establishment, logout), the status and the user on display.
*Operations*: restore at the start of the app and when it returns to the
foreground, refresh, `establishSession`, `logout`, `clearLocalSession`,
`replaceUser`, and `requestJson`, which repeats a call refused with a 401.
*Interacts with*: the API sessions (every refresh, login and logout), the
withdrawal, every page that calls the server.
*Hard*: each operation awaits the store and the network several times while the
others run; an answer may be lost; the app may be killed between the server's
step and the write of the token.
*Correct when*: what is shown, what is held in memory and what is stored agree;
a cleared session does not come back; a logout reaches the server; a refresh
token is not presented twice (the server would take that for theft).

### Mobile photo files (modelled; for days, visits and notes see record contents)

*Code*: `entities/travel-record/api/localRecordRepository.ts`,
`features/local-records` (`saveLocalRecordDraft`, `flushQueuedPhotoCleanup`,
`LocalRecordsProvider`), `shared/lib/storage/localPhotoFiles.ts`, `database.ts`,
the photo removal of the record detail page.
*State*: photo rows and the cleanup queue in SQLite, the photo files, the query
cache of the pages.
*Operations*: save a draft (stage, copy, create), update and delete a record, clear
an owner's records, flush the queue.
*Hard*: no transaction spans SQLite and the file system; calls overlap at every
await; the app may be killed at any step; copies and deletions fail.
*Correct when*: every photo of a saved record exists; no file is forgotten; what
is queued is really deleted in the end, and nothing else is.

### Account withdrawal on the device (modelled)

*Code*: `features/account-withdrawal/model` (`withdrawAccount`,
`recoverPendingWithdrawalCleanup`, `pendingWithdrawalCleanupStorage`,
`accountWithdrawalRuntime`), the withdrawal page, the start of the app in
`app/_layout.tsx`.
*State*: the accounts on the server, the session, the records on the device, the
marker of pending cleanups in the secure store.
*Operations*: delete the account on the server, mark, delete the records, unmark,
sign out; at the start of the app, finish what is marked.
*Interacts with*: mobile session (the DELETE is an authenticated call that may be
repeated; `clearLocalSession`), photo files (`clearRecords`), API sessions
(deletion of the account).
*Hard*: the answer may be lost, each store operation may fail, the app may be
killed between any two steps, the session may end or change under the open page.
*Correct when*: only records of deleted accounts are deleted, a marker outlives
the records it stands for, and what is marked is done in the end.

### Accounts and Apple linking (modelled)

*Code*: `auth/adapters/prisma-auth-accounts.adapter.ts`,
`prisma-apple-credentials.adapter.ts`, `apple-auth.service.ts`,
`users/users.service.ts`, the provider clients. *State*: `users`,
`social_accounts`, `apple_credentials`; at Apple, which of the tokens it has
issued are still valid. *Operations*: login with Kakao or Apple, withdrawal
(unlink, then delete), the notifications `consent-revoked` and `account-delete`.
*Hard*: two first logins of one social account; a login that replaces the Apple
credential while a notification about the previous one deletes it; a withdrawal
that has revoked the Apple token and then fails, or whose answer is lost.
*Correct when*: one user per social account; an account is deleted only when its
Apple token is void; an error means that the account is still there; whoever asks
again is deleted in the end.

### Records API and record places API (modelled)

*Code*: `records/*`. *State*: records, entries, photos, places. *Operations*:
every request on them. *Hard*: the owner and the photo quota are read in one
statement and relied on in another; entry upserts and record deletions lock rows
in different orders; a place is verified against KTO for seconds and stored
afterwards. *Correct when*: no row outlives its record, the quota is passed by one
photo per concurrent request at most, writers do not deadlock, a stored place has
the codes KTO gives for it, and an answer says what happened.

### Tourism API, region codes (partly modelled)

*Code*: `tourism/*`. *State*: none; a table of 256 legal districts and their legacy
codes. *Hard*: records hold legacy codes, KTO is searched in legal ones, Gwangju and
Jeonnam share one legal area. *Correct when*: a stored place is found in its region.

### Web session and web record pages (modelled; lists, map and editor of places are not)

*Code*: `apps/web/src/features/auth-session`, `shared/api/http.ts`,
`pages/auth-kakao-callback`, `pages/record-create`, `pages/record-edit`, settings.
*State*: the access token and the shown user of a tab, the refresh cookie all tabs
share, and the half-created record of a failed submission. *Hard*: two tabs refresh
with one cookie; a refresh or a page's call resolves after the logout; the profile
load of the mount and a login run at once; one of several requests of a submission
fails, or its compensation does. *Correct when*: a tab at rest shows the account it
holds a token of; a logout leaves no usable token; what a page reports is so.

### Mobile record draft and record contents (modelled; titles and tags are not)

*Code*: `features/create-record-session`, the pages from photo choice to
composition; the record's detail, edit and place edit pages; `saveLocalRecordDraft`,
`updateRecordPlace.ts`, `removeRecordPhoto.ts`, `recordContract.ts`, the reading
and writing of records in `localRecordRepository.ts`. *State*: the draft across
the pages with its transient coordinates, the picker, the search, the saves and
changes under way, the records and the query client's copies of them. *Hard*: the
user leaves a page whose save or change goes on; the picker answers after a decision
was taken; changes overlap; a page opened again shows the old copy of its record
while it is read again; a visit that changes its day takes its photo along. *Correct when*: every stored record is
sound and a change keeps the rest of it; the lists agree with the records; no photo
of the draft is lost; coordinates are used once, with consent.

### Mobile tourism client, regions and the map of the home page (partly modelled)

*Code*: `shared/api/kto`, `entities/tourist-place`, `entities/app-config`,
`entities/region`, `widgets/travel-map`, the home page. *State*: the way into the
map; else functions from what KTO and the repository answer to what is shown.
*Hard*: limits and rows that are dropped after them; two counts of one thing
("visited of 157"). *Correct when*: only places that can be stored are offered;
each of the 157 cities and counties can be visited; back leads up.

### Other parts

*Login providers* (what the Kakao and Apple clients make of every kind of answer is
part of `Accounts`; the JWKS cache and the token cipher are not modelled), *API
operations* (configuration, health, notices, version), the other *mobile pages and
widgets* and the *shared schemas* are I/O, rendering or validation and keep no state
that operations compete for.

### How the parts interact

    web tab ──cookie──┐                     ┌── KTO service
                      ▼                     ▼
    mobile session ─► API sessions ─► accounts ─► records, places
       ▲     ▲             ▲             │
       │     └─ pages      └─ Apple notifications
       │
    withdrawal ─► photo files (clearRecords) ◄─ record draft (save)

---

## 2. The modules

| module | models | extends / uses |
|---|---|---|
| `SessionLifecycle` | abstract: what a login session is | |
| `AuthSessions` | API sessions | refines `SessionLifecycle` |
| `Accounts` | accounts, Apple linking, provider answers | sessions as one bit per user |
| `RegionCodes` | the table of region codes | |
| `Tourism` | the KTO proxy: codes, search by region, outcomes | `RegionCodes`, `Lists` |
| `Records` | records, entries, photos and places of the API | `Tourism` |
| `MobileSession` | mobile session, against abstract server sessions | its stand-in for the server refines `SessionLifecycle` |
| `LocalPhotos` | mobile photo files | |
| `Withdrawal` | account withdrawal on the device | |
| `TouristPlaces` | what the app asks KTO and offers | `Tourism` |
| `TravelMap` | regions that count, the map of the home page | `RegionCodes` |
| `Lists` | sorted lists, parts of a list and sums, defined by counting, so that they can be reasoned about | |
| `RecordContents` | what a save or a change makes of a record, the repository's checks, lists and counts | `Lists` |
| `RecordPages` | the draft and the pages of a record | `RecordContents`, `TouristPlaces`, `TravelMap` |
| `Web` | tabs, cookie, login and the pages that make and edit records | server as in `SessionLifecycle` and `Records`, coarser |
| `MC...` | instances for TLC | |
| `AuthSessionsProofs`, `AccountsProofs`, `RecordsProofs`, `MobileSessionProofs`, `LocalPhotosProofs`, `WithdrawalProofs`, `WebProofs`, `RecordPagesProofs` | theorems about the module of that name, with their proofs | the module, `TLAPS` |

In every module an operator that carries the comment *Mutant* is no part of the
specification: it is a plausible bug of the action that follows it, with which
the properties of the module are shown to fail.

### SessionLifecycle

What the refresh-token table promises: a session (a rotation family) is opened
once, has exactly one exchangeable token while it is open, each exchange replaces
it by a token never used before, and an ended session never comes back. What ties
the server's code to it is `AuthSessions`, the table with all its statements.
`MobileSession` writes a coarse server of its own for the device to talk to;
`ServerIsLifecycle` says of this stand-in only that it does nothing a
`SessionLifecycle` would not do. It says nothing about the code of the server, nor
that the stand-in shows the device everything the real one can.

### AuthSessions

A request of the API is a process (`req[r]`) whose steps are its database
statements. A row's `revokedAt` and `replacedById` are one value, `status[t]`;
`"pending"` is a row of an open transaction that nobody else sees.

| action | code |
|---|---|
| `LoginAccount`, `LoginIssue`, `LoginRefused` | `loginWithKakao`, `startSession`, `issueTokens` and the foreign key |
| `RefreshArrives`, `RefreshFind` | `refresh`, `findByHash`, `assertUsable` |
| `RotateInsert`, `RotateUpdate`, `RotateCommit`, `RotateConflict`, `RotateRefused`, `RotateAbort` | the transaction of `rotate()` statement by statement, and how it ends |
| `LogoutAdmitted`, `LogoutFind` | `JwtAuthGuard.canActivate`, `logout` |
| `ConsentRevoked` | the notification handler of `apple-auth.service.ts` |
| `RevokeScan`, `LockRow`, `RevokeApply` | the snapshot, the row locks and the update of `revokeFamily` / `revokeAllForUser` |
| `DeleteArrives`, `DeleteLocksUser`, `LockRow`, `DeleteUser`, `DeleteNothing` | `deleteUser`: the users row, which waits for transactions that refer to the user, then the cascade over the token rows |
| `StatementFails` | a revocation or deletion that is the victim of a deadlock, or fails otherwise |
| `Expire` | the clock |

An UPDATE is several steps because that is where READ COMMITTED is weaker than it
looks: the rows to change are found first (`targets`), and a row that another
transaction commits while the UPDATE waits for a lock is not among them. It locks
them one by one (`locked`), in no order one may rely on, and keeps those it has
while it waits for the next; so does the cascade of a deletion, which has the users
row before. Two requests that want several rows, a consent-revoked and a deletion of
one account with two sessions, or two consent-revokeds, can thus wait for each other
in a circle, and of three requests three can. PostgreSQL then fails one. The locks
are those of `users` and `refresh_tokens`: no other table is part of these statements
but in the rest of the cascade, which is `Records`' and `Accounts`'.

### MobileSession

The device is one record, `app`; the operators on it (`clearSession`,
`RefreshSettles`, `RestoreResumes`, `Establish` ...) are the functions of the
provider between two awaits and return the set of possible results. A step ends
where the code awaits. When a promise settles, all its continuations run in the
same step, in the order in which they were attached: JavaScript runs them before
any other event. The session revision is modelled by who holds a stale copy of
it: `refresh.fresh` and `restore.fresh` are reset by every bump.

The secure store takes operations in the order they are issued. Whether an
operation fails is decided where it is issued, and the code learns it at the await.

The server's step and the receipt of its answer are one step with three outcomes:
done and answered, done and the answer lost, not done. `lost` records the
sessions of the second kind.

Five steps of the code may leave the device with a session that is half there.
Each is an interleaving the code does not guard against; the comments of `Slips`
name them, the history `slips` records them, and `ShownIsHeld`, `HeldIsStored`,
`NoTokenReturns` and `LogoutIsTold` hold for every behaviour without them. Two of
them contradict what the app tells its user, see section 5.

| slip | what happens |
|---|---|
| `refresh` | `performRefresh` reads the token, the session is cleared, the revision is noted only then |
| `guest` | the restore compares the revision, then reads the guest mode, while a login completes |
| `user` | `replaceUser` shows the user of an answer whose session is over |
| `tokenless` | a retried restore succeeds from the one-second grace without an access token |
| `cleared` | a session is cleared while a login writes its token |

### LocalPhotos

A task is one asynchronous call of the app. The repository runs its transactions
one after the other, so each is one step, and the photo copies and file
deletions are steps of their own.

| action | code |
|---|---|
| `StartSave`, `Stage`, `CopyPhoto`, `CopyFails`, `CreateRecord`, `SaveFails` | `saveLocalRecordDraft`, `stagePhotoCleanup`, `createDurablePhotoCopy`, `createRecord` |
| `Show` | a refetch of the query cache, which may come late or never |
| `UpdateRecord`, `DeleteRecord`, `ClearRecords` | the repository's mutations from the record on display, and the flush each starts |
| `StartFlush`, `ListPending`, `DeleteFile`, `DeleteFails`, `Complete`, `Defer` | `flushQueuedPhotoCleanup` |
| `Crash` | the app is killed: calls and cache are lost, tables and files stay |

The history `raced` collects the photos that lost a race: deleted by a flush that
had listed them before their record was saved, or while their draft was being
saved, or put back into a record by a page with a stale copy of it. The invariants
exempt these photos by name, and by no other means; section 5 reports the first kind.

### Withdrawal

| action | code |
|---|---|
| `StartWithdrawal` | the withdrawal page's `withdraw` |
| `RemoteDelete`, `DeleteRefused` | `DELETE /users/me` with every outcome; the repetition of a refused call in `requestJson` |
| `Mark`, `Clear`, `ClearFails`, `Complete`, `SignOut` | the rest of `withdrawAccount` |
| `RecoveryRead`, `RecoveryClear`, `RecoveryFails`, `RecoveryComplete` | `recoverPendingWithdrawalCleanup` |
| `Restart` | the app is killed and started again |
| `SignIn`, `SessionEnds`, `StartSave`, `SaveEnds` | what the rest of the app does meanwhile |

The marker storage serializes its read-modify-write cycles, so each is one step.
`late` records accounts for which a save that was still running added a record
after the deletion was confirmed; `mistaken` those whose page was told of the
deletion of another account (section 5). One withdrawal page is open at a time.

### Accounts

A request is a process whose steps are its statements and its calls to the
providers; `Abandoned` lets it die between any two of them. Apple is modelled by
what the code meets of it: tokens it issues, revokes and refuses (`grant`), and
notifications that it may deliver late and again (`notices`).

| action | code |
|---|---|
| `KakaoLogin`, `AppleLogin`, `AppleExchange` | the controllers' logins, the exchange of Apple's code |
| `FindAccount`, `CreateAccount`, `CreateConflict`, `FindAgain` | `findOrCreateBySocial` and the catch of its unique-key error |
| `SaveCredential`, `StartSession` | `saveForAppleUser`, the first refresh token |
| `Withdraw`, `Unlink`, `Revoke`, `RevokeFails`, `DeleteAccount` | `UsersService.withdraw`, `unlink`, `deleteUser` |
| `Notified`, `NoticeFind`, `RevokeAllForUser`, `DropCredential` | the notification handler |
| `AppleUserLeaves`, `Restarted`, `Abandoned` | the user at Apple; a server without Apple's settings; a handler that dies |

### RegionCodes, Tourism

`RegionCodes` is the table itself, 256 districts as the code has them, with the
assumption `RegionCodesAgree` that its three maps fit together: TLC evaluates it on
every run that uses it. `Tourism` gives, as functions, what KTO lists for a
filter, what the adapter makes of an item and how a call can end. Legal area 12
(Gwangju and Jeonnam) has no legacy area: an item of which KTO knows nothing but
that area resolves to an empty area code, which the API stores and the app refuses
to offer; `StoredPlacesAreFound` speaks of the places whose district is mapped. It
allows for what the code does with a limit: KTO counts the rows of the legal region
that the adapter then drops, so a place may be missing from the answer although the
places of its own region before it are fewer than the limit; for the shared legal area
as many rows are asked for as can be had (`RowsAsked`).

### Records

A request is a process, a step one SQL statement, one KTO call or one inspection of
an image. Row locks are kept where a statement waits for them (`locks`, `held`);
a circle of waiting requests is broken by PostgreSQL, which aborts one statement
(`Abort`). `task[q].rows` is what a deletion has found, `room` what the quota check
has seen, `codes` what KTO has verified: each may be stale when it is used.

### RecordContents, TouristPlaces, TravelMap

Pure functions with the names of the code. Where the code sorts, filters and sums,
they use `Lists`: the n-th of a sorted list is the one that n - 1 members precede, and
a sum of numbers is the size of a set of pairs. `RecordContents` follows a record from
the draft (`savedDays`) through `buildRecordPlaceUpdate` and `removeRecordPhoto` to
what the repository accepts and to its queries (`Summary`, `getStats`,
`getRegionProgress`). `TouristPlaces` has the limits of the configuration, the lists
the client asks for and the candidates it makes of them. `TravelMap` has the
regions, what the home page colours, and the history of the map; its assumptions,
evaluated by TLC, say that exactly 157 cities and counties count and each has a
district a place can be in (`EveryCityCountyCounts`), and that the page's back
button and the map's agree (`BackIsUp`, over every history of four presses).

### RecordPages

The state is the draft, the page on top (the pages below it follow from it), what
is under way (picker, search, saves, changes), the records, and the query client's
copy of each record (`cache`). A page's own state goes when it is left; what it has
started goes on. A copy outlives its pages: it is kept until the client lets go of it
(`CopyForgotten`), and a page that is opened shows it at once, however old, while the
record is read again beside (`OpenRecord`, `RecordRead`). The end of a save or a
change invalidates all copies but reads again only that of an open page (`Reread`).

| action | code |
|---|---|
| `StartRecord`, `PickerOpened`, `PhotosPicked`, `PickerClosed`, `PhotoRemoved`, `GoToPlaces` | the photo page and `addPhotosFromLibrary` |
| `OpenInfo`, `ModeChosen`, `SearchWidens`, `SearchEnds`, `ConfigSettles`, `DateChosen`, `PlaceChosen` | the photo-info page |
| `OpenCompose`, `ConfirmationAsked`, `SaveSubmitted`, `SaveStored`, `SaveFails` | the compose page |
| `RecordRead`, `CopyForgotten`, `Reread` | the query of one record: `useLocalRecordQuery`, the client's defaults, `useInvalidateLocalRecords` |
| `OpenRecord`, `OpenEdit`, `OpenPlaceEdit`, `EditSubmitted`, `RecordDeleteSubmitted`, `PlaceEditSubmitted`, `DeleteAsked`, `DeleteAnswered` | the record's pages |
| `WriteCommits`, `WriteFails`, `WriteSettles` | the repository's queue and what a page does when its change ends |
| `Back` | the way out of any page |

Where the code itself loses something, the property names the case and exempts no
other:

* a save whose page was left, or that was submitted beside an open picker, empties
  the draft as it is when the save ends (`finishDraft`), and the success of a change
  pops whatever page is on top by then, a page of a draft too (`DraftIsKept`);
* a picker opened before the user chose to search himself keeps the coordinates of
  what it picks (`late`, `CoordinatesAreTransient`);
* of two changes that overlap the second writes the rest of an old copy back; so
  does a change made on a page that was opened again after a change had ended
  without a page to see it, as long as the record has not been read again (`missed`);
  and clearing the note of a day without photos leaves an empty day (`emptied`), all
  three in `RecordsAreSound`.

### Web

A tab has one refresh at most; all its calls wait for it and are repeated once. A
call with an access token is answered in one step; where an answer sets or clears
the cookie, its way back is a step of its own. An answer may be lost on any way.

| action | code |
|---|---|
| `Opened`, `LoginReturns`, `LoginServed`, `LoginArrives`, `ExitAsked`, `LogoutServed`, `LogoutArrives` | the provider, the Kakao callback, the settings |
| `CallServed`, `CallFails`, `CallRefused`, `CallSettles` | `requestJson` |
| `RefreshRotates`, `RefreshRefused`, `RefreshArrives`, `RefreshFails`, `Expires` | `refreshAccessToken` and the server's side of it |
| `SubmitAsked`, `PhotoPrepared`, `SaveAsked` | the create and the edit page |

`slips` marks a tab for two things the code does not guard against: another tab has
signed in, so that the next refresh brings the token of its account (`login`); and a
login that came back before the profile load of the mount had ended, which replaces
or undoes it (`mount`). The server ends the session of both tabs when they refresh
with one cookie (`raced`, `reused`). `PagesTellTheTruth` further knows that a record
whose creation was never answered stays, that a submission whose last reading of the
record fails deletes a record which is complete, and that a request of an earlier
failed edit may arrive after the save that followed it.

---

## 3. Properties and hazards

Each module has one type invariant, `TypeOK`. The others are aimed at the hazards
listed in `PROJECT.json`, each with the line where it bites.

| property | says |
|---|---|
| `OneUsableRow` | of concurrent refreshes with one token, one wins |
| `NoOrphanSession` | no request that looked the user up before a deletion leaves a token behind |
| `ClosedUnlessOvertaken` | an answered revocation has ended the session, unless a rotation committed in its gap |
| `DeadFamilyStaysDead` | no refresh in flight revives an ended session |
| `ImplementsLifecycle` | the table implements `SessionLifecycle` |
| `SessionsNeverDeadlock` | no login, refresh or logout is part of a circle of lock waits, of any length; only requests that end all sessions of an account are |
| `Coherent` | display, memory and store agree whenever nothing is pending |
| `NoTokenReturns` | a cleared token comes back by a login only |
| `LogoutIsTold` | a logout leaves a living session only if the server could not be asked |
| `NoFalseReuse` | the device is taken for a thief only after an answer or a write was lost |
| `ServerIsLifecycle` | the stand-in for the server in the device's model does nothing a `SessionLifecycle` would not |
| `NothingHangs` | the splash screen and the logout end, whatever fails |
| `RecordPhotosExist`, `NoFileForgotten` | files, rows and queue account for each other |
| `EventuallySwept` | what waits for cleanup is deleted in the end |
| `OnlyDeletedCleared` | only confirmed deletions are carried out |
| `MarkerOutlivesRecords`, `MarkedAreCleared` | what is scheduled is not dropped, and is done in the end |
| `RowsAgree` (`Accounts`) | one user per social account, credentials of the right Apple user |
| `RaceIsAbsorbed` | the loser of two first logins gets the winner's account |
| `UnlinkedBeforeDeleted` | an account is deleted only when its Apple token is void, or newer than the look at it |
| `AnswerIsTrue` | after 204 the account is gone, after an error it is there |
| `ConsentRevokedIsApplied` | an answered notification leaves neither session nor credential |
| `WithdrawalSucceeds` | who asks again and again is deleted in the end |
| `RowsAgree` (`Records`) | no orphans, no place twice on a day, codes as verified |
| `QuotaOvershoot` | n concurrent uploads pass the quota by n - 1 photos at most |
| `LocksAreSound` | two writers never deadlock; no lock outlives its request |
| `StoredPlacesAreFound` | what is stored in legacy codes is found in legal ones |
| `ListsAreTrue` | the list and the detail of a record tell the same, the progress counts its places |
| `AnswersAreTrue` | 404, 409, 200 and 500 say what was so |
| `TabsAgree` | a tab at rest shows the account of its token; after a logout it has none |
| `NobodyForgotten` | whatever waits has something under way to wait for |
| `ReuseIsARace` | the calls of one tab never present a refresh token twice |
| `PagesTellTheTruth` | what the create and the edit page report is so |
| `RecordsAreSound` | records, changes, lists and the home map agree; a change is made from the stored record unless another overlaps it or ended unseen by its page |
| `DraftIsKept` | a photo leaves the draft by the user's will or into a record |
| `CoordinatesAreTransient` | coordinates are used once, with consent, for the photo shown |

Where a run checks `IInv`, that is the inductive invariant of section 6, with the
module's `TypeOK` among its parts; `Coherent`, `RowsAgree` and `TabsAgree` include
the type invariant of theirs, and `RecordPages`' is `Sound`.

Each of them is violated by at least one mutant of the code (`PROJECT.json`,
"mutants"): a dropped guard of the rotation's UPDATE, a missing foreign key, a
revocation of the presented row alone, a visit that moves without its photo, a
refresh that is not shared by the calls of a tab, and so on.

---

## 4. The runs

| run | instance | distinct states | question |
|---|---|---|---|
| `sessions` | 1 user, 2 families, 3 rows, 3 requests, symmetric | 864,503 | safety, refinement, circles of lock waits; `IInv` |
| `logout_race` | 1 user, 1 family, 3 rows, 2 requests, symmetric | violation | a logout overtaken by a rotation |
| `photos` | 2 owners, 1 record of 2 photos, 2 calls | 136,311 | files, rows and queue; cleanup happens; `IInv` |
| `flush_race` | 1 record of 1 photo, 2 calls | violation | a flush beside a save |
| `withdrawal` | 2 accounts | 156,119 | withdrawal, recovery and liveness; `IInv` |
| `mistaken_delete` | 2 accounts | violation | a DELETE repeated under another session |
| `mobile_session` | 2 accounts, 2 tokens each, a nickname page | 670,535 | display, memory and store |
| `mobile_tokens` | 1 account, 3 tokens, a withdrawal page, failing store | 21,568 | reuse, refinement, termination |
| `accounts` | 1 Apple and 1 Kakao user, 2 user rows, 2 Apple tokens, 2 requests | 135,339 | uniqueness, unlinking, true answers, withdrawal in the end |
| `records` | 2 users, 2 records, 3 photos, 2 places, 2 requests, symmetric | 114,204 | rows, quota, locks, codes and answers |
| `web` | 2 tabs, 2 accounts, 2 sessions, 1 record of 2 photos, symmetric | 385,418 | tabs, reuse and what pages report |
| `record_pages` | 2 photos, 4 places, 2 records, 2 changes | 258,497 | records, draft and coordinates |

### Why the bounds are enough

* **AuthSessions.** The races of the table are between two requests: rotation
  against rotation, rotation against revocation, login against deletion. The third
  request makes circles of three, and a rotation beside a circle of two; TLC
  reaches both (a state where `Circle` holds of three requests is 18 steps away).
  One user is enough, since no statement is about rows of two. Three
  rows give one family a first row and two replacements, or two families a first row
  and one replacement. New ids are used in order (`NewIdsInOrder`), which loses
  nothing but renamings; of the rows the second may expire (`SecondExpires`). A
  request that may insert starts only while ids are left; the system stops when they
  are used up, which is why these two runs do not check deadlock. The theorems hold
  for any number of requests, rows, families and users.
* **MobileSession.** The provider has one refresh, one restore, one establishment
  and one logout at a time, so all its concurrency is within one device. Two
  logins of different accounts are what one session can be mistaken for.
  `MaxGen` bounds the exchanges of a session: a token, its successor, and in
  `mobile_tokens` one more to reuse after a loss. When it is reached the server
  only refuses or fails. `StoreFails` separates the two passing runs: together with
  two accounts the state space is too large, and the store's failures concern one
  session's token.
* **LocalPhotos.** Races are between two calls and one photo, or two photos of one
  record (partial copies and deletions). The theorems cover all sizes.
* **Withdrawal.** Two accounts are the one whose page is open and the one that
  signs in afterwards. The theorems cover any number.
* **Accounts.** Two user rows are an account and the one its owner makes after a
  deletion; two tokens the stored one and the one of the next login. Requests
  overlap for the Apple user only (`KakaoAlone`), since a Kakao user's steps are a
  part of his, and Apple has one kind of notification outstanding (`OneNotice`).
  These bounds cut behaviours, so `WithdrawalSucceeds` is shown for those that stay
  within them.
* **Records.** Every race is between two requests. A limit of one photo per record
  and two per user is passed with three photos. `Scenes` cuts the instance into
  texts with one photo, photos of two records, and places: the three touch each other
  through the record only, whose deletion is in every scene. The contents are a place
  in each half of the shared legal area and one KTO does not know; KTO also has a row
  without a name before them, and gives two rows at most (`MaxRows`), so that both
  ways to lose a place to the limit occur.
* **Web.** Two sessions are the one of the mount and the one of a login; `MaxGen = 3`
  is a token, its successor, and the one that two tabs race for after that. The
  scenes are listed in `MCWeb`: two tabs of one session; one tab that signs in and
  out; one that signs in beside another, and the other one going on with the cookie
  it has overwritten; a record that is created while its tab signs out, withdraws or
  clears the records, or while another tab clears them or signs in; a record that is
  edited twice in one tab, or in two tabs at once. The theorems cover any number of
  tabs, users, sessions, tokens, photos and saves.
* **RecordPages.** Two photos of different dates are enough for two days, a shared
  day, a visit that moves and one that stays. Four places: one known by its district,
  one by its legacy area, one without an area, one without a name. The scenes of
  `MCRecordPages` are coordinates (picker, decision, search, configuration), saves
  (with a second draft beside them), changes (two of them: one after the other,
  overlapping, or with the page left and opened again between), and a change
  that ends beside the draft of the next record. The history `edits` bounds the
  changes.

### Fairness

* **MobileSession.** Every fetch ends with an answer or an error of the platform,
  and every store operation is reported; both are weakly fair. Logins, pages and
  the server's ends of sessions are not. `RestoreEnds` and `LogoutEnds` are stated
  for behaviours in which the app is not killed for ever (`NotKilledForEver`).
* **LocalPhotos.** Calls run on (weak). The app is started again or another
  mutation flushes, from time to time, and a listing or deletion that is tried
  again and again succeeds once (strong): a database that can never be read is
  excluded, any finite or alternating number of failures is not.
* **Accounts.** A handler runs to its end or dies (weak: `Handles` has the death
  among its steps). A user who wants to leave asks again, and of the attempts some
  get past unlinking, revoking and deleting (strong). Nobody has to log in, and Apple
  has to notify nobody. `WithdrawalSucceeds` supposes that Apple login stays
  configured from some time on.
* **AuthSessions, Records, Web, RecordPages** are checked for safety only: their requests and pages
  end by an answer, an error or the user's going; what could keep them waiting is
  stated as a property of states: `SessionsNeverDeadlock` and `LocksAreSound` say who
  may wait for whom, and `NobodyForgotten` says without
  fairness that nothing waits for what is not under way.
* **Withdrawal.** The app is started again (weak), and among all its starts one
  reads the markers and deletes the records (strong). A secure store that can never
  be read again is excluded.

---

## 5. Where the code and its documentation disagree

| run | the code | what it is held against |
|---|---|---|
| `logout_race` | `revokeFamily` is one UPDATE at READ COMMITTED. A rotation that commits between its snapshot and its row update leaves a replacement row that the UPDATE never sees: the logout is answered and the session goes on | `docs/10-auth-db-design.md:93`: after a logout the family is revoked and its access tokens are refused at once |
| `flush_race` | a flush lists, deletes and dequeues in three steps; a record saved after the listing has its photos deleted | `flushQueuedPhotoCleanup.ts:55`: only files no record refers to are ever deleted |
| `mistaken_delete` | `requestJson` repeats a refused call with the access token of whatever session the device holds by then: a `DELETE /users/me` that outlives its session deletes the account that signed in since, and the records of the first account are cleaned up | `withdrawAccount.ts:30`: session and records are kept until the server has confirmed the withdrawal |

Each of these runs checks one property and TLC's counterexample is the
interleaving. All three are short races, none of which a unit test with mocked
promises would meet by accident.

Other things the code does that its reader may not expect are exempt from a
property by name, and no run is spent on them:

| where | what happens |
|---|---|
| `AuthSessionProvider.tsx:98` (mobile) | `performRefresh` notes the session revision after it has awaited the stored token: a session cleared during that read goes unnoticed and its new token is stored (`slips`, `refresh`) |
| `AuthSessionProvider.tsx:230`, `:357` (mobile) | the failed restore drops the access token and keeps the token refreshed within the last second; the retried restore signs in without an access token and the next logout does not call the server (`tokenless`) |
| `AuthSessionProvider.tsx:83` (web) | the profile load of the mount and the login of the Kakao callback replace each other (`mount`) |
| `http.ts:43`, `:59` (web) | two tabs that refresh with one cookie end each other's session; the late answer of a refresh replaces the cookie that a login in the other tab has set; after such a login a page goes on under the other account (`raced`, `login`) |
| `RecordCreatePage.tsx:100` (web) | when the answer to the creation itself is lost, the record stays and nothing says so |
| `RecordComposePage.tsx:164` (mobile) | a save whose page was left empties the draft begun since and leaves the page on top |
| `CreateRecordSessionProvider.tsx:84` (mobile) | a picker opened before the decision keeps coordinates after it |
| `RecordDetailPage.tsx:140` (mobile) | the alert writes the copy from when it opened |
| `LocalRecordsProvider.tsx:115`, `RecordDetailPage.tsx:209` (mobile) | the end of a change marks the copy of a record without an open page as stale and no more: the page opened next shows it while it reads the record again. A photo is removed, the page left, the change ends; the page is opened again and another photo is removed before the reading has ended: the first photo's row is written back, though no other change is under way (`missed`) |
| `RecordDetailPage.tsx:141`, `RecordEditPage.tsx:36` (mobile) | the success of a change replaces or pops the page on top, also when its own page was left and a page of the next draft is there: the draft is then left, and `_layout.tsx` resets it |
| `records.service.ts:126` | concurrent uploads pass the quota, by the bound of `QuotaOvershoot` |
| `kto-api.adapter.ts:193`, `:223` | rows that are dropped count against the limit: a place of Gwangju or Jeonnam is not found by its area when the first rows of legal area 12 are the other's, nor is any place behind as many unusable rows as are asked for (`StoredPlacesAreFound`) |
| `region-code-map.ts` | a place of which KTO tells legal area 12 alone gets no area; the API stores it as such |

---

## 6. What is proved

Eight modules are proved for every value of their constants: any number of
requests, users, sessions, tokens, records, photos and pages. The assumptions on
constants are of three kinds: that `None` and the other marks of "nothing here" are
none of the values they stand beside; that parameters have their type (bounds are
natural numbers, and positive where the code has at least one of a thing; the Apple
identities are among the identities); and that a set that is counted is finite. One
proof also uses what is assumed of fixed data, that the table of region codes fits
together (`RegionCodesAgree`). Each is an `ASSUME` with a name, which TLC evaluates on
every run of that module.

Each proof has the same shape. The properties are not inductive, so the module
states a stronger invariant `IInv`, a conjunction of named parts. The proof module
shows `Init => IInv` (`InitIInv`), one lemma per action or group of actions,
`IInv /\ [Next]_vars => IInv'` (`NextIInv`), and derives the theorems: a state
property because it follows from `IInv`, an action property from a lemma on one step
that starts in `IInv`, a refinement from the same lemmas read as steps of the
abstract specification. The runs `sessions`, `photos` and `withdrawal` check `IInv`
beside the properties it implies; the others leave it out to stay short, and with
`IInv` in place of the INVARIANTS of their cfgs TLC finds it to hold as well.

**AuthSessionsProofs.** `Invariance`, `TypeCorrect`, `RotationIsExclusive`
(`OneUsableRow`), `DeletionEndsSessions` (`NoOrphanSession`), `RevocationCloses`
(`ClosedUnlessOvertaken`), `NoSessionDeadlock` (`SessionsNeverDeadlock`),
`NoResurrection` (`DeadFamilyStaysDead`),
`TableIsLifecycle` (`ImplementsLifecycle`).
`OneUsableRow` alone says nothing of transactions in flight. The invariant adds
what they hold: what a request has read of a row's owner and family is still true
(`RequestKeys`), an open rotation owns its pending row and, after its update, the
presented row, exclusively (`RotationsHoldTheirRows`), and every usable row of a
family that a revocation is about to close is in its snapshot or descends from a
row in it that was rotated since (`SnapshotCovers`). The last is why a rotation in
the gap is the *only* exception to `ClosedUnlessOvertaken`. `NoResurrection`
follows from the invariant and the lemma that a new usable row appears only at a
login of a new family or at a commit, where the presented row is still usable.
The refinement needs one conjunct more: no replacement row outlives its transaction
(`NoStrayReplacement`). For the deletion, which goes row by row, the invariant adds
that its cascade has all rows of its user in sight and that nobody adds one
(`CascadesAreAlone`), and for the locks that a row is locked by one request at a time
(`RowLocks`). `NoSessionDeadlock` follows without induction of its own: a rotation that
still waits has no token row, so only a deletion that has nothing yet can wait for it,
and nobody waits for that one; and the revocation of a family has one row to take
(`FamilyRevocationsAreNarrow`, which rests on `OneUsableRow`), so it cannot hold one
and wait for another. A login's
first row is then `Open`, a commit `Exchange`, and every other step `End` of the
families that lose their usable row in it, often of none.

**AccountsProofs.** `AccountsInvariance`, `RowsAlwaysAgree` (`RowsAgree`),
`SignUpRaceIsAbsorbed` (`RaceIsAbsorbed`), `UnlinkComesFirst`
(`UnlinkedBeforeDeleted`), `WithdrawalTellsTheTruth` (`AnswerIsTrue`),
`ConsentRevocationApplies` (`ConsentRevokedIsApplied`). The invariant says that a
user is made once, for one identity (`HistoryOK`), and what a handler still knows
after each of its statements: a login past its first read holds an account that was
made for its identity and is live, or has been overlapped by a deletion (`LoginOK`);
a withdrawal that revokes has seen the token of the account's own row, unless a
login has replaced it since (`WithdrawOK`); a notification leaves signed in only
whom a login reached after it had looked (`NoticeOK`). Those exceptions are the
histories `overlap` and `relogin`, and the theorems show that there are no others.

**RecordsProofs.** `RecordsInvariance`, `RowsAlwaysAgree` (`RowsAgree`),
`LocksStaySound` (`LocksAreSound`), `AnswersStayTrue` (`AnswersAreTrue`),
`QuotaIsNearlyKept` (`QuotaOvershoot`), `ListsStayTrue` (`ListsAreTrue`),
`PlacesStayFound` (`StoredPlacesAreFound`). The invariant adds what a request knows at
each statement (`TasksOK`): past the check of the owner the record is the caller's
or deleted, at the insertion of a place its codes are those KTO gave, a deletion has
found no row but its own. `TransactionsOK` says who holds which lock: an open entry
transaction holds its entry and a key share on a record that is still there, so no
deletion can take it away. The quota needs an invariant of its own, `QuotaIInv`: the
uploads that have found room and not yet stored their photo count with the photos,
and the sum stays below the limit plus the number of requests. It rests on the
library's facts on the cardinality of finite sets.
`ListsStayTrue` needs of the tables only that they are finite (`RowsAreFinite`) and
that a place has the codes of KTO. It compares lists that are made in different ways,
so its lemmas are about lists and sums: the ranks of the members of a finite set are
0, 1, ... (`Ranks`), so `Ascending` has each of them once and in order
(`AscendingList`), and a sum over the parts of a set is its size (`TotalOfParts`).
`PlacesStayFound` is about the detour of a stored code: the entry of the table that
gave a place its codes (`MappedEntry`) makes one of the questions that
`areaSearchFilters` puts for them one whose answer has the place and no row outside
its legal region (`AreaLists`); a member of a list that is cut has as many members
before it as the list may have (`CutList`). It uses `RegionCodesAgree`, as TLC has
evaluated it for the table of the code.

**MobileSessionProofs.** `MobileInvariance`, `ReuseNeedsALoss` (`NoFalseReuse`),
`AppIsCoherent` (`Coherent`), `ClearedTokensStayAway` (`NoTokenReturns`),
`LogoutsAreTold` (`LogoutIsTold`), `ServerFollowsLifecycle` (`ServerIsLifecycle`).
The invariant relates the three places a refresh token can be in: what is stored,
and what a refresh under way presents, is the newest token of its session or its
session has lost an answer (`TokensOK`); a refresh that has noted the session's
revision presents what is stored, and one whose session was cleared leaves nothing
behind (`RefreshOK`); nobody has a token of a session whose login is still waiting
(`LoginOK`). What the app shows and holds belongs to the stored token as long as the
store works and none of the five slips has happened (`CalmOK`). `AppIsCoherent` and
`LogoutsAreTold` therefore suppose `~StoreFails`, and they have to: when a deletion
of the token fails, the device is signed out with the token still stored. The proof
follows the code's own structure: one lemma per function of the provider
(`clearSession`, `Rejected`, `RestoreResumes`, `Establish` ...) says that it leaves
the device fit and what it does not touch (`Runs`, `Settled`), and one lemma per
action combines them.

**LocalPhotosProofs.** `Invariance`, `SavedPhotosExist`, `FilesAccountedFor`,
`QueueIsExact`. The invariant adds what calls know: a photo of a draft that is
being copied is queued, and copied or still to be copied (`CallsOK`); a record is
saved by one call (`OneSave`); an unused record id has left no trace
(`FreshRecords`); and what a flush has deleted no longer exists and belongs to no
draft, or has lost a race.

**WithdrawalProofs.** `WithdrawalInvariance`, `OnlyConfirmedMarked`
(`MarkedAreDeleted`), `RecordsOutliveDoubt` (`OnlyDeletedCleared`),
`MarkerGoesLast` (`MarkerOutlivesRecords`). The invariant adds what page and
recovery hold at each step: from the server's answer on, the page's account is
confirmed (`PageConfirmed`), what the recovery has read is confirmed although the
marker may change meanwhile, and whoever is about to remove a marker has removed
the records (`RecoveryConfirmed`). The action properties follow step by step: only
`Clear` and `RecoveryClear` take records away, only `Complete` and
`RecoveryComplete` take markers away.

**WebProofs.** `WebInvariance`, `TabsAlwaysAgree` (`TabsAgree`), `NobodyIsForgotten`
(`NobodyForgotten`), `ReuseIsAlwaysARace` (`ReuseIsARace`), `PagesStayTruthful`
(`PagesTellTheTruth`). The invariant says what can be under way in one tab (`TabOK`:
which calls at each step of a page, that a refresh has somebody who waits for it and
who waits has a refresh), what the rows of a record have at each step of its page
(`RowsOK`), and where the newest token of a session is: in the browser or on its way
there, with one tab at most that refreshes it, unless two have raced
(`RefreshesOK`). `GroupOK` is what makes `TabsAgree` hold across tabs: those beside
which nobody has signed in all belong to the session of the cookie, its user is whom
they show, and a logout in any of them has ended it for all.

**RecordPagesProofs.** `CoordinatesTransient` (`CoordinatesAreTransient`),
`DraftNotLost` (`DraftIsKept`), `RecordsSound` (`RecordsAreSound`): for any number of
photos, places, records and overlapping changes, any dates, and every configuration
of the server. Three inductive invariants stand on each other.
`CoordinatesIInv` adds to `CoordinatesAreTransient` that the photo on the info page
is one of the draft, and that who searches has a configuration: both are needed where
a search ends or widens. `DraftIInv` adds what a save still knows of the draft: as
long as its compose page is there, the draft is the one that was submitted, unless a
picker was open (`SavesOK`), and on the pages of a draft no change is waited for by
its page. Without the first, the end of a save could take away a photo that it has
not stored.
`RecordsIInv` says of every stored record that its days are in order and apart, that
each day has one visit for each of its photos, at its date, and that every id of a
row names the record and differs from every other (`RecordOK`); of every copy
in the query client, that it is sound and is the stored record unless a change is about
to end, or has ended unseen (`CopiesOK`); of a page and of the question about a photo,
that their record was stored and what is asked about is in the copy (`PageShows`,
`AlertAsks`); of a change under way, that what it writes is sound and is
its copy but for what it is about (`WritesOK`). The lemmas below it follow the code:
what `savedDays`, `Moved` and `removeRecordPhoto` do to the days of a record, that the
repository accepts the result, and that the lists, the counts, the regions and the
map, each computed in its own way, tell the same of any set of sound records. What
makes the latter provable is `Lists`: `AscendingList`, `KeptList` and `TotalOfParts`
say what a sorted list, a part of a list and a sum are, from the library's facts on
cardinalities and with no induction. `RecordsIInv` was checked by TLC on the instance of the run
`record_pages` before it was proved; the run itself leaves it out.
The assumptions are `PagesAssumption` (types of the constants; what a photo was taken
on and what can be chosen are dates of the calendar, what can be typed in need not
be), `StoredAssumption` (the mark of a record that was never made is no list of
days), `KtoAssumption` and `DistanceAssumption` (what KTO lists are items and
distances). Nothing is assumed of the table of regions or of the map.

---

## 7. What is only model-checked, and what is not modelled

Model-checked only:

* every liveness property (`NothingHangs`, `EventuallySwept`,
  `MarkedAreCleared`, `WithdrawalSucceeds`): the prover has no rules for fairness;
* the assumptions on the table of region codes and on the map, which are about fixed
  finite data that TLC evaluates whole.

Abstractions and limits of the models:

* **AuthSessions.** A token, its hash and its row are one value. JWTs are modelled
  by what the guard asks the table; their own expiry is left out, since the guard's
  question is the stronger condition. `expiresAt` passes at any time. Other
  isolation levels and replication are not considered.
* **MobileSession.** One login is being established at a time; a page does not issue
  its call twice at once; `continueAsGuest` is left out because no page calls it;
  a malformed refresh answer counts as a failed one; the query cache and the
  remembered user id are left out. When the app is killed, store operations already
  issued are done. `clearSession` is one step with the two deletions it awaits, and a
  login that writes its token beside it is exempt (`cleared`). A deletion may fail
  (`StoreFails`) and leaves the token stored, but who cleared the session goes on as
  if it had not: a refused refresh answers null where the code throws the store's
  error. No property depends on which of the two its callers see. Access tokens expire at any time (`CallRefused` on a first call).
* **Accounts.** Sessions are one bit per user, their details are `AuthSessions`'. The
  nickname, the sealing of the Apple token and the cryptography of identity tokens
  are left out: what verification can answer is a set of codes, made by
  `verifyToken` and `exchangeAuthorizationCode` from every kind of reply.
* **Records, Tourism.** Titles, texts and times are left out, photos have one size.
  Images of a place and KTO's list of areas are relayed as they come and left out.
* **Web.** The calls of a page are one at a time, or one per day; the nickname, the
  preview mode of development builds and the pixels of a photo are left out.
* **LocalPhotos.** File names are pairs of record and position, as `localUri` builds
  them; SQLite transactions are atomic and durable. The directory
  of the photos keeps its path: `deleteDurablePhoto` leaves a file alone that is
  outside the current one, and the flush takes it off the queue.
* **RecordContents, RecordPages.** Titles and tags are left out. A photo is a model
  value with a date and perhaps coordinates; a place is one of the candidates the
  lists offer. An open page may read its record again at any time, also when the
  client takes its copy for fresh. A reading that fails shows an error instead of the
  copy and is left out. The end of a change, its invalidation with the readings it
  awaits, the notice to the user and the page's way on are one step. A
  transaction of the repository is one step; its files are `LocalPhotos`'. The
  parsers of server records in `recordContract.ts` are called by no mobile page.
* **TravelMap.** Histories of four presses; the geometry is that of the code table.
* **Withdrawal.** Records of an account are one thing, kept or deleted; their files
  are the matter of `LocalPhotos`. Two known gaps are modelled but no property
  forbids them: killed between the server's answer and the marker, or with a marker
  that cannot be written and records that cannot be deleted, the records stay on
  the device unscheduled (hazards at `withdrawAccount.ts:43` and `:45`).

Not modelled: configuration, health, notices and version of the API; request
validation by the shared schemas; the JWKS cache, the token cipher and providers'
HTTP clients beyond the kinds of their answers; rendering, animation and wording of
the pages, the web's lists and map. None of them keeps state that operations compete
for. `PROJECT.json` lists each component with its status.

---

## 8. Plan

The modules of the plan are written, and every safety property that a passing run
checks is proved. What is left would extend the model: the calendar of the visit-date
sheet and the comparison of versions are pure functions beside the existing ones.
