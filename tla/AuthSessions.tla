---------------------------- MODULE AuthSessions ----------------------------
(***************************************************************************)
(* The refresh-token table and the handlers that share it: AuthService     *)
(* (login, refresh, logout), PrismaRefreshTokensAdapter, the guard of      *)
(* authenticated routes and the session side of the Apple notifications.   *)
(*                                                                         *)
(* The API serves requests concurrently over PostgreSQL at its default     *)
(* isolation level, READ COMMITTED.  A request is a process whose steps    *)
(* are its database statements:                                            *)
(*   - a read sees the rows committed when it runs, and what it returned   *)
(*     may be out of date at the next step;                                *)
(*   - an UPDATE takes a snapshot of the rows it will change and locks     *)
(*     them one by one, in the order of its plan, keeping those it has     *)
(*     while it waits for the next; it changes those that still match its  *)
(*     condition; rows that were committed in between are not in its       *)
(*     snapshot;                                                           *)
(*   - rotate() is a transaction: its INSERT is invisible, and the row it  *)
(*     updated is locked, until it commits;                                *)
(*   - an INSERT keeps the users row it refers to from being deleted until *)
(*     its transaction ends, and waits for a deletion that has it;         *)
(*   - the deletion of a user locks the users row, then its token rows.    *)
(* Requests may so come to wait for each other in a circle: PostgreSQL     *)
(* then fails one of the statements, and its locks go.                     *)
(* A token stands for its row; what distinguishes its value, its hash and  *)
(* the row id plays no part here.                                          *)
(***************************************************************************)
EXTENDS FiniteSets, Naturals

CONSTANTS Users,      \* users.id values, each given to one account
          Families,   \* rotation families, one per login
          Tokens,     \* refresh_tokens rows
          Requests,   \* requests the API serves at the same time
          None        \* no value

ASSUME NoneAssumption == None \notin Users \cup Families \cup Tokens

VARIABLES user,       \* users table: "new", "live" or "deleted"
          status,     \* status[t]: what the columns of row t say
          owner,      \* owner[t]: the userId column
          family,     \* family[t]: the familyId column
          expired,    \* rows whose expiresAt has passed
          req,        \* req[r]: where the handler of request r is
          closed,     \* history: families a revocation was answered for
          loggedOut,  \* history: those for which it was a logout
          overtaken   \* history: those whose revocation a rotation overtook

tokenVars == <<status, owner, family>>
historyVars == <<closed, loggedOut, overtaken>>
vars == <<user, tokenVars, expired, req, historyVars>>

(* The columns revokedAt and replacedById of a row, as one value.          *)
(*   unused   no row                    pending  inserted, not committed   *)
(*   active   both null                 rotated  both set                  *)
(*   revoked  only revokedAt set        deleted  removed by the cascade    *)
RowStatus == {"unused", "pending", "active", "rotated", "revoked", "deleted"}

RequestStep == {"idle", "issue", "find", "insert", "update", "commit",
                "logout", "revoke", "apply", "delete", "cascade"}

Request == [step    : RequestStep,
            user    : Users \cup {None},
            family  : Families \cup {None},
            token   : Tokens \cup {None},    \* the presented token
            next    : Tokens \cup {None},    \* its replacement
            targets : SUBSET Tokens,         \* snapshot of an UPDATE or a cascade
            locked  : SUBSET Tokens,         \* rows it has locked
            logout  : BOOLEAN]               \* whether a revocation is a logout's

Idle == [step |-> "idle", user |-> None, family |-> None,
         token |-> None, next |-> None, targets |-> {}, locked |-> {},
         logout |-> FALSE]

Active(f) == {t \in Tokens : status[t] = "active" /\ family[t] = f}
InTransaction(r) == req[r].step \in {"update", "commit"}

\* Another request has the row, or the row of the user, locked.
Locked(r, t) == \E q \in Requests \ {r} : t \in req[q].locked
Deleting(u) == \E q \in Requests : req[q].step = "cascade" /\ req[q].user = u
Referenced(u) == \E q \in Requests : InTransaction(q) /\ req[q].user = u

\* A family no row was ever inserted with, randomUUID() of a new login.
FreshFamily(f) == \A t \in Tokens : family[t] # f

\* Bounds: a request that may insert a row starts only while there are ids
\* for it and for the requests before it.
TokensLeft ==
    Cardinality({t \in Tokens : status[t] = "unused"})
        > Cardinality({r \in Requests : req[r].step \in {"issue", "find", "insert"}})
FamiliesLeft ==
    Cardinality({f \in Families : FreshFamily(f)})
        > Cardinality({r \in Requests : req[r].step = "issue"})

Init ==
    /\ user = [u \in Users |-> "new"]
    /\ status = [t \in Tokens |-> "unused"]
    /\ owner = [t \in Tokens |-> None]
    /\ family = [t \in Tokens |-> None]
    /\ expired = {}
    /\ req = [r \in Requests |-> Idle]
    /\ closed = {}
    /\ loggedOut = {}
    /\ overtaken = {}

(***************************************************************************)
(* Login.  The social account was verified; findOrCreateBySocial returns   *)
(* a live user or creates one.  startSession issues the first row of a     *)
(* new family: the foreign key refuses it when the user is gone by then.   *)
(***************************************************************************)
LoginAccount(r, u) ==
    /\ req[r].step = "idle"
    /\ TokensLeft /\ FamiliesLeft
    /\ user[u] # "deleted"
    /\ user' = [user EXCEPT ![u] = "live"]
    /\ req' = [req EXCEPT ![r] = [Idle EXCEPT !.step = "issue", !.user = u]]
    /\ UNCHANGED <<tokenVars, expired, historyVars>>

\* Mutant: no foreign key from refresh_tokens to users.
LoginIssueNoKey(r, f, t) ==
    /\ req[r].step = "issue"
    /\ FreshFamily(f)
    /\ status[t] = "unused"
    /\ status' = [status EXCEPT ![t] = "active"]
    /\ owner' = [owner EXCEPT ![t] = req[r].user]
    /\ family' = [family EXCEPT ![t] = f]
    /\ req' = [req EXCEPT ![r] = Idle]
    /\ UNCHANGED <<user, expired, historyVars>>

LoginIssue(r, f, t) ==
    /\ req[r].step = "issue"
    /\ user[req[r].user] = "live" /\ ~Deleting(req[r].user)
    /\ FreshFamily(f)
    /\ status[t] = "unused"
    /\ status' = [status EXCEPT ![t] = "active"]
    /\ owner' = [owner EXCEPT ![t] = req[r].user]
    /\ family' = [family EXCEPT ![t] = f]
    /\ req' = [req EXCEPT ![r] = Idle]
    /\ UNCHANGED <<user, expired, historyVars>>

LoginRefused(r) ==
    /\ req[r].step = "issue"
    /\ user[req[r].user] # "live"
    /\ req' = [req EXCEPT ![r] = Idle]
    /\ UNCHANGED <<user, tokenVars, expired, historyVars>>

(***************************************************************************)
(* Refresh.  A client presents any token it was ever given.                *)
(***************************************************************************)
Given == {t \in Tokens : status[t] \in {"active", "rotated", "revoked", "deleted"}}

RefreshArrives(r, t) ==
    /\ req[r].step = "idle"
    /\ TokensLeft
    /\ t \in Given
    /\ req' = [req EXCEPT ![r] = [Idle EXCEPT !.step = "find", !.token = t]]
    /\ UNCHANGED <<user, tokenVars, expired, historyVars>>

\* Mutant: the row is read FOR UPDATE, in one transaction with rotate().
RefreshFindForUpdate(r) ==
    LET t == req[r].token
        found == [Idle EXCEPT !.user = owner[t], !.family = family[t], !.token = t]
    IN  /\ req[r].step = "find"
        /\ ~Locked(r, t)
        /\ \/ /\ status[t] = "deleted" \/ (status[t] = "active" /\ t \in expired)
              /\ req' = [req EXCEPT ![r] = Idle]
           \/ /\ status[t] \in {"rotated", "revoked"}
              /\ req' = [req EXCEPT ![r] = [found EXCEPT !.step = "revoke"]]
           \/ /\ status[t] = "active" /\ t \notin expired
              /\ req' = [req EXCEPT ![r] = [found EXCEPT !.step = "insert", !.locked = {t}]]
        /\ UNCHANGED <<user, tokenVars, expired, historyVars>>

\* findByHash and assertUsable: a missing or expired row is a 401, a row
\* that was rotated or revoked before condemns its whole family.
RefreshFind(r) ==
    LET t == req[r].token
        found == [Idle EXCEPT !.user = owner[t], !.family = family[t], !.token = t]
    IN  /\ req[r].step = "find"
        /\ \/ /\ status[t] = "deleted" \/ (status[t] = "active" /\ t \in expired)
              /\ req' = [req EXCEPT ![r] = Idle]
           \/ /\ status[t] \in {"rotated", "revoked"}
              /\ req' = [req EXCEPT ![r] = [found EXCEPT !.step = "revoke"]]
           \/ /\ status[t] = "active" /\ t \notin expired
              /\ req' = [req EXCEPT ![r] = [found EXCEPT !.step = "insert"]]
        /\ UNCHANGED <<user, tokenVars, expired, historyVars>>

\* Mutant: the replacement is stored without its family.
RotateInsertNoFamily(r, n) ==
    /\ req[r].step = "insert"
    /\ user[req[r].user] = "live" /\ ~Deleting(req[r].user)
    /\ status[n] = "unused"
    /\ status' = [status EXCEPT ![n] = "pending"]
    /\ owner' = [owner EXCEPT ![n] = req[r].user]
    /\ req' = [req EXCEPT ![r].step = "update", ![r].next = n]
    /\ UNCHANGED <<user, family, expired, historyVars>>

\* rotate(), first statement: the replacement row.  Its foreign key holds
\* the users row until the transaction ends.
RotateInsert(r, n) ==
    /\ req[r].step = "insert"
    /\ user[req[r].user] = "live" /\ ~Deleting(req[r].user)
    /\ status[n] = "unused"
    /\ status' = [status EXCEPT ![n] = "pending"]
    /\ owner' = [owner EXCEPT ![n] = req[r].user]
    /\ family' = [family EXCEPT ![n] = req[r].family]
    /\ req' = [req EXCEPT ![r].step = "update", ![r].next = n]
    /\ UNCHANGED <<user, expired, historyVars>>

RotateRefused(r) ==
    /\ req[r].step = "insert"
    /\ user[req[r].user] # "live"
    /\ req' = [req EXCEPT ![r] = Idle]
    /\ UNCHANGED <<user, tokenVars, expired, historyVars>>

Rollback(r) ==
    /\ status' = [status EXCEPT ![req[r].next] = "unused"]
    /\ owner' = [owner EXCEPT ![req[r].next] = None]
    /\ family' = [family EXCEPT ![req[r].next] = None]

\* Mutant: update by id alone, without revokedAt and replacedById null.
RotateUpdateAnyRow(r) ==
    /\ req[r].step = "update"
    /\ ~Locked(r, req[r].token)
    /\ req' = [req EXCEPT ![r].step = "commit", ![r].locked = {req[r].token}]
    /\ UNCHANGED <<user, tokenVars, expired, historyVars>>

\* Second statement: the conditional update.  It waits for the row lock of
\* another rotation, then matches the presented row only while that row is
\* neither revoked nor replaced.
RotateUpdate(r) ==
    /\ req[r].step = "update"
    /\ ~Locked(r, req[r].token)
    /\ status[req[r].token] = "active"
    /\ req' = [req EXCEPT ![r].step = "commit", ![r].locked = {req[r].token}]
    /\ UNCHANGED <<user, tokenVars, expired, historyVars>>

\* RotationConflict: no row matched, the transaction rolls back, rotate()
\* returns false and the family is condemned.
RotateConflict(r) ==
    /\ req[r].step = "update"
    /\ ~Locked(r, req[r].token)
    /\ status[req[r].token] # "active"
    /\ Rollback(r)
    /\ req' = [req EXCEPT ![r].step = "revoke", ![r].next = None]
    /\ UNCHANGED <<user, expired, historyVars>>

\* Mutant: the presented row stays usable.
RotateCommitKeepsOld(r) ==
    /\ req[r].step = "commit"
    /\ status' = [status EXCEPT ![req[r].next] = "active"]
    /\ req' = [req EXCEPT ![r] = Idle]
    /\ UNCHANGED <<user, owner, family, expired, historyVars>>

RotateCommit(r) ==
    /\ req[r].step = "commit"
    /\ status' = [status EXCEPT ![req[r].token] = "rotated", ![req[r].next] = "active"]
    /\ req' = [req EXCEPT ![r] = Idle]
    /\ UNCHANGED <<user, owner, family, expired, historyVars>>

\* Any other database error, or the end of the process, inside rotate().
RotateAbort(r) ==
    /\ InTransaction(r)
    /\ Rollback(r)
    /\ req' = [req EXCEPT ![r] = Idle]
    /\ UNCHANGED <<user, expired, historyVars>>

(***************************************************************************)
(* Logout.  The guard admits an access token [sub, fam] while its family   *)
(* has a usable row; the presented refresh token may be any other.         *)
(***************************************************************************)
LogoutAdmitted(r, f) ==
    /\ req[r].step = "idle"
    /\ \E t \in Active(f) \ expired :
         req' = [req EXCEPT ![r] = [Idle EXCEPT !.step = "logout", !.user = owner[t]]]
    /\ UNCHANGED <<user, tokenVars, expired, historyVars>>

LogoutFind(r, t) ==
    /\ req[r].step = "logout"
    /\ t \in Given
    /\ IF status[t] = "deleted" \/ owner[t] # req[r].user
       THEN req' = [req EXCEPT ![r] = Idle]
       ELSE req' = [req EXCEPT ![r] = [@ EXCEPT !.step = "revoke",
                                                !.family = family[t], !.token = t,
                                                !.logout = TRUE]]
    /\ UNCHANGED <<user, tokenVars, expired, historyVars>>

\* consent-revoked: every session of the account is to end, so the request
\* has no family of its own.
ConsentRevoked(r, u) ==
    /\ req[r].step = "idle"
    /\ user[u] = "live"
    /\ req' = [req EXCEPT ![r] = [Idle EXCEPT !.step = "revoke", !.user = u]]
    /\ UNCHANGED <<user, tokenVars, expired, historyVars>>

(***************************************************************************)
(* revokeFamily and revokeAllForUser: one UPDATE, in the two moments it    *)
(* has under READ COMMITTED.                                               *)
(***************************************************************************)
Matches(r, t) ==
    IF req[r].family = None THEN owner[t] = req[r].user
                            ELSE family[t] = req[r].family

\* Mutant: only the presented row is revoked, not its family.
RevokeScanOneRow(r) ==
    /\ req[r].step = "revoke"
    /\ req' = [req EXCEPT ![r].step = "apply",
                          ![r].targets = {t \in {req[r].token} \ {None} : status[t] = "active"}]
    /\ UNCHANGED <<user, tokenVars, expired, historyVars>>

RevokeScan(r) ==
    /\ req[r].step = "revoke"
    /\ req' = [req EXCEPT ![r].step = "apply",
                          ![r].targets = {t \in Tokens : status[t] = "active" /\ Matches(r, t)}]
    /\ UNCHANGED <<user, tokenVars, expired, historyVars>>

\* The families the caller is told are closed.
Answered(r) ==
    IF req[r].family = None THEN {family[t] : t \in req[r].targets}
                            ELSE {req[r].family}

\* Those in which a rotation replaced the row of the snapshot before the
\* update reached it: its replacement is not in the snapshot.
Overtook(r) == {family[t] : t \in {x \in req[r].targets : status[x] = "rotated"}}

\* The next row, of a revocation or of the cascade of a deletion, in any
\* order: it waits while another request has it, and keeps what it has.
LockRow(r, t) ==
    /\ req[r].step \in {"apply", "cascade"}
    /\ t \in req[r].targets \ req[r].locked
    /\ ~Locked(r, t)
    /\ req' = [req EXCEPT ![r].locked = @ \cup {t}]
    /\ UNCHANGED <<user, tokenVars, expired, historyVars>>

\* Every row was reached: those that still match are revoked, and the
\* locks go with the end of the statement.
RevokeApply(r) ==
    /\ req[r].step = "apply"
    /\ req[r].locked = req[r].targets
    /\ status' = [t \in Tokens |-> IF t \in req[r].targets /\ status[t] = "active"
                                   THEN "revoked" ELSE status[t]]
    /\ req' = [req EXCEPT ![r] = Idle]
    /\ closed' = closed \cup Answered(r)
    /\ loggedOut' = loggedOut \cup IF req[r].logout THEN Answered(r) ELSE {}
    /\ overtaken' = overtaken \cup Overtook(r)
    /\ UNCHANGED <<user, owner, family, expired>>

(***************************************************************************)
(* Withdrawal and account-delete notifications end in one DELETE of the    *)
(* users row, whose cascade removes the token rows.                        *)
(***************************************************************************)
DeleteArrives(r, u) ==
    /\ req[r].step = "idle"
    /\ user[u] = "live"
    /\ req' = [req EXCEPT ![r] = [Idle EXCEPT !.step = "delete", !.user = u]]
    /\ UNCHANGED <<user, tokenVars, expired, historyVars>>

\* The users row first: it waits for the transactions that refer to it and
\* for another deletion.  From here on nobody refers to it anew.
DeleteLocksUser(r) ==
    LET u == req[r].user
    IN  /\ req[r].step = "delete"
        /\ user[u] = "live" /\ ~Referenced(u) /\ ~Deleting(u)
        /\ req' = [req EXCEPT ![r].step = "cascade",
                              ![r].targets = {t \in Given : owner[t] = u}]
        /\ UNCHANGED <<user, tokenVars, expired, historyVars>>

\* deleteMany finds no row: another deletion came first.
DeleteNothing(r) ==
    /\ req[r].step = "delete"
    /\ user[req[r].user] = "deleted"
    /\ req' = [req EXCEPT ![r] = Idle]
    /\ UNCHANGED <<user, tokenVars, expired, historyVars>>

\* The cascade has reached every row.
DeleteUser(r) ==
    /\ req[r].step = "cascade"
    /\ req[r].locked = req[r].targets
    /\ user' = [user EXCEPT ![req[r].user] = "deleted"]
    /\ status' = [t \in Tokens |-> IF t \in req[r].targets THEN "deleted" ELSE status[t]]
    /\ req' = [req EXCEPT ![r] = Idle]
    /\ UNCHANGED <<owner, family, expired, historyVars>>

\* The statement is the victim of a deadlock, or fails otherwise: it has
\* done nothing, and its locks go.
StatementFails(r) ==
    /\ req[r].step \in {"revoke", "apply", "delete", "cascade"}
    /\ req' = [req EXCEPT ![r] = Idle]
    /\ UNCHANGED <<user, tokenVars, expired, historyVars>>

\* The clock passes expiresAt of a usable row.
Expire(t) ==
    /\ status[t] = "active"
    /\ expired' = expired \cup {t}
    /\ UNCHANGED <<user, tokenVars, req, historyVars>>

Next ==
    \/ \E r \in Requests :
         \/ \E u \in Users : LoginAccount(r, u)
         \/ \E f \in Families, t \in Tokens : LoginIssue(r, f, t)
         \/ LoginRefused(r)
         \/ \E t \in Tokens : RefreshArrives(r, t)
         \/ RefreshFind(r)
         \/ \E n \in Tokens : RotateInsert(r, n)
         \/ RotateRefused(r)
         \/ RotateUpdate(r)
         \/ RotateConflict(r)
         \/ RotateCommit(r)
         \/ RotateAbort(r)
         \/ \E f \in Families : LogoutAdmitted(r, f)
         \/ \E t \in Tokens : LogoutFind(r, t)
         \/ \E u \in Users : ConsentRevoked(r, u)
         \/ RevokeScan(r)
         \/ \E t \in Tokens : LockRow(r, t)
         \/ RevokeApply(r)
         \/ \E u \in Users : DeleteArrives(r, u)
         \/ DeleteLocksUser(r)
         \/ DeleteNothing(r)
         \/ DeleteUser(r)
         \/ StatementFails(r)
    \/ \E t \in Tokens : Expire(t)

Spec == Init /\ [][Next]_vars

-----------------------------------------------------------------------------
(* Type correctness of the table, the handlers and the history.            *)
TypeOK ==
    /\ user \in [Users -> {"new", "live", "deleted"}]
    /\ status \in [Tokens -> RowStatus]
    /\ owner \in [Tokens -> Users \cup {None}]
    /\ family \in [Tokens -> Families \cup {None}]
    /\ \A t \in Tokens : IF status[t] = "unused"
                        THEN owner[t] = None /\ family[t] = None
                        ELSE owner[t] \in Users /\ family[t] \in Families
    /\ expired \subseteq Tokens
    /\ req \in [Requests -> Request]
    /\ closed \subseteq Families
    /\ loggedOut \subseteq Families
    /\ overtaken \subseteq Families

(* A rotation leaves one unused row in its family and no more, whatever    *)
(* other refreshes of the same token run beside it: what                   *)
(* findActiveByFamily takes for granted (prisma-refresh-tokens.adapter).   *)
OneUsableRow ==
    \A s, t \in Tokens :
        status[s] = "active" /\ status[t] = "active" /\ family[s] = family[t] => s = t

(* No row of a deleted account is left to authenticate with, and no        *)
(* transaction in flight can add one: requests that looked the user up     *)
(* before the deletion are refused when they insert.                       *)
NoOrphanSession ==
    \A t \in Tokens :
        status[t] \in {"pending", "active", "rotated", "revoked"} => user[owner[t]] = "live"

Dead(f) == Active(f) = {} /\ \E t \in Given : family[t] = f

(* When a logout, a reuse 401 or a consent-revoked notification has been   *)
(* answered, the family is dead; the one exception is a rotation that      *)
(* committed between the snapshot and the row update of the revocation.    *)
ClosedUnlessOvertaken == \A f \in closed \ overtaken : Dead(f)

(* For logouts without the exception: after logout() was answered the      *)
(* family is revoked and its access tokens are refused at once (docs/10,   *)
(* JwtAuthGuard).                                                          *)
LogoutClosesFamily == \A f \in loggedOut : Dead(f)

(* A family without a usable row never gets one again: no in-flight        *)
(* refresh resurrects a session that a revocation has ended.               *)
DeadFamilyStaysDead == [][\A f \in Families : Dead(f) => Dead(f)']_vars

(***************************************************************************)
(* Who may be waiting for whom: a request that still lacks rows may be     *)
(* waiting for any of them, whatever the order of its plan.                *)
(***************************************************************************)
Waits(r, q) ==
    LET h == req[r]
        g == req[q]
    IN  /\ r # q
        /\ \/ h.step = "update" /\ h.token \in g.locked
           \/ h.step \in {"apply", "cascade"} /\ \E t \in h.targets \ h.locked : t \in g.locked
           \/ h.step \in {"issue", "insert"} /\ g.step = "cascade" /\ g.user = h.user
           \/ h.step = "delete" /\ g.step \in {"update", "commit", "cascade"} /\ g.user = h.user

\* Requests of which each waits for one and is waited for by one.
Circle(S) == \A r \in S : \E p, q \in S : Waits(p, r) /\ Waits(r, q)

\* consent-revoked and the deletion of the account take many rows.
EndsAllSessions(r) ==
    req[r].step = "cascade" \/ (req[r].step = "apply" /\ req[r].family = None)

(* No login, refresh or logout, and no revocation after a reused token, is *)
(* ever part of a circle of lock waits, of any length: the users row comes *)
(* before the token rows in rotate() and in the deletion, and a family has *)
(* one row to revoke.  Only requests that end all sessions of an account   *)
(* can deadlock, with each other: one of them fails and may be repeated.   *)
SessionsNeverDeadlock ==
    \A S \in SUBSET Requests : Circle(S) => \A r \in S : EndsAllSessions(r)

-----------------------------------------------------------------------------
(***************************************************************************)
(* The inductive invariant behind the invariants above: what the           *)
(* requests in flight hold, and why nobody disturbs it.                    *)
(***************************************************************************)
\* What a request in state h knows about the rows is still true.
KeysOK(h) ==
    /\ h.step \in {"issue", "logout", "delete", "cascade"} => h.user # None
    /\ h.step = "find" => h.token \in Given
    /\ h.step \in {"insert", "update", "commit"} =>
           h.token \in Given /\ h.family = family[h.token] /\ h.user = owner[h.token]
    /\ h.step \in {"revoke", "apply"} /\ h.family # None =>
           \E t \in Given : family[t] = h.family

\* All rows of a family belong to the user who logged in.
OneOwner ==
    \A s, t \in Tokens : family[s] = family[t] => owner[s] = owner[t]

RequestKeys == \A r \in Requests : KeysOK(req[r])

\* An open rotation owns its replacement and, once it has updated the
\* presented row, that row as well; no two rotations share either.
TransactionOK(h) ==
    h.step \in {"update", "commit"} =>
        /\ h.next \in Tokens
        /\ status[h.next] = "pending"
        /\ family[h.next] = h.family
        /\ owner[h.next] = h.user
        /\ h.step = "commit" => status[h.token] = "active"

Disjoint(h, g) ==
    h.step \in {"update", "commit"} /\ g.step \in {"update", "commit"} =>
        /\ h.next # g.next
        /\ h.step = "commit" /\ g.step = "commit" => h.token # g.token

RotationsHoldTheirRows ==
    /\ \A r \in Requests : TransactionOK(req[r])
    /\ \A r, q \in Requests : r # q => Disjoint(req[r], req[q])

\* No replacement row is left behind by a rotation that has ended.
NoStrayReplacement ==
    \A t \in Tokens : status[t] = "pending" =>
        \E r \in Requests : InTransaction(r) /\ req[r].next = t

\* A usable row that a revocation misses descends from one that it saw.
SnapshotOK(h) ==
    h.step = "apply" =>
        /\ h.targets \subseteq Given
        /\ \A t \in h.targets, x \in Tokens :
               status[x] = "active" /\ family[x] = family[t] => x = t \/ status[t] = "rotated"
        /\ h.family # None =>
               \A x \in Active(h.family) : \E t \in h.targets :
                   family[t] = h.family /\ (x = t \/ status[t] = "rotated")

SnapshotCovers == \A r \in Requests : SnapshotOK(req[r])

\* A row is locked by one request, and only by one that is at its rows.
LockOK(h) ==
    /\ h.step \in {"apply", "cascade"} => h.locked \subseteq h.targets
    /\ h.step = "commit" => h.locked = {h.token}
    /\ h.step \notin {"commit", "apply", "cascade"} => h.locked = {}

RowLocks ==
    /\ \A r \in Requests : LockOK(req[r])
    /\ \A r, q \in Requests : r # q => req[r].locked \cap req[q].locked = {}

\* The revocation of one family has at most one row to take.
NarrowOK(h) ==
    h.step = "apply" /\ h.family # None => \A s, t \in h.targets : s = t

FamilyRevocationsAreNarrow == \A r \in Requests : NarrowOK(req[r])

\* A cascade has all the rows of its user in sight, and nobody adds one.
CascadeOK(h) ==
    h.step = "cascade" =>
        /\ h.user \in Users /\ user[h.user] = "live"
        /\ h.targets \subseteq Given
        /\ \A t \in Tokens : t \in h.targets <=> owner[t] = h.user

Apart(h, g) ==
    h.step = "cascade" /\ g.step \in {"update", "commit", "cascade"} => h.user # g.user

CascadesAreAlone ==
    /\ \A r \in Requests : CascadeOK(req[r])
    /\ \A r, q \in Requests : r # q => Apart(req[r], req[q])

(* The inductive invariant, with the invariants it implies as conjuncts.   *)
IInv ==
    /\ TypeOK
    /\ OneUsableRow
    /\ NoOrphanSession
    /\ OneOwner
    /\ RequestKeys
    /\ RotationsHoldTheirRows
    /\ NoStrayReplacement
    /\ SnapshotCovers
    /\ RowLocks
    /\ FamilyRevocationsAreNarrow
    /\ CascadesAreAlone
    /\ ClosedUnlessOvertaken

-----------------------------------------------------------------------------
(* The table implements SessionLifecycle: the current token of a family is *)
(* its usable row, the spent ones are the rows ever committed.             *)
Phase(f) == IF \A t \in Given : family[t] # f THEN "new"
            ELSE IF Active(f) = {} THEN "ended" ELSE "open"

Current(f) == IF Active(f) = {} THEN None ELSE CHOOSE t \in Active(f) : TRUE

Lifecycle == INSTANCE SessionLifecycle
                 WITH phase <- [f \in Families |-> Phase(f)],
                      current <- [f \in Families |-> Current(f)],
                      spent <- Given

(* Every behaviour of the handlers is a behaviour of SessionLifecycle.     *)
ImplementsLifecycle == Lifecycle!Spec

=============================================================================
