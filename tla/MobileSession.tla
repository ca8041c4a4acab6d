--------------------------- MODULE MobileSession ---------------------------
(***************************************************************************)
(* The session of the mobile app: AuthSessionProvider and requestJson,     *)
(* against the sessions of the server.  Restore, refresh, login, logout    *)
(* and the repetition of a refused call are cut at every await; what runs  *)
(* between two awaits, the continuations of a settled promise included, is *)
(* one step, because JavaScript runs it before any other event.            *)
(*                                                                         *)
(* The secure store is external: its operations take effect in the order   *)
(* they are issued and may fail if StoreFails; a step that issues a write  *)
(* therefore already decides its effect, and a later step reports it.      *)
(***************************************************************************)
EXTENDS Naturals, FiniteSets

CONSTANTS Logins,      \* the sessions that logins open, a rotation family each
          UserOf,      \* the account of each
          MaxGen,      \* bound on the refresh tokens of a session
          Pages,       \* the pages in use that call the server
          StoreFails,  \* may operations of the secure store fail?
          None         \* no value

Users == {UserOf[f] : f \in Logins}
Tokens == Logins \X (1 .. MaxGen)

ASSUME ConstantsAssumption ==
    /\ None \notin Logins /\ None \notin Users /\ None \notin Tokens
    /\ "error" \notin Logins \cup {None}
    /\ Pages \subseteq {"rename", "delete"}
    /\ MaxGen \in Nat \ {0}
    /\ StoreFails \in BOOLEAN

\* getMe of the restore, the POST of the logout, the nickname page's PATCH
\* and the withdrawal page's DELETE: every call with auth: true.
Requests == {"me", "logout"} \cup Pages

VARIABLES gen,      \* server: number of the newest token of a session, 0 before
          alive,    \* server: sessions with a usable token
          app,      \* the device
          reused,   \* history: sessions ended because a spent token came back
          lost      \* history: sessions with a refresh answer or a store
                    \* operation that failed

serverVars == <<gen, alive>>
historyVars == <<reused, lost>>
vars == <<serverVars, app, historyVars>>

\* What goes on although the session has changed, and may leave the device
\* with a session that is half there: a refresh with a token read before the
\* session was cleared, a status decided before a login, a user received for
\* an ended session, a restore without an access token, and a session that
\* is cleared while a login writes its token.
Slips == {"refresh", "guest", "user", "tokenless", "cleared"}
Slipped(a, s, happens) == IF happens THEN [a EXCEPT !.slips = @ \cup {s}] ELSE a

NoRefresh == [pc |-> "idle", token |-> None, fresh |-> FALSE, saved |-> FALSE]
NoLogin   == [pc |-> "idle", session |-> None, saved |-> FALSE]
NoRequest == [pc |-> "idle", as |-> None]

\* A promise each, and the calls under way.
Refresh == [pc : {"idle", "read", "sent", "write"}, token : Tokens \cup {None},
            fresh : BOOLEAN, saved : BOOLEAN]
Restore == [pc : {"idle", "refresh", "login", "guest", "me"}, fresh : BOOLEAN]
Login   == [pc : {"idle", "refresh", "write"}, session : Logins \cup {None}, saved : BOOLEAN]
Logout  == [pc : {"idle", "login", "refresh", "read", "post"}, token : Tokens \cup {None}]
Request == [pc : {"idle", "sent", "login", "refresh", "resent", "leave"}, as : Logins \cup {None}]

App == [stored  : Tokens \cup {None},       \* the secure store
        access  : Logins \cup {None},       \* accessTokenRef
        recent  : Logins \cup {None},       \* recentRefreshRef within its grace
        status  : {"restoring", "authenticated", "unauthenticated", "unavailable"},
        user    : Users \cup {None},
        refresh : Refresh, restore : Restore, login : Login, logout : Logout,
        req     : [Requests -> Request],
        slips   : SUBSET Slips]             \* history

-----------------------------------------------------------------------------
(* The device between two awaits.  An operator whose result depends on a   *)
(* store operation returns the set of possible results.                    *)

\* What a store operation leaves behind: its effect, or nothing.
Outcomes == IF StoreFails THEN BOOLEAN ELSE {TRUE}

\* sessionRevisionRef += 1: whoever noted the revision before is stale.
Bumped(a) == [a EXCEPT !.access = None, !.recent = None,
                       !.refresh.fresh = FALSE, !.restore.fresh = FALSE]

clearSession(a) ==
    {[Bumped(Slipped(a, "cleared", a.login.pc = "write"))
        EXCEPT !.user = None, !.status = "unauthenticated",
               !.stored = IF ok THEN None ELSE a.stored] : ok \in Outcomes}

\* The catch of retrySessionRestore: the stored token is kept.
Unavailable(a) ==
    IF a.restore.fresh
    THEN [a EXCEPT !.restore = [pc |-> "idle", fresh |-> FALSE], !.access = None,
                   !.user = None, !.status = "unavailable"]
    ELSE [a EXCEPT !.restore = [pc |-> "idle", fresh |-> FALSE]]

\* The requests in R reject; a rejected logout still ends the session.
Rejected(a, R) ==
    LET b == [a EXCEPT !.req = [r \in Requests |-> IF r \in R THEN NoRequest ELSE a.req[r]]]
        c == IF "me" \in R THEN Unavailable(b) ELSE b
    IN  IF "logout" \in R
        THEN clearSession([c EXCEPT !.logout = [pc |-> "idle", token |-> None]])
        ELSE {c}

\* What awaited refreshAccessToken() goes on with: an access token, null or
\* an exception.
RequestsResume(a, on, result) ==
    LET R == {r \in Requests : a.req[r].pc = on}
    IN  CASE result \in Logins ->
                {[a EXCEPT !.req = [r \in Requests |->
                    IF r \in R THEN [pc |-> "resent", as |-> result] ELSE a.req[r]]]}
          [] result = None /\ R # {} -> UNION {Rejected(b, R) : b \in clearSession(a)}
          [] OTHER -> Rejected(a, R)

\* Mutant: without a token the restore just ends.
RestoreResumesSilently(a, on, result) ==
    CASE a.restore.pc # on -> a
      [] a.restore.pc = on /\ a.restore.fresh /\ result \in Logins ->
            [a EXCEPT !.restore.pc = "me", !.req["me"] = [pc |-> "sent", as |-> a.access]]
      [] OTHER -> [a EXCEPT !.restore = [pc |-> "idle", fresh |-> FALSE]]

RestoreResumes(a, on, result) ==
    CASE a.restore.pc # on -> a
      [] a.restore.pc = on /\ ~a.restore.fresh ->
            [a EXCEPT !.restore = [pc |-> "idle", fresh |-> FALSE]]
      [] a.restore.pc = on /\ a.restore.fresh /\ result \in Logins ->
            [a EXCEPT !.restore.pc = "me", !.req["me"] = [pc |-> "sent", as |-> a.access]]
      [] a.restore.pc = on /\ a.restore.fresh /\ result = None ->
            [a EXCEPT !.restore.pc = "guest", !.access = None, !.recent = None, !.user = None]
      [] OTHER -> Unavailable(a)

LogoutResumes(a, on) ==
    IF a.logout.pc = on
    THEN [a EXCEPT !.logout = [pc |-> "read", token |-> a.stored]]
    ELSE a

\* The refresh of a token is over and the login writes its own.
Establish(a, f) ==
    {[Bumped(a) EXCEPT !.stored = IF ok THEN <<f, 1>> ELSE a.stored,
                       !.login = [pc |-> "write", session |-> f, saved |-> ok]] : ok \in Outcomes}

LoginResumes(a) == IF a.login.pc = "refresh" THEN Establish(a, a.login.session) ELSE {a}

\* Mutant: nobody wakes the logout.
RefreshSettlesAlone(a, result) ==
    UNION {LoginResumes(RestoreResumes(b, "refresh", result)) :
              b \in RequestsResume([a EXCEPT !.refresh = NoRefresh], "refresh", result)}

\* A refresh settles: the calls that wait for it go on in the order they
\* came, a login always last (once it waits, others wait for the login).
RefreshSettles(a, result) ==
    UNION {LoginResumes(LogoutResumes(RestoreResumes(b, "refresh", result), "refresh")) :
              b \in RequestsResume([a EXCEPT !.refresh = NoRefresh], "refresh", result)}

LoginSettles(a, result) ==
    {LogoutResumes(RestoreResumes(b, "login", result), "login") :
        b \in RequestsResume([a EXCEPT !.login = NoLogin], "login", result)}

\* refreshAccessToken() when it cannot answer at once: the promise it
\* returns, with the read of a new refresh if there is none.
AwaitedPromise(a) == IF a.login.pc # "idle" THEN "login" ELSE "refresh"

WithRefresh(a) ==
    IF a.login.pc = "idle" /\ a.refresh.pc = "idle"
    THEN [a EXCEPT !.refresh = [NoRefresh EXCEPT !.pc = "read", !.token = a.stored, !.fresh = TRUE]]
    ELSE a

AnswersAtOnce(a) == a.login.pc = "idle" /\ a.refresh.pc = "idle" /\ a.recent # None

RestoreStarted(a) ==
    LET b == [a EXCEPT !.status = "restoring",
                       !.restore = [pc |-> AwaitedPromise(a), fresh |-> TRUE]]
    IN  IF AnswersAtOnce(a) THEN RestoreResumes(b, AwaitedPromise(a), a.recent)
        ELSE WithRefresh(b)

\* A start of the app, with what the secure store holds.
Started(token, slips) ==
    RestoreStarted([stored  |-> token, access |-> None, recent |-> None,
                    status  |-> "restoring", user |-> None,
                    refresh |-> NoRefresh, restore |-> [pc |-> "idle", fresh |-> FALSE],
                    login   |-> NoLogin, logout |-> [pc |-> "idle", token |-> None],
                    req     |-> [r \in Requests |-> NoRequest], slips |-> slips])

Init ==
    /\ gen = [f \in Logins |-> 0]
    /\ alive = {}
    /\ app = Started(None, {})
    /\ reused = {} /\ lost = {}

-----------------------------------------------------------------------------
(* The refresh: performRefresh.                                            *)

\* The stored token is read; the session revision is noted only now.
RefreshRead ==
    /\ app.refresh.pc = "read"
    /\ \/ /\ app.refresh.token # None
          /\ app' = [Slipped(app, "refresh", ~app.refresh.fresh)
                       EXCEPT !.refresh.pc = "sent", !.refresh.fresh = TRUE]
       \/ /\ app.refresh.token = None
          /\ app' \in RefreshSettles(app, None)
       \/ /\ StoreFails
          /\ app' \in RefreshSettles(app, "error")
    /\ UNCHANGED <<serverVars, historyVars>>

Presented == app.refresh.token[1]
IsNewest == Presented \in alive /\ app.refresh.token[2] = gen[Presented]

\* Mutant: the new token is not stored.
RefreshRotatesUnsaved ==
    /\ app.refresh.pc = "sent" /\ IsNewest /\ gen[Presented] < MaxGen
    /\ gen' = [gen EXCEPT ![Presented] = @ + 1]
    /\ app' = [app EXCEPT !.refresh.pc = "write", !.refresh.saved = TRUE]
    /\ UNCHANGED <<alive, historyVars>>

\* Mutant: the session revision is not compared.
RefreshRotatesStale ==
    /\ app.refresh.pc = "sent" /\ IsNewest /\ gen[Presented] < MaxGen
    /\ gen' = [gen EXCEPT ![Presented] = @ + 1]
    /\ app' = [app EXCEPT !.refresh.pc = "write", !.refresh.saved = TRUE,
                          !.stored = <<Presented, gen'[Presented]>>]
    /\ UNCHANGED <<alive, historyVars>>

\* Mutant: the server does not ask whether the session is still alive.
RefreshRotatesDead ==
    /\ app.refresh.pc = "sent" /\ gen[Presented] < MaxGen
    /\ gen' = [gen EXCEPT ![Presented] = @ + 1]
    /\ app' \in RefreshSettles(app, None)
    /\ UNCHANGED <<alive, historyVars>>

\* The server replaces the token; a session that was cleared meanwhile
\* drops the new one, otherwise its write is issued.
RefreshRotates ==
    /\ app.refresh.pc = "sent"
    /\ IsNewest
    /\ gen[Presented] < MaxGen
    /\ gen' = [gen EXCEPT ![Presented] = @ + 1]
    /\ \/ /\ app.refresh.fresh
          /\ \E ok \in Outcomes :
                /\ app' = [app EXCEPT !.refresh.pc = "write", !.refresh.saved = ok,
                                      !.stored = IF ok THEN <<Presented, gen'[Presented]>> ELSE @]
                /\ lost' = IF ok THEN lost ELSE lost \cup {Presented}
       \/ /\ ~app.refresh.fresh
          /\ app' \in RefreshSettles(app, None)
          /\ lost' = IF StoreFails /\ app.stored # None THEN lost \cup {Presented} ELSE lost
       \/ /\ app' \in RefreshSettles(app, "error")
          /\ lost' = lost \cup {Presented}
    /\ UNCHANGED <<alive, reused>>

\* A dead session, or a spent token: its whole family is revoked.
RefreshRefused ==
    /\ app.refresh.pc = "sent"
    /\ ~IsNewest
    /\ alive' = alive \ {Presented}
    /\ reused' = reused \cup (alive \cap {Presented})
    /\ \/ \E b \in clearSession(app) : app' \in RefreshSettles(b, None)
       \/ app' \in RefreshSettles(app, "error")
    /\ UNCHANGED <<gen, lost>>

\* The network or the server fails before the token is looked at.
RefreshFails ==
    /\ app.refresh.pc = "sent"
    /\ app' \in RefreshSettles(app, "error")
    /\ UNCHANGED <<serverVars, historyVars>>

RefreshWritten ==
    /\ app.refresh.pc = "write"
    /\ \/ /\ app.refresh.saved /\ app.refresh.fresh
          /\ app' \in RefreshSettles([app EXCEPT !.access = Presented, !.recent = Presented],
                                      Presented)
       \/ /\ app.refresh.saved /\ ~app.refresh.fresh
          /\ \/ app' \in RefreshSettles([app EXCEPT !.stored = None], None)
             \/ StoreFails /\ app' \in RefreshSettles(app, "error")
       \/ /\ ~app.refresh.saved
          /\ \E b \in clearSession(app) : app' \in RefreshSettles(b, "error")
    /\ UNCHANGED <<serverVars, historyVars>>

\* A refreshed token answers the next 401 for a second.
GraceOver ==
    /\ app.recent # None
    /\ app' = [app EXCEPT !.recent = None]
    /\ UNCHANGED <<serverVars, historyVars>>

-----------------------------------------------------------------------------
(* Calls with auth: true: requestJson.                                     *)

NeedsToken(a, r) ==
    IF AnswersAtOnce(a)
    THEN [a EXCEPT !.req[r] = [pc |-> "resent", as |-> a.recent]]
    ELSE WithRefresh([a EXCEPT !.req[r].pc = AwaitedPromise(a)])

\* The nickname page and the withdrawal page; both can be left before the
\* answer, but not opened twice.
PageCalls(r) ==
    /\ r \in Pages
    /\ app.status = "authenticated"
    /\ app.req[r].pc = "idle"
    /\ app' = [app EXCEPT !.req[r] = [pc |-> "sent", as |-> app.access]]
    /\ UNCHANGED <<serverVars, historyVars>>

\* What the server does for a call, before the answer.
SessionsOf(u) == {f \in Logins : UserOf[f] = u}

Served(r) ==
    CASE r = "delete" -> alive' = alive \ SessionsOf(UserOf[app.req[r].as])
      [] r = "logout" -> alive' = alive \ ({app.logout.token[1]} \cap SessionsOf(UserOf[app.req[r].as]))
      [] OTHER -> UNCHANGED alive

SignedInAs(a, f) == [a EXCEPT !.user = UserOf[f], !.status = "authenticated"]

\* Mutant: a late profile is shown, too.
AcceptedStale(a, r) ==
    LET b == [a EXCEPT !.req[r] = NoRequest]
        f == a.req[r].as
    IN  CASE r = "me" ->
                {[SignedInAs(b, f) EXCEPT !.restore = [pc |-> "idle", fresh |-> FALSE]]}
          [] r = "rename" -> {Slipped(SignedInAs(b, f), "user", UserOf[f] # a.user)}
          [] r = "delete" -> {[b EXCEPT !.req[r].pc = "leave"]}
          [] r = "logout" ->
                clearSession([b EXCEPT !.logout = [pc |-> "idle", token |-> None]])

\* What the caller does with the answer: the restore shows the user unless
\* it is stale, replaceUser shows it in any case, the withdrawal goes on to
\* delete the records before it signs out.
Accepted(a, r) ==
    LET b == [a EXCEPT !.req[r] = NoRequest]
        f == a.req[r].as
    IN  CASE r = "me" ->
                LET c == IF a.restore.fresh
                         THEN Slipped(SignedInAs(b, f), "tokenless", a.access = None)
                         ELSE b
                IN  {[c EXCEPT !.restore = [pc |-> "idle", fresh |-> FALSE]]}
          [] r = "rename" -> {Slipped(SignedInAs(b, f), "user", UserOf[f] # a.user)}
          [] r = "delete" -> {[b EXCEPT !.req[r].pc = "leave"]}
          [] r = "logout" ->
                clearSession([b EXCEPT !.logout = [pc |-> "idle", token |-> None]])

Pending(r) == app.req[r].pc \in {"sent", "resent"}

CallSucceeds(r) ==
    /\ Pending(r)
    /\ app.req[r].as \in alive
    /\ Served(r)
    /\ app' \in Accepted(app, r) \cup Rejected(app, {r})
    /\ UNCHANGED <<gen, historyVars>>

\* The network or the server fails before the call is served.
CallFails(r) ==
    /\ Pending(r)
    /\ app' \in Rejected(app, {r})
    /\ UNCHANGED <<serverVars, historyVars>>

\* A first 401, for a session that has ended or an access token that has
\* expired, asks for a new access token; a second ends the session.
CallRefused(r) ==
    /\ \/ /\ app.req[r].pc = "sent"
          /\ app' = NeedsToken(app, r)
       \/ /\ app.req[r].pc = "resent"
          /\ app.req[r].as \notin alive
          /\ \E b \in clearSession(app) : app' \in Rejected(b, {r})
    /\ UNCHANGED <<serverVars, historyVars>>

\* clearLocalSession at the end of a withdrawal.
WithdrawalLeaves ==
    /\ "delete" \in Pages
    /\ app.req["delete"].pc = "leave"
    /\ app' \in clearSession([app EXCEPT !.req["delete"] = NoRequest])
    /\ UNCHANGED <<serverVars, historyVars>>

-----------------------------------------------------------------------------
(* Restore, login and logout.                                              *)

\* The app comes to the foreground while the server is out of reach.
RestoreRetried ==
    /\ app.status = "unavailable"
    /\ app.restore.pc = "idle"
    /\ app' = RestoreStarted(app)
    /\ UNCHANGED <<serverVars, historyVars>>

\* No page ever sets the guest mode.
RestoreReadsGuestMode ==
    /\ app.restore.pc = "guest"
    /\ \/ app' = [Slipped(app, "guest", ~app.restore.fresh)
                     EXCEPT !.status = "unauthenticated",
                            !.restore = [pc |-> "idle", fresh |-> FALSE]]
       \/ /\ StoreFails
          /\ app' = Unavailable(app)
    /\ UNCHANGED <<serverVars, historyVars>>

\* Mutant: the login does not wait for the refresh.
LoginArrivesAtOnce(f) ==
    /\ gen[f] = 0
    /\ app.login.pc = "idle"
    /\ gen' = [gen EXCEPT ![f] = 1]
    /\ alive' = alive \cup {f}
    /\ app' \in Establish(app, f)
    /\ UNCHANGED historyVars

\* Mutant: the login brings no refresh token.
LoginArrivesUntokened(f) ==
    /\ gen[f] = 0
    /\ app.login.pc = "idle"
    /\ alive' = alive \cup {f}
    /\ app' \in Establish(app, f)
    /\ UNCHANGED <<gen, historyVars>>

\* The server opens a session and establishSession is called with it.
LoginArrives(f) ==
    /\ gen[f] = 0
    /\ app.login.pc = "idle"
    /\ gen' = [gen EXCEPT ![f] = 1]
    /\ alive' = alive \cup {f}
    /\ IF app.refresh.pc = "idle"
       THEN app' \in Establish(app, f)
       ELSE app' = [app EXCEPT !.login = [pc |-> "refresh", session |-> f, saved |-> FALSE]]
    /\ UNCHANGED historyVars

LoginWritten ==
    /\ app.login.pc = "write"
    /\ LET f == app.login.session
       IN  \/ /\ app.login.saved
              /\ app' \in LoginSettles(SignedInAs([app EXCEPT !.access = f], f), f)
           \/ /\ ~app.login.saved
              /\ \E b \in clearSession([app EXCEPT !.login = NoLogin]) :
                    app' \in LoginSettles(b, "error")
    /\ UNCHANGED <<serverVars, historyVars>>

LogoutStarts ==
    /\ app.status = "authenticated"
    /\ app.logout.pc = "idle"
    /\ \/ /\ app.login.pc # "idle"
          /\ app' = [app EXCEPT !.logout.pc = "login"]
       \/ /\ app.login.pc = "idle" /\ app.refresh.pc # "idle"
          /\ app' = [app EXCEPT !.logout.pc = "refresh"]
       \/ /\ app.login.pc = "idle" /\ app.refresh.pc = "idle"
          /\ app' = LogoutResumes(app, "idle")
    /\ UNCHANGED <<serverVars, historyVars>>

\* Mutant: only the device is logged out.
LogoutReadLocally ==
    /\ app.logout.pc = "read"
    /\ app' \in clearSession([app EXCEPT !.logout = [pc |-> "idle", token |-> None]])
    /\ UNCHANGED <<serverVars, historyVars>>

\* The server is only told with an access token and a refresh token.
LogoutRead ==
    /\ app.logout.pc = "read"
    /\ \/ /\ app.access # None /\ app.logout.token # None
          /\ app' = [app EXCEPT !.logout.pc = "post",
                               !.req["logout"] = [pc |-> "sent", as |-> app.access]]
       \/ /\ app.access = None \/ app.logout.token = None \/ StoreFails
          /\ app' \in clearSession([app EXCEPT !.logout = [pc |-> "idle", token |-> None]])
    /\ UNCHANGED <<serverVars, historyVars>>

-----------------------------------------------------------------------------
(* The environment.                                                        *)

\* The session expires or is ended elsewhere.
SessionDies(f) ==
    /\ f \in alive
    /\ alive' = alive \ {f}
    /\ UNCHANGED <<gen, app, historyVars>>

Killed ==
    /\ app' = Started(app.stored, app.slips)
    /\ UNCHANGED <<serverVars, historyVars>>

Next ==
    \/ RefreshRead \/ RefreshRotates \/ RefreshRefused \/ RefreshFails \/ RefreshWritten
    \/ GraceOver
    \/ \E r \in Requests : PageCalls(r) \/ CallSucceeds(r) \/ CallFails(r) \/ CallRefused(r)
    \/ WithdrawalLeaves
    \/ RestoreRetried \/ RestoreReadsGuestMode
    \/ \E f \in Logins : LoginArrives(f) \/ SessionDies(f)
    \/ LoginWritten \/ LogoutStarts \/ LogoutRead
    \/ Killed

Spec == Init /\ [][Next]_vars

(***************************************************************************)
(* Every fetch ends, with an answer or an error of the platform, and every *)
(* operation of the store is reported; the app is not killed for ever.     *)
(***************************************************************************)
FairSpec ==
    /\ Spec
    /\ WF_vars(RefreshRead)
    /\ WF_vars(RefreshRotates \/ RefreshRefused \/ RefreshFails)
    /\ WF_vars(RefreshWritten)
    /\ \A r \in Requests : WF_vars(CallSucceeds(r) \/ CallFails(r) \/ CallRefused(r))
    /\ WF_vars(RestoreReadsGuestMode)
    /\ WF_vars(LoginWritten)
    /\ WF_vars(LogoutRead)

-----------------------------------------------------------------------------
(* Every part of the device and the server keeps its type.                 *)
TypeOK ==
    /\ gen \in [Logins -> 0 .. MaxGen]
    /\ alive \subseteq {f \in Logins : gen[f] > 0}
    /\ app \in App
    /\ reused \subseteq Logins /\ lost \subseteq Logins

(* The server takes a token for reused only after an answer or a store     *)
(* operation was lost: refreshes never overlap, a login waits for the      *)
(* refresh it interrupts, and a refresh that ends in a cleared session     *)
(* leaves no token behind, so the device does not present a token twice.   *)
NoFalseReuse == reused \subseteq lost

\* No promise of the provider is pending and no call is under way.
AtRest ==
    /\ app.refresh.pc = "idle" /\ app.restore.pc = "idle"
    /\ app.login.pc = "idle" /\ app.logout.pc = "idle"
    /\ \A r \in Requests : app.req[r].pc = "idle"

(* What the app shows is what it holds: signed in with an access token of  *)
(* the account that is shown, or signed out without one, whatever restore, *)
(* refresh, login, logout and late answers overlapped (Slips lists the     *)
(* steps that are exempt).                                                 *)
ShownIsHeld ==
    AtRest /\ app.slips = {} =>
        /\ app.status # "restoring"
        /\ app.status = "authenticated" =>
              app.access # None /\ app.user = UserOf[app.access]
        /\ app.status = "unauthenticated" => app.access = None

(* What the app holds is what it finds at its next start: the newest       *)
(* refresh token of its session, unless the answer that brought it was     *)
(* lost, and none after a session was cleared.                             *)
HeldIsStored ==
    AtRest /\ app.slips = {} =>
        /\ app.access # None =>
              \E n \in 1 .. gen[app.access] :
                 /\ app.stored = <<app.access, n>>
                 /\ n = gen[app.access] \/ app.access \in lost
        /\ app.status = "unauthenticated" => app.stored = None

(* Shown, held and stored agree whenever the provider is at rest.          *)
Coherent == TypeOK /\ ShownIsHeld /\ HeldIsStored

(* The refresh token of a cleared session never comes back: a token is     *)
(* stored where there was none by a login only.                            *)
NoTokenReturns ==
    [][app.stored = None /\ app'.stored # None =>
          app'.login.pc = "write" \/ "refresh" \in app.slips]_vars

(* A logout that finds the session still signed in and its token stored    *)
(* asks the server to end it; it leaves a living session behind only if    *)
(* that call fails.                                                        *)
LogoutIsTold ==
    [][/\ app.logout.pc = "read" /\ app.status = "authenticated"
       /\ app'.logout.pc = "idle" /\ app'.status = "unauthenticated"
       => \/ app.logout.token = None
          \/ app.logout.token[1] \notin alive
          \/ app'.slips # {}]_vars

(* The sessions of the server live as SessionLifecycle says, the one the   *)
(* refresh-token table of the API implements.                              *)
Lifecycle == INSTANCE SessionLifecycle WITH
    Families <- Logins,
    phase    <- [f \in Logins |-> CASE gen[f] = 0 -> "new"
                                   [] gen[f] > 0 /\ f \in alive -> "open"
                                   [] OTHER -> "ended"],
    current  <- [f \in Logins |-> IF f \in alive THEN <<f, gen[f]>> ELSE None],
    spent    <- {t \in Tokens : t[2] <= gen[t[1]]}

ServerIsLifecycle == Lifecycle!Spec

(* The splash screen goes away: a restore ends whatever fails, unless the  *)
(* app is killed again and again.                                          *)
NotKilledForEver == <>[][~Killed]_vars
RestoreEnds == NotKilledForEver => (app.status = "restoring" ~> app.status # "restoring")

(* A logout ends, however many refreshes and logins it waits for.          *)
LogoutEnds == NotKilledForEver => (app.logout.pc # "idle" ~> app.logout.pc = "idle")

(* Neither hangs, whatever they wait for (retrySessionRestore, logout).    *)
NothingHangs == RestoreEnds /\ LogoutEnds
-----------------------------------------------------------------------------
(* The inductive invariant behind the properties above.                    *)

Of(token, f) == token # None /\ token[1] = f

\* A token was handed out; the newest of its session, unless one was lost.
TokenOK(token, g, l) ==
    token # None => token[2] <= g[token[1]] /\ (token[2] = g[token[1]] \/ token[1] \in l)
TokensOK(a, g, l) ==
    LET r == a.refresh
    IN  /\ TokenOK(a.stored, g, l)
        /\ r.pc \in {"read", "sent"} => TokenOK(r.token, g, l)
        /\ r.pc # "idle" /\ r.token # None => r.token[2] <= g[r.token[1]]

\* A refresh that has read its token while the session was there presents what
\* is stored; what is cleared meanwhile is gone.
RefreshOK(a) ==
    LET r == a.refresh
    IN  /\ r.pc = "idle" => ~r.fresh
        /\ r.pc \in {"sent", "write"} => r.token # None
        /\ r.pc = "read" /\ r.fresh => r.token = a.stored
        /\ r.pc = "sent" /\ r.fresh /\ a.stored = None => "refresh" \in a.slips
        /\ r.pc = "sent" /\ ~r.fresh /\ a.stored # None => StoreFails
        /\ r.pc = "write" => r.saved \/ StoreFails

\* Nobody has used the session of a login that is still to be stored.
LoginOK(a, g) ==
    LET k == a.login
    IN  /\ k.pc # "idle" => k.session # None /\ g[k.session] = 1
        /\ k.pc = "refresh" => ~Of(a.stored, k.session) /\ ~Of(a.refresh.token, k.session)
        /\ k.pc = "write" => /\ a.refresh.pc = "idle"
                             /\ a.restore.fresh => a.restore.pc = "login"
                             /\ k.saved \/ StoreFails

\* A profile is asked for by a restore, and the server told by a logout.
CallsOK(a) ==
    /\ a.req["me"].pc # "idle" => a.restore.pc = "me"
    /\ a.req["logout"].pc # "idle" => a.logout.pc = "post"

BaseOK(a, g, l) == CallsOK(a) /\ TokensOK(a, g, l) /\ RefreshOK(a) /\ LoginOK(a, g)

\* What is held in memory is of the session whose token is stored.
HeldOK(a) ==
    LET r == a.refresh
    IN  /\ a.access # None => Of(a.stored, a.access)
        /\ a.recent # None => Of(a.stored, a.recent)
        /\ r.pc \in {"sent", "write"} /\ r.fresh => Of(a.stored, r.token[1])
        /\ r.pc # "idle" /\ ~r.fresh => a.status = "unauthenticated"
        /\ a.login.pc = "write" =>
              /\ a.access = None /\ a.recent = None /\ Of(a.stored, a.login.session)

SignedOutOK(a) ==
    a.status = "unauthenticated" =>
        /\ a.access = None /\ a.recent = None /\ ~a.restore.fresh
        /\ a.refresh.fresh => a.refresh.token = None
        /\ a.login.pc # "write" => a.stored = None
SignedInOK(a) ==
    /\ a.user # None => a.status = "authenticated"
    /\ a.status = "authenticated" /\ a.login.pc # "write" =>
          a.access # None /\ a.user = UserOf[a.access]

\* The status is decided by the restore unless something has bumped it.
RestoreOK(a) ==
    LET r == a.restore  me == a.req["me"]
    IN  /\ r.pc = "idle" => ~r.fresh
        /\ a.status = "restoring" => r.fresh \/ a.login.pc = "write"
        /\ a.status = "unavailable" => ~r.fresh
        /\ r.fresh /\ r.pc = "refresh" => a.status = "restoring"
        /\ r.fresh /\ r.pc = "guest" =>
              /\ a.status = "restoring"
              /\ a.access = None /\ a.recent = None /\ a.stored = None
        /\ r.fresh /\ r.pc = "me" /\ me.pc \in {"sent", "resent"} /\ me.as # None =>
              Of(a.stored, me.as)

\* An app without slips, on a store that works, is all of a piece.
CalmOK(a) == a.slips = {} /\ ~StoreFails =>
                 HeldOK(a) /\ SignedOutOK(a) /\ SignedInOK(a) /\ RestoreOK(a)

DeviceOK(a, g, l) == BaseOK(a, g, l) /\ CalmOK(a)

IInv == TypeOK /\ DeviceOK(app, gen, lost) /\ NoFalseReuse

=============================================================================
