-------------------------------- MODULE Web --------------------------------
(***************************************************************************)
(* The web client (src/apps/web): browser tabs that share the cookie of the *)
(* refresh token and nothing else.  Every tab has an access token in memory,*)
(* the session its AuthSessionProvider shows, at most one refresh under way,*)
(* and calls in flight: the profile it loads when the page is mounted, the  *)
(* login of the Kakao callback, a call of the settings, and those of the    *)
(* pages that create and edit a record.                                     *)
(*                                                                          *)
(* A step is what happens up to the next await: a call is sent, the server  *)
(* answers it, the browser takes the answer.  A call that carries only an   *)
(* access token is answered in one step; where an answer sets or clears the *)
(* cookie its way back is a step of its own.  The server is what the client *)
(* sees of it: sessions with the number of their newest refresh token (see  *)
(* AuthSessions), and the records (see Records).                            *)
(***************************************************************************)
EXTENDS Naturals, FiniteSets

CONSTANTS
    Tabs, Users, Sessions, Records, None,
    MaxGen,      \* refresh tokens per session
    Files,       \* photos of a new record
    MaxSaves     \* saves of the edit page

ASSUME WebAssumption ==
    /\ None \notin Users /\ None \notin Sessions /\ None \notin Records
    /\ None \notin Sessions \X (1 .. MaxGen)
    /\ None \notin {"shown", "error", "warned", "new", "deleted"}
    /\ {"new", "deleted"} \cap Users = {}
    /\ MaxGen \in Nat \ {0} /\ Files \in Nat \ {0} /\ MaxSaves \in Nat

VARIABLES
    session,    \* of the server: [user, gen, alive]
    expired,    \* access tokens that are over
    rows,       \* of the server: the records
    cookie,     \* the refresh token the browser holds
    tab,        \* the tabs
    reused,     \* sessions the server ended because a spent token came back
    raced       \* sessions of which a refreshed token was lost or awaited twice

vars == <<session, expired, rows, cookie, tab, reused, raced>>

----------------------------------------------------------------------------
(* Types.                                                                   *)

Days == {"day1", "day2"}
Slots == {"profile", "login", "exit", "page", "old"} \cup Days
\* The access token <<s, n>> comes with the n-th refresh token of session s.
Tokens == (Sessions \X (1 .. MaxGen)) \cup {None}

PageOps == {"create", "entry", "photo", "place", "get", "cleanup", "update", "write"}
Ops == {"profile", "login", "logout", "withdraw", "clear"} \cup PageOps

Call == [pc : {"idle", "sent", "served", "refresh", "refused"}, op : Ops \cup {None},
         token : Tokens, cookie : Tokens, again : BOOLEAN,
         user : Users \cup {None}, rec : Records \cup {None}, day : Days, save : 0 .. MaxSaves]
Refresh == [pc : {"none", "sent", "rotated", "refused"}, cookie : Tokens]
Page == [step : {"idle", "prepare", "days"} \cup PageOps,
         user : Users \cup {None}, rec : Records \cup {None}, made : Records \cup {None},
         note : BOOLEAN, place : BOOLEAN, left : 0 .. Files, synced : BOOLEAN,
         save : 0 .. MaxSaves, alone : BOOLEAN,
         outcome : {None, "shown", "error", "warned"}]
Tab == [status : {"closed", "loading", "authenticated", "anonymous"}, shown : Users \cup {None},
        access : Tokens, refresh : Refresh, call : [Slots -> Call], page : Page,
        slips : SUBSET {"login", "mount"}, out : BOOLEAN]
Row == [owner : Users \cup {"new", "deleted"}, notes : [Days -> 0 .. MaxSaves + 1],
        photos : 0 .. Files, place : BOOLEAN]

NoCall == [pc |-> "idle", op |-> None, token |-> None, cookie |-> None, again |-> FALSE,
           user |-> None, rec |-> None, day |-> "day1", save |-> 0]
NoRefresh == [pc |-> "none", cookie |-> None]
NoPage == [step |-> "idle", user |-> None, rec |-> None, made |-> None, note |-> FALSE,
           place |-> FALSE, left |-> 0, synced |-> TRUE, save |-> 0, alone |-> TRUE,
           outcome |-> None]
NewRow == [owner |-> "new", notes |-> [d \in Days |-> 0], photos |-> 0, place |-> FALSE]

UserOf(token) == session[token[1]].user
Accepts(token) == token # None /\ token \notin expired /\ session[token[1]].alive

----------------------------------------------------------------------------
(* What a tab does with its token and its session.                          *)

Sent(b, op) == [NoCall EXCEPT !.pc = "sent", !.op = op, !.token = b.access, !.rec = b.page.rec]

BecameAnonymous(b) == [b EXCEPT !.shown = None, !.status = "anonymous"]

\* Mutant: nobody listens to the token.
WithTokenQuietly(b, token) == [b EXCEPT !.access = token]

\* setAccessToken and the listener of the provider.
WithToken(b, token) ==
    LET c == [b EXCEPT !.access = token]
    IN  IF token = None /\ b.status = "authenticated" THEN BecameAnonymous(c) ELSE c

ClearedSession(b) == BecameAnonymous([b EXCEPT !.access = None])

\* Mutant: every waiter of a refresh is forgotten but the profile.
ResumedFirst(b, token) ==
    [WithToken(b, token) EXCEPT
        !.refresh = NoRefresh,
        !.call["profile"] =
            IF @.pc # "refresh" THEN @
            ELSE IF token = None THEN [@ EXCEPT !.pc = "refused"]
            ELSE [@ EXCEPT !.pc = "sent", !.token = token, !.cookie = token, !.again = TRUE]]

\* The refresh ends: every call that waited for it goes out again, once, or
\* keeps its 401.
Resumed(b, token) ==
    [WithToken(b, token) EXCEPT
        !.refresh = NoRefresh,
        !.call = [c \in Slots |->
            IF b.call[c].pc # "refresh" THEN b.call[c]
            ELSE IF token = None THEN [b.call[c] EXCEPT !.pc = "refused"]
            ELSE [b.call[c] EXCEPT !.pc = "sent", !.token = token, !.cookie = token, !.again = TRUE]]]

\* LoginPage sends a signed-in user home, ProtectedRoute all others to it; the
\* page that waits for a login leads to neither.
AtLogin(b) == b.status \in {"loading", "anonymous"}
SignedIn(b) == b.status = "authenticated" /\ b.call["login"].pc = "idle"

----------------------------------------------------------------------------
(* The pages of a record, after each call: RecordCreatePage.submit and the  *)
(* save of RecordEditPage.                                                  *)

Step(b, op) == [b EXCEPT !.page.step = op, !.call["page"] = Sent(b, op)]
Finished(b, outcome) == [b EXCEPT !.page.step = "idle", !.page.outcome = outcome]
Prepare(b) == [b EXCEPT !.page.step = "prepare"]

\* Mutant: the id is kept once the entry is written.
SubmitFailedLate(b) ==
    IF b.page.rec = None \/ b.page.step = "entry" THEN Finished(b, "error") ELSE Step(b, "cleanup")

\* The catch of submit: what has been created is deleted again.
SubmitFailed(b) ==
    IF b.page.rec = None THEN Finished(b, "error") ELSE Step(b, "cleanup")

DaysSent(b) ==
    [b EXCEPT !.page.step = "days",
              !.call = [c \in Slots |->
                  IF c \in Days THEN [Sent(b, "write") EXCEPT !.day = c, !.save = b.page.save]
                  ELSE b.call[c]]]

PageSucceeded(b) ==
    CASE b.page.step = "create"  -> IF b.page.note THEN Step(b, "entry") ELSE Prepare(b)
      [] b.page.step = "entry"   -> Prepare(b)
      [] b.page.step = "photo"   ->
            LET c == [b EXCEPT !.page.left = @ - 1]
            IN  IF c.page.left > 0 THEN Prepare(c)
                ELSE Step(c, IF c.page.place THEN "place" ELSE "get")
      [] b.page.step = "place"   -> Step(b, "get")
      [] b.page.step = "get"     -> Finished(b, "shown")
      [] b.page.step = "cleanup" -> Finished(b, "error")
      [] b.page.step = "update"  -> DaysSent(b)

\* Mutant: the place is taken for stored whatever became of it.
PageFailedQuietly(b) ==
    CASE b.page.step = "place"   -> Step(b, "get")
      [] b.page.step = "cleanup" -> Finished(b, "warned")
      [] b.page.step = "update"  -> Finished(b, "error")
      [] OTHER                   -> SubmitFailed(b)

PageFailed(b) ==
    CASE b.page.step = "place"   -> Step([b EXCEPT !.page.synced = FALSE], "get")
      [] b.page.step = "cleanup" -> Finished(b, "warned")
      [] b.page.step = "update"  -> Finished(b, "error")
      [] OTHER                   -> SubmitFailed(b)

\* Promise.all: the first failure ends the save, the last success does.
DayWritten(b, ok) ==
    IF b.page.step # "days" THEN b
    ELSE IF ~ok THEN Finished(b, "error")
    ELSE IF \A d \in Days : b.call[d].pc = "idle" THEN Finished(b, "shown")
    ELSE b

\* A call of slot c ends; user is whom the profile names.
Settled(b0, c, ok, user) ==
    LET b == [b0 EXCEPT !.call[c] = NoCall]  op == b0.call[c].op
    IN  CASE c = "profile" -> IF ok THEN [b EXCEPT !.shown = user, !.status = "authenticated"]
                              ELSE BecameAnonymous(b)
          [] c = "login"   -> b
          [] c = "exit"    -> IF op = "logout" \/ (op = "withdraw" /\ ok) THEN ClearedSession(b) ELSE b
          [] c = "page"    -> IF ok THEN PageSucceeded(b) ELSE PageFailed(b)
          [] c \in Days    -> DayWritten(b, ok)
          [] c = "old"     -> b

----------------------------------------------------------------------------
(* What the server does for user w.                                         *)

NewRecord == CHOOSE r \in Records : rows[r].owner = "new"

\* The record a call is about, and whether the server finds it.
Target(b, c) == IF b.call[c].op = "create" THEN NewRecord ELSE b.call[c].rec
Granted(b, c, w) ==
    CASE b.call[c].op \in {"profile", "withdraw", "clear"} -> TRUE
      [] b.call[c].op = "create" -> \E r \in Records : rows[r].owner = "new"
      [] OTHER -> rows[b.call[c].rec].owner = w

RowsOfNobody(w) ==
    [r \in Records |-> IF rows[r].owner = w THEN [rows[r] EXCEPT !.owner = "deleted"] ELSE rows[r]]
RowsAfter(b, c, w) ==
    LET r == Target(b, c)  call == b.call[c]
    IN  CASE call.op = "create"  -> [rows EXCEPT ![r].owner = w]
          [] call.op = "entry"   -> [rows EXCEPT ![r].notes["day1"] = MaxSaves + 1]
          [] call.op = "photo"   -> [rows EXCEPT ![r].photos = @ + 1]
          [] call.op = "place"   -> [rows EXCEPT ![r].place = TRUE]
          [] call.op = "write"   -> [rows EXCEPT ![r].notes[call.day] = call.save]
          [] call.op = "cleanup" -> [rows EXCEPT ![r].owner = "deleted"]
          [] call.op \in {"clear", "withdraw"} -> RowsOfNobody(w)
          [] OTHER -> rows
SessionsAfter(b, c, w) ==
    IF b.call[c].op # "withdraw" THEN session
    ELSE [s \in Sessions |-> IF session[s].user = w THEN [session[s] EXCEPT !.alive = FALSE]
                             ELSE session[s]]
\* The tab, with a note of the record the server has made for its page.
Noted(b, c) == IF b.call[c].op = "create" THEN [b EXCEPT !.page.made = NewRecord] ELSE b

----------------------------------------------------------------------------
(* A tab.                                                                   *)

\* Continuations of settled promises run before anything else does.
Quiet(t) == \A c \in Slots : tab[t].call[c].pc # "refused"

Mounted ==
    [status |-> "loading", shown |-> None, access |-> None, refresh |-> NoRefresh,
     call |-> [c \in Slots |->
                  IF c = "profile" THEN [NoCall EXCEPT !.pc = "sent", !.op = "profile"] ELSE NoCall],
     page |-> NoPage, slips |-> {}, out |-> FALSE]

\* A page that goes away loses the answer its refresh has been given.
LostBy(b) == IF b.refresh.pc = "rotated" THEN {b.refresh.cookie[1]} ELSE {}

\* The tab is opened or reloaded; its promises are gone.
Opened(t) ==
    /\ Quiet(t)
    /\ tab' = [tab EXCEPT ![t] = Mounted]
    /\ raced' = raced \cup LostBy(tab[t])
    /\ UNCHANGED <<session, expired, rows, cookie, reused>>

\* The user leaves for Kakao and comes back as u: KakaoCallbackPage posts the
\* code while the provider loads the profile.
LoginReturns(t, u) ==
    /\ Quiet(t)
    /\ AtLogin(tab[t])
    /\ tab' = [tab EXCEPT ![t] =
                  [Mounted EXCEPT !.call["login"] =
                      [NoCall EXCEPT !.pc = "sent", !.op = "login", !.user = u]]]
    /\ raced' = raced \cup LostBy(tab[t])
    /\ UNCHANGED <<session, expired, rows, cookie, reused>>

LoginServed(t, s) ==
    /\ Quiet(t)
    /\ tab[t].call["login"].pc = "sent"
    /\ session[s].user = None
    /\ session' = [session EXCEPT ![s] = [user |-> tab[t].call["login"].user, gen |-> 1, alive |-> TRUE]]
    /\ tab' = [tab EXCEPT ![t].call["login"] = [@ EXCEPT !.pc = "served", !.token = <<s, 1>>]]
    /\ UNCHANGED <<expired, rows, cookie, reused, raced>>

\* A tab whose cookie another tab has replaced.
Beside(b) == IF b.status = "closed" THEN b ELSE [b EXCEPT !.slips = @ \cup {"login"}]

\* completeLogin.  The cookie is everybody's: other tabs will refresh with it.
LoginArrives(t) ==
    LET call == tab[t].call["login"]
        own(b) == [b EXCEPT !.call["login"] = NoCall, !.access = call.token, !.shown = call.user,
                            !.status = "authenticated", !.out = FALSE,
                            !.slips = IF b.call["profile"].pc = "idle" THEN @ ELSE @ \cup {"mount"}]
    IN  /\ Quiet(t)
        /\ call.pc = "served"
        /\ cookie' = call.token
        /\ tab' = [x \in Tabs |-> IF x = t THEN own(tab[x]) ELSE Beside(tab[x])]
        /\ UNCHANGED <<session, expired, rows, reused, raced>>

\* The settings: the session, all records or the account are given up.
ExitAsked(t, op) ==
    /\ Quiet(t)
    /\ SignedIn(tab[t])
    /\ tab[t].call["exit"].pc = "idle"
    /\ op \in {"logout", "withdraw", "clear"}
    /\ tab' = [tab EXCEPT ![t].call["exit"] = [Sent(tab[t], op) EXCEPT !.cookie = cookie]]
    /\ UNCHANGED <<session, expired, rows, cookie, reused, raced>>

\* logoutWeb: the session of the cookie ends if it is the caller's.
LogoutServed(t) ==
    LET call == tab[t].call["exit"]
        s == call.cookie[1]
    IN  /\ Quiet(t)
        /\ call.pc = "sent" /\ call.op = "logout" /\ Accepts(call.token)
        /\ session' = IF call.cookie # None /\ session[s].user = UserOf(call.token)
                      THEN [session EXCEPT ![s].alive = FALSE] ELSE session
        /\ tab' = [tab EXCEPT ![t].call["exit"].pc = "served"]
        /\ UNCHANGED <<expired, rows, cookie, reused, raced>>

LogoutArrives(t) ==
    /\ Quiet(t)
    /\ tab[t].call["exit"].pc = "served"
    /\ cookie' = None
    /\ tab' = [tab EXCEPT ![t] =
                  [Settled(tab[t], "exit", TRUE, None) EXCEPT
                      !.out = tab[t].call["exit"].cookie # None]]
    /\ UNCHANGED <<session, expired, rows, reused, raced>>

SubmitAsked(t, note, place) ==
    LET b == [tab[t] EXCEPT !.page = [NoPage EXCEPT !.user = tab[t].shown, !.note = note,
                                                    !.place = place, !.left = Files]]
    IN  /\ Quiet(t)
        /\ SignedIn(tab[t]) /\ tab[t].page.step = "idle"
        /\ tab' = [tab EXCEPT ![t] = Step(b, "create")]
        /\ UNCHANGED <<session, expired, rows, cookie, reused, raced>>

\* preparePhoto: the browser draws the photo anew.
PhotoPrepared(t) ==
    /\ Quiet(t)
    /\ tab[t].page.step = "prepare"
    /\ \/ tab' = [tab EXCEPT ![t] = Step(tab[t], "photo")]
       \/ tab' = [tab EXCEPT ![t] = SubmitFailed(tab[t])]
    /\ UNCHANGED <<session, expired, rows, cookie, reused, raced>>

\* The edit page is saved.  What is in flight of a save that failed stays so.
SaveAsked(t, r) ==
    LET b == tab[t]
        left == {d \in Days : b.call[d].pc # "idle"}
        old == IF left = {} THEN b.call["old"] ELSE b.call[CHOOSE d \in left : TRUE]
        c == [b EXCEPT
                !.page = [NoPage EXCEPT !.user = b.shown, !.rec = r, !.save = b.page.save + 1,
                                        !.alone = old.pc = "idle"],
                !.call = [x \in Slots |-> IF x \in Days THEN NoCall
                                          ELSE IF x = "old" THEN old ELSE b.call[x]]]
    IN  /\ Quiet(t)
        /\ SignedIn(b) /\ b.page.step = "idle" /\ b.page.save < MaxSaves
        /\ left = {} \/ b.call["old"].pc = "idle"
        /\ b.page.rec \in {None, r} /\ b.page.made = None
        /\ rows[r].owner = b.shown
        /\ tab' = [tab EXCEPT ![t] = Step(c, "update")]
        /\ UNCHANGED <<session, expired, rows, cookie, reused, raced>>

Expires(t) ==
    /\ Quiet(t)
    /\ tab[t].access \notin {None} \cup expired
    /\ expired' = expired \cup {tab[t].access}
    /\ UNCHANGED <<session, rows, cookie, tab, reused, raced>>

----------------------------------------------------------------------------
(* Calls: apiFetch.                                                         *)

\* What a call of t writes, the page of another tab has not written.
TabsAfter(t, c, b) ==
    LET call == tab[t].call[c]
    IN  [x \in Tabs |->
            IF x = t THEN b
            ELSE IF call.op \in {"entry", "write"} /\ tab[x].page.rec = call.rec
                 THEN [tab[x] EXCEPT !.page.alone = FALSE]
            ELSE tab[x]]

CallServed(t, c) ==
    LET b == tab[t]  w == UserOf(b.call[c].token)
    IN  /\ Quiet(t)
        /\ b.call[c].pc = "sent" /\ b.call[c].op \notin {"login", "logout"}
        /\ Accepts(b.call[c].token) /\ Granted(b, c, w)
        /\ rows' = RowsAfter(b, c, w)
        /\ session' = SessionsAfter(b, c, w)
        /\ \/ LET n == Noted(b, c)
                  m == IF b.call[c].op = "create" THEN [n EXCEPT !.page.rec = NewRecord] ELSE n
              IN  tab' = TabsAfter(t, c, Settled(m, c, TRUE, w))
           \/ tab' = TabsAfter(t, c, Settled(Noted(b, c), c, FALSE, None))     \* the answer is lost
        /\ UNCHANGED <<expired, cookie, reused, raced>>

\* No answer, or any error but 401.
CallFails(t, c) ==
    /\ Quiet(t)
    /\ tab[t].call[c].pc \in {"sent", "served"}
    /\ tab' = [tab EXCEPT ![t] = Settled(tab[t], c, FALSE, None)]
    /\ UNCHANGED <<session, expired, rows, cookie, reused, raced>>

RefreshingElsewhere(t, s) ==
    \E x \in Tabs \ {t} : tab[x].refresh.cookie # None /\ tab[x].refresh.cookie[1] = s

\* Mutant: refreshPromise is made anew by every caller.
RefreshStartedAnew(b) == [b EXCEPT !.refresh = [pc |-> "sent", cookie |-> cookie]]

\* refreshAccessToken: one refresh for all calls of the tab.
RefreshStarted(b) ==
    IF b.refresh.pc # "none" THEN b ELSE [b EXCEPT !.refresh = [pc |-> "sent", cookie |-> cookie]]

\* 401: the call waits for a refresh, but not twice.
CallRefused(t, c) ==
    LET b == tab[t]
    IN  /\ Quiet(t)
        /\ b.call[c].pc = "sent" /\ b.call[c].op # "login"
        /\ ~Accepts(b.call[c].token)
        /\ tab' = [tab EXCEPT ![t] = IF b.call[c].again THEN Settled(b, c, FALSE, None)
                                     ELSE RefreshStarted([b EXCEPT !.call[c].pc = "refresh"])]
        /\ raced' = IF ~b.call[c].again /\ cookie # None /\ RefreshingElsewhere(t, cookie[1])
                    THEN raced \cup {cookie[1]} ELSE raced
        /\ UNCHANGED <<session, expired, rows, cookie, reused>>

\* The 401 is handed on after a refresh that brought nothing.
CallSettles(t, c) ==
    /\ tab[t].call[c].pc = "refused"
    /\ tab' = [tab EXCEPT ![t] = Settled(tab[t], c, FALSE, None)]
    /\ UNCHANGED <<session, expired, rows, cookie, reused, raced>>

----------------------------------------------------------------------------
(* Refreshes: POST /auth/refresh/web.                                       *)

\* The newest token of a living session is exchanged for the next.
RefreshRotates(t) ==
    LET c == tab[t].refresh.cookie
    IN  /\ Quiet(t)
        /\ tab[t].refresh.pc = "sent"
        /\ c # None /\ session[c[1]].alive /\ session[c[1]].gen = c[2] /\ c[2] < MaxGen
        /\ session' = [session EXCEPT ![c[1]].gen = @ + 1]
        /\ tab' = [tab EXCEPT ![t].refresh = [pc |-> "rotated", cookie |-> <<c[1], c[2] + 1>>]]
        /\ UNCHANGED <<expired, rows, cookie, reused, raced>>

\* 401: no cookie, a dead session, or a spent token, which ends its session.
RefreshRefused(t) ==
    LET c == tab[t].refresh.cookie
        spent == c # None /\ session[c[1]].alive /\ c[2] < session[c[1]].gen
    IN  /\ Quiet(t)
        /\ tab[t].refresh.pc = "sent"
        /\ c # None => ~session[c[1]].alive \/ spent
        /\ session' = IF spent THEN [session EXCEPT ![c[1]].alive = FALSE] ELSE session
        /\ reused' = IF spent THEN reused \cup {c[1]} ELSE reused
        /\ tab' = [tab EXCEPT ![t].refresh.pc = "refused"]
        /\ UNCHANGED <<expired, rows, cookie, raced>>

\* The answer takes the place of a cookie that a login brought meanwhile, also
\* for the tab of that login.
RefreshArrives(t) ==
    LET r == tab[t].refresh
        token == IF r.pc = "rotated" THEN r.cookie ELSE None
        late == /\ token # None /\ tab[t].slips # {}
                /\ cookie # None => cookie[1] # token[1]
    IN  /\ Quiet(t)
        /\ r.pc \in {"rotated", "refused"}
        /\ cookie' = token
        /\ tab' = [x \in Tabs |-> IF x = t THEN Resumed(tab[t], token)
                                  ELSE IF late THEN Beside(tab[x]) ELSE tab[x]]
        /\ UNCHANGED <<session, expired, rows, reused, raced>>

\* No answer, or an error of the server: the cookie stays as it is.
RefreshFails(t) ==
    /\ Quiet(t)
    /\ tab[t].refresh.pc # "none"
    /\ tab' = [tab EXCEPT ![t] = Resumed(tab[t], None)]
    /\ raced' = raced \cup LostBy(tab[t])
    /\ UNCHANGED <<session, expired, rows, cookie, reused>>

----------------------------------------------------------------------------
Closed == [Mounted EXCEPT !.status = "closed", !.call["profile"] = NoCall]

\* A browser with the cookie of an earlier visit or without, and a server with
\* some records of that user.
Init ==
    /\ \E s \in Sessions, u \in Users, n \in {0, 1}, old \in SUBSET Records :
          /\ session = [x \in Sessions |->
                           IF x = s THEN [user |-> u, gen |-> 1, alive |-> TRUE]
                           ELSE [user |-> None, gen |-> 0, alive |-> FALSE]]
          /\ cookie = IF n = 1 THEN <<s, 1>> ELSE None
          /\ rows = [x \in Records |-> IF x \in old THEN [NewRow EXCEPT !.owner = u] ELSE NewRow]
    /\ expired = {} /\ reused = {} /\ raced = {}
    /\ tab = [t \in Tabs |-> Closed]

Next ==
    \E t \in Tabs :
       \/ Opened(t) \/ LogoutServed(t) \/ LogoutArrives(t) \/ LoginArrives(t)
       \/ PhotoPrepared(t) \/ Expires(t)
       \/ RefreshRotates(t) \/ RefreshRefused(t) \/ RefreshArrives(t) \/ RefreshFails(t)
       \/ \E u \in Users : LoginReturns(t, u)
       \/ \E s \in Sessions : LoginServed(t, s)
       \/ \E op \in Ops : ExitAsked(t, op)
       \/ \E note, place \in BOOLEAN : SubmitAsked(t, note, place)
       \/ \E r \in Records : SaveAsked(t, r)
       \/ \E c \in Slots : CallServed(t, c) \/ CallFails(t, c) \/ CallRefused(t, c) \/ CallSettles(t, c)

Spec == Init /\ [][Next]_vars

----------------------------------------------------------------------------
(* Properties.                                                              *)

TypeOK ==
    /\ session \in [Sessions -> [user : Users \cup {None}, gen : 0 .. MaxGen, alive : BOOLEAN]]
    /\ expired \subseteq Tokens
    /\ rows \in [Records -> Row]
    /\ cookie \in Tokens
    /\ tab \in [Tabs -> Tab]
    /\ reused \subseteq Sessions /\ raced \subseteq Sessions

AtRest(b) == b.refresh.pc = "none" /\ \A c \in Slots : b.call[c].pc = "idle"

\* A tab without calls in flight shows the account of the token it holds, and
\* after a logout that the server has answered it holds no token that is any
\* good, also if a refresh or a page was still under way (AuthSessionProvider).
\* Exempt are a tab whose cookie another tab has replaced since, by a login or
\* by a refresh begun before one: its next refresh brings that other account;
\* and a tab whose login came back before the profile load of its mount had
\* failed.
TabsAgree ==
    /\ TypeOK
    /\ \A t \in Tabs :
          LET b == tab[t]
          IN  b.status # "closed" /\ AtRest(b) /\ b.slips = {} =>
                 /\ b.status # "loading"
                 /\ b.status = "authenticated" => b.access # None /\ UserOf(b.access) = b.shown
                 /\ b.out => ~Accepts(b.access)

\* No promise is left alone: a call that waits has a refresh to wait for, a tab
\* that loads is loading something, a page that saves has a call under way
\* (refreshAccessToken, loadProfile, submit, save).
NobodyForgotten ==
    \A t \in Tabs :
        LET b == tab[t]
        IN  /\ \A c \in Slots : b.call[c].pc = "refresh" => b.refresh.pc # "none"
            /\ b.status = "loading" => b.call["profile"].pc # "idle"
            /\ b.page.step \in PageOps => b.call["page"].pc # "idle"
            /\ b.page.step = "days" => \E d \in Days : b.call[d].pc # "idle"

\* The server takes a refresh for a reuse, and ends the session of every tab,
\* only after the answer of an earlier refresh was lost or while two tabs were
\* refreshing: the calls of one tab never present a token twice (http.ts).
ReuseIsARace == reused \subseteq raced

\* What the page of a record reports is so.  A record that is shown as saved
\* has its note, all photos and, unless the page says otherwise, its place, and
\* belongs to the user who made it (the slips above exempt); after an error
\* nothing is left but a record whose creation was never answered, or the page
\* warns (submit).  A saved edit has stored all its notes, unless a request of
\* an earlier save that had failed was still under way, or another tab wrote to
\* the record (save).
PagesTellTheTruth ==
    \A t \in Tabs :
        LET p == tab[t].page
            Exists(r) == rows[r].owner # "deleted"
        IN  /\ p.outcome = "error" /\ p.made # None => p.rec = None \/ ~Exists(p.made)
            /\ p.outcome = "shown" /\ Exists(p.rec) =>
                  /\ rows[p.rec].owner = p.user \/ tab[t].slips # {}
                  /\ p.made # None =>
                        /\ rows[p.rec].photos = Files
                        /\ p.note => rows[p.rec].notes["day1"] > 0
                        /\ p.place /\ p.synced => rows[p.rec].place
                  /\ p.made = None /\ p.alone => \A d \in Days : rows[p.rec].notes[d] = p.save

----------------------------------------------------------------------------
(* The inductive invariant behind the properties above.                     *)

OpsOf == [c \in Slots |-> CASE c = "profile" -> {"profile"}
                            [] c = "login"   -> {"login"}
                            [] c = "exit"    -> {"logout", "withdraw", "clear"}
                            [] c = "page"    -> PageOps \ {"write"}
                            [] OTHER         -> {"write"}]

\* A slot is empty or holds a call of its kind; only answers that touch the
\* cookie are under way; who waits for a refresh has one, and a refresh has
\* somebody who waits.
CallOK(b, c) ==
    LET k == b.call[c]
    IN  /\ k.pc = "idle" => k = NoCall
        /\ k.pc # "idle" => k.op \in OpsOf[c]
        /\ k.pc = "served" => k.op \in {"login", "logout"}
        /\ c = "login" => k.pc \in {"idle", "sent", "served"} /\ (k.pc # "idle" => k.user # None)
        /\ k.pc = "refresh" => b.refresh.pc # "none"
        /\ k.pc # "idle" /\ k.op = "write" => k.rec # None /\ k.save > 0
CallsOK(b) ==
    /\ \A c \in Slots : CallOK(b, c)
    /\ b.refresh.pc = "none" => b.refresh = NoRefresh
    /\ b.refresh.pc = "rotated" => b.refresh.cookie # None
    /\ b.refresh.pc # "none" => \E c \in Slots : b.call[c].pc = "refresh"

\* While the profile is loaded nothing else goes on but a login, and while a
\* login is pending there is no page.
MountOK(b) ==
    /\ b.status = "closed" => b = Closed
    /\ b.status = "loading" => b.call["profile"].pc # "idle"
    /\ b.call["profile"].pc # "idle" /\ "mount" \notin b.slips =>
          /\ b.status = "loading" /\ b.page = NoPage
          /\ \A c \in Slots \ {"profile", "login"} : b.call[c].pc = "idle"
          /\ b.call["profile"].pc = "sent" => b.access = b.call["profile"].token
    /\ b.call["login"].pc # "idle" =>
          b.page = NoPage /\ \A c \in Slots \ {"profile", "login"} : b.call[c].pc = "idle"

\* The page of a record, by its step.
PageOK(p) ==
    /\ p.step # "write"
    /\ p.outcome # None => p.step = "idle"
    /\ p.outcome = "shown" => p.rec # None
    /\ p.step \in {"update", "days"} => p.save > 0
    /\ p.save > 0 => p.rec # None /\ p.made = None /\ p.step \in {"idle", "update", "days"}
    /\ p.save = 0 /\ p.rec # None => p.made = p.rec
    /\ p.step \in {"entry", "prepare", "photo", "place", "get", "cleanup"} => p.rec # None
    /\ p.step = "create" => p.made = None
    /\ p.made # None /\ p.rec = None => p.step = "idle"
    /\ p.step \in {"create", "entry", "prepare", "photo"} => p.left > 0
    /\ p.step = "create" => p.left = Files
    /\ p.step = "entry" => p.note
    /\ p.step \in {"place", "get"} => p.left = 0

\* The calls of a page are those of its step.
PageCallsOK(b) ==
    LET p == b.page
    IN  /\ b.call["page"].pc # "idle" <=> p.step \in PageOps
        /\ b.call["page"].pc # "idle" => b.call["page"].op = p.step /\ b.call["page"].rec = p.rec
        /\ p.step = "days" =>
              /\ \E d \in Days : b.call[d].pc # "idle"
              /\ \A d \in Days : LET k == b.call[d]
                                 IN  k.pc # "idle" => k.rec = p.rec /\ k.save = p.save /\ k.day = d
        /\ p.step # "days" => \E d \in Days : b.call[d].pc = "idle"
        /\ p.step = "update" \/ (p.save > 0 /\ p.outcome = "shown") =>
              \A d \in Days : b.call[d].pc = "idle"
        /\ p.save > 0 /\ p.alone => b.call["old"].pc = "idle"

TabOK(b) == CallsOK(b) /\ MountOK(b) /\ PageOK(b.page) /\ PageCallsOK(b)

\* The row of a page's record has what the page has stored so far.
Stored(row, p) ==
    /\ p.save = 0 =>
          /\ p.step \in {"entry", "prepare", "photo", "place", "get"} => row.photos = Files - p.left
          /\ p.step \in {"prepare", "photo", "place", "get"} /\ p.note => row.notes["day1"] > 0
          /\ p.step = "get" /\ p.place /\ p.synced => row.place
          /\ p.outcome = "shown" =>
                /\ row.photos = Files
                /\ p.note => row.notes["day1"] > 0
                /\ p.place /\ p.synced => row.place
    /\ p.save > 0 /\ p.alone /\ p.outcome = "shown" => \A d \in Days : row.notes[d] = p.save
RowsOK ==
    /\ \A r \in Records : rows[r].owner = "new" => rows[r] = NewRow
    /\ \A t \in Tabs :
          LET p == tab[t].page
          IN  /\ p.made # None =>
                    rows[p.made].owner # "new" /\ \A x \in Tabs \ {t} : tab[x].page.made # p.made
              /\ p.outcome = "error" /\ p.made # None => p.rec = None \/ rows[p.made].owner = "deleted"
              /\ p.rec # None =>
                    /\ rows[p.rec].owner # "new"
                    /\ rows[p.rec].owner \in {p.user, "deleted"} \/ tab[t].slips # {}
                    /\ Stored(rows[p.rec], p)
                    /\ p.step = "days" /\ p.alone =>
                          \A d \in Days : tab[t].call[d].pc = "idle" => rows[p.rec].notes[d] = p.save

\* Tokens are of sessions that have begun.
Begun(token) == token # None => UserOf(token) # None
TokensOK ==
    /\ Begun(cookie)
    /\ \A s \in Sessions : session[s].user = None => ~session[s].alive
    /\ \A t \in Tabs :
          /\ Begun(tab[t].access) /\ Begun(tab[t].refresh.cookie)
          /\ \A c \in Slots : Begun(tab[t].call[c].token) /\ Begun(tab[t].call[c].cookie)

Of(token, s) == token # None /\ token[1] = s

\* Nobody knows the session of a login that has not arrived.
LoginsOK ==
    \A t \in Tabs :
        LET k == tab[t].call["login"]
        IN  k.pc = "served" =>
                /\ k.token # None /\ k.token[2] = 1
                /\ UserOf(k.token) = k.user /\ session[k.token[1]].gen = 1
                /\ ~Of(cookie, k.token[1])
                /\ \A x \in Tabs : /\ ~Of(tab[x].refresh.cookie, k.token[1])
                                   /\ x # t => ~Of(tab[x].call["login"].token, k.token[1])

\* Of a session that nobody raced for the newest token is in the browser or on
\* its way, and one tab at most refreshes it.
Newest(token) == session[token[1]].alive /\ token[1] \notin raced => token[2] = session[token[1]].gen
RefreshesOK ==
    /\ \A t \in Tabs : tab[t].refresh.pc \in {"sent", "rotated"} /\ tab[t].refresh.cookie # None =>
          Newest(tab[t].refresh.cookie)
    /\ \A t, x \in Tabs : \A s \in Sessions \ raced :
          t # x => ~Of(tab[t].refresh.cookie, s) \/ ~Of(tab[x].refresh.cookie, s)
    /\ cookie # None =>
          \/ Newest(cookie)
          \/ \E t \in Tabs : tab[t].refresh.pc = "rotated" /\ Of(tab[t].refresh.cookie, cookie[1])
    /\ reused \subseteq raced

\* The tabs beside which nobody has signed in are of one session, that of the
\* cookie: its user is whom they show and for whom their pages work, and a
\* logout has ended it.
Holds(b, s) ==
    \/ Of(b.access, s) \/ Of(b.refresh.cookie, s)
    \/ \E c \in Slots \ {"login"} : Of(b.call[c].token, s) \/ Of(b.call[c].cookie, s)
Held(s) == Of(cookie, s) \/ \E t \in Tabs : tab[t].slips = {} /\ Holds(tab[t], s)
OneSession == \A s, r \in Sessions : Held(s) /\ Held(r) => s = r
ShowsUser(b) == b.status = "authenticated" => b.access # None /\ UserOf(b.access) = b.shown
UserAgrees(b) ==
    \A s \in Sessions : Held(s) =>
        /\ b.page.step # "idle" => session[s].user = b.page.user
        /\ b.out => ~session[s].alive
LogoutOK(b) ==
    LET k == b.call["exit"]
    IN  k.pc = "served" /\ k.cookie # None => ~session[k.cookie[1]].alive
GroupOK ==
    /\ OneSession
    /\ \A t \in Tabs : tab[t].slips = {} =>
          ShowsUser(tab[t]) /\ UserAgrees(tab[t]) /\ LogoutOK(tab[t])

IInv ==
    /\ TypeOK
    /\ \A t \in Tabs : TabOK(tab[t])
    /\ RowsOK
    /\ TokensOK /\ LoginsOK /\ RefreshesOK
    /\ GroupOK

=============================================================================
