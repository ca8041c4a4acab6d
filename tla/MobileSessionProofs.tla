------------------------ MODULE MobileSessionProofs ------------------------
(***************************************************************************)
(* What holds of the app's session for every number of logins, tokens and  *)
(* pages.  The operators between two awaits come first, each with the      *)
(* fields it leaves alone, then one lemma per step of the device.          *)
(***************************************************************************)
EXTENDS MobileSession, TLAPS

\* A device that satisfies its invariant for the tokens g, having lost l.
Good(a, g, l) == a \in App /\ BaseOK(a, g, l) /\ CalmOK(a)

\* What running on between two awaits never does to the device.
Runs(a, b) ==
    /\ a.slips \subseteq b.slips
    /\ b.stored \in {a.stored, None}
    /\ b.refresh.pc = a.refresh.pc /\ b.refresh.token = a.refresh.token
    /\ b.login = a.login
    /\ a.logout.pc = "read" => b.logout = a.logout

\* The two values that are none of the logins.
LEMMA Others == None \notin Logins /\ "error" \notin Logins /\ "error" # None /\ None \notin Users
                /\ None \notin Tokens
  BY ConstantsAssumption

\* The parts of a token.
LEMMA TokenParts ==
  ASSUME NEW token \in Tokens
  PROVE  token[1] \in Logins /\ token[2] \in 1 .. MaxGen /\ token = <<token[1], token[2]>>
  BY DEF Tokens

\* A pair of a login and a number is a token.
LEMMA Pairs ==
  ASSUME NEW f \in Logins, NEW n \in 1 .. MaxGen
  PROVE  <<f, n>> \in Tokens /\ <<f, n>> # None /\ <<f, n>>[1] = f /\ <<f, n>>[2] = n
  BY Others DEF Tokens

-----------------------------------------------------------------------------
(* The device between two awaits.                                          *)

\* What clearSession leaves.
LEMMA ClearedFields ==
  ASSUME NEW a \in App, NEW b \in clearSession(a)
  PROVE  /\ b \in App
         /\ b.access = None /\ b.recent = None /\ b.user = None /\ b.status = "unauthenticated"
         /\ b.stored = None \/ (StoreFails /\ b.stored = a.stored)
         /\ b.refresh = [a.refresh EXCEPT !.fresh = FALSE]
         /\ b.restore = [a.restore EXCEPT !.fresh = FALSE]
         /\ b.login = a.login /\ b.logout = a.logout /\ b.req = a.req
         /\ a.slips \subseteq b.slips /\ b.slips \subseteq a.slips \cup {"cleared"}
         /\ a.login.pc = "write" => b.slips # {}
  <1>1. PICK ok \in Outcomes :
           b = [Bumped(Slipped(a, "cleared", a.login.pc = "write"))
                  EXCEPT !.user = None, !.status = "unauthenticated",
                         !.stored = IF ok THEN None ELSE a.stored]
    BY DEF clearSession
  <1> DEFINE c == Slipped(a, "cleared", a.login.pc = "write")
             d == Bumped(c)
  <1>2. /\ c \in App /\ c.login = a.login /\ c.logout = a.logout /\ c.req = a.req /\ c.stored = a.stored
        /\ c.refresh = a.refresh /\ c.restore = a.restore
        /\ a.slips \subseteq c.slips /\ c.slips \subseteq a.slips \cup {"cleared"}
        /\ a.login.pc = "write" => c.slips # {}
    <2>1. CASE a.login.pc = "write"
      <3>1. c = [a EXCEPT !.slips = @ \cup {"cleared"}]
        BY <2>1 DEF Slipped
      <3>2. a.slips \cup {"cleared"} \in SUBSET Slips
        BY DEF App, Slips
      <3> HIDE DEF c
      <3>3. QED
        BY <3>1, <3>2 DEF App
    <2>2. CASE a.login.pc # "write"
      <3>1. c = a
        BY <2>2 DEF Slipped
      <3> HIDE DEF c
      <3>2. QED
        BY <2>2, <3>1
    <2>3. QED
      BY <2>1, <2>2
  <1> HIDE DEF c
  <1>3. /\ d \in App /\ d.access = None /\ d.recent = None
        /\ d.refresh = [c.refresh EXCEPT !.fresh = FALSE] /\ d.restore = [c.restore EXCEPT !.fresh = FALSE]
        /\ d.login = c.login /\ d.logout = c.logout /\ d.req = c.req /\ d.slips = c.slips /\ d.stored = c.stored
    <2> DEFINE r == [c.refresh EXCEPT !.fresh = FALSE]  s == [c.restore EXCEPT !.fresh = FALSE]
    <2>1. r \in Refresh /\ s \in Restore
      BY <1>2 DEF App, Refresh, Restore
    <2>2. d = [c EXCEPT !.access = None, !.recent = None, !.refresh = r, !.restore = s]
      BY <1>2 DEF Bumped, App
    <2> HIDE DEF d, r, s
    <2>3. /\ d \in App /\ d.access = None /\ d.recent = None /\ d.refresh = r /\ d.restore = s
          /\ d.login = c.login /\ d.logout = c.logout /\ d.req = c.req /\ d.slips = c.slips /\ d.stored = c.stored
      BY <1>2, <2>1, <2>2 DEF App
    <2>4. QED
      BY <2>3 DEF r, s
  <1> HIDE DEF d
  <1>4. b = [d EXCEPT !.user = None, !.status = "unauthenticated", !.stored = IF ok THEN None ELSE a.stored]
    BY <1>1 DEF c, d
  <1>5. ok \/ StoreFails
    BY <1>1 DEF Outcomes
  <1>6. /\ b \in App /\ b.user = None /\ b.status = "unauthenticated"
        /\ b.stored = (IF ok THEN None ELSE a.stored)
        /\ b.access = d.access /\ b.recent = d.recent /\ b.refresh = d.refresh /\ b.restore = d.restore
        /\ b.login = d.login /\ b.logout = d.logout /\ b.req = d.req /\ b.slips = d.slips
    <2> DEFINE v == IF ok THEN None ELSE a.stored
    <2>1. v \in Tokens \cup {None}
      BY DEF App
    <2>2. b = [d EXCEPT !.user = None, !.status = "unauthenticated", !.stored = v]
      BY <1>4
    <2> HIDE DEF v
    <2>3. /\ b \in App /\ b.user = None /\ b.status = "unauthenticated" /\ b.stored = v
          /\ b.access = d.access /\ b.recent = d.recent /\ b.refresh = d.refresh /\ b.restore = d.restore
          /\ b.login = d.login /\ b.logout = d.logout /\ b.req = d.req /\ b.slips = d.slips
      BY <1>3, <2>1, <2>2 DEF App
    <2>4. QED
      BY <2>3 DEF v
  <1>7. QED
    BY <1>2, <1>3, <1>5, <1>6

\* A cleared session is all of a piece, whatever it was before.
LEMMA Cleared ==
  ASSUME NEW a \in App, NEW b \in clearSession(a), NEW g, NEW l, BaseOK(a, g, l)
  PROVE  Good(b, g, l) /\ Runs(a, b)
  <1>1. /\ b \in App
        /\ b.access = None /\ b.recent = None /\ b.user = None /\ b.status = "unauthenticated"
        /\ b.stored = None \/ (StoreFails /\ b.stored = a.stored)
        /\ b.refresh = [a.refresh EXCEPT !.fresh = FALSE]
        /\ b.restore = [a.restore EXCEPT !.fresh = FALSE]
        /\ b.login = a.login /\ b.logout = a.logout /\ b.req = a.req
        /\ a.slips \subseteq b.slips
        /\ a.login.pc = "write" => b.slips # {}
    BY ClearedFields
  <1>2. /\ b.refresh.pc = a.refresh.pc /\ b.refresh.token = a.refresh.token /\ ~b.refresh.fresh
        /\ b.refresh.saved = a.refresh.saved
        /\ b.restore.pc = a.restore.pc /\ ~b.restore.fresh
    BY <1>1 DEF App, Refresh, Restore
  <1>3. CallsOK(b) /\ TokensOK(b, g, l) /\ RefreshOK(b) /\ LoginOK(b, g)
    <2>1. CallsOK(b)
      BY <1>1, <1>2 DEF BaseOK, CallsOK
    <2>2. TokensOK(b, g, l)
      BY <1>1, <1>2 DEF BaseOK, TokensOK, TokenOK
    <2>3. RefreshOK(b)
      BY <1>1, <1>2 DEF BaseOK, RefreshOK
    <2>4. LoginOK(b, g)
      BY <1>1, <1>2 DEF BaseOK, LoginOK, Of
    <2>5. QED
      BY <2>1, <2>2, <2>3, <2>4
  <1>4. CalmOK(b)
    <2> SUFFICES ASSUME b.slips = {}, ~StoreFails
                 PROVE  HeldOK(b) /\ SignedOutOK(b) /\ SignedInOK(b) /\ RestoreOK(b)
      BY DEF CalmOK
    <2>1. b.stored = None /\ b.login.pc # "write"
      BY <1>1
    <2>2. HeldOK(b)
      BY <1>1, <1>2, <2>1 DEF HeldOK
    <2>3. SignedOutOK(b)
      BY <1>1, <1>2, <2>1 DEF SignedOutOK
    <2>4. SignedInOK(b)
      BY <1>1 DEF SignedInOK
    <2>5. RestoreOK(b)
      BY <1>1, <1>2 DEF RestoreOK
    <2>6. QED
      BY <2>2, <2>3, <2>4, <2>5
  <1>5. Runs(a, b)
    BY <1>1, <1>2 DEF Runs
  <1>6. QED
    BY <1>1, <1>3, <1>4, <1>5 DEF Good, BaseOK

\* A restore that gives up keeps what is stored.
LEMMA UnavailableFields ==
  ASSUME NEW a \in App, NEW b, b = Unavailable(a)
  PROVE  /\ b \in App
         /\ b.restore.pc = "idle" /\ ~b.restore.fresh
         /\ a.restore.fresh => b.access = None /\ b.user = None /\ b.status = "unavailable"
         /\ ~a.restore.fresh => b.access = a.access /\ b.user = a.user /\ b.status = a.status
         /\ b.stored = a.stored /\ b.recent = a.recent /\ b.refresh = a.refresh /\ b.login = a.login
         /\ b.logout = a.logout /\ b.req = a.req /\ b.slips = a.slips
  <1> DEFINE s == [pc |-> "idle", fresh |-> FALSE]
  <1>1. s \in Restore /\ s.pc = "idle" /\ ~s.fresh
    BY DEF Restore
  <1>2. CASE a.restore.fresh
    <2>1. b = [a EXCEPT !.restore = s, !.access = None, !.user = None, !.status = "unavailable"]
      BY <1>2 DEF Unavailable
    <2> HIDE DEF s
    <2>2. QED
      BY <1>1, <1>2, <2>1 DEF App
  <1>3. CASE ~a.restore.fresh
    <2>1. b = [a EXCEPT !.restore = s]
      BY <1>3 DEF Unavailable
    <2> HIDE DEF s
    <2>2. QED
      BY <1>1, <1>3, <2>1 DEF App
  <1>4. QED
    BY <1>2, <1>3

\* A restore that gives up shows the session as unavailable and drops the access
\* token.
LEMMA GaveUp ==
  ASSUME NEW a, NEW b, NEW g, NEW l, Good(a, g, l), b = Unavailable(a), a.req["me"].pc = "idle"
  PROVE  Good(b, g, l) /\ Runs(a, b)
  <1>1. /\ b \in App
        /\ b.restore.pc = "idle" /\ ~b.restore.fresh
        /\ a.restore.fresh => b.access = None /\ b.user = None /\ b.status = "unavailable"
        /\ ~a.restore.fresh => b.access = a.access /\ b.user = a.user /\ b.status = a.status
        /\ b.stored = a.stored /\ b.recent = a.recent /\ b.refresh = a.refresh /\ b.login = a.login
        /\ b.logout = a.logout /\ b.req = a.req /\ b.slips = a.slips
    BY UnavailableFields DEF Good
  <1>2. BaseOK(b, g, l)
    <2>1. CallsOK(b)
      BY <1>1 DEF Good, BaseOK, CallsOK
    <2>2. TokensOK(b, g, l) /\ RefreshOK(b)
      BY <1>1 DEF Good, BaseOK, TokensOK, RefreshOK
    <2>3. LoginOK(b, g)
      BY <1>1 DEF Good, BaseOK, LoginOK
    <2>4. QED
      BY <2>1, <2>2, <2>3 DEF BaseOK
  <1>3. CalmOK(b)
    <2> SUFFICES ASSUME b.slips = {}, ~StoreFails
                 PROVE  HeldOK(b) /\ SignedOutOK(b) /\ SignedInOK(b) /\ RestoreOK(b)
      BY DEF CalmOK
    <2>1. HeldOK(a) /\ SignedOutOK(a) /\ SignedInOK(a) /\ RestoreOK(a)
      BY <1>1 DEF Good, CalmOK
    <2>2. HeldOK(b)
      BY <1>1, <2>1 DEF HeldOK, SignedOutOK
    <2>3. SignedOutOK(b)
      BY <1>1, <2>1 DEF SignedOutOK
    <2>4. SignedInOK(b)
      BY <1>1, <2>1 DEF SignedInOK
    <2>5. RestoreOK(b)
      BY <1>1, <2>1 DEF RestoreOK
    <2>6. QED
      BY <2>2, <2>3, <2>4, <2>5
  <1>4. Runs(a, b)
    BY <1>1 DEF Runs
  <1>5. QED
    BY <1>1, <1>2, <1>3, <1>4 DEF Good

\* Some requests are over.
Ended(a, b, R) ==
    /\ b.req \in [Requests -> Request]
    /\ \A r \in R : b.req[r] = NoRequest
    /\ \A r \in Requests \ R : b.req[r] = a.req[r]
    /\ b.stored = a.stored /\ b.access = a.access /\ b.recent = a.recent /\ b.status = a.status
    /\ b.user = a.user /\ b.refresh = a.refresh /\ b.restore = a.restore /\ b.login = a.login
    /\ b.logout = a.logout /\ b.slips = a.slips

\* What is left of a request that is over.
LEMMA NoRequestIdle == NoRequest \in Request /\ NoRequest.pc = "idle" /\ NoRequest.as = None
  BY DEF NoRequest, Request

\* The end of a request does not touch the session.
LEMMA EndedGood ==
  ASSUME NEW a, NEW b \in App, NEW R \in SUBSET Requests, NEW g, NEW l, Good(a, g, l), Ended(a, b, R)
  PROVE  Good(b, g, l) /\ Runs(a, b)
  <1>1. BaseOK(b, g, l)
    <2>1. CallsOK(b)
      <3>1. "me" \in Requests /\ "logout" \in Requests
        BY DEF Requests
      <3>2. QED
        BY <3>1, NoRequestIdle DEF Good, BaseOK, CallsOK, Ended
    <2>2. TokensOK(b, g, l) /\ RefreshOK(b)
      BY DEF Good, BaseOK, TokensOK, RefreshOK, Ended
    <2>3. LoginOK(b, g)
      BY DEF Good, BaseOK, LoginOK, Ended
    <2>4. QED
      BY <2>1, <2>2, <2>3 DEF BaseOK
  <1>2. CalmOK(b)
    <2> SUFFICES ASSUME b.slips = {}, ~StoreFails
                 PROVE  HeldOK(b) /\ SignedOutOK(b) /\ SignedInOK(b) /\ RestoreOK(b)
      BY DEF CalmOK
    <2>1. HeldOK(a) /\ SignedOutOK(a) /\ SignedInOK(a) /\ RestoreOK(a)
      BY DEF Good, CalmOK, Ended
    <2>2. HeldOK(b) /\ SignedOutOK(b) /\ SignedInOK(b)
      BY <2>1 DEF HeldOK, SignedOutOK, SignedInOK, Ended
    <2>3. RestoreOK(b)
      <3>1. "me" \in Requests
        BY DEF Requests
      <3>2. CASE "me" \in R
        BY <2>1, <3>1, <3>2, NoRequestIdle DEF RestoreOK, Ended
      <3>3. CASE "me" \notin R
        BY <2>1, <3>1, <3>3 DEF RestoreOK, Ended
      <3>4. QED
        BY <3>2, <3>3
    <2>4. QED
      BY <2>2, <2>3
  <1>3. Runs(a, b)
    BY DEF Runs, Ended
  <1>4. QED
    BY <1>1, <1>2, <1>3 DEF Good

\* Running on is transitive.
LEMMA RunsOn ==
  ASSUME NEW a, NEW b, NEW c, Runs(a, b), Runs(b, c)
  PROVE  Runs(a, c)
  BY DEF Runs

\* A restore that has not been overtaken is where it was.
Restores(a, b) == b.restore.fresh => a.restore.fresh /\ b.restore.pc = a.restore.pc

\* Requests that reject leave the device all of a piece, a logout among them
\* with a cleared session.
LEMMA Rejects ==
  ASSUME NEW a, NEW R \in SUBSET Requests, NEW b \in Rejected(a, R), NEW g, NEW l, Good(a, g, l),
         \A r \in R : a.req[r].pc # "idle"
  PROVE  Good(b, g, l) /\ Runs(a, b) /\ Restores(a, b)
  <1> DEFINE d == [a EXCEPT !.req = [r \in Requests |-> IF r \in R THEN NoRequest ELSE a.req[r]]]
             c == IF "me" \in R THEN Unavailable(d) ELSE d
             e == [c EXCEPT !.logout = [pc |-> "idle", token |-> None]]
  <1>1. d \in App /\ Ended(a, d, R)
    <2> DEFINE q == [r \in Requests |-> IF r \in R THEN NoRequest ELSE a.req[r]]
    <2>1. q \in [Requests -> Request]
      BY NoRequestIdle DEF Good, App
    <2>2. (\A r \in R : q[r] = NoRequest) /\ \A r \in Requests \ R : q[r] = a.req[r]
      OBVIOUS
    <2>3. d = [a EXCEPT !.req = q]
      OBVIOUS
    <2> HIDE DEF q, d
    <2>4. d \in App /\ d.req = q
          /\ d.stored = a.stored /\ d.access = a.access /\ d.recent = a.recent /\ d.status = a.status
          /\ d.user = a.user /\ d.refresh = a.refresh /\ d.restore = a.restore /\ d.login = a.login
          /\ d.logout = a.logout /\ d.slips = a.slips
      BY <2>1, <2>3 DEF Good, App
    <2>5. QED
      BY <2>1, <2>2, <2>4 DEF Ended
  <1> HIDE DEF d
  <1>2. Good(d, g, l) /\ Runs(a, d) /\ Restores(a, d)
    BY <1>1, EndedGood DEF Restores, Ended
  <1>3. Good(c, g, l) /\ Runs(a, c) /\ Restores(a, c) /\ c.req = d.req
    <2>1. CASE "me" \in R
      <3>1. d.req["me"].pc = "idle"
        BY <1>1, <2>1, NoRequestIdle DEF Ended
      <3>2. c = Unavailable(d)
        BY <2>1
      <3> HIDE DEF c
      <3>3. Good(c, g, l) /\ Runs(d, c)
        BY <1>2, <3>1, <3>2, GaveUp
      <3>4. ~c.restore.fresh /\ c.req = d.req
        BY <1>2, <3>2, UnavailableFields DEF Good
      <3>5. QED
        BY <1>2, <3>3, <3>4, RunsOn DEF Restores
    <2>2. CASE "me" \notin R
      BY <1>2, <2>2
    <2>3. QED
      BY <2>1, <2>2
  <1>4. CASE "logout" \notin R
    BY <1>3, <1>4 DEF Rejected, c, d
  <1>5. CASE "logout" \in R
    <2>1. b \in clearSession(e)
      BY <1>5 DEF Rejected, c, d
    <2> HIDE DEF c
    <2>2. /\ e \in App /\ e.logout.pc = "idle"
          /\ e.stored = c.stored /\ e.access = c.access /\ e.recent = c.recent /\ e.status = c.status
          /\ e.user = c.user /\ e.refresh = c.refresh /\ e.restore = c.restore /\ e.login = c.login
          /\ e.req = c.req /\ e.slips = c.slips
      <3> DEFINE o == [pc |-> "idle", token |-> None]
      <3>1. o \in Logout /\ o.pc = "idle"
        BY DEF Logout
      <3>2. e = [c EXCEPT !.logout = o]
        OBVIOUS
      <3> HIDE DEF o, e
      <3>3. QED
        BY <1>3, <3>1, <3>2 DEF Good, App
    <2> HIDE DEF e
    <2>3. BaseOK(e, g, l)
      <3>1. e.req["logout"].pc = "idle"
        BY <1>1, <1>3, <1>5, <2>2, NoRequestIdle DEF Ended
      <3>2. CallsOK(e)
        BY <1>3, <2>2, <3>1 DEF Good, BaseOK, CallsOK
      <3>3. TokensOK(e, g, l) /\ RefreshOK(e)
        BY <1>3, <2>2 DEF Good, BaseOK, TokensOK, RefreshOK
      <3>4. LoginOK(e, g)
        BY <1>3, <2>2 DEF Good, BaseOK, LoginOK
      <3>5. QED
        BY <3>2, <3>3, <3>4 DEF BaseOK
    <2>4. Good(b, g, l) /\ Runs(e, b)
      BY <2>1, <2>2, <2>3, Cleared
    <2>5. ~b.restore.fresh
      <3>1. b.restore = [e.restore EXCEPT !.fresh = FALSE]
        BY <2>1, <2>2, ClearedFields
      <3>2. QED
        BY <2>2, <3>1 DEF App, Restore
    <2>6. a.logout.pc = "post"
      BY <1>5 DEF Good, BaseOK, CallsOK
    <2>7. Runs(a, b)
      BY <1>3, <2>2, <2>4, <2>6 DEF Runs
    <2>8. QED
      BY <2>4, <2>5, <2>7 DEF Restores
  <1>6. QED
    BY <1>4, <1>5

\* The requests that wait for a token go on with the one result, or without.
ResultOK(a, result) ==
    /\ result \in Logins \cup {None, "error"}
    /\ result \in Logins /\ a.slips = {} /\ ~StoreFails => Of(a.stored, result)

\* Who waited repeats the call, or clears the session and rejects.
LEMMA Resumed ==
  ASSUME NEW a, NEW on \in {"login", "refresh"}, NEW result, NEW b \in RequestsResume(a, on, result),
         NEW g, NEW l, Good(a, g, l), ResultOK(a, result)
  PROVE  Good(b, g, l) /\ Runs(a, b) /\ Restores(a, b)
  <1> DEFINE R == {r \in Requests : a.req[r].pc = on}
  <1>1. R \in SUBSET Requests /\ \A r \in R : a.req[r].pc # "idle"
    OBVIOUS
  <1>2. CASE result \in Logins
    <2> DEFINE q == [r \in Requests |-> IF r \in R THEN [pc |-> "resent", as |-> result] ELSE a.req[r]]
    <2>1. b = [a EXCEPT !.req = q]
      <3>1. RequestsResume(a, on, result) = {[a EXCEPT !.req = q]}
        BY Others, <1>2 DEF RequestsResume
      <3> HIDE DEF q
      <3>2. QED
        BY <3>1
    <2>2. q \in [Requests -> Request]
      BY <1>2 DEF Request, Good, App
    <2>3. \A r \in Requests : q[r] = a.req[r] \/ (a.req[r].pc = on /\ q[r].pc = "resent" /\ q[r].as = result)
      OBVIOUS
    <2> HIDE DEF q, R
    <2>4. b \in App /\ b.req = q
          /\ b.stored = a.stored /\ b.access = a.access /\ b.recent = a.recent /\ b.status = a.status
          /\ b.user = a.user /\ b.refresh = a.refresh /\ b.restore = a.restore /\ b.login = a.login
          /\ b.logout = a.logout /\ b.slips = a.slips
      BY <2>1, <2>2 DEF Good, App
    <2>5. "me" \in Requests /\ "logout" \in Requests
      BY DEF Requests
    <2>6. BaseOK(b, g, l)
      <3>1. CallsOK(b)
        BY <2>3, <2>4, <2>5 DEF Good, BaseOK, CallsOK
      <3>2. TokensOK(b, g, l) /\ RefreshOK(b)
        BY <2>4 DEF Good, BaseOK, TokensOK, RefreshOK
      <3>3. LoginOK(b, g)
        BY <2>4 DEF Good, BaseOK, LoginOK
      <3>4. QED
        BY <3>1, <3>2, <3>3 DEF BaseOK
    <2>7. CalmOK(b)
      <3> SUFFICES ASSUME b.slips = {}, ~StoreFails
                   PROVE  HeldOK(b) /\ SignedOutOK(b) /\ SignedInOK(b) /\ RestoreOK(b)
        BY DEF CalmOK
      <3>1. HeldOK(a) /\ SignedOutOK(a) /\ SignedInOK(a) /\ RestoreOK(a)
        BY <2>4 DEF Good, CalmOK
      <3>2. HeldOK(b) /\ SignedOutOK(b) /\ SignedInOK(b)
        BY <2>4, <3>1 DEF HeldOK, SignedOutOK, SignedInOK
      <3>3. RestoreOK(b)
        <4>1. Of(b.stored, result)
          BY <1>2, <2>4 DEF ResultOK
        <4>2. QED
          BY <2>3, <2>4, <2>5, <3>1, <4>1 DEF RestoreOK
      <3>4. QED
        BY <3>2, <3>3
    <2>8. QED
      BY <2>4, <2>6, <2>7 DEF Good, Runs, Restores
  <1>3. CASE result = None /\ R # {}
    <2>1. PICK c \in clearSession(a) : b \in Rejected(c, R)
      BY <1>3, Others DEF RequestsResume
    <2>2. Good(c, g, l) /\ Runs(a, c)
      BY <2>1, Cleared DEF Good
    <2>3. c.req = a.req /\ c.restore = [a.restore EXCEPT !.fresh = FALSE]
      BY <2>1, ClearedFields DEF Good
    <2>4. ~c.restore.fresh
      BY <2>3 DEF Good, App, Restore
    <2> HIDE DEF R
    <2>5. \A r \in R : c.req[r].pc # "idle"
      BY <1>1, <2>3
    <2>6. Good(b, g, l) /\ Runs(c, b) /\ Restores(c, b)
      BY <1>1, <2>1, <2>2, <2>5, Rejects
    <2>7. QED
      BY <2>2, <2>4, <2>6, RunsOn DEF Restores
  <1>4. CASE result \notin Logins /\ ~(result = None /\ R # {})
    <2>1. b \in Rejected(a, R)
      BY <1>4 DEF RequestsResume
    <2> HIDE DEF R
    <2>2. QED
      BY <1>1, <2>1, Rejects
  <1>5. QED
    BY <1>2, <1>3, <1>4

\* The restore goes on: it asks for the profile, becomes a guest or gives up.
LEMMA RestoreGoesOn ==
  ASSUME NEW a, NEW on \in {"login", "refresh"}, NEW result, NEW b, b = RestoreResumes(a, on, result),
         NEW g, NEW l, Good(a, g, l), result \in Logins \cup {None, "error"}, a.login.pc # "write",
         result = None /\ a.restore.fresh /\ a.restore.pc = on /\ a.slips = {} /\ ~StoreFails =>
             on = "refresh" /\ a.stored = None
  PROVE  Good(b, g, l) /\ Runs(a, b)
  <1> DEFINE s == [pc |-> "idle", fresh |-> FALSE]
  <1>1. CASE a.restore.pc # on
    <2>1. b = a
      BY <1>1 DEF RestoreResumes
    <2>2. QED
      BY <2>1 DEF Runs
  <1>2. ASSUME a.restore.pc = on PROVE a.req["me"].pc = "idle"
    BY <1>2 DEF Good, BaseOK, CallsOK
  <1>3. CASE a.restore.pc = on /\ ~a.restore.fresh
    <2>1. b = [a EXCEPT !.restore = s]
      BY <1>3 DEF RestoreResumes
    <2>2. s \in Restore /\ s.pc = "idle" /\ ~s.fresh
      BY DEF Restore
    <2> HIDE DEF s
    <2>3. b \in App /\ b.restore = s
          /\ b.stored = a.stored /\ b.access = a.access /\ b.recent = a.recent /\ b.status = a.status
          /\ b.user = a.user /\ b.refresh = a.refresh /\ b.req = a.req /\ b.login = a.login
          /\ b.logout = a.logout /\ b.slips = a.slips
      BY <2>1, <2>2 DEF Good, App
    <2>4. BaseOK(b, g, l)
      <3>1. CallsOK(b)
        BY <1>2, <1>3, <2>3 DEF Good, BaseOK, CallsOK
      <3>2. TokensOK(b, g, l) /\ RefreshOK(b)
        BY <2>3 DEF Good, BaseOK, TokensOK, RefreshOK
      <3>3. LoginOK(b, g)
        BY <2>2, <2>3 DEF Good, BaseOK, LoginOK
      <3>4. QED
        BY <3>1, <3>2, <3>3 DEF BaseOK
    <2>5. CalmOK(b)
      <3> SUFFICES ASSUME b.slips = {}, ~StoreFails
                   PROVE  HeldOK(b) /\ SignedOutOK(b) /\ SignedInOK(b) /\ RestoreOK(b)
        BY DEF CalmOK
      <3>1. HeldOK(a) /\ SignedOutOK(a) /\ SignedInOK(a) /\ RestoreOK(a)
        BY <2>3 DEF Good, CalmOK
      <3>2. HeldOK(b) /\ SignedOutOK(b) /\ SignedInOK(b)
        BY <2>2, <2>3, <3>1 DEF HeldOK, SignedOutOK, SignedInOK
      <3>3. RestoreOK(b)
        BY <1>3, <2>2, <2>3, <3>1 DEF RestoreOK
      <3>4. QED
        BY <3>2, <3>3
    <2>6. QED
      BY <2>3, <2>4, <2>5 DEF Good, Runs
  <1>4. CASE a.restore.pc = on /\ a.restore.fresh /\ result \in Logins
    <2> DEFINE m == [a.restore EXCEPT !.pc = "me"]
               n == [pc |-> "sent", as |-> a.access]
               q == [a.req EXCEPT !["me"] = n]
    <2>1. b = [a EXCEPT !.restore = m, !.req = q]
      <3>1. b = [a EXCEPT !.restore.pc = "me", !.req["me"] = n]
        BY Others, <1>4 DEF RestoreResumes
      <3>2. QED
        BY Zenon, <3>1
    <2>2. m \in Restore /\ m.pc = "me" /\ m.fresh
      BY <1>4 DEF Good, App, Restore
    <2>3. "me" \in Requests /\ "logout" \in Requests
      BY DEF Requests
    <2>4. n \in Request /\ n.pc = "sent" /\ n.as = a.access
      BY DEF Request, Good, App
    <2> HIDE DEF n
    <2>5. q \in [Requests -> Request] /\ q["me"] = n /\ q["logout"] = a.req["logout"]
      BY <2>3, <2>4 DEF Good, App
    <2> HIDE DEF m, q
    <2>6. b \in App /\ b.restore = m /\ b.req = q
          /\ b.stored = a.stored /\ b.access = a.access /\ b.recent = a.recent /\ b.status = a.status
          /\ b.user = a.user /\ b.refresh = a.refresh /\ b.login = a.login
          /\ b.logout = a.logout /\ b.slips = a.slips
      BY <2>1, <2>2, <2>5 DEF Good, App
    <2>7. BaseOK(b, g, l)
      <3>1. CallsOK(b)
        BY <2>2, <2>5, <2>6 DEF Good, BaseOK, CallsOK
      <3>2. TokensOK(b, g, l) /\ RefreshOK(b)
        BY <2>6 DEF Good, BaseOK, TokensOK, RefreshOK
      <3>3. LoginOK(b, g)
        BY <2>6 DEF Good, BaseOK, LoginOK
      <3>4. QED
        BY <3>1, <3>2, <3>3 DEF BaseOK
    <2>8. CalmOK(b)
      <3> SUFFICES ASSUME b.slips = {}, ~StoreFails
                   PROVE  HeldOK(b) /\ SignedOutOK(b) /\ SignedInOK(b) /\ RestoreOK(b)
        BY DEF CalmOK
      <3>1. HeldOK(a) /\ SignedOutOK(a) /\ SignedInOK(a) /\ RestoreOK(a)
        BY <2>6 DEF Good, CalmOK
      <3>2. HeldOK(b) /\ SignedInOK(b)
        BY <2>6, <3>1 DEF HeldOK, SignedInOK
      <3>3. SignedOutOK(b)
        BY <1>4, <2>6, <3>1 DEF SignedOutOK
      <3>4. RestoreOK(b)
        BY <1>4, <2>2, <2>4, <2>5, <2>6, <3>1 DEF RestoreOK, HeldOK
      <3>5. QED
        BY <3>2, <3>3, <3>4
    <2>9. QED
      BY <2>6, <2>7, <2>8 DEF Good, Runs
  <1>5. CASE a.restore.pc = on /\ a.restore.fresh /\ result = None
    <2> DEFINE m == [a.restore EXCEPT !.pc = "guest"]
    <2>1. b = [a EXCEPT !.restore = m, !.access = None, !.recent = None, !.user = None]
      BY <1>5, Others DEF RestoreResumes
    <2>2. m \in Restore /\ m.pc = "guest" /\ m.fresh
      BY <1>5 DEF Good, App, Restore
    <2> HIDE DEF m
    <2>3. b \in App /\ b.restore = m /\ b.access = None /\ b.recent = None /\ b.user = None
          /\ b.stored = a.stored /\ b.status = a.status /\ b.refresh = a.refresh /\ b.login = a.login
          /\ b.logout = a.logout /\ b.req = a.req /\ b.slips = a.slips
      BY <2>1, <2>2 DEF Good, App
    <2>4. BaseOK(b, g, l)
      <3>1. CallsOK(b)
        BY <1>2, <1>5, <2>3 DEF Good, BaseOK, CallsOK
      <3>2. TokensOK(b, g, l) /\ RefreshOK(b)
        BY <2>3 DEF Good, BaseOK, TokensOK, RefreshOK
      <3>3. LoginOK(b, g)
        BY <2>3 DEF Good, BaseOK, LoginOK
      <3>4. QED
        BY <3>1, <3>2, <3>3 DEF BaseOK
    <2>5. CalmOK(b)
      <3> SUFFICES ASSUME b.slips = {}, ~StoreFails
                   PROVE  HeldOK(b) /\ SignedOutOK(b) /\ SignedInOK(b) /\ RestoreOK(b)
        BY DEF CalmOK
      <3>1. HeldOK(a) /\ SignedOutOK(a) /\ SignedInOK(a) /\ RestoreOK(a)
        BY <2>3 DEF Good, CalmOK
      <3>2. on = "refresh" /\ b.stored = None /\ b.status = "restoring"
        BY <1>5, <2>3, <3>1 DEF RestoreOK
      <3>3. HeldOK(b)
        BY <2>3, <3>1 DEF HeldOK
      <3>4. SignedOutOK(b) /\ SignedInOK(b)
        BY <2>3, <3>2 DEF SignedOutOK, SignedInOK
      <3>5. RestoreOK(b)
        BY <2>2, <2>3, <3>2 DEF RestoreOK
      <3>6. QED
        BY <3>3, <3>4, <3>5
    <2>6. QED
      BY <2>3, <2>4, <2>5 DEF Good, Runs
  <1>6. CASE a.restore.pc = on /\ a.restore.fresh /\ result = "error"
    <2>1. b = Unavailable(a)
      BY <1>6, Others DEF RestoreResumes
    <2>2. QED
      BY <1>2, <1>6, <2>1, GaveUp
  <1>7. QED
    BY <1>1, <1>3, <1>4, <1>5, <1>6

\* All that the session consists of is as it was.
SameSession(a, b) ==
    /\ b \in App
    /\ b.stored = a.stored /\ b.access = a.access /\ b.recent = a.recent /\ b.status = a.status
    /\ b.user = a.user /\ b.refresh = a.refresh /\ b.restore = a.restore /\ b.login = a.login
    /\ b.slips = a.slips

\* Requests and logouts come and go without it.
LEMMA Quiet ==
  ASSUME NEW a, NEW b, NEW g, NEW l, Good(a, g, l), SameSession(a, b), CallsOK(b),
         LET me == b.req["me"]
         IN  \/ me = a.req["me"]
             \/ ~StoreFails /\ a.slips = {} /\ me.pc \in {"sent", "resent"} /\ me.as # None
                /\ a.restore.fresh /\ a.restore.pc = "me" => Of(a.stored, me.as)
  PROVE  Good(b, g, l)
  <1>1. BaseOK(b, g, l)
    <2>1. TokensOK(b, g, l) /\ RefreshOK(b)
      BY DEF Good, BaseOK, TokensOK, RefreshOK, SameSession
    <2>2. LoginOK(b, g)
      BY DEF Good, BaseOK, LoginOK, SameSession
    <2>3. QED
      BY <2>1, <2>2 DEF BaseOK
  <1>2. CalmOK(b)
    <2> SUFFICES ASSUME b.slips = {}, ~StoreFails
                 PROVE  HeldOK(b) /\ SignedOutOK(b) /\ SignedInOK(b) /\ RestoreOK(b)
      BY DEF CalmOK
    <2>1. HeldOK(a) /\ SignedOutOK(a) /\ SignedInOK(a) /\ RestoreOK(a)
      BY DEF Good, CalmOK, SameSession
    <2>2. HeldOK(b) /\ SignedOutOK(b) /\ SignedInOK(b)
      BY <2>1 DEF HeldOK, SignedOutOK, SignedInOK, SameSession
    <2>3. RestoreOK(b)
      BY <2>1 DEF RestoreOK, SameSession
    <2>4. QED
      BY <2>2, <2>3
  <1>3. QED
    BY <1>1, <1>2 DEF Good, SameSession

\* A logout that waited reads what is stored now.
LEMMA LogoutGoesOn ==
  ASSUME NEW a, NEW on \in {"login", "refresh", "idle"}, NEW b, b = LogoutResumes(a, on),
         NEW g, NEW l, Good(a, g, l)
  PROVE  Good(b, g, l) /\ Runs(a, b) /\ SameSession(a, b)
  <1>1. CASE a.logout.pc # on
    BY <1>1 DEF LogoutResumes, Runs, Good, SameSession
  <1>2. CASE a.logout.pc = on
    <2> DEFINE o == [pc |-> "read", token |-> a.stored]
    <2>1. b = [a EXCEPT !.logout = o]
      BY <1>2 DEF LogoutResumes
    <2>2. o \in Logout /\ o.pc = "read"
      BY DEF Logout, Good, App
    <2> HIDE DEF o
    <2>3. SameSession(a, b) /\ b.logout = o /\ b.req = a.req
      BY <2>1, <2>2 DEF Good, App, SameSession
    <2>4. CallsOK(b)
      BY <1>2, <2>3 DEF Good, BaseOK, CallsOK, SameSession
    <2>5. Good(b, g, l)
      BY <2>3, <2>4, Quiet
    <2>6. QED
      BY <1>2, <2>3, <2>5 DEF Runs, SameSession
  <1>3. QED
    BY <1>1, <1>2

\* A login writes its token.
Stores(a, b, f) ==
    /\ a.slips \subseteq b.slips
    /\ b.stored \in {a.stored, <<f, 1>>}
    /\ b.login.pc = "write"
    /\ b.logout = a.logout /\ b.status = a.status

\* A login that writes its token ends what was held before.
LEMMA Established ==
  ASSUME NEW a, NEW f \in Logins, NEW b \in Establish(a, f), NEW g, NEW l, Good(a, g, l),
         g[f] = 1, a.refresh.pc = "idle"
  PROVE  Good(b, g, l) /\ Stores(a, b, f)
  <1>1. PICK ok \in Outcomes :
           b = [Bumped(a) EXCEPT !.stored = IF ok THEN <<f, 1>> ELSE a.stored,
                                 !.login = [pc |-> "write", session |-> f, saved |-> ok]]
    BY DEF Establish
  <1> DEFINE r == [a.refresh EXCEPT !.fresh = FALSE]
             s == [a.restore EXCEPT !.fresh = FALSE]
             k == [pc |-> "write", session |-> f, saved |-> ok]
             v == IF ok THEN <<f, 1>> ELSE a.stored
  <1>2. /\ r \in Refresh /\ r.pc = a.refresh.pc /\ ~r.fresh
        /\ s \in Restore /\ s.pc = a.restore.pc /\ ~s.fresh
    BY DEF Good, App, Refresh, Restore
  <1>3. ok \in BOOLEAN /\ (ok \/ StoreFails)
    BY <1>1 DEF Outcomes
  <1>4. k \in Login /\ k.pc = "write" /\ k.session = f /\ k.saved = ok
    BY <1>3 DEF Login
  <1>5. /\ v \in Tokens \cup {None} /\ v \in {a.stored, <<f, 1>>}
        /\ ok => v = <<f, 1>>
        /\ <<f, 1>> # None /\ <<f, 1>>[1] = f /\ <<f, 1>>[2] = 1
    <2>1. 1 \in 1 .. MaxGen
      BY ConstantsAssumption
    <2>2. QED
      BY <1>3, <2>1, Pairs DEF Good, App
  <1>6. b = [a EXCEPT !.access = None, !.recent = None, !.refresh = r, !.restore = s,
                      !.stored = v, !.login = k]
    BY <1>1 DEF Bumped, Good, App
  <1> HIDE DEF r, s, k, v
  <1>7. /\ b \in App /\ b.access = None /\ b.recent = None /\ b.refresh = r /\ b.restore = s
        /\ b.stored = v /\ b.login = k /\ b.status = a.status /\ b.user = a.user
        /\ b.logout = a.logout /\ b.req = a.req /\ b.slips = a.slips
    BY <1>2, <1>4, <1>5, <1>6 DEF Good, App
  <1>8. BaseOK(b, g, l)
    <2>1. CallsOK(b)
      BY <1>2, <1>7 DEF Good, BaseOK, CallsOK
    <2>2. TokensOK(b, g, l)
      BY <1>2, <1>5, <1>7 DEF Good, BaseOK, TokensOK, TokenOK
    <2>3. RefreshOK(b)
      BY <1>2, <1>7 DEF RefreshOK
    <2>4. LoginOK(b, g)
      BY <1>2, <1>3, <1>4, <1>7, Others DEF LoginOK
    <2>5. QED
      BY <2>1, <2>2, <2>3, <2>4 DEF BaseOK
  <1>9. CalmOK(b)
    <2> SUFFICES ASSUME b.slips = {}, ~StoreFails
                 PROVE  HeldOK(b) /\ SignedOutOK(b) /\ SignedInOK(b) /\ RestoreOK(b)
      BY DEF CalmOK
    <2>1. HeldOK(a) /\ SignedOutOK(a) /\ SignedInOK(a) /\ RestoreOK(a)
      BY <1>7 DEF Good, CalmOK
    <2>2. HeldOK(b)
      BY <1>2, <1>3, <1>4, <1>5, <1>7 DEF HeldOK, Of
    <2>3. SignedOutOK(b) /\ SignedInOK(b)
      BY <1>2, <1>4, <1>7, <2>1 DEF SignedOutOK, SignedInOK
    <2>4. RestoreOK(b)
      BY <1>2, <1>4, <1>7, <2>1 DEF RestoreOK
    <2>5. QED
      BY <2>2, <2>3, <2>4
  <1>10. QED
    BY <1>4, <1>5, <1>7, <1>8, <1>9 DEF Good, Stores

\* A login that waited for a refresh writes its token now.
LEMMA LoginGoesOn ==
  ASSUME NEW a, NEW b \in LoginResumes(a), NEW g, NEW l, Good(a, g, l), a.refresh.pc = "idle"
  PROVE  /\ Good(b, g, l)
         /\ b = a \/ Stores(a, b, a.login.session)
  <1>1. CASE a.login.pc # "refresh"
    BY <1>1 DEF LoginResumes
  <1>2. CASE a.login.pc = "refresh"
    <2>1. a.login.session \in Logins /\ g[a.login.session] = 1
      BY <1>2 DEF Good, App, Login, BaseOK, LoginOK
    <2>2. b \in Establish(a, a.login.session)
      BY <1>2 DEF LoginResumes
    <2>3. QED
      BY <2>1, <2>2, Established
  <1>3. QED
    BY <1>1, <1>2

\* What a settled promise never does to the device.
Settled(a, b) ==
    /\ a.slips \subseteq b.slips
    /\ b.stored \in {a.stored, None} \/ b.login.pc = "write"
    /\ a.logout.pc = "read" => b.logout = a.logout

\* Running on before a promise settles changes nothing about that.
LEMMA SettledLater ==
  ASSUME NEW a, NEW b, NEW c, Runs(a, b), b.logout = a.logout \/ a.logout.pc # "read", Settled(b, c)
  PROVE  Settled(a, c)
  BY DEF Runs, Settled

\* A restore without a token becomes a guest only where none is stored.
GuestOK(a, on, result) ==
    result = None /\ a.restore.fresh /\ a.restore.pc = on /\ a.slips = {} /\ ~StoreFails =>
        on = "refresh" /\ a.stored = None

\* All that wait for a refresh go on.
LEMMA RefreshSettled ==
  ASSUME NEW a, NEW n, n = [a EXCEPT !.refresh = NoRefresh], NEW result, NEW b \in RefreshSettles(a, result),
         NEW g, NEW l, Good(n, g, l), n.refresh.pc = "idle", n.login.pc # "write",
         ResultOK(n, result), GuestOK(n, "refresh", result)
  PROVE  Good(b, g, l) /\ Settled(n, b)
  <1>1. PICK c \in RequestsResume(n, "refresh", result) :
           b \in LoginResumes(LogoutResumes(RestoreResumes(c, "refresh", result), "refresh"))
    BY DEF RefreshSettles
  <1> DEFINE d == RestoreResumes(c, "refresh", result)
             e == LogoutResumes(d, "refresh")
  <1>2. Good(c, g, l) /\ Runs(n, c) /\ Restores(n, c)
    BY <1>1, Resumed
  <1>3. b \in LoginResumes(e)
    BY <1>1
  <1>4. Good(d, g, l) /\ Runs(c, d)
    <2>1. /\ result \in Logins \cup {None, "error"} /\ c.login.pc # "write"
          /\ result = None /\ c.restore.fresh /\ c.restore.pc = "refresh" /\ c.slips = {} /\ ~StoreFails =>
                 "refresh" = "refresh" /\ c.stored = None
      BY <1>2 DEF Runs, Restores, GuestOK, ResultOK
    <2> HIDE DEF d
    <2>2. d = RestoreResumes(c, "refresh", result)
      BY DEF d
    <2>3. QED
      BY <1>2, <2>1, <2>2, RestoreGoesOn
  <1> HIDE DEF d
  <1>5. Good(e, g, l) /\ Runs(d, e)
    BY <1>4, LogoutGoesOn
  <1> HIDE DEF e
  <1>6. Runs(n, e)
    BY <1>2, <1>4, <1>5, RunsOn
  <1>7. Good(b, g, l) /\ (b = e \/ Stores(e, b, e.login.session))
    BY <1>3, <1>5, <1>6, LoginGoesOn DEF Runs
  <1>8. QED
    BY <1>6, <1>7 DEF Runs, Stores, Settled

\* The promise of a login is forgotten before its callers go on.
LoginDropped(a, n) == n = [a EXCEPT !.login = NoLogin]

\* All that wait for a login go on.
LEMMA LoginSettled ==
  ASSUME NEW a, NEW n, LoginDropped(a, n), NEW result, NEW b \in LoginSettles(a, result),
         NEW g, NEW l, Good(n, g, l), n.login.pc = "idle", ResultOK(n, result), result # None
  PROVE  Good(b, g, l) /\ Settled(n, b)
  <1>1. PICK c \in RequestsResume(n, "login", result) :
           b = LogoutResumes(RestoreResumes(c, "login", result), "login")
    BY DEF LoginSettles, LoginDropped
  <1> DEFINE d == RestoreResumes(c, "login", result)
  <1>2. Good(c, g, l) /\ Runs(n, c) /\ Restores(n, c)
    BY <1>1, Resumed
  <1>3. Good(d, g, l) /\ Runs(c, d)
    <2>1. result \in Logins \cup {None, "error"} /\ c.login.pc # "write"
      BY <1>2 DEF Runs, ResultOK
    <2> HIDE DEF d
    <2>2. d = RestoreResumes(c, "login", result)
      BY DEF d
    <2>3. QED
      BY <1>2, <2>1, <2>2, RestoreGoesOn
  <1> HIDE DEF d
  <1>4. Good(b, g, l) /\ Runs(d, b)
    BY <1>1, <1>3, LogoutGoesOn DEF d
  <1>5. QED
    BY <1>2, <1>3, <1>4, RunsOn DEF Runs, Settled

\* A refresh starts with the token that is stored.
LEMMA RefreshStarts ==
  ASSUME NEW a, NEW b, b = WithRefresh(a), NEW g, NEW l, Good(a, g, l)
  PROVE  /\ Good(b, g, l) /\ b.stored = a.stored /\ b.slips = a.slips /\ b.logout = a.logout
         /\ b.status = a.status /\ b.login = a.login
  <1> DEFINE r == [NoRefresh EXCEPT !.pc = "read", !.token = a.stored, !.fresh = TRUE]
  <1>1. CASE ~(a.login.pc = "idle" /\ a.refresh.pc = "idle")
    BY <1>1 DEF WithRefresh
  <1>2. CASE a.login.pc = "idle" /\ a.refresh.pc = "idle"
    <2>1. b = [a EXCEPT !.refresh = r]
      BY <1>2 DEF WithRefresh
    <2>2. r \in Refresh /\ r.pc = "read" /\ r.token = a.stored /\ r.fresh
      BY DEF NoRefresh, Refresh, Good, App
    <2> HIDE DEF r
    <2>3. /\ b \in App /\ b.refresh = r
          /\ b.stored = a.stored /\ b.access = a.access /\ b.recent = a.recent /\ b.status = a.status
          /\ b.user = a.user /\ b.restore = a.restore /\ b.login = a.login
          /\ b.logout = a.logout /\ b.req = a.req /\ b.slips = a.slips
      BY <2>1, <2>2 DEF Good, App
    <2>4. BaseOK(b, g, l)
      <3>1. CallsOK(b)
        BY <2>3 DEF Good, BaseOK, CallsOK
      <3>2. TokensOK(b, g, l)
        BY <2>2, <2>3 DEF Good, BaseOK, TokensOK, TokenOK
      <3>3. RefreshOK(b)
        BY <2>2, <2>3 DEF RefreshOK
      <3>4. LoginOK(b, g)
        BY <1>2, <2>3 DEF LoginOK
      <3>5. QED
        BY <3>1, <3>2, <3>3, <3>4 DEF BaseOK
    <2>5. CalmOK(b)
      <3> SUFFICES ASSUME b.slips = {}, ~StoreFails
                   PROVE  HeldOK(b) /\ SignedOutOK(b) /\ SignedInOK(b) /\ RestoreOK(b)
        BY DEF CalmOK
      <3>1. HeldOK(a) /\ SignedOutOK(a) /\ SignedInOK(a) /\ RestoreOK(a)
        BY <2>3 DEF Good, CalmOK
      <3>2. HeldOK(b)
        BY <1>2, <2>2, <2>3, <3>1 DEF HeldOK
      <3>3. SignedOutOK(b)
        BY <1>2, <2>2, <2>3, <3>1 DEF SignedOutOK
      <3>4. SignedInOK(b) /\ RestoreOK(b)
        BY <2>3, <3>1 DEF SignedInOK, RestoreOK
      <3>5. QED
        BY <3>2, <3>3, <3>4
    <2>6. QED
      BY <2>3, <2>4, <2>5 DEF Good
  <1>3. QED
    BY <1>1, <1>2

\* One request goes on to another state.
Moved(a, b, r, q) ==
    /\ SameSession(a, b) /\ b.logout = a.logout
    /\ b.req[r] = q /\ \A x \in Requests \ {r} : b.req[x] = a.req[x]

\* A request that goes on holds the token of the session that is stored.
LEMMA RequestMoves ==
  ASSUME NEW a, NEW r \in Requests, NEW q \in Request, NEW b, Moved(a, b, r, q),
         NEW g, NEW l, Good(a, g, l),
         r = "me" => \/ a.req[r].pc # "idle" /\ q.as = a.req[r].as /\ a.req[r].pc \in {"sent", "resent"}
                     \/ a.req[r].pc # "idle" /\ q.as = a.recent /\ a.recent # None,
         r = "logout" => a.req[r].pc # "idle"
  PROVE  Good(b, g, l)
  <1>2. b.req[r] = q /\ \A x \in Requests \ {r} : b.req[x] = a.req[x]
    BY DEF Moved
  <1>3. SameSession(a, b) /\ b.logout = a.logout
    BY DEF Moved
  <1>4. "me" \in Requests /\ "logout" \in Requests
    BY DEF Requests
  <1>5. CallsOK(b)
    BY <1>2, <1>3, <1>4 DEF Good, BaseOK, CallsOK, SameSession
  <1>6. \/ b.req["me"] = a.req["me"]
        \/ ~StoreFails /\ a.slips = {} /\ b.req["me"].pc \in {"sent", "resent"} /\ b.req["me"].as # None
           /\ a.restore.fresh /\ a.restore.pc = "me" => Of(a.stored, b.req["me"].as)
    <2>1. CASE r # "me"
      BY <1>2, <1>3, <1>4, <2>1
    <2>2. CASE r = "me"
      BY <1>2, <1>3, <2>2 DEF Good, CalmOK, RestoreOK, HeldOK
    <2>3. QED
      BY <2>1, <2>2
  <1>7. QED
    BY <1>2, <1>3, <1>5, <1>6, Quiet

\* A field of a request that is assigned.
LEMMA RequestAssigned ==
  ASSUME NEW a \in App, NEW r \in Requests, NEW q \in Request
  PROVE  Moved(a, [a EXCEPT !.req[r] = q], r, q)
  <1> DEFINE p == [a.req EXCEPT ![r] = q]
             b == [a EXCEPT !.req = p]
  <1>1. [a EXCEPT !.req[r] = q] = b
    BY DEF App
  <1>2. p \in [Requests -> Request] /\ p[r] = q /\ \A x \in Requests \ {r} : p[x] = a.req[x]
    BY DEF App
  <1> HIDE DEF p
  <1>3. SameSession(a, b) /\ b.logout = a.logout /\ b.req = p
    BY <1>2 DEF App, SameSession
  <1> HIDE DEF b
  <1>4. Moved(a, b, r, q)
    BY <1>2, <1>3 DEF Moved
  <1>5. QED
    BY <1>1, <1>4

\* A call that needs a token waits for one, or has it.
LEMMA NeedsTokenGood ==
  ASSUME NEW a, NEW r \in Requests, NEW b, b = NeedsToken(a, r), NEW g, NEW l, Good(a, g, l),
         a.req[r].pc = "sent"
  PROVE  /\ Good(b, g, l) /\ b.stored = a.stored /\ b.slips = a.slips /\ b.logout = a.logout
         /\ b.status = a.status
  <1>1. CASE AnswersAtOnce(a)
    <2> DEFINE q == [pc |-> "resent", as |-> a.recent]
    <2>1. b = [a EXCEPT !.req[r] = q]
      BY <1>1 DEF NeedsToken
    <2>2. q \in Request /\ q.as = a.recent /\ a.recent # None
      BY <1>1 DEF Good, App, Request, AnswersAtOnce
    <2> HIDE DEF q
    <2>3. Moved(a, b, r, q)
      BY Zenon, <2>1, <2>2, RequestAssigned DEF Good
    <2>4. QED
      BY <2>2, <2>3, RequestMoves DEF Moved, SameSession
  <1>2. CASE ~AnswersAtOnce(a)
    <2> DEFINE q == [a.req[r] EXCEPT !.pc = AwaitedPromise(a)]
               c == [a EXCEPT !.req[r] = q]
    <2>1. b = WithRefresh([a EXCEPT !.req[r].pc = AwaitedPromise(a)])
      BY <1>2 DEF NeedsToken
    <2>2. [a EXCEPT !.req[r].pc = AwaitedPromise(a)] = c
      OBVIOUS
    <2>3. q \in Request /\ q.as = a.req[r].as
      BY DEF Good, App, Request, AwaitedPromise
    <2> HIDE DEF q
    <2>6. Moved(a, c, r, q)
      BY Zenon, <2>3, RequestAssigned DEF Good
    <2> HIDE DEF c
    <2>4. Good(c, g, l) /\ SameSession(a, c) /\ c.logout = a.logout
      BY <2>3, <2>6, RequestMoves DEF Moved
    <2>5. QED
      BY <2>1, <2>2, <2>4, RefreshStarts DEF SameSession
  <1>3. QED
    BY <1>1, <1>2

-----------------------------------------------------------------------------
(* The steps of the refresh.                                               *)

\* No token comes back, and a logout that has read its token is told.
Returns == app.stored = None /\ app'.stored # None => app'.login.pc = "write" \/ "refresh" \in app.slips
Told ==
    app.logout.pc = "read" /\ app.status = "authenticated"
    /\ app'.logout.pc = "idle" /\ app'.status = "unauthenticated" =>
        app.logout.token = None \/ app.logout.token[1] \notin alive \/ app'.slips # {} \/ StoreFails

\* What a step of the device preserves.
Kept == Good(app', gen', lost') /\ Returns /\ Told

\* A settled promise is all that a step has to answer for.
LEMMA SettledKept ==
  ASSUME Good(app', gen', lost'), Settled(app, app')
  PROVE  Kept
  BY DEF Kept, Returns, Told, Settled

\* The device's part of the invariant.
LEMMA DeviceGood == IInv => TypeOK /\ Good(app, gen, lost)
  BY DEF IInv, DeviceOK, Good, TypeOK

\* The promise of a refresh is forgotten before its callers go on.
LEMMA RefreshDropped ==
  ASSUME NEW a, NEW n, n = [a EXCEPT !.refresh = NoRefresh], NEW g, NEW l, Good(a, g, l)
  PROVE  /\ Good(n, g, l) /\ n.refresh.pc = "idle"
         /\ n.stored = a.stored /\ n.access = a.access /\ n.recent = a.recent /\ n.status = a.status
         /\ n.user = a.user /\ n.restore = a.restore /\ n.login = a.login
         /\ n.logout = a.logout /\ n.req = a.req /\ n.slips = a.slips
  <1>1. /\ NoRefresh \in Refresh /\ NoRefresh.pc = "idle" /\ NoRefresh.token = None /\ ~NoRefresh.fresh
    BY DEF NoRefresh, Refresh
  <1>2. /\ n \in App /\ n.refresh = NoRefresh
        /\ n.stored = a.stored /\ n.access = a.access /\ n.recent = a.recent /\ n.status = a.status
        /\ n.user = a.user /\ n.restore = a.restore /\ n.login = a.login
        /\ n.logout = a.logout /\ n.req = a.req /\ n.slips = a.slips
    BY <1>1 DEF Good, App
  <1>3. BaseOK(n, g, l)
    <2>1. CallsOK(n)
      BY <1>2 DEF Good, BaseOK, CallsOK
    <2>2. TokensOK(n, g, l)
      BY <1>1, <1>2 DEF Good, BaseOK, TokensOK
    <2>3. RefreshOK(n)
      BY <1>1, <1>2 DEF RefreshOK
    <2>4. LoginOK(n, g)
      BY <1>1, <1>2 DEF Good, BaseOK, LoginOK, Of
    <2>5. QED
      BY <2>1, <2>2, <2>3, <2>4 DEF BaseOK
  <1>4. CalmOK(n)
    <2> SUFFICES ASSUME n.slips = {}, ~StoreFails
                 PROVE  HeldOK(n) /\ SignedOutOK(n) /\ SignedInOK(n) /\ RestoreOK(n)
      BY DEF CalmOK
    <2>1. HeldOK(a) /\ SignedOutOK(a) /\ SignedInOK(a) /\ RestoreOK(a)
      BY <1>2 DEF Good, CalmOK
    <2>2. HeldOK(n)
      BY <1>1, <1>2, <2>1 DEF HeldOK
    <2>3. SignedOutOK(n) /\ SignedInOK(n) /\ RestoreOK(n)
      BY <1>1, <1>2, <2>1 DEF SignedOutOK, SignedInOK, RestoreOK
    <2>4. QED
      BY <2>2, <2>3
  <1>5. QED
    BY <1>1, <1>2, <1>3, <1>4 DEF Good

\* A refresh that settles while nobody stores a login.
LEMMA RefreshOver ==
  ASSUME NEW a, NEW result, NEW b \in RefreshSettles(a, result), NEW g, NEW l, Good(a, g, l),
         a.refresh.pc # "idle", ResultOK(a, result), GuestOK(a, "refresh", result)
  PROVE  Good(b, g, l) /\ Settled(a, b)
  <1> DEFINE n == [a EXCEPT !.refresh = NoRefresh]
  <1>1. n = [a EXCEPT !.refresh = NoRefresh]
    OBVIOUS
  <1> HIDE DEF n
  <1>2. /\ Good(n, g, l) /\ n.refresh.pc = "idle"
        /\ n.stored = a.stored /\ n.restore = a.restore /\ n.login = a.login
        /\ n.logout = a.logout /\ n.slips = a.slips
    BY <1>1, RefreshDropped
  <1>3. n.login.pc # "write"
    BY <1>2 DEF Good, BaseOK, LoginOK
  <1>4. ResultOK(n, result) /\ GuestOK(n, "refresh", result)
    BY <1>2 DEF ResultOK, GuestOK
  <1>5. Good(b, g, l) /\ Settled(n, b)
    BY <1>1, <1>2, <1>3, <1>4, RefreshSettled
  <1>6. QED
    BY <1>2, <1>5 DEF Settled

\* The stored token is read and sent, or there is none.
LEMMA ReadStep ==
  ASSUME IInv, RefreshRead
  PROVE  Kept
  <1>1. Good(app, gen, lost) /\ gen' = gen /\ lost' = lost /\ app.refresh.pc = "read"
    BY DeviceGood DEF RefreshRead, serverVars, historyVars
  <1>2. CASE app.refresh.token # None
             /\ app' = [Slipped(app, "refresh", ~app.refresh.fresh)
                          EXCEPT !.refresh.pc = "sent", !.refresh.fresh = TRUE]
    <2> DEFINE c == Slipped(app, "refresh", ~app.refresh.fresh)
               r == [app.refresh EXCEPT !.pc = "sent", !.fresh = TRUE]
    <2>1. r \in Refresh /\ r.pc = "sent" /\ r.fresh /\ r.token = app.refresh.token
      BY <1>1 DEF Good, App, Refresh
    <2>2. \E S \in SUBSET Slips : /\ c = [app EXCEPT !.slips = S] /\ app.slips \subseteq S
                                  /\ ~app.refresh.fresh => "refresh" \in S
      <3>1. CASE app.refresh.fresh
        BY <1>1, <3>1 DEF Good, App, Slipped
      <3>2. CASE ~app.refresh.fresh
        BY <1>1, <3>2 DEF Good, App, Slipped, Slips
      <3>3. QED
        BY <3>1, <3>2
    <2>3. PICK S \in SUBSET Slips : /\ c = [app EXCEPT !.slips = S] /\ app.slips \subseteq S
                                    /\ ~app.refresh.fresh => "refresh" \in S
      BY <2>2
    <2>4. app' = [app EXCEPT !.slips = S, !.refresh = r]
      BY <1>1, <1>2, <2>3 DEF Good, App
    <2> HIDE DEF c, r
    <2>5. /\ app' \in App /\ app'.refresh = r /\ app'.slips = S
          /\ app'.stored = app.stored /\ app'.access = app.access /\ app'.recent = app.recent
          /\ app'.status = app.status /\ app'.user = app.user /\ app'.restore = app.restore
          /\ app'.login = app.login /\ app'.logout = app.logout /\ app'.req = app.req
      BY <1>1, <2>1, <2>4 DEF Good, App
    <2>6. BaseOK(app', gen, lost)
      <3>1. CallsOK(app')
        BY <1>1, <2>5 DEF Good, BaseOK, CallsOK
      <3>2. TokensOK(app', gen, lost)
        BY <1>1, <2>1, <2>5 DEF Good, BaseOK, TokensOK
      <3>3. RefreshOK(app')
        BY <1>1, <1>2, <2>1, <2>3, <2>5 DEF Good, BaseOK, RefreshOK
      <3>4. LoginOK(app', gen)
        BY <1>1, <2>1, <2>5 DEF Good, BaseOK, LoginOK
      <3>5. QED
        BY <3>1, <3>2, <3>3, <3>4 DEF BaseOK
    <2>7. CalmOK(app')
      <3> SUFFICES ASSUME app'.slips = {}, ~StoreFails
                   PROVE  HeldOK(app') /\ SignedOutOK(app') /\ SignedInOK(app') /\ RestoreOK(app')
        BY DEF CalmOK
      <3>1. app.slips = {} /\ app.refresh.fresh
        BY <2>3, <2>5
      <3>2. HeldOK(app) /\ SignedOutOK(app) /\ SignedInOK(app) /\ RestoreOK(app)
        BY <1>1, <3>1 DEF Good, CalmOK
      <3>3. r.token = app.stored
        BY <1>1, <2>1, <3>1 DEF Good, BaseOK, RefreshOK
      <3>4. HeldOK(app')
        BY <1>1, <1>2, <2>1, <2>5, <3>2, <3>3 DEF HeldOK, Of
      <3>5. SignedOutOK(app')
        BY <2>1, <2>5, <3>1, <3>2 DEF SignedOutOK
      <3>6. SignedInOK(app') /\ RestoreOK(app')
        BY <2>5, <3>2 DEF SignedInOK, RestoreOK
      <3>7. QED
        BY <3>4, <3>5, <3>6
    <2>8. Settled(app, app')
      BY <2>3, <2>5 DEF Settled
    <2>9. QED
      BY <1>1, <2>5, <2>6, <2>7, <2>8, SettledKept DEF Good
  <1>3. CASE app.refresh.token = None /\ app' \in RefreshSettles(app, None)
    <2>1. ResultOK(app, None)
      BY Others DEF ResultOK
    <2>2. GuestOK(app, "refresh", None)
      BY <1>1, <1>3 DEF GuestOK, Good, CalmOK, HeldOK, SignedOutOK, BaseOK, RefreshOK
    <2>3. QED
      BY <1>1, <1>3, <2>1, <2>2, RefreshOver, SettledKept
  <1>4. CASE app' \in RefreshSettles(app, "error")
    <2>1. ResultOK(app, "error") /\ GuestOK(app, "refresh", "error")
      BY Others DEF ResultOK, GuestOK
    <2>2. QED
      BY <1>1, <1>4, <2>1, RefreshOver, SettledKept
  <1>5. QED
    BY <1>2, <1>3, <1>4 DEF RefreshRead

\* A token replaced by the server is the newest, or the device has lost one.
LEMMA TokensRotate ==
  ASSUME TypeOK, NEW p \in Logins, gen' = [gen EXCEPT ![p] = @ + 1], lost \subseteq lost',
         NEW token \in Tokens \cup {None}, TokenOK(token, gen, lost), Of(token, p) => p \in lost'
  PROVE  TokenOK(token, gen', lost')
  <1> SUFFICES ASSUME token # None PROVE TokenOK(token, gen', lost')
    BY DEF TokenOK
  <1>1. token[1] \in Logins /\ token[2] \in Nat
    BY TokenParts, ConstantsAssumption
  <1>2. CASE token[1] = p
    <2>1. gen'[p] = gen[p] + 1 /\ gen[p] \in Nat
      BY DEF TypeOK
    <2>2. QED
      BY <1>1, <1>2, <2>1 DEF TokenOK, Of
  <1>3. CASE token[1] # p
    <2>1. gen'[token[1]] = gen[token[1]]
      BY <1>1, <1>3 DEF TypeOK
    <2>2. QED
      BY <2>1 DEF TokenOK
  <1>4. QED
    BY <1>2, <1>3

\* The device without a refresh does not notice.
LEMMA RotatedGood ==
  ASSUME TypeOK, NEW p \in Logins, gen' = [gen EXCEPT ![p] = @ + 1], lost \subseteq lost',
         NEW a, Good(a, gen, lost), a.refresh.pc = "idle", Of(a.stored, p) => p \in lost',
         a.login.pc # "idle" => a.login.session # p
  PROVE  Good(a, gen', lost')
  <1>1. TokensOK(a, gen', lost')
    BY TokensRotate DEF Good, BaseOK, TokensOK, App
  <1>2. LoginOK(a, gen')
    <2>1. a.login.pc # "idle" => a.login.session \in Logins
      BY DEF Good, App, Login, BaseOK, LoginOK
    <2>2. a.login.pc # "idle" => gen'[a.login.session] = gen[a.login.session]
      BY <2>1 DEF TypeOK
    <2>3. QED
      BY <2>2 DEF Good, BaseOK, LoginOK
  <1>3. QED
    BY <1>1, <1>2 DEF Good, BaseOK

\* What is known when the server looks at a presented token.
LEMMA PresentedFacts ==
  ASSUME IInv, app.refresh.pc = "sent"
  PROVE  /\ app.refresh.token \in Tokens /\ app.refresh.token # None /\ Presented \in Logins
         /\ app.login.pc # "write"
         /\ app.login.pc # "idle" => app.login.session # Presented
         /\ ~app.refresh.fresh => app.stored = None \/ StoreFails
         /\ TokenOK(app.refresh.token, gen, lost)
  <1>1. Good(app, gen, lost)
    BY DeviceGood
  <1>2. app.refresh.token \in Tokens /\ app.refresh.token # None
    BY <1>1 DEF Good, App, Refresh, BaseOK, RefreshOK
  <1>3. app.login.pc \in {"idle", "refresh", "write"}
    BY <1>1 DEF Good, App, Login
  <1>4. QED
    BY <1>1, <1>2, <1>3, TokenParts DEF Good, BaseOK, LoginOK, RefreshOK, TokensOK, Presented, Of

\* The server replaces the token; the answer is stored, dropped or lost.
LEMMA RotateStep ==
  ASSUME IInv, RefreshRotates
  PROVE  Kept
  <1> DEFINE p == Presented
  <1>1. /\ TypeOK /\ Good(app, gen, lost) /\ app.refresh.pc = "sent" /\ IsNewest
        /\ gen' = [gen EXCEPT ![p] = @ + 1] /\ gen[p] < MaxGen
    BY DeviceGood DEF RefreshRotates
  <1>2. /\ app.refresh.token \in Tokens /\ app.refresh.token # None /\ p \in Logins
        /\ app.login.pc # "write"
        /\ app.login.pc # "idle" => app.login.session # p
        /\ ~app.refresh.fresh => app.stored = None \/ StoreFails
        /\ app.refresh.token[1] = p /\ app.refresh.token[2] = gen[p]
    BY <1>1, PresentedFacts DEF Presented, IsNewest
  <1>3. gen'[p] = gen[p] + 1 /\ gen[p] \in Nat /\ gen'[p] \in 1 .. MaxGen
    BY <1>1, <1>2, ConstantsAssumption DEF TypeOK
  <1> HIDE DEF p
  <1>4. ASSUME NEW ok \in BOOLEAN, ok \/ StoreFails, app.refresh.fresh,
               app' = [app EXCEPT !.refresh.pc = "write", !.refresh.saved = ok,
                                  !.stored = IF ok THEN <<p, gen'[p]>> ELSE @],
               lost' = IF ok THEN lost ELSE lost \cup {p}
        PROVE  Kept
    <2> DEFINE r == [app.refresh EXCEPT !.pc = "write", !.saved = ok]
               v == IF ok THEN <<p, gen'[p]>> ELSE app.stored
    <2>1. r \in Refresh /\ r.pc = "write" /\ r.saved = ok /\ r.fresh /\ r.token = app.refresh.token
      BY <1>1, <1>4 DEF Good, App, Refresh
    <2>2. /\ v \in Tokens \cup {None} /\ (ok => v = <<p, gen'[p]>>) /\ (~ok => v = app.stored)
          /\ <<p, gen'[p]>> # None /\ <<p, gen'[p]>>[1] = p /\ <<p, gen'[p]>>[2] = gen'[p]
      <3>1. /\ <<p, gen'[p]>> \in Tokens /\ <<p, gen'[p]>> # None
            /\ <<p, gen'[p]>>[1] = p /\ <<p, gen'[p]>>[2] = gen'[p]
        BY <1>2, <1>3, Pairs
      <3>2. QED
        BY <1>1, <1>4, <3>1 DEF Good, App
    <2>3. app' = [app EXCEPT !.refresh = r, !.stored = v]
      BY <1>1, <1>4 DEF Good, App
    <2> HIDE DEF r, v
    <2>4. /\ app' \in App /\ app'.refresh = r /\ app'.stored = v /\ app'.slips = app.slips
          /\ app'.access = app.access /\ app'.recent = app.recent
          /\ app'.status = app.status /\ app'.user = app.user /\ app'.restore = app.restore
          /\ app'.login = app.login /\ app'.logout = app.logout /\ app'.req = app.req
      BY <1>1, <2>1, <2>2, <2>3 DEF Good, App
    <2>5. lost \subseteq lost' /\ (~ok => p \in lost')
      BY <1>4
    <2>6. BaseOK(app', gen', lost')
      <3>1. CallsOK(app')
        BY <1>1, <2>4 DEF Good, BaseOK, CallsOK
      <3>2. TokensOK(app', gen', lost')
        <4>1. TokenOK(v, gen', lost')
          <5>1. CASE ok
            BY <1>3, <2>2, <5>1 DEF TokenOK
          <5>2. CASE ~ok
            BY <1>1, <1>2, <2>2, <2>5, <5>2, TokensRotate DEF Good, BaseOK, TokensOK, App
          <5>3. QED
            BY <5>1, <5>2
        <4>2. r.token[2] <= gen'[r.token[1]]
          BY <1>2, <1>3, <2>1
        <4>3. QED
          BY <2>1, <2>4, <4>1, <4>2 DEF TokensOK
      <3>3. RefreshOK(app')
        BY <1>2, <1>4, <2>1, <2>4 DEF RefreshOK
      <3>4. LoginOK(app', gen')
        <4>1. app.login.pc # "idle" => gen'[app.login.session] = gen[app.login.session]
          BY <1>1, <1>2 DEF TypeOK, Good, App, Login, BaseOK, LoginOK
        <4>2. QED
          BY <1>1, <1>2, <2>1, <2>2, <2>4, <4>1 DEF Good, BaseOK, LoginOK, Of
      <3>5. QED
        BY <3>1, <3>2, <3>3, <3>4 DEF BaseOK
    <2>7. CalmOK(app')
      <3> SUFFICES ASSUME app'.slips = {}, ~StoreFails
                   PROVE  HeldOK(app') /\ SignedOutOK(app') /\ SignedInOK(app') /\ RestoreOK(app')
        BY DEF CalmOK
      <3>1. HeldOK(app) /\ SignedOutOK(app) /\ SignedInOK(app) /\ RestoreOK(app)
        BY <1>1, <2>4 DEF Good, CalmOK
      <3>2. Of(app.stored, p) /\ Of(v, p)
        BY <1>1, <1>2, <1>4, <2>2, <3>1 DEF HeldOK, Of
      <3>3. HeldOK(app')
        BY <1>2, <1>4, <2>1, <2>4, <3>1, <3>2 DEF HeldOK, Of
      <3>4. SignedOutOK(app')
        BY <1>2, <1>4, <2>4, <3>1 DEF SignedOutOK
      <3>5. SignedInOK(app') /\ RestoreOK(app')
        BY <2>4, <3>1, <3>2 DEF SignedInOK, RestoreOK, Of
      <3>6. QED
        BY <3>3, <3>4, <3>5
    <2>8. Returns
      BY <1>1, <1>4 DEF Returns, Good, BaseOK, RefreshOK
    <2>9. Told
      BY <2>4 DEF Told
    <2>10. QED
      BY <2>4, <2>6, <2>7, <2>8, <2>9 DEF Kept, Good
  <1> DEFINE n == [app EXCEPT !.refresh = NoRefresh]
  <1>5. n = [app EXCEPT !.refresh = NoRefresh]
    OBVIOUS
  <1> HIDE DEF n
  <1>6. /\ Good(n, gen, lost) /\ n.refresh.pc = "idle"
        /\ n.stored = app.stored /\ n.restore = app.restore /\ n.login = app.login
        /\ n.logout = app.logout /\ n.slips = app.slips /\ n.status = app.status
    BY <1>1, <1>5, RefreshDropped
  <1>7. ASSUME ~app.refresh.fresh, app' \in RefreshSettles(app, None),
               lost' = IF StoreFails /\ app.stored # None THEN lost \cup {p} ELSE lost
        PROVE  Kept
    <2>1. lost \subseteq lost' /\ (Of(n.stored, p) => p \in lost')
      BY <1>2, <1>6, <1>7 DEF Of
    <2>2. Good(n, gen', lost')
      BY <1>1, <1>2, <1>6, <2>1, RotatedGood
    <2>3. ResultOK(n, None)
      BY Others DEF ResultOK
    <2>4. GuestOK(n, "refresh", None)
      BY <1>1, <1>6, <1>7 DEF GuestOK, Good, CalmOK, HeldOK, SignedOutOK
    <2>5. Good(app', gen', lost') /\ Settled(n, app')
      BY <1>2, <1>5, <1>6, <1>7, <2>2, <2>3, <2>4, RefreshSettled
    <2>6. Settled(app, app')
      BY <1>6, <2>5 DEF Settled
    <2>7. QED
      BY <2>5, <2>6, SettledKept
  <1>8. ASSUME app' \in RefreshSettles(app, "error"), lost' = lost \cup {p}
        PROVE  Kept
    <2>1. lost \subseteq lost' /\ p \in lost'
      BY <1>8
    <2>2. Good(n, gen', lost')
      BY <1>1, <1>2, <1>6, <2>1, RotatedGood
    <2>3. ResultOK(n, "error") /\ GuestOK(n, "refresh", "error")
      BY Others DEF ResultOK, GuestOK
    <2>4. Good(app', gen', lost') /\ Settled(n, app')
      BY <1>2, <1>5, <1>6, <1>8, <2>2, <2>3, RefreshSettled
    <2>5. Settled(app, app')
      BY <1>6, <2>4 DEF Settled
    <2>6. QED
      BY <2>4, <2>5, SettledKept
  <1>9. \/ app.refresh.fresh
           /\ \E ok \in Outcomes :
                 /\ app' = [app EXCEPT !.refresh.pc = "write", !.refresh.saved = ok,
                                       !.stored = IF ok THEN <<p, gen'[p]>> ELSE @]
                 /\ lost' = IF ok THEN lost ELSE lost \cup {p}
        \/ ~app.refresh.fresh /\ app' \in RefreshSettles(app, None)
           /\ lost' = IF StoreFails /\ app.stored # None THEN lost \cup {p} ELSE lost
        \/ app' \in RefreshSettles(app, "error") /\ lost' = lost \cup {p}
    BY DEF RefreshRotates, p
  <1>10. QED
    BY <1>4, <1>7, <1>8, <1>9 DEF Outcomes

\* The server refuses the token; the session is cleared unless the answer is
\* lost.
LEMMA RefuseStep ==
  ASSUME IInv, RefreshRefused
  PROVE  Kept
  <1>1. /\ Good(app, gen, lost) /\ app.refresh.pc = "sent" /\ gen' = gen /\ lost' = lost
    BY DeviceGood DEF RefreshRefused
  <1>2. ASSUME NEW b \in clearSession(app), app' \in RefreshSettles(b, None)
        PROVE  Kept
    <2>1. Good(b, gen, lost) /\ Runs(app, b)
      BY <1>1, Cleared DEF Good
    <2>2. b.restore = [app.restore EXCEPT !.fresh = FALSE]  /\ b.logout = app.logout
      BY <1>1, ClearedFields DEF Good
    <2>3. ~b.restore.fresh
      BY <1>1, <2>2 DEF Good, App, Restore
    <2>4. ResultOK(b, None) /\ GuestOK(b, "refresh", None)
      BY <2>3, Others DEF ResultOK, GuestOK
    <2>5. Good(app', gen, lost) /\ Settled(b, app')
      BY <1>1, <1>2, <2>1, <2>4, RefreshOver DEF Runs
    <2>6. QED
      BY <1>1, <2>1, <2>2, <2>5, SettledLater, SettledKept
  <1>3. ASSUME app' \in RefreshSettles(app, "error")
        PROVE  Kept
    <2>1. ResultOK(app, "error") /\ GuestOK(app, "refresh", "error")
      BY Others DEF ResultOK, GuestOK
    <2>2. QED
      BY <1>1, <1>3, <2>1, RefreshOver, SettledKept
  <1>4. QED
    BY <1>2, <1>3 DEF RefreshRefused

\* The refresh never reaches the server.
LEMMA FailStep ==
  ASSUME IInv, RefreshFails
  PROVE  Kept
  <1>1. /\ Good(app, gen, lost) /\ app.refresh.pc = "sent" /\ gen' = gen /\ lost' = lost
        /\ app' \in RefreshSettles(app, "error")
    BY DeviceGood DEF RefreshFails, serverVars, historyVars
  <1>2. ResultOK(app, "error") /\ GuestOK(app, "refresh", "error")
    BY Others DEF ResultOK, GuestOK
  <1>3. QED
    BY <1>1, <1>2, RefreshOver, SettledKept

\* The device with the new token in its memory, or with none in its store.
LEMMA TokenHeld ==
  ASSUME NEW a, NEW g, NEW l, Good(a, g, l), a.refresh.pc = "write", a.refresh.fresh,
         NEW p \in Logins, a.refresh.token # None, a.refresh.token[1] = p,
         NEW b \in App, b.access = p, b.recent = p,
         b.stored = a.stored, b.status = a.status, b.user = a.user, b.restore = a.restore,
         b.refresh = a.refresh, b.login = a.login, b.logout = a.logout, b.req = a.req, b.slips = a.slips
  PROVE  Good(b, g, l) /\ ResultOK(b, p) /\ Runs(a, b)
  <1>1. /\ b.access = p /\ b.recent = p
        /\ b.stored = a.stored /\ b.status = a.status /\ b.user = a.user /\ b.restore = a.restore
        /\ b.refresh = a.refresh /\ b.login = a.login
        /\ b.logout = a.logout /\ b.req = a.req /\ b.slips = a.slips
    OBVIOUS
  <1>2. p # None /\ a.login.pc # "write"
    BY Others DEF Good, BaseOK, LoginOK
  <1>3. BaseOK(b, g, l)
    <2>1. CallsOK(b)
      BY <1>1 DEF Good, BaseOK, CallsOK
    <2>2. TokensOK(b, g, l) /\ RefreshOK(b)
      BY <1>1 DEF Good, BaseOK, TokensOK, RefreshOK
    <2>3. LoginOK(b, g)
      BY <1>1 DEF Good, BaseOK, LoginOK
    <2>4. QED
      BY <2>1, <2>2, <2>3 DEF BaseOK
  <1>4. ASSUME b.slips = {}, ~StoreFails
        PROVE  Of(b.stored, p) /\ HeldOK(b) /\ SignedOutOK(b) /\ SignedInOK(b) /\ RestoreOK(b)
    <2>1. HeldOK(a) /\ SignedOutOK(a) /\ SignedInOK(a) /\ RestoreOK(a)
      BY <1>1, <1>4 DEF Good, CalmOK
    <2>2. Of(a.stored, p)
      BY <2>1 DEF HeldOK
    <2>3. HeldOK(b)
      BY <1>1, <1>2, <2>1, <2>2 DEF HeldOK
    <2>4. SignedOutOK(b)
      BY <1>1, <2>1 DEF SignedOutOK
    <2>5. SignedInOK(b)
      BY <1>1, <1>2, <2>1, <2>2 DEF SignedInOK, HeldOK, Of
    <2>6. RestoreOK(b)
      BY <1>1, <1>2, <2>1, <2>2 DEF RestoreOK, Of
    <2>7. QED
      BY <1>1, <2>2, <2>3, <2>4, <2>5, <2>6
  <1>5. CalmOK(b)
    BY <1>4 DEF CalmOK
  <1>6. ResultOK(b, p)
    BY <1>4 DEF ResultOK
  <1>7. QED
    BY <1>1, <1>3, <1>5, <1>6 DEF Good, Runs

\* A refresh whose session was cleared deletes the token it had stored.
LEMMA TokenDropped ==
  ASSUME NEW a, NEW g, NEW l, Good(a, g, l), a.refresh.pc = "write", ~a.refresh.fresh,
         NEW b, b = [a EXCEPT !.stored = None]
  PROVE  /\ Good(b, g, l) /\ GuestOK(b, "refresh", None) /\ Runs(a, b) /\ b.logout = a.logout
         /\ b.refresh = a.refresh /\ b.slips = a.slips
  <1>1. /\ b \in App /\ b.stored = None
        /\ b.access = a.access /\ b.recent = a.recent /\ b.status = a.status /\ b.user = a.user
        /\ b.restore = a.restore /\ b.refresh = a.refresh /\ b.login = a.login
        /\ b.logout = a.logout /\ b.req = a.req /\ b.slips = a.slips
    BY DEF Good, App
  <1>2. a.login.pc # "write"
    BY DEF Good, BaseOK, LoginOK
  <1>3. BaseOK(b, g, l)
    <2>1. CallsOK(b)
      BY <1>1 DEF Good, BaseOK, CallsOK
    <2>2. TokensOK(b, g, l) /\ RefreshOK(b)
      BY <1>1 DEF Good, BaseOK, TokensOK, TokenOK, RefreshOK
    <2>3. LoginOK(b, g)
      BY <1>1 DEF Good, BaseOK, LoginOK, Of
    <2>4. QED
      BY <2>1, <2>2, <2>3 DEF BaseOK
  <1>4. ASSUME b.slips = {}, ~StoreFails
        PROVE  /\ ~b.restore.fresh
               /\ HeldOK(b) /\ SignedOutOK(b) /\ SignedInOK(b) /\ RestoreOK(b)
    <2>1. HeldOK(a) /\ SignedOutOK(a) /\ SignedInOK(a) /\ RestoreOK(a)
      BY <1>1, <1>4 DEF Good, CalmOK
    <2>2. a.status = "unauthenticated" /\ a.access = None /\ a.recent = None /\ ~a.restore.fresh
      BY <2>1 DEF HeldOK, SignedOutOK
    <2>3. HeldOK(b)
      BY <1>1, <1>2, <2>1, <2>2 DEF HeldOK
    <2>4. SignedOutOK(b) /\ SignedInOK(b)
      BY <1>1, <2>1, <2>2 DEF SignedOutOK, SignedInOK
    <2>5. RestoreOK(b)
      BY <1>1, <2>1, <2>2 DEF RestoreOK
    <2>6. QED
      BY <1>1, <2>2, <2>3, <2>4, <2>5
  <1>5. CalmOK(b) /\ GuestOK(b, "refresh", None)
    BY <1>4 DEF CalmOK, GuestOK
  <1>6. QED
    BY <1>1, <1>3, <1>5 DEF Good, Runs

\* The store reports the new token, and whoever waited goes on.
LEMMA WriteStep ==
  ASSUME IInv, RefreshWritten
  PROVE  Kept
  <1>1. /\ Good(app, gen, lost) /\ app.refresh.pc = "write" /\ gen' = gen /\ lost' = lost
    BY DeviceGood DEF RefreshWritten, serverVars, historyVars
  <1>2. app.refresh.token \in Tokens /\ app.refresh.token # None /\ Presented \in Logins
        /\ app.refresh.token[1] = Presented
    <2>1. app.refresh.token \in Tokens /\ app.refresh.token # None
      BY <1>1 DEF Good, App, Refresh, BaseOK, RefreshOK
    <2>2. QED
      BY <2>1, TokenParts DEF Presented
  <1>3. ASSUME app.refresh.fresh,
               app' \in RefreshSettles([app EXCEPT !.access = Presented, !.recent = Presented], Presented)
        PROVE  Kept
    <2> DEFINE c == [app EXCEPT !.access = Presented, !.recent = Presented]
    <2>1. c = [app EXCEPT !.access = Presented, !.recent = Presented]
      OBVIOUS
    <2>2. app' \in RefreshSettles(c, Presented)
      BY <1>3
    <2> HIDE DEF c
    <2>3. /\ c \in App /\ c.access = Presented /\ c.recent = Presented
          /\ c.stored = app.stored /\ c.status = app.status /\ c.user = app.user /\ c.restore = app.restore
          /\ c.refresh = app.refresh /\ c.login = app.login
          /\ c.logout = app.logout /\ c.req = app.req /\ c.slips = app.slips
      BY <1>1, <1>2, <2>1 DEF Good, App
    <2>7. Good(c, gen, lost) /\ ResultOK(c, Presented) /\ Runs(app, c)
      BY <1>1, <1>2, <1>3, <2>3, TokenHeld
    <2>4. GuestOK(c, "refresh", Presented)
      BY <1>2, Others DEF GuestOK
    <2>5. Good(app', gen, lost) /\ Settled(c, app')
      BY <1>1, <2>2, <2>3, <2>4, <2>7, RefreshOver
    <2>6. QED
      BY <1>1, <2>3, <2>5, <2>7, SettledLater, SettledKept
  <1>4. ASSUME ~app.refresh.fresh, app' \in RefreshSettles([app EXCEPT !.stored = None], None)
        PROVE  Kept
    <2> DEFINE c == [app EXCEPT !.stored = None]
    <2>1. c = [app EXCEPT !.stored = None]
      OBVIOUS
    <2>2. app' \in RefreshSettles(c, None)
      BY <1>4
    <2> HIDE DEF c
    <2>3. /\ Good(c, gen, lost) /\ GuestOK(c, "refresh", None) /\ Runs(app, c) /\ c.logout = app.logout
          /\ c.refresh = app.refresh
      BY <1>1, <1>4, <2>1, TokenDropped
    <2>4. ResultOK(c, None)
      BY Others DEF ResultOK
    <2>5. Good(app', gen, lost) /\ Settled(c, app')
      BY <1>1, <2>2, <2>3, <2>4, RefreshOver
    <2>6. QED
      BY <1>1, <2>3, <2>5, SettledLater, SettledKept
  <1>5. ASSUME app' \in RefreshSettles(app, "error")
        PROVE  Kept
    <2>1. ResultOK(app, "error") /\ GuestOK(app, "refresh", "error")
      BY Others DEF ResultOK, GuestOK
    <2>2. QED
      BY <1>1, <1>5, <2>1, RefreshOver, SettledKept
  <1>6. ASSUME NEW b \in clearSession(app), app' \in RefreshSettles(b, "error")
        PROVE  Kept
    <2>1. Good(b, gen, lost) /\ Runs(app, b)
      BY <1>1, Cleared DEF Good
    <2>2. b.logout = app.logout
      BY <1>1, ClearedFields DEF Good
    <2>3. ResultOK(b, "error") /\ GuestOK(b, "refresh", "error")
      BY Others DEF ResultOK, GuestOK
    <2>4. Good(app', gen, lost) /\ Settled(b, app')
      BY <1>1, <1>6, <2>1, <2>3, RefreshOver DEF Runs
    <2>5. QED
      BY <1>1, <2>1, <2>2, <2>4, SettledLater, SettledKept
  <1>7. QED
    BY <1>3, <1>4, <1>5, <1>6 DEF RefreshWritten

\* The refreshed token answers no more calls.
LEMMA GraceStep ==
  ASSUME IInv, GraceOver
  PROVE  Kept
  <1>1. /\ Good(app, gen, lost) /\ gen' = gen /\ lost' = lost /\ app' = [app EXCEPT !.recent = None]
    BY DeviceGood DEF GraceOver, serverVars, historyVars
  <1>2. /\ app' \in App /\ app'.recent = None
        /\ app'.stored = app.stored /\ app'.access = app.access /\ app'.status = app.status
        /\ app'.user = app.user /\ app'.restore = app.restore /\ app'.refresh = app.refresh
        /\ app'.login = app.login /\ app'.logout = app.logout /\ app'.req = app.req
        /\ app'.slips = app.slips
    BY <1>1 DEF Good, App
  <1>3. BaseOK(app', gen, lost)
    <2>1. CallsOK(app') /\ TokensOK(app', gen, lost)
      BY <1>1, <1>2 DEF Good, BaseOK, CallsOK, TokensOK
    <2>2. RefreshOK(app') /\ LoginOK(app', gen)
      BY <1>1, <1>2 DEF Good, BaseOK, RefreshOK, LoginOK
    <2>3. QED
      BY <2>1, <2>2 DEF BaseOK
  <1>4. CalmOK(app')
    <2> SUFFICES ASSUME app'.slips = {}, ~StoreFails
                 PROVE  HeldOK(app') /\ SignedOutOK(app') /\ SignedInOK(app') /\ RestoreOK(app')
      BY DEF CalmOK
    <2>1. HeldOK(app) /\ SignedOutOK(app) /\ SignedInOK(app) /\ RestoreOK(app)
      BY <1>1, <1>2 DEF Good, CalmOK
    <2>2. HeldOK(app') /\ SignedOutOK(app')
      BY <1>2, <2>1 DEF HeldOK, SignedOutOK
    <2>3. SignedInOK(app') /\ RestoreOK(app')
      BY <1>2, <2>1 DEF SignedInOK, RestoreOK
    <2>4. QED
      BY <2>2, <2>3
  <1>5. QED
    BY <1>1, <1>2, <1>3, <1>4, SettledKept DEF Good, Settled

-----------------------------------------------------------------------------
(* The steps of the calls.                                                 *)

\* The profile that a restore asked for is shown, unless it is stale.
LEMMA ProfileAccepted ==
  ASSUME NEW a, NEW g, NEW l, Good(a, g, l), a.req["me"].pc \in {"sent", "resent"},
         a.req["me"].as \in Logins, NEW b \in Accepted(a, "me")
  PROVE  Good(b, g, l) /\ Settled(a, b)
  <1> DEFINE f == a.req["me"].as
             d == [a EXCEPT !.req["me"] = NoRequest]
             i == SignedInAs(d, f)
             c == IF a.restore.fresh THEN Slipped(i, "tokenless", a.access = None) ELSE d
             s == [pc |-> "idle", fresh |-> FALSE]
  <1>1. b = [c EXCEPT !.restore = s]
    BY DEF Accepted
  <1>2. "me" \in Requests /\ "logout" \in Requests
    BY DEF Requests
  <1>3. /\ d \in App /\ d.req["me"].pc = "idle" /\ d.req["logout"] = a.req["logout"]
        /\ d.stored = a.stored /\ d.access = a.access /\ d.recent = a.recent /\ d.status = a.status
        /\ d.user = a.user /\ d.refresh = a.refresh /\ d.restore = a.restore /\ d.login = a.login
        /\ d.logout = a.logout /\ d.slips = a.slips
    <2> DEFINE q == [a.req EXCEPT !["me"] = NoRequest]
    <2>1. q \in [Requests -> Request] /\ q["me"].pc = "idle" /\ q["logout"] = a.req["logout"]
      BY <1>2, NoRequestIdle DEF Good, App
    <2>2. d = [a EXCEPT !.req = q]
      BY DEF Good, App
    <2> HIDE DEF q, d
    <2>3. QED
      BY <2>1, <2>2 DEF Good, App
  <1> HIDE DEF d
  <1>4. f \in Logins /\ UserOf[f] \in Users /\ UserOf[f] # None
    BY Others DEF Users
  <1> HIDE DEF f
  <1>5. /\ i \in App /\ i.user = UserOf[f] /\ i.status = "authenticated"
        /\ i.req = d.req
        /\ i.stored = a.stored /\ i.access = a.access /\ i.recent = a.recent
        /\ i.refresh = a.refresh /\ i.restore = a.restore /\ i.login = a.login
        /\ i.logout = a.logout /\ i.slips = a.slips
    BY <1>3, <1>4 DEF SignedInAs, App
  <1> HIDE DEF i
  <1>6. /\ c \in App /\ c.req = d.req
        /\ a.restore.fresh => /\ c.user = UserOf[f] /\ c.status = "authenticated"
                              /\ a.access = None => c.slips # {}
        /\ ~a.restore.fresh => c.user = a.user /\ c.status = a.status
        /\ a.slips \subseteq c.slips
        /\ c.stored = a.stored /\ c.access = a.access /\ c.recent = a.recent
        /\ c.refresh = a.refresh /\ c.restore = a.restore /\ c.login = a.login /\ c.logout = a.logout
    <2>1. CASE a.restore.fresh /\ a.access = None
      <3> DEFINE S == a.slips \cup {"tokenless"}
      <3>1. S \in SUBSET Slips /\ a.slips \subseteq S /\ S # {}
        BY <1>3 DEF App, Slips
      <3>2. c = [i EXCEPT !.slips = S]
        BY <1>5, <2>1 DEF Slipped
      <3> HIDE DEF S, c
      <3>3. QED
        BY <1>5, <2>1, <3>1, <3>2 DEF App
    <2>2. CASE a.restore.fresh /\ a.access # None
      <3>1. c = i
        BY <2>2 DEF Slipped
      <3> HIDE DEF c
      <3>2. QED
        BY <1>5, <2>2, <3>1
    <2>3. CASE ~a.restore.fresh
      <3>1. c = d
        BY <2>3
      <3> HIDE DEF c
      <3>2. QED
        BY <1>3, <2>3, <3>1
    <2>4. QED
      BY <2>1, <2>2, <2>3
  <1> HIDE DEF c
  <1>7. s \in Restore /\ s.pc = "idle" /\ ~s.fresh
    BY DEF Restore
  <1> HIDE DEF s
  <1>8. /\ b \in App /\ b.restore = s /\ b.req = d.req /\ b.user = c.user /\ b.status = c.status
        /\ b.slips = c.slips /\ b.stored = a.stored /\ b.access = a.access /\ b.recent = a.recent
        /\ b.refresh = a.refresh /\ b.login = a.login /\ b.logout = a.logout
    BY <1>1, <1>6, <1>7 DEF App
  <1>9. BaseOK(b, g, l)
    <2>1. CallsOK(b)
      BY <1>3, <1>8 DEF Good, BaseOK, CallsOK
    <2>2. TokensOK(b, g, l)
      BY <1>8 DEF Good, BaseOK, TokensOK
    <2>3. RefreshOK(b)
      BY <1>6, <1>8 DEF Good, BaseOK, RefreshOK
    <2>4. LoginOK(b, g)
      BY <1>7, <1>8 DEF Good, BaseOK, LoginOK
    <2>5. QED
      BY <2>1, <2>2, <2>3, <2>4 DEF BaseOK
  <1>10. CalmOK(b)
    <2> SUFFICES ASSUME b.slips = {}, ~StoreFails
                 PROVE  HeldOK(b) /\ SignedOutOK(b) /\ SignedInOK(b) /\ RestoreOK(b)
      BY DEF CalmOK
    <2>1. HeldOK(a) /\ SignedOutOK(a) /\ SignedInOK(a) /\ RestoreOK(a)
      BY <1>6, <1>8 DEF Good, CalmOK
    <2>2. a.restore.pc = "me"
      BY DEF Good, BaseOK, CallsOK
    <2>3. a.restore.fresh => /\ a.access # None /\ a.status # "unauthenticated"
                             /\ Of(a.stored, f) /\ Of(a.stored, a.access)
      BY <1>4, <1>6, <1>8, <2>1, <2>2, Others DEF RestoreOK, SignedOutOK, HeldOK, f
    <2>4. HeldOK(b)
      BY <1>6, <1>8, <2>1, <2>3 DEF HeldOK
    <2>5. SignedOutOK(b)
      BY <1>6, <1>7, <1>8, <2>1 DEF SignedOutOK
    <2>6. SignedInOK(b)
      BY <1>6, <1>8, <2>1, <2>3 DEF SignedInOK, Of
    <2>7. RestoreOK(b)
      BY <1>6, <1>7, <1>8, <2>1 DEF RestoreOK
    <2>8. QED
      BY <2>4, <2>5, <2>6, <2>7
  <1>11. QED
    BY <1>6, <1>8, <1>9, <1>10 DEF Good, Settled

\* A saved nickname brings a user that is shown in any case.
LEMMA NicknameAccepted ==
  ASSUME NEW a, NEW g, NEW l, Good(a, g, l), "rename" \in Requests,
         a.req["rename"].as \in Logins, NEW b \in Accepted(a, "rename")
  PROVE  Good(b, g, l) /\ Settled(a, b)
  <1> DEFINE f == a.req["rename"].as
             d == [a EXCEPT !.req["rename"] = NoRequest]
             i == SignedInAs(d, f)
  <1>1. b = Slipped(i, "user", UserOf[f] # a.user)
    BY DEF Accepted
  <1>2. "me" \in Requests /\ "logout" \in Requests
    BY DEF Requests
  <1>3. Good(d, g, l) /\ SameSession(a, d) /\ d.logout = a.logout
    <2>1. Moved(a, d, "rename", NoRequest)
      BY Zenon, NoRequestIdle, RequestAssigned DEF Good
    <2> HIDE DEF d
    <2>2. QED
      BY <2>1, NoRequestIdle, RequestMoves DEF Moved
  <1> HIDE DEF d
  <1>4. f \in Logins /\ UserOf[f] \in Users /\ UserOf[f] # None
    BY Others DEF Users
  <1> HIDE DEF f
  <1>5. /\ i \in App /\ i.user = UserOf[f] /\ i.status = "authenticated"
        /\ i.req = d.req
        /\ i.stored = a.stored /\ i.access = a.access /\ i.recent = a.recent
        /\ i.refresh = a.refresh /\ i.restore = a.restore /\ i.login = a.login
        /\ i.logout = a.logout /\ i.slips = a.slips
    BY <1>3, <1>4 DEF SignedInAs, Good, App, SameSession
  <1> HIDE DEF i
  <1>6. /\ b \in App /\ b.user = UserOf[f] /\ b.status = "authenticated"
        /\ b.req = d.req
        /\ b.stored = a.stored /\ b.access = a.access /\ b.recent = a.recent
        /\ b.refresh = a.refresh /\ b.restore = a.restore /\ b.login = a.login
        /\ b.logout = a.logout /\ a.slips \subseteq b.slips
        /\ UserOf[f] # a.user => b.slips # {}
    <2>1. CASE UserOf[f] # a.user
      <3> DEFINE S == a.slips \cup {"user"}
      <3>1. S \in SUBSET Slips /\ a.slips \subseteq S /\ S # {}
        BY DEF Good, App, Slips
      <3>2. b = [i EXCEPT !.slips = S]
        BY <1>1, <1>5, <2>1 DEF Slipped
      <3> HIDE DEF S
      <3>3. QED
        BY <1>5, <2>1, <3>1, <3>2 DEF App
    <2>2. CASE UserOf[f] = a.user
      BY <1>1, <1>5, <2>2 DEF Slipped
    <2>3. QED
      BY <2>1, <2>2
  <1>7. BaseOK(b, g, l)
    <2>1. CallsOK(b)
      BY <1>3, <1>6 DEF Good, BaseOK, CallsOK, SameSession
    <2>2. TokensOK(b, g, l)
      BY <1>6 DEF Good, BaseOK, TokensOK
    <2>3. RefreshOK(b)
      BY <1>6 DEF Good, BaseOK, RefreshOK
    <2>4. LoginOK(b, g)
      BY <1>6 DEF Good, BaseOK, LoginOK
    <2>5. QED
      BY <2>1, <2>2, <2>3, <2>4 DEF BaseOK
  <1>8. CalmOK(b)
    <2> SUFFICES ASSUME b.slips = {}, ~StoreFails
                 PROVE  HeldOK(b) /\ SignedOutOK(b) /\ SignedInOK(b) /\ RestoreOK(b)
      BY DEF CalmOK
    <2>1. HeldOK(d) /\ SignedOutOK(d) /\ SignedInOK(d) /\ RestoreOK(d)
      BY <1>3, <1>6 DEF Good, CalmOK, SameSession
    <2>2. d.user = UserOf[f] /\ d.status = "authenticated" /\ b.status = d.status /\ b.user = d.user
      BY <1>3, <1>4, <1>6, <2>1 DEF SignedInOK, SameSession
    <2>3. HeldOK(b) /\ SignedOutOK(b)
      BY <1>3, <1>6, <2>1, <2>2 DEF HeldOK, SignedOutOK, SameSession
    <2>4. SignedInOK(b)
      BY <1>3, <1>6, <2>1, <2>2 DEF SignedInOK, SameSession
    <2>5. RestoreOK(b)
      BY <1>3, <1>6, <2>1, <2>2 DEF RestoreOK, SameSession
    <2>6. QED
      BY <2>3, <2>4, <2>5
  <1>9. QED
    BY <1>6, <1>7, <1>8 DEF Good, Settled

\* A request is over.
LEMMA RequestEnds ==
  ASSUME NEW a, NEW r \in Requests, NEW b, Moved(a, b, r, NoRequest),
         NEW g, NEW l, Good(a, g, l)
  PROVE  Good(b, g, l) /\ SameSession(a, b) /\ b.logout = a.logout /\ b.req[r].pc = "idle"
  <1> DEFINE R == {r}
  <1>1. R \in SUBSET Requests /\ Ended(a, b, R)
    BY DEF Ended, Moved, SameSession, App
  <1> HIDE DEF R
  <1>2. Good(b, g, l)
    BY <1>1, EndedGood DEF Moved, SameSession
  <1>3. QED
    BY <1>2, NoRequestIdle DEF Moved

\* Whoever lets a logout go clears the session next.
LEMMA LoggedOut ==
  ASSUME NEW a \in App, NEW g, NEW l, BaseOK(a, g, l), a.req["logout"].pc = "idle",
         NEW c, c = [a EXCEPT !.logout = [pc |-> "idle", token |-> None]],
         NEW b \in clearSession(c)
  PROVE  /\ Good(b, g, l) /\ a.slips \subseteq b.slips /\ b.stored \in {a.stored, None}
         /\ a.login.pc = "write" => b.slips # {}
  <1> DEFINE o == [pc |-> "idle", token |-> None]
  <1>1. o \in Logout /\ o.pc = "idle"
    BY DEF Logout
  <1>2. c = [a EXCEPT !.logout = o]
    OBVIOUS
  <1> HIDE DEF o
  <1>3. /\ c \in App /\ c.logout = o
        /\ c.stored = a.stored /\ c.access = a.access /\ c.recent = a.recent /\ c.status = a.status
        /\ c.user = a.user /\ c.refresh = a.refresh /\ c.restore = a.restore /\ c.login = a.login
        /\ c.req = a.req /\ c.slips = a.slips
    BY <1>1, <1>2 DEF App
  <1>4. BaseOK(c, g, l)
    <2>1. CallsOK(c)
      BY <1>3 DEF BaseOK, CallsOK
    <2>2. TokensOK(c, g, l) /\ RefreshOK(c)
      BY <1>3 DEF BaseOK, TokensOK, RefreshOK
    <2>3. LoginOK(c, g)
      BY <1>3 DEF BaseOK, LoginOK
    <2>4. QED
      BY <2>1, <2>2, <2>3 DEF BaseOK
  <1>5. Good(b, g, l) /\ Runs(c, b)
    BY <1>3, <1>4, Cleared
  <1>6. c.login.pc = "write" => b.slips # {}
    BY <1>3, ClearedFields
  <1>7. QED
    BY <1>3, <1>5, <1>6 DEF Runs

\* What the caller of a served request does with the answer.
LEMMA Answered ==
  ASSUME NEW a, NEW r \in Requests, NEW g, NEW l, Good(a, g, l), a.req[r].pc \in {"sent", "resent"},
         a.req[r].as \in Logins, NEW b \in Accepted(a, r)
  PROVE  Good(b, g, l) /\ Settled(a, b)
  <1>1. r \in {"me", "logout", "rename", "delete"}
    BY ConstantsAssumption DEF Requests
  <1>2. CASE r = "me"
    BY <1>2, ProfileAccepted
  <1>3. CASE r = "rename"
    BY <1>3, NicknameAccepted
  <1> DEFINE d == [a EXCEPT !.req[r] = NoRequest]
  <1>4. CASE r = "delete"
    <2> DEFINE q == [NoRequest EXCEPT !.pc = "leave"]
    <2>1. b = [d EXCEPT !.req["delete"].pc = "leave"]
      BY <1>4 DEF Accepted
    <2>2. q \in Request
      BY DEF NoRequest, Request
    <2>3. b = [a EXCEPT !.req[r] = q]
      BY <1>4, <2>1 DEF Good, App
    <2> HIDE DEF q, d
    <2>6. Moved(a, b, r, q)
      BY Zenon, <2>2, <2>3, RequestAssigned DEF Good
    <2>4. Good(b, g, l) /\ SameSession(a, b) /\ b.logout = a.logout
      BY <1>4, <2>2, <2>6, RequestMoves DEF Moved
    <2>5. QED
      BY <2>4 DEF SameSession, Settled
  <1>5. CASE r = "logout"
    <2>1. b \in clearSession([d EXCEPT !.logout = [pc |-> "idle", token |-> None]])
      BY <1>5 DEF Accepted
    <2>2. Moved(a, d, r, NoRequest)
      BY Zenon, NoRequestIdle, RequestAssigned DEF Good
    <2> HIDE DEF d
    <2>3. Good(d, g, l) /\ SameSession(a, d) /\ d.req[r].pc = "idle"
      BY <2>2, RequestEnds
    <2> DEFINE c == [d EXCEPT !.logout = [pc |-> "idle", token |-> None]]
    <2>4. c = [d EXCEPT !.logout = [pc |-> "idle", token |-> None]] /\ b \in clearSession(c)
      BY <2>1
    <2> HIDE DEF c
    <2>5. Good(b, g, l) /\ d.slips \subseteq b.slips /\ b.stored \in {d.stored, None}
      BY <1>5, <2>3, <2>4, LoggedOut DEF Good
    <2>6. a.logout.pc = "post"
      BY <1>5 DEF Good, BaseOK, CallsOK
    <2>7. QED
      BY <2>3, <2>5, <2>6 DEF SameSession, Settled
  <1>6. QED
    BY <1>1, <1>2, <1>3, <1>4, <1>5

\* A request that rejects.
LEMMA OneRejected ==
  ASSUME NEW a, NEW r \in Requests, NEW g, NEW l, Good(a, g, l), a.req[r].pc # "idle",
         NEW b \in Rejected(a, {r})
  PROVE  Good(b, g, l) /\ Settled(a, b)
  <1>1. {r} \in SUBSET Requests /\ \A x \in {r} : a.req[x].pc # "idle"
    OBVIOUS
  <1> DEFINE R == {r}
  <1>2. R \in SUBSET Requests /\ (\A x \in R : a.req[x].pc # "idle") /\ b \in Rejected(a, R)
    BY <1>1
  <1> HIDE DEF R
  <1>3. Good(b, g, l) /\ Runs(a, b)
    BY <1>2, Rejects
  <1>4. QED
    BY <1>3 DEF Runs, Settled

\* A page calls the server.
LEMMA PageStep ==
  ASSUME IInv, NEW r \in Requests, PageCalls(r)
  PROVE  Kept
  <1>1. /\ Good(app, gen, lost) /\ gen' = gen /\ lost' = lost /\ r \in {"rename", "delete"}
        /\ app' = [app EXCEPT !.req[r] = [pc |-> "sent", as |-> app.access]]
    BY DeviceGood, ConstantsAssumption DEF PageCalls, serverVars, historyVars
  <1> DEFINE q == [pc |-> "sent", as |-> app.access]
  <1>2. q \in Request /\ app' = [app EXCEPT !.req[r] = q]
    BY <1>1 DEF Good, App, Request
  <1> HIDE DEF q
  <1>3. Good(app', gen, lost) /\ SameSession(app, app') /\ app'.logout = app.logout
    <2>1. Moved(app, app', r, q)
      BY Zenon, <1>1, <1>2, RequestAssigned DEF Good
    <2>2. QED
      BY <1>1, <1>2, <2>1, RequestMoves DEF Moved
  <1>4. QED
    BY <1>1, <1>3, SettledKept DEF SameSession, Settled

\* A call is served; its answer arrives or is lost.
LEMMA SucceedStep ==
  ASSUME IInv, NEW r \in Requests, CallSucceeds(r)
  PROVE  Kept
  <1>1. /\ TypeOK /\ Good(app, gen, lost) /\ gen' = gen /\ lost' = lost
        /\ app.req[r].pc \in {"sent", "resent"} /\ app.req[r].as \in alive
        /\ app' \in Accepted(app, r) \/ app' \in Rejected(app, {r})
    BY DeviceGood DEF CallSucceeds, Pending, historyVars
  <1>2. app.req[r].as \in Logins
    BY <1>1 DEF TypeOK
  <1>3. CASE app' \in Accepted(app, r)
    BY <1>1, <1>2, <1>3, Answered, SettledKept
  <1>4. CASE app' \in Rejected(app, {r})
    BY <1>1, <1>4, OneRejected, SettledKept
  <1>5. QED
    BY <1>1, <1>3, <1>4

\* A call never reaches the server.
LEMMA CallFailStep ==
  ASSUME IInv, NEW r \in Requests, CallFails(r)
  PROVE  Kept
  <1>1. /\ Good(app, gen, lost) /\ gen' = gen /\ lost' = lost
        /\ app.req[r].pc \in {"sent", "resent"} /\ app' \in Rejected(app, {r})
    BY DeviceGood DEF CallFails, Pending, serverVars, historyVars
  <1>2. QED
    BY <1>1, OneRejected, SettledKept

\* A first 401 waits for a new token, a second clears the session.
LEMMA CallRefusedStep ==
  ASSUME IInv, NEW r \in Requests, CallRefused(r)
  PROVE  Kept
  <1>1. /\ Good(app, gen, lost) /\ gen' = gen /\ lost' = lost
    BY DeviceGood DEF CallRefused, serverVars, historyVars
  <1>2. CASE app.req[r].pc = "sent" /\ app' = NeedsToken(app, r)
    <2>1. /\ Good(app', gen, lost) /\ app'.stored = app.stored /\ app'.slips = app.slips
          /\ app'.logout = app.logout
      BY <1>1, <1>2, NeedsTokenGood
    <2>2. QED
      BY <1>1, <2>1, SettledKept DEF Settled
  <1>3. ASSUME app.req[r].pc = "resent", NEW b \in clearSession(app), app' \in Rejected(b, {r})
        PROVE  Kept
    <2>1. Good(b, gen, lost) /\ Runs(app, b)
      BY <1>1, Cleared DEF Good
    <2>2. b.logout = app.logout /\ b.req = app.req
      BY <1>1, ClearedFields DEF Good
    <2>3. Good(app', gen, lost) /\ Settled(b, app')
      BY <1>3, <2>1, <2>2, OneRejected
    <2>4. QED
      BY <1>1, <2>1, <2>2, <2>3, SettledLater, SettledKept
  <1>4. QED
    BY <1>2, <1>3 DEF CallRefused

\* The withdrawal signs out at its end.
LEMMA LeaveStep ==
  ASSUME IInv, WithdrawalLeaves
  PROVE  Kept
  <1>1. /\ Good(app, gen, lost) /\ gen' = gen /\ lost' = lost /\ "delete" \in Requests
        /\ app' \in clearSession([app EXCEPT !.req["delete"] = NoRequest])
    BY DeviceGood DEF WithdrawalLeaves, serverVars, historyVars, Requests
  <1> DEFINE c == [app EXCEPT !.req["delete"] = NoRequest]
  <1>2. Moved(app, c, "delete", NoRequest) /\ app' \in clearSession(c)
    BY Zenon, <1>1, NoRequestIdle, RequestAssigned DEF Good
  <1> HIDE DEF c
  <1>3. Good(c, gen, lost) /\ SameSession(app, c) /\ c.logout = app.logout
    BY <1>1, <1>2, RequestEnds
  <1>4. Good(app', gen, lost) /\ Runs(c, app')
    BY <1>2, <1>3, Cleared DEF Good
  <1>5. QED
    BY <1>1, <1>3, <1>4, SettledKept DEF SameSession, Runs, Settled

-----------------------------------------------------------------------------
(* The steps of restore, login and logout, and of the environment.         *)

\* RestoreStarted(a) is b, and c what it has before it asks for a token.
Begins(a, c, b) ==
    IF AnswersAtOnce(a) THEN b = RestoreResumes(c, AwaitedPromise(a), a.recent) ELSE b = WithRefresh(c)

\* A restore begins on a device that is fit for it.
LEMMA RestoreBegins ==
  ASSUME NEW a, NEW c, NEW b, NEW g, NEW l, Good(c, g, l), Begins(a, c, b),
         c.login = a.login, c.refresh = a.refresh, c.recent = a.recent
  PROVE  /\ Good(b, g, l) /\ Settled(c, b)
         /\ a.recent = None => b.status = c.status
  <1>1. CASE AnswersAtOnce(a)
    <2>1. b = RestoreResumes(c, AwaitedPromise(a), a.recent)
      BY <1>1 DEF Begins
    <2>2. AwaitedPromise(a) = "refresh" /\ a.recent \in Logins /\ a.recent # None /\ c.login.pc # "write"
      BY <1>1 DEF AnswersAtOnce, AwaitedPromise, Good, App
    <2>3. Good(b, g, l) /\ Runs(c, b)
      BY <2>1, <2>2, RestoreGoesOn
    <2>4. QED
      BY <2>2, <2>3 DEF Runs, Settled
  <1>2. CASE ~AnswersAtOnce(a)
    <2>1. b = WithRefresh(c)
      BY <1>2 DEF Begins
    <2>2. QED
      BY <2>1, RefreshStarts DEF Settled
  <1>3. QED
    BY <1>1, <1>2

\* The restore is tried again in the foreground.
LEMMA RetryStep ==
  ASSUME IInv, RestoreRetried
  PROVE  Kept
  <1>1. /\ Good(app, gen, lost) /\ gen' = gen /\ lost' = lost /\ app' = RestoreStarted(app)
        /\ app.status = "unavailable" /\ app.restore.pc = "idle"
    BY DeviceGood DEF RestoreRetried, serverVars, historyVars
  <1> DEFINE s == [pc |-> AwaitedPromise(app), fresh |-> TRUE]
             c == [app EXCEPT !.status = "restoring", !.restore = s]
  <1>2. s \in Restore /\ s.fresh /\ s.pc \in {"login", "refresh"} /\ (app.login.pc = "write" => s.pc = "login")
    BY DEF Restore, AwaitedPromise
  <1>3. Begins(app, c, app')
    BY <1>1 DEF RestoreStarted, Begins
  <1> HIDE DEF s
  <1>4. /\ c \in App /\ c.status = "restoring" /\ c.restore = s
        /\ c.stored = app.stored /\ c.access = app.access /\ c.recent = app.recent
        /\ c.user = app.user /\ c.refresh = app.refresh /\ c.login = app.login
        /\ c.logout = app.logout /\ c.req = app.req /\ c.slips = app.slips
    BY <1>1, <1>2 DEF Good, App
  <1> HIDE DEF c
  <1>5. BaseOK(c, gen, lost)
    <2>1. CallsOK(c)
      BY <1>1, <1>4 DEF Good, BaseOK, CallsOK
    <2>2. TokensOK(c, gen, lost) /\ RefreshOK(c)
      BY <1>1, <1>4 DEF Good, BaseOK, TokensOK, RefreshOK
    <2>3. LoginOK(c, gen)
      BY <1>1, <1>2, <1>4 DEF Good, BaseOK, LoginOK
    <2>4. QED
      BY <2>1, <2>2, <2>3 DEF BaseOK
  <1>6. CalmOK(c)
    <2> SUFFICES ASSUME c.slips = {}, ~StoreFails
                 PROVE  HeldOK(c) /\ SignedOutOK(c) /\ SignedInOK(c) /\ RestoreOK(c)
      BY DEF CalmOK
    <2>1. HeldOK(app) /\ SignedOutOK(app) /\ SignedInOK(app) /\ RestoreOK(app)
      BY <1>1, <1>4 DEF Good, CalmOK
    <2>2. HeldOK(c)
      BY <1>1, <1>4, <2>1 DEF HeldOK
    <2>3. SignedOutOK(c) /\ SignedInOK(c)
      BY <1>1, <1>4, <2>1 DEF SignedOutOK, SignedInOK
    <2>4. RestoreOK(c)
      BY <1>2, <1>4, <2>1 DEF RestoreOK
    <2>5. QED
      BY <2>2, <2>3, <2>4
  <1>7. Good(app', gen, lost) /\ Settled(c, app')
    BY <1>1, <1>3, <1>4, <1>5, <1>6, RestoreBegins DEF Good
  <1>8. QED
    BY <1>1, <1>4, <1>7, SettledKept DEF Settled

\* A start is fit for its restore, and leaves what is stored.
LEMMA StartedGood ==
  ASSUME NEW token \in Tokens \cup {None}, NEW slips \in SUBSET Slips, NEW g, NEW l, TokenOK(token, g, l),
         NEW b, b = Started(token, slips)
  PROVE  /\ Good(b, g, l) /\ slips \subseteq b.slips /\ b.status = "restoring"
         /\ b.stored \in {token, None} \/ b.login.pc = "write"
  <1> DEFINE n == [r \in Requests |-> NoRequest]
             a == [stored  |-> token, access |-> None, recent |-> None,
                   status  |-> "restoring", user |-> None,
                   refresh |-> NoRefresh, restore |-> [pc |-> "idle", fresh |-> FALSE],
                   login   |-> NoLogin, logout |-> [pc |-> "idle", token |-> None],
                   req     |-> n, slips |-> slips]
             s == [pc |-> AwaitedPromise(a), fresh |-> TRUE]
             c == [a EXCEPT !.status = "restoring", !.restore = s]
  <1>1. b = RestoreStarted(a)
    BY DEF Started
  <1>2. /\ NoRefresh \in Refresh /\ NoRefresh.pc = "idle" /\ NoRefresh.token = None /\ ~NoRefresh.fresh
        /\ NoLogin \in Login /\ NoLogin.pc = "idle"
    BY DEF NoRefresh, Refresh, NoLogin, Login
  <1>3. n \in [Requests -> Request] /\ n["me"].pc = "idle" /\ n["logout"].pc = "idle"
    BY NoRequestIdle DEF Requests
  <1> HIDE DEF n
  <1>4. /\ a \in App
    BY <1>2, <1>3 DEF App, Restore, Logout
  <1>5. /\ a.stored = token /\ a.access = None /\ a.recent = None /\ a.user = None
        /\ a.refresh = NoRefresh /\ a.login = NoLogin /\ a.req = n /\ a.slips = slips
    OBVIOUS
  <1>6. Begins(a, c, b)
    BY <1>1 DEF RestoreStarted, Begins
  <1> HIDE DEF a
  <1>7. s \in Restore /\ s.fresh /\ s.pc = "refresh"
    BY <1>2, <1>5 DEF Restore, AwaitedPromise
  <1> HIDE DEF s
  <1>8. /\ c \in App /\ c.status = "restoring" /\ c.restore = s
        /\ c.stored = token /\ c.access = None /\ c.recent = None /\ c.user = None
        /\ c.refresh = NoRefresh /\ c.login = NoLogin /\ c.req = n /\ c.slips = slips
    BY <1>4, <1>5, <1>7 DEF App
  <1> HIDE DEF c
  <1>9. BaseOK(c, g, l)
    BY <1>2, <1>3, <1>8 DEF BaseOK, CallsOK, TokensOK, RefreshOK, LoginOK
  <1>10. CalmOK(c)
    <2>1. HeldOK(c) /\ SignedOutOK(c)
      BY <1>2, <1>8 DEF HeldOK, SignedOutOK
    <2>2. SignedInOK(c) /\ RestoreOK(c)
      BY <1>7, <1>8 DEF SignedInOK, RestoreOK
    <2>3. QED
      BY <2>1, <2>2 DEF CalmOK
  <1>11. Good(b, g, l) /\ Settled(c, b) /\ b.status = "restoring"
    BY <1>1, <1>5, <1>6, <1>8, <1>9, <1>10, RestoreBegins DEF Good
  <1>12. QED
    BY <1>8, <1>11 DEF Settled

\* The app starts again with what is stored.
LEMMA KillStep ==
  ASSUME IInv, Killed
  PROVE  Kept
  <1>1. /\ Good(app, gen, lost) /\ gen' = gen /\ lost' = lost /\ app' = Started(app.stored, app.slips)
    BY DeviceGood DEF Killed, serverVars, historyVars
  <1>2. app.stored \in Tokens \cup {None} /\ app.slips \in SUBSET Slips /\ TokenOK(app.stored, gen, lost)
    BY <1>1 DEF Good, App, BaseOK, TokensOK
  <1>3. /\ Good(app', gen, lost) /\ app'.status = "restoring"
        /\ app'.stored \in {app.stored, None} \/ app'.login.pc = "write"
    BY <1>1, <1>2, StartedGood
  <1>4. QED
    BY <1>1, <1>3 DEF Kept, Returns, Told

\* The restore ends without a session.
LEMMA GuestStep ==
  ASSUME IInv, RestoreReadsGuestMode
  PROVE  Kept
  <1>1. /\ Good(app, gen, lost) /\ gen' = gen /\ lost' = lost /\ app.restore.pc = "guest"
        /\ app.req["me"].pc = "idle"
    BY DeviceGood DEF RestoreReadsGuestMode, serverVars, historyVars, Good, BaseOK, CallsOK
  <1>2. CASE app' = [Slipped(app, "guest", ~app.restore.fresh)
                       EXCEPT !.status = "unauthenticated", !.restore = [pc |-> "idle", fresh |-> FALSE]]
    <2> DEFINE c == Slipped(app, "guest", ~app.restore.fresh)
               s == [pc |-> "idle", fresh |-> FALSE]
    <2>1. s \in Restore /\ s.pc = "idle" /\ ~s.fresh
      BY DEF Restore
    <2>2. \E S \in SUBSET Slips : /\ c = [app EXCEPT !.slips = S] /\ app.slips \subseteq S
                                  /\ ~app.restore.fresh => "guest" \in S
      <3>1. CASE app.restore.fresh
        BY <1>1, <3>1 DEF Good, App, Slipped
      <3>2. CASE ~app.restore.fresh
        BY <1>1, <3>2 DEF Good, App, Slipped, Slips
      <3>3. QED
        BY <3>1, <3>2
    <2>3. PICK S \in SUBSET Slips : /\ c = [app EXCEPT !.slips = S] /\ app.slips \subseteq S
                                    /\ ~app.restore.fresh => "guest" \in S
      BY <2>2
    <2>4. app' = [app EXCEPT !.slips = S, !.status = "unauthenticated", !.restore = s]
      BY <1>1, <1>2, <2>3 DEF Good, App
    <2> HIDE DEF c, s
    <2>5. /\ app' \in App /\ app'.status = "unauthenticated" /\ app'.restore = s /\ app'.slips = S
          /\ app'.stored = app.stored /\ app'.access = app.access /\ app'.recent = app.recent
          /\ app'.user = app.user /\ app'.refresh = app.refresh
          /\ app'.login = app.login /\ app'.logout = app.logout /\ app'.req = app.req
      BY <1>1, <2>1, <2>4 DEF Good, App
    <2>6. BaseOK(app', gen, lost)
      <3>1. CallsOK(app')
        BY <1>1, <2>5 DEF Good, BaseOK, CallsOK
      <3>2. TokensOK(app', gen, lost)
        BY <1>1, <2>5 DEF Good, BaseOK, TokensOK
      <3>3. RefreshOK(app')
        BY <1>1, <2>3, <2>5 DEF Good, BaseOK, RefreshOK
      <3>4. LoginOK(app', gen)
        BY <1>1, <2>1, <2>5 DEF Good, BaseOK, LoginOK
      <3>5. QED
        BY <3>1, <3>2, <3>3, <3>4 DEF BaseOK
    <2>7. CalmOK(app')
      <3> SUFFICES ASSUME app'.slips = {}, ~StoreFails
                   PROVE  HeldOK(app') /\ SignedOutOK(app') /\ SignedInOK(app') /\ RestoreOK(app')
        BY DEF CalmOK
      <3>1. app.slips = {} /\ app.restore.fresh
        BY <2>3, <2>5
      <3>2. HeldOK(app) /\ SignedOutOK(app) /\ SignedInOK(app) /\ RestoreOK(app)
        BY <1>1, <3>1 DEF Good, CalmOK
      <3>3. app.status = "restoring" /\ app.access = None /\ app.recent = None /\ app.stored = None
        BY <1>1, <3>1, <3>2 DEF RestoreOK
      <3>4. app.refresh.fresh => app.refresh.token = None
        <4>1. app.refresh.pc \in {"idle", "read", "sent", "write"}
          BY <1>1 DEF Good, App, Refresh
        <4>2. QED
          BY <1>1, <3>1, <3>2, <3>3, <4>1 DEF Good, BaseOK, RefreshOK, HeldOK, Of
      <3>5. HeldOK(app')
        BY <2>5, <3>2, <3>3 DEF HeldOK
      <3>6. SignedOutOK(app')
        BY <2>1, <2>5, <3>3, <3>4 DEF SignedOutOK
      <3>7. SignedInOK(app') /\ RestoreOK(app')
        BY <2>1, <2>5, <3>2, <3>3 DEF SignedInOK, RestoreOK
      <3>8. QED
        BY <3>5, <3>6, <3>7
    <2>8. Settled(app, app')
      BY <2>3, <2>5 DEF Settled
    <2>9. QED
      BY <1>1, <2>5, <2>6, <2>7, <2>8, SettledKept DEF Good
  <1>3. CASE app' = Unavailable(app)
    <2>1. Good(app', gen, lost) /\ Runs(app, app')
      BY <1>1, <1>3, GaveUp
    <2>2. QED
      BY <1>1, <2>1, SettledKept DEF Runs, Settled
  <1>4. QED
    BY <1>2, <1>3 DEF RestoreReadsGuestMode

\* Nobody holds a token of a session that has not been opened.
LEMMA OpenedGood ==
  ASSUME TypeOK, Good(app, gen, lost), NEW f \in Logins, gen[f] = 0, gen' = [gen EXCEPT ![f] = 1],
         app.login.pc = "idle"
  PROVE  /\ Good(app, gen', lost) /\ gen'[f] = 1
         /\ ~Of(app.stored, f)
         /\ app.refresh.pc # "idle" => ~Of(app.refresh.token, f)
  <1>1. gen'[f] = 1 /\ \A x \in Logins : gen[x] \in Nat /\ (x # f => gen'[x] = gen[x])
    BY DEF TypeOK
  <1>2. ASSUME NEW token \in Tokens, token[2] <= gen[token[1]]
        PROVE  token[1] # f /\ gen'[token[1]] = gen[token[1]]
    <2>1. token[1] \in Logins /\ token[2] \in Nat /\ token[2] > 0
      BY TokenParts, ConstantsAssumption
    <2>2. token[1] # f
      BY <1>2, <2>1
    <2>3. QED
      BY <1>1, <2>1, <2>2
  <1>3. app.stored \in Tokens \cup {None} /\ app.refresh.token \in Tokens \cup {None}
    BY DEF Good, App, Refresh
  <1>4. /\ TokenOK(app.stored, gen, lost)
        /\ app.refresh.pc \in {"read", "sent"} => TokenOK(app.refresh.token, gen, lost)
        /\ app.refresh.pc # "idle" /\ app.refresh.token # None =>
              app.refresh.token[2] <= gen[app.refresh.token[1]]
    BY DEF Good, BaseOK, TokensOK
  <1>5. ~Of(app.stored, f) /\ (app.refresh.pc # "idle" => ~Of(app.refresh.token, f))
    BY <1>2, <1>3, <1>4 DEF Of, TokenOK
  <1>6. TokensOK(app, gen', lost)
    <2>1. TokenOK(app.stored, gen', lost)
      BY <1>2, <1>3, <1>4 DEF TokenOK
    <2>2. app.refresh.pc \in {"read", "sent"} => TokenOK(app.refresh.token, gen', lost)
      BY <1>2, <1>3, <1>4 DEF TokenOK
    <2>3. app.refresh.pc # "idle" /\ app.refresh.token # None =>
              app.refresh.token[2] <= gen'[app.refresh.token[1]]
      BY <1>2, <1>3, <1>4
    <2>4. QED
      BY <2>1, <2>2, <2>3 DEF TokensOK
  <1>7. LoginOK(app, gen')
    BY DEF LoginOK
  <1>8. QED
    BY <1>1, <1>5, <1>6, <1>7 DEF Good, BaseOK

\* A login stores its token, or waits for the refresh under way.
LEMMA ArriveStep ==
  ASSUME IInv, NEW f \in Logins, LoginArrives(f)
  PROVE  Kept
  <1>1. /\ TypeOK /\ Good(app, gen, lost) /\ gen[f] = 0 /\ app.login.pc = "idle"
        /\ gen' = [gen EXCEPT ![f] = 1] /\ lost' = lost
    BY DeviceGood DEF LoginArrives, historyVars
  <1>2. /\ Good(app, gen', lost) /\ gen'[f] = 1
        /\ ~Of(app.stored, f)
        /\ app.refresh.pc # "idle" => ~Of(app.refresh.token, f)
    BY <1>1, OpenedGood
  <1>3. CASE app.refresh.pc = "idle" /\ app' \in Establish(app, f)
    <2>1. Good(app', gen', lost) /\ Stores(app, app', f)
      BY <1>2, <1>3, Established
    <2>2. QED
      BY <1>1, <2>1, SettledKept DEF Stores, Settled
  <1>4. CASE /\ app.refresh.pc # "idle"
             /\ app' = [app EXCEPT !.login = [pc |-> "refresh", session |-> f, saved |-> FALSE]]
    <2> DEFINE k == [pc |-> "refresh", session |-> f, saved |-> FALSE]
    <2>1. k \in Login /\ k.pc = "refresh" /\ k.session = f
      BY DEF Login
    <2>2. app' = [app EXCEPT !.login = k]
      BY <1>4
    <2> HIDE DEF k
    <2>3. /\ app' \in App /\ app'.login = k
          /\ app'.stored = app.stored /\ app'.access = app.access /\ app'.recent = app.recent
          /\ app'.status = app.status /\ app'.user = app.user /\ app'.refresh = app.refresh
          /\ app'.restore = app.restore /\ app'.logout = app.logout /\ app'.req = app.req
          /\ app'.slips = app.slips
      BY <1>1, <2>1, <2>2 DEF Good, App
    <2>4. BaseOK(app', gen', lost)
      <3>1. CallsOK(app')
        BY <1>1, <2>3 DEF Good, BaseOK, CallsOK
      <3>2. TokensOK(app', gen', lost)
        BY <1>2, <2>3 DEF Good, BaseOK, TokensOK
      <3>3. RefreshOK(app')
        BY <1>1, <2>3 DEF Good, BaseOK, RefreshOK
      <3>4. LoginOK(app', gen')
        BY <1>2, <1>4, <2>1, <2>3, Others DEF LoginOK
      <3>5. QED
        BY <3>1, <3>2, <3>3, <3>4 DEF BaseOK
    <2>5. CalmOK(app')
      <3> SUFFICES ASSUME app'.slips = {}, ~StoreFails
                   PROVE  HeldOK(app') /\ SignedOutOK(app') /\ SignedInOK(app') /\ RestoreOK(app')
        BY DEF CalmOK
      <3>1. HeldOK(app) /\ SignedOutOK(app) /\ SignedInOK(app) /\ RestoreOK(app)
        BY <1>1, <2>3 DEF Good, CalmOK
      <3>2. HeldOK(app')
        BY <2>1, <2>3, <3>1 DEF HeldOK
      <3>3. SignedOutOK(app') /\ SignedInOK(app')
        BY <1>1, <2>1, <2>3, <3>1 DEF SignedOutOK, SignedInOK
      <3>4. RestoreOK(app')
        BY <1>1, <2>1, <2>3, <3>1 DEF RestoreOK
      <3>5. QED
        BY <3>2, <3>3, <3>4
    <2>6. QED
      BY <1>1, <2>3, <2>4, <2>5, SettledKept DEF Good, Settled
  <1>5. QED
    BY <1>3, <1>4 DEF LoginArrives

\* A login that has stored its token signs in.
LEMMA SignedIn ==
  ASSUME IInv, app.login.pc = "write", NEW f, f = app.login.session, NEW n,
         n = [SignedInAs([app EXCEPT !.access = f], f) EXCEPT !.login = NoLogin]
  PROVE  /\ Good(n, gen, lost) /\ n.login.pc = "idle" /\ ResultOK(n, f) /\ f # None
         /\ n.stored = app.stored /\ n.logout = app.logout /\ n.slips = app.slips
  <1>1. Good(app, gen, lost)
    BY DeviceGood
  <1>2. f \in Logins /\ f # None
    BY <1>1 DEF Good, App, Login, BaseOK, LoginOK
  <1>3. UserOf[f] \in Users
    BY <1>2 DEF Users
  <1>4. NoLogin \in Login /\ NoLogin.pc = "idle"
    BY DEF NoLogin, Login
  <1>5. n = [app EXCEPT !.access = f, !.user = UserOf[f], !.status = "authenticated", !.login = NoLogin]
    BY <1>1 DEF SignedInAs, Good, App
  <1>6. /\ n \in App /\ n.access = f /\ n.user = UserOf[f] /\ n.status = "authenticated"
        /\ n.login = NoLogin /\ n.stored = app.stored /\ n.recent = app.recent
        /\ n.refresh = app.refresh /\ n.restore = app.restore /\ n.logout = app.logout
        /\ n.req = app.req /\ n.slips = app.slips
    BY <1>1, <1>2, <1>3, <1>4, <1>5 DEF Good, App
  <1>7. /\ app.refresh.pc = "idle" /\ ~app.refresh.fresh
        /\ app.restore.fresh => app.restore.pc = "login"
    BY <1>1 DEF Good, BaseOK, RefreshOK, LoginOK
  <1>8. BaseOK(n, gen, lost)
    <2>1. CallsOK(n)
      BY <1>1, <1>6 DEF Good, BaseOK, CallsOK
    <2>2. TokensOK(n, gen, lost)
      BY <1>1, <1>6 DEF Good, BaseOK, TokensOK
    <2>3. RefreshOK(n)
      BY <1>6, <1>7 DEF RefreshOK
    <2>4. LoginOK(n, gen)
      BY <1>4, <1>6 DEF LoginOK
    <2>5. QED
      BY <2>1, <2>2, <2>3, <2>4 DEF BaseOK
  <1>9. ASSUME n.slips = {}, ~StoreFails
        PROVE  /\ Of(app.stored, f) /\ app.recent = None /\ RestoreOK(app)
    BY <1>1, <1>6, <1>9 DEF Good, CalmOK, HeldOK
  <1>10. CalmOK(n)
    <2> SUFFICES ASSUME n.slips = {}, ~StoreFails
                 PROVE  HeldOK(n) /\ SignedOutOK(n) /\ SignedInOK(n) /\ RestoreOK(n)
      BY DEF CalmOK
    <2>1. Of(app.stored, f) /\ app.recent = None /\ RestoreOK(app)
      BY <1>9
    <2>2. HeldOK(n)
      BY <1>4, <1>6, <1>7, <2>1 DEF HeldOK
    <2>3. SignedOutOK(n) /\ SignedInOK(n)
      BY <1>2, <1>6 DEF SignedOutOK, SignedInOK
    <2>4. RestoreOK(n)
      BY <1>6, <1>7, <2>1 DEF RestoreOK
    <2>5. QED
      BY <2>2, <2>3, <2>4
  <1>11. ResultOK(n, f)
    BY <1>2, <1>6, <1>9 DEF ResultOK
  <1>12. QED
    BY <1>2, <1>4, <1>6, <1>8, <1>10, <1>11 DEF Good

\* A login that has not signs out.
LEMMA SignedOut ==
  ASSUME NEW a, NEW c, c = [a EXCEPT !.login = NoLogin], NEW g, NEW l, Good(a, g, l),
         NEW b \in clearSession(c)
  PROVE  /\ Good(b, g, l) /\ Runs(c, b) /\ b.login = NoLogin /\ NoLogin.pc = "idle"
         /\ c.stored = a.stored /\ c.slips = a.slips /\ b.logout = a.logout
  <1>1. NoLogin \in Login /\ NoLogin.pc = "idle"
    BY DEF NoLogin, Login
  <1>2. /\ c \in App /\ c.login = NoLogin
        /\ c.stored = a.stored /\ c.access = a.access /\ c.recent = a.recent /\ c.status = a.status
        /\ c.user = a.user /\ c.refresh = a.refresh /\ c.restore = a.restore
        /\ c.logout = a.logout /\ c.req = a.req /\ c.slips = a.slips
    BY <1>1 DEF Good, App
  <1>3. BaseOK(c, g, l)
    <2>1. CallsOK(c)
      BY <1>2 DEF Good, BaseOK, CallsOK
    <2>2. TokensOK(c, g, l) /\ RefreshOK(c)
      BY <1>2 DEF Good, BaseOK, TokensOK, RefreshOK
    <2>3. LoginOK(c, g)
      BY <1>1, <1>2 DEF LoginOK
    <2>4. QED
      BY <2>1, <2>2, <2>3 DEF BaseOK
  <1>4. Good(b, g, l) /\ Runs(c, b)
    BY <1>2, <1>3, Cleared
  <1>5. b.login = c.login /\ b.logout = c.logout
    BY <1>2, ClearedFields
  <1>6. QED
    BY <1>1, <1>2, <1>4, <1>5

\* The store reports the token of a login.
LEMMA WrittenStep ==
  ASSUME IInv, LoginWritten
  PROVE  Kept
  <1> DEFINE f == app.login.session
  <1>1. /\ Good(app, gen, lost) /\ gen' = gen /\ lost' = lost /\ app.login.pc = "write"
        /\ \/ app' \in LoginSettles(SignedInAs([app EXCEPT !.access = f], f), f)
           \/ \E b \in clearSession([app EXCEPT !.login = NoLogin]) : app' \in LoginSettles(b, "error")
    BY DeviceGood DEF LoginWritten, serverVars, historyVars
  <1>2. CASE app' \in LoginSettles(SignedInAs([app EXCEPT !.access = f], f), f)
    <2> DEFINE s == SignedInAs([app EXCEPT !.access = f], f)
               n == [s EXCEPT !.login = NoLogin]
    <2>1. /\ Good(n, gen, lost) /\ n.login.pc = "idle" /\ ResultOK(n, f) /\ f # None
          /\ n.stored = app.stored /\ n.logout = app.logout /\ n.slips = app.slips
      BY <1>1, SignedIn
    <2>2. app' \in LoginSettles(s, f) /\ LoginDropped(s, n)
      BY <1>2 DEF LoginDropped
    <2> HIDE DEF f, s, n
    <2>3. Good(app', gen, lost) /\ Settled(n, app')
      BY <2>1, <2>2, LoginSettled
    <2>4. QED
      BY <1>1, <2>1, <2>3, SettledKept DEF Settled
  <1>3. ASSUME NEW b \in clearSession([app EXCEPT !.login = NoLogin]), app' \in LoginSettles(b, "error")
        PROVE  Kept
    <2> DEFINE c == [app EXCEPT !.login = NoLogin]
               n == [b EXCEPT !.login = NoLogin]
    <2>1. /\ Good(b, gen, lost) /\ Runs(c, b) /\ b.login = NoLogin /\ NoLogin.pc = "idle"
          /\ c.stored = app.stored /\ c.slips = app.slips /\ b.logout = app.logout
      BY <1>1, <1>3, SignedOut
    <2>2. n = b
      BY <2>1 DEF Good, App
    <2>3. LoginDropped(b, n) /\ Good(n, gen, lost) /\ n.login.pc = "idle"
      BY <2>1, <2>2 DEF LoginDropped
    <2> HIDE DEF c, n
    <2>4. ResultOK(n, "error") /\ "error" # None
      BY Others DEF ResultOK
    <2>5. Good(app', gen, lost) /\ Settled(n, app')
      BY <1>3, <2>3, <2>4, LoginSettled
    <2>6. QED
      BY <1>1, <2>1, <2>2, <2>5, SettledKept DEF Settled, Runs
  <1>4. QED
    BY <1>1, <1>2, <1>3

\* A logout reads what is stored, or waits for a login or a refresh.
LEMMA LogoutStep ==
  ASSUME IInv, LogoutStarts
  PROVE  Kept
  <1>1. /\ Good(app, gen, lost) /\ gen' = gen /\ lost' = lost /\ app.logout.pc = "idle"
    BY DeviceGood DEF LogoutStarts, serverVars, historyVars
  <1>2. ASSUME NEW p \in {"login", "refresh"}, app' = [app EXCEPT !.logout.pc = p]
        PROVE  Kept
    <2> DEFINE o == [app.logout EXCEPT !.pc = p]
    <2>1. o \in Logout /\ app' = [app EXCEPT !.logout = o]
      BY <1>1, <1>2 DEF Good, App, Logout
    <2> HIDE DEF o
    <2>2. SameSession(app, app') /\ app'.req = app.req
      BY <1>1, <2>1 DEF Good, App, SameSession
    <2>3. CallsOK(app')
      BY <1>1, <2>2 DEF Good, BaseOK, CallsOK, SameSession
    <2>4. Good(app', gen, lost)
      BY <1>1, <2>2, <2>3, Quiet
    <2>5. QED
      BY <1>1, <2>2, <2>4, SettledKept DEF SameSession, Settled
  <1>3. CASE app' = LogoutResumes(app, "idle")
    <2>1. Good(app', gen, lost) /\ Runs(app, app')
      BY <1>1, <1>3, LogoutGoesOn
    <2>2. QED
      BY <1>1, <2>1, SettledKept DEF Runs, Settled
  <1>4. QED
    BY <1>2, <1>3 DEF LogoutStarts

\* A logout asks the server, or clears the session at once.
LEMMA LogoutReadStep ==
  ASSUME IInv, LogoutRead
  PROVE  Kept
  <1>1. /\ Good(app, gen, lost) /\ gen' = gen /\ lost' = lost /\ app.logout.pc = "read"
        /\ app.req["logout"].pc = "idle"
    BY DeviceGood DEF LogoutRead, serverVars, historyVars, Good, BaseOK, CallsOK
  <1>2. CASE /\ app.access # None
             /\ app' = [app EXCEPT !.logout.pc = "post",
                                   !.req["logout"] = [pc |-> "sent", as |-> app.access]]
    <2> DEFINE q == [pc |-> "sent", as |-> app.access]
               o == [app.logout EXCEPT !.pc = "post"]
               R == [app.req EXCEPT !["logout"] = q]
    <2>1. q \in Request /\ o \in Logout /\ o.pc = "post"
      BY <1>1 DEF Good, App, Logout, Request
    <2>2. app' = [app EXCEPT !.logout = o, !.req = R]
      BY <1>1, <1>2 DEF Good, App
    <2> HIDE DEF q, o
    <2>3. R \in [Requests -> Request] /\ R["me"] = app.req["me"]
      BY <1>1, <2>1 DEF Good, App, Requests
    <2> HIDE DEF R
    <2>4. SameSession(app, app') /\ app'.req = R /\ app'.logout = o
      BY <1>1, <2>1, <2>2, <2>3 DEF Good, App, SameSession
    <2>5. CallsOK(app')
      BY <1>1, <2>1, <2>3, <2>4 DEF Good, BaseOK, CallsOK, SameSession
    <2>6. Good(app', gen, lost)
      BY <1>1, <2>3, <2>4, <2>5, Quiet
    <2>7. Returns
      BY <2>4 DEF Returns, SameSession
    <2>8. Told
      BY <2>1, <2>4 DEF Told
    <2>9. QED
      BY <1>1, <2>6, <2>7, <2>8 DEF Kept
  <1>3. CASE /\ app.access = None \/ app.logout.token = None \/ StoreFails
             /\ app' \in clearSession([app EXCEPT !.logout = [pc |-> "idle", token |-> None]])
    <2> DEFINE c == [app EXCEPT !.logout = [pc |-> "idle", token |-> None]]
    <2>1. c = [app EXCEPT !.logout = [pc |-> "idle", token |-> None]] /\ app' \in clearSession(c)
      BY <1>3
    <2> HIDE DEF c
    <2>2. /\ Good(app', gen, lost) /\ app.slips \subseteq app'.slips /\ app'.stored \in {app.stored, None}
          /\ app.login.pc = "write" => app'.slips # {}
      BY <1>1, <2>1, LoggedOut DEF Good
    <2>3. Returns
      BY <2>2 DEF Returns
    <2>4. Told
      <3>1. CASE app.slips = {} /\ ~StoreFails
        BY <1>1, <1>3, <2>2, <3>1 DEF Told, Good, CalmOK, SignedInOK
      <3>2. CASE app.slips # {} \/ StoreFails
        BY <2>2, <3>2 DEF Told
      <3>3. QED
        BY <3>1, <3>2
    <2>5. QED
      BY <1>1, <2>2, <2>3, <2>4 DEF Kept
  <1>4. QED
    BY <1>2, <1>3 DEF LogoutRead

-----------------------------------------------------------------------------
(* The steps together.                                                     *)

\* A step in which the server opens no session and replaces no token.
Serves == gen' = gen /\ alive' \subseteq alive /\ lost' = lost
          /\ (reused' = reused \/ RefreshRefused)

\* Every other step of the device, and of the server without it.
LEMMA OtherSteps ==
  ASSUME [Next]_vars, ~RefreshRotates, ~ \E f \in Logins : LoginArrives(f)
  PROVE  Serves
  <1>1. CASE UNCHANGED vars
    BY <1>1 DEF vars, serverVars, historyVars, Serves
  <1>2. CASE RefreshRead \/ RefreshFails \/ RefreshWritten \/ GraceOver \/ WithdrawalLeaves
    BY <1>2 DEF RefreshRead, RefreshFails, RefreshWritten, GraceOver, WithdrawalLeaves,
                serverVars, historyVars, Serves
  <1>3. CASE RestoreRetried \/ RestoreReadsGuestMode \/ LoginWritten \/ LogoutStarts \/ LogoutRead \/ Killed
    BY <1>3 DEF RestoreRetried, RestoreReadsGuestMode, LoginWritten, LogoutStarts, LogoutRead, Killed,
                serverVars, historyVars, Serves
  <1>4. ASSUME NEW r \in Requests, PageCalls(r) \/ CallFails(r) \/ CallRefused(r)
        PROVE  Serves
    BY <1>4 DEF PageCalls, CallFails, CallRefused, serverVars, historyVars, Serves
  <1>5. ASSUME NEW r \in Requests, CallSucceeds(r)
        PROVE  Serves
    <2>1. gen' = gen /\ reused' = reused /\ lost' = lost /\ Served(r)
      BY <1>5 DEF CallSucceeds, historyVars
    <2>2. alive' \subseteq alive
      BY <2>1 DEF Served
    <2>3. QED
      BY <2>1, <2>2 DEF Serves
  <1>6. CASE RefreshRefused
    BY <1>6 DEF RefreshRefused, Serves
  <1>7. CASE \E f \in Logins : SessionDies(f)
    BY <1>7 DEF SessionDies, historyVars, Serves
  <1>8. QED
    BY <1>1, <1>2, <1>3, <1>4, <1>5, <1>6, <1>7 DEF Next

\* The server's part of the invariant, and the histories.
LEMMA ServerStep ==
  ASSUME IInv, [Next]_vars
  PROVE  /\ gen' \in [Logins -> 0 .. MaxGen]
         /\ alive' \subseteq {f \in Logins : gen'[f] > 0}
         /\ reused' \subseteq Logins /\ lost' \subseteq Logins /\ reused' \subseteq lost'
  <1>1. /\ gen \in [Logins -> 0 .. MaxGen] /\ alive \subseteq {f \in Logins : gen[f] > 0}
        /\ reused \subseteq Logins /\ lost \subseteq Logins /\ reused \subseteq lost
        /\ MaxGen \in Nat \ {0}
    BY ConstantsAssumption DEF IInv, TypeOK, NoFalseReuse
  <1>2. CASE RefreshRotates
    <2>1. /\ Presented \in Logins /\ gen[Presented] < MaxGen /\ alive' = alive /\ reused' = reused
          /\ gen' = [gen EXCEPT ![Presented] = @ + 1]
          /\ lost \subseteq lost' /\ lost' \subseteq lost \cup {Presented}
      BY <1>2, PresentedFacts DEF RefreshRotates
    <2>2. gen' \in [Logins -> 0 .. MaxGen] /\ \A f \in Logins : gen'[f] >= gen[f]
      BY <1>1, <2>1
    <2>3. QED
      BY <1>1, <2>1, <2>2
  <1>3. ASSUME NEW f \in Logins, LoginArrives(f)
        PROVE  /\ gen' \in [Logins -> 0 .. MaxGen]
               /\ alive' \subseteq {x \in Logins : gen'[x] > 0}
               /\ reused' = reused /\ lost' = lost
    BY <1>1, <1>3 DEF LoginArrives, historyVars
  <1>4. CASE Serves
    <2>1. CASE reused' = reused
      BY <1>1, <1>4, <2>1 DEF Serves
    <2>2. CASE RefreshRefused
      <3>1. /\ TokenOK(app.refresh.token, gen, lost) /\ app.refresh.token # None
            /\ reused' = reused \cup (alive \cap {Presented})
            /\ ~IsNewest
        BY <2>2, PresentedFacts DEF RefreshRefused
      <3>2. Presented \in alive => Presented \in lost
        BY <3>1 DEF TokenOK, Presented, IsNewest
      <3>3. QED
        BY <1>1, <1>4, <3>1, <3>2 DEF Serves
    <2>3. QED
      BY <1>4, <2>1, <2>2 DEF Serves
  <1>5. QED
    BY <1>1, <1>2, <1>3, <1>4, OtherSteps

\* The device's part, step by step.
LEMMA DeviceStep ==
  ASSUME IInv, [Next]_vars
  PROVE  Kept
  <1>1. CASE RefreshRead \/ RefreshRotates \/ RefreshRefused \/ RefreshFails \/ RefreshWritten
    BY <1>1, ReadStep, RotateStep, RefuseStep, FailStep, WriteStep
  <1>2. CASE GraceOver \/ WithdrawalLeaves
    BY <1>2, GraceStep, LeaveStep
  <1>3. ASSUME NEW r \in Requests, PageCalls(r) \/ CallSucceeds(r) \/ CallFails(r) \/ CallRefused(r)
        PROVE  Kept
    BY <1>3, PageStep, SucceedStep, CallFailStep, CallRefusedStep
  <1>4. CASE RestoreRetried \/ RestoreReadsGuestMode \/ Killed
    BY <1>4, RetryStep, GuestStep, KillStep
  <1>5. CASE LoginWritten \/ LogoutStarts \/ LogoutRead
    BY <1>5, WrittenStep, LogoutStep, LogoutReadStep
  <1>6. ASSUME NEW f \in Logins, LoginArrives(f)
        PROVE  Kept
    BY <1>6, ArriveStep
  <1>7. CASE app' = app /\ gen' = gen /\ lost' = lost
    BY <1>7, DeviceGood, SettledKept DEF Settled
  <1>8. CASE \E f \in Logins : SessionDies(f)
    BY <1>7, <1>8 DEF SessionDies, historyVars
  <1>9. CASE UNCHANGED vars
    BY <1>7, <1>9 DEF vars, serverVars, historyVars
  <1>10. QED
    BY <1>1, <1>2, <1>3, <1>4, <1>5, <1>6, <1>8, <1>9 DEF Next

\* A device that has never been used, before any login.
LEMMA InitIInv == Init => IInv
  <1> SUFFICES ASSUME Init PROVE IInv
    OBVIOUS
  <1>1. /\ gen = [f \in Logins |-> 0] /\ alive = {} /\ reused = {} /\ lost = {} /\ app = Started(None, {})
    BY DEF Init
  <1>2. gen \in [Logins -> 0 .. MaxGen]
    BY <1>1, ConstantsAssumption
  <1>3. None \in Tokens \cup {None} /\ {} \in SUBSET Slips /\ TokenOK(None, gen, lost)
    BY DEF TokenOK
  <1>4. Good(app, gen, lost)
    BY <1>1, <1>3, StartedGood
  <1>5. QED
    BY <1>1, <1>2, <1>4 DEF IInv, TypeOK, NoFalseReuse, DeviceOK, Good

\* Every step preserves the inductive invariant.
LEMMA NextIInv == IInv /\ [Next]_vars => IInv'
  <1> SUFFICES ASSUME IInv, [Next]_vars PROVE IInv'
    OBVIOUS
  <1>1. Good(app', gen', lost')
    BY DeviceStep DEF Kept
  <1>2. TypeOK' /\ NoFalseReuse'
    BY <1>1, ServerStep DEF TypeOK, NoFalseReuse, Good
  <1>3. DeviceOK(app, gen, lost)'
    BY <1>1 DEF DeviceOK, Good
  <1>4. QED
    BY <1>2, <1>3 DEF IInv

(* The inductive invariant of the app's session holds for any number of    *)
(* logins, tokens, pages and calls under way, on a store that fails and on *)
(* one that does not.                                                      *)
THEOREM MobileInvariance == Spec => []IInv
  <1>1. QED
    BY InitIInv, NextIInv, PTL DEF Spec

(* The server never takes the app's token for reused unless an answer or a *)
(* store operation was lost.                                               *)
THEOREM ReuseNeedsALoss == Spec => []NoFalseReuse
  <1>1. IInv => NoFalseReuse
    BY DEF IInv
  <1>2. QED
    BY <1>1, MobileInvariance, PTL

\* On a store that works, a device at rest shows what it holds.
LEMMA ShownAgrees == IInv /\ ~StoreFails => ShownIsHeld
  <1> SUFFICES ASSUME IInv, ~StoreFails, AtRest, app.slips = {}
               PROVE  /\ app.status # "restoring"
                      /\ app.status = "authenticated" => app.access # None /\ app.user = UserOf[app.access]
                      /\ app.status = "unauthenticated" => app.access = None
    BY DEF ShownIsHeld
  <1>1. SignedOutOK(app) /\ SignedInOK(app) /\ RestoreOK(app)
    BY DeviceGood DEF Good, CalmOK
  <1>2. app.login.pc = "idle" /\ app.restore.pc = "idle"
    BY DEF AtRest
  <1>3. app.status # "restoring"
    BY <1>1, <1>2 DEF RestoreOK
  <1>4. QED
    BY <1>1, <1>2, <1>3 DEF SignedOutOK, SignedInOK

\* The same for what is held and what is stored.
LEMMA HeldAgrees == IInv /\ ~StoreFails => HeldIsStored
  <1> SUFFICES ASSUME IInv, ~StoreFails, AtRest, app.slips = {}
               PROVE  /\ app.access # None =>
                            \E n \in 1 .. gen[app.access] :
                               /\ app.stored = <<app.access, n>>
                               /\ n = gen[app.access] \/ app.access \in lost
                      /\ app.status = "unauthenticated" => app.stored = None
    BY DEF HeldIsStored
  <1>1. HeldOK(app) /\ SignedOutOK(app) /\ Good(app, gen, lost)
    BY DeviceGood DEF Good, CalmOK
  <1>2. ASSUME app.access # None
        PROVE  \E n \in 1 .. gen[app.access] :
                  /\ app.stored = <<app.access, n>>
                  /\ n = gen[app.access] \/ app.access \in lost
    <2>1. app.stored \in Tokens /\ app.stored # None /\ app.stored[1] = app.access
      BY <1>1, <1>2 DEF HeldOK, Of, Good, App
    <2>2. TokenOK(app.stored, gen, lost)
      BY <1>1 DEF Good, BaseOK, TokensOK
    <2>3. app.stored = <<app.access, app.stored[2]>> /\ app.stored[2] \in 1 .. MaxGen
      BY <2>1, TokenParts
    <2>4. gen[app.access] \in Nat
      BY <2>1, TokenParts DEF IInv, TypeOK
    <2>5. app.stored[2] \in 1 .. gen[app.access]
      BY <2>1, <2>2, <2>3, <2>4, ConstantsAssumption DEF TokenOK
    <2>6. QED
      BY <2>1, <2>2, <2>3, <2>5 DEF TokenOK
  <1>3. app.status = "unauthenticated" => app.stored = None
    BY <1>1 DEF SignedOutOK, AtRest
  <1>4. QED
    BY <1>2, <1>3

(* What is displayed, held and stored agree whenever the provider is at    *)
(* rest, for any number of logins and calls, if the store does not fail.   *)
THEOREM AppIsCoherent == ~StoreFails /\ Spec => []Coherent
  <1>1. IInv /\ ~StoreFails => Coherent
    BY ShownAgrees, HeldAgrees DEF Coherent, IInv
  <1>2. CASE ~StoreFails
    <2>1. IInv => Coherent
      BY <1>1, <1>2
    <2>2. QED
      BY <2>1, MobileInvariance, PTL
  <1>3. QED
    BY <1>2

(* No step stores a token where there was none, but a login, or a refresh  *)
(* that had read its token before the session was cleared.                 *)
THEOREM ClearedTokensStayAway == Spec => NoTokenReturns
  <1>1. ASSUME IInv, [Next]_vars
        PROVE  [app.stored = None /\ app'.stored # None =>
                    app'.login.pc = "write" \/ "refresh" \in app.slips]_vars
    BY <1>1, DeviceStep DEF Kept, Returns
  <1>2. QED
    BY <1>1, MobileInvariance, PTL DEF Spec, NoTokenReturns

(* On a store that does not fail, a logout of a session that is alive and  *)
(* shown asks the server to end it.                                        *)
THEOREM LogoutsAreTold == ~StoreFails /\ Spec => LogoutIsTold
  <1>1. CASE ~StoreFails
    <2>1. ASSUME IInv, [Next]_vars
          PROVE  [/\ app.logout.pc = "read" /\ app.status = "authenticated"
                  /\ app'.logout.pc = "idle" /\ app'.status = "unauthenticated"
                  => \/ app.logout.token = None
                     \/ app.logout.token[1] \notin alive
                     \/ app'.slips # {}]_vars
      BY <1>1, <2>1, DeviceStep DEF Kept, Told
    <2>2. QED
      BY <2>1, MobileInvariance, PTL DEF Spec, LogoutIsTold
  <1>2. QED
    BY <1>1

(***************************************************************************)
(* The refinement: the server, as the app drives it, opens a session,      *)
(* exchanges its token, ends sessions or leaves them alone.                *)
(***************************************************************************)
Phase(f) == CASE gen[f] = 0 -> "new"
              [] gen[f] > 0 /\ f \in alive -> "open"
              [] OTHER -> "ended"
Current(f) == IF f \in alive THEN <<f, gen[f]>> ELSE None
Spent == {t \in Tokens : t[2] <= gen[t[1]]}

\* The three phases, one at a time.
LEMMA Phases ==
  ASSUME TypeOK, NEW f \in Logins
  PROVE  /\ gen[f] = 0 => Phase(f) = "new" /\ f \notin alive
         /\ f \in alive => Phase(f) = "open"
         /\ gen[f] # 0 /\ f \notin alive => Phase(f) = "ended"
  <1>1. gen[f] \in Nat /\ (f \in alive => gen[f] > 0)
    BY DEF TypeOK
  <1>2. QED
    BY <1>1 DEF Phase

\* The same after a step.
LEMMA PhasesNext ==
  ASSUME TypeOK', NEW f \in Logins
  PROVE  /\ gen'[f] = 0 => Phase(f)' = "new" /\ f \notin alive'
         /\ f \in alive' => Phase(f)' = "open"
         /\ gen'[f] # 0 /\ f \notin alive' => Phase(f)' = "ended"
  <1>1. gen'[f] \in Nat /\ (f \in alive' => gen'[f] > 0)
    BY DEF TypeOK
  <1>2. QED
    BY <1>1 DEF Phase

\* No session is open before the first login.
LEMMA InitLifecycle == Init => Lifecycle!Init
  <1> SUFFICES ASSUME Init PROVE Lifecycle!Init
    OBVIOUS
  <1>1. \A f \in Logins : gen[f] = 0 /\ f \notin alive
    BY DEF Init
  <1>2. \A f \in Logins : Phase(f) = "new" /\ Current(f) = None
    BY <1>1 DEF Phase, Current
  <1>3. Spent = {}
    <2> SUFFICES ASSUME NEW t \in Tokens, t[2] <= gen[t[1]] PROVE FALSE
      BY DEF Spent
    <2>1. t[1] \in Logins /\ t[2] \in Nat /\ t[2] > 0
      BY TokenParts, ConstantsAssumption
    <2>2. QED
      BY <1>1, <2>1
  <1>4. QED
    BY <1>2, <1>3 DEF Lifecycle!Init, Phase, Current, Spent

\* A login opens its session.
LEMMA OpenStep ==
  ASSUME TypeOK, TypeOK', NEW f \in Logins, LoginArrives(f)
  PROVE  Lifecycle!Open(f, <<f, 1>>)
  <1>1. /\ gen[f] = 0 /\ gen' = [gen EXCEPT ![f] = 1] /\ alive' = alive \cup {f}
        /\ gen \in [Logins -> 0 .. MaxGen] /\ 1 \in 1 .. MaxGen
    BY ConstantsAssumption DEF LoginArrives, TypeOK
  <1>2. gen'[f] = 1 /\ \A g \in Logins : g # f => gen'[g] = gen[g] /\ (g \in alive' <=> g \in alive)
    BY <1>1
  <1>3. Phase(f) = "new" /\ Phase(f)' = "open" /\ Current(f)' = <<f, 1>>
    BY <1>1, <1>2, Phases, PhasesNext DEF Current
  <1>4. ASSUME NEW g \in Logins, g # f
        PROVE  Phase(g)' = Phase(g) /\ Current(g)' = Current(g)
    BY <1>2, <1>4 DEF Phase, Current
  <1>5. [g \in Logins |-> Phase(g)]' = [[g \in Logins |-> Phase(g)] EXCEPT ![f] = "open"]
    BY <1>3, <1>4
  <1>6. [g \in Logins |-> Current(g)]' = [[g \in Logins |-> Current(g)] EXCEPT ![f] = <<f, 1>>]
    BY <1>3, <1>4
  <1>7. <<f, 1>> \notin Spent /\ Spent' = Spent \cup {<<f, 1>>}
    <2>1. <<f, 1>> \in Tokens /\ <<f, 1>>[1] = f /\ <<f, 1>>[2] = 1
      BY <1>1, Pairs
    <2>2. ASSUME NEW t \in Tokens
          PROVE  t[2] <= gen'[t[1]] <=> t[2] <= gen[t[1]] \/ t = <<f, 1>>
      <3>1. t[1] \in Logins /\ t[2] \in Nat /\ t[2] > 0 /\ t = <<t[1], t[2]>>
        BY TokenParts, ConstantsAssumption
      <3>2. CASE t[1] = f
        BY <1>1, <1>2, <3>1, <3>2
      <3>3. CASE t[1] # f
        BY <1>2, <2>1, <3>1, <3>3
      <3>4. QED
        BY <3>2, <3>3
    <2>3. QED
      BY <1>1, <2>1, <2>2 DEF Spent
  <1>8. QED
    BY <1>3, <1>5, <1>6, <1>7 DEF Lifecycle!Open, Phase, Current, Spent

\* A rotation exchanges the token.
LEMMA ExchangeStep ==
  ASSUME IInv, TypeOK', RefreshRotates
  PROVE  \E f \in Logins, t \in Tokens : Lifecycle!Exchange(f, t)
  <1>1. PICK p \in Logins :
           /\ p \in alive /\ alive' = alive /\ gen[p] < MaxGen
           /\ gen' = [gen EXCEPT ![p] = @ + 1] /\ gen \in [Logins -> 0 .. MaxGen] /\ TypeOK
    BY PresentedFacts DEF RefreshRotates, IsNewest, IInv, TypeOK
  <1>2. /\ gen'[p] = gen[p] + 1 /\ gen[p] \in Nat /\ gen[p] + 1 \in 1 .. MaxGen
        /\ \A g \in Logins : g # p => gen'[g] = gen[g]
    BY <1>1, ConstantsAssumption
  <1>3. PICK n \in Tokens : n = <<p, gen[p] + 1>> /\ n[1] = p /\ n[2] = gen[p] + 1
    <2>1. PICK k \in 1 .. MaxGen : k = gen[p] + 1
      BY <1>2
    <2>2. <<p, k>> \in Tokens /\ <<p, k>>[1] = p /\ <<p, k>>[2] = k
      BY <2>1, Pairs
    <2>3. QED
      BY <2>1, <2>2
  <1>4. Phase(p) = "open" /\ Phase(p)' = "open" /\ Current(p)' = n
    <2>1. Phase(p) = "open" /\ Phase(p)' = "open"
      BY <1>1, Phases, PhasesNext
    <2>2. Current(p)' = n
      BY <1>1, <1>2, <1>3 DEF Current
    <2>3. QED
      BY <2>1, <2>2
  <1>5. ASSUME NEW g \in Logins, g # p
        PROVE  Phase(g)' = Phase(g) /\ Current(g)' = Current(g)
    BY <1>1, <1>2, <1>5 DEF Phase, Current
  <1>6. [g \in Logins |-> Phase(g)]' = [g \in Logins |-> Phase(g)]
    BY <1>4, <1>5
  <1>7. [g \in Logins |-> Current(g)]' = [[g \in Logins |-> Current(g)] EXCEPT ![p] = n]
    BY <1>4, <1>5
  <1>8. n \notin Spent /\ Spent' = Spent \cup {n}
    <2>1. ASSUME NEW t \in Tokens
          PROVE  t[2] <= gen'[t[1]] <=> t[2] <= gen[t[1]] \/ t = n
      <3>1. t[1] \in Logins /\ t[2] \in Nat /\ t = <<t[1], t[2]>>
        BY TokenParts, ConstantsAssumption
      <3>2. CASE t[1] = p
        BY <1>2, <1>3, <3>1, <3>2
      <3>3. CASE t[1] # p
        BY <1>2, <1>3, <3>1, <3>3
      <3>4. QED
        BY <3>2, <3>3
    <2>2. ~(n[2] <= gen[n[1]])
      BY <1>2, <1>3
    <2>3. QED
      BY <1>3, <2>1, <2>2 DEF Spent
  <1>9. Lifecycle!Exchange(p, n)
    BY <1>1, <1>4, <1>6, <1>7, <1>8 DEF Lifecycle!Exchange, Phase, Current, Spent
  <1>10. QED
    BY <1>1, <1>3, <1>9

\* Every other step ends the sessions that die in it, possibly none.
LEMMA EndStep ==
  ASSUME TypeOK, TypeOK', Serves
  PROVE  \E S \in SUBSET Logins : Lifecycle!End(S)
  <1>1. gen' = gen /\ alive' \subseteq alive /\ alive \subseteq Logins /\ \A f \in alive : gen[f] # 0
    BY DEF Serves, TypeOK
  <1> PICK S \in SUBSET Logins : S = alive \ alive'
    BY <1>1
  <1>2. \A f \in S : Phase(f) = "open"
    BY <1>1, Phases
  <1>3. ASSUME NEW f \in Logins, f \in S
        PROVE  Phase(f)' = "ended" /\ Current(f)' = None
    BY <1>1, <1>3, PhasesNext DEF Current
  <1>4. ASSUME NEW f \in Logins, f \notin S
        PROVE  Phase(f)' = Phase(f) /\ Current(f)' = Current(f)
    <2>1. f \in alive' <=> f \in alive
      BY <1>1, <1>4
    <2>2. QED
      BY <1>1, <2>1 DEF Phase, Current
  <1>5. [f \in Logins |-> Phase(f)]'
           = [f \in Logins |-> IF f \in S THEN "ended" ELSE [g \in Logins |-> Phase(g)][f]]
    BY <1>3, <1>4
  <1>6. [f \in Logins |-> Current(f)]'
           = [f \in Logins |-> IF f \in S THEN None ELSE [g \in Logins |-> Current(g)][f]]
    BY <1>3, <1>4
  <1>7. Spent' = Spent
    BY <1>1 DEF Spent
  <1>8. Lifecycle!End(S)
    BY <1>2, <1>5, <1>6, <1>7 DEF Lifecycle!End, Phase, Current, Spent
  <1>9. QED
    BY <1>8

\* Every step opens, exchanges, ends or stutters.
LEMMA NextLifecycle == IInv /\ IInv' /\ [Next]_vars => [Lifecycle!Next]_(Lifecycle!vars)
  <1> SUFFICES ASSUME IInv, IInv', [Next]_vars PROVE Lifecycle!Next
    OBVIOUS
  <1>1. TypeOK /\ TypeOK' /\ MaxGen \in Nat \ {0}
    BY ConstantsAssumption DEF IInv
  <1>2. ASSUME NEW f \in Logins, LoginArrives(f)
        PROVE  Lifecycle!Next
    <2>1. <<f, 1>> \in Tokens
      BY <1>1, Pairs
    <2>2. Lifecycle!Open(f, <<f, 1>>)
      BY <1>1, <1>2, OpenStep
    <2>3. QED
      BY <2>1, <2>2 DEF Lifecycle!Next
  <1>3. CASE RefreshRotates
    BY <1>1, <1>3, ExchangeStep DEF Lifecycle!Next
  <1>4. CASE Serves
    BY <1>1, <1>4, EndStep DEF Lifecycle!Next
  <1>5. QED
    BY <1>2, <1>3, <1>4, OtherSteps

(* Whatever the app sends, loses and repeats, a session of the server is   *)
(* opened once, exchanges one token at a time for one never handed out,    *)
(* and never comes back once it has ended.                                 *)
THEOREM ServerFollowsLifecycle == Spec => ServerIsLifecycle
  <1>1. QED
    BY InitLifecycle, NextLifecycle, MobileInvariance, PTL DEF Spec, ServerIsLifecycle, Lifecycle!Spec

=============================================================================
