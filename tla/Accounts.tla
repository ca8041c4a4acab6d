------------------------------ MODULE Accounts ------------------------------
(***************************************************************************)
(* Accounts of the API and their links to Kakao and Apple: the tables      *)
(* users, social_accounts and apple_credentials, the social logins, the    *)
(* server notifications of Apple and the withdrawal.                       *)
(*                                                                         *)
(* A request is a process; its steps are its database statements and its   *)
(* calls to the providers, and it may die between any two of them          *)
(* (Abandoned: a crash, a restart, a lost database connection).  Sessions  *)
(* are one bit per user here; AuthSessions has their details.              *)
(***************************************************************************)
EXTENDS Naturals, FiniteSets

CONSTANTS Users,       \* users.id values
          Identities,  \* (provider, providerUserId) pairs
          Apple,       \* those of Apple; the others are Kakao's
          Grants,      \* refresh tokens that Apple issues
          Requests,    \* requests served at the same time
          None

ASSUME AccountsAssumption ==
    /\ Apple \subseteq Identities
    /\ None \notin Users \cup Identities \cup Grants

VARIABLES user,        \* users: "new", "live" or "deleted"
          social,      \* social[i]: the userId of the row of identity i
          credential,  \* credential[i]: the token sealed in apple_credentials
          signedIn,    \* users with a usable refresh token
          grant,       \* Apple: holder and validity of the tokens it issued
          notices,     \* Apple: notifications it delivers, again and again
          configured,  \* is Apple login configured on this server?
          req,         \* req[r]: where the handler of r is
          made         \* history: the identity a user was created for

tables == <<user, social, credential, signedIn>>
apple == <<grant, notices, configured>>
vars == <<tables, apple, req, made>>

\* The types the code acts on; it ignores every other.
Notices == {"consent-revoked", "account-delete"}

Request ==
    [kind     : {"none", "login", "withdraw"} \cup Notices,
     step     : {"idle", "exchange", "find", "create", "refind", "save", "session",
                 "unlink", "revoke", "delete", "sessions", "credential", "done"},
     identity : Identities \cup {None},
     user     : Users \cup {None},
     token    : Grants \cup {None},
     answer   : {"none", "200", "204", "401", "500", "502", "503"},
     overlap  : BOOLEAN,    \* history: an account was deleted meanwhile
     relogin  : BOOLEAN]    \* history: a login reached its identity meanwhile

Idle == [kind |-> "none", step |-> "idle", identity |-> None, user |-> None, token |-> None,
         answer |-> "none", overlap |-> FALSE, relogin |-> FALSE]

Answer(r, code) == [req EXCEPT ![r].step = "done", ![r].answer = code]
GoOn(r, step) == [req EXCEPT ![r].step = step]

\* Others learn that a login reached identity i, or that an account was
\* deleted by request `by'.
Relogged(rs, i) ==
    [r \in Requests |-> IF rs[r].identity = i /\ rs[r].kind \in {"withdraw", "consent-revoked"}
                        THEN [rs[r] EXCEPT !.relogin = TRUE] ELSE rs[r]]
Overlapped(rs, by) ==
    [r \in Requests |-> IF r # by /\ rs[r].kind \in {"login", "withdraw"}
                        THEN [rs[r] EXCEPT !.overlap = TRUE] ELSE rs[r]]

IdentityOf(u) == CHOOSE i \in Identities : social[i] = u

Init ==
    /\ user = [u \in Users |-> "new"]
    /\ social = [i \in Identities |-> None]
    /\ credential = [i \in Identities |-> None]
    /\ signedIn = {}
    /\ grant = [k \in Grants |-> [holder |-> None, valid |-> FALSE]]
    /\ notices = {}
    /\ configured \in BOOLEAN
    /\ req = [r \in Requests |-> Idle]
    /\ made = [u \in Users |-> None]

-----------------------------------------------------------------------------
(* What the adapters of the providers make of an answer: "ok" or the       *)
(* status of the exception they throw.                                     *)

Replies == {"fine", "unreachable", "status 401", "other status", "unexpected body"}

kakaoGet(reply) ==
    CASE reply = "fine" -> "ok"
      [] reply = "status 401" -> "401"
      [] OTHER -> "502"

\* The token's own app is compared before the profile is asked for.
verifyAccessToken(info, ownApp, me) ==
    CASE kakaoGet(info) # "ok" -> kakaoGet(info)
      [] kakaoGet(info) = "ok" /\ ~ownApp -> "401"
      [] OTHER -> kakaoGet(me)

\* The authorization codes of Apple and, on the web, of Kakao; invalid_grant
\* is the error code of a code that is spent or expired.
exchangeAuthorizationCode(reply, invalidGrant) ==
    CASE reply = "fine" -> "ok"
      [] reply \in {"status 401", "other status"} /\ invalidGrant -> "401"
      [] OTHER -> "502"

kakaoWebCode(enabled, allowedUri, reply, invalidGrant) ==
    CASE ~enabled -> "503"
      [] enabled /\ ~allowedUri -> "400"
      [] OTHER -> exchangeAuthorizationCode(reply, invalidGrant)

\* An identity token or a notification, by the first check it fails; the
\* keys are fetched for every well-formed token.
Flaws == {"none", "malformed", "unknown key", "unusable key", "forged", "claims",
          "audience", "expired"}

verifySignature(flaw, keys) ==
    CASE flaw = "malformed" -> "401"
      [] flaw # "malformed" /\ keys # "fine" -> "502"
      [] keys = "fine" /\ flaw = "unusable key" -> "502"
      [] keys = "fine" /\ flaw \in {"unknown key", "forged"} -> "401"
      [] OTHER -> "ok"

verifyToken(flaw, keys) ==
    CASE verifySignature(flaw, keys) # "ok" -> verifySignature(flaw, keys)
      [] verifySignature(flaw, keys) = "ok" /\ flaw # "none" -> "401"
      [] OTHER -> "ok"

\* What a client's token may come to.
AppleCodes == {verifyToken(flaw, keys) : flaw \in Flaws, keys \in Replies}
ExchangeCodes == {exchangeAuthorizationCode(reply, invalid) : reply \in Replies, invalid \in BOOLEAN}
KakaoCodes == {verifyAccessToken(info, own, me) : info \in Replies, own \in BOOLEAN, me \in Replies}
WebCodes ==
    LET exchanges == {kakaoWebCode(enabled, allowed, reply, invalid) :
                         enabled \in BOOLEAN, allowed \in BOOLEAN, reply \in Replies, invalid \in BOOLEAN}
    IN  (exchanges \ {"ok"}) \cup KakaoCodes

-----------------------------------------------------------------------------
(* Logins.                                                                 *)

\* Bounds: ids for every account and token that may have to be made.
UsersLeft == Cardinality({u \in Users : user[u] = "new"})
                > Cardinality({r \in Requests : req[r].step \in {"exchange", "find", "create"}})
GrantsLeft == Cardinality({k \in Grants : grant[k].holder = None})
                > Cardinality({r \in Requests : req[r].step = "exchange"})

\* A request whose token is refused is answered at once, and so is a login
\* that succeeds.
Arrives(r, kind, i, code, step) ==
    /\ req[r].step = "idle"
    /\ req' = IF code # "ok" THEN req
              ELSE [req EXCEPT ![r] = [Idle EXCEPT !.kind = kind, !.identity = i, !.step = step]]

\* Without its environment variables the adapter of Apple refuses everything.
Verified == IF configured THEN AppleCodes ELSE {"503"}

\* The app sends an access token, the web a code that is exchanged first.
KakaoLogin(r, i) ==
    /\ i \in Identities \ Apple
    /\ UsersLeft
    /\ \E code \in KakaoCodes \cup WebCodes : Arrives(r, "login", i, code, "find")
    /\ UNCHANGED <<tables, apple, made>>

AppleLogin(r, i) ==
    /\ i \in Apple
    /\ UsersLeft /\ GrantsLeft
    /\ \E code \in Verified : Arrives(r, "login", i, code, "exchange")
    /\ UNCHANGED <<tables, apple, made>>

\* Mutant: whose code it is is not compared.
AppleExchangeAnyCode(r, k) ==
    /\ req[r].step = "exchange"
    /\ grant[k].holder = None
    /\ \E owner \in Apple \cup {"another user"} :
          /\ grant' = [grant EXCEPT ![k] = [holder |-> owner, valid |-> TRUE]]
          /\ req' = [req EXCEPT ![r].step = "find", ![r].token = k]
    /\ UNCHANGED <<tables, notices, configured, made>>

\* The code is exchanged for a token of Apple.  The code of another user is
\* refused like an invalid one, and his token is dropped.
AppleExchange(r, k) ==
    /\ req[r].step = "exchange"
    /\ grant[k].holder = None
    /\ \E code \in ExchangeCodes, sameUser \in BOOLEAN :
          IF code = "ok" /\ sameUser
          THEN /\ req' = [req EXCEPT ![r].step = "find", ![r].token = k]
               /\ grant' = [grant EXCEPT ![k] = [holder |-> req[r].identity, valid |-> TRUE]]
          ELSE /\ req' = [req EXCEPT ![r] = Idle]
               /\ UNCHANGED grant
    /\ UNCHANGED <<tables, notices, configured, made>>

AfterAccount(r) == IF req[r].token = None THEN "session" ELSE "save"

\* findOrCreateBySocial, first statement.
FindAccount(r) ==
    /\ req[r].step = "find"
    /\ LET u == social[req[r].identity] IN
          req' = IF u = None THEN GoOn(r, "create")
                 ELSE [req EXCEPT ![r].user = u, ![r].step = AfterAccount(r)]
    /\ UNCHANGED <<tables, apple, made>>

CreatedFor(r, u) ==
    /\ user[u] = "new"
    /\ user' = [user EXCEPT ![u] = "live"]
    /\ social' = [social EXCEPT ![req[r].identity] = u]
    /\ made' = [made EXCEPT ![u] = req[r].identity]
    /\ req' = [req EXCEPT ![r].user = u, ![r].step = AfterAccount(r)]
    /\ UNCHANGED <<credential, signedIn, apple>>

\* Mutant: no unique key on (provider, providerUserId).
CreateAccountAnyway(r, u) == req[r].step = "create" /\ CreatedFor(r, u)

\* The user and the social account are one INSERT; the unique key of
\* social_accounts lets one of two first logins win.
CreateAccount(r, u) ==
    /\ req[r].step = "create"
    /\ social[req[r].identity] = None
    /\ CreatedFor(r, u)

\* Mutant: the violation of the unique key is thrown.
CreateConflictThrown(r) ==
    /\ req[r].step = "create"
    /\ social[req[r].identity] # None
    /\ req' = Answer(r, "500")
    /\ UNCHANGED <<tables, apple, made>>

CreateConflict(r) ==
    /\ req[r].step = "create"
    /\ social[req[r].identity] # None
    /\ req' = GoOn(r, "refind")
    /\ UNCHANGED <<tables, apple, made>>

FindAgain(r) ==
    /\ req[r].step = "refind"
    /\ LET u == social[req[r].identity] IN
          req' = IF u = None THEN Answer(r, "500")
                 ELSE [req EXCEPT ![r].user = u, ![r].step = AfterAccount(r)]
    /\ UNCHANGED <<tables, apple, made>>

\* saveForAppleUser: the row is found by the identity, not by the user.
SaveCredential(r) ==
    LET i == req[r].identity IN
    /\ req[r].step = "save"
    /\ IF social[i] = None
       THEN /\ req' = Answer(r, "500")
            /\ UNCHANGED credential
       ELSE /\ credential' = [credential EXCEPT ![i] = req[r].token]
            /\ req' = Relogged(GoOn(r, "session"), i)
    /\ UNCHANGED <<user, social, signedIn, apple, made>>

\* startSession; the foreign key refuses a user who is gone.
StartSession(r) ==
    /\ req[r].step = "session"
    /\ IF user[req[r].user] = "live"
       THEN /\ signedIn' = signedIn \cup {req[r].user}
            /\ req' = Relogged([req EXCEPT ![r] = Idle], req[r].identity)
       ELSE /\ req' = Answer(r, "500")
            /\ UNCHANGED signedIn
    /\ UNCHANGED <<user, social, credential, apple, made>>

-----------------------------------------------------------------------------
(* The end of an account: rows of users are deleted with the cascade.      *)
Deleted(u) ==
    LET gone == {i \in Identities : social[i] = u} IN
    /\ user' = IF user[u] = "live" THEN [user EXCEPT ![u] = "deleted"] ELSE user
    /\ social' = [i \in Identities |-> IF i \in gone THEN None ELSE social[i]]
    /\ credential' = [i \in Identities |-> IF i \in gone THEN None ELSE credential[i]]
    /\ signedIn' = signedIn \ {u}

\* withdraw: getMe, by a caller whose access token may outlive the account.
Withdraw(r, u) ==
    /\ req[r].step = "idle"
    /\ user[u] # "new"
    /\ req' = IF user[u] = "live"
              THEN [req EXCEPT ![r] = [Idle EXCEPT !.kind = "withdraw", !.step = "unlink",
                                                   !.user = u, !.identity = IdentityOf(u)]]
              ELSE [req EXCEPT ![r] = [Idle EXCEPT !.kind = "withdraw", !.step = "done",
                                                   !.user = u, !.answer = "401"]]
    /\ UNCHANGED <<tables, apple, made>>

\* Mutant: the account is deleted before Apple is asked.
UnlinkLast(r) ==
    /\ req[r].step = "unlink"
    /\ Deleted(req[r].user)
    /\ LET sealed == credential[req[r].identity]
       IN  req' = Overlapped(IF sealed = None THEN Answer(r, "204")
                             ELSE [req EXCEPT ![r].step = "revoke", ![r].token = sealed], r)
    /\ UNCHANGED <<apple, made>>

\* unlink: the stored credential, if any, is unsealed.
Unlink(r) ==
    /\ req[r].step = "unlink"
    /\ LET owned == {i \in Apple : social[i] = req[r].user /\ credential[i] # None}
           sealed == IF owned = {} THEN None ELSE credential[CHOOSE i \in owned : TRUE]
       IN  req' = CASE sealed = None -> [req EXCEPT ![r].step = "delete", ![r].relogin = FALSE]
                    [] sealed # None /\ ~configured -> Answer(r, "503")
                    [] OTHER -> [req EXCEPT ![r].step = "revoke", ![r].token = sealed,
                                            ![r].relogin = FALSE]
    /\ UNCHANGED <<tables, apple, made>>

\* Mutant: an answer of Apple that is not ok does not stop the withdrawal.
RevokeIgnored(r) ==
    /\ req[r].step = "revoke"
    /\ \E effect \in BOOLEAN :
          grant' = [grant EXCEPT ![req[r].token].valid = @ /\ ~effect]
    /\ req' = GoOn(r, "delete")
    /\ UNCHANGED <<tables, notices, configured, made>>

\* Mutant: the token that is void already is an error.
RevokeOnce(r) ==
    /\ req[r].step = "revoke"
    /\ \/ /\ grant[req[r].token].valid
          /\ grant' = [grant EXCEPT ![req[r].token].valid = FALSE]
          /\ req' = GoOn(r, "delete")
       \/ /\ ~grant[req[r].token].valid
          /\ req' = Answer(r, "502")
          /\ UNCHANGED grant
    /\ UNCHANGED <<tables, notices, configured, made>>

\* revokeRefreshToken: done, or void already (invalid_grant).
Revoke(r) ==
    /\ req[r].step = "revoke"
    /\ grant' = [grant EXCEPT ![req[r].token].valid = FALSE]
    /\ req' = GoOn(r, "delete")
    /\ UNCHANGED <<tables, notices, configured, made>>

\* Apple fails, or its answer is lost.
RevokeFails(r) ==
    /\ req[r].step = "revoke"
    /\ \E effect \in BOOLEAN :
          grant' = [grant EXCEPT ![req[r].token].valid = @ /\ ~effect]
    /\ req' = Answer(r, "502")
    /\ UNCHANGED <<tables, notices, configured, made>>

DeleteAccount(r) ==
    /\ req[r].step = "delete"
    /\ Deleted(req[r].user)
    /\ req' = Overlapped(Answer(r, IF req[r].kind = "withdraw" THEN "204" ELSE "200"), r)
    /\ UNCHANGED <<apple, made>>

-----------------------------------------------------------------------------
(* Notifications of Apple.                                                 *)

\* In the settings of the Apple account: the link to the app is cut, or the
\* Apple account is deleted; both void the tokens.
AppleUserLeaves(i, type) ==
    /\ <<type, i>> \notin notices
    /\ notices' = notices \cup {<<type, i>>}
    /\ grant' = [k \in Grants |-> IF grant[k].holder = i THEN [grant[k] EXCEPT !.valid = FALSE]
                                   ELSE grant[k]]
    /\ UNCHANGED <<tables, configured, req, made>>

\* handleNotification: verified, then by type.
Notified(r, type, i) ==
    /\ <<type, i>> \in notices
    /\ \E code \in Verified : Arrives(r, type, i, code, "find")
    /\ UNCHANGED <<tables, apple, made>>

\* findUserIdBySocial.
NoticeFind(r) ==
    /\ req[r].step = "find" /\ req[r].kind \in Notices
    /\ LET u == social[req[r].identity] IN
          req' = CASE u # None -> [req EXCEPT ![r].user = u,
                                     ![r].step = IF req[r].kind = "consent-revoked" THEN "sessions"
                                                 ELSE "delete"]
                   [] u = None /\ req[r].kind = "consent-revoked" -> GoOn(r, "credential")
                   [] OTHER -> Answer(r, "200")
    /\ UNCHANGED <<tables, apple, made>>

RevokeAllForUser(r) ==
    /\ req[r].step = "sessions"
    /\ signedIn' = signedIn \ {req[r].user}
    /\ req' = GoOn(r, "credential")
    /\ UNCHANGED <<user, social, credential, apple, made>>

\* Mutant: the credential of a revoked consent is kept.
KeepCredential(r) ==
    /\ req[r].step = "credential"
    /\ req' = Answer(r, "200")
    /\ UNCHANGED <<tables, apple, made>>

\* deleteForAppleUser: whatever row there is by now.
DropCredential(r) ==
    /\ req[r].step = "credential"
    /\ credential' = [credential EXCEPT ![req[r].identity] = None]
    /\ req' = Answer(r, "200")
    /\ UNCHANGED <<user, social, signedIn, apple, made>>

-----------------------------------------------------------------------------
Answered(r) ==
    /\ req[r].step = "done"
    /\ req' = [req EXCEPT ![r] = Idle]
    /\ UNCHANGED <<tables, apple, made>>

Abandoned(r) ==
    /\ req[r].step \notin {"idle", "done"}
    /\ req' = [req EXCEPT ![r] = Idle]
    /\ UNCHANGED <<tables, apple, made>>

\* A restart with other environment variables.
Restarted ==
    /\ configured' = ~configured
    /\ req' = [r \in Requests |-> Idle]
    /\ UNCHANGED <<tables, grant, notices, made>>

LoginStep(r) ==
    \/ \E k \in Grants : AppleExchange(r, k)
    \/ req[r].kind = "login" /\ FindAccount(r)
    \/ \E u \in Users : CreateAccount(r, u)
    \/ CreateConflict(r) \/ FindAgain(r) \/ SaveCredential(r) \/ StartSession(r)

Handles(r) ==
    \/ LoginStep(r)
    \/ Unlink(r) \/ Revoke(r) \/ RevokeFails(r) \/ DeleteAccount(r)
    \/ NoticeFind(r) \/ RevokeAllForUser(r) \/ DropCredential(r)
    \/ Answered(r) \/ Abandoned(r)

Next ==
    \/ \E r \in Requests :
         \/ \E i \in Identities : KakaoLogin(r, i) \/ AppleLogin(r, i)
         \/ \E u \in Users : Withdraw(r, u)
         \/ \E i \in Apple, type \in Notices : Notified(r, type, i)
         \/ Handles(r)
    \/ \E i \in Apple, type \in Notices : AppleUserLeaves(i, type)
    \/ Restarted

Spec == Init /\ [][Next]_vars

(***************************************************************************)
(* Every handler runs to its end or dies, but not every one dies at the    *)
(* same step; a user who wants to leave asks again, and Apple answers some *)
(* of the calls.                                                           *)
(***************************************************************************)
FairSpec ==
    /\ Spec
    /\ \A r \in Requests : WF_vars(Handles(r))
    /\ \A u \in Users : SF_vars(\E r \in Requests : Withdraw(r, u))
    /\ SF_vars(\E r \in Requests : Unlink(r))
    /\ SF_vars(\E r \in Requests : Revoke(r))
    /\ SF_vars(\E r \in Requests : req[r].kind = "withdraw" /\ DeleteAccount(r))

-----------------------------------------------------------------------------
(* Type correctness of the tables, of Apple and of the handlers.           *)
TypeOK ==
    /\ user \in [Users -> {"new", "live", "deleted"}]
    /\ social \in [Identities -> Users \cup {None}]
    /\ credential \in [Identities -> Grants \cup {None}]
    /\ signedIn \subseteq Users
    /\ grant \in [Grants -> [holder : Apple \cup {None}, valid : BOOLEAN]]
    /\ notices \subseteq Notices \X Apple
    /\ configured \in BOOLEAN
    /\ req \in [Requests -> Request]
    /\ made \in [Users -> Identities \cup {None}]

(* One account each: a live user is the account of the identity it was     *)
(* made for, and no identity ever has two, however many first logins,      *)
(* deletions and re-registrations overlap.                                 *)
OneAccountEach ==
    \A u \in Users : user[u] = "live" <=> made[u] # None /\ social[made[u]] = u

(* A login that loses the race of two first logins is answered with the    *)
(* account of the other ("concurrent sign-up": the catch of                *)
(* findOrCreateBySocial); a login fails inside the server only when an     *)
(* account was deleted during it.                                          *)
RaceIsAbsorbed ==
    \A r \in Requests :
        req[r].kind = "login" /\ req[r].answer = "500" => req[r].overlap

(* The stored credential was issued to the Apple user of its row, whatever *)
(* code a client sent along with its identity token.                       *)
CredentialBelongs ==
    \A i \in Identities : credential[i] # None => grant[credential[i]].holder = i

(* Users, social accounts and credentials agree.                           *)
RowsAgree == TypeOK /\ OneAccountEach /\ CredentialBelongs

(* An account is withdrawn only when its stored Apple token is void, or    *)
(* was saved by a login after the withdrawal had looked (docs/14, 6).      *)
UnlinkedBeforeDeleted ==
    \A r \in Requests :
        LET i == req[r].identity IN
        req[r].kind = "withdraw" /\ req[r].step = "delete" /\ social[i] = req[r].user =>
            credential[i] = None \/ ~grant[credential[i]].valid \/ req[r].relogin

(* What a withdrawal answers is what happened: after 204 the account is    *)
(* gone, after an error it is there unless another request removed it, so  *)
(* that the app may keep its records and try again.                        *)
AnswerIsTrue ==
    \A r \in Requests :
        req[r].kind = "withdraw" /\ req[r].step = "done" =>
            CASE req[r].answer \in {"204", "401"} -> user[req[r].user] = "deleted"
              [] OTHER -> user[req[r].user] = "live" \/ req[r].overlap

(* After consent-revoked is answered the user has neither a session nor a  *)
(* credential, except those of a login that reached the identity since.    *)
ConsentRevokedIsApplied ==
    \A r \in Requests :
        LET i == req[r].identity IN
        req[r].kind = "consent-revoked" /\ req[r].answer = "200" /\ ~req[r].relogin =>
            credential[i] = None /\ social[i] \notin signedIn

-----------------------------------------------------------------------------
(***************************************************************************)
(* The inductive invariant behind the invariants above: what the history   *)
(* of the accounts is, and what a handler still knows of it.               *)
(***************************************************************************)
\* A user is made once, for one identity, and signed in only while it lives.
HistoryOK ==
    /\ \A u \in Users : user[u] = "new" <=> made[u] = None
    /\ \A i \in Identities : social[i] # None => made[social[i]] = i
    /\ \A u \in signedIn : user[u] = "live"

StepsOK(h) ==
    /\ h.step = "idle" <=> h.kind = "none"
    /\ h.step = "done" <=> h.answer # "none"
    /\ h.kind = "login" =>
           h.step \in {"exchange", "find", "create", "refind", "save", "session", "done"}
    /\ h.kind = "withdraw" => h.step \in {"unlink", "revoke", "delete", "done"}
    /\ h.kind = "consent-revoked" => h.step \in {"find", "sessions", "credential", "done"}
    /\ h.kind = "account-delete" => h.step \in {"find", "delete", "done"}

\* What a login found is still there, or an account was deleted since.
LoginOK(h) ==
    h.kind = "login" =>
        /\ h.identity \in Identities
        /\ h.step = "exchange" => h.identity \in Apple /\ h.token = None
        /\ h.token # None => grant[h.token].holder = h.identity
        /\ h.step = "save" => h.token # None
        /\ h.step = "refind" => social[h.identity] # None \/ h.overlap
        /\ h.step \in {"save", "session"} =>
               /\ h.user # None /\ made[h.user] = h.identity
               /\ user[h.user] = "live" \/ h.overlap

\* A withdrawal holds the account's own identity and the token of its row.
WithdrawOK(h) ==
    h.kind = "withdraw" =>
        /\ h.user # None /\ made[h.user] # None
        /\ h.step # "done" =>
               h.identity = made[h.user] /\ (user[h.user] = "live" \/ h.overlap)
        /\ h.step = "revoke" =>
               /\ h.token # None
               /\ social[h.identity] = h.user =>
                      credential[h.identity] \in {h.token, None} \/ h.relogin

\* A notification leaves signed in only whom a login reached since.
NoticeOK(h) ==
    /\ h.kind \in Notices => h.identity \in Apple
    /\ h.step \in {"sessions", "delete"} => h.user # None /\ made[h.user] # None
    /\ h.kind = "consent-revoked" /\ ~h.relogin =>
           /\ h.step = "sessions" => social[h.identity] \in (Users \ signedIn) \cup {h.user, None}
           /\ h.step = "credential" => social[h.identity] \notin signedIn

HandlersOK ==
    \A r \in Requests :
        StepsOK(req[r]) /\ LoginOK(req[r]) /\ WithdrawOK(req[r]) /\ NoticeOK(req[r])

(* The inductive invariant, with the invariants it implies as conjuncts.   *)
IInv ==
    /\ RowsAgree
    /\ HistoryOK
    /\ HandlersOK
    /\ RaceIsAbsorbed
    /\ UnlinkedBeforeDeleted
    /\ AnswerIsTrue
    /\ ConsentRevokedIsApplied

-----------------------------------------------------------------------------
(* A user who asks again and again is deleted in the end, although Apple   *)
(* fails, answers are lost and handlers die after the token was revoked,   *)
(* once Apple login stays configured.                                      *)
WithdrawalSucceeds ==
    <>[]configured => \A u \in Users : user[u] = "live" ~> user[u] = "deleted"

=============================================================================
