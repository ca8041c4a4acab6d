--------------------------- MODULE AccountsProofs ---------------------------
(***************************************************************************)
(* Proofs about Accounts, for any sets of users, identities, tokens of     *)
(* Apple and concurrent requests.                                          *)
(***************************************************************************)
EXTENDS Accounts, TLAPS

USE AccountsAssumption

\* What the invariants say of one handler.
Promises(h) ==
    LET i == h.identity IN
    /\ h.kind = "login" /\ h.answer = "500" => h.overlap
    /\ h.kind = "withdraw" /\ h.step = "delete" /\ social[i] = h.user =>
           credential[i] = None \/ ~grant[credential[i]].valid \/ h.relogin
    /\ h.kind = "withdraw" /\ h.step = "done" =>
           CASE h.answer \in {"204", "401"} -> user[h.user] = "deleted"
             [] OTHER -> user[h.user] = "live" \/ h.overlap
    /\ h.kind = "consent-revoked" /\ h.answer = "200" /\ ~h.relogin =>
           credential[i] = None /\ social[i] \notin signedIn

HandlerOK(h) == StepsOK(h) /\ LoginOK(h) /\ WithdrawOK(h) /\ NoticeOK(h) /\ Promises(h)

(* The inductive invariant, handler by handler.                            *)
LEMMA ByHandler ==
  IInv <=> RowsAgree /\ HistoryOK /\ \A r \in Requests : HandlerOK(req[r])
  BY DEF IInv, HandlersOK, HandlerOK, Promises, RaceIsAbsorbed, UnlinkedBeforeDeleted,
         AnswerIsTrue, ConsentRevokedIsApplied

LEMMA ByHandlerNext ==
  RowsAgree' /\ HistoryOK' /\ (\A r \in Requests : HandlerOK(req[r])') => IInv'
  BY DEF IInv, HandlersOK, HandlerOK, Promises, RaceIsAbsorbed, UnlinkedBeforeDeleted,
         AnswerIsTrue, ConsentRevokedIsApplied

LEMMA IdleOK == Idle \in Request /\ HandlerOK(Idle)
  BY DEF Idle, Request, HandlerOK, StepsOK, LoginOK, WithdrawOK, NoticeOK, Promises, Notices

(* The empty tables satisfy the inductive invariant.                       *)
LEMMA InitIInv == Init => IInv
  <1> SUFFICES ASSUME Init PROVE IInv
    OBVIOUS
  <1>1. TypeOK
    BY IdleOK DEF Init, TypeOK
  <1>2. OneAccountEach /\ CredentialBelongs /\ HistoryOK
    BY DEF Init, OneAccountEach, CredentialBelongs, HistoryOK
  <1>3. \A r \in Requests : HandlerOK(req[r])
    BY IdleOK DEF Init
  <1>4. QED
    BY <1>1, <1>2, <1>3, ByHandler DEF RowsAgree

(* An account is the only one of its identity.                             *)
LEMMA OwnIdentity ==
  ASSUME IInv, NEW u \in Users, user[u] = "live"
  PROVE  /\ made[u] \in Identities /\ social[made[u]] = u /\ IdentityOf(u) = made[u]
         /\ \A i \in Identities : social[i] = u => i = made[u]
  <1>1. made[u] \in Identities /\ social[made[u]] = u
    BY DEF IInv, RowsAgree, TypeOK, OneAccountEach
  <1>2. \A i \in Identities : social[i] = u => i = made[u]
    BY DEF IInv, HistoryOK
  <1>3. IdentityOf(u) \in Identities /\ social[IdentityOf(u)] = u
    BY <1>1 DEF IdentityOf
  <1>4. QED
    BY <1>1, <1>2, <1>3

(* A step that only moves one handler to a state h keeps the invariant     *)
(* when what h knows is true.                                              *)
LEMMA HandlerStep ==
  ASSUME IInv, NEW r \in Requests, NEW h \in Request, HandlerOK(h),
         req' = [req EXCEPT ![r] = h], UNCHANGED <<tables, apple, made>>
  PROVE  IInv'
  <1> USE DEF tables, apple
  <1>1. RowsAgree /\ HistoryOK /\ \A q \in Requests : HandlerOK(req[q])
    BY ByHandler
  <1>2. RowsAgree'
    BY <1>1 DEF RowsAgree, TypeOK, OneAccountEach, CredentialBelongs
  <1>3. HistoryOK'
    BY <1>1 DEF HistoryOK
  <1>4. ASSUME NEW q \in Requests PROVE HandlerOK(req[q])'
    <2>1. HandlerOK(req'[q]) 
      BY <1>1 DEF RowsAgree, TypeOK
    <2>2. QED
      BY <2>1 DEF HandlerOK, StepsOK, LoginOK, WithdrawOK, NoticeOK, Promises
  <1>5. QED
    BY <1>2, <1>3, <1>4, ByHandlerNext

(* The facts about the request that an action moves.                       *)
LEMMA Handler ==
  ASSUME IInv, NEW r \in Requests
  PROVE  req[r] \in Request /\ HandlerOK(req[r]) /\ RowsAgree /\ TypeOK /\ HistoryOK
  BY ByHandler DEF RowsAgree, TypeOK

Steps == {"exchange", "find", "create", "refind", "save", "session", "unlink", "revoke",
          "delete", "sessions", "credential"}
Codes == {"200", "204", "401", "500", "502", "503"}
Going(h, step) == [h EXCEPT !.step = step]
Ended(h, code) == [h EXCEPT !.step = "done", !.answer = code]

(* What the two helpers of the handlers write.                             *)
LEMMA GoOnMoves ==
  ASSUME IInv, NEW r \in Requests, NEW step \in Steps
  PROVE  /\ Going(req[r], step) \in Request
         /\ GoOn(r, step) = [req EXCEPT ![r] = Going(req[r], step)]
  <1>1. req[r] \in Request
    BY Handler
  <1>2. Going(req[r], step) \in Request
    BY <1>1 DEF Going, Request, Steps
  <1>3. QED
    BY <1>2 DEF GoOn, Going

LEMMA AnswerMoves ==
  ASSUME IInv, NEW r \in Requests, NEW code \in Codes
  PROVE  /\ Ended(req[r], code) \in Request
         /\ Answer(r, code) = [req EXCEPT ![r] = Ended(req[r], code)]
  <1>1. req[r] \in Request /\ req \in [Requests -> Request]
    BY Handler DEF TypeOK
  <1>2. Ended(req[r], code) \in Request
    BY <1>1 DEF Ended, Request, Codes
  <1>3. Answer(r, code) = [req EXCEPT ![r] = Ended(req[r], code)]
    BY <1>1 DEF Answer, Ended
  <1>4. QED
    BY <1>2, <1>3

(* A request that arrives begins in a state h, or is refused.              *)
LEMMA ArrivesStep ==
  ASSUME IInv, NEW r \in Requests, NEW kind \in {"login"} \cup Notices, NEW i \in Identities,
         NEW code, NEW step \in {"find", "exchange"}, Arrives(r, kind, i, code, step),
         UNCHANGED <<tables, apple, made>>,
         kind # "login" => i \in Apple /\ step = "find", step = "exchange" => i \in Apple
  PROVE  IInv'
  <1> DEFINE h == [Idle EXCEPT !.kind = kind, !.identity = i, !.step = step]
  <1>1. h \in Request
    BY DEF Idle, Request
  <1>2. HandlerOK(h)
    BY DEF Idle, HandlerOK, StepsOK, LoginOK, WithdrawOK, NoticeOK, Promises, Notices
  <1>3. CASE req' = [req EXCEPT ![r] = h]
    BY <1>1, <1>2, <1>3, HandlerStep
  <1>4. CASE req' = req
    <2>1. req' = [req EXCEPT ![r] = req[r]]
      BY <1>4, Handler DEF TypeOK
    <2>2. QED
      BY <2>1, Handler, HandlerStep
  <1>5. QED
    BY <1>3, <1>4 DEF Arrives

LEMMA LoginArrivesStep ==
  ASSUME IInv, NEW r \in Requests, NEW i \in Identities, KakaoLogin(r, i) \/ AppleLogin(r, i)
  PROVE  IInv'
  <1>1. CASE KakaoLogin(r, i)
    BY <1>1, ArrivesStep DEF KakaoLogin
  <1>2. CASE AppleLogin(r, i)
    BY <1>2, ArrivesStep DEF AppleLogin
  <1>3. QED
    BY <1>1, <1>2

LEMMA NotifiedStep ==
  ASSUME IInv, NEW r \in Requests, NEW i \in Apple, NEW type \in Notices, Notified(r, type, i)
  PROVE  IInv'
  BY ArrivesStep DEF Notified

LEMMA FindAccountStep ==
  ASSUME IInv, NEW r \in Requests, req[r].kind = "login", FindAccount(r)
  PROVE  IInv'
  <1> USE Handler DEF HandlerOK
  <1> DEFINE i == req[r].identity
             u == social[i]
  <1>1. i \in Identities /\ u \in Users \cup {None}
    BY DEF LoginOK, TypeOK
  <1>2. CASE u = None
    <2> DEFINE h == Going(req[r], "create")
    <2>1. h \in Request /\ req' = [req EXCEPT ![r] = h]
      BY <1>2, GoOnMoves DEF FindAccount, Steps
    <2>2. HandlerOK(h)
      BY DEF Going, FindAccount, Request, StepsOK, LoginOK, WithdrawOK, NoticeOK, Promises, Notices
    <2>3. QED
      BY <2>1, <2>2, HandlerStep DEF FindAccount
  <1>3. CASE u # None
    <2> DEFINE h == [req[r] EXCEPT !.user = u, !.step = AfterAccount(r)]
    <2>1. h \in Request /\ req' = [req EXCEPT ![r] = h]
      BY <1>1, <1>3 DEF FindAccount, Request, TypeOK, AfterAccount
    <2>2. user[u] = "live" /\ made[u] = i
      BY <1>1, <1>3 DEF HistoryOK, RowsAgree, OneAccountEach
    <2>3. HandlerOK(h)
      BY <1>1, <1>3, <2>2
         DEF FindAccount, Request, StepsOK, LoginOK, WithdrawOK, NoticeOK, Promises, Notices, AfterAccount
    <2>4. QED
      BY <2>1, <2>3, HandlerStep DEF FindAccount
  <1>4. QED
    BY <1>2, <1>3

LEMMA FindAgainStep ==
  ASSUME IInv, NEW r \in Requests, FindAgain(r)
  PROVE  IInv'
  <1> USE Handler DEF HandlerOK
  <1> DEFINE i == req[r].identity
             u == social[i]
  <1>1. req[r].kind = "login" /\ i \in Identities /\ u \in Users \cup {None}
    BY DEF FindAgain, StepsOK, LoginOK, TypeOK, Request, Notices
  <1>2. CASE u = None
    <2> DEFINE h == Ended(req[r], "500")
    <2>1. h \in Request /\ req' = [req EXCEPT ![r] = h]
      BY <1>2, AnswerMoves DEF FindAgain, Codes
    <2>2. HandlerOK(h)
      BY <1>1, <1>2 DEF Ended, FindAgain, Request, StepsOK, LoginOK, WithdrawOK, NoticeOK, Promises, Notices
    <2>3. QED
      BY <2>1, <2>2, HandlerStep DEF FindAgain
  <1>3. CASE u # None
    <2> DEFINE h == [req[r] EXCEPT !.user = u, !.step = AfterAccount(r)]
    <2>1. h \in Request /\ req' = [req EXCEPT ![r] = h]
      BY <1>1, <1>3 DEF FindAgain, Request, TypeOK, AfterAccount
    <2>2. user[u] = "live" /\ made[u] = i
      BY <1>1, <1>3 DEF HistoryOK, RowsAgree, OneAccountEach
    <2>3. HandlerOK(h)
      BY <1>1, <1>3, <2>2
         DEF FindAgain, Request, StepsOK, LoginOK, WithdrawOK, NoticeOK, Promises, Notices, AfterAccount
    <2>4. QED
      BY <2>1, <2>3, HandlerStep DEF FindAgain
  <1>4. QED
    BY <1>2, <1>3

LEMMA CreateConflictStep ==
  ASSUME IInv, NEW r \in Requests, CreateConflict(r)
  PROVE  IInv'
  <1> USE Handler DEF HandlerOK
  <1> DEFINE h == Going(req[r], "refind")
  <1>1. h \in Request /\ req' = [req EXCEPT ![r] = h]
    BY GoOnMoves DEF CreateConflict, Steps
  <1>2. HandlerOK(h)
    BY DEF Going, CreateConflict, Request, StepsOK, LoginOK, WithdrawOK, NoticeOK, Promises, Notices
  <1>3. QED
    BY <1>1, <1>2, HandlerStep DEF CreateConflict

LEMMA WithdrawStep ==
  ASSUME IInv, NEW r \in Requests, NEW u \in Users, Withdraw(r, u)
  PROVE  IInv'
  <1> USE Handler DEF HandlerOK
  <1>1. made[u] # None /\ user[u] \in {"live", "deleted"}
    BY DEF Withdraw, HistoryOK, TypeOK
  <1>2. CASE user[u] = "live"
    <2> DEFINE h == [Idle EXCEPT !.kind = "withdraw", !.step = "unlink",
                                 !.user = u, !.identity = IdentityOf(u)]
    <2>1. IdentityOf(u) = made[u] /\ made[u] \in Identities
      BY <1>2, OwnIdentity
    <2>2. h \in Request /\ req' = [req EXCEPT ![r] = h]
      BY <1>2, <2>1 DEF Withdraw, Idle, Request
    <2>3. HandlerOK(h)
      BY <1>1, <1>2, <2>1 DEF Idle, StepsOK, LoginOK, WithdrawOK, NoticeOK, Promises, Notices
    <2>4. QED
      BY <2>2, <2>3, HandlerStep DEF Withdraw
  <1>3. CASE user[u] = "deleted"
    <2> DEFINE h == [Idle EXCEPT !.kind = "withdraw", !.step = "done", !.user = u, !.answer = "401"]
    <2>1. h \in Request /\ req' = [req EXCEPT ![r] = h]
      BY <1>3 DEF Withdraw, Idle, Request
    <2>2. HandlerOK(h)
      BY <1>1, <1>3 DEF Idle, StepsOK, LoginOK, WithdrawOK, NoticeOK, Promises, Notices
    <2>3. QED
      BY <2>1, <2>2, HandlerStep DEF Withdraw
  <1>4. QED
    BY <1>1, <1>2, <1>3

LEMMA UnlinkStep ==
  ASSUME IInv, NEW r \in Requests, Unlink(r)
  PROVE  IInv'
  <1> USE Handler DEF HandlerOK
  <1> DEFINE owned == {i \in Apple : social[i] = req[r].user /\ credential[i] # None}
             sealed == IF owned = {} THEN None ELSE credential[CHOOSE i \in owned : TRUE]
             i == req[r].identity
  <1>1. /\ req[r].kind = "withdraw" /\ req[r].step = "unlink" /\ req[r].answer = "none"
        /\ req[r].user \in Users /\ i = made[req[r].user] /\ i \in Identities
        /\ user[req[r].user] = "live" \/ req[r].overlap
    BY DEF Unlink, StepsOK, WithdrawOK, TypeOK, Request, Notices
  <1>2. \A j \in Identities : social[j] = req[r].user => j = i
    BY <1>1 DEF HistoryOK
  <1>3. \A j \in owned : j = i
    BY <1>2
  <1>4. sealed = None /\ social[i] = req[r].user => credential[i] = None
    <2>1. CASE owned = {}
      BY <1>1, <2>1 DEF RowsAgree, CredentialBelongs, TypeOK
    <2>2. CASE owned # {}
      <3>1. (CHOOSE j \in owned : TRUE) \in owned
        BY <2>2
      <3>2. QED
        BY <2>2, <3>1
    <2>3. QED
      BY <2>1, <2>2
  <1>5. sealed # None => sealed \in Grants /\ sealed = credential[i]
    <2>1. ASSUME owned # {} PROVE (CHOOSE j \in owned : TRUE) = i /\ i \in owned
      BY <1>3, <2>1
    <2>2. QED
      BY <2>1 DEF TypeOK
  <1> HIDE DEF owned, sealed
  <1>6. CASE sealed = None
    <2> DEFINE h == [req[r] EXCEPT !.step = "delete", !.relogin = FALSE]
    <2>1. h \in Request
      BY DEF Request
    <2>2. req' = [req EXCEPT ![r] = h]
      BY <1>6 DEF Unlink, owned, sealed, TypeOK
    <2>3. HandlerOK(h)
      BY <1>1, <1>4, <1>6 DEF Request, StepsOK, LoginOK, WithdrawOK, NoticeOK, Promises, Notices
    <2>4. QED
      BY <2>1, <2>2, <2>3, HandlerStep DEF Unlink
  <1>7. CASE sealed # None /\ ~configured
    <2> DEFINE h == Ended(req[r], "503")
    <2>1. h \in Request /\ req' = [req EXCEPT ![r] = h]
      BY <1>7, AnswerMoves DEF Unlink, owned, sealed, Codes
    <2>2. HandlerOK(h)
      BY <1>1 DEF Ended, Request, StepsOK, LoginOK, WithdrawOK, NoticeOK, Promises, Notices
    <2>3. QED
      BY <2>1, <2>2, HandlerStep DEF Unlink
  <1>8. CASE sealed # None /\ configured
    <2> DEFINE h == [req[r] EXCEPT !.step = "revoke", !.token = sealed, !.relogin = FALSE]
    <2>1. h \in Request
      BY ZenonT(40), <1>5, <1>8 DEF Request
    <2>2. req' = [req EXCEPT ![r] = h]
      BY <1>8 DEF Unlink, owned, sealed, TypeOK
    <2>3. HandlerOK(h)
      BY <1>1, <1>5, <1>8 DEF Request, StepsOK, LoginOK, WithdrawOK, NoticeOK, Promises, Notices
    <2>4. QED
      BY <2>1, <2>2, <2>3, HandlerStep DEF Unlink
  <1>9. QED
    BY <1>6, <1>7, <1>8

LEMMA NoticeFindStep ==
  ASSUME IInv, NEW r \in Requests, NoticeFind(r)
  PROVE  IInv'
  <1> USE Handler DEF HandlerOK
  <1> DEFINE i == req[r].identity
             u == social[i]
             h == CASE u # None -> [req[r] EXCEPT !.user = u,
                                      !.step = IF req[r].kind = "consent-revoked" THEN "sessions"
                                               ELSE "delete"]
                    [] u = None /\ req[r].kind = "consent-revoked" -> [req[r] EXCEPT !.step = "credential"]
                    [] OTHER -> [req[r] EXCEPT !.step = "done", !.answer = "200"]
  <1>1. i \in Identities /\ u \in Users \cup {None} /\ (u # None => made[u] = i) /\ None \notin signedIn
    BY DEF NoticeFind, NoticeOK, TypeOK, HistoryOK
  <1>2. h \in Request /\ req' = [req EXCEPT ![r] = h]
    BY <1>1 DEF NoticeFind, GoOn, Answer, Request, TypeOK, Notices
  <1>3. HandlerOK(h)
    BY <1>1 DEF NoticeFind, Request, StepsOK, LoginOK, WithdrawOK, NoticeOK, Promises, Notices
  <1>4. QED
    BY <1>2, <1>3, HandlerStep DEF NoticeFind

LEMMA EndsStep ==
  ASSUME IInv, NEW r \in Requests, Answered(r) \/ Abandoned(r)
  PROVE  IInv'
  BY IdleOK, HandlerStep DEF Answered, Abandoned

(***************************************************************************)
(* Steps that change what Apple knows.                                     *)
(***************************************************************************)
\* Tokens keep their holder and do not become valid again.
GrantsWeaken ==
    /\ grant' \in [Grants -> [holder : Apple \cup {None}, valid : BOOLEAN]]
    /\ \A k \in Grants : /\ grant'[k].holder = grant[k].holder
                         /\ grant'[k].valid => grant[k].valid

LEMMA WeakerGrants ==
  ASSUME IInv, UNCHANGED <<tables, made>>, GrantsWeaken,
         notices' \subseteq Notices \X Apple, configured' \in BOOLEAN,
         req' \in [Requests -> Request]
  PROVE  /\ RowsAgree' /\ HistoryOK'
         /\ \A q \in Requests : req'[q] = req[q] => HandlerOK(req[q])'
  <1> USE DEF tables, GrantsWeaken
  <1>1. RowsAgree /\ HistoryOK /\ \A q \in Requests : HandlerOK(req[q])
    BY ByHandler
  <1>2. RowsAgree'
    BY <1>1 DEF RowsAgree, TypeOK, OneAccountEach, CredentialBelongs
  <1>3. HistoryOK'
    BY <1>1 DEF HistoryOK
  <1>4. ASSUME NEW q \in Requests, req'[q] = req[q] PROVE HandlerOK(req[q])'
    <2>1. HandlerOK(req[q]) /\ TypeOK /\ req[q] \in Request
      BY <1>1 DEF RowsAgree, TypeOK
    <2>2. StepsOK(req[q])' /\ WithdrawOK(req[q])' /\ NoticeOK(req[q])'
      BY <1>4, <2>1 DEF HandlerOK, StepsOK, WithdrawOK, NoticeOK
    <2>3. LoginOK(req[q])'
      BY <1>4, <2>1 DEF HandlerOK, LoginOK, TypeOK, Request
    <2>4. Promises(req[q])'
      BY <1>4, <2>1 DEF HandlerOK, WithdrawOK, StepsOK, Promises, TypeOK, Request
    <2>5. QED
      BY <2>2, <2>3, <2>4 DEF HandlerOK
  <1>5. QED
    BY <1>2, <1>3, <1>4

LEMMA AppleUserLeavesStep ==
  ASSUME IInv, NEW i \in Apple, NEW type \in Notices, AppleUserLeaves(i, type)
  PROVE  IInv'
  <1>1. notices' \subseteq Notices \X Apple /\ configured' \in BOOLEAN
        /\ req' = req /\ req \in [Requests -> Request]
    BY ByHandler DEF AppleUserLeaves, RowsAgree, TypeOK
  <1>2. GrantsWeaken
    <2>1. grant \in [Grants -> [holder : Apple \cup {None}, valid : BOOLEAN]]
      BY ByHandler DEF RowsAgree, TypeOK
    <2>2. ASSUME NEW k \in Grants
          PROVE  /\ grant'[k] \in [holder : Apple \cup {None}, valid : BOOLEAN]
                 /\ grant'[k].holder = grant[k].holder
                 /\ grant'[k].valid => grant[k].valid
      BY <2>1 DEF AppleUserLeaves
    <2>3. QED
      BY <2>2 DEF AppleUserLeaves, GrantsWeaken
  <1>3. UNCHANGED <<tables, made>>
    BY DEF AppleUserLeaves
  <1>4. QED
    BY <1>1, <1>2, <1>3, WeakerGrants, ByHandlerNext

LEMMA RestartedStep ==
  ASSUME IInv, Restarted
  PROVE  IInv'
  <1>1. GrantsWeaken /\ notices' \subseteq Notices \X Apple /\ configured' \in BOOLEAN
    BY ByHandler DEF Restarted, GrantsWeaken, RowsAgree, TypeOK
  <1>2. req' \in [Requests -> Request] /\ \A q \in Requests : req'[q] = Idle
    BY IdleOK DEF Restarted
  <1>3. \A q \in Requests : HandlerOK(req[q])'
    BY <1>2 DEF Idle, HandlerOK, StepsOK, LoginOK, WithdrawOK, NoticeOK, Promises, Notices
  <1>4. UNCHANGED <<tables, made>>
    BY DEF Restarted
  <1>5. QED
    BY <1>1, <1>2, <1>3, <1>4, WeakerGrants, ByHandlerNext

LEMMA RevokeStep ==
  ASSUME IInv, NEW r \in Requests, Revoke(r) \/ RevokeFails(r)
  PROVE  IInv'
  <1> USE Handler DEF HandlerOK
  <1> DEFINE h == IF Revoke(r) THEN Going(req[r], "delete") ELSE Ended(req[r], "502")
  <1>1. /\ req[r].kind = "withdraw" /\ req[r].step = "revoke" /\ req[r].answer = "none"
        /\ req[r].user \in Users /\ req[r].token \in Grants
        /\ req[r].identity \in Identities
        /\ credential[req[r].identity] \in Grants \cup {None}
    BY DEF Revoke, RevokeFails, StepsOK, WithdrawOK, TypeOK, Request, Notices
  <1>2. GrantsWeaken
    <2> DEFINE k == req[r].token
    <2>1. grant \in [Grants -> [holder : Apple \cup {None}, valid : BOOLEAN]]
      BY DEF TypeOK
    <2>2. PICK v \in BOOLEAN : /\ grant' = [grant EXCEPT ![k].valid = v]
                               /\ v => grant[k].valid
      <3>1. grant[k].valid \in BOOLEAN
        BY <1>1, <2>1
      <3>2. CASE grant' = [grant EXCEPT ![k].valid = FALSE]
        BY <3>2
      <3>3. CASE grant' = [grant EXCEPT ![k].valid = @ /\ ~TRUE]
        BY <3>1, <3>3
      <3>4. CASE grant' = [grant EXCEPT ![k].valid = @ /\ ~FALSE]
        BY <3>1, <3>4
      <3>5. QED
        BY <3>2, <3>3, <3>4 DEF Revoke, RevokeFails
    <2>3. QED
      BY <1>1, <2>1, <2>2 DEF GrantsWeaken
  <1>3. UNCHANGED <<tables, made, notices, configured>>
    BY DEF Revoke, RevokeFails
  <1>4. notices' \subseteq Notices \X Apple /\ configured' \in BOOLEAN
    BY <1>3 DEF TypeOK
  <1>5. CASE Revoke(r)
    <2>1. /\ Going(req[r], "delete") \in Request
          /\ req' = [req EXCEPT ![r] = Going(req[r], "delete")]
      BY <1>5, GoOnMoves DEF Revoke, Steps
    <2>2. req' \in [Requests -> Request] /\ req'[r] = Going(req[r], "delete")
          /\ \A q \in Requests : q # r => req'[q] = req[q]
      BY <2>1 DEF TypeOK
    <2>3. /\ req'[r].kind = "withdraw" /\ req'[r].step = "delete" /\ req'[r].answer = "none"
          /\ req'[r].user = req[r].user /\ req'[r].token = req[r].token
          /\ req'[r].identity = req[r].identity /\ req'[r].overlap = req[r].overlap
          /\ req'[r].relogin = req[r].relogin
      BY <1>1, <2>2 DEF Going, Request
    <2>4. ~grant'[req[r].token].valid
      BY <1>1, <1>5 DEF Revoke, TypeOK
    <2>5. StepsOK(req[r])' /\ LoginOK(req[r])' /\ NoticeOK(req[r])'
      BY <1>1, <1>3, <2>3 DEF StepsOK, LoginOK, WithdrawOK, NoticeOK, Notices, tables
    <2>6. WithdrawOK(req[r])'
      BY <1>1, <1>3, <2>3 DEF WithdrawOK, tables
    <2>7. Promises(req[r])'
      BY <1>1, <1>3, <2>3, <2>4 DEF WithdrawOK, Promises, tables
    <2>8. QED
      BY <1>2, <1>3, <1>4, <2>2, <2>5, <2>6, <2>7, WeakerGrants, ByHandlerNext
  <1>6. CASE RevokeFails(r)
    <2>1. /\ Ended(req[r], "502") \in Request
          /\ req' = [req EXCEPT ![r] = Ended(req[r], "502")]
      BY <1>6, AnswerMoves DEF RevokeFails, Codes
    <2>2. req' \in [Requests -> Request] /\ req'[r] = Ended(req[r], "502")
          /\ \A q \in Requests : q # r => req'[q] = req[q]
      BY <2>1 DEF TypeOK
    <2>3. /\ req'[r].kind = "withdraw" /\ req'[r].step = "done" /\ req'[r].answer = "502"
          /\ req'[r].user = req[r].user
          /\ req'[r].identity = req[r].identity /\ req'[r].overlap = req[r].overlap
      BY <1>1, <2>2 DEF Ended, Request
    <2>4. StepsOK(req[r])' /\ LoginOK(req[r])' /\ NoticeOK(req[r])'
      BY <1>1, <1>3, <2>3 DEF StepsOK, LoginOK, WithdrawOK, NoticeOK, Notices, tables
    <2>5. WithdrawOK(req[r])' /\ Promises(req[r])'
      BY <1>1, <1>3, <2>3 DEF WithdrawOK, Promises, tables
    <2>6. QED
      BY <1>2, <1>3, <1>4, <2>2, <2>4, <2>5, WeakerGrants, ByHandlerNext
  <1>7. QED
    BY <1>5, <1>6

LEMMA AppleExchangeStep ==
  ASSUME IInv, NEW r \in Requests, NEW k \in Grants, AppleExchange(r, k)
  PROVE  IInv'
  <1> USE Handler DEF HandlerOK
  <1> DEFINE i == req[r].identity
  <1>1. /\ req[r].kind = "login" /\ req[r].step = "exchange" /\ req[r].answer = "none"
        /\ i \in Apple /\ req[r].token = None
    BY DEF AppleExchange, StepsOK, LoginOK, Request, Notices
  <1>2. CASE req' = [req EXCEPT ![r] = Idle] /\ UNCHANGED grant
    <2>1. UNCHANGED <<tables, apple, made>>
      BY <1>2 DEF AppleExchange, apple
    <2>2. QED
      BY <1>2, <2>1, IdleOK, HandlerStep
  <1>3. CASE /\ req' = [req EXCEPT ![r].step = "find", ![r].token = k]
             /\ grant' = [grant EXCEPT ![k] = [holder |-> i, valid |-> TRUE]]
    <2>1. UNCHANGED <<tables, notices, configured, made>> /\ grant[k].holder = None
      BY DEF AppleExchange
    <2>2. req' \in [Requests -> Request]
      <3> DEFINE h == [req[r] EXCEPT !.step = "find", !.token = k]
      <3>1. h \in Request
        BY DEF Request
      <3>2. req' = [req EXCEPT ![r] = h]
        BY <1>3 DEF TypeOK
      <3>3. QED
        BY <3>1, <3>2 DEF TypeOK
    <2>3. /\ req'[r].kind = "login" /\ req'[r].step = "find" /\ req'[r].answer = "none"
          /\ req'[r].identity = i /\ req'[r].token = k
          /\ \A q \in Requests : q # r => req'[q] = req[q]
      BY <1>1, <1>3 DEF TypeOK, Request
    <2>4. /\ grant' \in [Grants -> [holder : Apple \cup {None}, valid : BOOLEAN]]
          /\ grant'[k].holder = i
          /\ \A g \in Grants : g # k => grant'[g] = grant[g]
      BY <1>1, <1>3 DEF TypeOK
    <2>5. \A j \in Identities : credential[j] # None => credential[j] # k /\ credential[j] \in Grants
      BY <2>1 DEF RowsAgree, CredentialBelongs, TypeOK
    <2>6. RowsAgree' /\ HistoryOK'
      BY <2>1, <2>2, <2>4, <2>5
         DEF RowsAgree, TypeOK, OneAccountEach, CredentialBelongs, HistoryOK, tables
    <2>7. StepsOK(req[r])' /\ LoginOK(req[r])' /\ WithdrawOK(req[r])' /\ NoticeOK(req[r])' /\ Promises(req[r])'
      BY <1>1, <2>3, <2>4 DEF StepsOK, LoginOK, WithdrawOK, NoticeOK, Promises, Notices
    <2>8. ASSUME NEW q \in Requests, q # r PROVE HandlerOK(req[q])'
      <3>1. req'[q] = req[q] /\ HandlerOK(req[q]) /\ req[q] \in Request
        BY <2>3, <2>8
      <3>2. StepsOK(req[q])' /\ WithdrawOK(req[q])' /\ NoticeOK(req[q])'
        BY <2>1, <3>1 DEF StepsOK, WithdrawOK, NoticeOK, tables
      <3>3. LoginOK(req[q])'
        BY <2>1, <2>4, <3>1 DEF LoginOK, Request, tables
      <3>4. Promises(req[q])'
        BY <2>1, <2>4, <2>5, <3>1 DEF Promises, WithdrawOK, TypeOK, Request, tables
      <3>5. QED
        BY <3>2, <3>3, <3>4
    <2>9. QED
      BY <2>6, <2>7, <2>8, ByHandlerNext
  <1>4. QED
    BY <1>2, <1>3 DEF AppleExchange

(***************************************************************************)
(* Steps that change the tables.                                           *)
(***************************************************************************)
LEMMA CreateAccountStep ==
  ASSUME IInv, NEW r \in Requests, NEW u \in Users, CreateAccount(r, u)
  PROVE  IInv'
  <1> USE Handler DEF HandlerOK
  <1> DEFINE i == req[r].identity
             h == [req[r] EXCEPT !.user = u, !.step = AfterAccount(r)]
  <1>1. /\ req[r].kind = "login" /\ req[r].step = "create" /\ req[r].answer = "none"
        /\ i \in Identities /\ social[i] = None
        /\ req[r].token # None => grant[req[r].token].holder = i
    BY DEF CreateAccount, StepsOK, LoginOK, Request, Notices
  <1>2. /\ user[u] = "new" /\ made[u] = None /\ u \notin signedIn
        /\ user' = [user EXCEPT ![u] = "live"]
        /\ social' = [social EXCEPT ![i] = u]
        /\ made' = [made EXCEPT ![u] = i]
        /\ UNCHANGED <<credential, signedIn, apple>>
    BY DEF CreateAccount, CreatedFor, HistoryOK
  <1>3. h \in Request /\ req' = [req EXCEPT ![r] = h]
    <2>1. h \in Request
      BY ZenonT(40) DEF Request, AfterAccount
    <2>2. QED
      BY <2>1 DEF CreateAccount, CreatedFor, TypeOK
  <1>4. /\ req' \in [Requests -> Request] /\ \A q \in Requests : q # r => req'[q] = req[q]
        /\ req'[r].kind = "login" /\ req'[r].step \in {"save", "session"}
        /\ req'[r].step = "save" => req[r].token # None
        /\ req'[r].answer = "none" /\ req'[r].user = u
        /\ req'[r].identity = i /\ req'[r].token = req[r].token
    BY <1>1, <1>3 DEF TypeOK, Request, AfterAccount
  <1>5. RowsAgree'
    <2>1. TypeOK' /\ CredentialBelongs'
      BY <1>1, <1>2, <1>4 DEF RowsAgree, TypeOK, CredentialBelongs, apple
    <2>2. OneAccountEach'
      BY <1>1, <1>2 DEF RowsAgree, TypeOK, OneAccountEach, HistoryOK
    <2>3. QED
      BY <2>1, <2>2 DEF RowsAgree
  <1>6. HistoryOK'
    BY <1>1, <1>2 DEF TypeOK, HistoryOK
  <1>7. HandlerOK(req[r])'
    BY <1>1, <1>2, <1>4 DEF TypeOK, StepsOK, LoginOK, WithdrawOK, NoticeOK, Promises, Notices, apple
  <1>8. ASSUME NEW q \in Requests, q # r PROVE HandlerOK(req[q])'
    <2>1. req'[q] = req[q] /\ HandlerOK(req[q]) /\ req[q] \in Request
      BY <1>4, <1>8
    <2>2. StepsOK(req[q])'
      BY <2>1 DEF StepsOK
    <2>3. LoginOK(req[q])'
      BY <1>1, <1>2, <2>1 DEF LoginOK, Request, TypeOK, apple
    <2>4. WithdrawOK(req[q])'
      BY <1>1, <1>2, <2>1 DEF WithdrawOK, Request, TypeOK, HistoryOK
    <2>5. NoticeOK(req[q])'
      BY <1>1, <1>2, <2>1 DEF NoticeOK, Request, TypeOK
    <2>6. Promises(req[q])'
      BY <1>1, <1>2, <2>1 DEF Promises, WithdrawOK, StepsOK, Request, TypeOK, Notices, apple
    <2>7. QED
      BY <2>2, <2>3, <2>4, <2>5, <2>6
  <1>9. QED
    BY <1>5, <1>6, <1>7, <1>8, ByHandlerNext

\* Two states of a handler that differ in the history at most.
SameHandler(a, b) ==
    /\ a.kind = b.kind /\ a.step = b.step /\ a.identity = b.identity
    /\ a.user = b.user /\ a.token = b.token /\ a.answer = b.answer

(* What the others learn of a login.                                       *)
LEMMA ReloggedOK ==
  ASSUME NEW rs \in [Requests -> Request], NEW i
  PROVE  /\ Relogged(rs, i) \in [Requests -> Request]
         /\ \A q \in Requests :
               /\ SameHandler(Relogged(rs, i)[q], rs[q])
               /\ Relogged(rs, i)[q].overlap = rs[q].overlap
               /\ rs[q].relogin => Relogged(rs, i)[q].relogin
               /\ Relogged(rs, i)[q].relogin => rs[q].relogin \/ rs[q].identity = i
               /\ rs[q].identity = i /\ rs[q].kind \in {"withdraw", "consent-revoked"} =>
                      Relogged(rs, i)[q].relogin
  <1>1. ASSUME NEW q \in Requests PROVE [rs[q] EXCEPT !.relogin = TRUE] \in Request
    BY ZenonT(40) DEF Request
  <1>2. Relogged(rs, i) \in [Requests -> Request]
    BY <1>1 DEF Relogged
  <1>3. ASSUME NEW q \in Requests
        PROVE  /\ SameHandler(Relogged(rs, i)[q], rs[q])
               /\ Relogged(rs, i)[q].overlap = rs[q].overlap
               /\ rs[q].relogin => Relogged(rs, i)[q].relogin
               /\ Relogged(rs, i)[q].relogin => rs[q].relogin \/ rs[q].identity = i
               /\ rs[q].identity = i /\ rs[q].kind \in {"withdraw", "consent-revoked"} =>
                      Relogged(rs, i)[q].relogin
    <2>1. rs[q] \in Request
      OBVIOUS
    <2>2. CASE rs[q].identity = i /\ rs[q].kind \in {"withdraw", "consent-revoked"}
      <3>1. Relogged(rs, i)[q] = [rs[q] EXCEPT !.relogin = TRUE]
        BY <2>2 DEF Relogged
      <3>2. QED
        BY <2>1, <2>2, <3>1 DEF SameHandler, Request
    <2>3. CASE ~(rs[q].identity = i /\ rs[q].kind \in {"withdraw", "consent-revoked"})
      BY <2>1, <2>3 DEF Relogged, SameHandler
    <2>4. QED
      BY <2>2, <2>3
  <1>4. QED
    BY <1>2, <1>3

(* What the others learn of a deletion.                                    *)
LEMMA OverlappedOK ==
  ASSUME NEW rs \in [Requests -> Request], NEW by \in Requests
  PROVE  /\ Overlapped(rs, by) \in [Requests -> Request]
         /\ Overlapped(rs, by)[by] = rs[by]
         /\ \A q \in Requests :
               /\ SameHandler(Overlapped(rs, by)[q], rs[q])
               /\ Overlapped(rs, by)[q].relogin = rs[q].relogin
               /\ rs[q].overlap => Overlapped(rs, by)[q].overlap
               /\ q # by /\ rs[q].kind \in {"login", "withdraw"} => Overlapped(rs, by)[q].overlap
  <1>1. ASSUME NEW q \in Requests PROVE [rs[q] EXCEPT !.overlap = TRUE] \in Request
    BY ZenonT(40) DEF Request
  <1>2. Overlapped(rs, by) \in [Requests -> Request]
    BY <1>1 DEF Overlapped
  <1>3. ASSUME NEW q \in Requests
        PROVE  /\ SameHandler(Overlapped(rs, by)[q], rs[q])
               /\ Overlapped(rs, by)[q].relogin = rs[q].relogin
               /\ rs[q].overlap => Overlapped(rs, by)[q].overlap
               /\ q # by /\ rs[q].kind \in {"login", "withdraw"} => Overlapped(rs, by)[q].overlap
    <2>1. rs[q] \in Request
      OBVIOUS
    <2>2. CASE q # by /\ rs[q].kind \in {"login", "withdraw"}
      <3>1. Overlapped(rs, by)[q] = [rs[q] EXCEPT !.overlap = TRUE]
        BY <2>2 DEF Overlapped
      <3>2. QED
        BY <2>1, <2>2, <3>1 DEF SameHandler, Request
    <2>3. CASE ~(q # by /\ rs[q].kind \in {"login", "withdraw"})
      BY <2>1, <2>3 DEF Overlapped, SameHandler
    <2>4. QED
      BY <2>2, <2>3
  <1>4. Overlapped(rs, by)[by] = rs[by]
    BY DEF Overlapped
  <1>5. QED
    BY <1>2, <1>3, <1>4

LEMMA SaveCredentialStep ==
  ASSUME IInv, NEW r \in Requests, SaveCredential(r)
  PROVE  IInv'
  <1> USE Handler DEF HandlerOK
  <1> DEFINE i == req[r].identity
             k == req[r].token
  <1>1. /\ req[r].kind = "login" /\ req[r].step = "save" /\ req[r].answer = "none"
        /\ i \in Identities /\ k \in Grants /\ grant[k].holder = i
        /\ req[r].user \in Users /\ made[req[r].user] = i
        /\ user[req[r].user] = "live" \/ req[r].overlap
    BY DEF SaveCredential, StepsOK, LoginOK, Request, Notices
  <1>2. CASE social[i] = None
    <2> DEFINE h == Ended(req[r], "500")
    <2>1. h \in Request /\ req' = [req EXCEPT ![r] = h]
      BY <1>2, AnswerMoves DEF SaveCredential, Codes
    <2>2. req[r].overlap
      BY <1>1, <1>2 DEF RowsAgree, OneAccountEach
    <2>3. HandlerOK(h)
      BY <1>1, <2>2 DEF Ended, Request, StepsOK, LoginOK, WithdrawOK, NoticeOK, Promises, Notices
    <2>4. UNCHANGED <<tables, apple, made>>
      BY <1>2 DEF SaveCredential, tables
    <2>5. QED
      BY <2>1, <2>3, <2>4, HandlerStep
  <1>3. CASE social[i] # None
    <2> DEFINE rs == [req EXCEPT ![r] = Going(req[r], "session")]
    <2>1. /\ credential' = [credential EXCEPT ![i] = k]
          /\ UNCHANGED <<user, social, signedIn, apple, made>>
      BY <1>3 DEF SaveCredential
    <2>2. /\ rs \in [Requests -> Request] /\ req' = Relogged(rs, i)
          /\ rs[r] = Going(req[r], "session") /\ rs[r].overlap = req[r].overlap
          /\ \A q \in Requests : q # r => rs[q] = req[q]
      <3>1. rs = GoOn(r, "session") /\ Going(req[r], "session") \in Request
        BY GoOnMoves DEF Steps
      <3>2. Going(req[r], "session").overlap = req[r].overlap
        BY DEF Going, Request
      <3>3. QED
        BY <1>3, <3>1, <3>2 DEF SaveCredential, TypeOK
    <2> HIDE DEF rs
    <2>3. /\ req' \in [Requests -> Request] /\ SameHandler(req'[r], Going(req[r], "session"))
          /\ req'[r].overlap = req[r].overlap
      BY <2>2, ReloggedOK
    <2>4. \A q \in Requests : q # r =>
             /\ SameHandler(req'[q], req[q])
             /\ req'[q].overlap = req[q].overlap
             /\ req[q].relogin => req'[q].relogin
             /\ req[q].identity = i /\ req[q].kind \in {"withdraw", "consent-revoked"} =>
                    req'[q].relogin
      BY <2>2, ReloggedOK
    <2>5. RowsAgree' /\ HistoryOK'
      BY <1>1, <2>1, <2>3 DEF RowsAgree, TypeOK, OneAccountEach, CredentialBelongs, HistoryOK, apple
    <2>6. HandlerOK(req[r])'
      BY <1>1, <2>1, <2>3 DEF SameHandler, Going, Request, StepsOK, LoginOK, WithdrawOK,
                              NoticeOK, Promises, Notices, apple
    <2>7. ASSUME NEW q \in Requests, q # r PROVE HandlerOK(req[q])'
      <3>1. /\ SameHandler(req'[q], req[q]) /\ HandlerOK(req[q]) /\ req[q] \in Request
            /\ req'[q].overlap = req[q].overlap
            /\ req[q].relogin => req'[q].relogin
            /\ req[q].identity = i /\ req[q].kind \in {"withdraw", "consent-revoked"} =>
                   req'[q].relogin
        BY <2>4, <2>7
      <3>2. StepsOK(req[q])'
        BY <3>1 DEF StepsOK, SameHandler
      <3>3. LoginOK(req[q])'
        BY <2>1, <3>1 DEF LoginOK, SameHandler, apple
      <3>4. WithdrawOK(req[q])'
        BY <2>1, <3>1 DEF WithdrawOK, SameHandler, TypeOK
      <3>5. NoticeOK(req[q])'
        BY <2>1, <3>1 DEF NoticeOK, SameHandler
      <3>6. Promises(req[q])'
        BY <1>1, <2>1, <3>1 DEF Promises, SameHandler, TypeOK, Request, apple
      <3>7. QED
        BY <3>2, <3>3, <3>4, <3>5, <3>6
    <2>8. QED
      BY <2>5, <2>6, <2>7, ByHandlerNext
  <1>4. QED
    BY <1>2, <1>3

LEMMA StartSessionStep ==
  ASSUME IInv, NEW r \in Requests, StartSession(r)
  PROVE  IInv'
  <1> USE Handler DEF HandlerOK
  <1> DEFINE i == req[r].identity
             u == req[r].user
  <1>1. /\ req[r].kind = "login" /\ req[r].step = "session" /\ req[r].answer = "none"
        /\ i \in Identities /\ u \in Users /\ made[u] = i
        /\ user[u] = "live" \/ req[r].overlap
    BY DEF StartSession, StepsOK, LoginOK, Request, Notices
  <1>2. CASE user[u] # "live"
    <2> DEFINE h == Ended(req[r], "500")
    <2>1. h \in Request /\ req' = [req EXCEPT ![r] = h]
      BY <1>2, AnswerMoves DEF StartSession, Codes
    <2>2. HandlerOK(h)
      BY <1>1, <1>2 DEF Ended, Request, StepsOK, LoginOK, WithdrawOK, NoticeOK, Promises, Notices
    <2>3. UNCHANGED <<tables, apple, made>>
      BY <1>2 DEF StartSession, tables
    <2>4. QED
      BY <2>1, <2>2, <2>3, HandlerStep
  <1>3. CASE user[u] = "live"
    <2> DEFINE rs == [req EXCEPT ![r] = Idle]
    <2>1. /\ signedIn' = signedIn \cup {u} /\ social[i] = u
          /\ UNCHANGED <<user, social, credential, apple, made>>
      BY <1>1, <1>3 DEF StartSession, RowsAgree, OneAccountEach
    <2>2. /\ rs \in [Requests -> Request] /\ req' = Relogged(rs, i)
          /\ rs[r] = Idle
          /\ \A q \in Requests : q # r => rs[q] = req[q]
      BY <1>3, IdleOK DEF StartSession, TypeOK
    <2> HIDE DEF rs
    <2>3. req' \in [Requests -> Request] /\ SameHandler(req'[r], Idle)
      BY <2>2, ReloggedOK
    <2>4. \A q \in Requests : q # r =>
             /\ SameHandler(req'[q], req[q])
             /\ req'[q].overlap = req[q].overlap
             /\ req[q].relogin => req'[q].relogin
             /\ req[q].identity = i /\ req[q].kind \in {"withdraw", "consent-revoked"} =>
                    req'[q].relogin
      BY <2>2, ReloggedOK
    <2>5. RowsAgree' /\ HistoryOK'
      BY <1>1, <1>3, <2>1, <2>3
         DEF RowsAgree, TypeOK, OneAccountEach, CredentialBelongs, HistoryOK, apple
    <2>6. HandlerOK(req[r])'
      BY <2>3 DEF SameHandler, Idle, StepsOK, LoginOK, WithdrawOK, NoticeOK, Promises, Notices
    <2>7. ASSUME NEW q \in Requests, q # r PROVE HandlerOK(req[q])'
      <3>1. /\ SameHandler(req'[q], req[q]) /\ HandlerOK(req[q]) /\ req[q] \in Request
            /\ req'[q].overlap = req[q].overlap
            /\ req[q].relogin => req'[q].relogin
            /\ req[q].identity = i /\ req[q].kind \in {"withdraw", "consent-revoked"} =>
                   req'[q].relogin
        BY <2>4, <2>7
      <3>2. StepsOK(req[q])'
        BY <3>1 DEF StepsOK, SameHandler
      <3>3. LoginOK(req[q])'
        BY <2>1, <3>1 DEF LoginOK, SameHandler, apple
      <3>4. WithdrawOK(req[q])'
        BY <2>1, <3>1 DEF WithdrawOK, SameHandler, TypeOK
      <3>5. \A j \in Identities : social[j] = u => j = i
        BY <1>1, <2>1 DEF HistoryOK
      <3>6. NoticeOK(req[q])'
        BY <1>1, <2>1, <3>1, <3>5 DEF NoticeOK, SameHandler, TypeOK, Request, Notices
      <3>7. Promises(req[q])'
        BY <1>1, <2>1, <3>1, <3>5 DEF Promises, NoticeOK, SameHandler, TypeOK, Request, Notices, apple
      <3>8. QED
        BY <3>2, <3>3, <3>4, <3>6, <3>7
    <2>8. QED
      BY <2>5, <2>6, <2>7, ByHandlerNext
  <1>4. QED
    BY <1>2, <1>3

LEMMA DeleteAccountStep ==
  ASSUME IInv, NEW r \in Requests, DeleteAccount(r)
  PROVE  IInv'
  <1> USE Handler DEF HandlerOK
  <1> DEFINE u == req[r].user
             code == IF req[r].kind = "withdraw" THEN "204" ELSE "200"
             rs == [req EXCEPT ![r] = Ended(req[r], code)]
  <1>1. /\ req[r].kind \in {"withdraw", "account-delete"} /\ req[r].step = "delete"
        /\ req[r].answer = "none" /\ u \in Users /\ made[u] # None
        /\ req[r].kind = "account-delete" => req[r].identity \in Apple
    BY DEF DeleteAccount, StepsOK, WithdrawOK, NoticeOK, Request, Notices
  <1>2. /\ user' \in [Users -> {"new", "live", "deleted"}] /\ user'[u] = "deleted"
        /\ \A v \in Users : v # u => user'[v] = user[v]
        /\ social' \in [Identities -> Users \cup {None}]
        /\ credential' \in [Identities -> Grants \cup {None}]
        /\ \A j \in Identities : IF social[j] = u THEN social'[j] = None /\ credential'[j] = None
                                 ELSE social'[j] = social[j] /\ credential'[j] = credential[j]
        /\ signedIn' = signedIn \ {u}
    <2>1. user[u] \in {"live", "deleted"}
      BY <1>1 DEF HistoryOK, TypeOK
    <2>2. QED
      BY <1>1, <2>1 DEF DeleteAccount, Deleted, TypeOK
  <1>3. UNCHANGED <<apple, made>>
    BY DEF DeleteAccount
  <1>4. /\ rs \in [Requests -> Request] /\ req' = Overlapped(rs, r)
        /\ rs[r] = Ended(req[r], code)
        /\ \A q \in Requests : q # r => rs[q] = req[q]
    BY AnswerMoves DEF DeleteAccount, TypeOK, Codes
  <1> HIDE DEF rs
  <1>5. /\ req' \in [Requests -> Request] /\ req'[r] = Ended(req[r], code)
    BY <1>4, OverlappedOK
  <1>6. \A q \in Requests : q # r =>
           /\ SameHandler(req'[q], req[q])
           /\ req'[q].relogin = req[q].relogin
           /\ req[q].overlap => req'[q].overlap
           /\ req[q].kind \in {"login", "withdraw"} => req'[q].overlap
    BY <1>4, OverlappedOK
  <1>7. RowsAgree'
    <2>1. TypeOK' /\ CredentialBelongs'
      BY <1>2, <1>3, <1>5 DEF RowsAgree, TypeOK, CredentialBelongs, apple
    <2>2. OneAccountEach'
      BY <1>2, <1>3 DEF RowsAgree, TypeOK, OneAccountEach
    <2>3. QED
      BY <2>1, <2>2 DEF RowsAgree
  <1>8. HistoryOK'
    BY <1>1, <1>2, <1>3 DEF TypeOK, HistoryOK
  <1>9. HandlerOK(req[r])'
    <2>1. /\ req'[r].kind = req[r].kind /\ req'[r].step = "done" /\ req'[r].answer = code
          /\ req'[r].user = u /\ req'[r].identity = req[r].identity
      BY <1>5 DEF Ended, Request
    <2>2. StepsOK(req[r])' /\ LoginOK(req[r])' /\ WithdrawOK(req[r])' /\ NoticeOK(req[r])'
      BY <1>1, <1>3, <2>1 DEF StepsOK, LoginOK, WithdrawOK, NoticeOK, Notices
    <2>3. Promises(req[r])'
      BY <1>1, <1>2, <2>1 DEF Promises, Notices
    <2>4. QED
      BY <2>2, <2>3
  <1>10. ASSUME NEW q \in Requests, q # r PROVE HandlerOK(req[q])'
    <2>1. /\ SameHandler(req'[q], req[q]) /\ HandlerOK(req[q]) /\ req[q] \in Request
          /\ req'[q].relogin = req[q].relogin
          /\ req[q].overlap => req'[q].overlap
          /\ req[q].kind \in {"login", "withdraw"} => req'[q].overlap
      BY <1>6, <1>10
    <2>2. StepsOK(req[q])'
      BY <2>1 DEF StepsOK, SameHandler
    <2>3. LoginOK(req[q])'
      BY <1>3, <2>1 DEF LoginOK, SameHandler, apple
    <2>4. WithdrawOK(req[q])'
      BY <1>1, <1>2, <1>3, <2>1 DEF WithdrawOK, SameHandler, TypeOK, Request
    <2>5. NoticeOK(req[q])'
      BY <1>1, <1>2, <1>3, <2>1 DEF NoticeOK, SameHandler, TypeOK, Request, Notices
    <2>6. Promises(req[q])'
      BY <1>1, <1>2, <1>3, <2>1
         DEF Promises, NoticeOK, WithdrawOK, SameHandler, TypeOK, Request, Notices, apple
    <2>7. QED
      BY <2>2, <2>3, <2>4, <2>5, <2>6
  <1>11. QED
    BY <1>7, <1>8, <1>9, <1>10, ByHandlerNext

LEMMA RevokeAllStep ==
  ASSUME IInv, NEW r \in Requests, RevokeAllForUser(r)
  PROVE  IInv'
  <1> USE Handler DEF HandlerOK
  <1> DEFINE h == Going(req[r], "credential")
             u == req[r].user
  <1>1. /\ req[r].kind = "consent-revoked" /\ req[r].step = "sessions" /\ req[r].answer = "none"
        /\ u \in Users /\ made[u] # None /\ req[r].identity \in Apple
        /\ ~req[r].relogin => social[req[r].identity] \in (Users \ signedIn) \cup {u, None}
    BY DEF RevokeAllForUser, StepsOK, NoticeOK, Request, Notices
  <1>2. signedIn' = signedIn \ {u} /\ UNCHANGED <<user, social, credential, apple, made>>
    BY DEF RevokeAllForUser
  <1>3. h \in Request /\ req' = [req EXCEPT ![r] = h]
    BY GoOnMoves DEF RevokeAllForUser, Steps
  <1>4. /\ req' \in [Requests -> Request] /\ \A q \in Requests : q # r => req'[q] = req[q]
        /\ req'[r].kind = "consent-revoked" /\ req'[r].step = "credential"
        /\ req'[r].answer = "none" /\ req'[r].identity = req[r].identity
        /\ req'[r].relogin = req[r].relogin
    BY <1>1, <1>3 DEF Going, TypeOK, Request
  <1>5. RowsAgree' /\ HistoryOK'
    BY <1>2, <1>4 DEF RowsAgree, TypeOK, OneAccountEach, CredentialBelongs, HistoryOK, apple
  <1>6. HandlerOK(req[r])'
    <2>1. StepsOK(req[r])' /\ LoginOK(req[r])' /\ WithdrawOK(req[r])' /\ Promises(req[r])'
      BY <1>1, <1>4 DEF StepsOK, LoginOK, WithdrawOK, Promises, Notices
    <2>2. ~req[r].relogin => social'[req[r].identity] \notin signedIn'
      BY <1>1, <1>2 DEF TypeOK
    <2>3. NoticeOK(req[r])'
      BY <1>1, <1>4, <2>2 DEF NoticeOK
    <2>4. QED
      BY <2>1, <2>3
  <1>7. ASSUME NEW q \in Requests, q # r PROVE HandlerOK(req[q])'
    <2>1. req'[q] = req[q] /\ HandlerOK(req[q]) /\ req[q] \in Request
      BY <1>4, <1>7
    <2>2. StepsOK(req[q])' /\ LoginOK(req[q])' /\ WithdrawOK(req[q])'
      BY <1>2, <2>1 DEF StepsOK, LoginOK, WithdrawOK, apple
    <2>3. NoticeOK(req[q])' /\ Promises(req[q])'
      BY <1>2, <2>1 DEF NoticeOK, Promises, apple
    <2>4. QED
      BY <2>2, <2>3
  <1>8. QED
    BY <1>5, <1>6, <1>7, ByHandlerNext

LEMMA DropCredentialStep ==
  ASSUME IInv, NEW r \in Requests, DropCredential(r)
  PROVE  IInv'
  <1> USE Handler DEF HandlerOK
  <1> DEFINE i == req[r].identity
             h == Ended(req[r], "200")
  <1>1. /\ req[r].kind = "consent-revoked" /\ req[r].step = "credential" /\ req[r].answer = "none"
        /\ i \in Identities /\ i \in Apple
        /\ ~req[r].relogin => social[i] \notin signedIn
    BY DEF DropCredential, StepsOK, NoticeOK, Request, Notices
  <1>2. /\ credential' = [credential EXCEPT ![i] = None]
        /\ UNCHANGED <<user, social, signedIn, apple, made>>
    BY DEF DropCredential
  <1>3. h \in Request /\ req' = [req EXCEPT ![r] = h]
    BY AnswerMoves DEF DropCredential, Codes
  <1>4. /\ req' \in [Requests -> Request] /\ \A q \in Requests : q # r => req'[q] = req[q]
        /\ req'[r].kind = "consent-revoked" /\ req'[r].step = "done"
        /\ req'[r].answer = "200" /\ req'[r].identity = i
        /\ req'[r].relogin = req[r].relogin
    BY <1>1, <1>3 DEF Ended, TypeOK, Request
  <1>5. RowsAgree' /\ HistoryOK'
    BY <1>1, <1>2, <1>4 DEF RowsAgree, TypeOK, OneAccountEach, CredentialBelongs, HistoryOK, apple
  <1>6. HandlerOK(req[r])'
    BY <1>1, <1>2, <1>4 DEF StepsOK, LoginOK, WithdrawOK, NoticeOK, Promises, Notices, TypeOK
  <1>7. ASSUME NEW q \in Requests, q # r PROVE HandlerOK(req[q])'
    <2>1. req'[q] = req[q] /\ HandlerOK(req[q]) /\ req[q] \in Request
      BY <1>4, <1>7
    <2>2. StepsOK(req[q])' /\ LoginOK(req[q])' /\ NoticeOK(req[q])'
      BY <1>2, <2>1 DEF StepsOK, LoginOK, NoticeOK, apple
    <2>3. WithdrawOK(req[q])'
      BY <1>2, <2>1 DEF WithdrawOK, TypeOK, Request
    <2>4. Promises(req[q])'
      BY <1>1, <1>2, <2>1 DEF Promises, WithdrawOK, StepsOK, TypeOK, Request, Notices, apple
    <2>5. QED
      BY <2>2, <2>3, <2>4
  <1>8. QED
    BY <1>5, <1>6, <1>7, ByHandlerNext

(* Every step of every handler, of Apple and of the server keeps the       *)
(* invariant.                                                              *)
LEMMA NextIInv == IInv /\ [Next]_vars => IInv'
  <1> SUFFICES ASSUME IInv, [Next]_vars PROVE IInv'
    OBVIOUS
  <1>1. CASE UNCHANGED vars
    <2>1. UNCHANGED <<tables, apple, made>> /\ req' = req
      BY <1>1 DEF vars
    <2>2. GrantsWeaken /\ notices' \subseteq Notices \X Apple /\ configured' \in BOOLEAN
          /\ req \in [Requests -> Request]
      BY <2>1, ByHandler DEF GrantsWeaken, RowsAgree, TypeOK, apple
    <2>3. QED
      BY <2>1, <2>2, WeakerGrants, ByHandlerNext
  <1>2. CASE Restarted \/ \E i \in Apple, type \in Notices : AppleUserLeaves(i, type)
    BY <1>2, RestartedStep, AppleUserLeavesStep
  <1>3. ASSUME NEW r \in Requests,
               \/ \E i \in Identities : KakaoLogin(r, i) \/ AppleLogin(r, i)
               \/ \E u \in Users : Withdraw(r, u)
               \/ \E i \in Apple, type \in Notices : Notified(r, type, i)
        PROVE  IInv'
    BY <1>3, LoginArrivesStep, WithdrawStep, NotifiedStep
  <1>4. ASSUME NEW r \in Requests, LoginStep(r) PROVE IInv'
    BY <1>4, AppleExchangeStep, FindAccountStep, CreateAccountStep, CreateConflictStep,
       FindAgainStep, SaveCredentialStep, StartSessionStep DEF LoginStep
  <1>5. ASSUME NEW r \in Requests, Unlink(r) \/ Revoke(r) \/ RevokeFails(r) \/ DeleteAccount(r)
        PROVE  IInv'
    BY <1>5, UnlinkStep, RevokeStep, DeleteAccountStep
  <1>6. ASSUME NEW r \in Requests,
               \/ NoticeFind(r) \/ RevokeAllForUser(r) \/ DropCredential(r)
               \/ Answered(r) \/ Abandoned(r)
        PROVE  IInv'
    BY <1>6, NoticeFindStep, RevokeAllStep, DropCredentialStep, EndsStep
  <1>7. QED
    BY <1>1, <1>2, <1>3, <1>4, <1>5, <1>6 DEF Next, Handles

(* The inductive invariant holds in every reachable state.                 *)
THEOREM AccountsInvariance == Spec => []IInv
  <1>1. QED
    BY InitIInv, NextIInv, PTL DEF Spec

(* However many first logins, deletions and re-registrations overlap, an   *)
(* account has one identity, an identity one account, and the credential   *)
(* of a row is the one Apple issued to its user.                           *)
THEOREM RowsAlwaysAgree == Spec => []RowsAgree
  <1>1. IInv => RowsAgree
    BY DEF IInv
  <1>2. QED
    BY <1>1, AccountsInvariance, PTL

(* The loser of a race of first logins gets the account of the winner: a   *)
(* login fails inside the server only when an account was deleted during   *)
(* it.                                                                     *)
THEOREM SignUpRaceIsAbsorbed == Spec => []RaceIsAbsorbed
  <1>1. IInv => RaceIsAbsorbed
    BY DEF IInv
  <1>2. QED
    BY <1>1, AccountsInvariance, PTL

(* A withdrawal deletes an account only once its stored token of Apple is  *)
(* void, or was saved by a login after the withdrawal had looked.          *)
THEOREM UnlinkComesFirst == Spec => []UnlinkedBeforeDeleted
  <1>1. IInv => UnlinkedBeforeDeleted
    BY DEF IInv
  <1>2. QED
    BY <1>1, AccountsInvariance, PTL

(* The app may trust the answer to a withdrawal: 204 and 401 mean that the *)
(* account is gone, an error that it is there unless another request       *)
(* removed it.                                                             *)
THEOREM WithdrawalTellsTheTruth == Spec => []AnswerIsTrue
  <1>1. IInv => AnswerIsTrue
    BY DEF IInv
  <1>2. QED
    BY <1>1, AccountsInvariance, PTL

(* An answered consent-revoked leaves no session and no credential but     *)
(* those of a login that came later.                                       *)
THEOREM ConsentRevocationApplies == Spec => []ConsentRevokedIsApplied
  <1>1. IInv => ConsentRevokedIsApplied
    BY DEF IInv
  <1>2. QED
    BY <1>1, AccountsInvariance, PTL

=============================================================================
