------------------------- MODULE AuthSessionsProofs -------------------------
(***************************************************************************)
(* Proofs about AuthSessions, for any sets of users, families, rows and    *)
(* concurrent requests.                                                    *)
(***************************************************************************)
EXTENDS AuthSessions, TLAPS

USE NoneAssumption

(* The empty table satisfies the inductive invariant.                      *)
LEMMA InitIInv == Init => IInv
  <1> SUFFICES ASSUME Init PROVE IInv
    OBVIOUS
  <1> USE DEF Init
  <1>1. TypeOK
    BY DEF TypeOK, RowStatus, Request, RequestStep, Idle
  <1>2. OneUsableRow /\ NoOrphanSession /\ OneOwner /\ ClosedUnlessOvertaken
    BY DEF OneUsableRow, NoOrphanSession, OneOwner, ClosedUnlessOvertaken
  <1>3. RequestKeys /\ RotationsHoldTheirRows /\ SnapshotCovers
    BY DEF RequestKeys, KeysOK, RotationsHoldTheirRows, TransactionOK, Disjoint,
           SnapshotCovers, SnapshotOK, Idle
  <1>4. NoStrayReplacement
    BY DEF NoStrayReplacement
  <1>5. RowLocks /\ FamilyRevocationsAreNarrow /\ CascadesAreAlone
    BY DEF RowLocks, LockOK, FamilyRevocationsAreNarrow, NarrowOK,
           CascadesAreAlone, CascadeOK, Apart, Idle
  <1>6. QED
    BY <1>1, <1>2, <1>3, <1>4, <1>5 DEF IInv

(* A step that only moves one request keeps the locks apart when the rows  *)
(* the request has are no other's.                                         *)
LEMMA LocksKept ==
  ASSUME IInv, NEW r \in Requests, NEW h, req' = [req EXCEPT ![r] = h],
         LockOK(h), NarrowOK(h), \A q \in Requests \ {r} : h.locked \cap req[q].locked = {}
  PROVE  RowLocks' /\ FamilyRevocationsAreNarrow'
  <1>1. req'[r] = h /\ \A q \in Requests : q # r => req'[q] = req[q]
    BY DEF IInv, TypeOK
  <1>2. RowLocks /\ FamilyRevocationsAreNarrow
    BY DEF IInv
  <1>3. \A q \in Requests : LockOK(req'[q]) /\ NarrowOK(req'[q])
    BY <1>1, <1>2 DEF RowLocks, FamilyRevocationsAreNarrow
  <1>4. \A p, q \in Requests : p # q => req'[p].locked \cap req'[q].locked = {}
    BY <1>1, <1>2 DEF RowLocks
  <1>5. QED
    BY <1>3, <1>4 DEF RowLocks, FamilyRevocationsAreNarrow, LockOK, NarrowOK

(* Cascades in flight stay alone when the users they delete are left alone *)
(* and the rows of these users are the same.                               *)
LEMMA CascadesKept ==
  ASSUME IInv, NEW r \in Requests, NEW h, req' = [req EXCEPT ![r] = h],
         \A q \in Requests \ {r} : req[q].step = "cascade" =>
             /\ user'[req[q].user] = "live"
             /\ \A t \in Tokens : owner'[t] = req[q].user <=> owner[t] = req[q].user,
         Given \subseteq Given',
         CascadeOK(h)', \A q \in Requests \ {r} : Apart(h, req[q]) /\ Apart(req[q], h)
  PROVE  CascadesAreAlone'
  <1>1. req'[r] = h /\ \A q \in Requests : q # r => req'[q] = req[q]
    BY DEF IInv, TypeOK
  <1>2. CascadesAreAlone
    BY DEF IInv
  <1>3. ASSUME NEW q \in Requests PROVE CascadeOK(req[q])'
    <2>1. CASE q = r
      BY <1>1, <2>1 DEF CascadeOK
    <2>2. CASE q # r
      <3>1. CascadeOK(req[q]) /\ req'[q] = req[q]
        BY <1>1, <1>2, <2>2 DEF CascadesAreAlone
      <3>2. QED
        BY <2>2, <3>1 DEF CascadeOK
    <2>3. QED
      BY <2>1, <2>2
  <1>4. \A p, q \in Requests : p # q => Apart(req'[p], req'[q])
    BY <1>1, <1>2 DEF CascadesAreAlone
  <1>5. QED
    BY <1>3, <1>4 DEF CascadesAreAlone, Apart

(* What is true of a request at rest.                                      *)
LEMMA IdleOK ==
  /\ Idle \in Request /\ LockOK(Idle) /\ NarrowOK(Idle)
  /\ \A q \in Requests : Idle.locked \cap req[q].locked = {}
  /\ CascadeOK(Idle) /\ CascadeOK(Idle)'
  /\ \A q \in Requests : Apart(Idle, req[q]) /\ Apart(req[q], Idle)
  <1>1. Idle.step = "idle" /\ Idle.locked = {}
    BY DEF Idle
  <1>2. Idle \in Request
    BY DEF Idle, Request, RequestStep
  <1>3. QED
    BY <1>1, <1>2 DEF LockOK, NarrowOK, CascadeOK, Apart

(* A step that only moves one request to a state h outside a transaction   *)
(* keeps the invariant when what h knows about the rows is true.           *)
LEMMA HandlerStep ==
  ASSUME IInv, NEW r \in Requests, NEW h \in Request,
         req' = [req EXCEPT ![r] = h],
         UNCHANGED <<tokenVars, expired, historyVars>>,
         user' \in [Users -> {"new", "live", "deleted"}],
         \A u \in Users : user[u] = "live" => user'[u] = "live",
         ~InTransaction(r), h.step \notin {"update", "commit", "cascade"}, h.locked = {},
         KeysOK(h), SnapshotOK(h), NarrowOK(h)
  PROVE  IInv'
  <1> USE DEF IInv, tokenVars, historyVars
  <1>1. TypeOK'
    BY DEF TypeOK
  <1>2. OneUsableRow' /\ NoOrphanSession' /\ OneOwner' /\ ClosedUnlessOvertaken'
    BY DEF TypeOK, OneUsableRow, NoOrphanSession, OneOwner, ClosedUnlessOvertaken, Dead, Active, Given
  <1>3. RequestKeys'
    BY DEF TypeOK, RequestKeys, KeysOK, Given
  <1>4. RotationsHoldTheirRows'
    BY DEF TypeOK, RotationsHoldTheirRows, TransactionOK, Disjoint
  <1>5. SnapshotCovers'
    BY DEF TypeOK, SnapshotCovers, SnapshotOK, Given, Active
  <1>6. NoStrayReplacement'
    BY DEF TypeOK, NoStrayReplacement, InTransaction
  <1>7. RowLocks' /\ FamilyRevocationsAreNarrow'
    BY LocksKept DEF LockOK
  <1>8. CascadesAreAlone'
    <2>1. Given' = Given /\ owner' = owner
      BY DEF Given
    <2>2. \A q \in Requests : CascadeOK(req[q])
      BY DEF CascadesAreAlone
    <2>3. \A q \in Requests : req[q].step = "cascade" => user'[req[q].user] = "live"
      BY <2>2 DEF CascadeOK
    <2>4. CascadeOK(h)' /\ \A q \in Requests : Apart(h, req[q]) /\ Apart(req[q], h)
      BY DEF CascadeOK, Apart
    <2>5. QED
      BY <2>1, <2>3, <2>4, CascadesKept
  <1>9. QED
    BY <1>1, <1>2, <1>3, <1>4, <1>5, <1>6, <1>7, <1>8

LEMMA LoginAccountStep ==
  ASSUME IInv, NEW r \in Requests, NEW u \in Users, LoginAccount(r, u)
  PROVE  IInv'
  <1> DEFINE h == [Idle EXCEPT !.step = "issue", !.user = u]
  <1>1. h \in Request /\ h.step = "issue" /\ h.user = u /\ h.locked = {}
    BY DEF Request, RequestStep, Idle
  <1>2. KeysOK(h) /\ SnapshotOK(h) /\ NarrowOK(h)
    BY <1>1 DEF KeysOK, SnapshotOK, NarrowOK
  <1>3. user' \in [Users -> {"new", "live", "deleted"}]
        /\ \A v \in Users : user[v] = "live" => user'[v] = "live"
    BY DEF LoginAccount, IInv, TypeOK
  <1>4. QED
    BY <1>1, <1>2, <1>3, HandlerStep DEF InTransaction, LoginAccount

LEMMA LoginIssueStep ==
  ASSUME IInv, NEW r \in Requests, NEW f \in Families, NEW t \in Tokens, LoginIssue(r, f, t)
  PROVE  IInv'
  <1> USE DEF IInv, LoginIssue, tokenVars, historyVars
  <1>1. TypeOK'
    BY DEF TypeOK, RowStatus, Request, RequestStep, Idle, RequestKeys, KeysOK
  <1>2. OneUsableRow'
    BY DEF TypeOK, OneUsableRow, FreshFamily
  <1>3. NoOrphanSession' /\ OneOwner'
    BY DEF TypeOK, NoOrphanSession, OneOwner, FreshFamily
  <1>4. ClosedUnlessOvertaken'
    BY DEF TypeOK, ClosedUnlessOvertaken, Dead, Active, Given, FreshFamily
  <1>5. RequestKeys'
    BY DEF TypeOK, RequestKeys, KeysOK, Given, Idle
  <1>6. RotationsHoldTheirRows'
    BY DEF TypeOK, RotationsHoldTheirRows, TransactionOK, Disjoint, Idle
  <1>7. SnapshotCovers'
    BY DEF TypeOK, SnapshotCovers, SnapshotOK, RequestKeys, KeysOK, Given, Active, FreshFamily, Idle
  <1>8. NoStrayReplacement'
    BY DEF TypeOK, NoStrayReplacement, InTransaction, Idle
  <1>9. RowLocks' /\ FamilyRevocationsAreNarrow'
    BY IdleOK, LocksKept
  <1>10. CascadesAreAlone'
    <2>1. Given \subseteq Given'
      BY DEF Given, TypeOK
    <2>2. ASSUME NEW q \in Requests \ {r}, req[q].step = "cascade"
          PROVE  /\ user'[req[q].user] = "live"
                 /\ \A x \in Tokens : owner'[x] = req[q].user <=> owner[x] = req[q].user
      <3>1. req[q].user \in Users /\ user[req[q].user] = "live" /\ req[q].user # req[r].user
        BY <2>2 DEF CascadesAreAlone, CascadeOK, Deleting
      <3>2. owner[t] = None
        BY DEF TypeOK
      <3>3. QED
        BY <3>1, <3>2 DEF TypeOK
    <2>3. QED
      BY <2>1, <2>2, IdleOK, CascadesKept
  <1>11. QED
    BY <1>1, <1>2, <1>3, <1>4, <1>5, <1>6, <1>7, <1>8, <1>9, <1>10

LEMMA LoginRefusedStep ==
  ASSUME IInv, NEW r \in Requests, LoginRefused(r)
  PROVE  IInv'
  <1>1. Idle \in Request /\ Idle.step = "idle" /\ Idle.locked = {}
    BY DEF Request, RequestStep, Idle
  <1>2. KeysOK(Idle) /\ SnapshotOK(Idle) /\ NarrowOK(Idle)
    BY <1>1 DEF KeysOK, SnapshotOK, NarrowOK
  <1>3. QED
    BY <1>1, <1>2, HandlerStep DEF InTransaction, LoginRefused, IInv, TypeOK

LEMMA RefreshArrivesStep ==
  ASSUME IInv, NEW r \in Requests, NEW t \in Tokens, RefreshArrives(r, t)
  PROVE  IInv'
  <1> DEFINE h == [Idle EXCEPT !.step = "find", !.token = t]
  <1>1. h \in Request /\ h.step = "find" /\ h.token = t /\ h.locked = {}
    BY DEF Request, RequestStep, Idle
  <1>2. KeysOK(h) /\ SnapshotOK(h) /\ NarrowOK(h)
    BY <1>1 DEF KeysOK, SnapshotOK, NarrowOK, RefreshArrives
  <1>3. QED
    BY <1>1, <1>2, HandlerStep DEF InTransaction, RefreshArrives, IInv, TypeOK

LEMMA RefreshFindStep ==
  ASSUME IInv, NEW r \in Requests, RefreshFind(r)
  PROVE  IInv'
  <1> DEFINE t == req[r].token
             found(s) == [Idle EXCEPT !.user = owner[t], !.family = family[t],
                                      !.token = t, !.step = s]
  <1>1. t \in Given /\ t \in Tokens /\ owner[t] \in Users \cup {None}
        /\ family[t] \in Families \cup {None}
    BY DEF RefreshFind, IInv, RequestKeys, KeysOK, TypeOK, Given
  <1>2. UNCHANGED <<user, tokenVars, expired, historyVars>>
        /\ user \in [Users -> {"new", "live", "deleted"}]
        /\ ~InTransaction(r)
    BY DEF RefreshFind, IInv, TypeOK, InTransaction
  <1>3. CASE req' = [req EXCEPT ![r] = Idle]
    <2>1. Idle \in Request /\ Idle.step = "idle" /\ Idle.locked = {}
      BY DEF Request, RequestStep, Idle
    <2>2. KeysOK(Idle) /\ SnapshotOK(Idle) /\ NarrowOK(Idle)
      BY <2>1 DEF KeysOK, SnapshotOK, NarrowOK
    <2>3. QED
      BY <1>2, <1>3, <2>1, <2>2, HandlerStep
  <1>4. ASSUME NEW s \in {"revoke", "insert"}, req' = [req EXCEPT ![r] = found(s)]
        PROVE  IInv'
    <2>1. found(s) \in Request
      BY <1>1 DEF Request, RequestStep, Idle
    <2>2. found(s).step = s /\ found(s).token = t /\ found(s).user = owner[t]
          /\ found(s).family = family[t] /\ found(s).locked = {}
      BY DEF Idle
    <2>3. KeysOK(found(s)) /\ SnapshotOK(found(s)) /\ NarrowOK(found(s))
      BY <1>1, <2>2 DEF KeysOK, SnapshotOK, NarrowOK
    <2>4. QED
      BY <1>2, <1>4, <2>1, <2>2, <2>3, HandlerStep
  <1>5. \/ req' = [req EXCEPT ![r] = Idle]
        \/ \E s \in {"revoke", "insert"} : req' = [req EXCEPT ![r] = found(s)]
    BY DEF RefreshFind, Idle
  <1>6. QED
    BY <1>3, <1>4, <1>5

LEMMA RotateInsertStep ==
  ASSUME IInv, NEW r \in Requests, NEW n \in Tokens, RotateInsert(r, n)
  PROVE  IInv'
  <1> USE DEF IInv, RotateInsert, tokenVars, historyVars
  <1> DEFINE t == req[r].token
  <1>1. /\ t \in Given /\ t \in Tokens /\ t # n
        /\ req[r].family = family[t] /\ req[r].family \in Families
        /\ req[r].user = owner[t] /\ req[r].user \in Users
    BY DEF RequestKeys, KeysOK, TypeOK, Given
  <1>2. TypeOK'
    <2> DEFINE h == [req[r] EXCEPT !.step = "update", !.next = n]
    <2>1. req[r] \in Request
      BY DEF TypeOK
    <2>2. h \in Request
      BY <2>1 DEF Request, RequestStep
    <2>3. req' = [req EXCEPT ![r] = h]
      OBVIOUS
    <2>4. req' \in [Requests -> Request]
      BY <2>2, <2>3 DEF TypeOK
    <2>5. QED
      BY <1>1, <2>4 DEF TypeOK, RowStatus
  <1>3. OneUsableRow' /\ NoOrphanSession' /\ OneOwner'
    BY <1>1 DEF TypeOK, OneUsableRow, NoOrphanSession, OneOwner
  <1>4. ClosedUnlessOvertaken'
    BY DEF TypeOK, ClosedUnlessOvertaken, Dead, Active, Given
  <1>5. RequestKeys'
    BY <1>1 DEF TypeOK, RequestKeys, KeysOK, Given
  <1>6. RotationsHoldTheirRows'
    BY <1>1 DEF TypeOK, RotationsHoldTheirRows, TransactionOK, Disjoint
  <1>7. SnapshotCovers'
    <2>1. Given' = Given /\ n \notin Given
      BY DEF Given, TypeOK
    <2>2. \A f \in Families : Active(f)' = Active(f)
      BY DEF Active, TypeOK
    <2>3. ASSUME NEW q \in Requests PROVE SnapshotOK(req[q])'
      <3>1. CASE q = r
        BY <3>1 DEF TypeOK, Request, SnapshotOK
      <3>2. CASE q # r
        <4>1. req'[q] = req[q] /\ req[q] \in Request
          BY <3>2 DEF TypeOK
        <4>2. \A x \in Given : family'[x] = family[x] /\ status'[x] = status[x]
          BY <2>1 DEF TypeOK, Given
        <4>3. \A x \in Tokens : status'[x] = "active" => status[x] = "active" /\ x \in Given
          BY DEF TypeOK, Given
        <4>4. SnapshotOK(req[q])
          BY DEF SnapshotCovers
        <4> HIDE DEF IInv, RotateInsert
        <4>5. SUFFICES ASSUME req[q].step = "apply" PROVE SnapshotOK(req[q])'
          BY <4>1 DEF SnapshotOK
        <4>6. req[q].targets \subseteq Given'
          BY <2>1, <4>4, <4>5 DEF SnapshotOK
        <4>7. \A y \in req[q].targets, x \in Tokens :
                 status'[x] = "active" /\ family'[x] = family'[y] => x = y \/ status'[y] = "rotated"
          BY <4>2, <4>3, <4>4, <4>5 DEF SnapshotOK
        <4>8. ASSUME req[q].family # None
              PROVE  \A x \in Active(req[q].family)' : \E y \in req[q].targets :
                        family'[y] = req[q].family /\ (x = y \/ status'[y] = "rotated")
          <5>1. Active(req[q].family)' = Active(req[q].family)
            BY <2>2, <4>1, <4>8 DEF Request
          <5>2. QED
            BY <4>2, <4>4, <4>5, <4>8, <5>1 DEF SnapshotOK
        <4>9. QED
          BY <4>1, <4>6, <4>7, <4>8 DEF SnapshotOK
      <3>3. QED
        BY <3>1, <3>2
    <2>4. QED
      BY <2>3 DEF SnapshotCovers
  <1>8. NoStrayReplacement'
    BY DEF TypeOK, NoStrayReplacement, InTransaction
  <1> DEFINE h == [req[r] EXCEPT !.step = "update", !.next = n]
  <1>9. /\ req' = [req EXCEPT ![r] = h]
        /\ h.step = "update" /\ h.locked = {} /\ h.user = req[r].user
    <2>1. req[r] \in Request /\ req[r].locked = {}
      BY DEF TypeOK, RowLocks, LockOK
    <2>2. h.step = "update" /\ h.locked = req[r].locked /\ h.user = req[r].user
      BY <2>1 DEF Request
    <2>3. QED
      BY <2>1, <2>2
  <1>10. RowLocks' /\ FamilyRevocationsAreNarrow'
    <2> HIDE DEF h, IInv
    <2>1. LockOK(h) /\ NarrowOK(h)
      BY <1>9 DEF LockOK, NarrowOK
    <2>2. QED
      BY <1>9, <2>1, LocksKept
  <1>11. CascadesAreAlone'
    <2>1. Given \subseteq Given'
      BY DEF Given, TypeOK
    <2>2. ASSUME NEW q \in Requests \ {r}, req[q].step = "cascade"
          PROVE  /\ req[q].user # req[r].user /\ user'[req[q].user] = "live"
                 /\ \A x \in Tokens : owner'[x] = req[q].user <=> owner[x] = req[q].user
      <3>1. req[q].user \in Users /\ user[req[q].user] = "live" /\ req[q].user # req[r].user
        BY <2>2 DEF CascadesAreAlone, CascadeOK, Deleting
      <3>2. owner[n] = None
        BY DEF TypeOK
      <3>3. QED
        BY <3>1, <3>2 DEF TypeOK
    <2>3. PICK k : k = h
      OBVIOUS
    <2>4. /\ req' = [req EXCEPT ![r] = k]
          /\ k.step = "update" /\ k.user = req[r].user
      BY <1>9, <2>3
    <2> HIDE DEF h, IInv, RotateInsert
    <2>5. CascadeOK(k)' /\ \A q \in Requests \ {r} : Apart(k, req[q]) /\ Apart(req[q], k)
      BY <2>2, <2>4 DEF CascadeOK, Apart
    <2>6. QED
      BY <2>1, <2>2, <2>4, <2>5, CascadesKept
  <1>12. QED
    BY <1>2, <1>3, <1>4, <1>5, <1>6, <1>7, <1>8, <1>10, <1>11

LEMMA RotateRefusedStep ==
  ASSUME IInv, NEW r \in Requests, RotateRefused(r)
  PROVE  IInv'
  <1>1. Idle \in Request /\ Idle.step = "idle" /\ Idle.locked = {}
    BY DEF Request, RequestStep, Idle
  <1>2. KeysOK(Idle) /\ SnapshotOK(Idle) /\ NarrowOK(Idle)
    BY <1>1 DEF KeysOK, SnapshotOK, NarrowOK
  <1>3. QED
    BY <1>1, <1>2, HandlerStep DEF InTransaction, RotateRefused, IInv, TypeOK

LEMMA RotateUpdateStep ==
  ASSUME IInv, NEW r \in Requests, RotateUpdate(r)
  PROVE  IInv'
  <1> USE DEF IInv, RotateUpdate, tokenVars, historyVars
  <1>1. TypeOK'
    <2>1. req[r] \in Request /\ req[r].token \in Tokens
      BY DEF TypeOK, RequestKeys, KeysOK, Given
    <2>2. [req[r] EXCEPT !.step = "commit", !.locked = {req[r].token}] \in Request
      BY <2>1 DEF Request, RequestStep
    <2>3. req' \in [Requests -> Request]
      BY <2>2 DEF TypeOK
    <2>4. QED
      BY <2>3 DEF TypeOK
  <1>2. OneUsableRow' /\ NoOrphanSession' /\ OneOwner' /\ ClosedUnlessOvertaken'
    BY DEF OneUsableRow, NoOrphanSession, OneOwner, ClosedUnlessOvertaken, Dead, Active, Given
  <1>3. RequestKeys'
    BY DEF TypeOK, RequestKeys, KeysOK, Given
  <1>4. RotationsHoldTheirRows'
    <2>1. \A q \in Requests \ {r} : req[q].step = "commit" => req[q].token # req[r].token
      BY DEF Locked, RowLocks, LockOK
    <2>2. QED
      BY <2>1 DEF TypeOK, RotationsHoldTheirRows, TransactionOK, Disjoint
  <1>5. SnapshotCovers'
    BY DEF TypeOK, SnapshotCovers, SnapshotOK, Given, Active
  <1>6. NoStrayReplacement'
    BY DEF TypeOK, NoStrayReplacement, InTransaction
  <1> DEFINE h == [req[r] EXCEPT !.step = "commit", !.locked = {req[r].token}]
  <1>7. /\ req' = [req EXCEPT ![r] = h] /\ req[r] \in Request
        /\ h.step = "commit" /\ h.locked = {req[r].token} /\ h.token = req[r].token
        /\ h.user = req[r].user
    BY DEF TypeOK, Request
  <1>8. RowLocks' /\ FamilyRevocationsAreNarrow'
    <2>1. LockOK(h) /\ NarrowOK(h) /\ \A q \in Requests \ {r} : h.locked \cap req[q].locked = {}
      BY <1>7 DEF LockOK, NarrowOK, Locked
    <2> HIDE DEF h, IInv, RotateUpdate
    <2>2. QED
      BY <1>7, <2>1, LocksKept
  <1>9. CascadesAreAlone'
    <2>1. Given' = Given
      BY DEF Given
    <2>2. \A q \in Requests \ {r} : req[q].step = "cascade" =>
              req[q].user # req[r].user /\ user'[req[q].user] = "live"
      BY DEF CascadesAreAlone, CascadeOK, Apart
    <2>3. PICK k : k = h
      OBVIOUS
    <2>4. /\ req' = [req EXCEPT ![r] = k]
          /\ k.step = "commit" /\ k.user = req[r].user
      BY <1>7, <2>3
    <2>5. owner' = owner
      OBVIOUS
    <2> HIDE DEF h, IInv, RotateUpdate
    <2>6. CascadeOK(k)' /\ \A q \in Requests \ {r} : Apart(k, req[q]) /\ Apart(req[q], k)
      BY <2>2, <2>4 DEF CascadeOK, Apart
    <2>7. QED
      BY <2>1, <2>2, <2>4, <2>5, <2>6, CascadesKept
  <1>10. QED
    BY <1>1, <1>2, <1>3, <1>4, <1>5, <1>6, <1>8, <1>9

(* A rolled back rotation leaves nothing behind but the state h its        *)
(* request goes on with.                                                   *)
LEMMA RollbackStep ==
  ASSUME IInv, NEW r \in Requests, NEW h \in Request, InTransaction(r), Rollback(r),
         req' = [req EXCEPT ![r] = h], UNCHANGED <<user, expired, historyVars>>,
         h.step \in {"idle", "revoke"}, h.step = "revoke" => h.family = req[r].family,
         h.locked = {}
  PROVE  IInv'
  <1> USE DEF IInv, Rollback, historyVars
  <1> DEFINE n == req[r].next
             t == req[r].token
  <1>1. n \in Tokens /\ status[n] = "pending" /\ t \in Given /\ t \in Tokens
        /\ family[t] = req[r].family
    BY DEF InTransaction, RotationsHoldTheirRows, TransactionOK, RequestKeys, KeysOK, Given
  <1>2. Given' = Given /\ \A x \in Given : x # n
    BY <1>1 DEF Given, TypeOK
  <1>3. TypeOK'
    BY <1>1 DEF TypeOK, RowStatus
  <1>4. OneUsableRow' /\ NoOrphanSession' /\ OneOwner'
    BY <1>1 DEF TypeOK, OneUsableRow, NoOrphanSession, OneOwner
  <1>5. ClosedUnlessOvertaken'
    BY <1>1, <1>2 DEF TypeOK, ClosedUnlessOvertaken, Dead, Active, Given
  <1>6. RequestKeys'
    BY <1>1, <1>2 DEF TypeOK, RequestKeys, KeysOK, Given
  <1>7. RotationsHoldTheirRows'
    BY <1>1 DEF TypeOK, RotationsHoldTheirRows, TransactionOK, Disjoint, InTransaction
  <1>8. SnapshotCovers'
    BY <1>1, <1>2 DEF TypeOK, SnapshotCovers, SnapshotOK, Given, Active
  <1>9. NoStrayReplacement'
    BY <1>1 DEF TypeOK, NoStrayReplacement, InTransaction, RotationsHoldTheirRows, TransactionOK, Disjoint
  <1>10. RowLocks' /\ FamilyRevocationsAreNarrow'
    BY LocksKept DEF LockOK, NarrowOK
  <1>11. CascadesAreAlone'
    <2>1. \A q \in Requests \ {r} : req[q].step = "cascade" =>
              /\ req[q].user \in Users /\ req[q].user # req[r].user
              /\ user'[req[q].user] = "live"
      BY DEF CascadesAreAlone, CascadeOK, Apart, InTransaction
    <2>2. owner[n] = req[r].user
      BY DEF RotationsHoldTheirRows, TransactionOK, InTransaction
    <2>3. \A q \in Requests \ {r} : req[q].step = "cascade" =>
              \A x \in Tokens : owner'[x] = req[q].user <=> owner[x] = req[q].user
      BY <1>1, <2>1, <2>2 DEF TypeOK
    <2>4. CascadeOK(h)' /\ \A q \in Requests \ {r} : Apart(h, req[q]) /\ Apart(req[q], h)
      BY DEF CascadeOK, Apart
    <2>5. QED
      BY <1>2, <2>1, <2>3, <2>4, CascadesKept
  <1>12. QED
    BY <1>3, <1>4, <1>5, <1>6, <1>7, <1>8, <1>9, <1>10, <1>11

LEMMA RotateConflictStep ==
  ASSUME IInv, NEW r \in Requests, RotateConflict(r)
  PROVE  IInv'
  <1> DEFINE h == [req[r] EXCEPT !.step = "revoke", !.next = None]
  <1>1. h \in Request /\ h.step = "revoke" /\ h.family = req[r].family
        /\ h.locked = req[r].locked /\ req' = [req EXCEPT ![r] = h]
    BY ZenonT(40) DEF RotateConflict, IInv, TypeOK, Request, RequestStep
  <1>2. req[r].locked = {}
    BY DEF RotateConflict, IInv, RowLocks, LockOK
  <1>3. QED
    BY <1>1, <1>2, RollbackStep DEF RotateConflict, InTransaction

LEMMA RotateAbortStep ==
  ASSUME IInv, NEW r \in Requests, RotateAbort(r)
  PROVE  IInv'
  <1>1. Idle \in Request /\ Idle.step = "idle" /\ Idle.locked = {}
    BY DEF Request, RequestStep, Idle
  <1>2. QED
    BY <1>1, RollbackStep DEF RotateAbort

LEMMA RotateCommitStep ==
  ASSUME IInv, NEW r \in Requests, RotateCommit(r)
  PROVE  IInv'
  <1> USE DEF IInv, RotateCommit, tokenVars, historyVars
  <1> DEFINE t == req[r].token
             n == req[r].next
  <1>1. /\ t \in Tokens /\ n \in Tokens /\ t # n
        /\ status[t] = "active" /\ status[n] = "pending"
        /\ family[n] = family[t] /\ owner[n] = owner[t]
    BY DEF RotationsHoldTheirRows, TransactionOK, RequestKeys, KeysOK, TypeOK, Given
  <1>2. Given \subseteq Given'
    BY <1>1 DEF Given, TypeOK
  <1>3. TypeOK'
    BY <1>1 DEF TypeOK, RowStatus, Request, RequestStep, Idle
  <1>4. OneUsableRow'
    BY <1>1 DEF TypeOK, OneUsableRow
  <1>5. NoOrphanSession' /\ OneOwner'
    BY <1>1 DEF TypeOK, NoOrphanSession, OneOwner
  <1>6. ClosedUnlessOvertaken'
    BY <1>1, <1>2 DEF TypeOK, ClosedUnlessOvertaken, Dead, Active
  <1>7. RequestKeys'
    BY <1>2 DEF TypeOK, RequestKeys, KeysOK, Idle
  <1>8. RotationsHoldTheirRows'
    <2>1. \A q \in Requests : q # r => req'[q] = req[q]
      BY DEF TypeOK
    <2>2. req'[r].step = "idle"
      BY DEF TypeOK, Idle
    <2>3. ASSUME NEW q \in Requests, q # r, InTransaction(q)
          PROVE  /\ req[q].next \in Tokens /\ req[q].next \notin {t, n}
                 /\ req[q].step = "commit" => req[q].token \in Tokens /\ req[q].token \notin {t, n}
      BY <1>1, <2>3 DEF RotationsHoldTheirRows, TransactionOK, Disjoint, InTransaction,
                        RequestKeys, KeysOK, Given
    <2>4. \A q \in Requests : TransactionOK(req[q])'
      BY <1>1, <2>1, <2>2, <2>3 DEF TypeOK, RotationsHoldTheirRows, TransactionOK, InTransaction
    <2>5. \A p, q \in Requests : p # q => Disjoint(req[p], req[q])'
      BY <2>1, <2>2 DEF RotationsHoldTheirRows, Disjoint
    <2>6. QED
      BY <2>4, <2>5 DEF RotationsHoldTheirRows
  <1>9. SnapshotCovers'
    <2> SUFFICES ASSUME NEW q \in Requests, req'[q].step = "apply"
                 PROVE  SnapshotOK(req[q])'
      BY DEF SnapshotCovers, SnapshotOK
    <2>1. req'[q] = req[q] /\ req[q] \in Request /\ SnapshotOK(req[q])
      BY DEF TypeOK, SnapshotCovers, Idle
    <2>2. \A x \in Tokens : /\ status[x] = "rotated" => status'[x] = "rotated"
                            /\ status'[x] = "active" <=> x = n \/ (status[x] = "active" /\ x # t)
      BY <1>1 DEF TypeOK
    <2>3. status'[t] = "rotated"
      BY <1>1 DEF TypeOK
    <2>4. family' = family
      OBVIOUS
    <2> HIDE DEF IInv, RotateCommit
    <2>5. req[q].targets \subseteq Given' /\ req[q].targets \subseteq Tokens
      BY <1>2, <2>1 DEF SnapshotOK, Request
    <2>6. \A y \in req[q].targets, x \in Tokens :
             status'[x] = "active" /\ family'[x] = family'[y] => x = y \/ status'[y] = "rotated"
      BY <1>1, <2>1, <2>2, <2>3, <2>4, <2>5 DEF SnapshotOK
    <2>7. ASSUME req[q].family # None, NEW x \in Active(req[q].family)'
          PROVE  \E y \in req[q].targets :
                    family'[y] = req[q].family /\ (x = y \/ status'[y] = "rotated")
      <3>1. CASE x = n
        <4>1. t \in Active(req[q].family)
          BY <1>1, <2>1, <2>4, <2>7, <3>1 DEF Active
        <4>2. QED
          BY <2>1, <2>2, <2>3, <2>4, <2>5, <2>7, <4>1 DEF SnapshotOK
      <3>2. CASE x # n
        <4>1. x \in Active(req[q].family)
          BY <2>1, <2>2, <2>4, <2>7, <3>2 DEF Active
        <4>2. QED
          BY <2>1, <2>2, <2>3, <2>4, <2>5, <2>7, <4>1 DEF SnapshotOK
      <3>3. QED
        BY <3>1, <3>2
    <2>8. QED
      BY <2>1, <2>5, <2>6, <2>7 DEF SnapshotOK
  <1>10. NoStrayReplacement'
    BY <1>1 DEF TypeOK, NoStrayReplacement, InTransaction, RotationsHoldTheirRows, TransactionOK, Disjoint, Idle
  <1>11. RowLocks' /\ FamilyRevocationsAreNarrow'
    BY IdleOK, LocksKept
  <1>12. CascadesAreAlone'
    <2>1. \A q \in Requests \ {r} : req[q].step = "cascade" => user'[req[q].user] = "live"
      BY DEF CascadesAreAlone, CascadeOK
    <2>2. QED
      BY <1>2, <2>1, IdleOK, CascadesKept
  <1>13. QED
    BY <1>3, <1>4, <1>5, <1>6, <1>7, <1>8, <1>9, <1>10, <1>11, <1>12

LEMMA LogoutAdmittedStep ==
  ASSUME IInv, NEW r \in Requests, NEW f \in Families, LogoutAdmitted(r, f)
  PROVE  IInv'
  <1> DEFINE h(t) == [Idle EXCEPT !.step = "logout", !.user = owner[t]]
  <1>1. PICK t \in Active(f) : req' = [req EXCEPT ![r] = h(t)]
    BY DEF LogoutAdmitted
  <1>2. owner[t] \in Users
    BY DEF Active, IInv, TypeOK
  <1>3. h(t) \in Request /\ h(t).step = "logout" /\ h(t).user = owner[t] /\ h(t).locked = {}
    BY <1>2 DEF Request, RequestStep, Idle
  <1>4. KeysOK(h(t)) /\ SnapshotOK(h(t)) /\ NarrowOK(h(t))
    BY <1>2, <1>3 DEF KeysOK, SnapshotOK, NarrowOK
  <1>5. QED
    BY <1>1, <1>3, <1>4, HandlerStep DEF InTransaction, LogoutAdmitted, IInv, TypeOK

LEMMA LogoutFindStep ==
  ASSUME IInv, NEW r \in Requests, NEW t \in Tokens, LogoutFind(r, t)
  PROVE  IInv'
  <1> DEFINE h == [req[r] EXCEPT !.step = "revoke", !.family = family[t], !.token = t,
                               !.logout = TRUE]
  <1>1. CASE req' = [req EXCEPT ![r] = Idle]
    <2>1. Idle \in Request /\ Idle.step = "idle" /\ Idle.locked = {}
      BY DEF Request, RequestStep, Idle
    <2>2. KeysOK(Idle) /\ SnapshotOK(Idle) /\ NarrowOK(Idle)
      BY <2>1 DEF KeysOK, SnapshotOK, NarrowOK
    <2>3. QED
      BY <1>1, <2>1, <2>2, HandlerStep DEF InTransaction, LogoutFind, IInv, TypeOK
  <1>2. CASE req' = [req EXCEPT ![r] = h]
    <2>1. /\ t \in Given /\ family[t] \in Families \cup {None} /\ req[r] \in Request
          /\ req[r].locked = {}
      BY DEF LogoutFind, IInv, TypeOK, RowLocks, LockOK
    <2>2. h \in Request /\ h.step = "revoke" /\ h.family = family[t] /\ h.locked = {}
      BY <2>1 DEF Request, RequestStep
    <2>3. KeysOK(h) /\ SnapshotOK(h) /\ NarrowOK(h)
      BY <2>1, <2>2 DEF KeysOK, SnapshotOK, NarrowOK
    <2>4. QED
      BY <1>2, <2>2, <2>3, HandlerStep DEF InTransaction, LogoutFind, IInv, TypeOK
  <1>3. QED
    BY <1>1, <1>2 DEF LogoutFind

LEMMA ConsentRevokedStep ==
  ASSUME IInv, NEW r \in Requests, NEW u \in Users, ConsentRevoked(r, u)
  PROVE  IInv'
  <1> DEFINE h == [Idle EXCEPT !.step = "revoke", !.user = u]
  <1>1. h \in Request /\ h.step = "revoke" /\ h.family = None /\ h.locked = {}
    BY DEF Request, RequestStep, Idle
  <1>2. KeysOK(h) /\ SnapshotOK(h) /\ NarrowOK(h)
    BY <1>1 DEF KeysOK, SnapshotOK, NarrowOK
  <1>3. QED
    BY <1>1, <1>2, HandlerStep DEF InTransaction, ConsentRevoked, IInv, TypeOK

LEMMA RevokeScanStep ==
  ASSUME IInv, NEW r \in Requests, RevokeScan(r)
  PROVE  IInv'
  <1> DEFINE S == {t \in Tokens : status[t] = "active" /\ Matches(r, t)}
             h == [req[r] EXCEPT !.step = "apply", !.targets = S]
  <1>1. req[r] \in Request /\ req[r].step = "revoke" /\ KeysOK(req[r]) /\ req[r].locked = {}
    BY DEF RevokeScan, IInv, TypeOK, RequestKeys, RowLocks, LockOK
  <1>2. /\ h \in Request /\ h.step = "apply" /\ h.targets = S /\ h.family = req[r].family
        /\ h.locked = {}
    BY <1>1 DEF Request, RequestStep
  <1>3. KeysOK(h)
    BY <1>1, <1>2 DEF KeysOK
  <1>4. SnapshotOK(h)
    <2>1. S \subseteq Given
      BY DEF Given
    <2>2. \A t \in S, x \in Tokens : status[x] = "active" /\ family[x] = family[t] => x = t
      BY DEF IInv, OneUsableRow
    <2>3. h.family # None => \A x \in Active(h.family) : x \in S /\ family[x] = h.family
      BY <1>2 DEF Active, Matches
    <2>4. QED
      BY <1>2, <2>1, <2>2, <2>3 DEF SnapshotOK
  <1>5. req' = [req EXCEPT ![r] = h]
    BY DEF RevokeScan, IInv, TypeOK
  <1>6. NarrowOK(h)
    <2>1. h.family # None => \A x, y \in S : family[x] = family[y]
      BY <1>2 DEF Matches
    <2>2. QED
      BY <1>2, <2>1 DEF NarrowOK, IInv, OneUsableRow
  <1>7. QED
    BY <1>2, <1>3, <1>4, <1>5, <1>6, HandlerStep DEF InTransaction, RevokeScan, IInv, TypeOK

LEMMA DeleteUserStep ==
  ASSUME IInv, NEW r \in Requests, DeleteUser(r)
  PROVE  IInv'
  <1> USE DEF IInv, DeleteUser, tokenVars, historyVars
  <1> DEFINE u == req[r].user
  <1>0. /\ u \in Users /\ req[r].targets \subseteq Given
        /\ \A t \in Tokens : t \in req[r].targets <=> owner[t] = u
        /\ \A q \in Requests \ {r} : req[q].step \in {"update", "commit", "cascade"} => req[q].user # u
    BY DEF CascadesAreAlone, CascadeOK, Apart
  <1>a. /\ status' = [t \in Tokens |-> IF owner[t] = u THEN "deleted" ELSE status[t]]
        /\ \A t \in Tokens : owner[t] = u => t \in Given
    BY <1>0 DEF TypeOK
  <1>b. /\ req' = [req EXCEPT ![r] = Idle] /\ Idle.step = "idle" /\ Idle \in Request
        /\ \A q \in Requests \ {r} : req'[q] = req[q]
        /\ req'[r] = Idle
    BY IdleOK DEF TypeOK, Idle
  <1>1. Given \subseteq Given'
    BY <1>a DEF Given, TypeOK
  <1>2. TypeOK'
    BY <1>0, <1>a, <1>b DEF TypeOK, RowStatus
  <1>3. OneUsableRow' /\ NoOrphanSession' /\ OneOwner'
    BY <1>0, <1>a DEF TypeOK, OneUsableRow, NoOrphanSession, OneOwner
  <1>4. ClosedUnlessOvertaken'
    BY <1>1, <1>a DEF TypeOK, ClosedUnlessOvertaken, Dead, Active
  <1>5. RequestKeys'
    BY <1>1, <1>b DEF TypeOK, RequestKeys, KeysOK
  <1>6. RotationsHoldTheirRows'
    <2>1. ASSUME NEW q \in Requests \ {r} PROVE TransactionOK(req[q])'
      <3>1. CASE req[q].step \in {"update", "commit"}
        <4>1. /\ TransactionOK(req[q]) /\ KeysOK(req[q]) /\ req[q].user # u
              /\ req'[q] = req[q]
          BY <1>0, <1>b, <2>1, <3>1 DEF RotationsHoldTheirRows, RequestKeys
        <4>2. QED
          BY <1>a, <3>1, <4>1 DEF TransactionOK, KeysOK, Given, TypeOK
      <3>2. QED
        BY <1>b, <2>1, <3>1 DEF TransactionOK
    <2>2. TransactionOK(req[r])'
      BY <1>b DEF TransactionOK
    <2>3. \A p, q \in Requests : p # q => Disjoint(req[p], req[q])'
      BY <1>b DEF RotationsHoldTheirRows, Disjoint
    <2>4. QED
      BY <2>1, <2>2, <2>3 DEF RotationsHoldTheirRows
  <1>7. SnapshotCovers'
    <2> SUFFICES ASSUME NEW q \in Requests, req'[q].step = "apply"
                 PROVE  SnapshotOK(req[q])'
      BY DEF SnapshotCovers, SnapshotOK
    <2>1. /\ req'[q] = req[q] /\ req[q].step = "apply" /\ family' = family
          /\ req[q] \in Request /\ SnapshotOK(req[q])
      BY <1>b DEF TypeOK, SnapshotCovers
    <2>2. \A x, y \in Tokens : status'[x] = "active" /\ family[x] = family[y] =>
             status[x] = "active" /\ status'[y] = status[y]
      BY <1>a DEF TypeOK, OneOwner
    <2> HIDE DEF IInv, DeleteUser
    <2>3. req[q].targets \subseteq Given' /\ req[q].targets \subseteq Tokens
      BY <1>1, <2>1 DEF SnapshotOK, Request
    <2>4. \A y \in req[q].targets, x \in Tokens :
             status'[x] = "active" /\ family'[x] = family'[y] => x = y \/ status'[y] = "rotated"
      BY <2>1, <2>2, <2>3 DEF SnapshotOK
    <2>5. ASSUME req[q].family # None, NEW x \in Active(req[q].family)'
          PROVE  \E y \in req[q].targets :
                    family'[y] = req[q].family /\ (x = y \/ status'[y] = "rotated")
      <3>1. x \in Active(req[q].family) /\ status'[x] = "active"
        BY <2>1, <2>2 DEF Active
      <3>2. PICK y \in req[q].targets : family[y] = req[q].family /\ (x = y \/ status[y] = "rotated")
        BY <2>1, <2>5, <3>1 DEF SnapshotOK
      <3>3. family[x] = family[y] /\ x \in Tokens /\ y \in Tokens
        BY <2>3, <3>1, <3>2 DEF Active
      <3>4. QED
        BY <2>1, <2>2, <3>1, <3>2, <3>3
    <2>6. QED
      BY <2>1, <2>3, <2>4, <2>5 DEF SnapshotOK
  <1>8. NoStrayReplacement'
    BY <1>a, <1>b DEF TypeOK, NoStrayReplacement, InTransaction
  <1>9. RowLocks' /\ FamilyRevocationsAreNarrow'
    BY <1>b, IdleOK, LocksKept
  <1>10. CascadesAreAlone'
    <2>1. \A q \in Requests \ {r} : req[q].step = "cascade" => user'[req[q].user] = "live"
      BY <1>0 DEF CascadesAreAlone, CascadeOK, TypeOK
    <2>2. owner' = owner
      OBVIOUS
    <2> HIDE DEF IInv, DeleteUser
    <2>3. QED
      BY <1>b, <1>1, <2>1, <2>2, IdleOK, CascadesKept
  <1>11. QED
    BY <1>2, <1>3, <1>4, <1>5, <1>6, <1>7, <1>8, <1>9, <1>10

LEMMA DeleteArrivesStep ==
  ASSUME IInv, NEW r \in Requests, NEW u \in Users, DeleteArrives(r, u)
  PROVE  IInv'
  <1> DEFINE h == [Idle EXCEPT !.step = "delete", !.user = u]
  <1>1. h \in Request /\ h.step = "delete" /\ h.user = u /\ h.locked = {}
    BY DEF Request, RequestStep, Idle
  <1>2. KeysOK(h) /\ SnapshotOK(h) /\ NarrowOK(h)
    BY <1>1 DEF KeysOK, SnapshotOK, NarrowOK
  <1>3. QED
    BY <1>1, <1>2, HandlerStep DEF InTransaction, DeleteArrives, IInv, TypeOK

LEMMA StatementEnds ==
  ASSUME IInv, NEW r \in Requests, DeleteNothing(r) \/ StatementFails(r)
  PROVE  IInv'
  <1>1. Idle \in Request /\ Idle.step = "idle" /\ Idle.locked = {}
    BY DEF Request, RequestStep, Idle
  <1>2. KeysOK(Idle) /\ SnapshotOK(Idle) /\ NarrowOK(Idle)
    BY <1>1 DEF KeysOK, SnapshotOK, NarrowOK
  <1>3. QED
    BY <1>1, <1>2, HandlerStep DEF InTransaction, DeleteNothing, StatementFails, IInv, TypeOK

(* A step of a revocation or a deletion that only takes a lock.            *)
LEMMA LockStep ==
  ASSUME IInv, NEW r \in Requests, NEW h \in Request,
         req' = [req EXCEPT ![r] = h],
         UNCHANGED <<user, tokenVars, expired, historyVars>>,
         ~InTransaction(r), h.step \in {"apply", "cascade"},
         KeysOK(h), SnapshotOK(h), LockOK(h), NarrowOK(h), CascadeOK(h),
         \A q \in Requests \ {r} : h.locked \cap req[q].locked = {},
         \A q \in Requests \ {r} : Apart(h, req[q]) /\ Apart(req[q], h)
  PROVE  IInv'
  <1> USE DEF IInv, tokenVars, historyVars
  <1>1. TypeOK'
    BY DEF TypeOK
  <1>2. OneUsableRow' /\ NoOrphanSession' /\ OneOwner' /\ ClosedUnlessOvertaken'
    BY DEF TypeOK, OneUsableRow, NoOrphanSession, OneOwner, ClosedUnlessOvertaken, Dead, Active, Given
  <1>3. RequestKeys'
    BY DEF TypeOK, RequestKeys, KeysOK, Given
  <1>4. RotationsHoldTheirRows'
    BY DEF TypeOK, RotationsHoldTheirRows, TransactionOK, Disjoint
  <1>5. SnapshotCovers'
    BY DEF TypeOK, SnapshotCovers, SnapshotOK, Given, Active
  <1>6. NoStrayReplacement'
    BY DEF TypeOK, NoStrayReplacement, InTransaction
  <1>7. RowLocks' /\ FamilyRevocationsAreNarrow'
    BY LocksKept
  <1>8. CascadesAreAlone'
    <2>1. Given' = Given /\ owner' = owner /\ user' = user
      BY DEF Given
    <2>2. \A q \in Requests : req[q].step = "cascade" => user'[req[q].user] = "live"
      BY <2>1 DEF CascadesAreAlone, CascadeOK
    <2>3. CascadeOK(h)'
      BY <2>1 DEF CascadeOK
    <2>4. QED
      BY <2>1, <2>2, <2>3, CascadesKept
  <1>9. QED
    BY <1>1, <1>2, <1>3, <1>4, <1>5, <1>6, <1>7, <1>8

LEMMA DeleteLocksUserStep ==
  ASSUME IInv, NEW r \in Requests, DeleteLocksUser(r)
  PROVE  IInv'
  <1> DEFINE u == req[r].user
             S == {t \in Given : owner[t] = u}
             h == [req[r] EXCEPT !.step = "cascade", !.targets = S]
  <1>1. /\ req[r] \in Request /\ req[r].step = "delete" /\ u # None /\ req[r].locked = {}
        /\ user[u] = "live" /\ ~Referenced(u) /\ ~Deleting(u)
    BY DEF DeleteLocksUser, IInv, TypeOK, RequestKeys, KeysOK, RowLocks, LockOK
  <1>2. u \in Users /\ S \subseteq Tokens
    BY <1>1 DEF Request, Given
  <1>3. /\ h \in Request /\ h.step = "cascade" /\ h.targets = S /\ h.locked = {} /\ h.user = u
    BY <1>1, <1>2 DEF Request, RequestStep
  <1>4. PICK k : k = h
    OBVIOUS
  <1>5. KeysOK(k) /\ SnapshotOK(k) /\ LockOK(k) /\ NarrowOK(k)
    BY <1>2, <1>3, <1>4 DEF KeysOK, SnapshotOK, LockOK, NarrowOK
  <1>6. \A t \in Tokens : owner[t] = u => t \in Given
    <2> SUFFICES ASSUME NEW t \in Tokens, owner[t] = u, t \notin Given PROVE FALSE
      OBVIOUS
    <2>1. status[t] = "pending"
      BY <1>2 DEF IInv, TypeOK, RowStatus, Given
    <2>2. PICK q \in Requests : InTransaction(q) /\ req[q].next = t
      BY <2>1 DEF IInv, NoStrayReplacement
    <2>3. req[q].user = u
      BY <2>2 DEF IInv, RotationsHoldTheirRows, TransactionOK, InTransaction
    <2>4. QED
      BY <1>1, <2>2, <2>3 DEF Referenced
  <1>7. CascadeOK(k)
    BY <1>1, <1>2, <1>3, <1>4, <1>6 DEF CascadeOK
  <1>8. \A q \in Requests \ {r} : Apart(k, req[q]) /\ Apart(req[q], k)
    BY <1>1, <1>3, <1>4 DEF Apart, Referenced, Deleting, InTransaction
  <1>9. req' = [req EXCEPT ![r] = k] /\ ~InTransaction(r)
        /\ UNCHANGED <<user, tokenVars, expired, historyVars>>
    BY <1>1, <1>4 DEF DeleteLocksUser, InTransaction, IInv, TypeOK
  <1>10. k \in Request /\ k.step = "cascade" /\ k.locked = {}
    BY <1>3, <1>4
  <1> HIDE DEF h, S
  <1>11. QED
    BY <1>5, <1>7, <1>8, <1>9, <1>10, LockStep

LEMMA LockRowStep ==
  ASSUME IInv, NEW r \in Requests, NEW t \in Tokens, LockRow(r, t)
  PROVE  IInv'
  <1> DEFINE h == [req[r] EXCEPT !.locked = @ \cup {t}]
  <1>1. /\ req[r] \in Request /\ req[r].step \in {"apply", "cascade"}
        /\ t \in req[r].targets /\ ~Locked(r, t)
        /\ KeysOK(req[r]) /\ SnapshotOK(req[r]) /\ LockOK(req[r]) /\ NarrowOK(req[r])
        /\ CascadeOK(req[r])
        /\ \A q \in Requests \ {r} : /\ req[r].locked \cap req[q].locked = {}
                                     /\ Apart(req[r], req[q]) /\ Apart(req[q], req[r])
    BY DEF LockRow, IInv, TypeOK, RequestKeys, SnapshotCovers, RowLocks,
           FamilyRevocationsAreNarrow, CascadesAreAlone
  <1>2. PICK k : k = h
    OBVIOUS
  <1>3. /\ k.step = req[r].step /\ k.user = req[r].user /\ k.family = req[r].family
        /\ k.token = req[r].token /\ k.targets = req[r].targets
        /\ k.locked = req[r].locked \cup {t}
    BY <1>1, <1>2 DEF Request
  <1>4. k \in Request
    BY <1>1, <1>2 DEF Request
  <1>5. req' = [req EXCEPT ![r] = k] /\ ~InTransaction(r)
        /\ UNCHANGED <<user, tokenVars, expired, historyVars>>
    BY <1>1, <1>2 DEF LockRow, InTransaction, IInv, TypeOK
  <1> HIDE DEF h
  <1>6. KeysOK(k) /\ SnapshotOK(k)
    BY <1>1, <1>3 DEF KeysOK, SnapshotOK
  <1>7. LockOK(k) /\ NarrowOK(k) /\ CascadeOK(k)
    BY <1>1, <1>3 DEF LockOK, NarrowOK, CascadeOK
  <1>8. \A q \in Requests \ {r} : /\ k.locked \cap req[q].locked = {}
                                  /\ Apart(k, req[q]) /\ Apart(req[q], k)
    BY <1>1, <1>3 DEF Locked, Apart
  <1>9. QED
    BY <1>1, <1>3, <1>4, <1>5, <1>6, <1>7, <1>8, LockStep

LEMMA ExpireStep ==
  ASSUME IInv, NEW t \in Tokens, Expire(t)
  PROVE  IInv'
  <1> USE DEF IInv, Expire, tokenVars, historyVars
  <1>1. TypeOK'
    BY DEF TypeOK
  <1>2. OneUsableRow' /\ NoOrphanSession' /\ OneOwner' /\ ClosedUnlessOvertaken'
    BY DEF OneUsableRow, NoOrphanSession, OneOwner, ClosedUnlessOvertaken, Dead, Active, Given
  <1>3. RequestKeys' /\ RotationsHoldTheirRows' /\ SnapshotCovers'
    BY DEF RequestKeys, KeysOK, RotationsHoldTheirRows, TransactionOK, Disjoint,
           SnapshotCovers, SnapshotOK, Given, Active
  <1>4. NoStrayReplacement'
    BY DEF NoStrayReplacement, InTransaction
  <1>5. RowLocks' /\ FamilyRevocationsAreNarrow' /\ CascadesAreAlone'
    BY DEF RowLocks, LockOK, FamilyRevocationsAreNarrow, NarrowOK, CascadesAreAlone,
           CascadeOK, Apart, Given
  <1>6. QED
    BY <1>1, <1>2, <1>3, <1>4, <1>5

LEMMA RevokeApplyStep ==
  ASSUME IInv, NEW r \in Requests, RevokeApply(r)
  PROVE  IInv'
  <1> USE DEF IInv, RevokeApply
  <1> DEFINE S == req[r].targets
  <1>1. /\ S \subseteq Given /\ SnapshotOK(req[r]) /\ KeysOK(req[r])
        /\ req[r].step = "apply" /\ req[r] \in Request
    BY DEF TypeOK, SnapshotCovers, SnapshotOK, RequestKeys
  <1>2. Given' = Given
    BY DEF Given, TypeOK
  <1>3. Answered(r) \subseteq Families /\ Overtook(r) \subseteq Families
    BY <1>1 DEF TypeOK, Answered, Overtook, Given, Request
  <1>4. TypeOK'
    BY <1>3 DEF TypeOK, RowStatus, Request, RequestStep, Idle
  <1>5. OneUsableRow' /\ NoOrphanSession' /\ OneOwner'
    BY DEF TypeOK, OneUsableRow, NoOrphanSession, OneOwner
  <1>6. \A x \in Tokens : /\ status'[x] = "active" <=> status[x] = "active" /\ x \notin S
                          /\ status[x] # "active" => status'[x] = status[x]
    BY DEF TypeOK
  <1>7. ClosedUnlessOvertaken'
    <2>1. ASSUME NEW f \in Families, Dead(f) PROVE Dead(f)'
      BY <1>2, <1>6, <2>1 DEF Dead, Active
    <2>2. ASSUME NEW f \in Answered(r) \ Overtook(r) PROVE Dead(f)'
      <3>1. \E t \in Given : family[t] = f
        BY <1>1 DEF Answered, KeysOK
      <3>2. \A y \in S : family[y] = f => status[y] # "rotated"
        BY DEF Overtook
      <3>3. ASSUME NEW x \in Tokens, status[x] = "active", family[x] = f PROVE x \in S
        <4>1. CASE req[r].family = None
          <5>1. PICK y \in S : f = family[y]
            BY <4>1 DEF Answered
          <5>2. QED
            BY <1>1, <3>2, <3>3, <5>1 DEF SnapshotOK
        <4>2. CASE req[r].family # None
          <5>1. f = req[r].family /\ x \in Active(f)
            BY <3>3, <4>2 DEF Answered, Active
          <5>2. QED
            BY <1>1, <3>2, <4>2, <5>1 DEF SnapshotOK
        <4>3. QED
          BY <4>1, <4>2
      <3>4. QED
        BY <1>2, <1>6, <3>1, <3>3 DEF Dead, Active
    <2>3. closed' \ overtaken' \subseteq (closed \ overtaken) \cup (Answered(r) \ Overtook(r))
      OBVIOUS
    <2>4. \A f \in closed \ overtaken : f \in Families /\ Dead(f)
      BY DEF ClosedUnlessOvertaken, TypeOK
    <2>5. QED
      BY <2>1, <2>2, <2>3, <2>4 DEF ClosedUnlessOvertaken
  <1>8. RequestKeys'
    BY <1>2 DEF TypeOK, RequestKeys, KeysOK, Idle
  <1>9. RotationsHoldTheirRows'
    <2>1. \A q \in Requests : q # r => req'[q] = req[q]
      BY DEF TypeOK
    <2>2. req'[r].step = "idle" /\ family' = family /\ owner' = owner
      BY DEF TypeOK, Idle
    <2>3. \A q \in Requests : req[q].step = "commit" => req[q].token \notin S
      BY <1>1 DEF RowLocks, LockOK
    <2>4. ASSUME NEW q \in Requests, q # r PROVE TransactionOK(req[q])'
      BY <1>6, <2>1, <2>2, <2>3, <2>4
         DEF TypeOK, RotationsHoldTheirRows, TransactionOK, RequestKeys, KeysOK, Given
    <2>5. TransactionOK(req[r])'
      BY <2>2 DEF TransactionOK
    <2>6. \A p, q \in Requests : p # q => Disjoint(req[p], req[q])'
      BY <2>1, <2>2 DEF RotationsHoldTheirRows, Disjoint
    <2>7. QED
      BY <2>4, <2>5, <2>6 DEF RotationsHoldTheirRows
  <1>10. SnapshotCovers'
    <2> SUFFICES ASSUME NEW q \in Requests, req'[q].step = "apply"
                 PROVE  SnapshotOK(req[q])'
      BY DEF SnapshotCovers, SnapshotOK
    <2>1. /\ req'[q] = req[q] /\ req[q] \in Request /\ SnapshotOK(req[q])
          /\ req[q].step = "apply" /\ family' = family
      BY DEF TypeOK, SnapshotCovers, Idle
    <2> HIDE DEF IInv, RevokeApply
    <2>2. req[q].targets \subseteq Given' /\ req[q].targets \subseteq Tokens
      BY <1>2, <2>1 DEF SnapshotOK, Request
    <2>3. \A y \in req[q].targets, x \in Tokens :
             status'[x] = "active" /\ family'[x] = family'[y] => x = y \/ status'[y] = "rotated"
      BY <1>6, <2>1, <2>2 DEF SnapshotOK
    <2>4. ASSUME req[q].family # None, NEW x \in Active(req[q].family)'
          PROVE  \E y \in req[q].targets :
                    family'[y] = req[q].family /\ (x = y \/ status'[y] = "rotated")
      <3>1. x \in Active(req[q].family)
        BY <1>6, <2>1 DEF Active
      <3>2. QED
        BY <1>6, <2>1, <2>2, <2>4, <3>1 DEF SnapshotOK
    <2>5. QED
      BY <2>1, <2>2, <2>3, <2>4 DEF SnapshotOK
  <1>11. NoStrayReplacement'
    BY DEF TypeOK, NoStrayReplacement, InTransaction, Idle
  <1>12. RowLocks' /\ FamilyRevocationsAreNarrow'
    BY IdleOK, LocksKept
  <1>13. CascadesAreAlone'
    <2>1. \A q \in Requests \ {r} : req[q].step = "cascade" => user'[req[q].user] = "live"
      BY DEF CascadesAreAlone, CascadeOK
    <2>2. QED
      BY <1>2, <2>1, IdleOK, CascadesKept
  <1>14. QED
    BY <1>4, <1>5, <1>7, <1>8, <1>9, <1>10, <1>11, <1>12, <1>13

LEMMA StutterStep == IInv /\ UNCHANGED vars => IInv'
  <1> SUFFICES ASSUME IInv, UNCHANGED vars PROVE IInv'
    OBVIOUS
  <1> USE DEF vars, tokenVars, historyVars, IInv
  <1>1. TypeOK'
    BY DEF TypeOK
  <1>2. OneUsableRow' /\ NoOrphanSession' /\ OneOwner' /\ ClosedUnlessOvertaken'
    BY DEF OneUsableRow, NoOrphanSession, OneOwner, ClosedUnlessOvertaken, Dead, Active, Given
  <1>3. RequestKeys' /\ RotationsHoldTheirRows' /\ SnapshotCovers'
    BY DEF RequestKeys, KeysOK, RotationsHoldTheirRows, TransactionOK, Disjoint,
           SnapshotCovers, SnapshotOK, Given, Active
  <1>4. NoStrayReplacement'
    BY DEF NoStrayReplacement, InTransaction
  <1>5. RowLocks' /\ FamilyRevocationsAreNarrow' /\ CascadesAreAlone'
    BY DEF RowLocks, LockOK, FamilyRevocationsAreNarrow, NarrowOK, CascadesAreAlone,
           CascadeOK, Apart, Given
  <1>6. QED
    BY <1>1, <1>2, <1>3, <1>4, <1>5

(* Every step of every handler keeps the invariant.                        *)
LEMMA NextIInv == IInv /\ [Next]_vars => IInv'
  <1> SUFFICES ASSUME IInv, [Next]_vars PROVE IInv'
    OBVIOUS
  <1>1. CASE UNCHANGED vars
    BY <1>1, StutterStep
  <1>2. ASSUME NEW r \in Requests,
               \/ DeleteLocksUser(r) \/ DeleteNothing(r) \/ DeleteUser(r) \/ StatementFails(r)
               \/ \E t \in Tokens : LockRow(r, t)
        PROVE  IInv'
    BY <1>2, DeleteLocksUserStep, DeleteUserStep, StatementEnds, LockRowStep
  <1>3. CASE \E t \in Tokens : Expire(t)
    BY <1>3, ExpireStep
  <1>4. ASSUME NEW r \in Requests,
               \E u \in Users : LoginAccount(r, u) \/ ConsentRevoked(r, u) \/ DeleteArrives(r, u)
        PROVE  IInv'
    BY <1>4, LoginAccountStep, ConsentRevokedStep, DeleteArrivesStep
  <1>5. ASSUME NEW r \in Requests, \E f \in Families, t \in Tokens : LoginIssue(r, f, t)
        PROVE  IInv'
    BY <1>5, LoginIssueStep
  <1>6. ASSUME NEW r \in Requests,
               \E t \in Tokens : RefreshArrives(r, t) \/ RotateInsert(r, t) \/ LogoutFind(r, t)
        PROVE  IInv'
    BY <1>6, RefreshArrivesStep, RotateInsertStep, LogoutFindStep
  <1>7. ASSUME NEW r \in Requests, \E f \in Families : LogoutAdmitted(r, f)
        PROVE  IInv'
    BY <1>7, LogoutAdmittedStep
  <1>8. ASSUME NEW r \in Requests, LoginRefused(r) \/ RefreshFind(r) \/ RotateRefused(r)
        PROVE  IInv'
    BY <1>8, LoginRefusedStep, RefreshFindStep, RotateRefusedStep
  <1>9. ASSUME NEW r \in Requests,
               RotateUpdate(r) \/ RotateConflict(r) \/ RotateCommit(r) \/ RotateAbort(r)
        PROVE  IInv'
    BY <1>9, RotateUpdateStep, RotateConflictStep, RotateCommitStep, RotateAbortStep
  <1>10. ASSUME NEW r \in Requests, RevokeScan(r) \/ RevokeApply(r)
         PROVE  IInv'
    BY <1>10, RevokeScanStep, RevokeApplyStep
  <1>11. QED
    BY <1>1, <1>2, <1>3, <1>4, <1>5, <1>6, <1>7, <1>8, <1>9, <1>10 DEF Next

(* The inductive invariant holds in every reachable state.                 *)
THEOREM Invariance == Spec => []IInv
  <1>1. QED
    BY InitIInv, NextIInv, PTL DEF Spec

(* The table, the handlers in flight and the history keep their types.     *)
THEOREM TypeCorrect == Spec => []TypeOK
  <1>1. IInv => TypeOK
    BY DEF IInv
  <1>2. QED
    BY <1>1, Invariance, PTL

(* However refreshes of one token race, a family keeps at most one usable  *)
(* row, so the guard's question has one answer.                            *)
THEOREM RotationIsExclusive == Spec => []OneUsableRow
  <1>1. IInv => OneUsableRow
    BY DEF IInv
  <1>2. QED
    BY <1>1, Invariance, PTL

(* A deleted account has no row left, and nobody is adding one.            *)
THEOREM DeletionEndsSessions == Spec => []NoOrphanSession
  <1>1. IInv => NoOrphanSession
    BY DEF IInv
  <1>2. QED
    BY <1>1, Invariance, PTL

(* A revocation that was answered closed its families, except those whose  *)
(* rotation committed between its snapshot and its update.                 *)
THEOREM RevocationCloses == Spec => []ClosedUnlessOvertaken
  <1>1. IInv => ClosedUnlessOvertaken
    BY DEF IInv
  <1>2. QED
    BY <1>1, Invariance, PTL

(* Whoever is part of a circle of lock waits holds a lock and waits for    *)
(* another: a rotation has all its locks once it can be waited for by      *)
(* somebody who holds one, and the revocation of a family needs one row.   *)
LEMMA CircleMembers == IInv => SessionsNeverDeadlock
  <1> SUFFICES ASSUME IInv, NEW S \in SUBSET Requests, Circle(S), NEW r \in S
               PROVE  EndsAllSessions(r)
    BY DEF SessionsNeverDeadlock
  <1>1. PICK p \in S, q \in S : Waits(p, r) /\ Waits(r, q)
    BY DEF Circle
  <1>2. PICK x \in S : Waits(x, p)
    BY DEF Circle
  <1>3. LockOK(req[r]) /\ LockOK(req[p]) /\ NarrowOK(req[r])
    BY DEF IInv, RowLocks, FamilyRevocationsAreNarrow
  <1>4. req[r].step \in {"update", "apply", "cascade"}
    <2>1. req[r].step \in {"update", "apply", "cascade", "issue", "insert", "delete"}
      BY <1>1 DEF Waits
    <2>2. req[r].step \notin {"issue", "insert", "delete"}
      BY <1>1, <1>3 DEF Waits, LockOK
    <2>3. QED
      BY <2>1, <2>2
  <1>5. req[r].step # "update"
    <2>1. ASSUME req[r].step = "update" PROVE req[p].step = "delete"
      BY <1>1, <1>3, <2>1 DEF Waits, LockOK
    <2>2. req[p].step # "delete"
      BY <1>2, <1>3 DEF Waits, LockOK
    <2>3. QED
      BY <2>1, <2>2
  <1>6. ASSUME req[r].step = "apply" PROVE req[r].family = None
    <2>1. PICK s : s \in req[r].locked
      BY <1>1, <1>6 DEF Waits
    <2>2. PICK t : t \in req[r].targets \ req[r].locked
      BY <1>1, <1>6 DEF Waits
    <2>3. s \in req[r].targets /\ s # t
      BY <1>3, <1>6, <2>1, <2>2 DEF LockOK
    <2>4. QED
      BY <1>3, <1>6, <2>2, <2>3 DEF NarrowOK
  <1>7. QED
    BY <1>4, <1>5, <1>6 DEF EndsAllSessions

(* Logins, refreshes and logouts are never victims of a deadlock, however  *)
(* many requests run.                                                      *)
THEOREM NoSessionDeadlock == Spec => []SessionsNeverDeadlock
  <1>1. QED
    BY CircleMembers, Invariance, PTL

(***************************************************************************)
(* What a step may never do.                                               *)
(***************************************************************************)
(* The steps of a deletion or a revocation that change no row.             *)
Deletes(r) ==
    \/ \E u \in Users : DeleteArrives(r, u)
    \/ \E t \in Tokens : LockRow(r, t)
    \/ DeleteLocksUser(r) \/ DeleteNothing(r) \/ StatementFails(r)

(* Only a rotation that commits makes a row usable in a family that has    *)
(* rows, and it does so by consuming the family's usable row.              *)
LEMMA NewUsableRow ==
  ASSUME IInv, [Next]_vars,
         NEW x \in Tokens, status[x] # "active", status'[x] = "active"
  PROVE  \/ /\ family[x] = None
            /\ \A t \in Tokens : family[t] # family'[x]
         \/ /\ family'[x] = family[x] /\ status[x] = "pending"
            /\ \E t \in Active(family[x]) : status'[t] = "rotated"
  <1> USE DEF IInv, vars, tokenVars
  <1>1. \/ \E r \in Requests, f \in Families, t \in Tokens : LoginIssue(r, f, t)
        \/ \E r \in Requests : RotateCommit(r)
    <2> USE DEF TypeOK
    <2>1. CASE UNCHANGED vars
      BY <2>1
    <2>2. CASE \E t \in Tokens : Expire(t)
      BY <2>2 DEF Expire
    <2>3. ASSUME NEW r \in Requests,
                 \/ \E u \in Users : LoginAccount(r, u) \/ ConsentRevoked(r, u)
                 \/ \E t \in Tokens : RefreshArrives(r, t) \/ LogoutFind(r, t)
                 \/ \E f \in Families : LogoutAdmitted(r, f)
                 \/ LoginRefused(r) \/ RefreshFind(r) \/ RotateRefused(r)
                 \/ RotateUpdate(r) \/ RevokeScan(r)
          PROVE  FALSE
      BY <2>3 DEF LoginAccount, ConsentRevoked, RefreshArrives, LogoutFind, LogoutAdmitted,
                  LoginRefused, RefreshFind, RotateRefused, RotateUpdate, RevokeScan
    <2>4. ASSUME NEW r \in Requests, \E n \in Tokens : RotateInsert(r, n)
          PROVE  FALSE
      BY <2>4 DEF RotateInsert
    <2>5. ASSUME NEW r \in Requests, RotateConflict(r) \/ RotateAbort(r)
          PROVE  FALSE
      BY <2>5 DEF RotateConflict, RotateAbort, Rollback
    <2>6. ASSUME NEW r \in Requests, RevokeApply(r) \/ DeleteUser(r)
          PROVE  FALSE
      BY <2>6 DEF RevokeApply, DeleteUser
    <2>7. ASSUME NEW r \in Requests, Deletes(r)
          PROVE  FALSE
      BY <2>7 DEF Deletes, DeleteArrives, DeleteLocksUser, DeleteNothing, StatementFails, LockRow
    <2>8. QED
      BY <2>1, <2>2, <2>3, <2>4, <2>5, <2>6, <2>7 DEF Next, Deletes
  <1>2. CASE \E r \in Requests, f \in Families, t \in Tokens : LoginIssue(r, f, t)
    BY <1>2 DEF LoginIssue, FreshFamily, TypeOK
  <1>3. ASSUME NEW r \in Requests, RotateCommit(r)
        PROVE  /\ family'[x] = family[x] /\ status[x] = "pending"
               /\ \E t \in Active(family[x]) : status'[t] = "rotated"
    <2> DEFINE t == req[r].token
               n == req[r].next
    <2>1. /\ t \in Tokens /\ n \in Tokens /\ t # n /\ status[n] = "pending"
          /\ t \in Active(family[n])
      BY <1>3 DEF RotateCommit, RotationsHoldTheirRows, TransactionOK, RequestKeys, KeysOK,
                  TypeOK, Given, Active
    <2>2. x = n /\ status'[t] = "rotated" /\ family' = family
      BY <1>3, <2>1 DEF RotateCommit, TypeOK
    <2>3. QED
      BY <2>1, <2>2
  <1>4. QED
    BY <1>1, <1>2, <1>3

(* Rows that were committed stay in the table's history under their keys.  *)
LEMMA GivenGrows ==
  ASSUME IInv, [Next]_vars, NEW x \in Given
  PROVE  x \in Given' /\ family'[x] = family[x] /\ owner'[x] = owner[x]
  <1> USE DEF IInv, vars, tokenVars, TypeOK, Given, RowStatus
  <1>1. CASE UNCHANGED vars
    BY <1>1
  <1>2. ASSUME NEW r \in Requests, Deletes(r)
        PROVE  x \in Given' /\ family'[x] = family[x] /\ owner'[x] = owner[x]
    BY <1>2 DEF Deletes, DeleteArrives, DeleteLocksUser, DeleteNothing, StatementFails, LockRow
  <1>3. CASE \E t \in Tokens : Expire(t)
    BY <1>3 DEF Expire
  <1>4. ASSUME NEW r \in Requests,
               \/ \E u \in Users : LoginAccount(r, u) \/ ConsentRevoked(r, u)
               \/ \E t \in Tokens : RefreshArrives(r, t) \/ LogoutFind(r, t)
               \/ \E f \in Families : LogoutAdmitted(r, f)
               \/ LoginRefused(r) \/ RefreshFind(r) \/ RotateRefused(r)
               \/ RotateUpdate(r) \/ RevokeScan(r)
        PROVE  x \in Given' /\ family'[x] = family[x] /\ owner'[x] = owner[x]
    BY <1>4 DEF LoginAccount, ConsentRevoked, RefreshArrives, LogoutFind, LogoutAdmitted,
                LoginRefused, RefreshFind, RotateRefused, RotateUpdate, RevokeScan
  <1>5. ASSUME NEW r \in Requests,
               \/ \E f \in Families, t \in Tokens : LoginIssue(r, f, t)
               \/ \E n \in Tokens : RotateInsert(r, n)
        PROVE  x \in Given' /\ family'[x] = family[x] /\ owner'[x] = owner[x]
    BY <1>5 DEF LoginIssue, RotateInsert
  <1>6. ASSUME NEW r \in Requests, RotateConflict(r) \/ RotateCommit(r) \/ RotateAbort(r)
        PROVE  x \in Given' /\ family'[x] = family[x] /\ owner'[x] = owner[x]
    <2>1. req[r].next \in Tokens /\ status[req[r].next] = "pending"
      BY <1>6 DEF RotateConflict, RotateCommit, RotateAbort, InTransaction,
                  RotationsHoldTheirRows, TransactionOK
    <2>2. QED
      BY <1>6, <2>1 DEF RotateConflict, RotateCommit, RotateAbort, Rollback
  <1>7. ASSUME NEW r \in Requests, RevokeApply(r) \/ DeleteUser(r)
        PROVE  x \in Given' /\ family'[x] = family[x] /\ owner'[x] = owner[x]
    BY <1>7 DEF RevokeApply, DeleteUser
  <1>8. QED
    BY <1>1, <1>2, <1>3, <1>4, <1>5, <1>6, <1>7 DEF Next, Deletes

(* A dead family never has a usable row again.                             *)
THEOREM NoResurrection == Spec => DeadFamilyStaysDead
  <1>1. ASSUME IInv, [Next]_vars, NEW f \in Families, Dead(f)
        PROVE  Dead(f)'
    <2>1. PICK g \in Given : family[g] = f
      BY <1>1 DEF Dead
    <2>2. g \in Given' /\ family'[g] = f
      BY <1>1, <2>1, GivenGrows
    <2>3. ASSUME NEW x \in Active(f)' PROVE FALSE
      <3>1. x \in Tokens /\ status'[x] = "active" /\ family'[x] = f
        BY <2>3 DEF Active
      <3>2. CASE status[x] = "active"
        <4>1. x \in Given
          BY <3>1, <3>2 DEF Given
        <4>2. family[x] = f
          BY <1>1, <3>1, <4>1, GivenGrows
        <4>3. QED
          BY <1>1, <3>1, <3>2, <4>2 DEF Dead, Active
      <3>3. CASE status[x] # "active"
        <4>1. g \in Tokens
          BY <2>1 DEF Given
        <4>2. QED
          BY <1>1, <2>1, <3>1, <3>3, <4>1, NewUsableRow DEF Dead
      <3>4. QED
        BY <3>2, <3>3
    <2>4. QED
      BY <2>2, <2>3 DEF Dead
  <1>2. IInv /\ [Next]_vars => [\A f \in Families : Dead(f) => Dead(f)']_vars
    BY <1>1
  <1>3. QED
    BY <1>2, Invariance, PTL DEF Spec, DeadFamilyStaysDead

(***************************************************************************)
(* The refinement: every step of the handlers opens a session, exchanges   *)
(* its token, ends sessions or leaves them alone.                          *)
(***************************************************************************)
(* The token that SessionLifecycle speaks of is the family's usable row.   *)
LEMMA CurrentRow ==
  ASSUME OneUsableRow, NEW f \in Families, NEW t \in Active(f)
  PROVE  Current(f) = t
  <1>1. Current(f) \in Active(f)
    BY DEF Current
  <1>2. QED
    BY <1>1 DEF OneUsableRow, Active

LEMMA CurrentRowNext ==
  ASSUME OneUsableRow', NEW f \in Families, NEW t \in Active(f)'
  PROVE  Current(f)' = t
  <1>1. Current(f)' \in Active(f)'
    BY DEF Current
  <1>2. QED
    BY <1>1 DEF OneUsableRow, Active

LEMMA InitLifecycle == Init => Lifecycle!Init
  <1> SUFFICES ASSUME Init PROVE Lifecycle!Init
    OBVIOUS
  <1>1. Given = {} /\ \A f \in Families : Active(f) = {}
    BY DEF Init, Given, Active
  <1>2. \A f \in Families : Phase(f) = "new" /\ Current(f) = None
    BY <1>1 DEF Phase, Current
  <1>3. QED
    BY <1>1, <1>2 DEF Lifecycle!Init

(* A login's first row opens its session.                                  *)
LEMMA OpenStep ==
  ASSUME IInv, IInv', NEW r \in Requests, NEW f \in Families, NEW t \in Tokens, LoginIssue(r, f, t)
  PROVE  Lifecycle!Open(f, t)
  <1> USE DEF LoginIssue, IInv, TypeOK
  <1>1. Given' = Given \cup {t} /\ t \notin Given
    BY DEF Given
  <1>2. Phase(f) = "new" /\ Phase(f)' = "open" /\ Current(f)' = t
    <2>1. \A x \in Given : family[x] # f
      BY DEF Given, FreshFamily
    <2>2. t \in Active(f)' /\ t \in Given' /\ family'[t] = f
      BY <1>1 DEF Active
    <2>3. QED
      BY <2>1, <2>2, CurrentRowNext DEF Phase
  <1>3. ASSUME NEW g \in Families, g # f
        PROVE  Phase(g)' = Phase(g) /\ Current(g)' = Current(g)
    <2>1. Active(g)' = Active(g)
      BY <1>3 DEF Active
    <2>2. (\A x \in Given' : family'[x] # g) <=> (\A x \in Given : family[x] # g)
      BY <1>1, <1>3 DEF Given
    <2>3. Phase(g)' = Phase(g)
      BY <2>1, <2>2 DEF Phase
    <2>4. CASE Active(g) = {}
      BY <2>1, <2>3, <2>4 DEF Current
    <2>5. ASSUME NEW x \in Active(g) PROVE Current(g)' = Current(g)
      BY <2>1, <2>5, CurrentRow, CurrentRowNext
    <2>6. QED
      BY <2>3, <2>4, <2>5
  <1>4. [g \in Families |-> Phase(g)]' = [[g \in Families |-> Phase(g)] EXCEPT ![f] = "open"]
    BY <1>2, <1>3
  <1>5. [g \in Families |-> Current(g)]' = [[g \in Families |-> Current(g)] EXCEPT ![f] = t]
    BY <1>2, <1>3
  <1> HIDE DEF LoginIssue, IInv, TypeOK
  <1>6. QED
    BY <1>1, <1>2, <1>4, <1>5 DEF Lifecycle!Open

(* A rotation that commits exchanges the token.                            *)
LEMMA ExchangeStep ==
  ASSUME IInv, IInv', NEW r \in Requests, RotateCommit(r)
  PROVE  \E f \in Families, n \in Tokens : Lifecycle!Exchange(f, n)
  <1> USE DEF RotateCommit, IInv, TypeOK
  <1>1. PICK t \in Tokens, n \in Tokens, f \in Families :
               /\ t = req[r].token /\ n = req[r].next /\ t # n
               /\ status[t] = "active" /\ status[n] = "pending"
               /\ family[t] = f /\ family[n] = f
    BY DEF RotationsHoldTheirRows, TransactionOK, RequestKeys, KeysOK, Given
  <1>2. Given' = Given \cup {n} /\ n \notin Given /\ t \in Given
    BY <1>1 DEF Given
  <1>3. t \in Active(f) /\ n \in Active(f)' /\ n \in Given'
    BY <1>1, <1>2 DEF Active
  <1>4. Phase(f) = "open" /\ Phase(f)' = "open" /\ Current(f)' = n
    BY <1>1, <1>2, <1>3, CurrentRowNext DEF Phase
  <1>5. ASSUME NEW g \in Families, g # f
        PROVE  Phase(g)' = Phase(g) /\ Current(g)' = Current(g)
    <2>1. Active(g)' = Active(g)
      BY <1>1, <1>5 DEF Active
    <2>2. (\A x \in Given' : family'[x] # g) <=> (\A x \in Given : family[x] # g)
      BY <1>1, <1>2, <1>5
    <2>3. Phase(g)' = Phase(g)
      BY <2>1, <2>2 DEF Phase
    <2>4. CASE Active(g) = {}
      BY <2>1, <2>3, <2>4 DEF Current
    <2>5. ASSUME NEW x \in Active(g) PROVE Current(g)' = Current(g)
      BY <2>1, <2>5, CurrentRow, CurrentRowNext
    <2>6. QED
      BY <2>3, <2>4, <2>5
  <1>6. [g \in Families |-> Phase(g)]' = [g \in Families |-> Phase(g)]
    BY <1>4, <1>5
  <1>7. [g \in Families |-> Current(g)]' = [[g \in Families |-> Current(g)] EXCEPT ![f] = n]
    BY <1>4, <1>5
  <1> HIDE DEF RotateCommit, IInv, TypeOK
  <1>8. Lifecycle!Exchange(f, n)
    BY <1>2, <1>4, <1>6, <1>7 DEF Lifecycle!Exchange
  <1>9. QED
    BY <1>8

(* A step that commits no new row and makes none usable ends the sessions  *)
(* that lose theirs, possibly none.                                        *)
LEMMA EndStep ==
  ASSUME IInv, IInv', Given' = Given, \A x \in Given : family'[x] = family[x],
         \A x \in Tokens : status'[x] = "active" => status[x] = "active"
  PROVE  \E S \in SUBSET Families : Lifecycle!End(S)
  <1> DEFINE S == {f \in Families : Active(f) # {} /\ Active(f)' = {}}
  <1>1. \A f \in Families : Active(f)' \subseteq Active(f)
    BY DEF Active, Given
  <1>2. \A f \in Families : (\A x \in Given' : family'[x] # f) <=> (\A x \in Given : family[x] # f)
    OBVIOUS
  <1>3. ASSUME NEW f \in S
        PROVE  Phase(f) = "open" /\ Phase(f)' = "ended" /\ Current(f)' = None
    <2>1. PICK x \in Active(f) : TRUE
      OBVIOUS
    <2>2. x \in Given /\ family[x] = f
      BY <2>1 DEF Active, Given
    <2>3. QED
      BY <1>2, <2>1, <2>2 DEF Phase, Current
  <1>4. ASSUME NEW f \in Families \ S
        PROVE  Phase(f)' = Phase(f) /\ Current(f)' = Current(f)
    <2>1. CASE Active(f) = {}
      BY <1>1, <1>2, <2>1 DEF Phase, Current
    <2>2. ASSUME NEW x \in Active(f)' PROVE Phase(f)' = Phase(f) /\ Current(f)' = Current(f)
      <3>1. x \in Active(f) /\ OneUsableRow /\ OneUsableRow'
        BY <1>1 DEF IInv
      <3>2. Current(f) = x /\ Current(f)' = x
        BY <3>1, CurrentRow, CurrentRowNext
      <3>3. QED
        BY <1>2, <3>1, <3>2 DEF Phase
    <2>3. QED
      BY <2>1, <2>2
  <1>5. [f \in Families |-> Phase(f)]'
           = [f \in Families |-> IF f \in S THEN "ended" ELSE [g \in Families |-> Phase(g)][f]]
    BY <1>3, <1>4
  <1>6. [f \in Families |-> Current(f)]'
           = [f \in Families |-> IF f \in S THEN None ELSE [g \in Families |-> Current(g)][f]]
    BY <1>3, <1>4
  <1>7. S \in SUBSET Families /\ \A f \in S : Phase(f) = "open"
    BY <1>3
  <1> HIDE DEF S
  <1>8. Lifecycle!End(S)
    BY <1>5, <1>6, <1>7 DEF Lifecycle!End
  <1>9. QED
    BY <1>7, <1>8

(* Only a login's first row and a rotation's commit make a row usable or   *)
(* commit one: the cascade of a deletion finds no replacement in flight.   *)
LEMMA OtherSteps ==
  ASSUME IInv, [Next]_vars,
         ~ \E r \in Requests, f \in Families, t \in Tokens : LoginIssue(r, f, t),
         ~ \E r \in Requests : RotateCommit(r),
         NEW x \in Tokens
  PROVE  /\ x \in Given' => x \in Given
         /\ status'[x] = "active" => status[x] = "active"
  <1> DEFINE Kept == /\ x \in Given' => x \in Given
                     /\ status'[x] = "active" => status[x] = "active"
  <1> SUFFICES Kept
    OBVIOUS
  <1> USE DEF IInv, vars, tokenVars, TypeOK, Given
  <1>1. CASE UNCHANGED vars
    BY <1>1
  <1>2. ASSUME NEW r \in Requests, DeleteUser(r) PROVE Kept
    <2>1. req[r].targets \subseteq Given
      BY <1>2 DEF DeleteUser, CascadesAreAlone, CascadeOK
    <2>2. QED
      BY <1>2, <2>1 DEF DeleteUser
  <1>3. CASE \E t \in Tokens : Expire(t)
    BY <1>3 DEF Expire
  <1>4. ASSUME NEW r \in Requests,
               \/ \E u \in Users : LoginAccount(r, u) \/ ConsentRevoked(r, u)
               \/ \E t \in Tokens : RefreshArrives(r, t) \/ LogoutFind(r, t)
               \/ \E f \in Families : LogoutAdmitted(r, f)
               \/ LoginRefused(r) \/ RefreshFind(r) \/ RotateRefused(r)
               \/ RotateUpdate(r) \/ RevokeScan(r)
        PROVE  Kept
    BY <1>4 DEF LoginAccount, ConsentRevoked, RefreshArrives, LogoutFind, LogoutAdmitted,
                LoginRefused, RefreshFind, RotateRefused, RotateUpdate, RevokeScan
  <1>5. ASSUME NEW r \in Requests, \E n \in Tokens : RotateInsert(r, n)
        PROVE  Kept
    BY <1>5 DEF RotateInsert
  <1>6. ASSUME NEW r \in Requests, RotateConflict(r) \/ RotateAbort(r)
        PROVE  Kept
    BY <1>6 DEF RotateConflict, RotateAbort, Rollback
  <1>7. ASSUME NEW r \in Requests, RevokeApply(r)
        PROVE  Kept
    BY <1>7 DEF RevokeApply
  <1>8. ASSUME NEW r \in Requests, Deletes(r)
        PROVE  Kept
    BY <1>8 DEF Deletes, DeleteArrives, DeleteLocksUser, DeleteNothing, StatementFails, LockRow
  <1>9. QED
    BY <1>1, <1>2, <1>3, <1>4, <1>5, <1>6, <1>7, <1>8 DEF Next, Deletes

LEMMA NextLifecycle == IInv /\ IInv' /\ [Next]_vars => [Lifecycle!Next]_(Lifecycle!vars)
  <1> SUFFICES ASSUME IInv, IInv', [Next]_vars PROVE Lifecycle!Next
    OBVIOUS
  <1>1. CASE \E r \in Requests, f \in Families, t \in Tokens : LoginIssue(r, f, t)
    BY <1>1, OpenStep DEF Lifecycle!Next
  <1>2. CASE \E r \in Requests : RotateCommit(r)
    BY <1>2, ExchangeStep DEF Lifecycle!Next
  <1>3. CASE /\ ~ \E r \in Requests, f \in Families, t \in Tokens : LoginIssue(r, f, t)
             /\ ~ \E r \in Requests : RotateCommit(r)
    <2>1. \A x \in Tokens : /\ x \in Given' => x \in Given
                            /\ status'[x] = "active" => status[x] = "active"
      BY <1>3, OtherSteps
    <2>2. \A x \in Given : x \in Given' /\ family'[x] = family[x]
      BY GivenGrows
    <2>3. Given' = Given
      BY <2>1, <2>2 DEF Given
    <2>4. QED
      BY <2>1, <2>2, <2>3, EndStep DEF Lifecycle!Next
  <1>4. QED
    BY <1>1, <1>2, <1>3

(* Whatever its requests do at the same time, the table behaves like the   *)
(* sessions of SessionLifecycle: opened once, exchanged one token at a     *)
(* time for one never handed out, and gone for good when ended.            *)
THEOREM TableIsLifecycle == Spec => ImplementsLifecycle
  <1>1. QED
    BY InitLifecycle, NextLifecycle, Invariance, PTL DEF Spec, ImplementsLifecycle, Lifecycle!Spec

=============================================================================
