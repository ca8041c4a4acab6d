-------------------------- MODULE WithdrawalProofs --------------------------
(***************************************************************************)
(* The safety properties of Withdrawal, for any number of accounts.        *)
(***************************************************************************)
EXTENDS Withdrawal, TLAPS

(* Initially nothing is marked and no deletion is under way.               *)
LEMMA InitIInv == Init => IInv
BY NoneAssumption DEF Init, IInv, TypeOK, MarkedAreDeleted, PageConfirmed, RecoveryConfirmed,
   Closed, Rested, Page, Recovery, Confirmed

(* The steps of the accounts: a deleted account never comes back, and a    *)
(* save that ends after the confirmation is late.                          *)
LEMMA AccountSteps ==
    ASSUME IInv, NEW u \in Users, SignIn(u) \/ SaveEnds(u) \/ SessionEnds \/ StartSave
    PROVE  IInv'
<1>1. CASE SignIn(u)
  BY <1>1 DEF SignIn, IInv, TypeOK, MarkedAreDeleted, PageConfirmed, RecoveryConfirmed,
     Page, Recovery, Confirmed, Cleaned, deviceVars, historyVars
<1>2. CASE SaveEnds(u)
  BY <1>2 DEF SaveEnds, IInv, TypeOK, MarkedAreDeleted, PageConfirmed, RecoveryConfirmed,
     Page, Recovery, Confirmed, Cleaned
<1>3. CASE SessionEnds
  BY <1>3 DEF SessionEnds, IInv, TypeOK, MarkedAreDeleted, PageConfirmed, RecoveryConfirmed,
     Page, Recovery, Confirmed, Cleaned, deviceVars, historyVars
<1>4. CASE StartSave
  BY <1>4 DEF StartSave, IInv, TypeOK, MarkedAreDeleted, PageConfirmed, RecoveryConfirmed,
     Page, Recovery, Confirmed, Cleaned, historyVars
<1> QED BY <1>1, <1>2, <1>3, <1>4

(* A page without a withdrawal.                                            *)
LEMMA ClosedIsPage == Closed \in Page /\ Closed.step = "idle"
BY NoneAssumption DEF Closed, Page

(* The steps of the page: the answer of the server confirms the deletion,  *)
(* and each later step keeps to the account it was confirmed for.          *)
LEMMA PageSteps ==
    ASSUME IInv, \/ StartWithdrawal \/ RemoteDelete \/ DeleteRefused \/ Mark
                 \/ Clear \/ ClearFails \/ Complete \/ SignOut
    PROVE  IInv'
<1> USE NoneAssumption
<1>1. CASE StartWithdrawal
  BY <1>1 DEF StartWithdrawal, Asked, Closed, IInv, TypeOK, MarkedAreDeleted, PageConfirmed,
     RecoveryConfirmed, Page, Recovery, Confirmed, Cleaned, deviceVars, historyVars
<1>2. CASE RemoteDelete
  <2>1. page.user \in Users /\ page.as \in Users
    BY <1>2 DEF RemoteDelete, IInv, TypeOK
  <2>2. TypeOK'
    <3>1. page' \in Page /\ (page'.step # "idle" => page'.user \in Users /\ page'.as \in Users)
      <4>1. page' = Closed \/ page' = [page EXCEPT !.step = "mark"]
        BY <1>2 DEF RemoteDelete
      <4>2. CASE page' = Closed
        BY <4>2, ClosedIsPage
      <4>3. CASE page' = [page EXCEPT !.step = "mark"]
        BY <2>1, <4>3 DEF IInv, TypeOK, Page
      <4> QED BY <4>1, <4>2, <4>3
    <3>2. account' \in [Users -> {"new", "live", "deleted"}] /\ mistaken' \subseteq Users
      BY <1>2, <2>1 DEF RemoteDelete, IInv, TypeOK
    <3> QED BY <1>2, <3>1, <3>2 DEF RemoteDelete, IInv, TypeOK, deviceVars
  <2>3. \A u \in Users : Confirmed(u) => Confirmed(u)'
    BY <1>2, <2>1 DEF RemoteDelete, IInv, TypeOK, Confirmed
  <2>4. MarkedAreDeleted' /\ RecoveryConfirmed'
    BY <1>2, <2>3 DEF RemoteDelete, IInv, TypeOK, MarkedAreDeleted, RecoveryConfirmed, Recovery,
       Confirmed, Cleaned, deviceVars
  <2>5. PageConfirmed'
    <3>1. CASE page' = Closed
      BY <3>1 DEF Closed, PageConfirmed
    <3>2. CASE page' # Closed
      <4>1. /\ page' = [page EXCEPT !.step = "mark"]
            /\ account' = [account EXCEPT ![page.as] = "deleted"]
            /\ mistaken' = IF page.as = page.user THEN mistaken ELSE mistaken \cup {page.user}
        BY <1>2, <3>2 DEF RemoteDelete
      <4>2. page'.step = "mark" /\ page'.user = page.user
        BY <4>1 DEF IInv, TypeOK, Page
      <4>3. Confirmed(page.user)'
        BY <2>1, <4>1, <4>2 DEF IInv, TypeOK, Confirmed
      <4> QED BY <4>2, <4>3 DEF PageConfirmed, Confirmed
    <3> QED BY <3>1, <3>2
  <2> QED BY <2>2, <2>4, <2>5 DEF IInv
<1>3. CASE DeleteRefused
  <2>1. /\ page' \in Page
        /\ page'.step # "idle" => page'.user \in Users /\ page'.as \in Users
        /\ page'.step \in {"idle", "delete"}
    <3>1. page' = Closed \/ (session \in Users /\ page' = [page EXCEPT !.as = session, !.resent = TRUE])
      BY <1>3 DEF DeleteRefused, IInv, TypeOK
    <3>2. CASE page' = Closed
      BY <3>2, ClosedIsPage
    <3>3. CASE session \in Users /\ page' = [page EXCEPT !.as = session, !.resent = TRUE]
      <4>1. page \in Page /\ page.step = "delete" /\ page.user \in Users
        BY <1>3 DEF DeleteRefused, IInv, TypeOK
      <4> QED BY <3>3, <4>1 DEF Page
    <3> QED BY <3>1, <3>2, <3>3
  <2>2. TypeOK'
    BY <1>3, <2>1 DEF DeleteRefused, IInv, TypeOK, deviceVars, historyVars
  <2>4. MarkedAreDeleted' /\ RecoveryConfirmed' /\ PageConfirmed'
    BY <1>3, <2>1 DEF DeleteRefused, IInv, MarkedAreDeleted, RecoveryConfirmed, PageConfirmed,
       Confirmed, Cleaned, deviceVars, historyVars
  <2> QED BY <2>2, <2>4 DEF IInv
<1>4. CASE Mark
  BY <1>4 DEF Mark, IInv, TypeOK, MarkedAreDeleted, PageConfirmed,
     RecoveryConfirmed, Page, Recovery, Confirmed, Cleaned, historyVars
<1>5. CASE Clear
  BY <1>5 DEF Clear, IInv, TypeOK, MarkedAreDeleted, PageConfirmed,
     RecoveryConfirmed, Page, Recovery, Confirmed, Cleaned, historyVars
<1>6. CASE ClearFails
  BY <1>6 DEF ClearFails, IInv, TypeOK, MarkedAreDeleted, PageConfirmed,
     RecoveryConfirmed, Page, Recovery, Confirmed, Cleaned, deviceVars, historyVars
<1>7. CASE Complete
  BY <1>7 DEF Complete, IInv, TypeOK, MarkedAreDeleted, PageConfirmed,
     RecoveryConfirmed, Page, Recovery, Confirmed, Cleaned, historyVars
<1>8. CASE SignOut
  BY <1>8 DEF SignOut, Closed, IInv, TypeOK, MarkedAreDeleted, PageConfirmed,
     RecoveryConfirmed, Page, Recovery, Confirmed, Cleaned, deviceVars, historyVars
<1> QED BY <1>1, <1>2, <1>3, <1>4, <1>5, <1>6, <1>7, <1>8

(* The steps of a start of the app: what it reads is marked, hence         *)
(* confirmed, and the marker it removes is of an account it has cleaned.   *)
LEMMA StartSteps ==
    ASSUME IInv, Restart \/ RecoveryRead \/ RecoveryComplete
    PROVE  IInv'
<1> USE NoneAssumption
<1>1. CASE Restart
  BY <1>1 DEF Restart, Closed, Rested, IInv, TypeOK, MarkedAreDeleted, PageConfirmed,
     RecoveryConfirmed, Page, Recovery, Confirmed, Cleaned, historyVars
<1>2. CASE RecoveryRead
  <2>1. recovery' \in Recovery /\ recovery'.step \in {"clear", "idle"} /\ recovery'.todo \subseteq marker
    <3>1. CASE recovery' = Rested
      BY <3>1 DEF Rested, Recovery
    <3>2. CASE recovery' = [recovery EXCEPT !.step = "clear", !.todo = marker]
      BY <3>2 DEF IInv, TypeOK, Recovery
    <3> QED BY <1>2, <3>1, <3>2 DEF RecoveryRead
  <2>2. TypeOK'
    BY <1>2, <2>1 DEF RecoveryRead, IInv, TypeOK, deviceVars, historyVars
  <2>3. MarkedAreDeleted' /\ PageConfirmed' /\ RecoveryConfirmed'
    BY <1>2, <2>1 DEF RecoveryRead, IInv, MarkedAreDeleted, PageConfirmed, RecoveryConfirmed,
       Confirmed, Cleaned, deviceVars, historyVars
  <2> QED BY <2>2, <2>3 DEF IInv
<1>3. CASE RecoveryComplete
  BY <1>3 DEF RecoveryComplete, IInv, TypeOK, MarkedAreDeleted, PageConfirmed,
     RecoveryConfirmed, Page, Recovery, Confirmed, Cleaned, historyVars
<1> QED BY <1>1, <1>2, <1>3

(* What was read stays confirmed while it is worked off.                   *)
LEMMA RecoverySteps ==
    ASSUME IInv, NEW u \in Users, RecoveryClear(u) \/ RecoveryFails(u)
    PROVE  IInv'
<1>1. CASE RecoveryClear(u)
  BY <1>1, NoneAssumption DEF RecoveryClear, IInv, TypeOK, MarkedAreDeleted, PageConfirmed,
     RecoveryConfirmed, Page, Recovery, Confirmed, Cleaned, historyVars
<1>2. CASE RecoveryFails(u)
  BY <1>2, NoneAssumption DEF RecoveryFails, IInv, TypeOK, MarkedAreDeleted, PageConfirmed,
     RecoveryConfirmed, Page, Recovery, Confirmed, Cleaned, deviceVars, historyVars
<1> QED BY <1>1, <1>2

(* Every step, and every stutter, keeps the invariant.                     *)
LEMMA NextIInv == IInv /\ [Next]_vars => IInv'
<1> SUFFICES ASSUME IInv, [Next]_vars PROVE IInv'
  OBVIOUS
<1>1. CASE \E u \in Users : SignIn(u) \/ SaveEnds(u)
  BY <1>1, AccountSteps
<1>2. CASE SessionEnds \/ StartSave
  <2>1. Users # {}
    BY <1>2 DEF SessionEnds, StartSave, IInv, TypeOK
  <2> QED BY <1>2, <2>1, AccountSteps
<1>3. CASE \/ StartWithdrawal \/ RemoteDelete \/ DeleteRefused \/ Mark
           \/ Clear \/ ClearFails \/ Complete \/ SignOut
  BY <1>3, PageSteps
<1>4. CASE \E u \in Users : RecoveryClear(u) \/ RecoveryFails(u)
  BY <1>4, RecoverySteps
<1>5. CASE Restart \/ RecoveryRead \/ RecoveryComplete
  BY <1>5, StartSteps
<1>6. CASE UNCHANGED vars
  BY <1>6 DEF vars, deviceVars, historyVars, IInv, TypeOK, MarkedAreDeleted, PageConfirmed,
     RecoveryConfirmed, Page, Recovery, Confirmed, Cleaned
<1> QED BY <1>1, <1>2, <1>3, <1>4, <1>5, <1>6 DEF Next

(* The invariant of every withdrawal on every device.                      *)
THEOREM WithdrawalInvariance == Spec => []IInv
<1> QED BY InitIInv, NextIInv, PTL DEF Spec

(* No marker names an account that still exists, unless the DELETE was     *)
(* repeated under another account (withdrawAccount).                       *)
THEOREM OnlyConfirmedMarked == Spec => []MarkedAreDeleted
<1>1. IInv => MarkedAreDeleted
  BY DEF IInv
<1> QED BY <1>1, WithdrawalInvariance, PTL

(* No step deletes the records of an account that still exists, with the   *)
(* same exception.                                                         *)
THEOREM RecordsOutliveDoubt == Spec => OnlyDeletedCleared
<1>1. IInv /\ [Next]_vars
         => [\A u \in Users : u \in kept /\ u \notin kept' => Confirmed(u)]_vars
  <2> SUFFICES ASSUME IInv, Next, NEW u \in Users, u \in kept, u \notin kept'
               PROVE  Confirmed(u)
    OBVIOUS
  <2>1. CASE Clear
    BY <2>1 DEF Clear, IInv, PageConfirmed
  <2>2. CASE \E v \in Users : RecoveryClear(v)
    BY <2>2 DEF RecoveryClear, IInv, RecoveryConfirmed
  <2>3. CASE ~Clear /\ ~(\E v \in Users : RecoveryClear(v))
    BY <2>3 DEF Next, SignIn, SaveEnds, SessionEnds, StartSave, StartWithdrawal, RemoteDelete,
       DeleteRefused, Mark, ClearFails, Complete, SignOut, Restart, RecoveryRead,
       RecoveryComplete, RecoveryFails, deviceVars
  <2> QED BY <2>1, <2>2, <2>3
<1> QED BY <1>1, WithdrawalInvariance, PTL DEF Spec, OnlyDeletedCleared, Confirmed

(* A marker goes only after the records it stands for.                     *)
THEOREM MarkerGoesLast == Spec => MarkerOutlivesRecords
<1>1. IInv /\ [Next]_vars
         => [\A u \in Users : u \in marker /\ u \notin marker' => u \notin kept \/ u \in late]_vars
  <2> SUFFICES ASSUME IInv, Next, NEW u \in Users, u \in marker, u \notin marker'
               PROVE  u \notin kept \/ u \in late
    OBVIOUS
  <2>1. CASE Complete
    BY <2>1 DEF Complete, IInv, PageConfirmed, Cleaned
  <2>2. CASE RecoveryComplete
    BY <2>2 DEF RecoveryComplete, IInv, RecoveryConfirmed, Cleaned
  <2>3. CASE ~Complete /\ ~RecoveryComplete
    BY <2>3 DEF Next, SignIn, SaveEnds, SessionEnds, StartSave, StartWithdrawal, RemoteDelete,
       DeleteRefused, Mark, Clear, ClearFails, SignOut, Restart, RecoveryRead,
       RecoveryClear, RecoveryFails, deviceVars
  <2> QED BY <2>1, <2>2, <2>3
<1> QED BY <1>1, WithdrawalInvariance, PTL DEF Spec, MarkerOutlivesRecords

=============================================================================
