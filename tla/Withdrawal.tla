----------------------------- MODULE Withdrawal -----------------------------
(***************************************************************************)
(* Leaving the service on the mobile app: the server deletes the account   *)
(* first, then the device deletes the records of that account, with a      *)
(* marker in the secure store that lets the next start of the app finish   *)
(* what was not done.  withdrawAccount, recoverPendingWithdrawalCleanup    *)
(* and the serialized marker storage are modelled with every failure they  *)
(* handle; the app may be killed at any step.                              *)
(***************************************************************************)
CONSTANTS Users,   \* accounts that sign in on this device
          None     \* no value

ASSUME NoneAssumption == None \notin Users

VARIABLES account,    \* account[u] on the server: "new", "live" or "deleted"
          session,    \* the account signed in on the device, or None
          kept,       \* accounts with records on the device
          saving,     \* accounts with a record that is being saved
          marker,     \* the pending cleanups in the secure store
          page,       \* withdrawAccount
          recovery,   \* recoverPendingWithdrawalCleanup of this start
          late,       \* history: records saved after the account was confirmed deleted
          mistaken    \* history: accounts cleaned up for another's deletion

deviceVars == <<kept, saving, marker>>
historyVars == <<late, mistaken>>
vars == <<account, session, deviceVars, page, recovery, historyVars>>

Page == [step   : {"idle", "delete", "mark", "clear", "complete", "signout"},
         user   : Users \cup {None},
         as     : Users \cup {None},   \* whose access token the DELETE carries
         resent : BOOLEAN,
         marked : BOOLEAN]

Recovery == [step : {"idle", "read", "clear", "complete"},
             user : Users \cup {None},
             todo : SUBSET Users]

Closed == [step |-> "idle", user |-> None, as |-> None, resent |-> FALSE, marked |-> FALSE]
Asked(u) == [Closed EXCEPT !.step = "delete", !.user = u, !.as = u]
Rested == [step |-> "idle", user |-> None, todo |-> {}]

Init ==
    /\ account = [u \in Users |-> "new"]
    /\ session = None
    /\ kept = {} /\ saving = {} /\ marker = {}
    /\ page = Closed
    /\ recovery = [Rested EXCEPT !.step = "read"]
    /\ late = {} /\ mistaken = {}

(***************************************************************************)
(* Life before the withdrawal.                                             *)
(***************************************************************************)
SignIn(u) ==
    /\ session = None
    /\ account[u] # "deleted"
    /\ account' = [account EXCEPT ![u] = "live"]
    /\ session' = u
    /\ UNCHANGED <<deviceVars, page, recovery, historyVars>>

\* A logout, or a refused refresh: clearSession.
SessionEnds ==
    /\ session # None
    /\ session' = None
    /\ UNCHANGED <<account, deviceVars, page, recovery, historyVars>>

StartSave ==
    /\ session # None
    /\ saving' = saving \cup {session}
    /\ UNCHANGED <<account, session, kept, marker, page, recovery, historyVars>>

SaveEnds(u) ==
    /\ u \in saving
    /\ saving' = saving \ {u}
    /\ \/ /\ kept' = kept \cup {u}
          /\ late' = IF account[u] = "deleted" \/ u \in mistaken THEN late \cup {u} ELSE late
       \/ UNCHANGED <<kept, late>>
    /\ UNCHANGED <<account, session, marker, page, recovery, mistaken>>

(***************************************************************************)
(* withdrawAccount.                                                        *)
(***************************************************************************)
\* Mutant: the cleanup is scheduled before the server has answered.
StartWithdrawalMarked ==
    /\ page.step = "idle"
    /\ session # None
    /\ page' = Asked(session)
    /\ marker' = marker \cup {session}
    /\ UNCHANGED <<account, session, kept, saving, recovery, historyVars>>

\* Mutant: the owner key is not required to be a user's.
StartWithdrawalAnyOwner ==
    /\ page.step = "idle"
    /\ page' = Asked(session)
    /\ UNCHANGED <<account, session, deviceVars, recovery, historyVars>>

StartWithdrawal ==
    /\ page.step = "idle"
    /\ session # None
    /\ page' = Asked(session)
    /\ UNCHANGED <<account, session, deviceVars, recovery, historyVars>>

\* DELETE /users/me.  Without an answer the device keeps everything, even
\* if the server did delete the account that sent it.
RemoteDelete ==
    /\ page.step = "delete"
    /\ \/ /\ account[page.as] = "live"
          /\ account' = [account EXCEPT ![page.as] = "deleted"]
          /\ \/ /\ page' = [page EXCEPT !.step = "mark"]
                /\ mistaken' = IF page.as = page.user THEN mistaken ELSE mistaken \cup {page.user}
             \/ /\ page' = Closed
                /\ UNCHANGED mistaken
       \/ /\ page' = Closed
          /\ UNCHANGED <<account, mistaken>>
    /\ UNCHANGED <<session, deviceVars, recovery, late>>

\* A 401 (an expired token, a revoked session, a deleted account): the
\* DELETE is sent once more with the token of whatever session the device
\* holds by now.  Without one, or refused again, the session ends.
DeleteRefused ==
    /\ page.step = "delete"
    /\ \/ /\ ~page.resent
          /\ session # None
          /\ account[session] = "live"
          /\ page' = [page EXCEPT !.as = session, !.resent = TRUE]
          /\ UNCHANGED session
       \/ /\ page' = Closed
          /\ session' = None
    /\ UNCHANGED <<account, deviceVars, recovery, historyVars>>

\* A marker that cannot be written does not stop the cleanup.
Mark ==
    /\ page.step = "mark"
    /\ \/ /\ marker' = marker \cup {page.user}
          /\ page' = [page EXCEPT !.step = "clear", !.marked = TRUE]
       \/ /\ page' = [page EXCEPT !.step = "clear"]
          /\ UNCHANGED marker
    /\ UNCHANGED <<account, session, kept, saving, recovery, historyVars>>

Clear ==
    /\ page.step = "clear"
    /\ kept' = kept \ {page.user}
    /\ page' = [page EXCEPT !.step = IF page.marked THEN "complete" ELSE "signout"]
    /\ UNCHANGED <<account, session, saving, marker, recovery, historyVars>>

\* Mutant: the marker is removed whether or not the records were.
ClearFailsCompletes ==
    /\ page.step = "clear"
    /\ page' = [page EXCEPT !.step = IF page.marked THEN "complete" ELSE "signout"]
    /\ UNCHANGED <<account, session, deviceVars, recovery, historyVars>>

ClearFails ==
    /\ page.step = "clear"
    /\ page' = [page EXCEPT !.step = "signout"]
    /\ UNCHANGED <<account, session, deviceVars, recovery, historyVars>>

\* A marker that cannot be removed is left to the next start.
Complete ==
    /\ page.step = "complete"
    /\ marker' \in {marker, marker \ {page.user}}
    /\ page' = [page EXCEPT !.step = "signout"]
    /\ UNCHANGED <<account, session, kept, saving, recovery, historyVars>>

\* clearLocalSession, whatever became of the cleanup; its failure too is
\* only reported.
SignOut ==
    /\ page.step = "signout"
    /\ session' \in {None, session}
    /\ page' = Closed
    /\ UNCHANGED <<account, deviceVars, recovery, historyVars>>

(***************************************************************************)
(* The start of the app.                                                   *)
(***************************************************************************)
\* Mutant: the app does not look for markers.
RestartOnly ==
    /\ page' = Closed
    /\ recovery' = Rested
    /\ saving' = {}
    /\ UNCHANGED <<account, session, kept, marker, historyVars>>

\* The app is killed and started again.
Restart ==
    /\ page' = Closed
    /\ recovery' = [Rested EXCEPT !.step = "read"]
    /\ saving' = {}
    /\ UNCHANGED <<account, session, kept, marker, historyVars>>

RecoveryRead ==
    /\ recovery.step = "read"
    /\ recovery' \in {[recovery EXCEPT !.step = "clear", !.todo = marker], Rested}
    /\ UNCHANGED <<account, session, deviceVars, page, historyVars>>

RecoveryClear(u) ==
    /\ recovery.step = "clear"
    /\ u \in recovery.todo
    /\ kept' = kept \ {u}
    /\ recovery' = [step |-> "complete", user |-> u, todo |-> recovery.todo \ {u}]
    /\ UNCHANGED <<account, session, saving, marker, page, historyVars>>

\* The account is left to the next start, the others are still cleaned.
RecoveryFails(u) ==
    /\ recovery.step = "clear"
    /\ u \in recovery.todo
    /\ recovery' = [recovery EXCEPT !.todo = @ \ {u}]
    /\ UNCHANGED <<account, session, deviceVars, page, historyVars>>

RecoveryComplete ==
    /\ recovery.step = "complete"
    /\ marker' \in {marker, marker \ {recovery.user}}
    /\ recovery' = [recovery EXCEPT !.step = "clear", !.user = None]
    /\ UNCHANGED <<account, session, kept, saving, page, historyVars>>

Next ==
    \/ \E u \in Users : SignIn(u) \/ SaveEnds(u)
    \/ SessionEnds \/ StartSave
    \/ StartWithdrawal \/ RemoteDelete \/ DeleteRefused \/ Mark \/ Clear \/ ClearFails \/ Complete \/ SignOut
    \/ Restart \/ RecoveryRead \/ RecoveryComplete
    \/ \E u \in Users : RecoveryClear(u) \/ RecoveryFails(u)

Spec == Init /\ [][Next]_vars

(***************************************************************************)
(* The calls run on, the app is started again and again, and among all its *)
(* starts one reads the markers and deletes the records without being      *)
(* killed or refused.                                                      *)
(***************************************************************************)
FairSpec ==
    /\ Spec
    /\ WF_vars(Restart)
    /\ SF_vars(RecoveryRead /\ recovery'.step = "clear")
    /\ \A u \in Users : SF_vars(RecoveryClear(u))

-----------------------------------------------------------------------------
(* Type correctness of the device and the server.                          *)
TypeOK ==
    /\ account \in [Users -> {"new", "live", "deleted"}]
    /\ session \in Users \cup {None}
    /\ kept \subseteq Users /\ saving \subseteq Users /\ marker \subseteq Users
    /\ page \in Page /\ (page.step # "idle" => page.user \in Users /\ page.as \in Users)
    /\ recovery \in Recovery /\ (recovery.step = "complete" => recovery.user \in Users)
    /\ late \subseteq Users /\ mistaken \subseteq Users

(* Only a confirmed deletion is scheduled for cleanup: no start of the app *)
(* finds the marker of an account that still exists (withdrawAccount keeps *)
(* session and records until the server has answered), unless the DELETE   *)
(* was repeated for another account that had signed in meanwhile.          *)
MarkedAreDeleted == \A u \in marker : account[u] = "deleted" \/ u \in mistaken

(* With the same exception, neither the withdrawal nor its recovery ever   *)
(* deletes the records of an account that still exists, whatever is killed *)
(* or fails in between.                                                    *)
OnlyDeletedCleared ==
    [][\A u \in Users : u \in kept /\ u \notin kept' => account[u] = "deleted" \/ u \in mistaken]_vars

(* A marker is taken away only when the records it stands for are gone;    *)
(* a save that was still running may have added one since.                 *)
MarkerOutlivesRecords ==
    [][\A u \in Users : u \in marker /\ u \notin marker' => u \notin kept \/ u \in late]_vars

-----------------------------------------------------------------------------
\* An account whose deletion the server has confirmed to the page.
Confirmed(u) == account[u] = "deleted" \/ u \in mistaken
Cleaned(u) == u \notin kept \/ u \in late

\* What the page and the recovery hold of an account, at each of their steps.
PageConfirmed ==
    /\ page.step \in {"mark", "clear", "complete", "signout"} => Confirmed(page.user)
    /\ page.step = "complete" => Cleaned(page.user)

RecoveryConfirmed ==
    /\ \A u \in recovery.todo : Confirmed(u)
    /\ recovery.step = "complete" => Confirmed(recovery.user) /\ Cleaned(recovery.user)

(* The invariant behind them, inductive: everything that is marked, or on  *)
(* its way to be, belongs to a confirmed deletion, and who is about to     *)
(* remove a marker has removed the records.                                *)
IInv == TypeOK /\ MarkedAreDeleted /\ PageConfirmed /\ RecoveryConfirmed

(* What is scheduled is done: the records of a marked account are deleted  *)
(* in the end, however often cleanup and marker storage fail, unless a     *)
(* save that was still running has added one.                              *)
MarkedAreCleared == \A u \in Users : u \in marker ~> u \notin kept \/ u \in late

(* Until the server has confirmed the deletion of an account, the device   *)
(* keeps its records (the comment in withdrawAccount; docs/10, account     *)
(* withdrawal).                                                            *)
ConfirmedBeforeCleanup ==
    [][\A u \in Users : u \in kept /\ u \notin kept' => account[u] = "deleted"]_vars

=============================================================================
