----------------------------- MODULE MCAccounts -----------------------------
(***************************************************************************)
(* Instances of Accounts for TLC.                                          *)
(***************************************************************************)
EXTENDS Accounts, TLC

CONSTANTS u1, u2, k1, k2

\* Users and grants are interchangeable: they are used in a fixed order.
NewIdsInOrder ==
    /\ user[u2] # "new" => user[u1] # "new"
    /\ grant[k2].holder # None => grant[k1].holder # None

\* Bound: the steps of a Kakao user are a part of those of an Apple user, so
\* requests overlap only for Apple's.
KakaoAlone ==
    \A r, s \in Requests :
        r # s /\ req[r].identity \in Identities \ Apple => req[s].step = "idle"

\* Bound: Apple sends notifications of one kind.
OneNotice == Cardinality(notices) <= 1

=============================================================================
