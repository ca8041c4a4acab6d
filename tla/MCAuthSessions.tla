--------------------------- MODULE MCAuthSessions ---------------------------
(***************************************************************************)
(* Instances of AuthSessions for TLC.  Requests are interchangeable, and   *)
(* no property speaks of what must come about, so their symmetry is sound. *)
(* So are the ids; the larger run explores only the behaviours that use    *)
(* new ids in a fixed order, which costs less than their symmetry: every   *)
(* behaviour is one of those up to renaming, and no property names an id.  *)
(***************************************************************************)
EXTENDS AuthSessions, TLC

CONSTANTS u1, u2, f1, f2, t1, t2, t3, t4

RequestSymmetry == Permutations(Requests)

Symmetry ==
    Permutations(Users) \cup Permutations(Families)
        \cup Permutations(Tokens) \cup RequestSymmetry

InOrder(used, a, b) == {a, b} \subseteq used \/ b \notin used

NewIdsInOrder ==
    LET users == {u \in Users : user[u] # "new"}
        families == {f \in Families : ~FreshFamily(f)}
        tokens == {t \in Tokens : status[t] # "unused"}
    IN  /\ InOrder(users, u1, u2)
        /\ InOrder(families, f1, f2)
        /\ InOrder(tokens, t1, t2) /\ InOrder(tokens, t2, t3) /\ InOrder(tokens, t3, t4)

\* Bound: only the second row that is used, a rotation's replacement or the
\* row of another login, expires.
SecondExpires == expired \subseteq {t2}

=============================================================================
