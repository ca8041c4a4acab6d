-------------------------- MODULE SessionLifecycle --------------------------
(***************************************************************************)
(* What the refresh-token table promises about login sessions.  A session  *)
(* is a rotation family: it is opened once, has exactly one token that can *)
(* be exchanged while it is open, each exchange replaces that token by one *)
(* never used before, and once ended it never comes back.                  *)
(***************************************************************************)
CONSTANTS Families, Tokens, None

VARIABLES phase,     \* phase[f]: "new", "open" or "ended"
          current,   \* current[f]: the one exchangeable token, or None
          spent      \* every token ever handed out, the current ones too

vars == <<phase, current, spent>>

Init ==
    /\ phase = [f \in Families |-> "new"]
    /\ current = [f \in Families |-> None]
    /\ spent = {}

Open(f, t) ==
    /\ phase[f] = "new"
    /\ t \notin spent
    /\ phase' = [phase EXCEPT ![f] = "open"]
    /\ current' = [current EXCEPT ![f] = t]
    /\ spent' = spent \cup {t}

Exchange(f, t) ==
    /\ phase[f] = "open"
    /\ t \notin spent
    /\ current' = [current EXCEPT ![f] = t]
    /\ spent' = spent \cup {t}
    /\ UNCHANGED phase

\* A logout, a detected reuse or a deleted account ends several at once.
End(S) ==
    /\ \A f \in S : phase[f] = "open"
    /\ phase' = [f \in Families |-> IF f \in S THEN "ended" ELSE phase[f]]
    /\ current' = [f \in Families |-> IF f \in S THEN None ELSE current[f]]
    /\ UNCHANGED spent

Next ==
    \/ \E f \in Families, t \in Tokens : Open(f, t) \/ Exchange(f, t)
    \/ \E S \in SUBSET Families : End(S)

Spec == Init /\ [][Next]_vars

=============================================================================
