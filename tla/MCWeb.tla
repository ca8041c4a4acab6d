------------------------------- MODULE MCWeb -------------------------------
(***************************************************************************)
(* An instance of Web for TLC.                                             *)
(***************************************************************************)
EXTENDS Web, TLC

CONSTANTS t1, t2, u1, u2, s1, s2


\* Sessions are begun in order.
NewIdsInOrder == session[s2].user # None => session[s1].user # None

OneRefresh == \A s \in Sessions : session[s].gen <= 2
NoLogins == \A t \in Tabs : tab[t].call["login"].pc = "idle" /\ session[s2].user = None
NoPages == \A t \in Tabs : tab[t].page = NoPage /\ tab[t].call["exit"].op \in {None, "logout"}
NothingSaved == rows[1] = NewRow
OneTab == tab[t2].status = "closed"
IsCreating(b) == b.page # NoPage /\ b.page.save = 0
IsEditing(b) == b.page.save > 0

SavedHere == NothingSaved \/ tab[t1].page.made # None

\* The instance is cut into scenes, each with the actors it needs.
Scenes ==
    \* two tabs of one session
    \/ NoPages /\ NoLogins /\ [rows[1] EXCEPT !.owner = "new"] = NewRow
    \* a tab that signs in and out, alone
    \/ OneRefresh /\ NoPages /\ NothingSaved /\ tab[t1].status = "closed"
    \* a tab that signs in beside another
    \/ /\ OneRefresh /\ NoPages /\ NothingSaved /\ expired = {}
       /\ tab[t1].call["login"].pc = "idle" /\ tab[t2].call["exit"].pc = "idle"
    \* a tab beside which another signs in overwrites its cookie, and is used
    \/ /\ \A t \in Tabs : tab[t].page = NoPage
       /\ NothingSaved /\ raced = {} /\ reused = {} /\ expired \subseteq {<<s2, 1>>}
       /\ session[s2].gen <= 1
       /\ tab[t1].call["login"].pc = "idle" /\ tab[t1].call["exit"].pc = "idle"
       /\ tab[t2].call["exit"].op \in {None, "clear"} /\ ~tab[t2].out
    \* a record is created while its tab signs out, withdraws, clears the records
    \/ OneRefresh /\ OneTab /\ NoLogins /\ IsCreating(tab[t1]) /\ SavedHere
    \* a record is edited
    \/ OneRefresh /\ OneTab /\ NoLogins /\ IsEditing(tab[t1]) /\ tab[t1].call["exit"].pc = "idle"
    \* a record is created while another tab clears the records
    \/ /\ NoLogins /\ IsCreating(tab[t1]) /\ tab[t1].call["exit"].pc = "idle" /\ SavedHere
       /\ tab[t1].page.note /\ ~tab[t1].page.place
       /\ tab[t2].page = NoPage /\ tab[t2].call["exit"].op \in {None, "clear"}
       /\ expired = {} /\ raced = {} /\ \A t \in Tabs : tab[t].refresh.pc = "none"
    \* two tabs edit one record
    \/ /\ NoLogins /\ expired = {} /\ raced = {} /\ tab[t2].page.save <= 1
       /\ \A t \in Tabs :
             /\ tab[t].page.made = None /\ tab[t].page.outcome # "error"
             /\ tab[t].call["old"].pc = "idle" /\ tab[t].call["exit"].pc = "idle"
             /\ tab[t].refresh.pc = "none"
    \* a record is created while another tab signs in
    \/ /\ OneRefresh /\ IsCreating(tab[t1]) /\ tab[t1].call["exit"].pc = "idle" /\ SavedHere
       /\ tab[t1].page.note /\ ~tab[t1].page.place /\ expired = {}
       /\ tab[t2].page = NoPage /\ tab[t2].call["exit"].pc = "idle" /\ tab[t2].refresh.pc = "none"

Symmetry == Permutations(Users)

=============================================================================
