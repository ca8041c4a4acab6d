------------------------------ MODULE MCRecords ------------------------------
(***************************************************************************)
(* An instance of Records for TLC: the regions of three places, and the    *)
(* scenes the instance is cut into.                                        *)
(***************************************************************************)
EXTENDS Records

CONSTANTS u1, u2, r1, r2, p1, p2, p3, v1, v2

Item(a, s, la, ls) ==
    [named |-> TRUE, area |-> a, sigungu |-> s, legalArea |-> la, legalSigungu |-> ls]
Short(d) == [area |-> None, district |-> d]

\* A row without a name and a place in Gwangju, a place in Jeonnam, which share
\* legal area 12; KTO does not know content 4.
TheItems ==
    <<[Item(None, None, "12", Short("210")) EXCEPT !.named = FALSE],
      Item(None, None, "12", Short("210")),
      Item("38", "9", "12", [area |-> "12", district |-> "170"])>>
TheImages ==
    [decodes : BOOLEAN, format : {"jpeg", "webp", "png"}, side : {0, 4096, 4097},
     meta : {"none", "icc", "exif", "xmp"}]

\* Requests are interchangeable.
Symmetry == Permutations(Requests)

InOrder(S, a, b) == {a, b} \subseteq S \/ b \notin S
NewIdsInOrder ==
    /\ InOrder({r \in Records : owner[r] # "new"}, r1, r2)
    /\ InOrder(used, p1, p2) /\ InOrder(used, p2, p3) /\ InOrder(used, v1, v2)

\* Bound: a behaviour has texts and one photo, photos of two records, or
\* places, and a second user in one of them only.
Ops2 == {task[q].op : q \in Requests}
Uses(ops) == Ops2 \cap ops # {}
Second(u) == \E q \in Requests : task[q].user = u

Texts ==
    /\ used \subseteq {p1} /\ owner[r2] = "new"
    /\ ~Uses({"addPlace"}) /\ owner[r1] # u2
PhotosOnly ==
    /\ \A r \in Records : entries[r] = {}
    /\ \A p \in photos : p.day = 1
    /\ used \cap Visits = {} /\ owner[r1] # u2 /\ owner[r2] # u2
    /\ ~Second(u2) /\ ~Uses({"upsertEntry", "deleteEntry", "addPlace", "update", "get"})
    /\ \A q \in Requests : task[q].day \in {1, None}
PlacesOnly ==
    /\ \A r \in Records : entries[r] = {}
    /\ photos = {} /\ used \cap Photos = {} /\ owner[r1] # u2 /\ owner[r2] = "new"
    /\ ~Second(u2) /\ ~Uses({"upsertEntry", "deleteEntry", "addPhoto", "update", "get", "deleteAll"})

Scenes == Texts \/ PhotosOnly \/ PlacesOnly

=============================================================================
