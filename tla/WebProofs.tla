----------------------------- MODULE WebProofs -----------------------------
(***************************************************************************)
(* Proofs about Web, for any sets of tabs, users, sessions and records, any *)
(* number of photos, saves and refresh tokens of a session.                 *)
(***************************************************************************)
EXTENDS Web, TLAPS

USE WebAssumption

(***************************************************************************)
(* Values.                                                                 *)
(***************************************************************************)
LEMMA Constants ==
  /\ None \in Tokens /\ NoCall \in Call /\ NoRefresh \in Refresh /\ NoPage \in Page
  /\ NewRow \in Row /\ Mounted \in Tab /\ Closed \in Tab
  <1>1. None \in Tokens
    BY DEF Tokens
  <1>2. NoCall \in Call
    BY <1>1 DEF NoCall, Call, Days
  <1>3. NoRefresh \in Refresh
    BY <1>1 DEF NoRefresh, Refresh
  <1>4. NoPage \in Page
    BY DEF NoPage, Page
  <1>5. NewRow \in Row
    BY DEF NewRow, Row
  <1>6. Mounted \in Tab
    <2>1. [NoCall EXCEPT !.pc = "sent", !.op = "profile"] \in Call
      BY Zenon, <1>2 DEF Call, Ops
    <2>2. QED
      BY <1>1, <1>2, <1>3, <1>4, <2>1 DEF Mounted, Tab
  <1>7. Closed \in Tab
    BY Zenon, <1>2, <1>6 DEF Closed, Tab
  <1>8. QED
    BY <1>1, <1>2, <1>3, <1>4, <1>5, <1>6, <1>7

\* A token is a session and a number.
LEMMA TokenParts ==
  ASSUME NEW k \in Tokens, k # None
  PROVE  k[1] \in Sessions /\ k[2] \in 1 .. MaxGen /\ k = <<k[1], k[2]>>
  BY DEF Tokens

\* The converse: a session and a number are a token.
LEMMA Pairs ==
  ASSUME NEW s \in Sessions, NEW n \in 1 .. MaxGen
  PROVE  <<s, n>> \in Tokens /\ <<s, n>> # None /\ <<s, n>>[1] = s /\ <<s, n>>[2] = n
  BY DEF Tokens

\* The slots of a tab and what each of them calls.
LEMMA SlotNames ==
  /\ Slots = {"profile", "login", "exit", "page", "old", "day1", "day2"}
  /\ \A c \in Slots : OpsOf[c] \subseteq Ops
  /\ OpsOf["profile"] = {"profile"} /\ OpsOf["login"] = {"login"}
  /\ OpsOf["exit"] = {"logout", "withdraw", "clear"} /\ OpsOf["page"] = PageOps \ {"write"}
  /\ OpsOf["old"] = {"write"} /\ OpsOf["day1"] = {"write"} /\ OpsOf["day2"] = {"write"}
  <1>1. Slots = {"profile", "login", "exit", "page", "old", "day1", "day2"}
    BY DEF Slots, Days
  <1>2. /\ OpsOf["profile"] = {"profile"} /\ OpsOf["login"] = {"login"}
        /\ OpsOf["exit"] = {"logout", "withdraw", "clear"} /\ OpsOf["page"] = PageOps \ {"write"}
        /\ OpsOf["old"] = {"write"} /\ OpsOf["day1"] = {"write"} /\ OpsOf["day2"] = {"write"}
    BY <1>1 DEF OpsOf
  <1>3. \A c \in Slots : OpsOf[c] \subseteq Ops
    BY <1>1, <1>2 DEF Ops, PageOps
  <1>4. QED
    BY <1>1, <1>2, <1>3

(***************************************************************************)
(* The tab of which a call has just ended.                                 *)
(***************************************************************************)
Without(b, c) == [b EXCEPT !.call[c] = NoCall]

\* The other slots and fields of a tab stay when one slot is emptied.
LEMMA WithoutTab ==
  ASSUME NEW b \in Tab, NEW c \in Slots
  PROVE  /\ Without(b, c) \in Tab
         /\ Without(b, c).call[c] = NoCall
         /\ \A x \in Slots \ {c} : Without(b, c).call[x] = b.call[x]
         /\ Without(b, c).status = b.status /\ Without(b, c).shown = b.shown
         /\ Without(b, c).access = b.access /\ Without(b, c).refresh = b.refresh
         /\ Without(b, c).page = b.page /\ Without(b, c).slips = b.slips /\ Without(b, c).out = b.out
  BY Constants DEF Without, Tab

\* Emptying a slot whose call neither waits nor is a page's keeps the calls of a
\* tab in order.
LEMMA WithoutCalls ==
  ASSUME NEW b \in Tab, NEW c \in Slots, CallsOK(b), b.call[c].pc # "refresh"
  PROVE  CallsOK(Without(b, c))
  <1> DEFINE B == Without(b, c)
  <1>1. /\ B \in Tab /\ B.call[c] = NoCall /\ B.refresh = b.refresh
        /\ \A x \in Slots \ {c} : B.call[x] = b.call[x]
    BY WithoutTab
  <1> HIDE DEF B
  <1>2. \A x \in Slots : CallOK(B, x)
    <2> SUFFICES ASSUME NEW x \in Slots PROVE CallOK(B, x)
      OBVIOUS
    <2>1. CASE x = c
      BY <1>1, <2>1 DEF CallOK, NoCall
    <2>2. CASE x # c
      BY <1>1, <2>2 DEF CallOK, CallsOK
    <2>3. QED
      BY <2>1, <2>2
  <1>3. B.refresh.pc # "none" => \E x \in Slots : B.call[x].pc = "refresh"
    <2> SUFFICES ASSUME B.refresh.pc # "none" PROVE \E x \in Slots : B.call[x].pc = "refresh"
      OBVIOUS
    <2>1. PICK x \in Slots : b.call[x].pc = "refresh"
      BY <1>1 DEF CallsOK
    <2>2. x # c
      BY <2>1
    <2>3. QED
      BY <1>1, <2>1, <2>2
  <1>4. QED
    BY <1>1, <1>2, <1>3 DEF CallsOK, B

\* The calls of the page have ended; its next step is about to be made.
PageFree(b) ==
    /\ b \in Tab /\ CallsOK(b) /\ MountOK(b) /\ b.status # "closed"
    /\ b.call["page"].pc = "idle" /\ b.call["login"].pc = "idle"
    /\ b.call["profile"].pc = "idle" \/ "mount" \in b.slips
    /\ b.page.save > 0 /\ b.page.alone => b.call["old"].pc = "idle"
    /\ \E d \in Days : b.call[d].pc = "idle"

\* What Sent puts into a slot.
LEMMA SentCall ==
  ASSUME NEW b \in Tab, NEW op \in Ops
  PROVE  /\ Sent(b, op) \in Call /\ Sent(b, op).pc = "sent" /\ Sent(b, op).op = op
         /\ Sent(b, op).token = b.access /\ Sent(b, op).cookie = None /\ Sent(b, op).rec = b.page.rec
  <1>1. b.access \in Tokens /\ b.page.rec \in Records \cup {None}
    BY DEF Tab, Page
  <1>2. NoCall \in Call /\ NoCall.cookie = None
    BY Constants DEF NoCall
  <1>3. QED
    BY Zenon, <1>1, <1>2 DEF Sent, Call

\* A tab that differs from b in its page and in calls that have been sent.
LEMMA SentTab ==
  ASSUME NEW b, PageFree(b), NEW R \in Tab,
         R.status = b.status /\ R.access = b.access /\ R.refresh = b.refresh /\ R.slips = b.slips,
         \A c \in Slots :
             \/ R.call[c] = b.call[c]
             \/ /\ c \notin {"profile", "login"} /\ b.call[c].pc = "idle"
                /\ R.call[c].pc = "sent" /\ R.call[c].op \in OpsOf[c]
                /\ R.call[c].op = "write" => R.call[c].rec # None /\ R.call[c].save > 0
  PROVE  CallsOK(R) /\ MountOK(R)
  <1>1. \A c \in Slots : CallOK(R, c)
    <2> SUFFICES ASSUME NEW c \in Slots PROVE CallOK(R, c)
      OBVIOUS
    <2>1. CASE R.call[c] = b.call[c]
      BY <2>1 DEF CallOK, CallsOK, PageFree
    <2>2. CASE R.call[c] # b.call[c]
      BY <2>2 DEF CallOK
    <2>3. QED
      BY <2>1, <2>2
  <1>2. R.refresh.pc # "none" => \E c \in Slots : R.call[c].pc = "refresh"
    <2> SUFFICES ASSUME R.refresh.pc # "none" PROVE \E c \in Slots : R.call[c].pc = "refresh"
      OBVIOUS
    <2>1. PICK c \in Slots : b.call[c].pc = "refresh"
      BY DEF CallsOK, PageFree
    <2>2. R.call[c] = b.call[c]
      BY <2>1
    <2>3. QED
      BY <2>1, <2>2
  <1>3. CallsOK(R)
    BY <1>1, <1>2 DEF CallsOK, PageFree
  <1>4. MountOK(R)
    <2>1. "profile" \in Slots /\ "login" \in Slots
      BY SlotNames
    <2>2. R.call["profile"] = b.call["profile"] /\ R.call["login"].pc = "idle"
      BY <2>1 DEF PageFree
    <2>3. QED
      BY <2>2 DEF MountOK, PageFree
  <1>5. QED
    BY <1>3, <1>4

\* Step sends the call of a page's next step.
LEMMA StepTab ==
  ASSUME NEW b, PageFree(b), NEW op \in PageOps \ {"write"},
         PageOK([b.page EXCEPT !.step = op]),
         op = "update" => \A d \in Days : b.call[d].pc = "idle"
  PROVE  /\ Step(b, op) \in Tab /\ TabOK(Step(b, op))
         /\ Step(b, op).page = [b.page EXCEPT !.step = op]
         /\ Step(b, op).call["page"].op = op /\ Step(b, op).call["page"].token = b.access
         /\ Step(b, op).call["page"].cookie = None /\ Step(b, op).call["page"].pc = "sent"
         /\ \A x \in Slots \ {"page"} : Step(b, op).call[x] = b.call[x]
         /\ Step(b, op).status = b.status /\ Step(b, op).shown = b.shown
         /\ Step(b, op).access = b.access /\ Step(b, op).refresh = b.refresh
         /\ Step(b, op).slips = b.slips /\ Step(b, op).out = b.out
  <1> DEFINE R == Step(b, op)  k == Sent(b, op)
  <1>1. b \in Tab /\ "page" \in Slots /\ op \in Ops
    BY SlotNames DEF PageFree, Ops
  <1>2. /\ k \in Call /\ k.pc = "sent" /\ k.op = op /\ k.token = b.access /\ k.cookie = None
        /\ k.rec = b.page.rec
    BY <1>1, SentCall
  <1>3. /\ R \in Tab /\ R.page = [b.page EXCEPT !.step = op]
        /\ R.call = [b.call EXCEPT !["page"] = k]
        /\ R.status = b.status /\ R.shown = b.shown /\ R.access = b.access
        /\ R.refresh = b.refresh /\ R.slips = b.slips /\ R.out = b.out
    BY ZenonT(60), <1>1, <1>2 DEF Step, Tab, Page
  <1>4. R.call["page"] = k /\ \A x \in Slots \ {"page"} : R.call[x] = b.call[x]
    BY <1>1, <1>3 DEF Tab
  <1> HIDE DEF R, k
  <1>5. CallsOK(R) /\ MountOK(R)
    <2>1. "page" \notin {"profile", "login"} /\ op \in OpsOf["page"] /\ op # "write"
      BY SlotNames
    <2>2. b.call["page"].pc = "idle"
      BY DEF PageFree
    <2>3. \A c \in Slots :
             \/ R.call[c] = b.call[c]
             \/ /\ c \notin {"profile", "login"} /\ b.call[c].pc = "idle"
                /\ R.call[c].pc = "sent" /\ R.call[c].op \in OpsOf[c]
                /\ R.call[c].op = "write" => R.call[c].rec # None /\ R.call[c].save > 0
      BY <1>2, <1>4, <2>1, <2>2
    <2>4. R \in Tab /\ R.status = b.status /\ R.access = b.access /\ R.refresh = b.refresh /\ R.slips = b.slips
      BY <1>3
    <2>5. QED
      BY ONLY PageFree(b), <2>3, <2>4, SentTab
  <1>6. PageOK(R.page)
    BY <1>3
  <1>7. /\ R.page.step = op /\ R.page.rec = b.page.rec /\ R.page.save = b.page.save
        /\ R.page.alone = b.page.alone /\ R.page.outcome = b.page.outcome /\ op # "days" /\ op # "idle"
        /\ R.page.outcome = None
    <2>1. b.page \in Page
      BY <1>1 DEF Tab
    <2>2. /\ R.page.step = op /\ R.page.rec = b.page.rec /\ R.page.save = b.page.save
          /\ R.page.alone = b.page.alone /\ R.page.outcome = b.page.outcome
      BY <2>1, <1>3 DEF Page
    <2>3. op # "days" /\ op # "idle"
      BY DEF PageOps
    <2>4. QED
      BY <2>2, <2>3, <1>6 DEF PageOK
  <1>8. PageCallsOK(R)
    <2>1. \A x \in {"old", "day1", "day2"} : R.call[x] = b.call[x]
      BY <1>4, SlotNames
    <2>2. R.page.save > 0 /\ R.page.alone => R.call["old"].pc = "idle"
      BY <1>7, <2>1 DEF PageFree
    <2>3. op = "update" => \A d \in Days : R.call[d].pc = "idle"
      BY <2>1 DEF Days
    <2>4. \E d \in Days : R.call[d].pc = "idle"
      BY <2>1 DEF PageFree, Days
    <2>5. QED
      BY <1>2, <1>4, <1>7, <2>2, <2>3, <2>4 DEF PageCallsOK
  <1>9. QED
    BY <1>2, <1>3, <1>4, <1>5, <1>6, <1>8 DEF TabOK, R

\* A tab with another page is a tab.
LEMMA WithPage ==
  ASSUME NEW b \in Tab, NEW q \in Page, NEW R, R = [b EXCEPT !.page = q]
  PROVE  /\ R \in Tab /\ R.page = q /\ R.call = b.call
         /\ R.status = b.status /\ R.shown = b.shown /\ R.access = b.access
         /\ R.refresh = b.refresh /\ R.slips = b.slips /\ R.out = b.out
  BY DEF Tab

\* A tab whose page has no call can take any page.
LEMMA WithPageFree ==
  ASSUME NEW b, PageFree(b), NEW q \in Page, NEW R, R = [b EXCEPT !.page = q],
         q.save = b.page.save /\ q.alone = b.page.alone
  PROVE  PageFree(R)
  <1>1. /\ R \in Tab /\ R.page = q /\ R.call = b.call
        /\ R.status = b.status /\ R.shown = b.shown /\ R.access = b.access
        /\ R.refresh = b.refresh /\ R.slips = b.slips /\ R.out = b.out
    BY WithPage DEF PageFree
  <1>2. CallsOK(R) /\ MountOK(R)
    BY Zenon, <1>1, SentTab DEF PageFree
  <1>3. QED
    BY <1>1, <1>2 DEF PageFree

\* The page has ended, or is at work without a call.
LEMMA EndTab ==
  ASSUME NEW b, PageFree(b), NEW q \in Page, NEW R, R = [b EXCEPT !.page = q],
         q.save = b.page.save /\ q.alone = b.page.alone, q.step \in {"idle", "prepare"}, PageOK(q),
         q.save > 0 /\ q.outcome = "shown" => \A d \in Days : b.call[d].pc = "idle"
  PROVE  TabOK(R)
  <1>1. /\ R \in Tab /\ R.page = q /\ R.call = b.call
    BY WithPage DEF PageFree
  <1>2. CallsOK(R) /\ MountOK(R) /\ PageFree(R)
    BY WithPageFree DEF PageFree
  <1>3. q.step \notin PageOps /\ q.step \notin {"update", "days"}
    BY DEF PageOps
  <1>4. PageCallsOK(R)
    BY <1>1, <1>2, <1>3 DEF PageCallsOK, PageFree
  <1>5. QED
    BY <1>1, <1>2, <1>4 DEF TabOK

(***************************************************************************)
(* What the end of a call makes of the tab.  Nothing but the page's step,  *)
(* its progress and its calls changes.                                     *)
(***************************************************************************)
Same(b, R) ==
    /\ R \in Tab
    /\ R.status = b.status /\ R.shown = b.shown /\ R.access = b.access
    /\ R.refresh = b.refresh /\ R.slips = b.slips /\ R.out = b.out
    /\ R.page.user = b.page.user /\ R.page.rec = b.page.rec /\ R.page.made = b.page.made
    /\ R.page.note = b.page.note /\ R.page.place = b.page.place
    /\ R.page.save = b.page.save /\ R.page.alone = b.page.alone
    /\ R.call["login"] = b.call["login"]
    /\ \A c \in Slots : \/ R.call[c] = b.call[c]
                        \/ R.call[c].pc = "sent" /\ R.call[c].token = b.access /\ R.call[c].cookie = None

\* Step changes the page and its slot, nothing else, and keeps the tab in order.
LEMMA StepSame ==
  ASSUME NEW b, PageFree(b), NEW op \in PageOps \ {"write"},
         PageOK([b.page EXCEPT !.step = op]),
         op = "update" => \A d \in Days : b.call[d].pc = "idle"
  PROVE  /\ Same(b, Step(b, op)) /\ TabOK(Step(b, op))
         /\ Step(b, op).page = [b.page EXCEPT !.step = op]
  <1> DEFINE R == Step(b, op)
  <1>1. /\ R \in Tab /\ TabOK(R) /\ R.page = [b.page EXCEPT !.step = op]
        /\ R.call["page"].token = b.access /\ R.call["page"].cookie = None /\ R.call["page"].pc = "sent"
        /\ \A x \in Slots \ {"page"} : R.call[x] = b.call[x]
        /\ R.status = b.status /\ R.shown = b.shown /\ R.access = b.access
        /\ R.refresh = b.refresh /\ R.slips = b.slips /\ R.out = b.out
    BY StepTab
  <1> HIDE DEF R
  <1>2. b.page \in Page
    BY DEF PageFree, Tab
  <1>3. /\ R.page.user = b.page.user /\ R.page.rec = b.page.rec /\ R.page.made = b.page.made
        /\ R.page.note = b.page.note /\ R.page.place = b.page.place
        /\ R.page.save = b.page.save /\ R.page.alone = b.page.alone
    BY <1>1, <1>2 DEF Page
  <1>4. R.call["login"] = b.call["login"]
    BY <1>1, SlotNames
  <1>5. QED
    BY <1>1, <1>3, <1>4 DEF Same, R

\* So does the end of a page, or its wait for the browser.
LEMMA EndSame ==
  ASSUME NEW b, PageFree(b), NEW q \in Page, NEW R, R = [b EXCEPT !.page = q],
         q.step \in {"idle", "prepare"}, PageOK(q),
         q.save > 0 /\ q.outcome = "shown" => \A d \in Days : b.call[d].pc = "idle",
         /\ q.user = b.page.user /\ q.rec = b.page.rec /\ q.made = b.page.made
         /\ q.note = b.page.note /\ q.place = b.page.place
         /\ q.save = b.page.save /\ q.alone = b.page.alone
  PROVE  Same(b, R) /\ TabOK(R) /\ R.page = q
  <1>1. /\ R \in Tab /\ R.page = q /\ R.call = b.call
        /\ R.status = b.status /\ R.shown = b.shown /\ R.access = b.access
        /\ R.refresh = b.refresh /\ R.slips = b.slips /\ R.out = b.out
    BY WithPage DEF PageFree
  <1>2. TabOK(R)
    BY EndTab
  <1>3. QED
    BY <1>1, <1>2 DEF Same

\* The catch of submit keeps the tab in order.
LEMMA SubmitFailedTab ==
  ASSUME NEW b, PageFree(b), b.page.save = 0, b.page.outcome = None,
         b.page.rec # None => b.page.made = b.page.rec
  PROVE  /\ Same(b, SubmitFailed(b)) /\ TabOK(SubmitFailed(b))
         /\ SubmitFailed(b).page = IF b.page.rec = None
                                   THEN [b.page EXCEPT !.step = "idle", !.outcome = "error"]
                                   ELSE [b.page EXCEPT !.step = "cleanup"]
  <1> DEFINE p == b.page
             e == [p EXCEPT !.step = "idle", !.outcome = "error"]
             c == [p EXCEPT !.step = "cleanup"]
  <1>1. b \in Tab /\ p \in Page
    BY DEF PageFree, Tab
  <1>2. /\ e \in Page /\ e.step = "idle" /\ e.outcome = "error" /\ e.save = 0 /\ e.rec = p.rec
        /\ e.made = p.made /\ e.user = p.user /\ e.note = p.note /\ e.place = p.place /\ e.alone = p.alone
    BY Zenon, <1>1 DEF Page
  <1>3. /\ c.step = "cleanup" /\ c.outcome = None /\ c.save = 0 /\ c.rec = p.rec /\ c.made = p.made
    BY <1>1 DEF Page
  <1>4. CASE p.rec = None
    <2>1. SubmitFailed(b) = [b EXCEPT !.page = e]
      BY Zenon, <1>1, <1>4 DEF SubmitFailed, Finished, Tab, Page
    <2>2. PageOK(e)
      BY <1>2, <1>4 DEF PageOK
    <2>3. Same(b, SubmitFailed(b)) /\ TabOK(SubmitFailed(b)) /\ SubmitFailed(b).page = e
      <3> HIDE DEF e
      <3>1. QED
        BY <1>2, <2>1, <2>2, EndSame
    <2>4. QED
      BY <1>4, <2>3
  <1>5. CASE p.rec # None
    <2>1. SubmitFailed(b) = Step(b, "cleanup")
      BY <1>5 DEF SubmitFailed
    <2>2. PageOK(c)
      BY <1>3, <1>5 DEF PageOK
    <2>3. "cleanup" \in PageOps \ {"write"}
      BY DEF PageOps
    <2>4. QED
      BY <2>1, <2>2, <2>3, <1>5, StepSame
  <1>6. QED
    BY <1>4, <1>5

\* The page p after a failure of its call, and after a success.
AfterFailure(p, q) ==
    CASE p.step = "place" -> q = [p EXCEPT !.step = "get", !.synced = FALSE]
      [] p.step = "cleanup" -> q = [p EXCEPT !.step = "idle", !.outcome = "warned"]
      [] p.step = "update" -> q = [p EXCEPT !.step = "idle", !.outcome = "error"]
      [] OTHER -> q = IF p.rec = None THEN [p EXCEPT !.step = "idle", !.outcome = "error"]
                      ELSE [p EXCEPT !.step = "cleanup"]
AfterSuccess(p, q) ==
    /\ p.step = "entry" => q = [p EXCEPT !.step = "prepare"]
    /\ p.step = "photo" =>
          IF p.left - 1 > 0 THEN q = [p EXCEPT !.left = p.left - 1, !.step = "prepare"]
          ELSE q = [p EXCEPT !.left = p.left - 1, !.step = IF p.place THEN "place" ELSE "get"]
    /\ p.step = "place" => q = [p EXCEPT !.step = "get"]
    /\ p.step = "get" => q = [p EXCEPT !.step = "idle", !.outcome = "shown"]
    /\ p.step = "cleanup" => q = [p EXCEPT !.step = "idle", !.outcome = "error"]
    /\ p.step = "update" => q = [p EXCEPT !.step = "days"]

\* A failed call of a page keeps its tab in order, and says what becomes of the
\* page.
LEMMA PageFailedTab ==
  ASSUME NEW b, PageFree(b), PageOK(b.page), b.page.step \in PageOps
  PROVE  /\ Same(b, PageFailed(b)) /\ TabOK(PageFailed(b))
         /\ AfterFailure(b.page, PageFailed(b).page)
  <1> DEFINE p == b.page
  <1>1. b \in Tab /\ p \in Page
    BY DEF PageFree, Tab
  <1>2. CASE p.step = "place"
    <2> DEFINE q == [p EXCEPT !.synced = FALSE]  c == [b EXCEPT !.page = q]
               g == [q EXCEPT !.step = "get"]
    <2>1. q \in Page /\ q.save = p.save /\ q.alone = p.alone
      BY Zenon, <1>1 DEF Page
    <2>2. PageFree(c)
      BY Zenon, <2>1, WithPageFree
    <2>3. /\ g.step = "get" /\ g.save = p.save /\ g.rec = p.rec /\ g.made = p.made
          /\ g.left = p.left /\ g.outcome = p.outcome
      BY <1>1 DEF Page
    <2>4. PageOK(g)
      BY <1>2, <2>3, PageOK(p) DEF PageOK
    <2>5. c.page = q /\ c \in Tab /\ "get" \in PageOps \ {"write"}
      <3>1. "get" \in PageOps \ {"write"}
        BY DEF PageOps
      <3> HIDE DEF q
      <3>2. c.page = q /\ c \in Tab
        BY <2>1, <1>1 DEF Tab
      <3>3. QED
        BY <3>1, <3>2
    <2>6. Same(c, Step(c, "get")) /\ TabOK(Step(c, "get")) /\ Step(c, "get").page = g
      <3>1. PageOK([c.page EXCEPT !.step = "get"])
        BY <2>4, <2>5
      <3> HIDE DEF c
      <3>2. /\ Same(c, Step(c, "get")) /\ TabOK(Step(c, "get"))
            /\ Step(c, "get").page = [c.page EXCEPT !.step = "get"]
        BY Zenon, <2>2, <2>5, <3>1, StepSame
      <3>3. QED
        BY <2>5, <3>2
    <2>7. PageFailed(b) = Step(c, "get")
      <3>1. c = [b EXCEPT !.page.synced = FALSE]
        BY <1>1 DEF Tab
      <3>2. QED
        BY <3>1, <1>2 DEF PageFailed
    <2>8. g = [p EXCEPT !.step = "get", !.synced = FALSE]
      BY Zenon, <1>1 DEF Page
    <2>9. Same(b, Step(c, "get"))
      <3>1. /\ c.call = b.call /\ c.status = b.status /\ c.shown = b.shown /\ c.access = b.access
            /\ c.refresh = b.refresh /\ c.slips = b.slips /\ c.out = b.out
        BY <2>1, <1>1, WithPage
      <3>2. /\ q.user = p.user /\ q.rec = p.rec /\ q.made = p.made /\ q.note = p.note
            /\ q.place = p.place /\ q.save = p.save /\ q.alone = p.alone
        BY <1>1 DEF Page
      <3> HIDE DEF c, q
      <3>3. QED
        BY <3>1, <3>2, <2>5, <2>6 DEF Same
    <2>10. QED
      BY <1>2, <2>6, <2>7, <2>8, <2>9 DEF AfterFailure
  <1>3. CASE p.step \in {"cleanup", "update"}
    <2> DEFINE o == IF p.step = "cleanup" THEN "warned" ELSE "error"
               q == [p EXCEPT !.step = "idle", !.outcome = o]
    <2>1. /\ q \in Page /\ q.step = "idle" /\ q.outcome = o /\ q.save = p.save /\ q.rec = p.rec
          /\ q.made = p.made /\ q.user = p.user /\ q.note = p.note /\ q.place = p.place
          /\ q.alone = p.alone /\ q.left = p.left
      BY Zenon, <1>1 DEF Page
    <2>2. PageFailed(b) = [b EXCEPT !.page = q]
      BY Zenon, <1>1, <1>3 DEF PageFailed, Finished, Tab, Page
    <2>3. PageOK(q)
      BY <1>3, <2>1, PageOK(p) DEF PageOK
    <2>4. Same(b, PageFailed(b)) /\ TabOK(PageFailed(b)) /\ PageFailed(b).page = q
      <3>1. o # "shown"
        OBVIOUS
      <3> HIDE DEF q, o
      <3>2. QED
        BY <2>1, <2>2, <2>3, <3>1, EndSame
    <2>5. QED
      BY Zenon, <1>3, <2>4 DEF AfterFailure
  <1>4. CASE p.step \notin {"place", "cleanup", "update"}
    <2>1. p.save = 0 /\ p.outcome = None /\ (p.rec # None => p.made = p.rec)
      <3>1. p.step \notin {"idle", "days"}
        BY DEF PageOps
      <3>2. p.save \in Nat
        BY <1>1 DEF Page
      <3>3. QED
        BY <1>4, <3>1, <3>2, PageOK(p) DEF PageOK
    <2>2. PageFailed(b) = SubmitFailed(b)
      BY <1>4 DEF PageFailed
    <2>3. QED
      BY Zenon, <1>4, <2>1, <2>2, SubmitFailedTab DEF AfterFailure
  <1>5. QED
    BY <1>2, <1>3, <1>4

\* The two notes of a saved edit are sent.
LEMMA DaysSentTab ==
  ASSUME NEW b, PageFree(b), PageOK(b.page), b.page.step = "update",
         \A d \in Days : b.call[d].pc = "idle"
  PROVE  /\ Same(b, DaysSent(b)) /\ TabOK(DaysSent(b))
         /\ DaysSent(b).page = [b.page EXCEPT !.step = "days"]
         /\ \A d \in Days : DaysSent(b).call[d].pc = "sent"
  <1> DEFINE R == DaysSent(b)  q == [b.page EXCEPT !.step = "days"]
             k(c) == [Sent(b, "write") EXCEPT !.day = c, !.save = b.page.save]
             calls == [c \in Slots |-> IF c \in Days THEN k(c) ELSE b.call[c]]
  <1>1. b \in Tab /\ b.page \in Page
    BY DEF PageFree, Tab
  <1>2. /\ q \in Page /\ q.step = "days" /\ q.user = b.page.user /\ q.rec = b.page.rec
        /\ q.made = b.page.made /\ q.note = b.page.note /\ q.place = b.page.place
        /\ q.save = b.page.save /\ q.alone = b.page.alone /\ q.left = b.page.left
        /\ q.outcome = b.page.outcome
    BY <1>1 DEF Page
  <1>3. \A c \in Days : /\ k(c) \in Call /\ k(c).pc = "sent" /\ k(c).op = "write" /\ k(c).rec = b.page.rec
                        /\ k(c).day = c /\ k(c).save = b.page.save
                        /\ k(c).token = b.access /\ k(c).cookie = None
    <2>1. "write" \in Ops /\ b.page.save \in 0 .. MaxSaves
      BY <1>1 DEF Ops, PageOps, Page
    <2>2. /\ Sent(b, "write") \in Call /\ Sent(b, "write").pc = "sent"
          /\ Sent(b, "write").op = "write" /\ Sent(b, "write").token = b.access
          /\ Sent(b, "write").cookie = None /\ Sent(b, "write").rec = b.page.rec
      BY <1>1, <2>1, SentCall
    <2>3. QED
      BY Zenon, <2>1, <2>2 DEF Call
  <1>4. Days \subseteq Slots /\ "login" \notin Days /\ "profile" \notin Days /\ "page" \notin Days /\ "old" \notin Days
    BY DEF Days, Slots
  <1>5. calls \in [Slots -> Call]
    <2> HIDE DEF k
    <2>1. \A c \in Slots : (IF c \in Days THEN k(c) ELSE b.call[c]) \in Call
      BY <1>1, <1>3 DEF Tab
    <2>2. QED
      BY <2>1
  <1>6. R = [b EXCEPT !.page = q, !.call = calls]
    BY <1>1 DEF DaysSent, Tab
  <1>7. /\ \A c \in Days : calls[c] = k(c)
        /\ \A c \in Slots \ Days : calls[c] = b.call[c]
    BY Zenon, <1>4
  <1> HIDE DEF q, k, calls
  <1>8. /\ R \in Tab /\ R.page = q /\ R.call = calls
        /\ R.status = b.status /\ R.shown = b.shown /\ R.access = b.access
        /\ R.refresh = b.refresh /\ R.slips = b.slips /\ R.out = b.out
    BY Zenon, <1>1, <1>2, <1>5, <1>6 DEF Tab
  <1> HIDE DEF R
  <1>9. b.page.rec # None /\ b.page.save > 0 /\ b.page.outcome = None
    BY DEF PageOK
  <1>10. CallsOK(R) /\ MountOK(R)
    <2>1. \A c \in Days : "write" \in OpsOf[c]
      BY SlotNames DEF Days
    <2>2. \A c \in Slots :
             \/ R.call[c] = b.call[c]
             \/ /\ c \notin {"profile", "login"} /\ b.call[c].pc = "idle"
                /\ R.call[c].pc = "sent" /\ R.call[c].op \in OpsOf[c]
                /\ R.call[c].op = "write" => R.call[c].rec # None /\ R.call[c].save > 0
      BY <1>3, <1>4, <1>7, <1>8, <1>9, <2>1
    <2>3. R \in Tab /\ R.status = b.status /\ R.access = b.access /\ R.refresh = b.refresh /\ R.slips = b.slips
      BY <1>8
    <2>4. QED
      BY ONLY PageFree(b), <2>2, <2>3, SentTab
  <1>11. PageOK(R.page)
    BY <1>2, <1>8, <1>9, PageOK(b.page) DEF PageOK
  <1>12. PageCallsOK(R)
    <2>1. R.call["page"] = b.call["page"] /\ R.call["old"] = b.call["old"] /\ "days" \notin PageOps
      BY <1>4, <1>7, <1>8, SlotNames DEF PageOps
    <2>2. \E d \in Days : R.call[d].pc # "idle"
      BY <1>3, <1>7, <1>8 DEF Days
    <2>3. \A d \in Days : R.call[d].rec = R.page.rec /\ R.call[d].save = R.page.save /\ R.call[d].day = d
      BY <1>2, <1>3, <1>7, <1>8
    <2>4. QED
      BY <1>2, <1>8, <1>9, <2>1, <2>2, <2>3 DEF PageCallsOK, PageFree
  <1>13. Same(b, R)
    <2>1. R.call["login"] = b.call["login"]
      BY <1>4, <1>7, <1>8, SlotNames
    <2>2. \A c \in Slots : \/ R.call[c] = b.call[c]
                           \/ R.call[c].pc = "sent" /\ R.call[c].token = b.access /\ R.call[c].cookie = None
      <3>1. \A c \in Days : R.call[c].pc = "sent" /\ R.call[c].token = b.access /\ R.call[c].cookie = None
        BY <1>3, <1>7, <1>8
      <3>2. \A c \in Slots \ Days : R.call[c] = b.call[c]
        BY <1>7, <1>8
      <3>3. QED
        <4> SUFFICES ASSUME NEW c \in Slots
                     PROVE  \/ R.call[c] = b.call[c]
                            \/ R.call[c].pc = "sent" /\ R.call[c].token = b.access /\ R.call[c].cookie = None
          OBVIOUS
        <4>1. CASE c \in Days
          BY <3>1, <4>1
        <4>2. CASE c \notin Days
          BY <3>2, <4>2
        <4>3. QED
          BY <4>1, <4>2
    <2>3. QED
      BY <1>2, <1>8, <2>1, <2>2 DEF Same
  <1>14. QED
    BY <1>2, <1>3, <1>7, <1>8, <1>10, <1>11, <1>12, <1>13 DEF TabOK, R, q

\* A success of the page's call, of any step but the first.
LEMMA PageSucceededTab ==
  ASSUME NEW b, PageFree(b), PageOK(b.page),
         b.page.step \in {"entry", "photo", "place", "get", "cleanup", "update"},
         b.page.step = "update" => \A d \in Days : b.call[d].pc = "idle"
  PROVE  /\ Same(b, PageSucceeded(b)) /\ TabOK(PageSucceeded(b))
         /\ AfterSuccess(b.page, PageSucceeded(b).page)
         /\ b.page.step = "update" => \A d \in Days : PageSucceeded(b).call[d].pc = "sent"
  <1> DEFINE p == b.page  R == PageSucceeded(b)
  <1>1. b \in Tab /\ p \in Page
    BY DEF PageFree, Tab
  <1>2. CASE p.step = "entry"
    <2> DEFINE q == [p EXCEPT !.step = "prepare"]
    <2>1. /\ q \in Page /\ q.step = "prepare" /\ q.outcome = p.outcome /\ q.save = p.save /\ q.rec = p.rec
          /\ q.made = p.made /\ q.user = p.user /\ q.note = p.note /\ q.place = p.place
          /\ q.alone = p.alone /\ q.left = p.left
      BY <1>1 DEF Page
    <2>2. R = [b EXCEPT !.page = q]
      BY <1>1, <1>2 DEF PageSucceeded, Prepare, Tab, Page
    <2>3. PageOK(q) /\ p.outcome = None
      BY <1>2, <2>1, PageOK(p) DEF PageOK
    <2>4. Same(b, R) /\ TabOK(R) /\ R.page = q
      <3> HIDE DEF q, R
      <3>1. QED
        BY <2>1, <2>2, <2>3, EndSame
    <2>5. QED
      BY <1>2, <2>4 DEF AfterSuccess
  <1>3. CASE p.step = "photo"
    <2> DEFINE q == [p EXCEPT !.left = p.left - 1]  c == [b EXCEPT !.page = q]
    <2>1. p.left - 1 \in 0 .. Files /\ p.left \in Nat
      BY <1>1, <1>3, PageOK(p) DEF Page, PageOK
    <2>2. /\ q \in Page /\ q.step = p.step /\ q.outcome = p.outcome /\ q.save = p.save /\ q.rec = p.rec
          /\ q.made = p.made /\ q.user = p.user /\ q.note = p.note /\ q.place = p.place
          /\ q.alone = p.alone /\ q.left = p.left - 1
      BY <1>1, <2>1 DEF Page
    <2>3. PageFree(c)
      BY Zenon, <2>2, WithPageFree
    <2>4. c = [b EXCEPT !.page.left = @ - 1]
      BY <1>1 DEF Tab, Page
    <2>5. /\ c \in Tab /\ c.page = q /\ c.call = b.call /\ c.status = b.status /\ c.shown = b.shown
          /\ c.access = b.access /\ c.refresh = b.refresh /\ c.slips = b.slips /\ c.out = b.out
      <3> HIDE DEF q
      <3>1. QED
        BY <2>2, <1>1 DEF Tab
    <2>6. CASE p.left - 1 > 0
      <3> DEFINE e == [q EXCEPT !.step = "prepare"]
      <3>1. /\ e \in Page /\ e.step = "prepare" /\ e.outcome = p.outcome /\ e.save = p.save /\ e.rec = p.rec
            /\ e.made = p.made /\ e.user = p.user /\ e.note = p.note /\ e.place = p.place
            /\ e.alone = p.alone /\ e.left = p.left - 1
        BY Zenon, <2>2 DEF Page
      <3>2. R = Prepare(c)
        BY Zenon, <1>3, <2>4, <2>5, <2>2, <2>6 DEF PageSucceeded
      <3>3. Prepare(c) = [b EXCEPT !.page = e]
        BY Zenon, <1>1, <2>5 DEF Prepare, Tab
      <3>4. PageOK(e) /\ p.outcome = None
        BY <1>3, <3>1, <2>6, PageOK(p) DEF PageOK
      <3>5. e = [p EXCEPT !.left = p.left - 1, !.step = "prepare"]
        BY <1>1 DEF Page
      <3>6. Same(b, R) /\ TabOK(R) /\ R.page = e
        <4> HIDE DEF e, R, c, q
        <4>1. QED
          BY <3>1, <3>2, <3>3, <3>4, EndSame
      <3>7. QED
        BY <1>3, <2>6, <3>5, <3>6 DEF AfterSuccess
    <2>7. CASE ~(p.left - 1 > 0)
      <3> DEFINE op == IF p.place THEN "place" ELSE "get"  e == [q EXCEPT !.step = op]
      <3>1. /\ e.step = op /\ e.outcome = p.outcome /\ e.save = p.save /\ e.rec = p.rec
            /\ e.made = p.made /\ e.note = p.note /\ e.left = p.left - 1
        BY <2>2 DEF Page
      <3>2. R = Step(c, op)
        BY Zenon, <1>3, <2>4, <2>5, <2>2, <2>7 DEF PageSucceeded
      <3>3. PageOK(e)
        <4>1. e.left = 0 /\ op \in {"place", "get"}
          BY <2>1, <2>7, <3>1
        <4>2. QED
          BY <1>3, <3>1, <4>1, PageOK(p) DEF PageOK
      <3>4. op \in PageOps \ {"write"} /\ op # "update" /\ PageOK([c.page EXCEPT !.step = op])
        BY <2>5, <3>3 DEF PageOps
      <3>5. e = [p EXCEPT !.left = p.left - 1, !.step = op]
        BY <1>1 DEF Page
      <3>6. Same(c, R) /\ TabOK(R) /\ R.page = [c.page EXCEPT !.step = op]
        <4> HIDE DEF R, c, q, op
        <4>1. QED
          BY <2>3, <3>2, <3>4, StepSame
      <3>7. Same(b, R)
        <4> HIDE DEF R, c, q
        <4>1. QED
          BY <3>6, <2>2, <2>5 DEF Same
      <3>8. QED
        BY <1>3, <2>5, <2>7, <3>5, <3>6, <3>7 DEF AfterSuccess
    <2>8. QED
      BY <2>6, <2>7
  <1>4. CASE p.step = "place"
    <2> DEFINE q == [p EXCEPT !.step = "get"]
    <2>1. /\ q.step = "get" /\ q.outcome = p.outcome /\ q.save = p.save /\ q.rec = p.rec
          /\ q.made = p.made /\ q.left = p.left
      BY <1>1 DEF Page
    <2>2. R = Step(b, "get")
      BY <1>4 DEF PageSucceeded
    <2>3. PageOK(q) /\ "get" \in PageOps \ {"write"}
      BY <1>4, <2>1, PageOK(p) DEF PageOK, PageOps
    <2>4. Same(b, R) /\ TabOK(R) /\ R.page = q
      BY <2>2, <2>3, StepSame
    <2>5. QED
      BY <1>4, <2>4 DEF AfterSuccess
  <1>5. CASE p.step \in {"get", "cleanup"}
    <2> DEFINE o == IF p.step = "get" THEN "shown" ELSE "error"
               q == [p EXCEPT !.step = "idle", !.outcome = o]
    <2>1. /\ q \in Page /\ q.step = "idle" /\ q.outcome = o /\ q.save = p.save /\ q.rec = p.rec
          /\ q.made = p.made /\ q.user = p.user /\ q.note = p.note /\ q.place = p.place
          /\ q.alone = p.alone /\ q.left = p.left
      BY Zenon, <1>1 DEF Page
    <2>2. R = [b EXCEPT !.page = q]
      BY Zenon, <1>1, <1>5 DEF PageSucceeded, Finished, Tab, Page
    <2>3. PageOK(q) /\ ~(p.save > 0)
      BY <1>5, <2>1, PageOK(p) DEF PageOK
    <2>4. Same(b, R) /\ TabOK(R) /\ R.page = q
      <3> HIDE DEF q, o, R
      <3>1. QED
        BY <2>1, <2>2, <2>3, EndSame
    <2>5. QED
      BY Zenon, <1>5, <2>4 DEF AfterSuccess
  <1>6. CASE p.step = "update"
    <2>1. R = DaysSent(b)
      BY <1>6 DEF PageSucceeded
    <2>2. QED
      BY <1>6, <2>1, DaysSentTab DEF AfterSuccess
  <1>7. QED
    BY <1>2, <1>3, <1>4, <1>5, <1>6

(***************************************************************************)
(* A call ends.                                                            *)
(***************************************************************************)
Ending(b, c) == b \in Tab /\ TabOK(b) /\ c \in Slots /\ b.call[c].pc \in {"sent", "served", "refused"}

\* A tab with a call under way is open.
LEMMA OpenTab ==
  ASSUME NEW b, NEW c, b \in Tab, TabOK(b), c \in Slots, b.call[c].pc # "idle"
  PROVE  b.status # "closed"
  <1>1. Closed.call = [x \in Slots |-> NoCall] /\ NoCall.pc = "idle"
    <2>1. Mounted.call \in [Slots -> Call] /\ "profile" \in Slots
      BY Constants, SlotNames DEF Tab
    <2>2. \A x \in Slots \ {"profile"} : Mounted.call[x] = NoCall
      BY DEF Mounted
    <2>3. Closed.call = [Mounted.call EXCEPT !["profile"] = NoCall]
      BY Constants DEF Closed, Tab
    <2>4. QED
      BY Zenon, <2>1, <2>2, <2>3 DEF NoCall
  <1>2. QED
    BY <1>1 DEF TabOK, MountOK

\* A call ends for which no page waits, and with it perhaps the session.
LEMMA CallEnds ==
  ASSUME NEW b, NEW c, Ending(b, c), c # "page", NEW R \in Tab,
         b.page.step = "days" => \E d \in Days \ {c} : b.call[d].pc # "idle",
         /\ R.call = Without(b, c).call /\ R.page = b.page /\ R.refresh = b.refresh /\ R.slips = b.slips
         /\ R.status # "closed"
         /\ R.status = "loading" => b.status = "loading" /\ c # "profile"
         /\ b.call["profile"].pc # "idle" /\ c # "profile" /\ "mount" \notin b.slips =>
               R.status = b.status /\ R.access = b.access
  PROVE  TabOK(R)
  <1>1. /\ Without(b, c) \in Tab /\ CallsOK(Without(b, c)) /\ R.call[c] = NoCall
        /\ \A x \in Slots \ {c} : R.call[x] = b.call[x]
    BY WithoutTab, WithoutCalls DEF Ending, TabOK
  <1>2. CallsOK(R)
    BY <1>1, WithoutTab DEF CallsOK, CallOK, Ending
  <1>3. NoCall.pc = "idle" /\ NoCall.op = None
    BY DEF NoCall
  <1>4. MountOK(R)
    <2>1. "profile" \in Slots /\ "login" \in Slots
      BY SlotNames
    <2>2. \A x \in Slots : R.call[x].pc # "idle" => R.call[x] = b.call[x] /\ x # c
      BY <1>1, <1>3
    <2>3. R.status = "loading" => R.call["profile"].pc # "idle"
      BY <2>1, <1>1 DEF Ending, TabOK, MountOK
    <2>4. R.call["profile"].pc # "idle" /\ "mount" \notin R.slips =>
              /\ R.status = "loading" /\ R.page = NoPage
              /\ \A x \in Slots \ {"profile", "login"} : R.call[x].pc = "idle"
              /\ R.call["profile"].pc = "sent" => R.access = R.call["profile"].token
      BY <2>1, <2>2 DEF Ending, TabOK, MountOK
    <2>5. R.call["login"].pc # "idle" =>
             R.page = NoPage /\ \A x \in Slots \ {"profile", "login"} : R.call[x].pc = "idle"
      BY <2>1, <2>2 DEF Ending, TabOK, MountOK
    <2>6. QED
      BY <2>3, <2>4, <2>5 DEF MountOK
  <1>5. PageCallsOK(R)
    <2>1. R.call["page"] = b.call["page"]
      BY <1>1, SlotNames
    <2>2. \A x \in Days \cup {"old"} : R.call[x] = b.call[x] \/ R.call[x].pc = "idle"
      BY <1>1, <1>3, SlotNames DEF Days
    <2>3. R.page.step = "days" => \E d \in Days : R.call[d].pc # "idle"
      BY <1>1, SlotNames DEF Days
    <2>4. QED
      BY <2>1, <2>2, <2>3 DEF Ending, TabOK, PageCallsOK
  <1>6. QED
    BY <1>2, <1>4, <1>5 DEF TabOK, Ending

\* A page that saves notes waits for at least one of them.
LEMMA WaitingDays ==
  ASSUME NEW b, NEW c, Ending(b, c), c \notin Days
  PROVE  b.page.step = "days" => \E d \in Days \ {c} : b.call[d].pc # "idle"
  BY DEF Ending, TabOK, PageCallsOK

\* The end of the profile load of the mount.
LEMMA ProfileSettled ==
  ASSUME NEW b, Ending(b, "profile"), NEW ok \in BOOLEAN, NEW u \in Users \cup {None}
  PROVE  LET R == Settled(b, "profile", ok, u)
         IN  /\ R \in Tab /\ TabOK(R) /\ R.call = Without(b, "profile").call
             /\ R.page = b.page /\ R.refresh = b.refresh /\ R.slips = b.slips /\ R.out = b.out
             /\ R.access = b.access
             /\ IF ok THEN R.status = "authenticated" /\ R.shown = u ELSE R.status = "anonymous"
  <1> DEFINE w == Without(b, "profile")  R == Settled(b, "profile", ok, u)
  <1>1. /\ w \in Tab /\ w.page = b.page /\ w.refresh = b.refresh /\ w.slips = b.slips /\ w.out = b.out
        /\ w.access = b.access
    BY WithoutTab DEF Ending
  <1>2. R = IF ok THEN [w EXCEPT !.shown = u, !.status = "authenticated"]
            ELSE [w EXCEPT !.shown = None, !.status = "anonymous"]
    BY SlotNames DEF Settled, Without, BecameAnonymous, Days
  <1> HIDE DEF w, R
  <1>3. /\ R \in Tab /\ R.call = w.call /\ R.page = b.page /\ R.refresh = b.refresh
        /\ R.slips = b.slips /\ R.out = b.out /\ R.access = b.access
        /\ IF ok THEN R.status = "authenticated" /\ R.shown = u ELSE R.status = "anonymous"
    BY Zenon, <1>1, <1>2 DEF Tab
  <1>4. TabOK(R)
    BY <1>3, WaitingDays, CallEnds DEF w, Days
  <1>5. QED
    BY <1>3, <1>4 DEF R, w

\* The end of a login or of a write of an earlier save changes nothing else.
LEMMA OtherSettled ==
  ASSUME NEW b, NEW c, Ending(b, c), c \in {"login", "old"}, NEW ok \in BOOLEAN, NEW u
  PROVE  LET R == Settled(b, c, ok, u)
         IN  /\ R \in Tab /\ TabOK(R) /\ R.call = Without(b, c).call
             /\ R.page = b.page /\ R.refresh = b.refresh /\ R.slips = b.slips /\ R.out = b.out
             /\ R.access = b.access /\ R.status = b.status /\ R.shown = b.shown
  <1> DEFINE w == Without(b, c)
  <1>1. /\ w \in Tab /\ w.page = b.page /\ w.refresh = b.refresh /\ w.slips = b.slips /\ w.out = b.out
        /\ w.access = b.access /\ w.status = b.status /\ w.shown = b.shown
    BY WithoutTab DEF Ending
  <1>2. Settled(b, c, ok, u) = w
    BY SlotNames DEF Settled, Without, Days
  <1>3. b.status # "closed"
    BY OpenTab DEF Ending
  <1>4. TabOK(w)
    BY <1>1, <1>3, WaitingDays, CallEnds DEF Days
  <1>5. QED
    BY <1>1, <1>2, <1>4

\* The end of a call of the settings.
LEMMA ExitSettled ==
  ASSUME NEW b, Ending(b, "exit"), NEW ok \in BOOLEAN, NEW u
  PROVE  LET R == Settled(b, "exit", ok, u)
         IN  /\ R \in Tab /\ TabOK(R) /\ R.call = Without(b, "exit").call
             /\ R.page = b.page /\ R.refresh = b.refresh /\ R.slips = b.slips /\ R.out = b.out
             /\ \/ R.access = None /\ R.status = "anonymous"
                \/ /\ R.access = b.access /\ R.status = b.status /\ R.shown = b.shown
                   /\ b.call["exit"].op # "logout"
  <1> DEFINE w == Without(b, "exit")  R == Settled(b, "exit", ok, u)
  <1>1. /\ w \in Tab /\ w.page = b.page /\ w.refresh = b.refresh /\ w.slips = b.slips /\ w.out = b.out
        /\ w.access = b.access /\ w.status = b.status /\ w.shown = b.shown
    BY WithoutTab DEF Ending
  <1>2. R = IF b.call["exit"].op = "logout" \/ (b.call["exit"].op = "withdraw" /\ ok)
            THEN [[w EXCEPT !.access = None] EXCEPT !.shown = None, !.status = "anonymous"] ELSE w
    BY SlotNames DEF Settled, Without, ClearedSession, BecameAnonymous, Days
  <1> HIDE DEF w, R
  <1>3. /\ R \in Tab /\ R.call = w.call /\ R.page = b.page /\ R.refresh = b.refresh
        /\ R.slips = b.slips /\ R.out = b.out
        /\ \/ R.access = None /\ R.status = "anonymous"
           \/ /\ R.access = b.access /\ R.status = b.status /\ R.shown = b.shown
              /\ b.call["exit"].op # "logout"
    BY Zenon, <1>1, <1>2, Constants DEF Tab
  <1>4. b.status # "closed"
    BY OpenTab DEF Ending
  <1>5. ~(b.call["profile"].pc # "idle" /\ "mount" \notin b.slips)
    BY SlotNames DEF Ending, TabOK, MountOK
  <1>6. TabOK(R)
    BY <1>3, <1>4, <1>5, WaitingDays, CallEnds DEF w, Days
  <1>7. QED
    BY <1>3, <1>6 DEF R, w

\* The page of b after the write of day c.
AfterDay(b, c, ok, q) ==
    IF b.page.step # "days" THEN q = b.page
    ELSE IF ~ok THEN q = [b.page EXCEPT !.step = "idle", !.outcome = "error"]
    ELSE IF \A d \in Days \ {c} : b.call[d].pc = "idle"
         THEN q = [b.page EXCEPT !.step = "idle", !.outcome = "shown"]
    ELSE q = b.page

\* The end of the write of a note.
LEMMA DaySettled ==
  ASSUME NEW b, NEW c, Ending(b, c), c \in Days, NEW ok \in BOOLEAN, NEW u
  PROVE  LET R == Settled(b, c, ok, u)
         IN  /\ R \in Tab /\ TabOK(R) /\ R.call = Without(b, c).call
             /\ R.refresh = b.refresh /\ R.slips = b.slips /\ R.out = b.out
             /\ R.access = b.access /\ R.status = b.status /\ R.shown = b.shown
             /\ AfterDay(b, c, ok, R.page)
  <1> DEFINE w == Without(b, c)  R == Settled(b, c, ok, u)  p == b.page
  <1>1. /\ w \in Tab /\ w.page = b.page /\ w.refresh = b.refresh /\ w.slips = b.slips /\ w.out = b.out
        /\ w.access = b.access /\ w.status = b.status /\ w.shown = b.shown
        /\ w.call[c] = NoCall /\ \A x \in Slots \ {c} : w.call[x] = b.call[x]
    BY WithoutTab DEF Ending
  <1>2. c \notin {"profile", "login", "exit", "page", "old"} /\ NoCall.pc = "idle" /\ Days \subseteq Slots
    BY DEF Days, NoCall, Slots
  <1>3. R = DayWritten(w, ok)
    BY <1>2 DEF Settled, Without
  <1>4. b.status # "closed"
    BY OpenTab DEF Ending
  <1>5. (\A d \in Days : w.call[d].pc = "idle") <=> (\A d \in Days \ {c} : b.call[d].pc = "idle")
    BY <1>1, <1>2
  <1>6. CASE p.step # "days" \/ (ok /\ \E d \in Days \ {c} : b.call[d].pc # "idle")
    <2>1. R = w
      <3> HIDE DEF w
      <3>1. QED
        BY <1>1, <1>3, <1>5, <1>6 DEF DayWritten
    <2>2. TabOK(w)
      BY <1>1, <1>2, <1>4, <1>6, CallEnds
    <2>3. QED
      BY <1>1, <1>6, <2>1, <2>2 DEF AfterDay
  <1>7. CASE p.step = "days" /\ (~ok \/ \A d \in Days \ {c} : b.call[d].pc = "idle")
    <2> DEFINE o == IF ok THEN "shown" ELSE "error"  q == [p EXCEPT !.step = "idle", !.outcome = o]
    <2>1. p \in Page
      BY DEF Ending, Tab
    <2>2. /\ q \in Page /\ q.step = "idle" /\ q.outcome = o /\ q.save = p.save /\ q.rec = p.rec
          /\ q.made = p.made /\ q.user = p.user /\ q.note = p.note /\ q.place = p.place
          /\ q.alone = p.alone /\ q.left = p.left
      BY Zenon, <2>1 DEF Page
    <2>3. R = [w EXCEPT !.page = q]
      <3> HIDE DEF w
      <3>1. DayWritten(w, ok) = Finished(w, o)
        BY <1>1, <1>5, <1>7 DEF DayWritten
      <3>2. Finished(w, o) = [w EXCEPT !.page = q]
        BY Zenon, <1>1, <2>1 DEF Finished, Tab, Page
      <3>3. QED
        BY <1>3, <3>1, <3>2
    <2>4. PageOK(q)
      BY <1>7, <2>2 DEF PageOK, Ending, TabOK
    <2>5. PageFree(w)
      <3>1. b.call["page"].pc = "idle"
        BY <1>7 DEF Ending, TabOK, PageCallsOK, PageOps
      <3>2. b.call["login"].pc = "idle" /\ (b.call["profile"].pc = "idle" \/ "mount" \in b.slips)
        BY <1>2 DEF Ending, TabOK, MountOK
      <3>3. w.call["page"] = b.call["page"] /\ w.call["login"] = b.call["login"]
            /\ w.call["profile"] = b.call["profile"] /\ w.call["old"] = b.call["old"]
        BY <1>1, <1>2, SlotNames
      <3>4. CallsOK(w)
        BY WithoutCalls DEF Ending, TabOK
      <3>5. MountOK(w)
        BY <1>1, <1>4, <3>2, <3>3 DEF MountOK, Ending, TabOK
      <3>6. \E d \in Days : w.call[d].pc = "idle"
        BY <1>1, <1>2
      <3>7. QED
        BY <1>1, <1>4, <3>1, <3>2, <3>3, <3>4, <3>5, <3>6 DEF PageFree, Ending, TabOK, PageCallsOK
    <2>6. o = "shown" => \A d \in Days : w.call[d].pc = "idle"
      BY <1>5, <1>7
    <2>7. Same(w, R) /\ TabOK(R) /\ R.page = q
      <3> HIDE DEF q, o, w, R
      <3>1. QED
        BY <1>1, <2>2, <2>3, <2>4, <2>5, <2>6, EndSame
    <2>8. R.call = w.call
      <3> HIDE DEF q, w, R
      <3>1. QED
        BY <2>3, <2>2, <1>1, WithPage
    <2>9. QED
      BY Zenon, <1>1, <1>7, <2>7, <2>8 DEF Same, AfterDay
  <1>8. QED
    BY <1>6, <1>7

\* What is left of a tab when a call of its page has ended.
Kept(b, R) ==
    /\ R \in Tab /\ TabOK(R)
    /\ R.status = b.status /\ R.shown = b.shown /\ R.access = b.access
    /\ R.refresh = b.refresh /\ R.slips = b.slips /\ R.out = b.out
    /\ R.call["login"] = b.call["login"]
    /\ \A x \in Slots : \/ R.call[x] = b.call[x]
                        \/ R.call[x] = NoCall /\ x = "page"
                        \/ R.call[x].token = b.access /\ R.call[x].cookie = None /\ R.call[x].pc = "sent"

\* What is known of a tab whose page has a call that ends.
LEMMA EndingPage ==
  ASSUME NEW b, Ending(b, "page")
  PROVE  LET w == Without(b, "page")
         IN  /\ PageFree(w) /\ w.page = b.page /\ w \in Tab /\ b.page \in Page
             /\ w.access = b.access /\ w.status = b.status /\ w.shown = b.shown
             /\ w.refresh = b.refresh /\ w.slips = b.slips /\ w.out = b.out
             /\ w.call["page"] = NoCall /\ \A x \in Slots \ {"page"} : w.call[x] = b.call[x]
             /\ b.page.step \in PageOps \ {"write"} /\ PageOK(b.page)
             /\ b.page.step = "update" => \A d \in Days : w.call[d].pc = "idle"
  <1> DEFINE w == Without(b, "page")
  <1>1. /\ w \in Tab /\ w.page = b.page /\ w.refresh = b.refresh /\ w.slips = b.slips /\ w.out = b.out
        /\ w.access = b.access /\ w.status = b.status /\ w.shown = b.shown
        /\ w.call["page"] = NoCall /\ \A x \in Slots \ {"page"} : w.call[x] = b.call[x]
    BY WithoutTab DEF Ending
  <1>2. b.page \in Page /\ PageOK(b.page) /\ b.page.step \in PageOps \ {"write"}
    BY DEF Ending, Tab, TabOK, PageCallsOK, PageOK
  <1>3. b.status # "closed"
    BY OpenTab DEF Ending
  <1>4. b.call["login"].pc = "idle" /\ (b.call["profile"].pc = "idle" \/ "mount" \in b.slips)
    BY SlotNames DEF Ending, TabOK, MountOK
  <1>5. w.call["login"] = b.call["login"] /\ w.call["profile"] = b.call["profile"]
        /\ w.call["old"] = b.call["old"] /\ \A d \in Days : w.call[d] = b.call[d]
    BY <1>1, SlotNames DEF Days
  <1>6. CallsOK(w)
    BY WithoutCalls DEF Ending, TabOK
  <1>7. MountOK(w)
    BY <1>1, <1>3, <1>4, <1>5 DEF MountOK, Ending, TabOK
  <1>11. \E d \in Days : w.call[d].pc = "idle"
    <2>1. b.page.step # "days"
      BY <1>2 DEF PageOps
    <2>2. QED
      BY <1>5, <2>1 DEF Ending, TabOK, PageCallsOK
  <1>8. PageFree(w)
    BY <1>1, <1>3, <1>4, <1>5, <1>6, <1>7, <1>11 DEF PageFree, Ending, TabOK, PageCallsOK, NoCall
  <1>9. b.page.step = "update" => \A d \in Days : w.call[d].pc = "idle"
    BY <1>5 DEF Ending, TabOK, PageCallsOK
  <1>10. QED
    BY <1>1, <1>2, <1>8, <1>9

\* What changes a page only keeps the rest of the tab.
LEMMA SameKept ==
  ASSUME NEW b, Ending(b, "page"), NEW w, NEW R, Same(w, R), TabOK(R),
         /\ w.access = b.access /\ w.status = b.status /\ w.shown = b.shown
         /\ w.refresh = b.refresh /\ w.slips = b.slips /\ w.out = b.out
         /\ w.call["page"] = NoCall /\ \A x \in Slots \ {"page"} : w.call[x] = b.call[x]
  PROVE  Kept(b, R)
  <1>1. R.call["login"] = b.call["login"]
    BY SlotNames DEF Same
  <1>2. \A x \in Slots : \/ R.call[x] = b.call[x]
                         \/ R.call[x] = NoCall /\ x = "page"
                         \/ R.call[x].token = b.access /\ R.call[x].cookie = None /\ R.call[x].pc = "sent"
    BY DEF Same
  <1>3. QED
    BY <1>1, <1>2 DEF Same, Kept

\* The end of a call of a page, by its step.
LEMMA PageSettled ==
  ASSUME NEW b, Ending(b, "page"), NEW ok \in BOOLEAN, ok => b.page.step # "create", NEW u
  PROVE  LET R == Settled(b, "page", ok, u)  p == b.page  q == R.page
         IN  /\ Kept(b, R)
             /\ q.user = p.user /\ q.rec = p.rec /\ q.made = p.made /\ q.note = p.note
             /\ q.place = p.place /\ q.save = p.save /\ q.alone = p.alone
             /\ IF ok THEN AfterSuccess(p, q) ELSE AfterFailure(p, q)
             /\ ok /\ p.step = "update" => \A d \in Days : R.call[d].pc = "sent"
  <1> DEFINE w == Without(b, "page")  R == Settled(b, "page", ok, u)
  <1>1. /\ PageFree(w) /\ w.page = b.page /\ w \in Tab /\ b.page \in Page
        /\ w.access = b.access /\ w.status = b.status /\ w.shown = b.shown
        /\ w.refresh = b.refresh /\ w.slips = b.slips /\ w.out = b.out
        /\ w.call["page"] = NoCall /\ \A x \in Slots \ {"page"} : w.call[x] = b.call[x]
        /\ b.page.step \in PageOps \ {"write"} /\ PageOK(b.page)
        /\ b.page.step = "update" => \A d \in Days : w.call[d].pc = "idle"
    BY EndingPage
  <1>2. R = IF ok THEN PageSucceeded(w) ELSE PageFailed(w)
    BY SlotNames DEF Settled, Without, Days
  <1> HIDE DEF w, R
  <1>3. CASE ok
    <2>1. b.page.step \in {"entry", "photo", "place", "get", "cleanup", "update"}
      BY <1>1, <1>3 DEF PageOps
    <2>2. /\ Same(w, R) /\ TabOK(R) /\ AfterSuccess(b.page, R.page)
          /\ b.page.step = "update" => \A d \in Days : R.call[d].pc = "sent"
      BY <1>1, <1>2, <1>3, <2>1, PageSucceededTab
    <2>3. Kept(b, R)
      BY <1>1, <2>2, SameKept
    <2>4. QED
      BY Zenon, <1>1, <1>3, <2>2, <2>3 DEF Same, R
  <1>4. CASE ~ok
    <2>1. /\ Same(w, R) /\ TabOK(R) /\ AfterFailure(b.page, R.page)
      BY <1>1, <1>2, <1>4, PageFailedTab
    <2>2. Kept(b, R)
      BY <1>1, <2>1, SameKept
    <2>3. QED
      BY <1>1, <1>4, <2>1, <2>2 DEF Same, R
  <1>5. QED
    BY <1>3, <1>4

Unlearnt(b, r) == Settled([b EXCEPT !.page.made = r], "page", FALSE, None)
Learnt(b, r, u) == Settled([[b EXCEPT !.page.made = r] EXCEPT !.page.rec = r], "page", TRUE, u)

\* The server has made record r; the page learns it, or the answer is lost.
LEMMA CreateSettled ==
  ASSUME NEW b, Ending(b, "page"), b.page.step = "create", NEW r \in Records, NEW u,
         NEW L, L = Unlearnt(b, r), NEW T, T = Learnt(b, r, u)
  PROVE  /\ Kept(b, L) /\ Kept(b, T)
         /\ L.page.user = b.page.user /\ L.page.made = r /\ L.page.rec = None
         /\ T.page.user = b.page.user /\ T.page.made = r /\ T.page.rec = r
         /\ T.page.outcome = None /\ T.page.save = 0
         /\ T.page.left = Files /\ T.page.note = b.page.note
         /\ T.page.step \in {"entry", "prepare"} /\ (b.page.note => T.page.step = "entry")
  <1> DEFINE p == b.page  w == Without(b, "page")
             lost == [b EXCEPT !.page.made = r]  told == [lost EXCEPT !.page.rec = r]
             lp == [p EXCEPT !.made = r]  tp == [p EXCEPT !.made = r, !.rec = r]
             lw == [w EXCEPT !.page = lp]  tw == [w EXCEPT !.page = tp]
  <1>1. /\ PageFree(w) /\ w.page = p /\ w \in Tab /\ p \in Page
        /\ w.access = b.access /\ w.status = b.status /\ w.shown = b.shown
        /\ w.refresh = b.refresh /\ w.slips = b.slips /\ w.out = b.out
        /\ w.call["page"] = NoCall /\ \A x \in Slots \ {"page"} : w.call[x] = b.call[x]
        /\ PageOK(p)
    BY EndingPage
  <1>2. b \in Tab /\ b.page \in Page
    BY DEF Ending, Tab
  <1>3. /\ p.save = 0 /\ p.rec = None /\ p.made = None /\ p.outcome = None /\ p.left = Files /\ p.left > 0
    <2>1. p.save \in Nat
      BY <1>1 DEF Page
    <2>2. QED
      BY <1>1, <2>1 DEF PageOK
  <1>4. /\ lp \in Page /\ lp.step = "create" /\ lp.save = 0 /\ lp.rec = None /\ lp.made = r
        /\ lp.outcome = None /\ lp.alone = p.alone /\ lp.note = p.note /\ lp.user = p.user /\ lp.place = p.place
    BY <1>1, <1>3 DEF Page
  <1>5. /\ tp \in Page /\ tp.step = "create" /\ tp.save = 0 /\ tp.rec = r /\ tp.made = r
        /\ tp.outcome = None /\ tp.alone = p.alone /\ tp.note = p.note /\ tp.left = p.left
        /\ tp.user = p.user /\ tp.place = p.place
    BY Zenon, <1>1, <1>3 DEF Page
  <1>6. lost = [b EXCEPT !.page = lp] /\ told = [b EXCEPT !.page = tp]
    <2>1. lost = [b EXCEPT !.page = lp]
      BY <1>2 DEF Tab, Page
    <2>2. lp = [b.page EXCEPT !.made = r] /\ tp = [lp EXCEPT !.rec = r]
      BY <1>2 DEF Page
    <2>3. lost.page = lp /\ lost \in Tab
      BY <1>2, <1>4, <2>1 DEF Tab
    <2> HIDE DEF tp, lp, lost
    <2>4. told = [lost EXCEPT !.page = tp]
      BY <2>2, <2>3 DEF Tab
    <2>5. QED
      BY Zenon, <1>2, <2>1, <2>4 DEF Tab
  <1>7. lost.call = b.call /\ told.call = b.call
    <2> HIDE DEF lp, tp
    <2>1. QED
      BY <1>2, <1>4, <1>5, <1>6 DEF Tab
  <1>8. Without(lost, "page") = lw /\ Without(told, "page") = tw
    <2> HIDE DEF lp, tp, lost, told
    <2>1. QED
      BY Zenon, <1>2, <1>6, <1>7 DEF Without, Tab
  <1>9. /\ PageFree(lw) /\ lw.page = lp /\ lw.call = w.call
        /\ lw.access = b.access /\ lw.status = b.status /\ lw.shown = b.shown
        /\ lw.refresh = b.refresh /\ lw.slips = b.slips /\ lw.out = b.out
        /\ PageFree(tw) /\ tw.page = tp /\ tw.call = w.call
        /\ tw.access = b.access /\ tw.status = b.status /\ tw.shown = b.shown
        /\ tw.refresh = b.refresh /\ tw.slips = b.slips /\ tw.out = b.out
    <2> HIDE DEF lp, tp, w
    <2>1. PageFree(lw) /\ PageFree(tw)
      BY <1>1, <1>3, <1>4, <1>5, WithPageFree
    <2>2. QED
      BY <2>1, <1>1, <1>4, <1>5 DEF Tab
  <1>10. Settled(lost, "page", FALSE, None) = SubmitFailed(lw)
    <2>1. Settled(lost, "page", FALSE, None) = PageFailed(Without(lost, "page"))
      BY SlotNames DEF Settled, Without, Days
    <2> HIDE DEF lost, lp, lw
    <2>2. QED
      BY Zenon, <2>1, <1>4, <1>8, <1>9 DEF PageFailed
  <1>11. Settled(told, "page", TRUE, u) = IF p.note THEN Step(tw, "entry") ELSE Prepare(tw)
    <2>1. Settled(told, "page", TRUE, u) = PageSucceeded(Without(told, "page"))
      BY SlotNames DEF Settled, Without, Days
    <2> HIDE DEF told, tp, tw
    <2>2. QED
      BY Zenon, <2>1, <1>5, <1>8, <1>9 DEF PageSucceeded
  <1> HIDE DEF lost, told, w, lw, tw
  <1>12. /\ Kept(b, Settled(lost, "page", FALSE, None))
         /\ Settled(lost, "page", FALSE, None).page = [p EXCEPT !.made = r, !.step = "idle", !.outcome = "error"]
    <2> DEFINE R == SubmitFailed(lw)
    <2>1. Same(lw, R) /\ TabOK(R) /\ R.page = [lp EXCEPT !.step = "idle", !.outcome = "error"]
      <3> HIDE DEF lp
      <3>1. QED
        BY Zenon, <1>4, <1>9, SubmitFailedTab
    <2>2. [lp EXCEPT !.step = "idle", !.outcome = "error"]
             = [p EXCEPT !.made = r, !.step = "idle", !.outcome = "error"]
      BY <1>1 DEF Page
    <2>3. Kept(b, R)
      <3> HIDE DEF R
      <3>1. QED
        BY <1>1, <1>9, <2>1, SameKept
    <2>4. QED
      BY Zenon, <1>10, <2>1, <2>2, <2>3
  <1>13. /\ Kept(b, Settled(told, "page", TRUE, u))
         /\ Settled(told, "page", TRUE, u).page =
                [p EXCEPT !.made = r, !.rec = r, !.step = IF p.note THEN "entry" ELSE "prepare"]
    <2> DEFINE s == IF p.note THEN "entry" ELSE "prepare"  q == [tp EXCEPT !.step = s]
               R == Settled(told, "page", TRUE, u)
    <2>1. /\ q \in Page /\ q.step = s /\ q.outcome = None /\ q.save = 0 /\ q.rec = r /\ q.made = r
          /\ q.user = tp.user /\ q.note = tp.note /\ q.place = tp.place
          /\ q.alone = tp.alone /\ q.left = p.left
      BY ZenonT(60), <1>5 DEF Page, PageOps
    <2>2. PageOK(q)
      BY <1>1, <1>3, <1>5, <2>1 DEF PageOK, Page
    <2>3. q = [p EXCEPT !.made = r, !.rec = r, !.step = s]
      BY <1>1 DEF Page
    <2>4. Same(tw, R) /\ TabOK(R) /\ R.page = q
      <3>1. CASE p.note
        <4>1. "entry" \in PageOps \ {"write"} /\ s = "entry" /\ R = Step(tw, "entry")
          BY Zenon, <3>1, <1>11 DEF PageOps
        <4>2. PageOK([tw.page EXCEPT !.step = "entry"])
          BY Zenon, <1>9, <2>2, <4>1
        <4>3. Same(tw, Step(tw, "entry")) /\ TabOK(Step(tw, "entry"))
              /\ Step(tw, "entry").page = [tw.page EXCEPT !.step = "entry"]
          <5>1. PageFree(tw) /\ ("entry" = "update" => \A d \in Days : tw.call[d].pc = "idle")
            BY <1>9
          <5>2. "entry" \in PageOps \ {"write"}
            BY <4>1
          <5>3. QED
            BY ONLY <5>1, <5>2, <4>2, StepSame
        <4>4. QED
          BY Zenon, <1>9, <4>1, <4>3
      <3>2. CASE ~p.note
        <4>1. R = [tw EXCEPT !.page = q]
          <5>1. R = [tw EXCEPT !.page.step = "prepare"]
            BY Zenon, <3>2, <1>11 DEF Prepare
          <5>2. tw \in Tab
            BY <1>9 DEF PageFree
          <5> HIDE DEF tp, R
          <5>3. QED
            BY <3>2, <5>1, <5>2, <1>9 DEF Tab
        <4>2. q.step \in {"idle", "prepare"} /\ ~(q.save > 0)
          BY <2>1, <3>2
        <4> HIDE DEF q, R, tp
        <4>3. QED
          BY <1>5, <1>9, <2>1, <2>2, <4>1, <4>2, EndSame
      <3>3. QED
        BY Zenon, <3>1, <3>2
    <2>5. Kept(b, R)
      <3> HIDE DEF R, q
      <3>1. QED
        BY <1>1, <1>9, <2>4, SameKept
    <2>6. QED
      BY Zenon, <2>3, <2>4, <2>5
  <1>14. QED
    <2> DEFINE s == IF p.note THEN "entry" ELSE "prepare"
    <2>1. L = Settled(lost, "page", FALSE, None) /\ T = Settled(told, "page", TRUE, u)
      BY DEF lost, told, Unlearnt, Learnt
    <2>2. /\ Kept(b, L) /\ L.page = [p EXCEPT !.made = r, !.step = "idle", !.outcome = "error"]
          /\ Kept(b, T) /\ T.page = [p EXCEPT !.made = r, !.rec = r, !.step = s]
          /\ s \in {"entry", "prepare"} /\ (p.note => s = "entry")
          /\ p \in Page /\ p.outcome = None /\ p.save = 0 /\ p.left = Files /\ p.rec = None
      BY Zenon, <1>1, <1>3, <1>12, <1>13, <2>1
    <2> HIDE DEF p, s
    <2>3. L.page.user = p.user /\ L.page.made = r /\ L.page.rec = None
      BY ONLY <2>2 DEF Page
    <2>4. /\ T.page.user = p.user /\ T.page.made = r /\ T.page.rec = r
          /\ T.page.outcome = None /\ T.page.save = 0
          /\ T.page.left = Files /\ T.page.note = p.note
          /\ T.page.step = s
      BY ONLY <2>2 DEF Page
    <2>5. QED
      BY <2>2, <2>3, <2>4 DEF p

(***************************************************************************)
(* A tab is opened, signs in, asks for something, waits for a refresh.     *)
(***************************************************************************)
LoginTab(u) == [Mounted EXCEPT !.call["login"] = [NoCall EXCEPT !.pc = "sent", !.op = "login", !.user = u]]

\* An empty slot is in order.
LEMMA IdleCall ==
  /\ NoCall.pc = "idle" /\ NoCall.op = None /\ NoCall.token = None /\ NoCall.cookie = None
  /\ \A b, c : b.call[c] = NoCall => CallOK(b, c)
  BY DEF NoCall, CallOK

\* The fields of a tab that is mounted.
LEMMA MountedCalls ==
  /\ Mounted.status = "loading" /\ Mounted.access = None /\ Mounted.refresh = NoRefresh
  /\ Mounted.page = NoPage /\ Mounted.slips = {} /\ Mounted.out = FALSE
  /\ Mounted.call["profile"] = [NoCall EXCEPT !.pc = "sent", !.op = "profile"]
  /\ \A x \in Slots \ {"profile"} : Mounted.call[x] = NoCall
  BY SlotNames DEF Mounted

\* A tab without a page of a record is in order.
LEMMA NoPageOK ==
  /\ PageOK(NoPage) /\ NoPage.step = "idle" /\ NoPage.outcome = None /\ NoPage.save = 0
  /\ NoPage.rec = None /\ NoPage.made = None /\ NoPage.user = None /\ "idle" \notin PageOps
  BY DEF PageOK, NoPage, PageOps

\* A mounted tab is in order.
LEMMA MountedTab == TabOK(Mounted)
  <1>1. \A c \in Slots : CallOK(Mounted, c)
    <2>1. CallOK(Mounted, "profile")
      BY MountedCalls, SlotNames DEF CallOK, NoCall
    <2>2. \A c \in Slots \ {"profile"} : CallOK(Mounted, c)
      BY MountedCalls, IdleCall
    <2>3. QED
      BY <2>1, <2>2
  <1>2. CallsOK(Mounted)
    BY <1>1, MountedCalls DEF CallsOK, NoRefresh
  <1>3. MountOK(Mounted)
    BY MountedCalls, SlotNames DEF MountOK, NoCall
  <1>4. PageCallsOK(Mounted)
    <2>1. /\ Mounted.call["page"].pc = "idle" /\ Mounted.call["old"].pc = "idle"
          /\ \E d \in Days : Mounted.call[d].pc = "idle"
      BY MountedCalls, SlotNames DEF NoCall, Days
    <2>2. QED
      BY <2>1, MountedCalls, NoPageOK DEF PageCallsOK
  <1>5. QED
    BY <1>2, <1>3, <1>4, MountedCalls, NoPageOK DEF TabOK

\* So is a closed one.
LEMMA ClosedTab ==
  /\ TabOK(Closed) /\ Closed.page = NoPage /\ Closed.access = None /\ Closed.refresh = NoRefresh
  /\ Closed.slips = {} /\ Closed.out = FALSE /\ \A x \in Slots : Closed.call[x] = NoCall
  /\ Closed.status = "closed"
  <1>1. /\ Closed.status = "closed" /\ Closed.access = None /\ Closed.refresh = NoRefresh
        /\ Closed.page = NoPage /\ Closed.slips = {} /\ Closed.out = FALSE
        /\ Closed.call = [Mounted.call EXCEPT !["profile"] = NoCall]
    BY Constants, MountedCalls DEF Closed, Tab
  <1>2. \A x \in Slots : Closed.call[x] = NoCall
    <2>1. Mounted.call \in [Slots -> Call]
      BY Constants DEF Tab
    <2>2. QED
      BY <1>1, <2>1, MountedCalls
  <1>3. CallsOK(Closed)
    <2>1. \A c \in Slots : CallOK(Closed, c)
      BY <1>2, IdleCall
    <2>2. QED
      BY <1>1, <2>1 DEF CallsOK, NoRefresh
  <1>4. MountOK(Closed)
    BY <1>1, <1>2, SlotNames DEF MountOK, NoCall
  <1>5. PageCallsOK(Closed)
    <2>1. /\ Closed.call["page"].pc = "idle" /\ Closed.call["old"].pc = "idle"
          /\ \E d \in Days : Closed.call[d].pc = "idle"
      BY <1>2, SlotNames, IdleCall DEF Days
    <2>2. QED
      BY <1>1, <2>1, NoPageOK DEF PageCallsOK
  <1>6. QED
    BY <1>1, <1>2, <1>3, <1>4, <1>5, NoPageOK DEF TabOK

\* So is the tab that comes back from Kakao.
LEMMA LoginTabOK ==
  ASSUME NEW u \in Users
  PROVE  /\ LoginTab(u) \in Tab /\ TabOK(LoginTab(u))
         /\ LoginTab(u).page = NoPage /\ LoginTab(u).access = None /\ LoginTab(u).refresh = NoRefresh
         /\ LoginTab(u).slips = {} /\ LoginTab(u).out = FALSE /\ LoginTab(u).status = "loading"
         /\ LoginTab(u).call["login"].pc = "sent"
         /\ \A x \in Slots : LoginTab(u).call[x].token = None /\ LoginTab(u).call[x].cookie = None
         /\ LoginTab(u).call["exit"].pc = "idle"
  <1> DEFINE R == LoginTab(u)  k == [NoCall EXCEPT !.pc = "sent", !.op = "login", !.user = u]
  <1>1. k \in Call /\ k.pc = "sent" /\ k.op = "login" /\ k.token = None /\ k.cookie = None /\ k.user = u
    BY Zenon, Constants DEF Call, Ops, NoCall
  <1>2. /\ R \in Tab /\ R.page = NoPage /\ R.access = None /\ R.refresh = NoRefresh /\ R.slips = {}
        /\ R.out = FALSE /\ R.status = "loading" /\ R.call = [Mounted.call EXCEPT !["login"] = k]
    BY <1>1, Constants, MountedCalls DEF LoginTab, Tab
  <1> HIDE DEF R, k
  <1>3. /\ R.call["login"] = k /\ R.call["profile"] = [NoCall EXCEPT !.pc = "sent", !.op = "profile"]
        /\ \A x \in Slots \ {"profile", "login"} : R.call[x] = NoCall
    BY <1>2, MountedCalls, SlotNames, Constants DEF Tab
  <1>4. R.call["profile"].pc = "sent" /\ R.call["profile"].op = "profile"
        /\ R.call["profile"].token = None /\ R.call["profile"].cookie = None
    BY <1>3 DEF NoCall
  <1>5. \A c \in Slots : CallOK(R, c)
    <2>1. CallOK(R, "profile")
      BY <1>4, SlotNames DEF CallOK
    <2>2. CallOK(R, "login")
      BY <1>1, <1>3, SlotNames DEF CallOK
    <2>3. \A c \in Slots \ {"profile", "login"} : CallOK(R, c)
      BY <1>3, IdleCall
    <2>4. QED
      BY <2>1, <2>2, <2>3
  <1>6. CallsOK(R)
    BY <1>2, <1>5 DEF CallsOK, NoRefresh
  <1>7. MountOK(R)
    BY <1>2, <1>3, <1>4 DEF MountOK, NoCall
  <1>8. PageCallsOK(R)
    <2>1. /\ R.call["page"].pc = "idle" /\ R.call["old"].pc = "idle"
          /\ \E d \in Days : R.call[d].pc = "idle"
      BY <1>3, SlotNames, IdleCall DEF Days
    <2>2. QED
      BY <2>1, <1>2, NoPageOK DEF PageCallsOK
  <1>9. \A x \in Slots : R.call[x].token = None /\ R.call[x].cookie = None
    BY Zenon, <1>1, <1>3, <1>4, IdleCall
  <1>10. R.call["exit"].pc = "idle"
    BY <1>3, SlotNames DEF NoCall
  <1>11. QED
    BY <1>1, <1>2, <1>3, <1>6, <1>7, <1>8, <1>9, <1>10, NoPageOK DEF TabOK, R

\* A refresh has ended.
LEMMA ResumedTab ==
  ASSUME NEW b \in Tab, TabOK(b), b.refresh.pc # "none", NEW token \in Tokens
  PROVE  LET R == Resumed(b, token)
         IN  /\ R \in Tab /\ TabOK(R) /\ R.access = token /\ R.refresh = NoRefresh
             /\ R.slips = b.slips /\ R.out = b.out /\ R.page = b.page
             /\ \/ R.status = b.status /\ R.shown = b.shown /\ (token # None \/ R.status # "authenticated")
                \/ R.status = "anonymous"
             /\ \A x \in Slots : \/ R.call[x] = b.call[x]
                                 \/ /\ b.call[x].pc = "refresh"
                                    /\ R.call[x].pc \in {"sent", "refused"}
                                    /\ R.call[x].token \in {token, b.call[x].token}
                                    /\ R.call[x].cookie \in {token, b.call[x].cookie}
             /\ R.call["login"] = b.call["login"]
  <1> DEFINE R == Resumed(b, token)  w == WithToken(b, token)
             calls == [c \in Slots |->
                          IF b.call[c].pc # "refresh" THEN b.call[c]
                          ELSE IF token = None THEN [b.call[c] EXCEPT !.pc = "refused"]
                          ELSE [b.call[c] EXCEPT !.pc = "sent", !.token = token, !.cookie = token, !.again = TRUE]]
  <1>1. b.call \in [Slots -> Call]
    BY DEF Tab
  <1>2. /\ w \in Tab /\ w.access = token /\ w.slips = b.slips /\ w.out = b.out /\ w.page = b.page
        /\ \/ w.status = b.status /\ w.shown = b.shown /\ (token # None \/ w.status # "authenticated")
           \/ w.status = "anonymous" /\ b.status = "authenticated"
    BY Zenon, Constants DEF WithToken, BecameAnonymous, Tab
  <1>3. \A c \in Slots :
            IF b.call[c].pc # "refresh" THEN calls[c] = b.call[c]
            ELSE /\ calls[c] \in Call /\ calls[c].op = b.call[c].op /\ calls[c].rec = b.call[c].rec
                 /\ calls[c].save = b.call[c].save /\ calls[c].day = b.call[c].day
                 /\ IF token = None THEN /\ calls[c].pc = "refused" /\ calls[c].token = b.call[c].token
                                         /\ calls[c].cookie = b.call[c].cookie
                    ELSE calls[c].pc = "sent" /\ calls[c].token = token /\ calls[c].cookie = token
    <2> SUFFICES ASSUME NEW c \in Slots, b.call[c].pc = "refresh"
                 PROVE  /\ calls[c] \in Call /\ calls[c].op = b.call[c].op /\ calls[c].rec = b.call[c].rec
                        /\ calls[c].save = b.call[c].save /\ calls[c].day = b.call[c].day
                        /\ IF token = None THEN /\ calls[c].pc = "refused" /\ calls[c].token = b.call[c].token
                                                /\ calls[c].cookie = b.call[c].cookie
                           ELSE calls[c].pc = "sent" /\ calls[c].token = token /\ calls[c].cookie = token
      BY Zenon
    <2>1. CASE token = None
      BY <1>1, <2>1 DEF Call
    <2>2. CASE token # None
      BY ZenonT(60), <1>1, <2>2 DEF Call
    <2>3. QED
      BY <2>1, <2>2
  <1>4. calls \in [Slots -> Call]
    <2> HIDE DEF calls
    <2>1. \A c \in Slots : calls[c] \in Call
      BY <1>1, <1>3
    <2>2. calls = [c \in Slots |-> calls[c]]
      BY DEF calls
    <2>3. QED
      BY <2>1, <2>2
  <1>5. R = [w EXCEPT !.refresh = NoRefresh, !.call = calls]
    BY DEF Resumed
  <1> HIDE DEF w, calls
  <1>6. /\ R \in Tab /\ R.access = token /\ R.slips = b.slips /\ R.out = b.out /\ R.page = b.page
        /\ R.refresh = NoRefresh /\ R.call = calls /\ R.status = w.status /\ R.shown = w.shown
    BY ZenonT(60), <1>2, <1>4, <1>5, Constants DEF Tab
  <1> HIDE DEF R
  <1>7. \A c \in Slots : CallOK(R, c)
    <2> SUFFICES ASSUME NEW c \in Slots PROVE CallOK(R, c)
      OBVIOUS
    <2>1. CASE b.call[c].pc # "refresh"
      BY <1>3, <1>6, <2>1 DEF CallOK, CallsOK, TabOK
    <2>2. CASE b.call[c].pc = "refresh"
      BY <1>3, <1>6, <2>2 DEF CallOK, CallsOK, TabOK
    <2>3. QED
      BY <2>1, <2>2
  <1>8. CallsOK(R)
    BY <1>6, <1>7 DEF CallsOK, NoRefresh
  <1>9. \A c \in Slots : /\ R.call[c].pc = "idle" <=> b.call[c].pc = "idle"
                         /\ R.call[c].op = b.call[c].op /\ R.call[c].rec = b.call[c].rec
                         /\ R.call[c].save = b.call[c].save /\ R.call[c].day = b.call[c].day
    BY <1>3, <1>6
  <1>10. PICK c \in Slots : b.call[c].pc = "refresh"
    BY DEF TabOK, CallsOK
  <1>11. b.status # "closed"
    BY <1>10, OpenTab
  <1>12. MountOK(R)
    <2>1. "profile" \in Slots /\ "login" \in Slots /\ b.call["login"].pc # "refresh"
      BY SlotNames DEF TabOK, CallsOK, CallOK
    <2>2. b.call["profile"].pc # "idle" /\ "mount" \notin b.slips => b.call["profile"].pc = "refresh"
      BY <1>10, <2>1 DEF TabOK, MountOK
    <2>3. R.call["profile"].pc = "sent" /\ b.call["profile"].pc = "refresh" =>
              R.access = R.call["profile"].token
      BY <1>3, <1>6, <2>1
    <2>4. R.status # "closed" /\ (R.status = "loading" => b.status = "loading")
      BY <1>2, <1>6, <1>11
    <2>5. b.call["profile"].pc # "idle" /\ "mount" \notin b.slips => R.status = "loading"
      BY <1>2, <1>6 DEF TabOK, MountOK
    <2>6. QED
      BY <1>6, <1>9, <2>1, <2>2, <2>3, <2>4, <2>5 DEF TabOK, MountOK
  <1>13. PageCallsOK(R)
    <2>1. {"page", "old"} \subseteq Slots /\ Days \subseteq Slots
      BY SlotNames DEF Days
    <2>2. QED
      BY <1>6, <1>9, <2>1 DEF TabOK, PageCallsOK
  <1>14. R.call["login"] = b.call["login"]
    BY <1>3, <1>6, SlotNames DEF TabOK, CallsOK, CallOK
  <1>15. \A x \in Slots : \/ R.call[x] = b.call[x]
                          \/ /\ b.call[x].pc = "refresh"
                             /\ R.call[x].pc \in {"sent", "refused"}
                             /\ R.call[x].token \in {token, b.call[x].token}
                             /\ R.call[x].cookie \in {token, b.call[x].cookie}
    BY <1>3, <1>6
  <1>16. QED
    BY <1>2, <1>6, <1>8, <1>12, <1>13, <1>14, <1>15 DEF TabOK, R

(***************************************************************************)
(* A step of tab t makes R of it.  Of the others it changes at most what   *)
(* they cannot see: the cookie is another one's, the record has been       *)
(* written to.                                                             *)
(***************************************************************************)
Aside(b, R) ==
    /\ R \in Tab /\ (b.status = "closed" => R = b)
    /\ R.status = b.status /\ R.shown = b.shown /\ R.access = b.access /\ R.refresh = b.refresh
    /\ R.call = b.call /\ R.out = b.out /\ b.slips \subseteq R.slips
    /\ R.page = b.page \/ (b.page.rec # None /\ R.page = [b.page EXCEPT !.alone = FALSE])

Moves(t, R) ==
    /\ tab' \in [Tabs -> Tab] /\ tab'[t] = R
    /\ \A x \in Tabs \ {t} : Aside(tab[x], tab'[x])

\* A tab that is stepped aside keeps everything but its marks.
LEMMA AsideSame ==
  ASSUME NEW b \in Tab
  PROVE  Aside(b, b)
  BY DEF Aside

PageLike(p, q) ==
    /\ q.step = p.step /\ q.user = p.user /\ q.rec = p.rec /\ q.made = p.made
    /\ q.note = p.note /\ q.place = p.place /\ q.left = p.left /\ q.synced = p.synced
    /\ q.save = p.save /\ q.outcome = p.outcome /\ (q.alone => p.alone)

\* A page that lost its claim to be alone is in order.
LEMMA AsidePage ==
  ASSUME NEW b \in Tab, NEW R, Aside(b, R)
  PROVE  /\ PageLike(b.page, R.page) /\ (R.page = b.page \/ b.page # NoPage)
  <1>1. b.page \in Page /\ NoPage.rec = None
    BY NoPageOK DEF Tab
  <1>2. QED
    BY <1>1 DEF Aside, Page, PageLike

\* A tab that is stepped aside is in order.
LEMMA AsideTab ==
  ASSUME NEW b \in Tab, TabOK(b), NEW R, Aside(b, R)
  PROVE  TabOK(R)
  <1>1. PageLike(b.page, R.page) /\ (R.page = b.page \/ b.page # NoPage)
    BY AsidePage
  <1>2. CallsOK(R)
    BY DEF Aside, TabOK, CallsOK, CallOK
  <1>3. MountOK(R)
    BY <1>1 DEF Aside, TabOK, MountOK, PageLike
  <1>4. PageOK(R.page)
    BY <1>1 DEF TabOK, PageOK, PageLike
  <1>5. PageCallsOK(R)
    BY <1>1 DEF Aside, TabOK, PageCallsOK, PageLike
  <1>6. QED
    BY <1>2, <1>3, <1>4, <1>5 DEF TabOK

\* A step of one tab is a step of all.
LEMMA OneMoves ==
  ASSUME tab \in [Tabs -> Tab], NEW t \in Tabs, NEW R \in Tab, tab' = [tab EXCEPT ![t] = R]
  PROVE  Moves(t, R)
  BY AsideSame DEF Moves

\* Tabs of which one has moved and the others have stepped aside at most have
\* the right type.
LEMMA TabsMove ==
  ASSUME tab \in [Tabs -> Tab], \A x \in Tabs : TabOK(tab[x]),
         NEW t \in Tabs, NEW R, Moves(t, R), TabOK(R)
  PROVE  \A x \in Tabs : TabOK(tab[x])'
  <1> SUFFICES ASSUME NEW x \in Tabs PROVE TabOK(tab[x])'
    OBVIOUS
  <1>1. CASE x = t
    <2>1. TabOK(tab'[x])
      BY <1>1 DEF Moves
    <2>2. QED
      BY <2>1 DEF TabOK, CallsOK, CallOK, MountOK, PageOK, PageCallsOK
  <1>2. CASE x # t
    <2>1. TabOK(tab'[x])
      BY <1>2, AsideTab DEF Moves
    <2>2. QED
      BY <2>1 DEF TabOK, CallsOK, CallOK, MountOK, PageOK, PageCallsOK
  <1>3. QED
    BY <1>1, <1>2

\* No session is new to R, nor is its login.
LoginSame(b, R) ==
    \/ R.call["login"] = b.call["login"]
    \/ /\ R.call["login"].pc # "served"
       /\ R.call["login"].token = None /\ R.call["login"].cookie = None
NoNewToken(b, R) ==
    /\ \A s \in Sessions : Holds(R, s) => Holds(b, s) \/ Of(cookie, s)
    /\ LoginSame(b, R)

SessionsStay ==
    \A s \in Sessions : /\ session'[s].user = session[s].user
                        /\ session'[s].alive => session[s].alive

\* A token of a session that has begun stays one.
LEMMA BegunSessions ==
  ASSUME TypeOK, TokensOK, NEW t \in Tabs, NEW s \in Sessions, Holds(tab[t], s) \/ Of(cookie, s)
  PROVE  session[s].user # None
  BY DEF TokensOK, Holds, Of, Begun, UserOf

\* TokensOK survives a step that brings no token from nowhere.
LEMMA TokensMove ==
  ASSUME TypeOK, TypeOK', TokensOK, NEW t \in Tabs, NEW R, Moves(t, R), SessionsStay,
         \A s \in Sessions : Holds(R, s) => session[s].user # None,
         LoginSame(tab[t], R), Begun(cookie')
  PROVE  TokensOK'
  <1> DEFINE B(k) == k # None => session'[k[1]].user # None
  <1>1. \A k \in Tokens : Begun(k) => B(k)
    BY TokenParts DEF Begun, UserOf, SessionsStay
  <1>2. \A s \in Sessions : session'[s].user = None => ~session'[s].alive
    BY DEF TokensOK, SessionsStay
  <1>3. B(cookie')
    BY <1>1 DEF TypeOK
  <1>4. ASSUME NEW x \in Tabs
        PROVE  /\ B(tab'[x].access) /\ B(tab'[x].refresh.cookie)
               /\ \A c \in Slots : B(tab'[x].call[c].token) /\ B(tab'[x].call[c].cookie)
    <2>1. CASE x = t
      <3>1. R \in Tab /\ tab'[x] = R /\ tab[t] \in Tab
        BY <2>1 DEF Moves, TypeOK
      <3>2. \A s \in Sessions : Holds(R, s) => session'[s].user # None
        BY DEF SessionsStay
      <3>3. B(R.access) /\ B(R.refresh.cookie)
        BY <3>1, <3>2, TokenParts DEF Holds, Of, Tab, Refresh
      <3>4. ASSUME NEW c \in Slots PROVE B(R.call[c].token) /\ B(R.call[c].cookie)
        <4>1. R.call[c].token \in Tokens /\ R.call[c].cookie \in Tokens
          BY <3>1 DEF Tab, Call
        <4>2. CASE c # "login"
          BY <3>2, <4>1, <4>2, TokenParts DEF Holds, Of
        <4>3. CASE c = "login"
          <5>1. tab[t].call[c].token \in Tokens /\ tab[t].call[c].cookie \in Tokens
            BY <3>1 DEF Tab, Call
          <5>2. Begun(tab[t].call[c].token) /\ Begun(tab[t].call[c].cookie)
            BY DEF TokensOK
          <5>3. QED
            BY <1>1, <4>3, <5>1, <5>2 DEF LoginSame
        <4>4. QED
          BY <4>2, <4>3
      <3>5. QED
        BY <3>1, <3>3, <3>4
    <2>2. CASE x # t
      <3>1. /\ tab'[x].access = tab[x].access /\ tab'[x].refresh = tab[x].refresh
            /\ tab'[x].call = tab[x].call /\ tab[x] \in Tab
        BY Zenon, <2>2 DEF Moves, Aside, TypeOK
      <3>2. /\ Begun(tab[x].access) /\ Begun(tab[x].refresh.cookie)
            /\ \A c \in Slots : Begun(tab[x].call[c].token) /\ Begun(tab[x].call[c].cookie)
        BY DEF TokensOK
      <3>3. /\ tab[x].access \in Tokens /\ tab[x].refresh.cookie \in Tokens
            /\ \A c \in Slots : tab[x].call[c].token \in Tokens /\ tab[x].call[c].cookie \in Tokens
        BY <3>1 DEF Tab, Call, Refresh
      <3> HIDE DEF B
      <3>4. QED
        BY <1>1, <3>1, <3>2, <3>3
    <2>3. QED
      BY <2>1, <2>2
  <1>5. QED
    BY <1>2, <1>3, <1>4 DEF TokensOK, Begun, UserOf

\* What tab t has under way for session s.
Refreshing(b, s) == Of(b.refresh.cookie, s)

\* LoginsOK survives a step that hands out no token of a login under way.
LEMMA LoginsMove ==
  ASSUME TypeOK, TypeOK', LoginsOK, NEW t \in Tabs, NEW R, Moves(t, R), LoginSame(tab[t], R),
         \A s \in Sessions :
             /\ session'[s].user = session[s].user
             /\ session'[s].gen = session[s].gen \/ Refreshing(tab[t], s)
             /\ Refreshing(R, s) => Refreshing(tab[t], s) \/ Of(cookie, s)
             /\ Of(cookie', s) => \/ Of(cookie, s) \/ Refreshing(tab[t], s)
                                  \/ tab[t].call["login"].pc = "served" /\ R.call["login"].pc # "served"
                                     /\ Of(tab[t].call["login"].token, s)
  PROVE  LoginsOK'
  <1> USE DEF Refreshing
  <1>1. "login" \in Slots
    BY SlotNames
  <1>2. ASSUME NEW x \in Tabs
        PROVE  /\ tab'[x].call["login"] = tab[x].call["login"]
                  \/ /\ x = t /\ tab'[x].call["login"].pc # "served"
                     /\ tab'[x].call["login"].token = None
               /\ \A s \in Sessions : Of(tab'[x].refresh.cookie, s) =>
                      Of(tab[x].refresh.cookie, s) \/ Of(cookie, s)
    BY Zenon DEF Moves, Aside, LoginSame
  <1> SUFFICES ASSUME NEW x \in Tabs, tab'[x].call["login"].pc = "served"
               PROVE  LET k == tab'[x].call["login"]
                      IN  /\ k.token # None /\ k.token[2] = 1
                          /\ session'[k.token[1]].user = k.user /\ session'[k.token[1]].gen = 1
                          /\ ~Of(cookie', k.token[1])
                          /\ \A y \in Tabs : /\ ~Of(tab'[y].refresh.cookie, k.token[1])
                                             /\ y # x => ~Of(tab'[y].call["login"].token, k.token[1])
    BY DEF LoginsOK, UserOf
  <1> DEFINE k == tab[x].call["login"]  s == k.token[1]
  <1>3. tab'[x].call["login"] = k /\ k.pc = "served"
    BY <1>2
  <1>4. k.token \in Tokens
    BY <1>1 DEF TypeOK, Tab, Call
  <1>5. /\ k.token # None /\ k.token[2] = 1
        /\ session[s].user = k.user /\ session[s].gen = 1
        /\ ~Of(cookie, s)
        /\ \A y \in Tabs : /\ ~Of(tab[y].refresh.cookie, s)
                           /\ y # x => ~Of(tab[y].call["login"].token, s)
    BY <1>3 DEF LoginsOK, UserOf
  <1>6. s \in Sessions
    BY <1>4, <1>5, TokenParts
  <1>7. session'[s].user = k.user /\ session'[s].gen = 1
    BY <1>5, <1>6
  <1> HIDE DEF k
  <1>8. ~Of(cookie', s)
    BY <1>3, <1>5, <1>6 DEF Moves
  <1>9. \A y \in Tabs : /\ ~Of(tab'[y].refresh.cookie, s)
                        /\ y # x => ~Of(tab'[y].call["login"].token, s)
    BY <1>2, <1>5, <1>6 DEF Of
  <1>10. QED
    BY <1>3, <1>5, <1>7, <1>8, <1>9

\* Refreshes and the cookie, in a step that has nothing to do with them but may
\* drop the one of its tab.
LEMMA RefreshesMove ==
  ASSUME TypeOK, TypeOK', RefreshesOK, NEW t \in Tabs, NEW R, Moves(t, R), SessionsStay,
         \A s \in Sessions : session'[s].gen = session[s].gen,
         R.refresh = tab[t].refresh \/ (R.refresh = NoRefresh /\ LostBy(tab[t]) \subseteq raced'),
         cookie' \in {cookie, None}, raced \subseteq raced', reused' = reused
  PROVE  RefreshesOK'
  <1> DEFINE New(k) == session'[k[1]].alive /\ k[1] \notin raced' => k[2] = session'[k[1]].gen
  <1>1. \A k \in Tokens : k # None /\ Newest(k) => New(k)
    BY TokenParts DEF Newest, SessionsStay
  <1>2. \A x \in Tabs : tab'[x].refresh = tab[x].refresh \/ (x = t /\ tab'[x].refresh = NoRefresh)
    BY Zenon DEF Moves, Aside
  <1>3. \A x \in Tabs : tab[x].refresh.cookie \in Tokens
    BY DEF TypeOK, Tab, Refresh
  <1>4. NoRefresh.pc = "none" /\ NoRefresh.cookie = None
    BY DEF NoRefresh
  <1> HIDE DEF New
  <1>5. ASSUME NEW x \in Tabs, tab'[x].refresh.pc \in {"sent", "rotated"}, tab'[x].refresh.cookie # None
        PROVE  New(tab'[x].refresh.cookie)
    BY <1>1, <1>2, <1>3, <1>4, <1>5 DEF RefreshesOK
  <1>6. ASSUME NEW x \in Tabs, NEW y \in Tabs, NEW s \in Sessions \ raced', x # y
        PROVE  ~Of(tab'[x].refresh.cookie, s) \/ ~Of(tab'[y].refresh.cookie, s)
    BY <1>2, <1>4, <1>6 DEF RefreshesOK, Of
  <1>7. ASSUME cookie' # None
        PROVE  \/ New(cookie')
               \/ \E x \in Tabs : tab'[x].refresh.pc = "rotated" /\ Of(tab'[x].refresh.cookie, cookie'[1])
    <2>1. cookie' = cookie /\ cookie \in Tokens /\ cookie # None
      BY <1>7 DEF TypeOK
    <2>2. CASE Newest(cookie)
      BY <1>1, <2>1, <2>2
    <2>3. CASE ~Newest(cookie)
      <3>1. PICK x \in Tabs : tab[x].refresh.pc = "rotated" /\ Of(tab[x].refresh.cookie, cookie[1])
        BY <2>1, <2>3 DEF RefreshesOK
      <3>2. CASE tab'[x].refresh = tab[x].refresh
        BY <2>1, <3>1, <3>2
      <3>3. CASE tab'[x].refresh # tab[x].refresh
        <4>1. x = t /\ R.refresh # tab[t].refresh
          BY <1>2, <3>3 DEF Moves
        <4>2. cookie[1] \in raced'
          BY <3>1, <4>1 DEF LostBy, Of
        <4>3. QED
          BY <2>1, <4>2 DEF New
      <3>4. QED
        BY <3>2, <3>3
    <2>4. QED
      BY <2>2, <2>3
  <1>8. reused' \subseteq raced'
    BY DEF RefreshesOK
  <1>9. QED
    BY <1>5, <1>6, <1>7, <1>8 DEF RefreshesOK, Newest, New

\* What GroupOK asks of R, with the sessions of the next state.
Belongs(R) ==
    /\ R.status = "authenticated" => R.access # None /\ session[R.access[1]].user = R.shown
    /\ \A s \in Sessions : Held(s) =>
          /\ R.page.step # "idle" => session[s].user = R.page.user
          /\ R.out => ~session'[s].alive
    /\ R.call["exit"].pc = "served" /\ R.call["exit"].cookie # None =>
          ~session'[R.call["exit"].cookie[1]].alive

\* GroupOK survives a step after which the tab that moved belongs to the session
\* of the others.
LEMMA GroupMove ==
  ASSUME TypeOK, TypeOK', GroupOK, NEW t \in Tabs, NEW R, Moves(t, R), SessionsStay,
         \A s \in Sessions : Of(cookie', s) => Held(s),
         R.slips = {} => Belongs(R) /\ \A s \in Sessions : Holds(R, s) => Held(s)
  PROVE  GroupOK'
  <1> DEFINE Held1(s) == Of(cookie', s) \/ \E x \in Tabs : tab'[x].slips = {} /\ Holds(tab'[x], s)
  <1>1. ASSUME NEW x \in Tabs \ {t}, tab'[x].slips = {}
        PROVE  /\ tab[x].slips = {} /\ tab'[x].access = tab[x].access /\ tab'[x].refresh = tab[x].refresh
               /\ tab'[x].call = tab[x].call /\ tab'[x].status = tab[x].status /\ tab'[x].shown = tab[x].shown
               /\ tab'[x].out = tab[x].out /\ tab'[x].page.step = tab[x].page.step
               /\ tab'[x].page.user = tab[x].page.user
    <2>1. Aside(tab[x], tab'[x]) /\ tab[x] \in Tab
      BY DEF Moves, TypeOK
    <2>2. tab'[x].page.step = tab[x].page.step /\ tab'[x].page.user = tab[x].page.user
      BY <2>1, AsidePage DEF PageLike
    <2>3. QED
      BY <2>1, <2>2, <1>1 DEF Aside
  <1>2. ASSUME NEW s \in Sessions, Held1(s) PROVE Held(s)
    <2>1. CASE Of(cookie', s)
      BY <2>1
    <2>2. CASE \E x \in Tabs : tab'[x].slips = {} /\ Holds(tab'[x], s)
      <3>1. PICK x \in Tabs : tab'[x].slips = {} /\ Holds(tab'[x], s)
        BY <2>2
      <3>2. CASE x = t
        <4>1. R.slips = {} /\ Holds(R, s)
          BY <3>1, <3>2 DEF Moves
        <4>2. QED
          BY <4>1
      <3>3. CASE x # t
        <4>1. Holds(tab[x], s) /\ tab[x].slips = {}
          BY <1>1, <3>1, <3>3 DEF Holds
        <4>2. QED
          BY <4>1 DEF Held
      <3>4. QED
        BY <3>2, <3>3
    <2>3. QED
      BY <1>2, <2>1, <2>2
  <1> HIDE DEF Held1
  <1>3. \A s, r \in Sessions : Held1(s) /\ Held1(r) => s = r
    BY <1>2 DEF GroupOK, OneSession
  <1>4. ASSUME NEW x \in Tabs, tab'[x].slips = {}
        PROVE  /\ tab'[x].status = "authenticated" =>
                     tab'[x].access # None /\ session'[tab'[x].access[1]].user = tab'[x].shown
               /\ \A s \in Sessions : Held1(s) =>
                     /\ tab'[x].page.step # "idle" => session'[s].user = tab'[x].page.user
                     /\ tab'[x].out => ~session'[s].alive
               /\ tab'[x].call["exit"].pc = "served" /\ tab'[x].call["exit"].cookie # None =>
                     ~session'[tab'[x].call["exit"].cookie[1]].alive
    <2>1. CASE x = t
      <3>1. tab'[x] = R /\ R \in Tab /\ Belongs(R)
        BY <1>4, <2>1 DEF Moves
      <3>2. R.access \in Tokens
        BY <3>1 DEF Tab
      <3>3. R.access # None => session'[R.access[1]].user = session[R.access[1]].user
        BY <3>2, TokenParts DEF SessionsStay
      <3>4. QED
        BY <3>1, <3>3, <1>2 DEF Belongs, SessionsStay
    <2>2. CASE x # t
      <3>1. tab[x].slips = {} /\ ShowsUser(tab[x]) /\ UserAgrees(tab[x]) /\ LogoutOK(tab[x])
        BY <1>1, <1>4, <2>2 DEF GroupOK
      <3>2. tab[x].access \in Tokens /\ tab[x].call["exit"].cookie \in Tokens
        BY SlotNames DEF TypeOK, Tab, Call
      <3>3. tab[x].access # None => session'[tab[x].access[1]].user = session[tab[x].access[1]].user
        BY <3>2, TokenParts DEF SessionsStay
      <3>4. tab[x].status = "authenticated" =>
                tab[x].access # None /\ session'[tab[x].access[1]].user = tab[x].shown
        BY <3>1, <3>3 DEF ShowsUser, UserOf
      <3>5. tab[x].call["exit"].pc = "served" /\ tab[x].call["exit"].cookie # None =>
                ~session'[tab[x].call["exit"].cookie[1]].alive
        BY <3>1, <3>2, TokenParts DEF LogoutOK, SessionsStay
      <3>6. \A s \in Sessions : Held1(s) =>
                     /\ tab[x].page.step # "idle" => session'[s].user = tab[x].page.user
                     /\ tab[x].out => ~session'[s].alive
        BY <3>1, <1>2 DEF UserAgrees, SessionsStay
      <3>7. QED
        BY <1>1, <1>4, <2>2, <3>4, <3>5, <3>6
    <2>3. QED
      BY <2>1, <2>2
  <1>5. OneSession'
    BY <1>3 DEF OneSession, Held1, Held
  <1>6. ASSUME NEW x \in Tabs, tab'[x].slips = {}
        PROVE  ShowsUser(tab[x])' /\ UserAgrees(tab[x])' /\ LogoutOK(tab[x])'
    BY <1>4, <1>6 DEF ShowsUser, UserAgrees, LogoutOK, UserOf, Held, Held1
  <1>7. QED
    BY <1>5, <1>6 DEF GroupOK

\* What RowsOK asks of R, with the records of the next state.
Keeps(R) ==
    LET p == R.page
    IN  /\ p.outcome = "error" /\ p.made # None => p.rec = None \/ rows'[p.made].owner = "deleted"
        /\ p.rec # None =>
              /\ rows'[p.rec].owner # "new"
              /\ rows'[p.rec].owner \in {p.user, "deleted"} \/ R.slips # {}
              /\ Stored(rows'[p.rec], p)
              /\ p.step = "days" /\ p.alone =>
                    \A d \in Days : R.call[d].pc = "idle" => rows'[p.rec].notes[d] = p.save

\* The record of page p has lost nothing the page has stored.
Unharmed(p) ==
    p.rec # None =>
        /\ p.save = 0 =>
              /\ rows'[p.rec].photos = rows[p.rec].photos
              /\ rows[p.rec].notes["day1"] > 0 => rows'[p.rec].notes["day1"] > 0
              /\ rows[p.rec].place => rows'[p.rec].place
        /\ p.save > 0 /\ p.alone => rows'[p.rec].notes = rows[p.rec].notes

RowsStay ==
    \A r \in Records : rows[r].owner # "new" => rows'[r].owner \in {rows[r].owner, "deleted"}

\* A page that nothing was done to keeps what its row says.
LEMMA UnharmedKeeps ==
  ASSUME TypeOK, RowsOK, RowsStay, NEW x \in Tabs, TabOK(tab[x]),
         NEW R, PageLike(tab[x].page, R.page), tab[x].slips \subseteq R.slips,
         R.page.step = "days" =>
             \A d \in Days : R.call[d].pc = "idle" => tab[x].call[d].pc = "idle",
         Unharmed(R.page)
  PROVE  Keeps(R)
  <1> DEFINE b == tab[x]  p == b.page  q == R.page
  <1>1. b \in Tab /\ p \in Page
    BY DEF TypeOK, Tab
  <1>2. /\ q.step = p.step /\ q.user = p.user /\ q.rec = p.rec /\ q.made = p.made
        /\ q.note = p.note /\ q.place = p.place /\ q.left = p.left /\ q.synced = p.synced
        /\ q.save = p.save /\ q.outcome = p.outcome /\ (q.alone => p.alone)
    BY DEF PageLike
  <1>3. /\ b.slips \subseteq R.slips
        /\ R.page.step = "days" => \A d \in Days : R.call[d].pc = "idle" => b.call[d].pc = "idle"
    OBVIOUS
  <1>4. /\ p.made # None => p.made \in Records /\ rows[p.made].owner # "new"
        /\ p.outcome = "error" /\ p.made # None => p.rec = None \/ rows[p.made].owner = "deleted"
    BY <1>1 DEF RowsOK, Page
  <1>5. p.rec # None =>
              /\ p.rec \in Records
              /\ rows[p.rec].owner # "new"
              /\ rows[p.rec].owner \in {p.user, "deleted"} \/ b.slips # {}
              /\ Stored(rows[p.rec], p)
              /\ p.step = "days" /\ p.alone =>
                    \A d \in Days : b.call[d].pc = "idle" => rows[p.rec].notes[d] = p.save
    BY <1>1 DEF RowsOK, Page
  <1>12. TabOK(b)
    OBVIOUS
  <1> HIDE DEF b
  <1>6. q.outcome = "error" /\ q.made # None => q.rec = None \/ rows'[q.made].owner = "deleted"
    BY <1>2, <1>4 DEF RowsStay
  <1>7. ASSUME q.rec # None
        PROVE  /\ rows'[q.rec].owner # "new"
               /\ rows'[q.rec].owner \in {q.user, "deleted"} \/ R.slips # {}
    BY <1>2, <1>3, <1>5, <1>7 DEF RowsStay
  <1>8. p.save \in Nat
    BY <1>1 DEF Page
  <1>9. ASSUME q.rec # None PROVE Stored(rows'[q.rec], q)
    <2>1. CASE p.save = 0
      BY <1>2, <1>5, <1>9, <2>1 DEF Stored, Unharmed
    <2>2. CASE p.save > 0
      BY <1>2, <1>5, <1>9, <2>2 DEF Stored, Unharmed
    <2>3. QED
      BY <1>8, <2>1, <2>2
  <1>10. ASSUME q.rec # None, q.step = "days", q.alone, NEW d \in Days, R.call[d].pc = "idle"
         PROVE  rows'[q.rec].notes[d] = q.save
    <2>1. p.save > 0
      BY <1>2, <1>10, <1>12 DEF TabOK, PageOK
    <2>2. QED
      BY <1>2, <1>3, <1>5, <1>10, <2>1 DEF Unharmed
  <1>11. QED
    BY <1>6, <1>7, <1>9, <1>10 DEF Keeps

\* RowsOK survives a step of one tab that keeps the rows of the other tabs'
\* pages.
LEMMA RowsMove ==
  ASSUME TypeOK, TypeOK', RowsOK, RowsStay, \A x \in Tabs : TabOK(tab[x]),
         NEW t \in Tabs, NEW R, Moves(t, R),
         \A r \in Records : rows'[r].owner = "new" => rows'[r] = NewRow,
         \A x \in Tabs \ {t} : Unharmed(tab'[x].page),
         R.page.made # None =>
            \/ R.page.made = tab[t].page.made
            \/ rows[R.page.made].owner = "new" /\ rows'[R.page.made].owner # "new",
         Keeps(R)
  PROVE  RowsOK'
  <1>1. ASSUME NEW x \in Tabs \ {t}
        PROVE  tab'[x].page.made = tab[x].page.made /\ Keeps(tab'[x])
    <2>1. Aside(tab[x], tab'[x]) /\ tab[x] \in Tab
      BY DEF Moves, TypeOK
    <2>2. QED
      BY <2>1, AsidePage, UnharmedKeeps DEF Aside, PageLike
  <1>2. ASSUME NEW x \in Tabs PROVE Keeps(tab'[x])
    <2>1. CASE x = t
      BY <2>1 DEF Moves
    <2>2. CASE x # t
      BY <2>2, <1>1
    <2>3. QED
      BY <2>1, <2>2
  <1>3. ASSUME NEW x \in Tabs, tab[x].page.made # None
        PROVE  tab[x].page.made \in Records /\ rows[tab[x].page.made].owner # "new"
               /\ rows'[tab[x].page.made].owner # "new"
    <2>1. tab[x].page.made \in Records
      BY <1>3 DEF TypeOK, Tab, Page
    <2>2. QED
      BY <1>3, <2>1 DEF RowsOK, RowsStay
  <1>4. ASSUME NEW x \in Tabs, tab'[x].page.made # None
        PROVE  rows'[tab'[x].page.made].owner # "new"
               /\ \A y \in Tabs \ {x} : tab'[y].page.made # tab'[x].page.made
    <2>1. tab'[t] = R
      BY DEF Moves
    <2>2. CASE x = t
      <3>1. CASE R.page.made = tab[t].page.made
        BY <1>1, <1>3, <1>4, <2>1, <2>2, <3>1 DEF RowsOK
      <3>2. CASE R.page.made # tab[t].page.made
        <4>1. rows[R.page.made].owner = "new" /\ rows'[R.page.made].owner # "new"
          BY <1>4, <2>1, <2>2, <3>2
        <4>2. ASSUME NEW y \in Tabs \ {x} PROVE tab'[y].page.made # R.page.made
          BY <1>1, <1>3, <1>4, <2>1, <2>2, <4>1
        <4>3. QED
          BY <2>1, <2>2, <4>1, <4>2
      <3>3. QED
        BY <3>1, <3>2
    <2>3. CASE x # t
      <3>1. tab'[x].page.made = tab[x].page.made /\ tab[x].page.made # None
        BY <1>1, <1>4, <2>3
      <3>2. rows[tab[x].page.made].owner # "new" /\ rows'[tab[x].page.made].owner # "new"
        BY <1>3, <3>1
      <3>3. ASSUME NEW y \in Tabs \ {x} PROVE tab'[y].page.made # tab[x].page.made
        <4>1. tab[y].page.made # tab[x].page.made
          BY <3>1 DEF RowsOK
        <4>2. CASE y # t
          BY <4>1, <4>2, <1>1
        <4>3. CASE y = t
          BY <2>1, <3>1, <3>2, <4>1, <4>3
        <4>4. QED
          BY <4>2, <4>3
      <3>4. QED
        BY <3>1, <3>2, <3>3
    <2>4. QED
      BY <2>2, <2>3
  <1>5. QED
    BY <1>2, <1>4 DEF RowsOK, Keeps

\* Rows that stay as they are satisfy what a page asks of them.
LEMMA NothingWritten ==
  ASSUME rows' = rows
  PROVE  RowsStay /\ \A p : Unharmed(p)
  BY DEF RowsStay, Unharmed

\* A step that neither writes to the records nor makes one.
LEMMA RowsSame ==
  ASSUME TypeOK, TypeOK', RowsOK, \A x \in Tabs : TabOK(tab[x]),
         NEW t \in Tabs, NEW R, Moves(t, R), rows' = rows,
         R.page.made # None => R.page.made = tab[t].page.made, Keeps(R)
  PROVE  RowsOK'
  <1>1. RowsStay /\ \A x \in Tabs \ {t} : Unharmed(tab'[x].page)
    BY DEF RowsStay, Unharmed
  <1>2. \A r \in Records : rows'[r].owner = "new" => rows'[r] = NewRow
    BY DEF RowsOK
  <1>3. QED
    BY <1>1, <1>2, RowsMove

\* A page whose step and claims stay keeps what it has stored.
LEMMA KeepsSame ==
  ASSUME TypeOK, RowsOK, NEW t \in Tabs, TabOK(tab[t]), NEW R, RowsStay,
         R.page = tab[t].page /\ tab[t].slips \subseteq R.slips, Unharmed(R.page),
         R.page.step = "days" =>
             \A d \in Days : R.call[d].pc = "idle" => tab[t].call[d].pc = "idle"
  PROVE  Keeps(R)
  <1>1. PageLike(tab[t].page, R.page)
    BY DEF PageLike
  <1>2. QED
    BY <1>1, UnharmedKeeps

(***************************************************************************)
(* All ends of a call in one: what becomes of the tab.                     *)
(***************************************************************************)
Settles(b, R) ==
    /\ R \in Tab /\ TabOK(R)
    /\ R.refresh = b.refresh /\ R.slips = b.slips /\ R.out = b.out
    /\ R.call["login"] = b.call["login"] \/ R.call["login"] = NoCall
    /\ R.call["exit"] = b.call["exit"] \/ R.call["exit"].pc # "served"
    /\ \A s \in Sessions : Holds(R, s) => Holds(b, s)
    /\ R.page.step # "idle" => b.page.step # "idle" /\ R.page.user = b.page.user
Looks(b, R) ==
    \/ R.status = b.status /\ R.shown = b.shown /\ R.access = b.access
    \/ R.status = "anonymous"
PageOfSame(b, R) ==
    /\ R.page.user = b.page.user /\ R.page.rec = b.page.rec /\ R.page.made = b.page.made
    /\ R.page.note = b.page.note /\ R.page.place = b.page.place
    /\ R.page.save = b.page.save /\ R.page.alone = b.page.alone
PageAfter(b, c, ok, R) ==
    /\ c = "page" => /\ IF ok THEN AfterSuccess(b.page, R.page) ELSE AfterFailure(b.page, R.page)
                     /\ ok /\ b.page.step = "update" => \A d \in Days : R.call[d].pc = "sent"
    /\ c \in Days => AfterDay(b, c, ok, R.page)
    /\ c \notin Days \cup {"page"} => R.page = b.page
    /\ \A d \in Days \ {c} : R.call[d] = b.call[d] \/ R.call[d].pc = "sent"

\* A tab with fewer tokens holds fewer sessions.
LEMMA HoldsLess ==
  ASSUME NEW b, NEW R, R.access \in {b.access, None}, R.refresh = b.refresh,
         \A x \in Slots : \/ R.call[x] = b.call[x] \/ R.call[x] = NoCall
                          \/ R.call[x].token = b.access /\ R.call[x].cookie = None,
         NEW s \in Sessions, Holds(R, s)
  PROVE  Holds(b, s)
  <1>1. NoCall.token = None /\ NoCall.cookie = None
    BY IdleCall
  <1>2. QED
    BY <1>1 DEF Holds, Of

\* The end of a call: the tab is in order and holds no new token, and its page
\* is the one of the same user or a fresh one.
LEMMA SettledTab ==
  ASSUME NEW b, NEW c, Ending(b, c), NEW ok \in BOOLEAN, NEW u \in Users \cup {None},
         ok /\ c = "page" => b.page.step # "create", NEW R, R = Settled(b, c, ok, u)
  PROVE  /\ Settles(b, R) /\ PageOfSame(b, R) /\ PageAfter(b, c, ok, R)
         /\ IF c = "profile" /\ ok
            THEN R.status = "authenticated" /\ R.shown = u /\ R.access = b.access
            ELSE Looks(b, R)
  <1>1. /\ Without(b, c).call[c] = NoCall /\ \A x \in Slots \ {c} : Without(b, c).call[x] = b.call[x]
        /\ b.page \in Page /\ c \in Slots
    BY WithoutTab DEF Ending, Tab
  <1>2. /\ NoCall.pc = "idle" /\ {"login", "exit", "profile", "page", "old"} \subseteq Slots /\ Days \subseteq Slots
        /\ {"login", "exit", "profile", "page", "old"} \cap Days = {}
        /\ Slots = {"login", "exit", "profile", "page", "old"} \cup Days
    BY IdleCall DEF Slots, Days
  <1>3. ASSUME /\ R \in Tab /\ TabOK(R) /\ R.call = Without(b, c).call
               /\ R.refresh = b.refresh /\ R.slips = b.slips /\ R.out = b.out
               /\ R.access \in {b.access, None} /\ PageOfSame(b, R)
               /\ R.page.step # "idle" => b.page.step # "idle"
        PROVE  Settles(b, R) /\ \A d \in Days \ {c} : R.call[d] = b.call[d]
    <2>1. \A x \in Slots : R.call[x] = b.call[x] \/ R.call[x] = NoCall
      BY <1>1, <1>3
    <2>2. \A s \in Sessions : Holds(R, s) => Holds(b, s)
      BY <1>3, <2>1, HoldsLess
    <2>3. QED
      BY <1>1, <1>2, <1>3, <2>1, <2>2 DEF Settles, PageOfSame
  <1>4. CASE c = "profile"
    <2>1. /\ R \in Tab /\ TabOK(R) /\ R.call = Without(b, c).call
          /\ R.page = b.page /\ R.refresh = b.refresh /\ R.slips = b.slips /\ R.out = b.out
          /\ R.access = b.access
          /\ IF ok THEN R.status = "authenticated" /\ R.shown = u ELSE R.status = "anonymous"
      BY <1>4, ProfileSettled
    <2>2. PageOfSame(b, R)
      BY <2>1 DEF PageOfSame
    <2>3. Settles(b, R) /\ PageAfter(b, c, ok, R)
      BY <1>2, <1>3, <1>4, <2>1, <2>2 DEF PageAfter
    <2>4. QED
      BY <1>4, <2>1, <2>2, <2>3 DEF Looks
  <1>5. CASE c \in {"login", "old"}
    <2>1. /\ R \in Tab /\ TabOK(R) /\ R.call = Without(b, c).call
          /\ R.page = b.page /\ R.refresh = b.refresh /\ R.slips = b.slips /\ R.out = b.out
          /\ R.access = b.access /\ R.status = b.status /\ R.shown = b.shown
      BY <1>5, OtherSettled
    <2>2. PageOfSame(b, R)
      BY <2>1 DEF PageOfSame
    <2>3. Settles(b, R) /\ PageAfter(b, c, ok, R)
      BY <1>2, <1>3, <1>5, <2>1, <2>2 DEF PageAfter
    <2>4. QED
      BY <1>5, <2>1, <2>2, <2>3 DEF Looks
  <1>6. CASE c = "exit"
    <2>1. /\ R \in Tab /\ TabOK(R) /\ R.call = Without(b, c).call
          /\ R.page = b.page /\ R.refresh = b.refresh /\ R.slips = b.slips /\ R.out = b.out
          /\ \/ R.access = None /\ R.status = "anonymous"
             \/ R.access = b.access /\ R.status = b.status /\ R.shown = b.shown
      BY <1>6, ExitSettled
    <2>2. PageOfSame(b, R)
      BY <2>1 DEF PageOfSame
    <2>3. Settles(b, R) /\ PageAfter(b, c, ok, R)
      BY <1>2, <1>3, <1>6, <2>1, <2>2 DEF PageAfter
    <2>4. QED
      BY <1>6, <2>1, <2>2, <2>3 DEF Looks
  <1>7. CASE c \in Days
    <2>1. /\ R \in Tab /\ TabOK(R) /\ R.call = Without(b, c).call
          /\ R.refresh = b.refresh /\ R.slips = b.slips /\ R.out = b.out
          /\ R.access = b.access /\ R.status = b.status /\ R.shown = b.shown
          /\ AfterDay(b, c, ok, R.page)
      BY <1>7, DaySettled
    <2>2. PageOfSame(b, R) /\ (R.page.step # "idle" => b.page.step # "idle")
      <3>1. \/ R.page = b.page
            \/ /\ b.page.step = "days"
               /\ \/ R.page = [b.page EXCEPT !.step = "idle", !.outcome = "error"]
                  \/ R.page = [b.page EXCEPT !.step = "idle", !.outcome = "shown"]
        BY <2>1 DEF AfterDay
      <3>2. CASE R.page = b.page
        BY <3>2 DEF PageOfSame
      <3>3. CASE R.page = [b.page EXCEPT !.step = "idle", !.outcome = "error"]
        BY <1>1, <3>3 DEF PageOfSame, Page
      <3>4. CASE R.page = [b.page EXCEPT !.step = "idle", !.outcome = "shown"]
        BY <1>1, <3>4 DEF PageOfSame, Page
      <3>5. QED
        BY <3>1, <3>2, <3>3, <3>4
    <2>3. Settles(b, R) /\ PageAfter(b, c, ok, R)
      BY <1>2, <1>3, <1>7, <2>1, <2>2 DEF PageAfter
    <2>4. QED
      BY <1>2, <1>7, <2>1, <2>2, <2>3 DEF Looks
  <1>8. CASE c = "page"
    <2>1. /\ Kept(b, R) /\ PageOfSame(b, R)
          /\ IF ok THEN AfterSuccess(b.page, R.page) ELSE AfterFailure(b.page, R.page)
          /\ ok /\ b.page.step = "update" => \A d \in Days : R.call[d].pc = "sent"
      BY <1>8, PageSettled DEF PageOfSame
    <2>2. b.page.step \in PageOps
      BY <1>8 DEF Ending, TabOK, PageCallsOK
    <2>3. \A s \in Sessions : Holds(R, s) => Holds(b, s)
      BY <2>1, HoldsLess DEF Kept
    <2>4. R.call["exit"] = b.call["exit"] \/ R.call["exit"].pc # "served"
      BY <1>2, <2>1 DEF Kept
    <2>5. Settles(b, R)
      BY <2>1, <2>2, <2>3, <2>4, NoPageOK DEF Settles, Kept, PageOfSame
    <2>6. \A d \in Days \ {c} : R.call[d] = b.call[d] \/ R.call[d].pc = "sent"
      BY <1>2, <1>8, <2>1 DEF Kept
    <2>7. PageAfter(b, c, ok, R)
      BY <1>2, <1>8, <2>1, <2>6 DEF PageAfter
    <2>8. QED
      BY <1>8, <2>1, <2>5, <2>7 DEF Looks, Kept
  <1>9. QED
    BY <1>2, <1>1, <1>4, <1>5, <1>6, <1>7, <1>8

\* The call failed, or its answer was lost: whatever the server has done, the
\* page claims no more than before.
LEMMA KeepsFailed ==
  ASSUME TypeOK, RowsOK, RowsStay, NEW t \in Tabs, NEW c, Ending(tab[t], c),
         NEW R, PageOfSame(tab[t], R), PageAfter(tab[t], c, FALSE, R), R.slips = tab[t].slips,
         \/ Unharmed(tab[t].page)
         \/ c = "page" /\ tab[t].page.step \in {"entry", "photo"}
         \/ c \in Days /\ tab[t].page.step = "days"
  PROVE  Keeps(R)
  <1> DEFINE b == tab[t]  p == b.page  q == R.page
  <1>1. b \in Tab /\ p \in Page /\ TabOK(b) /\ PageOK(p) /\ c \in Slots /\ p.save \in Nat
    BY DEF Ending, Tab, TabOK, Page
  <1>2. /\ q.user = p.user /\ q.rec = p.rec /\ q.made = p.made /\ q.note = p.note
        /\ q.place = p.place /\ q.save = p.save /\ q.alone = p.alone
    BY DEF PageOfSame
  <1>3. /\ p.made # None => p.made \in Records /\ rows[p.made].owner # "new"
        /\ p.outcome = "error" /\ p.made # None => p.rec = None \/ rows[p.made].owner = "deleted"
    BY <1>1 DEF RowsOK, Page
  <1>4. p.rec # None =>
              /\ p.rec \in Records /\ rows[p.rec].owner # "new"
              /\ rows[p.rec].owner \in {p.user, "deleted"} \/ b.slips # {}
              /\ Stored(rows[p.rec], p)
    BY <1>1 DEF RowsOK, Page
  <1>5. p.rec # None => /\ rows'[p.rec].owner # "new"
                        /\ rows'[p.rec].owner \in {p.user, "deleted"} \/ R.slips # {}
    BY <1>4 DEF RowsStay
  <1>6. CASE c \notin Days \cup {"page"} \/ (c \in Days /\ p.step # "days")
    <2>1. R.page = p
      BY <1>6 DEF PageAfter, AfterDay
    <2>2. R.page.step = "days" => \A d \in Days : R.call[d].pc = "idle" => b.call[d].pc = "idle"
      BY <1>6, <2>1 DEF PageAfter
    <2>3. Unharmed(p)
      BY <1>6, SlotNames DEF Days
    <2>4. QED
      BY <1>1, <2>1, <2>2, <2>3, KeepsSame
  <1>7. CASE c \in Days /\ p.step = "days"
    <2>1. q = [p EXCEPT !.step = "idle", !.outcome = "error"]
      BY <1>7 DEF PageAfter, AfterDay
    <2>2. q.step = "idle" /\ q.outcome = "error" /\ p.save > 0 /\ p.made = None
      BY <1>1, <1>7, <2>1 DEF Page, PageOK
    <2> HIDE DEF q, b
    <2>3. QED
      BY <1>2, <1>5, <2>2 DEF Keeps, Stored, q
  <1>8. CASE c = "page"
    <2>1. AfterFailure(p, q) /\ p.step \in PageOps /\ p.step # "write" /\ p.outcome = None
      BY <1>1, <1>8, NoPageOK DEF PageAfter, Ending, TabOK, PageCallsOK, PageOK
    <2> HIDE DEF b
    <2>2. CASE p.step = "place"
      <3>1. q = [p EXCEPT !.step = "get", !.synced = FALSE]
        BY <2>1, <2>2 DEF AfterFailure
      <3>2. /\ q.step = "get" /\ q.synced = FALSE /\ q.left = p.left /\ q.outcome = None
            /\ p.save = 0 /\ p.rec # None /\ p.made = p.rec
        BY <1>1, <2>1, <2>2, <3>1 DEF Page, PageOK
      <3>3. Unharmed(p) /\ Stored(rows[p.rec], p)
        BY <1>4, <1>8, <2>2, <3>2 DEF b, Days
      <3> HIDE DEF q
      <3>4. Stored(rows'[p.rec], q)
        BY <1>2, <2>2, <3>2, <3>3 DEF Stored, Unharmed
      <3>5. QED
        BY <1>2, <1>5, <3>2, <3>4 DEF Keeps, q
    <2>3. CASE p.step \in {"cleanup", "update"}
      <3>1. q = [p EXCEPT !.step = "idle", !.outcome = IF p.step = "cleanup" THEN "warned" ELSE "error"]
        BY Zenon, <2>1, <2>3 DEF AfterFailure
      <3>2. /\ q.step = "idle" /\ q.outcome \in {"warned", "error"} /\ (p.step = "update" => p.made = None)
            /\ (p.step = "cleanup" => q.outcome = "warned")
        BY <1>1, <2>3, <3>1 DEF Page, PageOK
      <3> HIDE DEF q
      <3>3. QED
        BY <1>2, <1>5, <2>3, <3>2 DEF Keeps, Stored, q
    <2>4. CASE p.step \notin {"place", "cleanup", "update"}
      <3>1. q = IF p.rec = None THEN [p EXCEPT !.step = "idle", !.outcome = "error"]
                ELSE [p EXCEPT !.step = "cleanup"]
        BY <2>1, <2>4 DEF AfterFailure
      <3>2. p.save = 0
        BY <1>1, <2>1, <2>4 DEF PageOK, PageOps
      <3>3. CASE p.rec = None
        <4>1. q.rec = None /\ q.step = "idle"
          BY <1>1, <3>1, <3>3 DEF Page
        <4> HIDE DEF q
        <4>2. QED
          BY <4>1 DEF Keeps, q
      <3>4. CASE p.rec # None
        <4>1. q.step = "cleanup" /\ q.outcome = None
          BY <1>1, <2>1, <3>1, <3>4 DEF Page
        <4> HIDE DEF q
        <4>2. QED
          BY <1>2, <1>5, <3>2, <4>1 DEF Keeps, Stored, q
      <3>5. QED
        BY <3>3, <3>4
    <2>5. QED
      BY <2>2, <2>3, <2>4
  <1>9. QED
    BY <1>6, <1>7, <1>8

\* The call has done what it was sent for.
Done(p, c) ==
    /\ c = "page" /\ p.step = "entry" =>
          rows'[p.rec].photos = rows[p.rec].photos /\ rows'[p.rec].notes["day1"] > 0
    /\ c = "page" /\ p.step = "photo" =>
          rows'[p.rec].photos = rows[p.rec].photos + 1 /\ rows'[p.rec].notes = rows[p.rec].notes
    /\ c = "page" /\ p.step = "place" => Unharmed(p) /\ rows'[p.rec].place
    /\ c = "page" /\ p.step = "get" => Unharmed(p)
    /\ c = "page" /\ p.step = "cleanup" => rows'[p.rec].owner = "deleted"
    /\ c \in Days /\ p.step = "days" =>
          rows'[p.rec].notes = [rows[p.rec].notes EXCEPT ![c] = p.save]
    /\ c \notin Days \cup {"page"} \/ (c \in Days /\ p.step # "days") => Unharmed(p)

\* After a call that was served, the row has what the page says it has.
LEMMA KeepsDone ==
  ASSUME TypeOK, RowsOK, RowsStay, NEW t \in Tabs, NEW c, Ending(tab[t], c),
         c = "page" => tab[t].page.step # "create",
         NEW R, PageOfSame(tab[t], R), PageAfter(tab[t], c, TRUE, R), R.slips = tab[t].slips,
         R.call[c] = NoCall \/ c = "page",
         Done(tab[t].page, c)
  PROVE  Keeps(R)
  <1> DEFINE b == tab[t]  p == b.page  q == R.page
  <1>1. b \in Tab /\ p \in Page /\ TabOK(b) /\ PageOK(p) /\ c \in Slots /\ p.save \in Nat
    BY DEF Ending, Tab, TabOK, Page
  <1>2. /\ q.user = p.user /\ q.rec = p.rec /\ q.made = p.made /\ q.note = p.note
        /\ q.place = p.place /\ q.save = p.save /\ q.alone = p.alone
    BY DEF PageOfSame
  <1>3. p.rec # None =>
              /\ p.rec \in Records /\ rows[p.rec].owner # "new"
              /\ rows[p.rec].owner \in {p.user, "deleted"} \/ b.slips # {}
              /\ Stored(rows[p.rec], p) /\ rows[p.rec] \in Row
              /\ p.step = "days" /\ p.alone =>
                    \A d \in Days : b.call[d].pc = "idle" => rows[p.rec].notes[d] = p.save
    BY <1>1 DEF RowsOK, Page, TypeOK
  <1>4. p.rec # None => /\ rows'[p.rec].owner # "new"
                        /\ rows'[p.rec].owner \in {p.user, "deleted"} \/ R.slips # {}
    BY <1>3 DEF RowsStay
  <1>5. CASE c \notin Days \cup {"page"} \/ (c \in Days /\ p.step # "days")
    <2>1. R.page = p
      BY <1>5 DEF PageAfter, AfterDay
    <2>2. R.page.step = "days" => \A d \in Days : R.call[d].pc = "idle" => b.call[d].pc = "idle"
      BY <1>5, <2>1 DEF PageAfter
    <2>3. Unharmed(p)
      BY <1>5 DEF Done
    <2>4. QED
      BY <1>1, <2>1, <2>2, <2>3, KeepsSame
  <1>6. CASE c \in Days /\ p.step = "days"
    <2>1. p.save > 0 /\ p.rec # None /\ p.made = None /\ p.outcome = None
      BY <1>1, <1>6 DEF PageOK
    <2>2. rows'[p.rec].notes[c] = p.save /\ \A d \in Days \ {c} : rows'[p.rec].notes[d] = rows[p.rec].notes[d]
      BY <1>3, <1>6, <2>1 DEF Done, Row
    <2>3. CASE \A d \in Days \ {c} : b.call[d].pc = "idle"
      <3>1. q = [p EXCEPT !.step = "idle", !.outcome = "shown"]
        BY <1>6, <2>3 DEF PageAfter, AfterDay
      <3>2. q.step = "idle" /\ q.outcome = "shown"
        BY <1>1, <3>1 DEF Page
      <3>3. p.alone => \A d \in Days : rows'[p.rec].notes[d] = p.save
        BY <1>3, <1>6, <2>1, <2>2, <2>3
      <3> HIDE DEF q, b
      <3>4. QED
        BY <1>2, <1>4, <2>1, <3>2, <3>3 DEF Keeps, Stored, q
    <2>4. CASE ~(\A d \in Days \ {c} : b.call[d].pc = "idle")
      <3>1. q = p
        BY <1>6, <2>4 DEF PageAfter, AfterDay
      <3>2. \A d \in Days \ {c} : R.call[d].pc = "idle" => b.call[d].pc = "idle"
        BY DEF PageAfter
      <3>3. p.alone => \A d \in Days : R.call[d].pc = "idle" => rows'[p.rec].notes[d] = p.save
        BY <1>3, <1>6, <2>1, <2>2, <3>2
      <3> HIDE DEF q, b
      <3>4. QED
        BY <1>4, <2>1, <3>1, <3>3 DEF Keeps, Stored, q
    <2>5. QED
      BY <2>3, <2>4
  <1>7. CASE c = "page"
    <2>1. AfterSuccess(p, q) /\ p.step \in PageOps /\ p.step # "write" /\ p.outcome = None
      BY <1>1, <1>7, NoPageOK DEF PageAfter, Ending, TabOK, PageCallsOK, PageOK
    <2>2. p.left \in Nat /\ Files \in Nat
      BY <1>1 DEF Page
    <2>3. p.rec # None => Stored(rows[p.rec], p) /\ rows[p.rec] \in Row /\ rows[p.rec].photos \in Nat
      BY <1>3 DEF Row
    <2>4. \A d \in Days : p.step = "update" => R.call[d].pc = "sent"
      BY <1>7 DEF PageAfter
    <2>5. p.step # "create"
      BY <1>7
    <2>6. PageOK(p) /\ p \in Page /\ Done(p, "page")
      BY <1>1, <1>7
    <2> HIDE DEF b
    <2>7. CASE p.step = "entry"
      <3>1. q = [p EXCEPT !.step = "prepare"]
        BY <2>1, <2>7 DEF AfterSuccess
      <3>2. q.step = "prepare" /\ q.left = p.left /\ q.outcome = None /\ p.rec # None /\ p.save = 0
        BY <2>1, <2>6, <2>7, <3>1, <1>1 DEF Page, PageOK
      <3>3. Stored(rows'[p.rec], q)
        <4> HIDE DEF q
        <4>1. QED
          BY <1>2, <2>3, <2>6, <2>7, <3>2 DEF Stored, Done
      <3> HIDE DEF q
      <3>4. QED
        BY <1>2, <1>4, <3>2, <3>3 DEF Keeps, q
    <2>8. CASE p.step = "photo"
      <3>1. IF p.left - 1 > 0 THEN q = [p EXCEPT !.left = p.left - 1, !.step = "prepare"]
            ELSE q = [p EXCEPT !.left = p.left - 1, !.step = IF p.place THEN "place" ELSE "get"]
        BY <2>1, <2>8 DEF AfterSuccess
      <3>2. /\ q.step = IF p.left - 1 > 0 THEN "prepare" ELSE IF p.place THEN "place" ELSE "get"
            /\ q.left = p.left - 1 /\ q.outcome = None /\ p.rec # None /\ p.save = 0 /\ p.left > 0
        <4>1. p.rec # None /\ p.save = 0 /\ p.left > 0
          BY <2>6, <2>8, <1>1 DEF PageOK
        <4>2. QED
          BY ZenonT(60), <2>1, <2>6, <3>1, <4>1 DEF Page
      <3>3. rows'[p.rec].photos = Files - (p.left - 1)
        BY <2>2, <2>3, <2>6, <2>8, <3>2 DEF Stored, Done
      <3>4. p.note => rows'[p.rec].notes["day1"] > 0
        BY <2>3, <2>6, <2>8, <3>2 DEF Stored, Done
      <3> HIDE DEF q
      <3>5. Stored(rows'[p.rec], q)
        BY <1>2, <3>2, <3>3, <3>4 DEF Stored
      <3>6. QED
        BY <1>2, <1>4, <3>2, <3>5 DEF Keeps, q
    <2>9. CASE p.step = "place"
      <3>1. q = [p EXCEPT !.step = "get"]
        BY <2>1, <2>9 DEF AfterSuccess
      <3>2. q.step = "get" /\ q.left = p.left /\ q.outcome = None /\ p.rec # None /\ p.save = 0
        BY <2>1, <2>6, <2>9, <3>1, <1>1 DEF Page, PageOK
      <3> HIDE DEF q
      <3>3. Stored(rows'[p.rec], q)
        BY <1>2, <2>3, <2>6, <2>9, <3>2 DEF Stored, Done, Unharmed
      <3>4. QED
        BY <1>2, <1>4, <3>2, <3>3 DEF Keeps, q
    <2>10. CASE p.step = "get"
      <3>1. q = [p EXCEPT !.step = "idle", !.outcome = "shown"]
        BY <2>1, <2>10 DEF AfterSuccess
      <3>2. /\ q.step = "idle" /\ q.left = p.left /\ q.outcome = "shown" /\ q.synced = p.synced
            /\ p.rec # None /\ p.save = 0 /\ p.left = 0
        BY <2>1, <2>6, <2>10, <3>1, <1>1 DEF Page, PageOK
      <3> HIDE DEF q
      <3>3. Unharmed(p)
        BY <2>6, <2>10 DEF Done
      <3>4. rows'[p.rec].photos = Files
        <4>1. rows[p.rec].photos = Files - 0 /\ rows'[p.rec].photos = rows[p.rec].photos
          BY <2>3, <2>10, <3>2, <3>3 DEF Stored, Unharmed
        <4>2. QED
          BY <2>2, <4>1
      <3>5. p.note => rows'[p.rec].notes["day1"] > 0
        BY <2>3, <2>10, <3>2, <3>3 DEF Stored, Unharmed
      <3>6. p.place /\ p.synced => rows'[p.rec].place
        BY <2>3, <2>10, <3>2, <3>3 DEF Stored, Unharmed
      <3>7. q.save = 0 /\ q.place = p.place /\ q.note = p.note
        BY <1>2, <3>2
      <3>8. Stored(rows'[p.rec], q)
        BY <3>2, <3>4, <3>5, <3>6, <3>7 DEF Stored
      <3>9. QED
        BY <1>2, <1>4, <3>2, <3>8 DEF Keeps, q
    <2>11. CASE p.step = "cleanup"
      <3>1. q = [p EXCEPT !.step = "idle", !.outcome = "error"]
        BY <2>1, <2>11 DEF AfterSuccess
      <3>2. q.step = "idle" /\ q.outcome = "error" /\ p.save = 0 /\ p.rec # None /\ p.made = p.rec
        BY <2>6, <2>11, <3>1, <1>1 DEF Page, PageOK
      <3> HIDE DEF q
      <3>3. QED
        BY <1>2, <1>4, <2>6, <2>11, <3>2 DEF Keeps, Stored, Done, q
    <2>12. CASE p.step = "update"
      <3>1. q = [p EXCEPT !.step = "days"]
        BY <2>1, <2>12 DEF AfterSuccess
      <3>2. q.step = "days" /\ q.outcome = None /\ p.save > 0 /\ p.made = None
        BY <2>1, <2>6, <2>12, <3>1 DEF Page, PageOK
      <3>3. \A d \in Days : R.call[d].pc # "idle"
        BY <2>4, <2>12
      <3> HIDE DEF q
      <3>4. QED
        BY <1>2, <1>4, <3>2, <3>3 DEF Keeps, Stored, q
    <2>13. QED
      BY <2>1, <2>5, <2>7, <2>8, <2>9, <2>10, <2>11, <2>12 DEF PageOps
  <1>8. QED
    BY <1>5, <1>6, <1>7

(***************************************************************************)
(* Steps of a tab that hand out no token but the cookie and end no more     *)
(* than sessions.                                                          *)
(***************************************************************************)
LEMMA HeldByTab ==
  ASSUME NEW t \in Tabs, tab[t].slips = {}, NEW s \in Sessions, Holds(tab[t], s) \/ Of(cookie, s)
  PROVE  Held(s)
  BY DEF Held

\* A tab without new tokens belongs to the session it belonged to.
LEMMA BelongsStill ==
  ASSUME TypeOK, GroupOK, SessionsStay, NEW t \in Tabs, tab[t].slips = {}, NEW R,
         R.status = "authenticated" => R.access # None /\ session[R.access[1]].user = R.shown,
         R.page.step # "idle" => tab[t].page.step # "idle" /\ R.page.user = tab[t].page.user,
         R.out => tab[t].out,
         R.call["exit"] = tab[t].call["exit"] \/ R.call["exit"].pc # "served"
  PROVE  Belongs(R)
  <1>1. ShowsUser(tab[t]) /\ UserAgrees(tab[t]) /\ LogoutOK(tab[t])
    BY DEF GroupOK
  <1>2. tab[t].call["exit"].cookie \in Tokens
    BY SlotNames DEF TypeOK, Tab, Call
  <1>3. R.call["exit"].pc = "served" /\ R.call["exit"].cookie # None =>
            ~session'[R.call["exit"].cookie[1]].alive
    BY <1>1, <1>2, TokenParts DEF LogoutOK, SessionsStay
  <1>4. \A s \in Sessions : Held(s) =>
          /\ R.page.step # "idle" => session[s].user = R.page.user
          /\ R.out => ~session'[s].alive
    BY <1>1 DEF UserAgrees, SessionsStay
  <1>5. QED
    BY <1>3, <1>4 DEF Belongs

\* A tab that shows what it showed still shows the user of its token.
LEMMA LooksStill ==
  ASSUME TypeOK, GroupOK, NEW t \in Tabs, tab[t].slips = {}, NEW R, Looks(tab[t], R)
  PROVE  R.status = "authenticated" => R.access # None /\ session[R.access[1]].user = R.shown
  BY DEF GroupOK, ShowsUser, UserOf, Looks

\* The invariant survives a step of one tab that leaves server and cookie alone
\* and brings no new token.
LEMMA PlainMove ==
  ASSUME IInv, TypeOK', NEW t \in Tabs, NEW R, Moves(t, R), TabOK(R), SessionsStay,
         NoNewToken(tab[t], R),
         \A s \in Sessions :
             /\ session'[s].gen = session[s].gen \/ Refreshing(tab[t], s)
             /\ Refreshing(R, s) => Refreshing(tab[t], s) \/ Of(cookie, s)
             /\ Of(cookie', s) => Of(cookie, s) \/ (tab[t].slips = {} /\ Refreshing(tab[t], s)),
         R.slips = {} => Belongs(R) /\ \A s \in Sessions : Holds(R, s) => Held(s)
  PROVE  (\A x \in Tabs : TabOK(tab[x])') /\ TokensOK' /\ LoginsOK' /\ GroupOK'
  <1>1. TypeOK /\ TokensOK /\ LoginsOK /\ GroupOK /\ tab \in [Tabs -> Tab] /\ \A x \in Tabs : TabOK(tab[x])
    BY DEF IInv, TypeOK
  <1>2. \A x \in Tabs : TabOK(tab[x])'
    BY <1>1, TabsMove
  <1>3. Begun(cookie')
    <2>1. cookie' \in Tokens
      BY DEF TypeOK
    <2>2. SUFFICES ASSUME cookie' # None PROVE session[cookie'[1]].user # None
      BY DEF Begun, UserOf
    <2>3. cookie'[1] \in Sessions /\ Of(cookie', cookie'[1])
      BY <2>1, <2>2, TokenParts DEF Of
    <2>4. Holds(tab[t], cookie'[1]) \/ Of(cookie, cookie'[1])
      BY <2>3 DEF Holds, Refreshing
    <2>5. QED
      BY <1>1, <2>3, <2>4, BegunSessions
  <1>4. TokensOK'
    BY <1>1, <1>3, BegunSessions, TokensMove DEF NoNewToken
  <1>5. LoginsOK'
    <2>1. \A s \in Sessions :
             /\ session'[s].user = session[s].user
             /\ session'[s].gen = session[s].gen \/ Refreshing(tab[t], s)
             /\ Refreshing(R, s) => Refreshing(tab[t], s) \/ Of(cookie, s)
             /\ Of(cookie', s) => \/ Of(cookie, s) \/ Refreshing(tab[t], s)
                                  \/ tab[t].call["login"].pc = "served" /\ R.call["login"].pc # "served"
                                     /\ Of(tab[t].call["login"].token, s)
      BY DEF SessionsStay
    <2>2. QED
      BY ONLY <1>1, <2>1, TypeOK', t \in Tabs, Moves(t, R), NoNewToken(tab[t], R), LoginsMove DEF NoNewToken
  <1>6. GroupOK'
    <2>1. \A s \in Sessions : Of(cookie', s) => Held(s)
      BY HeldByTab DEF Held, Holds, Refreshing
    <2>2. QED
      BY <1>1, <2>1, GroupMove
  <1>7. QED
    BY <1>2, <1>4, <1>5, <1>6

\* A call that ends leaves no token behind that the tab had not.
LEMMA SettlesToken ==
  ASSUME NEW b, NEW R, Settles(b, R)
  PROVE  NoNewToken(b, R)
  BY IdleCall DEF Settles, NoNewToken, LoginSame

\* A call of a tab ends, for nobody else to see.
LEMMA SettlesMove ==
  ASSUME IInv, TypeOK', NEW t \in Tabs, NEW R, Moves(t, R), Settles(tab[t], R), SessionsStay,
         \A s \in Sessions : session'[s].gen = session[s].gen,
         cookie' = cookie, raced \subseteq raced', reused' = reused,
         tab[t].slips = {} /\ R.status = "authenticated" =>
             R.access # None /\ session[R.access[1]].user = R.shown
  PROVE  (\A x \in Tabs : TabOK(tab[x])') /\ TokensOK' /\ LoginsOK' /\ RefreshesOK' /\ GroupOK'
  <1>1. TypeOK /\ GroupOK /\ RefreshesOK
    BY DEF IInv
  <1>2. TabOK(R) /\ R.slips = tab[t].slips /\ R.refresh = tab[t].refresh
    BY DEF Settles
  <1>3. R.slips = {} => Belongs(R) /\ \A s \in Sessions : Holds(R, s) => Held(s)
    <2> SUFFICES ASSUME R.slips = {} PROVE Belongs(R) /\ \A s \in Sessions : Holds(R, s) => Held(s)
      OBVIOUS
    <2>1. Belongs(R)
      BY Zenon, <1>1, <1>2, BelongsStill DEF Settles
    <2>2. \A s \in Sessions : Holds(R, s) => Held(s)
      BY Zenon, <1>2, HeldByTab DEF Settles
    <2>3. QED
      BY <2>1, <2>2
  <1>4. RefreshesOK'
    BY <1>1, <1>2, RefreshesMove
  <1>5. \A s \in Sessions :
             /\ session'[s].gen = session[s].gen \/ Refreshing(tab[t], s)
             /\ Refreshing(R, s) => Refreshing(tab[t], s) \/ Of(cookie, s)
             /\ Of(cookie', s) => Of(cookie, s) \/ (tab[t].slips = {} /\ Refreshing(tab[t], s))
    BY <1>2 DEF Refreshing
  <1>6. QED
    BY <1>2, <1>3, <1>4, <1>5, SettlesToken, PlainMove

(***************************************************************************)
(* The actions, one by one.                                                *)
(***************************************************************************)
LEMMA LostSessions ==
  ASSUME NEW b \in Tab, TabOK(b)
  PROVE  LostBy(b) \subseteq Sessions
  BY TokenParts DEF LostBy, TabOK, CallsOK, Tab, Refresh

\* A tab that is mounted anew holds nothing, so that the invariant survives.
LEMMA MadeAnew ==
  ASSUME IInv, NEW t \in Tabs, NEW R \in Tab, TabOK(R),
         R.page = NoPage /\ R.access = None /\ R.refresh = NoRefresh /\ R.out = FALSE,
         R.slips = {} /\ R.status = "loading",
         R.call["login"].pc # "served" /\ R.call["exit"].pc = "idle",
         \A x \in Slots : R.call[x].token = None /\ R.call[x].cookie = None,
         tab' = [tab EXCEPT ![t] = R], raced' = raced \cup LostBy(tab[t]),
         UNCHANGED <<session, expired, rows, cookie, reused>>
  PROVE  IInv'
  <1>1. TypeOK /\ RowsOK /\ RefreshesOK /\ tab \in [Tabs -> Tab] /\ \A x \in Tabs : TabOK(tab[x])
    BY DEF IInv, TypeOK
  <1>2. TypeOK'
    BY <1>1, LostSessions DEF TypeOK
  <1>3. Moves(t, R)
    BY Zenon, <1>1, OneMoves
  <1>4. \A s \in Sessions : ~Holds(R, s)
    BY DEF Holds, Of, NoRefresh
  <1>5. NoNewToken(tab[t], R)
    BY <1>4, SlotNames DEF NoNewToken, LoginSame
  <1>6. SessionsStay
    BY DEF SessionsStay
  <1>7. Belongs(R)
    BY NoPageOK DEF Belongs
  <1>8. \A s \in Sessions :
             /\ session'[s].gen = session[s].gen \/ Refreshing(tab[t], s)
             /\ Refreshing(R, s) => Refreshing(tab[t], s) \/ Of(cookie, s)
             /\ Of(cookie', s) => Of(cookie, s) \/ (tab[t].slips = {} /\ Refreshing(tab[t], s))
    BY DEF Refreshing, Of, NoRefresh
  <1>9. (\A x \in Tabs : TabOK(tab[x])') /\ TokensOK' /\ LoginsOK' /\ GroupOK'
    BY <1>2, <1>3, <1>4, <1>5, <1>6, <1>7, <1>8, PlainMove
  <1>10. RefreshesOK'
    BY <1>1, <1>2, <1>3, <1>6, RefreshesMove
  <1>11. RowsOK'
    <2>1. Keeps(R) /\ R.page.made = None
      BY NoPageOK DEF Keeps
    <2>2. QED
      BY <1>1, <1>2, <1>3, <2>1, RowsSame
  <1>12. QED
    BY <1>2, <1>9, <1>10, <1>11 DEF IInv

\* A tab is opened or reloaded.
LEMMA OpenedInv ==
  ASSUME IInv, NEW t \in Tabs, Opened(t)
  PROVE  IInv'
  <1>1. \A x \in Slots : Mounted.call[x].token = None /\ Mounted.call[x].cookie = None
    <2>1. Mounted.call["profile"].token = None /\ Mounted.call["profile"].cookie = None
      BY MountedCalls DEF NoCall
    <2>2. QED
      BY Zenon, <2>1, MountedCalls, IdleCall
  <1>2. Mounted.call["login"].pc # "served" /\ Mounted.call["exit"].pc = "idle"
    BY MountedCalls, IdleCall, SlotNames
  <1>3. QED
    BY Zenon, <1>1, <1>2, MountedCalls, MountedTab, Constants, MadeAnew DEF Opened

\* The user comes back from Kakao.
LEMMA LoginReturnsInv ==
  ASSUME IInv, NEW t \in Tabs, NEW u \in Users, LoginReturns(t, u)
  PROVE  IInv'
  <1>1. tab' = [tab EXCEPT ![t] = LoginTab(u)]
    BY DEF LoginReturns, LoginTab
  <1>2. LoginTab(u).call["login"].pc # "served"
    BY Zenon, LoginTabOK
  <1>3. QED
    BY Zenon, <1>1, <1>2, LoginTabOK, MadeAnew DEF LoginReturns

\* A call that was sent is answered or waits for a refresh.
LEMMA CallMoves ==
  ASSUME NEW b \in Tab, TabOK(b), NEW c \in Slots, NEW R \in Tab,
         R.status = b.status /\ R.access = b.access /\ R.slips = b.slips /\ R.page = b.page,
         \A x \in Slots \ {c} : R.call[x] = b.call[x],
         b.call[c].pc = "sent",
         /\ R.call[c].op = b.call[c].op /\ R.call[c].rec = b.call[c].rec /\ R.call[c].save = b.call[c].save
         /\ R.call[c].day = b.call[c].day /\ R.call[c].user = b.call[c].user,
         \/ R.call[c].pc = "served" /\ R.call[c].op \in {"login", "logout"} /\ R.refresh = b.refresh
         \/ /\ R.call[c].pc = "refresh" /\ c # "login"
            /\ \/ R.refresh = b.refresh /\ b.refresh.pc # "none"
               \/ R.refresh.pc = "sent" /\ b.refresh.pc = "none"
  PROVE  TabOK(R)
  <1>1. b.status # "closed"
    BY OpenTab
  <1>2. \A x \in Slots : CallOK(R, x)
    <2>1. CallOK(R, c)
      BY DEF TabOK, CallsOK, CallOK
    <2>2. ASSUME NEW x \in Slots \ {c} PROVE CallOK(R, x)
      <3>1. CallOK(b, x) /\ R.call[x] = b.call[x] /\ (b.refresh.pc # "none" => R.refresh.pc # "none")
        BY DEF TabOK, CallsOK
      <3>2. QED
        BY <3>1 DEF CallOK
    <2>3. QED
      BY <2>1, <2>2
  <1>3. R.refresh.pc # "none" => \E x \in Slots : R.call[x].pc = "refresh"
    <2>1. CASE R.refresh = b.refresh /\ b.refresh.pc # "none"
      <3>1. PICK x \in Slots : b.call[x].pc = "refresh"
        BY <2>1 DEF TabOK, CallsOK
      <3>2. x # c
        BY <3>1
      <3>3. QED
        BY <3>1, <3>2
    <2>2. CASE R.call[c].pc = "refresh"
      BY <2>2
    <2>3. QED
      BY <2>1, <2>2
  <1>4. CallsOK(R)
    BY <1>2, <1>3 DEF TabOK, CallsOK
  <1>5. \A x \in Slots : /\ R.call[x].pc = "idle" <=> b.call[x].pc = "idle"
                         /\ R.call[x].pc = "sent" => R.call[x] = b.call[x]
                         /\ R.call[x].op = b.call[x].op /\ R.call[x].rec = b.call[x].rec
                         /\ R.call[x].save = b.call[x].save /\ R.call[x].day = b.call[x].day
    OBVIOUS
  <1>6. MountOK(R)
    <2>1. "profile" \in Slots /\ "login" \in Slots
      BY SlotNames
    <2>2. QED
      BY <1>1, <1>5, <2>1 DEF TabOK, MountOK
  <1>7. PageCallsOK(R)
    <2>1. {"page", "old"} \subseteq Slots /\ Days \subseteq Slots
      BY SlotNames DEF Days
    <2>2. QED
      BY <1>5, <2>1 DEF TabOK, PageCallsOK
  <1>8. QED
    BY <1>4, <1>6, <1>7 DEF TabOK

\* The server begins a session.
LEMMA LoginServedInv ==
  ASSUME IInv, NEW t \in Tabs, NEW s \in Sessions, LoginServed(t, s)
  PROVE  IInv'
  <1> DEFINE b == tab[t]  k == b.call["login"]
             n == [k EXCEPT !.pc = "served", !.token = <<s, 1>>]
             R == [b EXCEPT !.call["login"] = n]
  <1>1. /\ TypeOK /\ RowsOK /\ TokensOK /\ LoginsOK /\ RefreshesOK /\ GroupOK
        /\ tab \in [Tabs -> Tab] /\ \A x \in Tabs : TabOK(tab[x])
    BY DEF IInv, TypeOK
  <1>2. /\ b \in Tab /\ k \in Call /\ "login" \in Slots /\ k.pc = "sent" /\ k.op = "login"
        /\ k.user \in Users /\ k.user # None
    <2>1. "login" \in Slots
      BY SlotNames
    <2>2. b \in Tab /\ k \in Call /\ CallOK(b, "login") /\ k.pc = "sent"
      BY <1>1, <2>1 DEF Tab, TabOK, CallsOK, LoginServed
    <2>3. QED
      BY <2>1, <2>2, SlotNames DEF CallOK, Call
  <1>3. <<s, 1>> \in Tokens /\ <<s, 1>> # None /\ <<s, 1>>[1] = s /\ <<s, 1>>[2] = 1
    BY Pairs
  <1>4. n \in Call /\ n.pc = "served" /\ n.op = "login" /\ n.token = <<s, 1>> /\ n.user = k.user
        /\ n.cookie = k.cookie /\ n.rec = k.rec /\ n.save = k.save /\ n.day = k.day
    BY Zenon, <1>2, <1>3 DEF Call
  <1> HIDE DEF n
  <1>5. /\ R \in Tab /\ R.call = [b.call EXCEPT !["login"] = n]
        /\ R.status = b.status /\ R.shown = b.shown /\ R.access = b.access /\ R.refresh = b.refresh
        /\ R.page = b.page /\ R.slips = b.slips /\ R.out = b.out
    BY <1>2, <1>4 DEF Tab
  <1>6. R.call["login"] = n /\ \A x \in Slots \ {"login"} : R.call[x] = b.call[x]
    BY <1>2, <1>5 DEF Tab
  <1>7. tab' = [tab EXCEPT ![t] = R]
    BY DEF LoginServed, n
  <1> HIDE DEF R
  <1>8. Moves(t, R)
    BY Zenon, <1>1, <1>5, <1>7, OneMoves
  <1>9. session' = [session EXCEPT ![s] = [user |-> k.user, gen |-> 1, alive |-> TRUE]]
        /\ session[s].user = None
        /\ UNCHANGED <<expired, rows, cookie, reused, raced>>
    BY DEF LoginServed
  <1>10. TypeOK'
    BY <1>1, <1>2, <1>5, <1>7, <1>9 DEF TypeOK
  <1>11. session'[s].user = k.user /\ session'[s].gen = 1 /\ session'[s].alive
         /\ \A r \in Sessions \ {s} : session'[r] = session[r]
    BY <1>1, <1>9 DEF TypeOK
  <1>12. TabOK(R)
    <2>1. /\ R.call["login"].op = k.op /\ R.call["login"].rec = k.rec /\ R.call["login"].save = k.save
          /\ R.call["login"].day = k.day /\ R.call["login"].user = k.user
          /\ R.call["login"].pc = "served" /\ R.call["login"].op \in {"login", "logout"}
      BY <1>2, <1>4, <1>6
    <2>2. TabOK(b)
      BY <1>1
    <2> HIDE DEF b
    <2>3. QED
      BY Zenon, <1>2, <1>5, <1>6, <2>1, <2>2, CallMoves
  <1>13. \A x \in Tabs : TabOK(tab[x])'
    BY <1>1, <1>8, <1>12, TabsMove
  <1>14. RowsOK'
    <2>1. \A d \in Days : R.call[d] = b.call[d]
      BY <1>6, SlotNames DEF Days
    <2>2. RowsStay /\ Unharmed(R.page)
      BY <1>9, NothingWritten
    <2>3. Keeps(R)
      BY Zenon, <1>1, <1>5, <2>1, <2>2, KeepsSame
    <2>4. QED
      BY <1>1, <1>5, <1>8, <1>9, <1>10, <2>3, RowsSame
  <1>15. ASSUME NEW q \in Tokens, Begun(q), q # None
         PROVE  q[1] # s /\ session'[q[1]] = session[q[1]]
    BY <1>9, <1>11, <1>15, TokenParts DEF Begun, UserOf
  <1>16. /\ \A x \in Tabs : /\ tab'[x].access = tab[x].access /\ tab'[x].refresh = tab[x].refresh
                            /\ tab'[x].status = tab[x].status /\ tab'[x].shown = tab[x].shown
                            /\ tab'[x].slips = tab[x].slips /\ tab'[x].out = tab[x].out
                            /\ tab'[x].page = tab[x].page
                            /\ \A c \in Slots \ {"login"} : tab'[x].call[c] = tab[x].call[c]
                            /\ x # t => tab'[x].call["login"] = tab[x].call["login"]
         /\ tab'[t].call["login"] = n
    BY Zenon, <1>1, <1>5, <1>6, <1>7
  <1>17. ASSUME NEW x \in Tabs
         PROVE  /\ tab[x].access \in Tokens /\ Begun(tab[x].access)
                /\ tab[x].refresh.cookie \in Tokens /\ Begun(tab[x].refresh.cookie)
                /\ \A c \in Slots : /\ tab[x].call[c].token \in Tokens /\ Begun(tab[x].call[c].token)
                                     /\ tab[x].call[c].cookie \in Tokens /\ Begun(tab[x].call[c].cookie)
    BY <1>1 DEF TypeOK, TokensOK, Tab, Call, Refresh
  <1>18. cookie \in Tokens /\ Begun(cookie)
    BY <1>1 DEF TypeOK, TokensOK
  <1>19. TokensOK'
    <2> DEFINE B(q) == q # None => session'[q[1]].user # None
    <2>1. \A q \in Tokens : Begun(q) => B(q)
      BY <1>15 DEF Begun, UserOf
    <2>2. B(n.token)
      BY <1>2, <1>3, <1>4, <1>11
    <2>3. \A r \in Sessions : session'[r].user = None => ~session'[r].alive
      BY <1>1, <1>2, <1>11 DEF TokensOK
    <2> HIDE DEF B
    <2>4. B(cookie')
      BY <1>9, <1>18, <2>1
    <2>5. \A x \in Tabs : /\ B(tab'[x].access) /\ B(tab'[x].refresh.cookie)
                         /\ \A c \in Slots : B(tab'[x].call[c].token) /\ B(tab'[x].call[c].cookie)
      BY <1>4, <1>16, <1>17, <2>1, <2>2
    <2>6. QED
      BY <2>3, <2>4, <2>5 DEF TokensOK, B, Begun, UserOf
  <1>20. LoginsOK'
    <2> SUFFICES ASSUME NEW x \in Tabs, tab'[x].call["login"].pc = "served"
                 PROVE  LET q == tab'[x].call["login"]
                        IN  /\ q.token # None /\ q.token[2] = 1
                            /\ session'[q.token[1]].user = q.user /\ session'[q.token[1]].gen = 1
                            /\ ~Of(cookie', q.token[1])
                            /\ \A y \in Tabs : /\ ~Of(tab'[y].refresh.cookie, q.token[1])
                                               /\ y # x => ~Of(tab'[y].call["login"].token, q.token[1])
      BY DEF LoginsOK, UserOf
    <2>1. CASE x = t
      <3>1. ~Of(cookie, s) /\ \A y \in Tabs : ~Of(tab[y].refresh.cookie, s) /\ ~Of(tab[y].call["login"].token, s)
        BY <1>2, <1>15, <1>17, <1>18 DEF Of
      <3>2. tab'[t].call["login"] = n /\ n.token = <<s, 1>> /\ n.user = k.user
        BY ONLY <1>16, <1>4, <1>2
      <3> DEFINE q == tab'[x].call["login"]
      <3>3. q.token # None /\ q.token[2] = 1 /\ q.token[1] = s /\ q.user = k.user
        BY <1>3, <2>1, <3>2
      <3>4. session'[s].user = k.user /\ session'[s].gen = 1 /\ cookie' = cookie
        BY <1>9, <1>11
      <3>5. \A y \in Tabs : /\ ~Of(tab'[y].refresh.cookie, s)
                            /\ y # x => ~Of(tab'[y].call["login"].token, s)
        BY <1>16, <2>1, <3>1
      <3> HIDE DEF q
      <3>6. /\ q.token # None /\ q.token[2] = 1
            /\ session'[q.token[1]].user = q.user /\ session'[q.token[1]].gen = 1
            /\ ~Of(cookie', q.token[1])
            /\ \A y \in Tabs : /\ ~Of(tab'[y].refresh.cookie, q.token[1])
                               /\ y # x => ~Of(tab'[y].call["login"].token, q.token[1])
        BY ONLY <3>1, <3>3, <3>4, <3>5
      <3>7. QED
        BY ONLY <3>6 DEF q
    <2>2. CASE x # t
      <3> DEFINE q == tab[x].call["login"]
      <3>1. tab'[x].call["login"] = q /\ q.pc = "served" /\ q.token \in Tokens /\ Begun(q.token)
        BY <1>2, <1>16, <1>17, <2>2
      <3>2. /\ q.token # None /\ q.token[2] = 1
            /\ session[q.token[1]].user = q.user /\ session[q.token[1]].gen = 1
            /\ ~Of(cookie, q.token[1])
            /\ \A y \in Tabs : /\ ~Of(tab[y].refresh.cookie, q.token[1])
                               /\ y # x => ~Of(tab[y].call["login"].token, q.token[1])
        BY <1>1, <3>1 DEF LoginsOK, UserOf
      <3>3. q.token[1] # s /\ session'[q.token[1]] = session[q.token[1]]
        BY <1>15, <3>1, <3>2
      <3> HIDE DEF q
      <3>4. ~Of(n.token, q.token[1])
        BY <1>3, <1>4, <3>3 DEF Of
      <3>5. QED
        BY <1>9, <1>16, <2>2, <3>1, <3>2, <3>3, <3>4
    <2>3. QED
      BY <2>1, <2>2
  <1>21. RefreshesOK'
    <2> DEFINE New(q) == session'[q[1]].alive /\ q[1] \notin raced => q[2] = session'[q[1]].gen
    <2>1. \A q \in Tokens : Begun(q) /\ q # None /\ Newest(q) => New(q)
      BY <1>15 DEF Newest
    <2> HIDE DEF New
    <2>2. \A x \in Tabs : tab[x].refresh.pc \in {"sent", "rotated"} /\ tab[x].refresh.cookie # None =>
              New(tab[x].refresh.cookie)
      BY <1>1, <1>17, <2>1 DEF RefreshesOK
    <2>3. cookie # None =>
             New(cookie) \/ \E x \in Tabs : tab[x].refresh.pc = "rotated" /\ Of(tab[x].refresh.cookie, cookie[1])
      BY <1>1, <1>18, <2>1 DEF RefreshesOK
    <2>4. \A x \in Tabs : tab'[x].refresh = tab[x].refresh
      BY <1>16
    <2>5. QED
      BY <1>1, <1>9, <2>2, <2>3, <2>4 DEF RefreshesOK, New, Newest
  <1>22. GroupOK'
    <2> DEFINE Held1(r) == Of(cookie', r) \/ \E x \in Tabs : tab'[x].slips = {} /\ Holds(tab'[x], r)
    <2>1. \A r \in Sessions : Held1(r) => Held(r)
      BY <1>9, <1>16 DEF Held, Holds
    <2>2. \A r \in Sessions : Held(r) => session[r].user # None
      BY <1>1, BegunSessions DEF Held
    <2>3. \A r \in Sessions : Held1(r) => session'[r] = session[r]
      BY <1>9, <1>11, <2>1, <2>2
    <2> HIDE DEF Held1
    <2>4. OneSession'
      <3>1. \A p, r \in Sessions : Held1(p) /\ Held1(r) => p = r
        BY <1>1, <2>1 DEF GroupOK, OneSession
      <3>2. QED
        BY <3>1 DEF OneSession, Held1, Held
    <2>5. ASSUME NEW x \in Tabs, tab'[x].slips = {}
          PROVE  ShowsUser(tab[x])' /\ UserAgrees(tab[x])' /\ LogoutOK(tab[x])'
      <3>1. ShowsUser(tab[x]) /\ UserAgrees(tab[x]) /\ LogoutOK(tab[x])
        BY <1>1, <1>16, <2>5 DEF GroupOK
      <3>2. ShowsUser(tab[x])'
        BY <1>15, <1>16, <1>17, <3>1 DEF ShowsUser, UserOf
      <3>3. UserAgrees(tab[x])'
        <4>1. \A r \in Sessions : Held1(r) =>
                 /\ tab'[x].page.step # "idle" => session'[r].user = tab'[x].page.user
                 /\ tab'[x].out => ~session'[r].alive
          BY <1>16, <2>1, <2>3, <3>1 DEF UserAgrees
        <4>2. QED
          BY <4>1 DEF UserAgrees, Held, Held1
      <3>4. LogoutOK(tab[x])'
        <4>1. "exit" \in Slots \ {"login"}
          BY SlotNames
        <4>2. QED
          BY <1>15, <1>16, <1>17, <3>1, <4>1 DEF LogoutOK
      <3>5. QED
        BY <3>2, <3>3, <3>4
    <2>6. QED
      BY <2>4, <2>5 DEF GroupOK
  <1>23. QED
    BY <1>10, <1>13, <1>14, <1>19, <1>20, <1>21, <1>22 DEF IInv

\* A step after which every open tab but its own stands beside another.
LEMMA AllBeside ==
  ASSUME NEW t \in Tabs, \A x \in Tabs \ {t} : tab'[x].slips # {} \/ tab'[x] = Closed,
         tab'[t].slips = {} =>
             /\ \A s \in Sessions : Holds(tab'[t], s) => Of(cookie', s)
             /\ tab'[t].status = "authenticated" =>
                   tab'[t].access # None /\ session'[tab'[t].access[1]].user = tab'[t].shown
             /\ tab'[t].page.step = "idle" /\ ~tab'[t].out /\ tab'[t].call["exit"].pc # "served"
  PROVE  GroupOK'
  <1>1. \A s \in Sessions : ~Holds(Closed, s)
    BY ClosedTab, IdleCall DEF Holds, Of, NoRefresh
  <1>2. \A s \in Sessions : (Of(cookie', s) \/ \E x \in Tabs : tab'[x].slips = {} /\ Holds(tab'[x], s)) =>
            Of(cookie', s)
    BY <1>1
  <1>3. OneSession'
    BY <1>2 DEF OneSession, Held, Of
  <1>4. ASSUME NEW x \in Tabs, tab'[x].slips = {}
        PROVE  /\ tab'[x].status = "authenticated" =>
                     tab'[x].access # None /\ session'[tab'[x].access[1]].user = tab'[x].shown
               /\ tab'[x].page.step = "idle" /\ ~tab'[x].out /\ tab'[x].call["exit"].pc # "served"
    <2>1. CASE x = t
      BY <1>4, <2>1
    <2>2. CASE x # t
      <3>1. tab'[x] = Closed
        BY <1>4, <2>2
      <3>2. Closed.call["exit"].pc = "idle" /\ Closed.page.step = "idle" /\ Closed.status = "closed"
        BY ClosedTab, NoPageOK, IdleCall, SlotNames
      <3>3. QED
        BY <3>1, <3>2, ClosedTab
    <2>3. QED
      BY <2>1, <2>2
  <1>5. QED
    BY <1>3, <1>4 DEF GroupOK, ShowsUser, UserAgrees, LogoutOK, UserOf

\* A tab whose cookie was replaced has stepped aside.
LEMMA BesideAside ==
  ASSUME NEW b \in Tab, TabOK(b)
  PROVE  Aside(b, Beside(b)) /\ (Beside(b).slips # {} \/ Beside(b) = Closed)
  <1>1. CASE b.status = "closed"
    BY <1>1, AsideSame DEF Beside, TabOK, MountOK
  <1>2. CASE b.status # "closed"
    BY <1>2 DEF Beside, Aside, Tab
  <1>3. QED
    BY <1>1, <1>2

\* The answer of a login replaces the cookie.
LEMMA LoginArrivesInv ==
  ASSUME IInv, NEW t \in Tabs, LoginArrives(t)
  PROVE  IInv'
  <1> DEFINE b == tab[t]  k == b.call["login"]  w == Without(b, "login")
             R == [b EXCEPT !.call["login"] = NoCall, !.access = k.token, !.shown = k.user,
                            !.status = "authenticated", !.out = FALSE,
                            !.slips = IF b.call["profile"].pc = "idle" THEN @ ELSE @ \cup {"mount"}]
  <1>1. /\ TypeOK /\ RowsOK /\ TokensOK /\ LoginsOK /\ RefreshesOK /\ GroupOK
        /\ tab \in [Tabs -> Tab] /\ \A x \in Tabs : TabOK(tab[x])
    BY DEF IInv, TypeOK
  <1>2. /\ b \in Tab /\ k \in Call /\ "login" \in Slots /\ "profile" \in Slots /\ k.pc = "served" /\ TabOK(b)
        /\ k.user \in Users /\ k.user # None /\ k.token \in Tokens
    <2>1. "login" \in Slots /\ "profile" \in Slots
      BY SlotNames
    <2>2. k.pc = "served"
      BY Zenon DEF LoginArrives
    <2>3. b \in Tab /\ k \in Call /\ CallOK(b, "login") /\ TabOK(b)
      BY <1>1, <2>1 DEF Tab, TabOK, CallsOK
    <2>4. QED
      BY <2>1, <2>2, <2>3 DEF CallOK, Call
  <1>3. /\ k.token # None /\ k.token[2] = 1 /\ k.token[1] \in Sessions
        /\ session[k.token[1]].user = k.user /\ session[k.token[1]].gen = 1
    BY <1>1, <1>2, TokenParts DEF LoginsOK, UserOf
  <1>4. /\ w \in Tab /\ w.call["login"] = NoCall
        /\ \A x \in Slots \ {"login"} : w.call[x] = b.call[x]
        /\ w.refresh = b.refresh
    BY <1>2, WithoutTab
  <1>5. /\ R \in Tab /\ R.call = w.call /\ R.access = k.token /\ R.shown = k.user /\ R.refresh = b.refresh
        /\ R.status = "authenticated" /\ R.out = FALSE /\ R.page = b.page
        /\ R.slips = IF b.call["profile"].pc = "idle" THEN b.slips ELSE b.slips \cup {"mount"}
    BY Zenon, <1>2, Constants DEF Without, Tab
  <1>6. tab' = [x \in Tabs |-> IF x = t THEN R ELSE Beside(tab[x])] /\ cookie' = k.token
        /\ UNCHANGED <<session, expired, rows, reused, raced>>
    BY Zenon DEF LoginArrives
  <1> HIDE DEF R, w
  <1>7. \A x \in Tabs : tab'[x] = IF x = t THEN R ELSE Beside(tab[x])
    BY <1>6
  <1>8. \A x \in Tabs \ {t} : Aside(tab[x], tab'[x]) /\ (tab'[x].slips # {} \/ tab'[x] = Closed)
    BY <1>1, <1>7, BesideAside
  <1>9. Moves(t, R)
    <2>1. \A x \in Tabs : tab'[x] \in Tab
      BY Zenon, <1>5, <1>7, <1>8 DEF Aside
    <2>2. QED
      BY <1>6, <1>7, <1>8, <2>1 DEF Moves
  <1>10. TypeOK'
    BY <1>1, <1>2, <1>6, <1>9 DEF TypeOK, Moves
  <1>11. /\ b.page = NoPage /\ R.page = NoPage
         /\ \A x \in Slots \ {"profile"} : R.call[x].pc = "idle"
    BY <1>2, <1>4, <1>5, IdleCall DEF TabOK, MountOK
  <1>12. TabOK(R)
    <2>1. CallsOK(R)
      <3>1. CallsOK(w)
        BY <1>2, WithoutCalls DEF TabOK, w
      <3>2. QED
        BY <3>1, <1>4, <1>5 DEF CallsOK, CallOK
    <2>2. MountOK(R)
      <3>1. R.call["profile"] = b.call["profile"] /\ R.call["login"].pc = "idle"
        BY <1>2, <1>4, <1>5, <1>11
      <3>2. R.status = "authenticated" /\ (R.call["profile"].pc # "idle" => "mount" \in R.slips)
        BY <1>5, <3>1
      <3>3. QED
        BY <3>1, <3>2 DEF MountOK
    <2>3. PageCallsOK(R)
      <3>1. /\ R.call["page"].pc = "idle" /\ R.call["old"].pc = "idle"
            /\ \E d \in Days : R.call[d].pc = "idle"
        BY <1>11, SlotNames DEF Days
      <3>2. QED
        BY <1>11, <3>1, NoPageOK DEF PageCallsOK
    <2>4. QED
      BY <1>11, <2>1, <2>2, <2>3, NoPageOK DEF TabOK
  <1>13. \A x \in Tabs : TabOK(tab[x])'
    BY <1>1, <1>9, <1>12, TabsMove
  <1>14. SessionsStay
    BY <1>6 DEF SessionsStay
  <1>15. LoginSame(b, R)
    BY <1>4, <1>5, IdleCall DEF LoginSame
  <1>16. TokensOK'
    <2>1. \A s \in Sessions : Holds(R, s) => session[s].user # None
      <3>1. \A s \in Sessions : Holds(R, s) => Holds(b, s) \/ s = k.token[1]
        BY <1>4, <1>5 DEF Holds, Of
      <3>2. QED
        BY <1>1, <1>2, <1>3, <3>1, BegunSessions
    <2>2. Begun(cookie')
      BY <1>2, <1>3, <1>6 DEF Begun, UserOf
    <2>3. QED
      BY <1>1, <1>9, <1>10, <1>14, <1>15, <2>1, <2>2, TokensMove
  <1>17. LoginsOK'
    <2>1. R.call["login"].pc # "served"
      BY <1>11, SlotNames
    <2>2. \A s \in Sessions :
             /\ session'[s].user = session[s].user
             /\ session'[s].gen = session[s].gen \/ Refreshing(b, s)
             /\ Refreshing(R, s) => Refreshing(b, s) \/ Of(cookie, s)
             /\ Of(cookie', s) => \/ Of(cookie, s) \/ Refreshing(b, s)
                                  \/ k.pc = "served" /\ R.call["login"].pc # "served" /\ Of(k.token, s)
      BY <1>2, <1>5, <1>6, <2>1 DEF Refreshing
    <2>3. QED
      BY ONLY <1>1, <1>9, <1>10, <1>15, <2>2, t \in Tabs, LoginsMove
  <1>18. RefreshesOK'
    <2>1. \A x \in Tabs : tab'[x].refresh = tab[x].refresh
      BY Zenon, <1>5, <1>7, <1>8 DEF Aside
    <2>2. k.token[2] = session'[k.token[1]].gen
      BY <1>3, <1>6
    <2> HIDE DEF b, k
    <2>3. QED
      BY <1>1, <1>6, <2>1, <2>2 DEF RefreshesOK, Newest
  <1>19. GroupOK'
    <2>1. R.slips = {} => \A s \in Sessions : Holds(R, s) => Of(cookie', s)
      <3> SUFFICES ASSUME R.slips = {}, NEW s \in Sessions, Holds(R, s) PROVE Of(cookie', s)
        OBVIOUS
      <3>1. b.call["profile"].pc = "idle"
        BY <1>5
      <3>2. \A x \in Slots : R.call[x].pc = "idle"
        BY <1>2, <1>4, <1>5, <1>11, <3>1
      <3>3. R.refresh = NoRefresh /\ \A x \in Slots : R.call[x] = NoCall
        BY <1>12, <3>2 DEF TabOK, CallsOK, CallOK
      <3>4. Of(R.access, s)
        BY <3>3, IdleCall DEF Holds, Of, NoRefresh
      <3>5. QED
        BY <1>5, <1>6, <3>4
    <2>2. R.call["exit"].pc = "idle" /\ R.page.step = "idle"
      BY <1>11, SlotNames, NoPageOK
    <2>3. tab'[t] = R
      BY <1>7
    <2>4. R.access # None /\ session'[R.access[1]].user = R.shown /\ ~R.out
      BY <1>3, <1>5, <1>6
    <2> HIDE DEF b, k
    <2>5. QED
      BY Zenon, <1>8, <2>1, <2>2, <2>3, <2>4, AllBeside
  <1>20. RowsOK'
    <2>1. Keeps(R) /\ R.page.made = None
      BY <1>11, NoPageOK DEF Keeps
    <2>2. QED
      BY <1>1, <1>6, <1>9, <1>10, <2>1, RowsSame
  <1>21. QED
    BY <1>10, <1>13, <1>16, <1>17, <1>18, <1>19, <1>20 DEF IInv

\* A tab at rest with its user signed in can ask for something.
LEMMA SignedInTab ==
  ASSUME IInv, NEW t \in Tabs, SignedIn(tab[t])
  PROVE  /\ tab[t] \in Tab /\ TabOK(tab[t]) /\ tab[t].status = "authenticated"
         /\ tab[t].call["login"].pc = "idle"
         /\ tab[t].call["profile"].pc = "idle" \/ "mount" \in tab[t].slips
         /\ tab[t].slips = {} =>
               /\ tab[t].access # None /\ session[tab[t].access[1]].user = tab[t].shown
               /\ \A s \in Sessions : Held(s) => s = tab[t].access[1]
  <1>1. tab[t] \in Tab /\ TabOK(tab[t]) /\ tab[t].status = "authenticated" /\ tab[t].call["login"].pc = "idle"
    BY DEF IInv, TypeOK, SignedIn
  <1>2. tab[t].call["profile"].pc = "idle" \/ "mount" \in tab[t].slips
    BY <1>1 DEF TabOK, MountOK
  <1>3. ASSUME tab[t].slips = {}
        PROVE  /\ tab[t].access # None /\ session[tab[t].access[1]].user = tab[t].shown
               /\ \A s \in Sessions : Held(s) => s = tab[t].access[1]
    <2>1. tab[t].access # None /\ session[tab[t].access[1]].user = tab[t].shown
      BY <1>1, <1>3 DEF IInv, GroupOK, ShowsUser, UserOf
    <2>2. tab[t].access[1] \in Sessions /\ Held(tab[t].access[1])
      <3>1. tab[t].access \in Tokens
        BY <1>1 DEF Tab
      <3>2. tab[t].access[1] \in Sessions
        BY <2>1, <3>1, TokenParts
      <3>3. QED
        BY <1>3, <2>1, <3>2, HeldByTab DEF Holds, Of
    <2>3. QED
      BY <2>1, <2>2 DEF IInv, GroupOK, OneSession
  <1>4. QED
    BY <1>1, <1>2, <1>3

\* The settings send a call.
LEMMA ExitAskedInv ==
  ASSUME IInv, NEW t \in Tabs, NEW op \in Ops, ExitAsked(t, op)
  PROVE  IInv'
  <1> DEFINE b == tab[t]  n == [Sent(b, op) EXCEPT !.cookie = cookie]
             R == [b EXCEPT !.call["exit"] = n]
  <1>1. /\ TypeOK /\ RowsOK /\ RefreshesOK /\ GroupOK /\ tab \in [Tabs -> Tab] /\ \A x \in Tabs : TabOK(tab[x])
    BY DEF IInv, TypeOK
  <1>2. /\ b \in Tab /\ TabOK(b) /\ b.status = "authenticated" /\ b.call["login"].pc = "idle"
        /\ b.call["profile"].pc = "idle" \/ "mount" \in b.slips
    BY SignedInTab DEF ExitAsked
  <1>3. /\ b.call["exit"].pc = "idle" /\ op \in {"logout", "withdraw", "clear"}
        /\ tab' = [tab EXCEPT ![t] = R] /\ UNCHANGED <<session, expired, rows, cookie, reused, raced>>
    BY DEF ExitAsked
  <1>4. /\ n \in Call /\ n.pc = "sent" /\ n.op = op /\ n.token = b.access /\ n.cookie = cookie
    <2>1. /\ Sent(b, op) \in Call /\ Sent(b, op).pc = "sent" /\ Sent(b, op).op = op
          /\ Sent(b, op).token = b.access
      BY <1>2, SentCall
    <2> HIDE DEF b
    <2>2. QED
      BY <1>1, <2>1 DEF Call, TypeOK
  <1>5. "exit" \in Slots /\ "login" \in Slots /\ "profile" \in Slots
    BY SlotNames
  <1> HIDE DEF n
  <1>6. /\ R \in Tab /\ R.status = b.status /\ R.shown = b.shown /\ R.access = b.access
        /\ R.refresh = b.refresh /\ R.page = b.page /\ R.slips = b.slips /\ R.out = b.out
        /\ R.call["exit"] = n /\ \A x \in Slots \ {"exit"} : R.call[x] = b.call[x]
    BY <1>2, <1>4, <1>5 DEF Tab
  <1> HIDE DEF R
  <1>7. Moves(t, R)
    BY Zenon, <1>1, <1>3, <1>6, OneMoves
  <1>8. TypeOK'
    BY <1>1, <1>3, <1>6 DEF TypeOK
  <1>9. TabOK(R)
    <2>1. \A x \in Slots : CallOK(R, x)
      <3>1. CallOK(R, "exit")
        BY <1>3, <1>4, <1>6, SlotNames DEF CallOK
      <3>2. ASSUME NEW x \in Slots \ {"exit"} PROVE CallOK(R, x)
        <4>1. CallOK(b, x)
          BY <1>2 DEF TabOK, CallsOK
        <4>2. QED
          BY <1>6, <4>1 DEF CallOK
      <3>3. QED
        BY <3>1, <3>2
    <2>2. R.refresh.pc # "none" => \E x \in Slots : R.call[x].pc = "refresh"
      <3> SUFFICES ASSUME R.refresh.pc # "none" PROVE \E x \in Slots : R.call[x].pc = "refresh"
        OBVIOUS
      <3>1. PICK x \in Slots : b.call[x].pc = "refresh"
        BY <1>2, <1>6 DEF TabOK, CallsOK
      <3>2. x # "exit"
        BY <1>3, <3>1
      <3>3. QED
        BY <1>6, <3>1, <3>2
    <2>3. CallsOK(R)
      BY <1>2, <1>6, <2>1, <2>2 DEF TabOK, CallsOK
    <2>4. MountOK(R)
      BY <1>2, <1>5, <1>6 DEF MountOK
    <2>5. PageCallsOK(R)
      <3>1. \A x \in {"page", "old", "day1", "day2"} : R.call[x] = b.call[x]
        BY <1>6, SlotNames
      <3>2. QED
        BY <1>2, <1>6, <3>1 DEF TabOK, PageCallsOK, Days
    <2>6. QED
      BY <1>2, <1>6, <2>3, <2>4, <2>5 DEF TabOK
  <1>10. NoNewToken(b, R)
    <2>1. R.call["login"] = b.call["login"]
      BY <1>5, <1>6
    <2>2. \A s \in Sessions : Holds(R, s) => Holds(b, s) \/ Of(cookie, s)
      BY <1>4, <1>6 DEF Holds
    <2>3. QED
      BY <2>1, <2>2 DEF NoNewToken, LoginSame
  <1>11. SessionsStay
    BY <1>3 DEF SessionsStay
  <1>12. ASSUME R.slips = {} PROVE Belongs(R) /\ \A s \in Sessions : Holds(R, s) => Held(s)
    <2>1. b.slips = {}
      BY <1>6, <1>12
    <2>2. Looks(b, R)
      BY <1>6 DEF Looks
    <2>3. R.status = "authenticated" => R.access # None /\ session[R.access[1]].user = R.shown
      BY <1>1, <2>1, <2>2, LooksStill
    <2>4. R.call["exit"].pc # "served"
      BY <1>4, <1>6
    <2>5. Belongs(R)
      BY <1>1, <1>6, <1>11, <2>1, <2>3, <2>4, BelongsStill
    <2>6. QED
      BY <1>10, <2>1, <2>5, HeldByTab DEF NoNewToken
  <1>13. \A s \in Sessions :
             /\ session'[s].gen = session[s].gen \/ Refreshing(b, s)
             /\ Refreshing(R, s) => Refreshing(b, s) \/ Of(cookie, s)
             /\ Of(cookie', s) => Of(cookie, s) \/ (b.slips = {} /\ Refreshing(b, s))
    BY <1>3, <1>6 DEF Refreshing
  <1>14. (\A x \in Tabs : TabOK(tab[x])') /\ TokensOK' /\ LoginsOK' /\ GroupOK'
    BY <1>7, <1>8, <1>9, <1>10, <1>11, <1>12, <1>13, PlainMove
  <1>15. RefreshesOK'
    BY <1>1, <1>3, <1>6, <1>7, <1>8, <1>11, RefreshesMove
  <1>16. RowsOK'
    <2>1. \A d \in Days : R.call[d] = b.call[d]
      BY <1>6, SlotNames DEF Days
    <2>2. RowsStay /\ Unharmed(R.page)
      BY <1>3, NothingWritten
    <2>3. Keeps(R)
      BY <1>1, <1>6, <2>1, <2>2, KeepsSame
    <2>4. QED
      BY <1>1, <1>3, <1>6, <1>7, <1>8, <2>3, RowsSame
  <1>17. QED
    BY <1>8, <1>14, <1>15, <1>16 DEF IInv

\* A page begins: R is tab t with a page q for the user it shows, whose first
\* call is about to be sent.
LEMMA PageBegins ==
  ASSUME IInv, NEW t \in Tabs, SignedIn(tab[t]),
         NEW c, PageFree(c), NEW op \in PageOps \ {"write"}, NEW R, R = Step(c, op),
         PageOK([c.page EXCEPT !.step = op]),
         op = "update" => \A d \in Days : c.call[d].pc = "idle",
         c.page.user = tab[t].shown,
         /\ c.status = tab[t].status /\ c.shown = tab[t].shown /\ c.access = tab[t].access
         /\ c.refresh = tab[t].refresh /\ c.slips = tab[t].slips /\ c.out = tab[t].out
         /\ c.call["login"] = tab[t].call["login"] /\ c.call["exit"] = tab[t].call["exit"],
         \A s \in Sessions : Holds(c, s) => Holds(tab[t], s),
         tab' = [tab EXCEPT ![t] = R], UNCHANGED <<session, expired, rows, cookie, reused, raced>>,
         R.page.made = None, Keeps(R)
  PROVE  IInv'
  <1> DEFINE b == tab[t]
  <1>1. /\ TypeOK /\ RowsOK /\ RefreshesOK /\ GroupOK /\ tab \in [Tabs -> Tab] /\ \A x \in Tabs : TabOK(tab[x])
    BY DEF IInv, TypeOK
  <1>2. /\ Same(c, R) /\ TabOK(R) /\ R.page = [c.page EXCEPT !.step = op]
    BY StepSame
  <1>3. /\ R \in Tab /\ R.status = b.status /\ R.shown = b.shown /\ R.access = b.access
        /\ R.refresh = b.refresh /\ R.slips = b.slips /\ R.out = b.out
        /\ R.call["login"] = b.call["login"] /\ R.page.user = b.shown
    BY <1>2 DEF Same
  <1>4. R.call["exit"] = b.call["exit"] \/ R.call["exit"].pc # "served"
    <2>1. "exit" \in Slots
      BY SlotNames
    <2>2. QED
      BY <1>2, <2>1 DEF Same
  <1>5. Moves(t, R)
    BY Zenon, <1>1, <1>3, OneMoves
  <1>6. TypeOK'
    BY <1>1, <1>3 DEF TypeOK
  <1>7. NoNewToken(b, R)
    <2>1. \A s \in Sessions : Holds(R, s) => Holds(c, s)
      <3>1. R.access = c.access /\ R.refresh = c.refresh
            /\ \A x \in Slots : \/ R.call[x] = c.call[x] \/ R.call[x] = NoCall
                                \/ R.call[x].token = c.access /\ R.call[x].cookie = None
        BY <1>2 DEF Same
      <3>2. QED
        BY <3>1, HoldsLess
    <2>2. QED
      BY <1>3, <2>1 DEF NoNewToken, LoginSame
  <1>8. SessionsStay
    BY DEF SessionsStay
  <1>9. ASSUME R.slips = {} PROVE Belongs(R) /\ \A s \in Sessions : Holds(R, s) => Held(s)
    <2>1. b.slips = {} /\ UserAgrees(b) /\ LogoutOK(b)
      BY Zenon, <1>1, <1>3, <1>9 DEF GroupOK
    <2>2. /\ b.access # None /\ session[b.access[1]].user = b.shown
          /\ \A s \in Sessions : Held(s) => s = b.access[1]
      BY <2>1, SignedInTab
    <2>3. \A s \in Sessions : Held(s) => session[s].user = R.page.user /\ (R.out => ~session'[s].alive)
      BY <1>3, <2>1, <2>2 DEF UserAgrees
    <2>4. R.call["exit"].pc = "served" /\ R.call["exit"].cookie # None =>
              ~session'[R.call["exit"].cookie[1]].alive
      BY <1>4, <2>1 DEF LogoutOK
    <2>5. Belongs(R)
      BY <1>3, <2>2, <2>3, <2>4 DEF Belongs
    <2>6. QED
      BY <1>7, <2>1, <2>5, HeldByTab DEF NoNewToken
  <1>10. \A s \in Sessions :
             /\ session'[s].gen = session[s].gen \/ Refreshing(b, s)
             /\ Refreshing(R, s) => Refreshing(b, s) \/ Of(cookie, s)
             /\ Of(cookie', s) => Of(cookie, s) \/ (b.slips = {} /\ Refreshing(b, s))
    BY <1>3 DEF Refreshing
  <1>11. (\A x \in Tabs : TabOK(tab[x])') /\ TokensOK' /\ LoginsOK' /\ GroupOK'
    BY <1>2, <1>5, <1>6, <1>7, <1>8, <1>9, <1>10, PlainMove
  <1>12. RefreshesOK'
    BY <1>1, <1>3, <1>5, <1>6, <1>8, RefreshesMove
  <1>13. RowsOK'
    BY <1>1, <1>5, <1>6, RowsSame
  <1>14. QED
    BY <1>6, <1>11, <1>12, <1>13 DEF IInv

\* A new record is submitted.
LEMMA SubmitAskedInv ==
  ASSUME IInv, NEW t \in Tabs, NEW note \in BOOLEAN, NEW place \in BOOLEAN, SubmitAsked(t, note, place)
  PROVE  IInv'
  <1> DEFINE b == tab[t]
             q == [NoPage EXCEPT !.user = b.shown, !.note = note, !.place = place, !.left = Files]
             c == [b EXCEPT !.page = q]
             R == Step(c, "create")
  <1>1. /\ b \in Tab /\ TabOK(b) /\ b.status = "authenticated" /\ b.call["login"].pc = "idle"
        /\ b.call["profile"].pc = "idle" \/ "mount" \in b.slips
    BY SignedInTab DEF SubmitAsked
  <1>2. b.page.step = "idle" /\ tab' = [tab EXCEPT ![t] = R]
        /\ UNCHANGED <<session, expired, rows, cookie, reused, raced>>
    BY DEF SubmitAsked
  <1>3. /\ q \in Page /\ q.user = b.shown /\ q.rec = None /\ q.made = None /\ q.left = Files
        /\ q.save = 0 /\ q.outcome = None
    <2>1. b.shown \in Users \cup {None} /\ Files \in 0 .. Files
      BY <1>1 DEF Tab
    <2>2. NoPage \in Page
      BY Constants
    <2>3. QED
      BY Zenon, <2>1, <2>2, NoPageOK DEF Page
  <1> HIDE DEF q
  <1>4. /\ c \in Tab /\ c.page = q /\ c.call = b.call
        /\ c.status = b.status /\ c.shown = b.shown /\ c.access = b.access
        /\ c.refresh = b.refresh /\ c.slips = b.slips /\ c.out = b.out
    BY <1>1, <1>3, WithPage
  <1> HIDE DEF c
  <1>5. PageFree(c)
    <2>1. b.call["page"].pc = "idle" /\ \E d \in Days : b.call[d].pc = "idle"
      BY <1>1, <1>2, NoPageOK DEF TabOK, PageCallsOK
    <2>2. CallsOK(c)
      BY <1>1, <1>4 DEF TabOK, CallsOK, CallOK
    <2>3. MountOK(c)
      BY <1>1, <1>4 DEF MountOK
    <2>4. QED
      BY <1>1, <1>3, <1>4, <2>1, <2>2, <2>3 DEF PageFree
  <1>6. "create" \in PageOps \ {"write"}
    BY DEF PageOps
  <1>7. /\ [q EXCEPT !.step = "create"].step = "create" /\ [q EXCEPT !.step = "create"].rec = None
        /\ [q EXCEPT !.step = "create"].made = None /\ [q EXCEPT !.step = "create"].outcome = None
        /\ [q EXCEPT !.step = "create"].left = Files /\ [q EXCEPT !.step = "create"].save = 0
    BY <1>3 DEF Page
  <1>8. PageOK([c.page EXCEPT !.step = "create"])
    BY <1>4, <1>7 DEF PageOK
  <1>9. R.page = [q EXCEPT !.step = "create"]
    BY <1>4, <1>5, <1>6, <1>8, StepSame
  <1> HIDE DEF R
  <1>10. R.page.made = None /\ Keeps(R)
    BY <1>7, <1>9 DEF Keeps
  <1>11. \A s \in Sessions : Holds(c, s) => Holds(b, s)
    BY <1>4 DEF Holds
  <1>12. SignedIn(b)
    BY DEF SubmitAsked
  <1>13. R = Step(c, "create")
    BY DEF R
  <1>14. /\ c.call["login"] = b.call["login"] /\ c.call["exit"] = b.call["exit"]
         /\ c.page.user = b.shown
    BY <1>3, <1>4
  <1>15. QED
    BY Zenon, <1>2, <1>4, <1>5, <1>6, <1>8, <1>10, <1>11, <1>12, <1>13, <1>14, PageBegins

\* An edited record is saved.
LEMMA SaveAskedInv ==
  ASSUME IInv, NEW t \in Tabs, NEW r \in Records, SaveAsked(t, r)
  PROVE  IInv'
  <1> DEFINE b == tab[t]
             left == {d \in Days : b.call[d].pc # "idle"}
             old == IF left = {} THEN b.call["old"] ELSE b.call[CHOOSE d \in left : TRUE]
             q == [NoPage EXCEPT !.user = b.shown, !.rec = r, !.save = b.page.save + 1,
                                 !.alone = old.pc = "idle"]
             calls == [x \in Slots |-> IF x \in Days THEN NoCall
                                       ELSE IF x = "old" THEN old ELSE b.call[x]]
             c == [b EXCEPT !.page = q, !.call = calls]
             R == Step(c, "update")
  <1>1. /\ b \in Tab /\ TabOK(b) /\ b.status = "authenticated" /\ b.call["login"].pc = "idle"
        /\ b.call["profile"].pc = "idle" \/ "mount" \in b.slips
    BY SignedInTab DEF SaveAsked
  <1>2. /\ b.page.step = "idle" /\ b.page.save < MaxSaves
        /\ left = {} \/ b.call["old"].pc = "idle"
        /\ rows[r].owner = b.shown /\ tab' = [tab EXCEPT ![t] = R]
        /\ UNCHANGED <<session, expired, rows, cookie, reused, raced>>
    BY DEF SaveAsked
  <1>3. /\ "old" \in Slots /\ Days \subseteq Slots /\ "old" \notin Days /\ "page" \notin Days
        /\ "page" \in Slots /\ "login" \in Slots /\ "exit" \in Slots /\ "profile" \in Slots
        /\ {"login", "exit", "profile", "page"} \cap Days = {}
    BY DEF Slots, Days
  <1>4. b.call["page"].pc = "idle" /\ \E d \in Days : b.call[d].pc = "idle"
    BY <1>1, <1>2, NoPageOK DEF TabOK, PageCallsOK
  <1>5. PICK o \in Days \cup {"old"} :
            /\ old = b.call[o]
            /\ \A x \in Days \cup {"old"} : b.call[x].pc # "idle" => x = o
    <2>1. CASE left = {}
      BY <2>1
    <2>2. CASE left # {}
      <3>1. PICK d \in left : TRUE
        BY <2>2
      <3>2. left = {d}
        BY <1>4, <3>1 DEF Days
      <3>3. (CHOOSE x \in left : TRUE) = d
        BY <3>2
      <3>4. \A x \in Days : b.call[x].pc # "idle" => x = d
        BY <3>2
      <3> HIDE DEF left, b
      <3>5. QED
        BY <1>2, <2>2, <3>2, <3>3, <3>4 DEF left
    <2>3. QED
      BY Zenon, <2>1, <2>2
  <1>6. o \in Slots /\ old \in Call
    BY <1>1, <1>3, <1>5 DEF Tab
  <1> HIDE DEF left, old
  <1>7. b.page \in Page /\ b.page.save \in Nat /\ b.shown \in Users \cup {None}
    BY <1>1 DEF Tab, Page
  <1>8. /\ q \in Page /\ q.user = b.shown /\ q.rec = r /\ q.made = None /\ q.left = 0 /\ q.step = "idle"
        /\ q.save = b.page.save + 1 /\ q.save > 0 /\ q.outcome = None /\ q.alone = (old.pc = "idle")
    <2>1. b.page.save + 1 \in 0 .. MaxSaves /\ b.page.save + 1 > 0
      BY <1>2, <1>7
    <2>2. NoPage \in Page /\ NoPage.left = 0
      BY Constants DEF NoPage
    <2>3. QED
      BY ZenonT(60), <1>7, <2>1, <2>2, NoPageOK DEF Page
  <1>9. calls \in [Slots -> Call]
    <2>1. \A x \in Slots : calls[x] \in Call
      BY <1>1, <1>6, Constants DEF Tab
    <2> HIDE DEF calls
    <2>2. calls = [x \in Slots |-> calls[x]]
      BY DEF calls
    <2>3. QED
      BY <2>1, <2>2
  <1>10. /\ \A d \in Days : calls[d] = NoCall
         /\ calls["old"] = old /\ \A x \in Slots \ (Days \cup {"old"}) : calls[x] = b.call[x]
    BY <1>3
  <1> HIDE DEF q, calls
  <1>11. /\ c \in Tab /\ c.page = q /\ c.call = calls
         /\ c.status = b.status /\ c.shown = b.shown /\ c.access = b.access
         /\ c.refresh = b.refresh /\ c.slips = b.slips /\ c.out = b.out
    BY Zenon, <1>1, <1>8, <1>9 DEF Tab
  <1> HIDE DEF c
  <1>12. /\ c.call["login"] = b.call["login"] /\ c.call["exit"] = b.call["exit"]
         /\ c.call["profile"] = b.call["profile"] /\ c.call["page"] = b.call["page"] /\ c.page.user = b.shown
    BY <1>3, <1>8, <1>10, <1>11
  <1>13. \A x \in Slots : CallOK(c, x)
    <2>1. ASSUME NEW d \in Days PROVE CallOK(c, d)
      BY <1>10, <1>11, IdleCall
    <2>2. CallOK(c, "old")
      <3>1. CallOK(b, o)
        BY <1>1, <1>6 DEF TabOK, CallsOK
      <3>2. OpsOf[o] = OpsOf["old"] /\ o # "login"
        BY <1>3, <1>5, SlotNames DEF Days
      <3>3. c.call["old"] = b.call[o]
        BY <1>5, <1>10, <1>11
      <3>4. QED
        BY <1>11, <3>1, <3>2, <3>3 DEF CallOK
    <2>3. ASSUME NEW x \in Slots \ (Days \cup {"old"}) PROVE CallOK(c, x)
      <3>1. CallOK(b, x) /\ c.call[x] = b.call[x]
        BY <1>1, <1>10, <1>11 DEF TabOK, CallsOK
      <3>2. QED
        BY <1>11, <3>1 DEF CallOK
    <2>4. QED
      BY <2>1, <2>2, <2>3
  <1>14. CallsOK(c)
    <2>1. c.refresh.pc # "none" => \E x \in Slots : c.call[x].pc = "refresh"
      <3> SUFFICES ASSUME c.refresh.pc # "none" PROVE \E x \in Slots : c.call[x].pc = "refresh"
        OBVIOUS
      <3>1. PICK x \in Slots : b.call[x].pc = "refresh"
        BY <1>1, <1>11 DEF TabOK, CallsOK
      <3>2. CASE x \in Days \cup {"old"}
        <4>1. x = o
          BY <1>5, <3>1, <3>2
        <4>2. c.call["old"] = b.call[o]
          BY <1>5, <1>10, <1>11
        <4>3. QED
          BY <1>3, <3>1, <4>1, <4>2
      <3>3. CASE x \notin Days \cup {"old"}
        BY <1>10, <1>11, <3>1, <3>3
      <3>4. QED
        BY <3>2, <3>3
    <2>2. QED
      BY <1>1, <1>11, <1>13, <2>1 DEF TabOK, CallsOK
  <1>15. \A d \in Days : c.call[d].pc = "idle"
    BY <1>10, <1>11, IdleCall
  <1>16. PageFree(c)
    <2>1. MountOK(c)
      BY <1>1, <1>11, <1>12, <1>3 DEF MountOK
    <2>2. c.page.alone => c.call["old"].pc = "idle"
      BY Zenon, <1>8, <1>10, <1>11
    <2>3. \E d \in Days : c.call[d].pc = "idle"
      BY <1>15 DEF Days
    <2>4. QED
      BY <1>1, <1>4, <1>11, <1>12, <1>14, <2>1, <2>2, <2>3 DEF PageFree
  <1>17. "update" \in PageOps \ {"write"}
    BY DEF PageOps
  <1> DEFINE e == [q EXCEPT !.step = "update"]
  <1>18. /\ e.step = "update" /\ e.rec = r /\ e.made = None /\ e.outcome = None /\ e.save = q.save
         /\ e.user = b.shown
    BY <1>8 DEF Page
  <1> HIDE DEF e
  <1>19. PageOK(e)
    BY <1>8, <1>18 DEF PageOK
  <1>20. PageOK([c.page EXCEPT !.step = "update"])
    BY <1>11, <1>19 DEF e
  <1>21. R.page = e /\ R.slips = b.slips
    BY <1>11, <1>15, <1>16, <1>17, <1>20, StepSame DEF e, Same
  <1> HIDE DEF R
  <1>22. R.page.made = None /\ Keeps(R)
    <2>1. rows'[r].owner = b.shown /\ b.shown # "new"
      BY <1>2, <1>7
    <2>2. Stored(rows'[r], e)
      BY <1>8, <1>18 DEF Stored
    <2>3. QED
      BY <1>18, <1>21, <2>1, <2>2 DEF Keeps
  <1>23. \A s \in Sessions : Holds(c, s) => Holds(b, s)
    <2>1. \A x \in Slots \ {"login"} : \/ c.call[x] = NoCall
                                       \/ \E y \in Slots \ {"login"} : c.call[x] = b.call[y]
      <3> SUFFICES ASSUME NEW x \in Slots \ {"login"}
                   PROVE  c.call[x] = NoCall \/ \E y \in Slots \ {"login"} : c.call[x] = b.call[y]
        OBVIOUS
      <3>1. CASE x \in Days
        BY <1>10, <1>11, <3>1
      <3>2. CASE x = "old"
        BY <1>3, <1>5, <1>6, <1>10, <1>11, <3>2
      <3>3. CASE x \notin Days \cup {"old"}
        BY <1>10, <1>11, <3>3
      <3>4. QED
        BY <3>1, <3>2, <3>3
    <2>2. QED
      BY <1>11, <2>1, IdleCall DEF Holds, Of
  <1>24. SignedIn(b)
    BY DEF SaveAsked
  <1>25. R = Step(c, "update")
    BY DEF R
  <1> HIDE DEF b
  <1>26. QED
    BY Zenon, <1>2, <1>11, <1>12, <1>15, <1>16, <1>17, <1>20, <1>22, <1>23, <1>24, <1>25, PageBegins DEF b

\* An access token is over.
LEMMA ExpiresInv ==
  ASSUME IInv, NEW t \in Tabs, Expires(t)
  PROVE  IInv'
  <1>1. TypeOK'
    <2>1. TypeOK /\ tab[t].access \in Tokens
      BY DEF IInv, TypeOK, Tab
    <2>2. QED
      BY <2>1 DEF Expires, TypeOK
  <1>2. UNCHANGED <<session, rows, cookie, tab, reused, raced>>
    BY DEF Expires
  <1>3. (\A x \in Tabs : TabOK(tab[x])') /\ RowsOK'
    <2>1. tab' = tab /\ rows' = rows
      BY <1>2
    <2>2. \A x \in Tabs : TabOK(tab[x])
      BY DEF IInv
    <2>3. \A x \in Tabs : TabOK(tab[x])'
      BY ONLY <2>1, <2>2
    <2>4. RowsOK'
      BY <2>1 DEF IInv, RowsOK
    <2>5. QED
      BY <2>3, <2>4
  <1>4. TokensOK' /\ LoginsOK' /\ RefreshesOK'
    BY Zenon, <1>2 DEF IInv, TokensOK, Begun, UserOf, LoginsOK, RefreshesOK, Newest
  <1>5. GroupOK'
    BY <1>2 DEF IInv, GroupOK, OneSession, Held, ShowsUser, UserAgrees, LogoutOK, UserOf
  <1>6. QED
    BY <1>1, <1>3, <1>4, <1>5 DEF IInv

\* The server ends the session of the cookie.
LEMMA LogoutServedInv ==
  ASSUME IInv, NEW t \in Tabs, LogoutServed(t)
  PROVE  IInv'
  <1> DEFINE b == tab[t]  k == b.call["exit"]  s == k.cookie[1]
             R == [b EXCEPT !.call["exit"].pc = "served"]
             ends == k.cookie # None /\ session[s].user = UserOf(k.token)
  <1>1. /\ TypeOK /\ RowsOK /\ RefreshesOK /\ GroupOK /\ tab \in [Tabs -> Tab] /\ \A x \in Tabs : TabOK(tab[x])
    BY DEF IInv, TypeOK
  <1>2. /\ b \in Tab /\ TabOK(b) /\ "exit" \in Slots /\ "login" \in Slots /\ k \in Call
        /\ k.cookie \in Tokens /\ k.token \in Tokens /\ session \in [Sessions -> [user : Users \cup {None}, gen : 0 .. MaxGen, alive : BOOLEAN]]
    BY <1>1, SlotNames DEF TypeOK, Tab, Call
  <1>3. /\ k.pc = "sent" /\ k.op = "logout" /\ k.token # None
        /\ session' = IF ends THEN [session EXCEPT ![s].alive = FALSE] ELSE session
        /\ tab' = [tab EXCEPT ![t] = R]
        /\ UNCHANGED <<expired, rows, cookie, reused, raced>>
    <2>1. [tab EXCEPT ![t].call["exit"].pc = "served"] = [tab EXCEPT ![t] = R]
      BY <1>1, <1>2
    <2>2. QED
      BY <2>1 DEF LogoutServed, Accepts
  <1>4. /\ R \in Tab /\ R.status = b.status /\ R.shown = b.shown /\ R.access = b.access
        /\ R.refresh = b.refresh /\ R.page = b.page /\ R.slips = b.slips /\ R.out = b.out
        /\ R.call["exit"] = [k EXCEPT !.pc = "served"] /\ \A x \in Slots \ {"exit"} : R.call[x] = b.call[x]
    BY Zenon, <1>2 DEF Tab, Call
  <1>5. /\ R.call["exit"].pc = "served" /\ R.call["exit"].op = k.op /\ R.call["exit"].rec = k.rec
        /\ R.call["exit"].save = k.save /\ R.call["exit"].day = k.day /\ R.call["exit"].user = k.user
        /\ R.call["exit"].token = k.token /\ R.call["exit"].cookie = k.cookie
    BY <1>2, <1>4 DEF Call
  <1> HIDE DEF R, ends
  <1>6. Moves(t, R)
    BY Zenon, <1>1, <1>3, <1>4, OneMoves
  <1>7. /\ SessionsStay /\ \A x \in Sessions : session'[x].gen = session[x].gen
        /\ session' \in [Sessions -> [user : Users \cup {None}, gen : 0 .. MaxGen, alive : BOOLEAN]]
        /\ ends => ~session'[s].alive
    <2>1. ends => s \in Sessions
      BY <1>2, TokenParts DEF ends
    <2> HIDE DEF k, s
    <2>2. QED
      BY Zenon, <1>2, <1>3, <2>1 DEF SessionsStay
  <1>8. TypeOK'
    BY Zenon, <1>1, <1>3, <1>4, <1>7 DEF TypeOK
  <1>9. TabOK(R)
    <2>1. R.call["exit"].op \in {"login", "logout"}
      BY <1>3, <1>5
    <2> HIDE DEF k, b
    <2>2. QED
      BY Zenon, <1>2, <1>3, <1>4, <1>5, <2>1, CallMoves DEF k
  <1>10. \A x \in Sessions : Holds(R, x) => Holds(b, x)
    BY Zenon, <1>4, <1>5 DEF Holds
  <1>11. NoNewToken(b, R)
    BY <1>2, <1>4, <1>10 DEF NoNewToken, LoginSame
  <1>12. ASSUME R.slips = {} PROVE Belongs(R) /\ \A x \in Sessions : Holds(R, x) => Held(x)
    <2>1. b.slips = {}
      BY <1>4, <1>12
    <2>2. ShowsUser(b) /\ UserAgrees(b)
      BY <1>1, <2>1 DEF GroupOK
    <2>3. ASSUME k.cookie # None PROVE ~session'[s].alive
      <3>1. s \in Sessions /\ k.token[1] \in Sessions
        BY <1>2, <1>3, <2>3, TokenParts
      <3>2. Holds(b, s) /\ Holds(b, k.token[1])
        BY <1>2, <1>3, <2>3 DEF Holds, Of
      <3>3. Held(s) /\ Held(k.token[1])
        BY <2>1, <3>1, <3>2, HeldByTab
      <3>4. s = k.token[1]
        BY <1>1, <3>1, <3>3 DEF GroupOK, OneSession
      <3>5. ends
        BY <2>3, <3>4 DEF ends, UserOf
      <3>6. QED
        BY <1>7, <3>5
    <2>4. Belongs(R)
      BY <1>4, <1>5, <1>7, <2>2, <2>3 DEF Belongs, ShowsUser, UserAgrees, UserOf, SessionsStay
    <2>5. QED
      BY <1>10, <2>1, <2>4, HeldByTab
  <1>13. \A x \in Sessions :
             /\ session'[x].gen = session[x].gen \/ Refreshing(b, x)
             /\ Refreshing(R, x) => Refreshing(b, x) \/ Of(cookie, x)
             /\ Of(cookie', x) => Of(cookie, x) \/ (b.slips = {} /\ Refreshing(b, x))
    BY Zenon, <1>3, <1>4, <1>7 DEF Refreshing
  <1>14. (\A x \in Tabs : TabOK(tab[x])') /\ TokensOK' /\ LoginsOK' /\ GroupOK'
    BY <1>6, <1>7, <1>8, <1>9, <1>11, <1>12, <1>13, PlainMove
  <1>15. RefreshesOK'
    BY <1>1, <1>3, <1>4, <1>6, <1>7, <1>8, RefreshesMove
  <1>16. RowsOK'
    <2>1. \A d \in Days : R.call[d] = b.call[d]
      BY <1>4, SlotNames DEF Days
    <2>2. RowsStay /\ Unharmed(R.page)
      BY <1>3, NothingWritten
    <2>3. Keeps(R)
      BY <1>1, <1>4, <2>1, <2>2, KeepsSame
    <2>4. QED
      BY <1>1, <1>3, <1>4, <1>6, <1>8, <2>3, RowsSame
  <1>17. QED
    BY <1>8, <1>14, <1>15, <1>16 DEF IInv

\* The answer to a logout: tab and browser forget the session, which is over.
LEMMA LogoutArrivesInv ==
  ASSUME IInv, NEW t \in Tabs, LogoutArrives(t)
  PROVE  IInv'
  <1> DEFINE b == tab[t]  k == b.call["exit"]  W == Settled(b, "exit", TRUE, None)
             R == [W EXCEPT !.out = k.cookie # None]
  <1>1. /\ TypeOK /\ RowsOK /\ RefreshesOK /\ GroupOK /\ tab \in [Tabs -> Tab] /\ \A x \in Tabs : TabOK(tab[x])
    BY DEF IInv, TypeOK
  <1>2. /\ b \in Tab /\ TabOK(b) /\ "exit" \in Slots /\ k.pc = "served" /\ k.cookie \in Tokens
        /\ k.op = "logout"
    <2>1. b \in Tab /\ TabOK(b) /\ "exit" \in Slots
      BY <1>1, SlotNames
    <2>2. k \in Call /\ CallOK(b, "exit") /\ k.pc = "served"
      BY <2>1 DEF Tab, TabOK, CallsOK, LogoutArrives
    <2>3. QED
      BY <2>1, <2>2, SlotNames DEF CallOK, Call
  <1>3. tab' = [tab EXCEPT ![t] = R] /\ cookie' = None /\ UNCHANGED <<session, expired, rows, reused, raced>>
    BY DEF LogoutArrives
  <1>4. Ending(b, "exit")
    BY <1>2 DEF Ending
  <1>25. W = Settled(b, "exit", TRUE, None)
    OBVIOUS
  <1> HIDE DEF W, b
  <1>5. /\ Settles(b, W) /\ PageOfSame(b, W) /\ PageAfter(b, "exit", TRUE, W)
    BY Zenon, <1>4, <1>25, SettledTab
  <1>6. W.access = None /\ W.status = "anonymous" /\ W.call["exit"] = NoCall
    <2>1. Without(b, "exit").call["exit"] = NoCall
      BY <1>2, WithoutTab
    <2>2. /\ W.call = Without(b, "exit").call
          /\ (W.access = None /\ W.status = "anonymous") \/ b.call["exit"].op # "logout"
      BY Zenon, <1>4, <1>25, ExitSettled
    <2>3. QED
      BY <1>2, <2>1, <2>2
  <1>7. W \in Tab /\ TabOK(W) /\ W.page = b.page /\ \A d \in Days : W.call[d] = b.call[d] \/ W.call[d].pc = "sent"
    BY <1>5, SlotNames DEF Settles, PageAfter, Days
  <1> USE DEF b
  <1>8. /\ R \in Tab /\ R.out = (k.cookie # None) /\ R.access = None /\ R.status = "anonymous"
        /\ R.call = W.call /\ R.refresh = W.refresh /\ R.page = W.page /\ R.slips = W.slips /\ R.shown = W.shown
    BY Zenon, <1>6, <1>7 DEF Tab
  <1> HIDE DEF R
  <1>9. TabOK(R)
    <2>1. CallsOK(R)
      BY <1>7, <1>8 DEF TabOK, CallsOK, CallOK
    <2>2. MountOK(R)
      BY <1>6, <1>7, <1>8 DEF TabOK, MountOK
    <2>3. PageCallsOK(R)
      BY <1>7, <1>8 DEF TabOK, PageCallsOK
    <2>4. QED
      BY <1>7, <1>8, <2>1, <2>2, <2>3 DEF TabOK
  <1>10. Moves(t, R)
    BY Zenon, <1>1, <1>3, <1>8, OneMoves
  <1>11. TypeOK'
    BY <1>1, <1>3, <1>8, Constants DEF TypeOK
  <1>12. SessionsStay /\ \A x \in Sessions : session'[x].gen = session[x].gen
    BY <1>3 DEF SessionsStay
  <1>13. R.slips = b.slips /\ R.refresh = b.refresh
    BY <1>5, <1>8 DEF Settles
  <1>14. \A x \in Sessions : Holds(R, x) => Holds(b, x)
    <2>1. \A x \in Sessions : Holds(R, x) => Holds(W, x)
      BY <1>6, <1>8 DEF Holds
    <2>2. \A x \in Sessions : Holds(W, x) => Holds(b, x)
      BY <1>5 DEF Settles
    <2>3. QED
      BY ONLY <2>1, <2>2
  <1>15. NoNewToken(b, R)
    <2>1. LoginSame(b, R)
      BY <1>5, <1>8, IdleCall DEF Settles, LoginSame
    <2>2. QED
      BY <1>14, <2>1 DEF NoNewToken
  <1>16. ASSUME R.slips = {} PROVE Belongs(R) /\ \A x \in Sessions : Holds(R, x) => Held(x)
    <2>1. b.slips = {} /\ UserAgrees(b) /\ LogoutOK(b)
      BY Zenon, <1>1, <1>13, <1>16 DEF GroupOK
    <2>2. ASSUME k.cookie # None, NEW s \in Sessions, Held(s) PROVE ~session'[s].alive
      <3>1. k.cookie[1] \in Sessions /\ Holds(b, k.cookie[1])
        BY <1>2, <2>2, TokenParts DEF Holds, Of
      <3>2. Held(k.cookie[1])
        BY <2>1, <3>1, HeldByTab
      <3>3. s = k.cookie[1]
        BY <1>1, <2>2, <3>1, <3>2 DEF GroupOK, OneSession
      <3>4. QED
        BY <1>2, <1>3, <2>1, <2>2, <3>3 DEF LogoutOK
    <2>3. R.call["exit"].pc # "served"
      BY <1>6, <1>8, IdleCall
    <2>4. \A s \in Sessions : Held(s) => (R.page.step # "idle" => session[s].user = R.page.user)
      BY <1>7, <1>8, <2>1 DEF UserAgrees
    <2>5. Belongs(R)
      BY Zenon, <1>8, <2>2, <2>3, <2>4 DEF Belongs
    <2>6. QED
      BY <1>14, <2>1, <2>5, HeldByTab
  <1>17. \A x \in Sessions :
             /\ session'[x].gen = session[x].gen \/ Refreshing(b, x)
             /\ Refreshing(R, x) => Refreshing(b, x) \/ Of(cookie, x)
             /\ Of(cookie', x) => Of(cookie, x) \/ (b.slips = {} /\ Refreshing(b, x))
    BY <1>3, <1>13 DEF Refreshing, Of
  <1>18. (\A x \in Tabs : TabOK(tab[x])') /\ TokensOK' /\ LoginsOK' /\ GroupOK'
    BY <1>9, <1>10, <1>11, <1>12, <1>15, <1>16, <1>17, PlainMove
  <1>19. RefreshesOK'
    BY <1>1, <1>3, <1>10, <1>11, <1>12, <1>13, RefreshesMove
  <1>20. RowsOK'
    <2>1. RowsStay /\ Unharmed(R.page)
      BY <1>3, NothingWritten
    <2>2. R.page = b.page /\ \A d \in Days : R.call[d].pc = "idle" => b.call[d].pc = "idle"
      BY <1>7, <1>8
    <2>3. Keeps(R)
      BY <1>1, <1>13, <2>1, <2>2, KeepsSame
    <2>4. QED
      BY <1>1, <1>3, <1>10, <1>11, <2>2, <2>3, RowsSame
  <1>21. QED
    BY <1>11, <1>18, <1>19, <1>20 DEF IInv

\* A call of a tab ends, or a page goes on, and nobody else takes part.
LEMMA LocalMove ==
  ASSUME IInv, NEW t \in Tabs, NEW R, Settles(tab[t], R),
         tab' = [tab EXCEPT ![t] = R], UNCHANGED <<session, expired, rows, cookie, reused, raced>>,
         R.page.made = tab[t].page.made, Keeps(R),
         tab[t].slips = {} /\ R.status = "authenticated" =>
             R.access # None /\ session[R.access[1]].user = R.shown
  PROVE  IInv'
  <1>1. TypeOK /\ RowsOK /\ tab \in [Tabs -> Tab] /\ \A x \in Tabs : TabOK(tab[x])
    BY DEF IInv, TypeOK
  <1>2. R \in Tab
    BY DEF Settles
  <1>3. Moves(t, R)
    BY Zenon, <1>1, <1>2, OneMoves
  <1>4. TypeOK'
    BY <1>1, <1>2 DEF TypeOK
  <1>5. SessionsStay
    BY DEF SessionsStay
  <1>6. (\A x \in Tabs : TabOK(tab[x])') /\ TokensOK' /\ LoginsOK' /\ RefreshesOK' /\ GroupOK'
    BY <1>3, <1>4, <1>5, SettlesMove
  <1>7. RowsOK'
    BY <1>1, <1>3, <1>4, RowsSame
  <1>8. QED
    BY <1>4, <1>6, <1>7 DEF IInv

\* A call that fails ends without anything written.
LEMMA FailedMove ==
  ASSUME IInv, NEW t \in Tabs, NEW c, Ending(tab[t], c),
         tab' = [tab EXCEPT ![t] = Settled(tab[t], c, FALSE, None)],
         UNCHANGED <<session, expired, rows, cookie, reused, raced>>
  PROVE  IInv'
  <1> DEFINE b == tab[t]  R == Settled(b, c, FALSE, None)
  <1>1. TypeOK /\ RowsOK /\ GroupOK
    BY DEF IInv
  <1>2. R = Settled(b, c, FALSE, None) /\ tab' = [tab EXCEPT ![t] = R] /\ Ending(b, c)
    OBVIOUS
  <1> HIDE DEF R
  <1>3. Settles(b, R) /\ PageOfSame(b, R) /\ PageAfter(b, c, FALSE, R) /\ Looks(b, R)
    <2> HIDE DEF b
    <2>1. FALSE \in BOOLEAN /\ None \in Users \cup {None} /\ ~(FALSE /\ c = "page")
      OBVIOUS
    <2>2. /\ Settles(b, R) /\ PageOfSame(b, R) /\ PageAfter(b, c, FALSE, R)
          /\ IF c = "profile" /\ FALSE
             THEN R.status = "authenticated" /\ R.shown = None /\ R.access = b.access
             ELSE Looks(b, R)
      BY ONLY Zenon, <1>2, <2>1, SettledTab
    <2>3. QED
      BY Zenon, <2>2
  <1>4. R.page.made = b.page.made /\ R.slips = b.slips
    BY <1>3 DEF Settles, PageOfSame
  <1>5. Keeps(R)
    <2>1. RowsStay /\ Unharmed(b.page)
      BY NothingWritten
    <2>2. QED
      BY Zenon, <1>1, <1>2, <1>3, <1>4, <2>1, KeepsFailed
  <1>6. b.slips = {} /\ R.status = "authenticated" =>
            R.access # None /\ session[R.access[1]].user = R.shown
    BY <1>1, <1>3, LooksStill
  <1>7. QED
    BY Zenon, <1>2, <1>3, <1>4, <1>5, <1>6, LocalMove

\* A call gets no answer or an error.
LEMMA CallFailsInv ==
  ASSUME IInv, NEW t \in Tabs, NEW c \in Slots, CallFails(t, c)
  PROVE  IInv'
  <1>1. Ending(tab[t], c)
    BY DEF IInv, TypeOK, CallFails, Ending
  <1>2. QED
    BY Zenon, <1>1, FailedMove DEF CallFails

\* A call keeps its 401.
LEMMA CallSettlesInv ==
  ASSUME IInv, NEW t \in Tabs, NEW c \in Slots, CallSettles(t, c)
  PROVE  IInv'
  <1>1. Ending(tab[t], c)
    BY DEF IInv, TypeOK, CallSettles, Ending
  <1>2. QED
    BY Zenon, <1>1, FailedMove DEF CallSettles

\* A photo has been drawn anew, or could not be.
LEMMA PhotoPreparedInv ==
  ASSUME IInv, NEW t \in Tabs, PhotoPrepared(t)
  PROVE  IInv'
  <1> DEFINE b == tab[t]  p == b.page
  <1>1. /\ TypeOK /\ RowsOK /\ GroupOK /\ b \in Tab /\ TabOK(b) /\ p \in Page
    BY DEF IInv, TypeOK, Tab
  <1>2. p.step = "prepare" /\ UNCHANGED <<session, expired, rows, cookie, reused, raced>>
    BY DEF PhotoPrepared
  <1>3. /\ p.save = 0 /\ p.outcome = None /\ p.rec # None /\ p.made = p.rec /\ p.left > 0 /\ PageOK(p)
    BY <1>1, <1>2 DEF TabOK, PageOK, Page
  <1>4. PageFree(b)
    <2>1. b.status # "closed"
      BY <1>1, <1>2, ClosedTab, NoPageOK DEF TabOK, MountOK
    <2>2. b.call["login"].pc = "idle"
      BY <1>1, <1>2, NoPageOK DEF TabOK, MountOK
    <2>3. b.call["page"].pc = "idle" /\ \E d \in Days : b.call[d].pc = "idle"
      BY <1>1, <1>2 DEF TabOK, PageCallsOK, PageOps
    <2>4. b.call["profile"].pc = "idle" \/ "mount" \in b.slips
      BY <1>1, <1>2, NoPageOK DEF TabOK, MountOK
    <2>5. QED
      BY <1>1, <1>3, <2>1, <2>2, <2>3, <2>4 DEF PageFree, TabOK
  <1>5. p.rec \in Records /\ Stored(rows[p.rec], p) /\ rows[p.rec].owner # "new"
        /\ (rows[p.rec].owner \in {p.user, "deleted"} \/ b.slips # {})
    BY <1>1, <1>3 DEF RowsOK, Page
  <1>6. ASSUME NEW R, Same(b, R), TabOK(R), tab' = [tab EXCEPT ![t] = R], Stored(rows[p.rec], R.page),
               R.page.outcome = None, R.page.step # "days"
        PROVE  IInv'
    <2>1. /\ R.status = b.status /\ R.shown = b.shown /\ R.access = b.access /\ R \in Tab
          /\ R.refresh = b.refresh /\ R.slips = b.slips /\ R.out = b.out
          /\ R.page.user = p.user /\ R.page.rec = p.rec /\ R.page.made = p.made
          /\ R.call["login"] = b.call["login"]
      BY <1>6 DEF Same
    <2>2. \A s \in Sessions : Holds(R, s) => Holds(b, s)
      BY <1>6, <2>1, HoldsLess DEF Same
    <2>3. R.call["exit"] = b.call["exit"] \/ R.call["exit"].pc # "served"
      BY <1>6, SlotNames DEF Same
    <2>4. Settles(b, R)
      BY <1>2, <1>6, <2>1, <2>2, <2>3 DEF Settles
    <2>5. Keeps(R)
      BY <1>2, <1>3, <1>5, <1>6, <2>1 DEF Keeps
    <2>6. b.slips = {} /\ R.status = "authenticated" =>
              R.access # None /\ session[R.access[1]].user = R.shown
      BY Zenon, <1>1, <2>1, LooksStill DEF Looks
    <2>7. QED
      BY Zenon, <1>2, <1>6, <2>1, <2>4, <2>5, <2>6, LocalMove
  <1>7. CASE tab' = [tab EXCEPT ![t] = Step(b, "photo")]
    <2> DEFINE q == [p EXCEPT !.step = "photo"]
    <2>1. /\ q.step = "photo" /\ q.rec = p.rec /\ q.made = p.made /\ q.outcome = None /\ q.save = 0
          /\ q.left = p.left /\ q.note = p.note /\ q.place = p.place /\ q.synced = p.synced
      BY <1>1, <1>3 DEF Page
    <2> HIDE DEF q
    <2>2. PageOK(q)
      BY <1>3, <2>1 DEF PageOK
    <2>3. "photo" \in PageOps \ {"write"}
      BY DEF PageOps
    <2>4. Same(b, Step(b, "photo")) /\ TabOK(Step(b, "photo")) /\ Step(b, "photo").page = q
      BY <1>4, <2>2, <2>3, StepSame DEF q
    <2>5. Stored(rows[p.rec], q)
      BY <1>2, <1>3, <1>5, <2>1 DEF Stored
    <2>6. QED
      BY Zenon, <1>6, <1>7, <2>1, <2>4, <2>5
  <1>8. CASE tab' = [tab EXCEPT ![t] = SubmitFailed(b)]
    <2> DEFINE q == [p EXCEPT !.step = "cleanup"]
    <2>1. q.step = "cleanup" /\ q.outcome = None /\ q.save = 0
      BY <1>1, <1>3 DEF Page
    <2> HIDE DEF q
    <2>2. Same(b, SubmitFailed(b)) /\ TabOK(SubmitFailed(b)) /\ SubmitFailed(b).page = q
      BY Zenon, <1>3, <1>4, SubmitFailedTab DEF q
    <2>3. Stored(rows[p.rec], q)
      BY <2>1 DEF Stored
    <2>4. QED
      BY Zenon, <1>6, <1>8, <2>1, <2>2, <2>3
  <1>9. QED
    BY <1>7, <1>8 DEF PhotoPrepared

\* A call waits for the refresh under way, or for one that begins with the
\* cookie; if another tab refreshes its session already, the two race.
LEMMA CallRefusedInv ==
  ASSUME IInv, NEW t \in Tabs, NEW c \in Slots, CallRefused(t, c)
  PROVE  IInv'
  <1> DEFINE b == tab[t]  k == b.call[c]  m == [b EXCEPT !.call[c].pc = "refresh"]
             R == RefreshStarted(m)
  <1>1. /\ TypeOK /\ RowsOK /\ RefreshesOK /\ GroupOK /\ tab \in [Tabs -> Tab] /\ \A x \in Tabs : TabOK(tab[x])
    BY DEF IInv, TypeOK
  <1>2. /\ b \in Tab /\ TabOK(b) /\ k \in Call /\ k.pc = "sent" /\ k.op # "login"
    BY <1>1 DEF Tab, CallRefused
  <1>3. c # "login"
    BY <1>2, SlotNames DEF TabOK, CallsOK, CallOK
  <1>4. CASE k.again
    <2>1. Ending(b, c)
      BY <1>2 DEF Ending
    <2>2. tab' = [tab EXCEPT ![t] = Settled(b, c, FALSE, None)]
          /\ UNCHANGED <<session, expired, rows, cookie, reused, raced>>
      BY <1>4 DEF CallRefused
    <2>3. QED
      BY Zenon, <2>1, <2>2, FailedMove
  <1>5. CASE ~k.again
    <2> DEFINE races == cookie # None /\ RefreshingElsewhere(t, cookie[1])
    <2>1. /\ tab' = [tab EXCEPT ![t] = R] /\ UNCHANGED <<session, expired, rows, cookie, reused>>
          /\ raced' = IF races THEN raced \cup {cookie[1]} ELSE raced
      BY <1>5 DEF CallRefused
    <2>2. /\ m \in Tab /\ m.status = b.status /\ m.shown = b.shown /\ m.access = b.access
          /\ m.refresh = b.refresh /\ m.page = b.page /\ m.slips = b.slips /\ m.out = b.out
          /\ m.call[c] = [k EXCEPT !.pc = "refresh"] /\ \A x \in Slots \ {c} : m.call[x] = b.call[x]
      <3>1. b \in Tab /\ k \in Call /\ c \in Slots /\ k = b.call[c]
        BY <1>2 DEF Tab
      <3> DEFINE n == [k EXCEPT !.pc = "refresh"]
      <3>2. n \in Call
        BY <3>1 DEF Call
      <3>3. m = [b EXCEPT !.call = [b.call EXCEPT ![c] = n]]
        BY DEF Tab
      <3> HIDE DEF m, n
      <3>4. /\ m \in Tab /\ m.status = b.status /\ m.shown = b.shown /\ m.access = b.access
            /\ m.refresh = b.refresh /\ m.page = b.page /\ m.slips = b.slips /\ m.out = b.out
            /\ m.call = [b.call EXCEPT ![c] = n]
        BY <3>1, <3>2, <3>3 DEF Tab
      <3>5. QED
        BY <3>1, <3>4 DEF Tab, n
    <2>3. [pc |-> "sent", cookie |-> cookie] \in Refresh
      BY <1>1 DEF Refresh, TypeOK
    <2> HIDE DEF m
    <2>4. /\ R \in Tab /\ R.status = b.status /\ R.shown = b.shown /\ R.access = b.access
          /\ R.page = b.page /\ R.slips = b.slips /\ R.out = b.out /\ R.call = m.call
          /\ \/ R.refresh = b.refresh /\ b.refresh.pc # "none"
             \/ R.refresh = [pc |-> "sent", cookie |-> cookie] /\ b.refresh.pc = "none"
      BY <2>2, <2>3 DEF RefreshStarted, Tab
    <2>5. /\ R.call[c].pc = "refresh" /\ R.call[c].op = k.op /\ R.call[c].rec = k.rec
          /\ R.call[c].save = k.save /\ R.call[c].day = k.day /\ R.call[c].user = k.user
          /\ R.call[c].token = k.token /\ R.call[c].cookie = k.cookie
          /\ \A x \in Slots \ {c} : R.call[x] = b.call[x]
      BY <1>2, <2>2, <2>4 DEF Call
    <2> HIDE DEF R, races
    <2>6. TabOK(R)
      <3>1. \/ R.refresh = b.refresh /\ b.refresh.pc # "none"
            \/ R.refresh.pc = "sent" /\ b.refresh.pc = "none"
        BY <2>4
      <3> HIDE DEF b, k
      <3>2. QED
        BY <1>2, <1>3, <2>4, <2>5, <3>1, CallMoves DEF k
    <2>7. Moves(t, R)
      BY Zenon, <1>1, <2>1, <2>4, OneMoves
    <2>8. /\ raced \subseteq raced' /\ raced' \subseteq Sessions
          /\ races => cookie[1] \in raced'
      <3>1. cookie \in Tokens /\ raced \subseteq Sessions
        BY <1>1 DEF TypeOK
      <3>2. races => cookie[1] \in Sessions
        BY <3>1, TokenParts DEF races
      <3>3. QED
        BY <2>1, <3>1, <3>2
    <2>9. TypeOK'
      BY <1>1, <2>1, <2>4, <2>8 DEF TypeOK
    <2>10. SessionsStay /\ \A s \in Sessions : session'[s].gen = session[s].gen
      BY <2>1 DEF SessionsStay
    <2>11. NoNewToken(b, R)
      <3>1. R.call["login"] = b.call["login"]
        BY <1>3, <2>5, SlotNames
      <3>2. ASSUME NEW s \in Sessions, Holds(R, s) PROVE Holds(b, s) \/ Of(cookie, s)
        <4>1. \A x \in Slots : R.call[x].token = b.call[x].token /\ R.call[x].cookie = b.call[x].cookie
          BY <2>5
        <4>2. R.access = b.access /\ (R.refresh.cookie = b.refresh.cookie \/ R.refresh.cookie = cookie)
          BY <2>4
        <4>3. QED
          BY <3>2, <4>1, <4>2 DEF Holds
      <3>3. QED
        BY <3>1, <3>2 DEF NoNewToken, LoginSame
    <2>12. ASSUME R.slips = {} PROVE Belongs(R) /\ \A s \in Sessions : Holds(R, s) => Held(s)
      <3>1. b.slips = {}
        BY <2>4, <2>12
      <3>2. R.status = "authenticated" => R.access # None /\ session[R.access[1]].user = R.shown
        BY Zenon, <1>1, <2>4, <3>1, LooksStill DEF Looks
      <3>3. R.call["exit"] = b.call["exit"] \/ R.call["exit"].pc # "served"
        BY <2>5, SlotNames
      <3>4. Belongs(R)
        BY <1>1, <2>4, <2>10, <3>1, <3>2, <3>3, BelongsStill
      <3>5. QED
        BY <2>11, <3>1, <3>4, HeldByTab DEF NoNewToken
    <2>13. \A s \in Sessions :
             /\ session'[s].gen = session[s].gen \/ Refreshing(b, s)
             /\ Refreshing(R, s) => Refreshing(b, s) \/ Of(cookie, s)
             /\ Of(cookie', s) => Of(cookie, s) \/ (b.slips = {} /\ Refreshing(b, s))
      BY <2>1, <2>4, <2>10 DEF Refreshing
    <2>14. (\A x \in Tabs : TabOK(tab[x])') /\ TokensOK' /\ LoginsOK' /\ GroupOK'
      BY <2>6, <2>7, <2>9, <2>10, <2>11, <2>12, <2>13, PlainMove
    <2>15. RefreshesOK'
      <3>1. CASE R.refresh = b.refresh
        BY <1>1, <2>1, <2>7, <2>8, <2>9, <2>10, <3>1, RefreshesMove
      <3>2. CASE R.refresh = [pc |-> "sent", cookie |-> cookie] /\ b.refresh.pc = "none"
        <4>1. tab'[t].refresh.cookie = cookie /\ tab'[t].refresh.pc = "sent"
          BY <2>7, <3>2 DEF Moves
        <4>2. \A x \in Tabs \ {t} : tab'[x].refresh = tab[x].refresh
          BY Zenon, <2>7 DEF Moves, Aside
        <4>4. ASSUME cookie # None
              PROVE  \/ Newest(cookie)
                     \/ \E x \in Tabs \ {t} : tab[x].refresh.pc = "rotated" /\ Of(tab[x].refresh.cookie, cookie[1])
          <5>1. CASE Newest(cookie)
            BY <5>1
          <5>2. CASE ~Newest(cookie)
            <6>1. PICK x \in Tabs : tab[x].refresh.pc = "rotated" /\ Of(tab[x].refresh.cookie, cookie[1])
              BY <1>1, <4>4, <5>2 DEF RefreshesOK
            <6>2. x # t
              BY <3>2, <6>1
            <6>3. QED
              BY <6>1, <6>2
          <5>3. QED
            BY <5>1, <5>2
        <4>5. \A x \in Tabs \ {t}, s \in Sessions :
                 Of(cookie, s) /\ Of(tab[x].refresh.cookie, s) => s \in raced'
          BY <2>8 DEF races, RefreshingElsewhere, Of
        <4>6. cookie # None => Newest(cookie) \/ cookie[1] \in raced'
          BY <2>8, <4>4 DEF races, RefreshingElsewhere, Of
        <4>7. cookie # None => Newest(cookie)'
          BY <2>1, <2>8, <4>6 DEF Newest
        <4>8. ASSUME NEW x \in Tabs, tab'[x].refresh.pc \in {"sent", "rotated"}, tab'[x].refresh.cookie # None
              PROVE  Newest(tab[x].refresh.cookie)'
          <5>1. CASE x = t
            BY <2>1, <4>1, <4>7, <4>8, <5>1 DEF Newest
          <5>2. CASE x # t
            <6>1. Newest(tab[x].refresh.cookie)
              BY <1>1, <4>2, <4>8, <5>2 DEF RefreshesOK
            <6>2. QED
              BY <2>1, <2>8, <4>2, <5>2, <6>1 DEF Newest
          <5>3. QED
            BY <5>1, <5>2
        <4>9. ASSUME NEW x \in Tabs, NEW y \in Tabs, NEW s \in Sessions \ raced', x # y
              PROVE  ~Of(tab'[x].refresh.cookie, s) \/ ~Of(tab'[y].refresh.cookie, s)
          <5>1. CASE x = t \/ y = t
            BY <4>1, <4>2, <4>5, <4>9, <5>1
          <5>2. CASE x # t /\ y # t
            BY <1>1, <2>8, <4>2, <4>9, <5>2 DEF RefreshesOK
          <5>3. QED
            BY <5>1, <5>2
        <4>10. cookie # None =>
                 \/ Newest(cookie)'
                 \/ \E x \in Tabs : tab'[x].refresh.pc = "rotated" /\ Of(tab'[x].refresh.cookie, cookie[1])
          BY <4>7
        <4>11. reused' \subseteq raced'
          BY <1>1, <2>1, <2>8 DEF RefreshesOK
        <4>12. QED
          BY <2>1, <4>8, <4>9, <4>10, <4>11 DEF RefreshesOK
      <3>3. QED
        BY <2>4, <3>1, <3>2
    <2>16. RowsOK'
      <3>1. RowsStay /\ Unharmed(R.page)
        BY <2>1, NothingWritten
      <3>2. \A d \in Days : R.call[d].pc = "idle" => b.call[d].pc = "idle"
        BY <2>5, SlotNames DEF Days
      <3>3. Keeps(R)
        BY <1>1, <2>4, <3>1, <3>2, KeepsSame
      <3>4. QED
        BY <1>1, <2>1, <2>4, <2>7, <2>9, <3>3, RowsSame
    <2>17. QED
      BY <2>9, <2>14, <2>15, <2>16 DEF IInv
  <1>6. QED
    BY <1>4, <1>5

\* A refresh is answered: nothing else of the tab changes.
LEMMA AnsweredTab ==
  ASSUME IInv, NEW t \in Tabs, NEW r \in Refresh, NEW R, R = [tab[t] EXCEPT !.refresh = r],
         tab[t].refresh.pc = "sent", r.pc # "none", r.pc = "rotated" => r.cookie # None,
         \A s \in Sessions : Of(r.cookie, s) => Of(tab[t].refresh.cookie, s)
  PROVE  /\ R \in Tab /\ TabOK(R) /\ NoNewToken(tab[t], R) /\ R.refresh = r /\ R.slips = tab[t].slips
         /\ R.page = tab[t].page /\ R.call = tab[t].call
         /\ \A s \in Sessions : Holds(R, s) => Holds(tab[t], s)
         /\ SessionsStay /\ R.slips = {} => Belongs(R) /\ \A s \in Sessions : Holds(R, s) => Held(s)
  <1> DEFINE b == tab[t]
  <1>1. b \in Tab /\ TabOK(b) /\ TypeOK /\ GroupOK
    BY DEF IInv, TypeOK
  <1>2. /\ R \in Tab /\ R.refresh = r /\ R.status = b.status /\ R.shown = b.shown /\ R.access = b.access
        /\ R.page = b.page /\ R.call = b.call /\ R.slips = b.slips /\ R.out = b.out
    BY <1>1 DEF Tab
  <1>3. TabOK(R)
    <2>1. b.status # "closed"
      BY <1>1, ClosedTab DEF TabOK, MountOK, NoRefresh
    <2>2. CallsOK(R)
      BY <1>1, <1>2 DEF TabOK, CallsOK, CallOK
    <2>3. MountOK(R)
      BY <1>1, <1>2, <2>1 DEF TabOK, MountOK
    <2>4. PageCallsOK(R)
      BY <1>1, <1>2 DEF TabOK, PageCallsOK
    <2>5. QED
      BY <1>1, <1>2, <2>2, <2>3, <2>4 DEF TabOK
  <1>4. \A s \in Sessions : Holds(R, s) => Holds(b, s)
    BY <1>2 DEF Holds
  <1>5. NoNewToken(b, R)
    BY <1>2, <1>4 DEF NoNewToken, LoginSame
  <1>6. ASSUME SessionsStay, R.slips = {}
        PROVE  Belongs(R) /\ \A s \in Sessions : Holds(R, s) => Held(s)
    <2>1. R.status = "authenticated" => R.access # None /\ session[R.access[1]].user = R.shown
      BY <1>1, <1>2, <1>6, LooksStill DEF Looks
    <2>2. Belongs(R)
      BY Zenon, <1>1, <1>2, <1>6, <2>1, BelongsStill
    <2>3. QED
      BY <1>2, <1>4, <1>6, <2>2, HeldByTab
  <1>7. QED
    BY <1>2, <1>3, <1>4, <1>5, <1>6

\* The token of the session is replaced by the next, which is on its way.
LEMMA RefreshRotatesInv ==
  ASSUME IInv, NEW t \in Tabs, RefreshRotates(t)
  PROVE  IInv'
  <1> DEFINE b == tab[t]  c == b.refresh.cookie  s == c[1]
             r == [pc |-> "rotated", cookie |-> <<s, c[2] + 1>>]
             R == [b EXCEPT !.refresh = r]
  <1>1. /\ TypeOK /\ RowsOK /\ RefreshesOK /\ tab \in [Tabs -> Tab] /\ \A x \in Tabs : TabOK(tab[x])
        /\ session \in [Sessions -> [user : Users \cup {None}, gen : 0 .. MaxGen, alive : BOOLEAN]]
    BY DEF IInv, TypeOK
  <1>2. /\ b.refresh.pc = "sent" /\ c # None /\ session[s].gen = c[2] /\ c[2] < MaxGen
        /\ session' = [session EXCEPT ![s].gen = @ + 1] /\ tab' = [tab EXCEPT ![t] = R]
        /\ UNCHANGED <<expired, rows, cookie, reused, raced>>
    <2>1. [tab EXCEPT ![t].refresh = r] = [tab EXCEPT ![t] = R]
      BY <1>1
    <2>2. QED
      BY <2>1 DEF RefreshRotates
  <1>3. c \in Tokens /\ s \in Sessions /\ c[2] \in 1 .. MaxGen
    <2>1. c \in Tokens
      BY <1>1 DEF Tab, Refresh
    <2>2. QED
      BY <1>2, <2>1, TokenParts
  <1>4. <<s, c[2] + 1>> \in Tokens /\ <<s, c[2] + 1>> # None /\ r.cookie = <<s, c[2] + 1>> /\ r.pc = "rotated"
        /\ r.cookie[1] = s /\ r.cookie[2] = c[2] + 1
    <2>1. c[2] + 1 \in 1 .. MaxGen
      BY <1>2, <1>3
    <2>2. QED
      BY <1>3, <2>1, Pairs
  <1>5. r \in Refresh
    BY <1>4 DEF Refresh
  <1>6. /\ \A x \in Sessions : /\ session'[x].user = session[x].user
                               /\ session'[x].alive = session[x].alive
                               /\ session'[x].gen = IF x = s THEN c[2] + 1 ELSE session[x].gen
        /\ session' \in [Sessions -> [user : Users \cup {None}, gen : 0 .. MaxGen, alive : BOOLEAN]]
    <2>1. c[2] + 1 \in 0 .. MaxGen
      BY <1>2, <1>3
    <2> HIDE DEF c
    <2>2. QED
      BY <1>1, <1>2, <1>3, <2>1
  <1>7. \A x \in Sessions : Of(r.cookie, x) => Of(c, x)
    BY <1>2, <1>4 DEF Of
  <1>8. SessionsStay
    BY <1>6 DEF SessionsStay
  <1>9. R = [b EXCEPT !.refresh = r]
    OBVIOUS
  <1> HIDE DEF r, R
  <1>10. /\ R \in Tab /\ TabOK(R) /\ NoNewToken(b, R) /\ R.refresh = r /\ R.slips = b.slips
         /\ R.page = b.page /\ R.call = b.call
         /\ R.slips = {} => Belongs(R) /\ \A x \in Sessions : Holds(R, x) => Held(x)
    <2>1. b.refresh.pc = "sent" /\ r.pc # "none" /\ (r.pc = "rotated" => r.cookie # None)
      BY <1>2, <1>4
    <2>2. \A x \in Sessions : Of(r.cookie, x) => Of(b.refresh.cookie, x)
      BY ONLY <1>7
    <2>3. /\ R \in Tab /\ TabOK(R) /\ NoNewToken(b, R) /\ R.refresh = r /\ R.slips = b.slips
          /\ R.page = b.page /\ R.call = b.call
          /\ SessionsStay /\ R.slips = {} => Belongs(R) /\ \A x \in Sessions : Holds(R, x) => Held(x)
      BY <1>5, <1>9, <2>1, <2>2, AnsweredTab
    <2>4. QED
      BY ONLY <1>8, <2>3
  <1>11. Moves(t, R)
    BY Zenon, <1>1, <1>2, <1>10, OneMoves
  <1>12. TypeOK'
    BY Zenon, <1>1, <1>2, <1>6, <1>10 DEF TypeOK
  <1>13. \A x \in Sessions :
             /\ session'[x].gen = session[x].gen \/ Refreshing(b, x)
             /\ Refreshing(R, x) => Refreshing(b, x) \/ Of(cookie, x)
             /\ Of(cookie', x) => Of(cookie, x) \/ (b.slips = {} /\ Refreshing(b, x))
    BY Zenon, <1>2, <1>3, <1>6, <1>7, <1>10 DEF Refreshing, Of
  <1>14. (\A x \in Tabs : TabOK(tab[x])') /\ TokensOK' /\ LoginsOK' /\ GroupOK'
    BY <1>8, <1>10, <1>11, <1>12, <1>13, PlainMove
  <1>15. RefreshesOK'
    <2> DEFINE New(j) == session'[j[1]].alive /\ j[1] \notin raced' => j[2] = session'[j[1]].gen
    <2>1. tab'[t].refresh = r /\ \A x \in Tabs \ {t} : tab'[x].refresh = tab[x].refresh
      BY Zenon, <1>10, <1>11 DEF Moves, Aside
    <2>2. \A j \in Tokens : j # None /\ Newest(j) /\ j[1] # s => New(j)
      BY Zenon, <1>2, <1>6, TokenParts DEF Newest
    <2>3. New(r.cookie)
      BY <1>3, <1>4, <1>6
    <2>4. \A x \in Tabs : \A a \in Sessions : Of(tab'[x].refresh.cookie, a) => Of(tab[x].refresh.cookie, a)
      BY <1>7, <2>1
    <2> HIDE DEF New
    <2>5. ASSUME NEW x \in Tabs, tab'[x].refresh.pc \in {"sent", "rotated"}, tab'[x].refresh.cookie # None
          PROVE  New(tab'[x].refresh.cookie)
      <3>1. CASE x = t
        BY <2>1, <2>3, <3>1
      <3>2. CASE x # t
        <4> DEFINE j == tab[x].refresh.cookie
        <4>1. j \in Tokens /\ j # None /\ tab'[x].refresh.cookie = j /\ Newest(j)
          BY <1>1, <2>1, <2>5, <3>2 DEF RefreshesOK, Tab, Refresh
        <4>2. CASE j[1] # s
          BY <2>2, <4>1, <4>2
        <4>3. CASE j[1] = s
          <5>1. Of(j, s) /\ Of(c, s)
            BY <1>2, <4>1, <4>3 DEF Of
          <5>2. s \in raced
            BY <1>1, <1>3, <3>2, <5>1 DEF RefreshesOK
          <5>3. j[1] \in raced'
            BY ONLY <1>2, <4>3, <5>2
          <5>4. QED
            BY ONLY <4>1, <5>3 DEF New
        <4>4. QED
          BY <4>2, <4>3
      <3>3. QED
        BY <3>1, <3>2
    <2>6. ASSUME NEW x \in Tabs, NEW y \in Tabs, NEW a \in Sessions \ raced', x # y
          PROVE  ~Of(tab'[x].refresh.cookie, a) \/ ~Of(tab'[y].refresh.cookie, a)
      BY <1>1, <1>2, <2>4, <2>6 DEF RefreshesOK
    <2>7. ASSUME cookie # None
          PROVE  \/ New(cookie)
                 \/ \E x \in Tabs : tab'[x].refresh.pc = "rotated" /\ Of(tab'[x].refresh.cookie, cookie[1])
      <3>1. CASE cookie[1] = s
        BY <1>4, <2>1, <3>1 DEF Of
      <3>2. CASE cookie[1] # s /\ Newest(cookie)
        <4>1. cookie \in Tokens
          BY <1>1 DEF TypeOK
        <4>2. QED
          BY <2>2, <2>7, <3>2, <4>1
      <3>3. CASE ~Newest(cookie)
        <4>1. PICK x \in Tabs : tab[x].refresh.pc = "rotated" /\ Of(tab[x].refresh.cookie, cookie[1])
          BY <1>1, <2>7, <3>3 DEF RefreshesOK
        <4>2. tab'[x].refresh = tab[x].refresh
          BY <1>2, <2>1, <4>1
        <4>3. QED
          BY <4>1, <4>2
      <3>4. QED
        BY <3>1, <3>2, <3>3
    <2>8. QED
      BY Zenon, <1>1, <1>2, <2>5, <2>6, <2>7 DEF RefreshesOK, Newest, New
  <1>16. RowsOK'
    <2>1. RowsStay /\ Unharmed(R.page)
      BY <1>2, NothingWritten
    <2>2. Keeps(R)
      BY <1>1, <1>10, <2>1, KeepsSame
    <2>3. QED
      BY <1>1, <1>2, <1>10, <1>11, <1>12, <2>2, RowsSame
  <1>17. QED
    BY <1>12, <1>14, <1>15, <1>16 DEF IInv

\* A token that the server refuses as spent is of a session that was raced for.
LEMMA RefreshRefusedInv ==
  ASSUME IInv, NEW t \in Tabs, RefreshRefused(t)
  PROVE  IInv'
  <1> DEFINE b == tab[t]  c == b.refresh.cookie  s == c[1]
             spent == c # None /\ session[s].alive /\ c[2] < session[s].gen
             r == [b.refresh EXCEPT !.pc = "refused"]
             R == [b EXCEPT !.refresh = r]
  <1>1. /\ TypeOK /\ RowsOK /\ RefreshesOK /\ tab \in [Tabs -> Tab] /\ \A x \in Tabs : TabOK(tab[x])
        /\ session \in [Sessions -> [user : Users \cup {None}, gen : 0 .. MaxGen, alive : BOOLEAN]]
    BY DEF IInv, TypeOK
  <1>2. /\ b.refresh.pc = "sent" /\ tab' = [tab EXCEPT ![t] = R]
        /\ session' = IF spent THEN [session EXCEPT ![s].alive = FALSE] ELSE session
        /\ reused' = IF spent THEN reused \cup {s} ELSE reused
        /\ UNCHANGED <<expired, rows, cookie, raced>>
    <2>1. [tab EXCEPT ![t].refresh.pc = "refused"] = [tab EXCEPT ![t] = R]
      BY <1>1 DEF Tab
    <2>2. QED
      BY <2>1 DEF RefreshRefused
  <1>3. c \in Tokens /\ (c # None => s \in Sessions /\ c[2] \in 1 .. MaxGen)
    <2>1. c \in Tokens
      BY <1>1 DEF Tab, Refresh
    <2>2. QED
      BY <2>1, TokenParts
  <1>4. r \in Refresh /\ r.pc = "refused" /\ r.cookie = c
    BY <1>1 DEF Tab, Refresh
  <1>5. /\ \A x \in Sessions : /\ session'[x].user = session[x].user
                               /\ session'[x].alive => session[x].alive
                               /\ session'[x].gen = session[x].gen
        /\ session' \in [Sessions -> [user : Users \cup {None}, gen : 0 .. MaxGen, alive : BOOLEAN]]
    <2> HIDE DEF c
    <2>1. QED
      BY ZenonT(60), <1>1, <1>2, <1>3
  <1>6. spent => s \in raced /\ s \in Sessions
    BY <1>1, <1>2, <1>3 DEF RefreshesOK, Newest
  <1>7. SessionsStay
    BY <1>5 DEF SessionsStay
  <1>8. R = [b EXCEPT !.refresh = r]
    OBVIOUS
  <1> HIDE DEF r, R, spent
  <1>9. /\ R \in Tab /\ TabOK(R) /\ NoNewToken(b, R) /\ R.refresh = r /\ R.slips = b.slips
        /\ R.page = b.page /\ R.call = b.call
        /\ R.slips = {} => Belongs(R) /\ \A x \in Sessions : Holds(R, x) => Held(x)
    BY <1>2, <1>4, <1>7, <1>8, AnsweredTab
  <1>10. Moves(t, R)
    BY Zenon, <1>1, <1>2, <1>9, OneMoves
  <1>11. TypeOK'
    BY <1>1, <1>2, <1>5, <1>6, <1>9 DEF TypeOK
  <1>12. \A x \in Sessions :
             /\ session'[x].gen = session[x].gen \/ Refreshing(b, x)
             /\ Refreshing(R, x) => Refreshing(b, x) \/ Of(cookie, x)
             /\ Of(cookie', x) => Of(cookie, x) \/ (b.slips = {} /\ Refreshing(b, x))
    BY <1>2, <1>4, <1>5, <1>9 DEF Refreshing
  <1>13. (\A x \in Tabs : TabOK(tab[x])') /\ TokensOK' /\ LoginsOK' /\ GroupOK'
    BY <1>7, <1>9, <1>10, <1>11, <1>12, PlainMove
  <1>14. RefreshesOK'
    <2> DEFINE New(j) == session'[j[1]].alive /\ j[1] \notin raced' => j[2] = session'[j[1]].gen
    <2>1. tab'[t].refresh = r /\ \A x \in Tabs \ {t} : tab'[x].refresh = tab[x].refresh
      BY Zenon, <1>9, <1>10 DEF Moves, Aside
    <2>2. \A j \in Tokens : j # None /\ Newest(j) => New(j)
      BY <1>2, <1>5, TokenParts DEF Newest
    <2>3. \A x \in Tabs : tab'[x].refresh.cookie = tab[x].refresh.cookie
                          /\ (tab'[x].refresh.pc \in {"sent", "rotated"} => tab[x].refresh.pc = tab'[x].refresh.pc)
      BY <1>4, <2>1
    <2>4. \A x \in Tabs : tab[x].refresh.cookie \in Tokens
      BY <1>1 DEF Tab, Refresh
    <2> HIDE DEF New
    <2>5. ASSUME NEW x \in Tabs, tab'[x].refresh.pc \in {"sent", "rotated"}, tab'[x].refresh.cookie # None
          PROVE  New(tab'[x].refresh.cookie)
      BY <1>1, <2>2, <2>3, <2>4, <2>5 DEF RefreshesOK
    <2>6. ASSUME NEW x \in Tabs, NEW y \in Tabs, NEW a \in Sessions \ raced', x # y
          PROVE  ~Of(tab'[x].refresh.cookie, a) \/ ~Of(tab'[y].refresh.cookie, a)
      BY <1>1, <1>2, <2>3, <2>6 DEF RefreshesOK
    <2>7. ASSUME cookie # None
          PROVE  \/ New(cookie)
                 \/ \E x \in Tabs : tab'[x].refresh.pc = "rotated" /\ Of(tab'[x].refresh.cookie, cookie[1])
      <3>1. CASE Newest(cookie)
        <4>1. cookie \in Tokens
          BY <1>1 DEF TypeOK
        <4>2. QED
          BY <2>2, <2>7, <3>1, <4>1
      <3>2. CASE ~Newest(cookie)
        <4>1. PICK x \in Tabs : tab[x].refresh.pc = "rotated" /\ Of(tab[x].refresh.cookie, cookie[1])
          BY <1>1, <2>7, <3>2 DEF RefreshesOK
        <4>2. tab'[x].refresh = tab[x].refresh
          BY <1>2, <2>1, <4>1
        <4>3. QED
          BY <4>1, <4>2
      <3>3. QED
        BY <3>1, <3>2
    <2>8. reused' \subseteq raced'
      BY <1>1, <1>2, <1>6 DEF RefreshesOK
    <2>9. QED
      BY Zenon, <1>2, <2>5, <2>6, <2>7, <2>8 DEF RefreshesOK, Newest, New
  <1>15. RowsOK'
    <2>1. RowsStay /\ Unharmed(R.page)
      BY <1>2, NothingWritten
    <2>2. Keeps(R)
      BY <1>1, <1>9, <2>1, KeepsSame
    <2>3. QED
      BY <1>1, <1>2, <1>9, <1>10, <1>11, <2>2, RowsSame
  <1>16. QED
    BY <1>11, <1>13, <1>14, <1>15 DEF IInv

\* A refresh has ended: the tab holds the token it brought, or none.
LEMMA ResumedBelongs ==
  ASSUME IInv, NEW t \in Tabs, tab[t].refresh.pc # "none",
         NEW token \in Tokens, token \in {tab[t].refresh.cookie, None},
         NEW R, R = Resumed(tab[t], token)
  PROVE  /\ R \in Tab /\ TabOK(R) /\ NoNewToken(tab[t], R) /\ R.refresh = NoRefresh
         /\ R.slips = tab[t].slips /\ R.page = tab[t].page
         /\ \A s \in Sessions : Holds(R, s) => Holds(tab[t], s)
         /\ \A x \in Slots : R.call[x].pc = "idle" => tab[t].call[x].pc = "idle"
         /\ SessionsStay /\ R.slips = {} => Belongs(R) /\ \A s \in Sessions : Holds(R, s) => Held(s)
  <1> DEFINE b == tab[t]
  <1>1. b \in Tab /\ TabOK(b) /\ TypeOK /\ GroupOK
    BY DEF IInv, TypeOK
  <1>2. /\ R \in Tab /\ TabOK(R) /\ R.access = token /\ R.refresh = NoRefresh
        /\ R.slips = b.slips /\ R.out = b.out /\ R.page = b.page
        /\ \/ R.status = b.status /\ R.shown = b.shown /\ (token # None \/ R.status # "authenticated")
           \/ R.status = "anonymous"
        /\ \A x \in Slots : \/ R.call[x] = b.call[x]
                            \/ /\ b.call[x].pc = "refresh"
                               /\ R.call[x].pc \in {"sent", "refused"}
                               /\ R.call[x].token \in {token, b.call[x].token}
                               /\ R.call[x].cookie \in {token, b.call[x].cookie}
        /\ R.call["login"] = b.call["login"]
    <2> HIDE DEF b
    <2>1. b.refresh.pc # "none" /\ R = Resumed(b, token)
      BY DEF b
    <2>2. QED
      BY <1>1, <2>1, ResumedTab
  <1>3. \A s \in Sessions : Of(token, s) => Of(b.refresh.cookie, s)
    BY DEF Of
  <1>4. ASSUME NEW s \in Sessions, Holds(R, s) PROVE Holds(b, s)
    <2>1. CASE Of(R.access, s)
      BY <1>2, <1>3, <2>1 DEF Holds, Of
    <2>4. CASE Of(R.refresh.cookie, s)
      BY <1>2, <1>3, <2>4 DEF Holds, Of, NoRefresh
    <2>2. CASE \E x \in Slots \ {"login"} : Of(R.call[x].token, s) \/ Of(R.call[x].cookie, s)
      <3>1. PICK x \in Slots \ {"login"} : Of(R.call[x].token, s) \/ Of(R.call[x].cookie, s)
        BY <2>2
      <3>2. Of(token, s) \/ Of(b.call[x].token, s) \/ Of(b.call[x].cookie, s)
        BY <1>2, <3>1
      <3>3. QED
        BY <1>3, <3>2 DEF Holds
    <2>3. QED
      BY <1>4, <2>1, <2>2, <2>4 DEF Holds
  <1>5. NoNewToken(b, R)
    BY <1>2, <1>4 DEF NoNewToken, LoginSame
  <1>6. \A x \in Slots : R.call[x].pc = "idle" => b.call[x].pc = "idle"
    BY <1>2
  <1>7. ASSUME SessionsStay, R.slips = {}
        PROVE  Belongs(R) /\ \A s \in Sessions : Holds(R, s) => Held(s)
    <2>1. R.status = "authenticated" => R.access # None /\ session[R.access[1]].user = R.shown
      <3> SUFFICES ASSUME R.status = "authenticated" PROVE R.access # None /\ session[R.access[1]].user = R.shown
        OBVIOUS
      <3>1. token # None /\ b.status = "authenticated" /\ R.shown = b.shown /\ token = b.refresh.cookie
        BY <1>2
      <3>2. b.access # None /\ session[b.access[1]].user = b.shown
        BY Zenon, <1>1, <1>2, <1>7, <3>1 DEF GroupOK, ShowsUser, UserOf
      <3>3. b.access \in Tokens
        BY <1>1 DEF Tab
      <3>4. token[1] \in Sessions /\ b.access[1] \in Sessions
        BY <3>1, <3>2, <3>3, TokenParts
      <3>5. Holds(b, token[1]) /\ Holds(b, b.access[1])
        BY <3>1, <3>2 DEF Holds, Of
      <3>6. Held(token[1]) /\ Held(b.access[1])
        BY Zenon, <1>2, <1>7, <3>4, <3>5, HeldByTab
      <3>7. token[1] = b.access[1]
        BY <1>1, <3>4, <3>6 DEF GroupOK, OneSession
      <3>8. QED
        BY ZenonT(60), <1>2, <3>1, <3>2, <3>7
    <2>2. R.call["exit"] = b.call["exit"] \/ R.call["exit"].pc # "served"
      BY Zenon, <1>2, SlotNames
    <2>3. Belongs(R)
      BY Zenon, <1>1, <1>2, <1>7, <2>1, <2>2, BelongsStill
    <2>4. QED
      BY Zenon, <1>2, <1>4, <1>7, <2>3, HeldByTab
  <1>8. QED
    BY <1>2, <1>4, <1>5, <1>6, <1>7

\* The answer comes late when it replaces the cookie of another login; then
\* all other tabs stand beside this one.
LEMMA RefreshArrivesInv ==
  ASSUME IInv, NEW t \in Tabs, RefreshArrives(t)
  PROVE  IInv'
  <1> DEFINE b == tab[t]  r == b.refresh
             token == IF r.pc = "rotated" THEN r.cookie ELSE None
             late == token # None /\ b.slips # {} /\ (cookie # None => cookie[1] # token[1])
             R == Resumed(b, token)
  <1>1. /\ TypeOK /\ RowsOK /\ TokensOK /\ LoginsOK /\ RefreshesOK /\ GroupOK
        /\ tab \in [Tabs -> Tab] /\ \A x \in Tabs : TabOK(tab[x])
    BY DEF IInv, TypeOK
  <1>2. /\ r.pc \in {"rotated", "refused"} /\ cookie' = token
        /\ tab' = [x \in Tabs |-> IF x = t THEN R ELSE IF late THEN Beside(tab[x]) ELSE tab[x]]
        /\ UNCHANGED <<session, expired, rows, reused, raced>>
    BY DEF RefreshArrives
  <1>3. b \in Tab /\ TabOK(b) /\ r.cookie \in Tokens /\ None \in Tokens
    BY <1>1, Constants DEF Tab, Refresh
  <1>4. token \in Tokens /\ token \in {r.cookie, None} /\ r.pc # "none"
        /\ (token # None => r.pc = "rotated" /\ token = r.cookie)
    BY <1>2, <1>3
  <1>5. R = Resumed(b, token)
    OBVIOUS
  <1> HIDE DEF R, token, late
  <1>6. /\ R \in Tab /\ TabOK(R) /\ NoNewToken(b, R) /\ R.refresh = NoRefresh
        /\ R.slips = b.slips /\ R.page = b.page
        /\ \A s \in Sessions : Holds(R, s) => Holds(b, s)
        /\ \A x \in Slots : R.call[x].pc = "idle" => b.call[x].pc = "idle"
        /\ SessionsStay /\ R.slips = {} => Belongs(R) /\ \A s \in Sessions : Holds(R, s) => Held(s)
    BY <1>4, <1>5, ResumedBelongs
  <1>7. tab'[t] = R /\ \A x \in Tabs \ {t} : tab'[x] = IF late THEN Beside(tab[x]) ELSE tab[x]
    BY <1>2
  <1>8. \A x \in Tabs \ {t} : Aside(tab[x], tab'[x]) /\ (late => tab'[x].slips # {} \/ tab'[x] = Closed)
    BY <1>1, <1>7, BesideAside, AsideSame
  <1>9. Moves(t, R)
    <2>1. \A x \in Tabs : tab'[x] \in Tab
      BY Zenon, <1>6, <1>7, <1>8 DEF Aside
    <2>2. QED
      BY <1>2, <1>7, <1>8, <2>1 DEF Moves
  <1>10. TypeOK'
    BY <1>1, <1>2, <1>4, <1>9 DEF TypeOK, Moves
  <1>11. SessionsStay /\ \A s \in Sessions : session'[s].gen = session[s].gen /\ session'[s].user = session[s].user
    BY <1>2 DEF SessionsStay
  <1>12. \A x \in Tabs : TabOK(tab[x])'
    BY <1>1, <1>6, <1>9, TabsMove
  <1>13. \A s \in Sessions : Of(cookie', s) => Refreshing(b, s)
    BY <1>2, <1>4 DEF Refreshing, Of
  <1>14. TokensOK'
    <2>1. Begun(cookie')
      BY <1>1, <1>2, <1>4 DEF TokensOK, Begun
    <2>2. \A s \in Sessions : Holds(R, s) => session[s].user # None
      BY <1>1, <1>6, BegunSessions
    <2>3. LoginSame(b, R)
      BY <1>6 DEF NoNewToken
    <2>4. QED
      BY <1>1, <1>9, <1>10, <1>11, <2>1, <2>2, <2>3, TokensMove
  <1>15. LoginsOK'
    <2>1. LoginSame(b, R) /\ \A s \in Sessions : ~Refreshing(R, s)
      BY <1>6 DEF NoNewToken, Refreshing, Of, NoRefresh
    <2>2. \A s \in Sessions :
             /\ session'[s].user = session[s].user
             /\ session'[s].gen = session[s].gen \/ Refreshing(b, s)
             /\ Refreshing(R, s) => Refreshing(b, s) \/ Of(cookie, s)
             /\ Of(cookie', s) => \/ Of(cookie, s) \/ Refreshing(b, s)
                                  \/ b.call["login"].pc = "served" /\ R.call["login"].pc # "served"
                                     /\ Of(b.call["login"].token, s)
      BY <1>11, <1>13, <2>1
    <2>3. QED
      BY ONLY <1>1, <1>9, <1>10, <2>1, <2>2, t \in Tabs, LoginsMove
  <1>16. RefreshesOK'
    <2>1. \A x \in Tabs : tab'[x].refresh = tab[x].refresh \/ tab'[x].refresh = NoRefresh
      BY Zenon, <1>6, <1>7, <1>8 DEF Aside
    <2>2. cookie' # None => Newest(cookie)'
      <3>1. cookie' # None => Newest(r.cookie) /\ cookie' = r.cookie
        BY <1>1, <1>2, <1>4 DEF RefreshesOK
      <3>2. QED
        BY <1>2, <3>1 DEF Newest
    <2>3. NoRefresh.pc = "none" /\ NoRefresh.cookie = None
      BY DEF NoRefresh
    <2>4. ASSUME NEW x \in Tabs, tab'[x].refresh.pc \in {"sent", "rotated"}, tab'[x].refresh.cookie # None
          PROVE  Newest(tab[x].refresh.cookie)'
      <3>1. tab'[x].refresh = tab[x].refresh
        BY <2>1, <2>3, <2>4
      <3>2. Newest(tab[x].refresh.cookie)
        BY <1>1, <2>4, <3>1 DEF RefreshesOK
      <3>3. QED
        BY <1>2, <3>1, <3>2 DEF Newest
    <2>5. ASSUME NEW x \in Tabs, NEW y \in Tabs, NEW s \in Sessions \ raced', x # y
          PROVE  ~Of(tab'[x].refresh.cookie, s) \/ ~Of(tab'[y].refresh.cookie, s)
      BY <1>1, <1>2, <2>1, <2>3, <2>5 DEF RefreshesOK, Of
    <2>6. reused' \subseteq raced'
      BY <1>1, <1>2 DEF RefreshesOK
    <2>7. QED
      BY <2>2, <2>4, <2>5, <2>6 DEF RefreshesOK
  <1>17. GroupOK'
    <2>1. CASE late
      <3>1. R.slips # {}
        BY <1>6, <2>1 DEF late
      <3> HIDE DEF b
      <3>2. QED
        BY Zenon, <1>7, <1>8, <2>1, <3>1, AllBeside
    <2>2. CASE ~late
      <3>1. \A s \in Sessions : Of(cookie', s) => Held(s)
        <4> SUFFICES ASSUME NEW s \in Sessions, Of(cookie', s) PROVE Held(s)
          OBVIOUS
        <4>1. token # None /\ token[1] = s /\ Refreshing(b, s)
          BY <1>2, <1>13 DEF Of
        <4>2. CASE b.slips = {}
          BY <4>1, <4>2, HeldByTab DEF Refreshing, Holds
        <4>3. CASE b.slips # {}
          BY <2>2, <4>1, <4>3 DEF late, Held, Of
        <4>4. QED
          BY <4>2, <4>3
      <3>2. QED
        BY <1>1, <1>6, <1>9, <1>10, <1>11, <3>1, GroupMove
    <2>3. QED
      BY <2>1, <2>2
  <1>18. RowsOK'
    <2>1. RowsStay /\ Unharmed(R.page)
      BY <1>2, NothingWritten
    <2>2. \A d \in Days : R.call[d].pc = "idle" => b.call[d].pc = "idle"
      BY <1>6, SlotNames DEF Days
    <2>3. Keeps(R)
      BY <1>1, <1>6, <2>1, <2>2, KeepsSame
    <2>4. QED
      BY <1>1, <1>2, <1>6, <1>9, <1>10, <2>3, RowsSame
  <1>19. QED
    BY <1>10, <1>12, <1>14, <1>15, <1>16, <1>17, <1>18 DEF IInv

\* A refresh gets no answer.
LEMMA RefreshFailsInv ==
  ASSUME IInv, NEW t \in Tabs, RefreshFails(t)
  PROVE  IInv'
  <1> DEFINE b == tab[t]  R == Resumed(b, None)
  <1>1. /\ TypeOK /\ RowsOK /\ RefreshesOK /\ tab \in [Tabs -> Tab] /\ b \in Tab /\ \A x \in Tabs : TabOK(tab[x])
    BY DEF IInv, TypeOK
  <1>2. /\ b.refresh.pc # "none" /\ tab' = [tab EXCEPT ![t] = R] /\ raced' = raced \cup LostBy(b)
        /\ UNCHANGED <<session, expired, rows, cookie, reused>>
    BY DEF RefreshFails
  <1>3. R = Resumed(b, None) /\ None \in Tokens
    BY Constants
  <1> HIDE DEF R
  <1>4. /\ R \in Tab /\ TabOK(R) /\ NoNewToken(b, R) /\ R.refresh = NoRefresh
        /\ R.slips = b.slips /\ R.page = b.page
        /\ \A x \in Slots : R.call[x].pc = "idle" => b.call[x].pc = "idle"
        /\ SessionsStay /\ R.slips = {} => Belongs(R) /\ \A s \in Sessions : Holds(R, s) => Held(s)
    BY <1>2, <1>3, ResumedBelongs
  <1>5. Moves(t, R)
    BY Zenon, <1>1, <1>2, <1>4, OneMoves
  <1>6. TypeOK'
    BY <1>1, <1>2, <1>4, LostSessions DEF TypeOK
  <1>7. SessionsStay
    BY <1>2 DEF SessionsStay
  <1>8. \A s \in Sessions :
             /\ session'[s].gen = session[s].gen \/ Refreshing(b, s)
             /\ Refreshing(R, s) => Refreshing(b, s) \/ Of(cookie, s)
             /\ Of(cookie', s) => Of(cookie, s) \/ (b.slips = {} /\ Refreshing(b, s))
    BY <1>2, <1>4 DEF Refreshing, Of, NoRefresh
  <1>9. (\A x \in Tabs : TabOK(tab[x])') /\ TokensOK' /\ LoginsOK' /\ GroupOK'
    BY <1>4, <1>5, <1>6, <1>7, <1>8, PlainMove
  <1>10. RefreshesOK'
    BY <1>1, <1>2, <1>4, <1>5, <1>6, <1>7, RefreshesMove
  <1>11. RowsOK'
    <2>1. RowsStay /\ Unharmed(R.page)
      BY <1>2, NothingWritten
    <2>2. \A d \in Days : R.call[d].pc = "idle" => b.call[d].pc = "idle"
      BY <1>4, SlotNames DEF Days
    <2>3. Keeps(R)
      BY <1>1, <1>4, <2>1, <2>2, KeepsSame
    <2>4. QED
      BY <1>1, <1>2, <1>4, <1>5, <1>6, <2>3, RowsSame
  <1>12. QED
    BY <1>6, <1>9, <1>10, <1>11 DEF IInv

\* A call the server grants for user w.
ServedBy(b, c, w) ==
    LET k == b.call[c]
    IN  /\ Ending(b, c) /\ k \in Call /\ b.page \in Page /\ k.token \in Tokens \ {None}
        /\ w = UserOf(k.token) /\ w \in Users
        /\ c = "profile" => k.op = "profile"
        /\ c # "login"
        /\ c = "exit" => k.op \in {"withdraw", "clear"}
        /\ c = "page" => k.op = b.page.step /\ k.op \in PageOps \ {"write"} /\ k.rec = b.page.rec
        /\ c \in Days \cup {"old"} => k.op = "write" /\ k.save > 0
        /\ k.op \in {"entry", "photo", "place", "get", "cleanup", "update", "write"} =>
              k.rec \in Records /\ rows[k.rec].owner = w
        /\ k.op = "create" => \E r \in Records : rows[r].owner = "new"

\* What is known of a call the server grants.
LEMMA GrantedCall ==
  ASSUME IInv, NEW t \in Tabs, NEW c \in Slots, CallServed(t, c)
  PROVE  ServedBy(tab[t], c, UserOf(tab[t].call[c].token)) /\ tab[t].call[c].pc = "sent"
  <1> DEFINE b == tab[t]  k == b.call[c]  p == b.page  w == UserOf(k.token)
  <1>1. /\ TypeOK /\ TokensOK /\ b \in Tab /\ TabOK(b) /\ k \in Call /\ p \in Page /\ k.token \in Tokens
    BY DEF IInv, TypeOK, Tab, Call
  <1>2. k.pc = "sent" /\ k.op \notin {"login", "logout"} /\ k.token # None /\ Granted(b, c, w)
    BY DEF CallServed, Accepts
  <1>3. w \in Users
    <2>1. w # None
      BY <1>1, <1>2 DEF TokensOK, Begun
    <2>2. k.token[1] \in Sessions
      BY <1>1, <1>2, TokenParts
    <2>3. QED
      BY <1>1, <2>1, <2>2 DEF TypeOK, UserOf
  <1>4. CallOK(b, c) /\ PageOK(p) /\ PageCallsOK(b)
    BY <1>1 DEF TabOK, CallsOK
  <1>5. /\ c = "profile" => k.op = "profile"
        /\ c # "login"
        /\ c = "exit" => k.op \in {"withdraw", "clear"}
    BY <1>2, <1>4, SlotNames DEF CallOK
  <1>6. c = "page" => k.op = p.step /\ k.op \in PageOps \ {"write"} /\ k.rec = p.rec
    BY <1>2, <1>4, SlotNames DEF CallOK, PageCallsOK
  <1>7. c \in Days \cup {"old"} => k.op = "write" /\ k.save > 0 /\ k.rec # None
    BY <1>2, <1>4, SlotNames DEF CallOK, Days
  <1>8. c \in {"profile", "login", "exit", "page"} \cup Days \cup {"old"}
    BY DEF Slots, Days
  <1>9. k.op \in {"entry", "photo", "place", "get", "cleanup", "update", "write"} =>
              k.rec \in Records /\ rows[k.rec].owner = w
    <2> SUFFICES ASSUME k.op \in {"entry", "photo", "place", "get", "cleanup", "update", "write"}
                 PROVE  k.rec \in Records /\ rows[k.rec].owner = w
      OBVIOUS
    <2>1. k.rec # None
      <3>1. CASE c = "page"
        BY <1>1, <1>4, <1>6, <3>1 DEF PageOK, Page
      <3>2. CASE c \in Days \cup {"old"}
        BY <1>7, <3>2
      <3>3. QED
        BY <1>5, <1>8, <3>1, <3>2
    <2>2. rows[k.rec].owner = w
      BY <1>2 DEF Granted
    <2>3. QED
      BY <1>1, <2>1, <2>2 DEF Call
  <1>10. k.op = "create" => \E r \in Records : rows[r].owner = "new"
    BY <1>2 DEF Granted
  <1>11. Ending(b, c)
    BY <1>1, <1>2 DEF Ending
  <1>12. QED
    BY <1>1, <1>2, <1>3, <1>5, <1>6, <1>7, <1>9, <1>10, <1>11 DEF ServedBy

\* What becomes of record r.
RowChange(b, c, w, r) ==
    LET k == b.call[c]
    IN  /\ rows'[r].owner = rows[r].owner \/ rows'[r].owner = "deleted" \/ (k.op = "create" /\ rows[r].owner = "new" /\ rows'[r].owner = w)
        /\ rows'[r].photos = IF k.op = "photo" /\ r = k.rec THEN rows[r].photos + 1 ELSE rows[r].photos
        /\ rows'[r].place = (rows[r].place \/ (k.op = "place" /\ r = k.rec))
        /\ rows'[r].notes = IF k.op = "entry" /\ r = k.rec THEN [rows[r].notes EXCEPT !["day1"] = MaxSaves + 1]
                            ELSE IF k.op = "write" /\ r = k.rec THEN [rows[r].notes EXCEPT ![k.day] = k.save]
                            ELSE rows[r].notes
        /\ rows[r].owner = "new" => rows'[r] = rows[r] \/ k.op = "create"
        /\ k.op = "cleanup" /\ r = k.rec => rows'[r].owner = "deleted"
        /\ k.op = "create" /\ r = NewRecord => rows'[r].owner = w
        /\ k.op = "create" /\ r # NewRecord => rows'[r] = rows[r]

\* What the server writes for a call, and for whom.
LEMMA ServedRows ==
  ASSUME IInv, NEW t \in Tabs, NEW c, NEW w, ServedBy(tab[t], c, w), rows' = RowsAfter(tab[t], c, w)
  PROVE  /\ rows' \in [Records -> Row] /\ RowsStay
         /\ \A r \in Records : rows'[r].owner = "new" => rows'[r] = NewRow
         /\ \A r \in Records : RowChange(tab[t], c, w, r)
         /\ tab[t].call[c].op = "create" => NewRecord \in Records /\ rows[NewRecord] = NewRow
  <1> DEFINE b == tab[t]  k == b.call[c]  p == b.page
  <1>1. TypeOK /\ RowsOK /\ rows \in [Records -> Row] /\ PageOK(p)
    BY DEF IInv, TypeOK, TabOK
  <1>2. /\ k \in Call /\ w \in Users /\ w \notin {"new", "deleted"}
        /\ c = "page" => k.op = p.step /\ k.rec = p.rec
        /\ k.op \in {"entry", "photo", "place", "get", "cleanup", "update", "write"} =>
              k.rec \in Records /\ rows[k.rec].owner = w
        /\ k.op = "create" => \E r \in Records : rows[r].owner = "new"
        /\ p \in Page /\ c \in Slots /\ k.day \in Days /\ k.save \in 0 .. MaxSaves
    BY DEF ServedBy, Ending, Call
  <1>3. k.op = "create" => NewRecord \in Records /\ rows[NewRecord].owner = "new" /\ rows[NewRecord] = NewRow
    <2>1. k.op = "create" => NewRecord \in Records /\ rows[NewRecord].owner = "new"
      BY <1>2 DEF NewRecord
    <2>2. QED
      BY <1>1, <2>1 DEF RowsOK
  <1>4. k.op = "photo" => rows[k.rec].photos + 1 \in 0 .. Files
    <2> SUFFICES ASSUME k.op = "photo" PROVE rows[k.rec].photos + 1 \in 0 .. Files
      OBVIOUS
    <2>1. c = "page" /\ p.step = "photo" /\ p.rec = k.rec /\ p.rec # None
      BY <1>2, SlotNames DEF ServedBy, Days
    <2>2. p.save = 0 /\ p.left > 0 /\ p.left \in 0 .. Files
      BY <1>1, <1>2, <2>1 DEF PageOK, Page
    <2>3. Stored(rows[p.rec], p)
      BY <1>1, <2>1 DEF RowsOK
    <2>4. rows[p.rec].photos = Files - p.left
      BY <2>1, <2>2, <2>3 DEF Stored
    <2>5. QED
      BY <2>1, <2>2, <2>4
  <1>5. ASSUME NEW r \in Records
        PROVE  /\ rows[r] \in Row
               /\ rows[r].owner \in Users \cup {"new", "deleted"} /\ rows[r].photos \in 0 .. Files
               /\ rows[r].place \in BOOLEAN /\ rows[r].notes \in [Days -> 0 .. MaxSaves + 1]
    BY <1>1 DEF Row
  <1>6. k.op \in {"create", "entry", "photo", "place", "write", "cleanup", "clear", "withdraw"}
        \/ rows' = rows
    BY DEF RowsAfter
  <1>7. /\ k.op = "create" => rows' = [rows EXCEPT ![NewRecord].owner = w]
        /\ k.op = "entry" => rows' = [rows EXCEPT ![k.rec].notes["day1"] = MaxSaves + 1]
        /\ k.op = "photo" => rows' = [rows EXCEPT ![k.rec].photos = @ + 1]
        /\ k.op = "place" => rows' = [rows EXCEPT ![k.rec].place = TRUE]
        /\ k.op = "write" => rows' = [rows EXCEPT ![k.rec].notes[k.day] = k.save]
        /\ k.op = "cleanup" => rows' = [rows EXCEPT ![k.rec].owner = "deleted"]
        /\ k.op \in {"clear", "withdraw"} => rows' = RowsOfNobody(w)
        /\ k.op \notin {"create", "entry", "photo", "place", "write", "cleanup", "clear", "withdraw"} =>
              rows' = rows
    BY Zenon DEF RowsAfter, Target
  <1>8. "day1" \in Days
    BY DEF Days
  <1> HIDE DEF k, p, b
  <1>9. rows' \in [Records -> Row] /\ \A r \in Records : RowChange(b, c, w, r)
    <2> USE DEF k
    <2> DEFINE Good(r) == rows'[r] \in Row /\ RowChange(b, c, w, r)
    <2>1. CASE k.op = "create"
      <3> HIDE DEF k
      <3>1. rows' = [rows EXCEPT ![NewRecord].owner = w] /\ NewRecord \in Records
        BY <1>3, <1>7, <2>1
      <3>2. \A r \in Records \ {NewRecord} : rows'[r] = rows[r]
        BY <1>1, <3>1
      <3>3. rows'[NewRecord] = [rows[NewRecord] EXCEPT !.owner = w]
        BY <1>1, <3>1
      <3>4. rows[NewRecord].owner = "new" /\ w \in Users
        BY <1>2, <1>3, <2>1
      <3>5. Good(NewRecord)
        <4> DEFINE new == rows[NewRecord]
        <4>1. /\ rows'[NewRecord].owner = w /\ rows'[NewRecord].photos = new.photos
              /\ rows'[NewRecord].place = new.place /\ rows'[NewRecord].notes = new.notes
          BY <1>5, <3>1, <3>3 DEF Row
        <4>2. rows'[NewRecord] \in Row
          BY <1>5, <3>1, <3>3, <3>4 DEF Row
        <4>3. new.place \in BOOLEAN
          BY <1>5, <3>1
        <4> HIDE DEF new
        <4>4. QED
          BY <2>1, <3>4, <4>1, <4>2, <4>3 DEF RowChange, k, new
      <3>6. \A r \in Records \ {NewRecord} : Good(r)
        BY <1>5, <2>1, <3>2 DEF RowChange, k
      <3>7. QED
        BY <1>1, <3>1, <3>5, <3>6
    <2>2. CASE k.op = "entry"
      <3>1. \A r \in Records \ {k.rec} : rows'[r] = rows[r]
        BY Zenon, <1>1, <1>2, <1>7, <2>2
      <3>2. rows'[k.rec] = [rows[k.rec] EXCEPT !.notes["day1"] = MaxSaves + 1]
        BY Zenon, <1>1, <1>2, <1>7, <2>2
      <3>3. Good(k.rec)
        <4>1. k.rec \in Records
          BY <1>2, <2>2
        <4> DEFINE old == rows[k.rec]  new == rows'[k.rec]
        <4>2. /\ new.owner = old.owner /\ new.photos = old.photos /\ new.place = old.place
              /\ new.notes = [old.notes EXCEPT !["day1"] = MaxSaves + 1]
          BY <1>5, <3>2, <4>1 DEF Row
        <4>3. new \in Row
          <5>1. [old.notes EXCEPT !["day1"] = MaxSaves + 1] \in [Days -> 0 .. MaxSaves + 1]
            BY <1>5, <1>8, <4>1, Constants
          <5>2. QED
            BY <1>5, <3>2, <4>1, <5>1 DEF Row
        <4>4. old.place \in BOOLEAN
          BY <1>5, <4>1
        <4>5. old.owner # "new"
          BY <1>2, <2>2
        <4> HIDE DEF old, new
        <4>6. QED
          BY <2>2, <4>2, <4>3, <4>4, <4>5 DEF RowChange, old, new
      <3>4. \A r \in Records \ {k.rec} : Good(r)
        BY <1>5, <2>2, <3>1 DEF RowChange
      <3>5. QED
        BY Zenon, <1>1, <1>2, <1>7, <2>2, <3>3, <3>4
    <2>3. CASE k.op = "photo"
      <3>1. \A r \in Records \ {k.rec} : rows'[r] = rows[r]
        BY Zenon, <1>1, <1>2, <1>7, <2>3
      <3>2. rows'[k.rec] = [rows[k.rec] EXCEPT !.photos = rows[k.rec].photos + 1]
        BY Zenon, <1>1, <1>2, <1>7, <2>3
      <3>3. Good(k.rec)
        BY <1>2, <1>4, <1>5, <2>3, <3>2 DEF Row, RowChange
      <3>4. \A r \in Records \ {k.rec} : Good(r)
        BY <1>5, <2>3, <3>1 DEF RowChange
      <3>5. QED
        BY Zenon, <1>1, <1>2, <1>7, <2>3, <3>3, <3>4
    <2>4. CASE k.op = "place"
      <3>1. \A r \in Records \ {k.rec} : rows'[r] = rows[r]
        BY Zenon, <1>1, <1>2, <1>7, <2>4
      <3>2. rows'[k.rec] = [rows[k.rec] EXCEPT !.place = TRUE]
        BY Zenon, <1>1, <1>2, <1>7, <2>4
      <3>3. Good(k.rec)
        BY Zenon, <1>2, <1>5, <2>4, <3>2 DEF Row, RowChange
      <3>4. \A r \in Records \ {k.rec} : Good(r)
        BY <1>5, <2>4, <3>1 DEF RowChange
      <3>5. QED
        BY Zenon, <1>1, <1>2, <1>7, <2>4, <3>3, <3>4
    <2>5. CASE k.op = "write"
      <3>1. \A r \in Records \ {k.rec} : rows'[r] = rows[r]
        BY Zenon, <1>1, <1>2, <1>7, <2>5
      <3>2. rows'[k.rec] = [rows[k.rec] EXCEPT !.notes[k.day] = k.save]
        BY Zenon, <1>1, <1>2, <1>7, <2>5
      <3>3. Good(k.rec)
        <4>1. k.rec \in Records /\ k.day \in Days /\ k.save \in 0 .. MaxSaves + 1
          BY <1>2, <2>5
        <4> DEFINE old == rows[k.rec]  new == rows'[k.rec]
        <4>2. /\ new.owner = old.owner /\ new.photos = old.photos /\ new.place = old.place
              /\ new.notes = [old.notes EXCEPT ![k.day] = k.save]
          BY <1>5, <3>2, <4>1 DEF Row
        <4>3. new \in Row
          <5>1. [old.notes EXCEPT ![k.day] = k.save] \in [Days -> 0 .. MaxSaves + 1]
            BY <1>5, <4>1
          <5>2. QED
            BY <1>5, <3>2, <4>1, <5>1 DEF Row
        <4>4. old.place \in BOOLEAN
          BY <1>5, <4>1
        <4>5. old.owner # "new"
          BY <1>2, <2>5
        <4> HIDE DEF old, new
        <4>6. QED
          BY <2>5, <4>2, <4>3, <4>4, <4>5 DEF RowChange, old, new
      <3>4. \A r \in Records \ {k.rec} : Good(r)
        BY <1>5, <2>5, <3>1 DEF RowChange
      <3>5. QED
        BY Zenon, <1>1, <1>2, <1>7, <2>5, <3>3, <3>4
    <2>6. CASE k.op = "cleanup"
      <3>1. \A r \in Records \ {k.rec} : rows'[r] = rows[r]
        BY Zenon, <1>1, <1>2, <1>7, <2>6
      <3>2. rows'[k.rec] = [rows[k.rec] EXCEPT !.owner = "deleted"]
        BY Zenon, <1>1, <1>2, <1>7, <2>6
      <3>3. Good(k.rec)
        BY <1>2, <1>5, <2>6, <3>2 DEF Row, RowChange
      <3>4. \A r \in Records \ {k.rec} : Good(r)
        BY <1>5, <2>6, <3>1 DEF RowChange
      <3>5. QED
        BY Zenon, <1>1, <1>2, <1>7, <2>6, <3>3, <3>4
    <2>7. CASE k.op \in {"clear", "withdraw"}
      <3>1. \A r \in Records : rows'[r] = IF rows[r].owner = w THEN [rows[r] EXCEPT !.owner = "deleted"] ELSE rows[r]
        BY Zenon, <1>7, <2>7 DEF RowsOfNobody
      <3>2. ASSUME NEW r \in Records PROVE Good(r)
        <4>1. CASE rows[r].owner = w
          <5>1. rows'[r] = [rows[r] EXCEPT !.owner = "deleted"]
            BY <3>1, <4>1
          <5>2. QED
            BY <1>2, <1>5, <2>7, <4>1, <5>1 DEF Row, RowChange
        <4>2. CASE rows[r].owner # w
          <5>1. rows'[r] = rows[r]
            BY Zenon, <3>1, <4>2
          <5>2. QED
            BY <1>5, <2>7, <5>1 DEF RowChange
        <4>3. QED
          BY <4>1, <4>2
      <3>3. QED
        BY Zenon, <1>1, <1>7, <2>7, <3>2 DEF RowsOfNobody
    <2>8. CASE k.op \notin {"create", "entry", "photo", "place", "write", "cleanup", "clear", "withdraw"}
      <3>1. rows' = rows
        BY Zenon, <1>7, <2>8
      <3>2. QED
        BY <1>1, <1>5, <2>8, <3>1 DEF RowChange
    <2>9. QED
      BY <2>1, <2>2, <2>3, <2>4, <2>5, <2>6, <2>7, <2>8
  <1>10. RowsStay
    BY Zenon, <1>9 DEF RowsStay, RowChange
  <1>11. ASSUME NEW r \in Records, rows'[r].owner = "new" PROVE rows'[r] = NewRow
    <2>1. RowChange(b, c, w, r)
      BY <1>9
    <2>2. rows[r].owner = "new"
      BY <1>2, <1>11, <2>1 DEF RowChange
    <2>3. rows[r] = NewRow
      BY <1>1, <2>2 DEF RowsOK
    <2>4. rows'[r] = rows[r]
      <3>1. b.call[c].op # "create" \/ r # NewRecord
        BY <1>2, <1>11, <2>1 DEF RowChange
      <3>2. QED
        BY <2>1, <2>2, <3>1 DEF RowChange
    <2>5. QED
      BY <2>3, <2>4
  <1>12. QED
    BY <1>3, <1>9, <1>10, <1>11 DEF b, k

\* What the server writes for one tab leaves the pages of the others with what
\* they claim.
LEMMA ServedOthers ==
  ASSUME IInv, NEW t \in Tabs, NEW c, NEW w, ServedBy(tab[t], c, w), rows' = RowsAfter(tab[t], c, w),
         NEW R \in Tab, tab' = TabsAfter(t, c, R)
  PROVE  Moves(t, R) /\ \A x \in Tabs \ {t} : Unharmed(tab'[x].page)
  <1> DEFINE b == tab[t]  k == b.call[c]  p == b.page
  <1>1. /\ TypeOK /\ RowsOK /\ tab \in [Tabs -> Tab] /\ \A x \in Tabs : TabOK(tab[x])
    BY DEF IInv, TypeOK
  <1>2. \A r \in Records : RowChange(b, c, w, r)
    BY Zenon, ServedRows
  <1>3. k.op \in {"entry", "photo", "place", "get", "cleanup", "update", "write"} => k.rec \in Records
    BY DEF ServedBy
  <1>4. tab' = [x \in Tabs |->
                   IF x = t THEN R
                   ELSE IF k.op \in {"entry", "write"} /\ tab[x].page.rec = k.rec
                        THEN [tab[x] EXCEPT !.page.alone = FALSE]
                   ELSE tab[x]]
    BY DEF TabsAfter
  <1>5. k.op = "photo" => p.made = k.rec
    <2> SUFFICES ASSUME k.op = "photo" PROVE p.made = k.rec
      OBVIOUS
    <2>1. c = "page" /\ p.step = "photo" /\ p.rec = k.rec
      BY SlotNames DEF ServedBy, Ending, Days
    <2>2. PageOK(p) /\ p.save \in Nat
      BY <1>1 DEF TabOK, Tab, Page
    <2>3. QED
      BY <1>3, <2>1, <2>2 DEF PageOK
  <1>6. k.op = "write" => k.save > 0
    BY SlotNames DEF ServedBy, Ending, Days, PageOps
  <1>7. MaxSaves + 1 > 0
    OBVIOUS
  <1> HIDE DEF k, p, b
  <1>8. ASSUME NEW x \in Tabs \ {t}
        PROVE  tab'[x] \in Tab /\ Aside(tab[x], tab'[x]) /\ Unharmed(tab'[x].page)
    <2> DEFINE v == tab[x]  q == v.page
    <2>1. v \in Tab /\ TabOK(v) /\ q \in Page /\ PageOK(q) /\ q.save \in Nat
      BY <1>1 DEF Tab, TabOK, Page
    <2>2. CASE k.op \in {"entry", "write"} /\ q.rec = k.rec
      <3>1. tab'[x] = [v EXCEPT !.page = [q EXCEPT !.alone = FALSE]]
        BY <1>4, <2>1, <2>2 DEF Tab, Page
      <3> DEFINE n == [q EXCEPT !.alone = FALSE]
      <3>2. /\ n \in Page /\ n.rec = k.rec /\ n.save = q.save /\ n.alone = FALSE
        BY Zenon, <2>1, <2>2 DEF Page
      <3>3. v.status # "closed"
        BY <1>3, <2>1, <2>2, ClosedTab, NoPageOK DEF TabOK, MountOK
      <3> HIDE DEF n
      <3>4. /\ tab'[x] \in Tab /\ tab'[x].page = n /\ Aside(v, tab'[x])
        <4>1. /\ tab'[x] \in Tab /\ tab'[x].page = n /\ tab'[x].status = v.status /\ tab'[x].shown = v.shown
              /\ tab'[x].access = v.access /\ tab'[x].refresh = v.refresh /\ tab'[x].call = v.call
              /\ tab'[x].out = v.out /\ tab'[x].slips = v.slips
          BY Zenon, <2>1, <3>1, <3>2 DEF Tab, n
        <4>2. q.rec # None
          BY <1>3, <2>2
        <4>3. QED
          BY <3>3, <4>1, <4>2 DEF Aside, n
      <3>5. Unharmed(n)
        <4>1. k.rec \in Records /\ RowChange(b, c, w, k.rec)
          BY <1>2, <1>3, <2>2
        <4>2. rows'[k.rec].photos = rows[k.rec].photos /\ (rows[k.rec].place => rows'[k.rec].place)
          BY Zenon, <2>2, <4>1 DEF RowChange, k
        <4>3. rows[k.rec].notes["day1"] > 0 => rows'[k.rec].notes["day1"] > 0
          <5>1. rows[k.rec].notes \in [Days -> 0 .. MaxSaves + 1] /\ "day1" \in Days
            BY <1>1, <4>1 DEF TypeOK, Row, Days
          <5>2. CASE k.op = "entry"
            <6>1. rows'[k.rec].notes = [rows[k.rec].notes EXCEPT !["day1"] = MaxSaves + 1]
              BY <4>1, <5>2 DEF RowChange, k
            <6>2. QED
              BY <1>7, <5>1, <6>1
          <5>3. CASE k.op = "write"
            <6>1. rows'[k.rec].notes = [rows[k.rec].notes EXCEPT ![k.day] = k.save]
              BY <4>1, <5>3 DEF RowChange, k
            <6>2. QED
              BY <1>6, <5>1, <5>3, <6>1
          <5>4. QED
            BY <2>2, <5>2, <5>3
        <4>4. QED
          BY <3>2, <4>2, <4>3 DEF Unharmed
      <3>6. QED
        BY <3>4, <3>5
    <2>3. CASE ~(k.op \in {"entry", "write"} /\ q.rec = k.rec)
      <3>1. tab'[x] = v
        BY <1>4, <2>3
      <3>2. Unharmed(q)
        <4> SUFFICES ASSUME q.rec # None PROVE Unharmed(q)
          BY DEF Unharmed
        <4>1. q.rec \in Records /\ RowChange(b, c, w, q.rec)
          BY <1>2, <2>1 DEF Page
        <4>2. rows'[q.rec].notes = rows[q.rec].notes /\ (rows[q.rec].place => rows'[q.rec].place)
          BY Zenon, <2>3, <4>1 DEF RowChange, k
        <4>3. q.save = 0 => rows'[q.rec].photos = rows[q.rec].photos
          <5> SUFFICES ASSUME q.save = 0, k.op = "photo", q.rec = k.rec PROVE FALSE
            BY Zenon, <4>1 DEF RowChange, k
          <5>1. q.made = k.rec
            BY <2>1 DEF PageOK
          <5>2. tab[t].page.made = k.rec
            BY <1>5 DEF p, b
          <5>3. QED
            BY <1>1, <1>3, <5>1, <5>2 DEF RowsOK
        <4>4. QED
          BY <4>2, <4>3 DEF Unharmed
      <3>3. QED
        BY <2>1, <3>1, <3>2, AsideSame
    <2>4. QED
      BY <2>2, <2>3
  <1>9. tab' \in [Tabs -> Tab] /\ tab'[t] = R
    <2>1. tab'[t] = R
      BY <1>4
    <2>2. \A x \in Tabs : tab'[x] \in Tab
      BY <1>8, <2>1
    <2>3. QED
      BY <1>4, <2>1, <2>2
  <1>10. QED
    BY <1>8, <1>9 DEF Moves

\* A withdrawal ends sessions and begins none.
LEMMA SessionsEnd ==
  ASSUME TypeOK, NEW b, NEW c, NEW w, session' = SessionsAfter(b, c, w)
  PROVE  /\ SessionsStay /\ \A s \in Sessions : session'[s].gen = session[s].gen
         /\ session' \in [Sessions -> [user : Users \cup {None}, gen : 0 .. MaxGen, alive : BOOLEAN]]
  <1>1. session \in [Sessions -> [user : Users \cup {None}, gen : 0 .. MaxGen, alive : BOOLEAN]]
    BY DEF TypeOK
  <1>2. CASE b.call[c].op # "withdraw"
    BY <1>1, <1>2 DEF SessionsAfter, SessionsStay
  <1>3. CASE b.call[c].op = "withdraw"
    <2>1. session' = [s \in Sessions |-> IF session[s].user = w THEN [session[s] EXCEPT !.alive = FALSE]
                                         ELSE session[s]]
      BY <1>3 DEF SessionsAfter
    <2>2. ASSUME NEW s \in Sessions
          PROVE  /\ session'[s] \in [user : Users \cup {None}, gen : 0 .. MaxGen, alive : BOOLEAN]
                 /\ session'[s].user = session[s].user /\ session'[s].gen = session[s].gen
                 /\ session'[s].alive => session[s].alive
      <3>1. CASE session[s].user = w
        <4>1. session'[s] = [session[s] EXCEPT !.alive = FALSE]
          BY <2>1, <3>1
        <4>2. QED
          BY ZenonT(60), <1>1, <4>1
      <3>2. CASE session[s].user # w
        BY <1>1, <2>1, <3>2
      <3>3. QED
        BY <3>1, <3>2
    <2>3. QED
      BY <2>1, <2>2 DEF SessionsStay
  <1>4. QED
    BY <1>2, <1>3

\* The server does what a call asks for, and R is what becomes of its tab.
LEMMA ServedMove ==
  ASSUME IInv, NEW t \in Tabs, NEW c, NEW w, ServedBy(tab[t], c, w), rows' = RowsAfter(tab[t], c, w),
         session' = SessionsAfter(tab[t], c, w), UNCHANGED <<expired, cookie, reused, raced>>,
         NEW R, Settles(tab[t], R), tab' = TabsAfter(t, c, R),
         tab[t].slips = {} /\ R.status = "authenticated" =>
             R.access # None /\ session[R.access[1]].user = R.shown,
         R.page.made # None =>
            \/ R.page.made = tab[t].page.made
            \/ rows[R.page.made].owner = "new" /\ rows'[R.page.made].owner # "new",
         Keeps(R)
  PROVE  IInv'
  <1>1. TypeOK /\ RowsOK /\ \A x \in Tabs : TabOK(tab[x])
    BY DEF IInv
  <1>2. R \in Tab
    BY DEF Settles
  <1>3. Moves(t, R) /\ \A x \in Tabs \ {t} : Unharmed(tab'[x].page)
    BY Zenon, <1>2, ServedOthers
  <1>4. /\ rows' \in [Records -> Row] /\ RowsStay
        /\ \A r \in Records : rows'[r].owner = "new" => rows'[r] = NewRow
    BY Zenon, ServedRows
  <1>5. /\ SessionsStay /\ \A s \in Sessions : session'[s].gen = session[s].gen
        /\ session' \in [Sessions -> [user : Users \cup {None}, gen : 0 .. MaxGen, alive : BOOLEAN]]
    BY <1>1, SessionsEnd
  <1>6. TypeOK'
    BY <1>1, <1>3, <1>4, <1>5 DEF TypeOK, Moves
  <1>7. (\A x \in Tabs : TabOK(tab[x])') /\ TokensOK' /\ LoginsOK' /\ RefreshesOK' /\ GroupOK'
    BY <1>3, <1>5, <1>6, SettlesMove
  <1>8. RowsOK'
    BY <1>1, <1>3, <1>4, <1>6, RowsMove
  <1>9. QED
    BY <1>6, <1>7, <1>8 DEF IInv

\* A write of a save that has failed, while the page is at rest.
Stray(b, c) == c \in Days /\ b.page.step # "days" /\ b.page.save > 0

\* The server has done what a call other than a creation asks for.
LEMMA ServedDone ==
  ASSUME IInv, NEW t \in Tabs, NEW c, NEW w, ServedBy(tab[t], c, w), rows' = RowsAfter(tab[t], c, w),
         tab[t].call[c].op # "create", ~Stray(tab[t], c)
  PROVE  /\ Done(tab[t].page, c)
         /\ \/ Unharmed(tab[t].page)
            \/ c = "page" /\ tab[t].page.step \in {"entry", "photo"}
            \/ c \in Days /\ tab[t].page.step = "days"
  <1> DEFINE b == tab[t]  k == b.call[c]  p == b.page
  <1>1. /\ TypeOK /\ b \in Tab /\ TabOK(b) /\ p \in Page /\ PageOK(p) /\ p.save \in Nat /\ PageCallsOK(b)
    BY DEF IInv, TypeOK, Tab, TabOK, Page
  <1>2. \A r \in Records : RowChange(b, c, w, r)
    BY Zenon, ServedRows
  <1>3. /\ c = "profile" => k.op = "profile"
        /\ c = "exit" => k.op \in {"withdraw", "clear"}
        /\ c = "page" => k.op = p.step /\ k.op \in PageOps \ {"write"} /\ k.rec = p.rec
        /\ c \in Days \cup {"old"} => k.op = "write" /\ k.save > 0
        /\ k.op \in {"entry", "photo", "place", "get", "cleanup", "update", "write"} => k.rec \in Records
        /\ c \in {"profile", "exit", "page", "old"} \cup Days
        /\ k \in Call /\ k.pc # "idle"
    BY SlotNames DEF ServedBy, Ending, Days
  <1>4. {"profile", "exit", "page", "old"} \cap Days = {} /\ "day1" \in Days /\ k.op # "create"
    BY DEF Days
  <1>5. p.rec # None => p.rec \in Records /\ RowChange(b, c, w, p.rec) /\ rows[p.rec] \in Row
    BY <1>1, <1>2 DEF Page, TypeOK
  <1> HIDE DEF b
  <1>6. CASE k.op \notin {"entry", "photo", "write", "place", "cleanup"}
    <2>1. Unharmed(p)
      BY Zenon, <1>5, <1>6 DEF Unharmed, RowChange
    <2>2. Done(p, c)
      BY <1>3, <1>4, <1>6, <2>1 DEF Done
    <2>3. QED
      BY <2>1, <2>2 DEF b
  <1>7. CASE k.op = "cleanup"
    <2>1. c = "page" /\ p.step = "cleanup" /\ k.rec = p.rec
      BY <1>3, <1>7 DEF PageOps
    <2>2. Unharmed(p)
      BY Zenon, <1>5, <1>7 DEF Unharmed, RowChange
    <2>3. rows'[p.rec].owner = "deleted"
      BY <1>2, <1>3, <1>7, <2>1 DEF RowChange
    <2>4. Done(p, c)
      BY <1>4, <2>1, <2>3 DEF Done
    <2>5. QED
      BY <2>2, <2>4 DEF b
  <1>8. CASE k.op = "place"
    <2>1. c = "page" /\ p.step = "place" /\ k.rec = p.rec
      BY <1>3, <1>8 DEF PageOps
    <2>2. Unharmed(p)
      BY Zenon, <1>5, <1>8 DEF Unharmed, RowChange
    <2>3. rows'[p.rec].place
      BY Zenon, <1>2, <1>3, <1>8, <2>1 DEF RowChange
    <2>4. Done(p, c)
      BY <1>4, <2>1, <2>2, <2>3 DEF Done
    <2>5. QED
      BY <2>2, <2>4 DEF b
  <1>9. CASE k.op = "entry"
    <2>1. c = "page" /\ p.step = "entry" /\ k.rec = p.rec /\ p.rec \in Records
      BY <1>3, <1>9 DEF PageOps
    <2>2. /\ rows'[p.rec].photos = rows[p.rec].photos
          /\ rows'[p.rec].notes = [rows[p.rec].notes EXCEPT !["day1"] = MaxSaves + 1]
      BY <1>2, <1>9, <2>1 DEF RowChange
    <2>3. rows[p.rec].notes \in [Days -> 0 .. MaxSaves + 1]
      BY <1>1, <2>1 DEF TypeOK, Row
    <2>4. rows'[p.rec].notes["day1"] = MaxSaves + 1 /\ MaxSaves + 1 > 0
      BY <1>4, <2>2, <2>3
    <2>5. Done(p, c)
      BY <1>4, <2>1, <2>2, <2>4 DEF Done
    <2>6. QED
      BY <2>1, <2>5 DEF b
  <1>10. CASE k.op = "photo"
    <2>1. c = "page" /\ p.step = "photo" /\ k.rec = p.rec /\ p.rec \in Records
      BY <1>3, <1>10 DEF PageOps
    <2>2. /\ rows'[p.rec].photos = rows[p.rec].photos + 1
          /\ rows'[p.rec].notes = rows[p.rec].notes
      BY <1>2, <1>10, <2>1 DEF RowChange
    <2>3. Done(p, c)
      BY <1>4, <2>1, <2>2 DEF Done
    <2>4. QED
      BY <2>1, <2>3 DEF b
  <1>11. CASE k.op = "write"
    <2>1. c \in Days \cup {"old"}
      BY <1>3, <1>11
    <2>2. CASE c \in Days /\ p.step = "days"
      <3>1. k.rec = p.rec /\ k.save = p.save /\ k.day = c
        BY <1>1, <1>3, <2>2 DEF PageCallsOK
      <3>2. rows'[p.rec].notes = [rows[p.rec].notes EXCEPT ![c] = p.save]
        BY <1>2, <1>3, <1>11, <3>1 DEF RowChange
      <3>3. Done(p, c)
        BY <1>4, <2>2, <3>2 DEF Done
      <3>4. QED
        BY <2>2, <3>3 DEF b
    <2>3. CASE ~(c \in Days /\ p.step = "days")
      <3>1. ~(p.save > 0 /\ p.alone)
        <4>1. CASE c = "old"
          BY <1>1, <1>3, <4>1 DEF PageCallsOK
        <4>2. CASE c \in Days
          BY <2>3, <4>2 DEF Stray, b
        <4>3. QED
          BY <2>1, <4>1, <4>2
      <3>2. ASSUME p.rec # None
            PROVE  /\ rows'[p.rec].photos = rows[p.rec].photos
                   /\ rows[p.rec].notes["day1"] > 0 => rows'[p.rec].notes["day1"] > 0
                   /\ rows[p.rec].place => rows'[p.rec].place
        <4>1. /\ rows'[p.rec].photos = rows[p.rec].photos
              /\ rows[p.rec].place => rows'[p.rec].place
              /\ rows'[p.rec].notes = IF p.rec = k.rec THEN [rows[p.rec].notes EXCEPT ![k.day] = k.save]
                                      ELSE rows[p.rec].notes
          BY Zenon, <1>5, <1>11, <3>2 DEF RowChange
        <4>2. rows[p.rec].notes \in [Days -> 0 .. MaxSaves + 1]
          BY <1>5, <3>2 DEF Row
        <4>3. QED
          BY <1>3, <1>4, <2>1, <4>1, <4>2
      <3>3. Unharmed(p)
        BY <3>1, <3>2 DEF Unharmed
      <3>4. Done(p, c)
        BY <1>4, <2>1, <2>3, <3>3 DEF Done
      <3>5. QED
        BY <3>3, <3>4 DEF b
    <2>4. QED
      BY <2>2, <2>3
  <1>12. QED
    BY <1>6, <1>7, <1>8, <1>9, <1>10, <1>11

\* The slot of a call that has ended is empty, but for the next call of a page.
LEMMA SettledSlot ==
  ASSUME NEW b, NEW c, Ending(b, c), c # "page", NEW ok \in BOOLEAN, NEW u \in Users \cup {None}
  PROVE  Settled(b, c, ok, u).call[c] = NoCall
  <1>1. Without(b, c).call[c] = NoCall /\ c \in {"profile", "login", "exit", "old"} \cup Days
    BY WithoutTab, SlotNames DEF Ending, Days
  <1>2. Settled(b, c, ok, u).call = Without(b, c).call
    <2>1. CASE c = "profile"
      BY <2>1, ProfileSettled
    <2>2. CASE c \in {"login", "old"}
      BY <2>2, OtherSettled
    <2>3. CASE c = "exit"
      BY <2>3, ExitSettled
    <2>4. CASE c \in Days
      BY <2>4, DaySettled
    <2>5. QED
      BY <1>1, <2>1, <2>2, <2>3, <2>4
  <1>3. QED
    BY <1>1, <1>2

\* What the page claims of its record stays so when a call other than a creation
\* ends, whether the answer arrived or was lost.
LEMMA ServedKeeps ==
  ASSUME IInv, NEW t \in Tabs, NEW c, NEW w, ServedBy(tab[t], c, w), rows' = RowsAfter(tab[t], c, w),
         tab[t].call[c].op # "create", NEW ok \in BOOLEAN,
         NEW R, PageOfSame(tab[t], R), PageAfter(tab[t], c, ok, R), R.slips = tab[t].slips,
         R.call[c] = NoCall \/ c = "page"
  PROVE  Keeps(R)
  <1>1. TypeOK /\ RowsOK /\ Ending(tab[t], c) /\ RowsStay
    BY ServedRows DEF IInv, ServedBy
  <1>2. c = "page" => tab[t].page.step # "create"
    BY DEF ServedBy
  <1>3. CASE ~Stray(tab[t], c)
    <2>1. /\ Done(tab[t].page, c)
          /\ \/ Unharmed(tab[t].page)
             \/ c = "page" /\ tab[t].page.step \in {"entry", "photo"}
             \/ c \in Days /\ tab[t].page.step = "days"
      BY <1>3, ServedDone
    <2>2. CASE ok
      <3>1. PageAfter(tab[t], c, TRUE, R)
        BY Zenon, <2>2
      <3>2. QED
        BY Zenon, <1>1, <1>2, <2>1, <3>1, KeepsDone
    <2>3. CASE ~ok
      <3>1. PageAfter(tab[t], c, FALSE, R)
        BY Zenon, <2>3
      <3>2. QED
        BY Zenon, <1>1, <2>1, <3>1, KeepsFailed
    <2>4. QED
      BY <2>2, <2>3
  <1>4. CASE Stray(tab[t], c)
    <2> DEFINE b == tab[t]  p == b.page
    <2>1. c \in Days /\ p.step # "days" /\ p.save > 0 /\ R.page = p
      BY <1>4 DEF Stray, PageAfter, AfterDay
    <2>2. b \in Tab /\ PageOK(p) /\ PageCallsOK(b) /\ p \in Page /\ b.call[c].pc # "idle"
      BY <1>1 DEF Ending, TabOK, Tab
    <2>3. p.made = None /\ p.rec \in Records /\ p.outcome # "shown"
      BY <2>1, <2>2 DEF PageOK, PageCallsOK, Page
    <2>4. /\ rows[p.rec].owner # "new"
          /\ rows[p.rec].owner \in {p.user, "deleted"} \/ b.slips # {}
      BY <1>1, <2>3 DEF RowsOK
    <2>5. /\ rows'[p.rec].owner # "new"
          /\ rows'[p.rec].owner \in {p.user, "deleted"} \/ R.slips # {}
      BY <1>1, <2>3, <2>4 DEF RowsStay
    <2> HIDE DEF p
    <2>6. QED
      BY <2>1, <2>3, <2>5 DEF Keeps, Stored
  <1>5. QED
    BY <1>3, <1>4

\* What changes a page only is the end of a call without news.
LEMMA KeptSettles ==
  ASSUME NEW b, Ending(b, "page"), NEW R, Kept(b, R), R.page.user = b.page.user
  PROVE  Settles(b, R) /\ Looks(b, R)
  <1>1. b.page.step # "idle"
    BY NoPageOK DEF Ending, TabOK, PageCallsOK
  <1>2. \A s \in Sessions : Holds(R, s) => Holds(b, s)
    BY HoldsLess DEF Kept
  <1>3. R.call["exit"] = b.call["exit"] \/ R.call["exit"].pc # "served"
    BY SlotNames DEF Kept
  <1>4. QED
    BY <1>1, <1>2, <1>3 DEF Settles, Looks, Kept

\* The server makes a record: the page that asked for it learns so or not.
LEMMA CreatedInv ==
  ASSUME IInv, NEW t \in Tabs, NEW c \in Slots, CallServed(t, c), tab[t].call[c].op = "create"
  PROVE  IInv'
  <1> DEFINE b == tab[t]  k == b.call[c]  p == b.page  w == UserOf(k.token)  r == NewRecord
             lost == [b EXCEPT !.page.made = r]  told == [lost EXCEPT !.page.rec = r]
             L == Settled(lost, "page", FALSE, None)  T == Settled(told, "page", TRUE, w)
  <1>1. ServedBy(b, c, w)
    BY GrantedCall
  <1>2. /\ rows' = RowsAfter(b, c, w) /\ session' = SessionsAfter(b, c, w)
        /\ UNCHANGED <<expired, cookie, reused, raced>>
    BY DEF CallServed
  <1>3. /\ c = "page" /\ p.step = "create" /\ Ending(b, "page") /\ w \in Users /\ p \in Page
        /\ k.token \in Tokens \ {None}
    BY <1>1, SlotNames DEF ServedBy, Ending, Days
  <1>4. tab' = TabsAfter(t, c, L) \/ tab' = TabsAfter(t, c, T)
    BY Zenon, <1>3 DEF CallServed, Noted
  <1>5. r \in Records /\ rows[r] = NewRow /\ RowChange(b, c, w, r)
    BY Zenon, <1>1, <1>2, ServedRows
  <1>6. /\ rows'[r].owner = w /\ rows'[r].photos = 0 /\ w # "new"
    BY <1>3, <1>5 DEF RowChange, NewRow
  <1>7. p.left = Files /\ p.left > 0
    BY <1>3 DEF Ending, TabOK, PageOK
  <1>9. L = Unlearnt(b, r) /\ T = Learnt(b, r, w)
    BY DEF Unlearnt, Learnt
  <1> HIDE DEF L, T
  <1>10. /\ Kept(b, L) /\ Kept(b, T)
         /\ L.page.user = p.user /\ L.page.made = r /\ L.page.rec = None
         /\ T.page.user = p.user /\ T.page.made = r /\ T.page.rec = r
         /\ T.page.outcome = None /\ T.page.save = 0
         /\ T.page.left = Files /\ T.page.note = p.note
         /\ T.page.step \in {"entry", "prepare"} /\ (p.note => T.page.step = "entry")
    <2>1. Ending(b, "page") /\ b.page.step = "create" /\ r \in Records
      BY <1>3, <1>5
    <2> HIDE DEF b, w, r, k
    <2>2. /\ Kept(b, L) /\ Kept(b, T)
          /\ L.page.user = b.page.user /\ L.page.made = r /\ L.page.rec = None
          /\ T.page.user = b.page.user /\ T.page.made = r /\ T.page.rec = r
          /\ T.page.outcome = None /\ T.page.save = 0
          /\ T.page.left = Files /\ T.page.note = b.page.note
          /\ T.page.step \in {"entry", "prepare"} /\ (b.page.note => T.page.step = "entry")
      BY ONLY <1>9, <2>1, CreateSettled
    <2>3. QED
      BY <2>2
  <1>11. b.slips = {} => w = p.user
    <2> SUFFICES ASSUME b.slips = {} PROVE w = p.user
      OBVIOUS
    <2>1. k.token[1] \in Sessions /\ Holds(b, k.token[1])
      BY <1>3, TokenParts DEF Holds, Of
    <2>2. Held(k.token[1])
      BY <2>1, HeldByTab
    <2>3. UserAgrees(b)
      BY DEF IInv, GroupOK
    <2>4. QED
      BY <1>3, <2>1, <2>2, <2>3 DEF UserAgrees, UserOf
  <1>12. ASSUME NEW R, Kept(b, R), R.page.user = p.user, R.page.made = r, Keeps(R), tab' = TabsAfter(t, c, R)
         PROVE  IInv'
    <2>1. Settles(b, R) /\ Looks(b, R)
      BY <1>3, <1>12, KeptSettles
    <2>2. b.slips = {} /\ R.status = "authenticated" => R.access # None /\ session[R.access[1]].user = R.shown
      BY <2>1, LooksStill DEF IInv
    <2>3. R.page.made # None =>
            \/ R.page.made = p.made
            \/ rows[R.page.made].owner = "new" /\ rows'[R.page.made].owner # "new"
      BY <1>5, <1>6, <1>12 DEF NewRow
    <2> HIDE DEF w
    <2>4. QED
      BY Zenon, <1>1, <1>2, <1>12, <2>1, <2>2, <2>3, ServedMove
  <1>13. Keeps(L)
    BY <1>10 DEF Keeps
  <1>14. Keeps(T)
    <2>1. T.slips = b.slips
      BY <1>10 DEF Kept
    <2>2. rows'[r].owner \in {p.user, "deleted"} \/ T.slips # {}
      BY <1>6, <1>11, <2>1
    <2>3. Stored(rows'[r], T.page)
      <3> HIDE DEF r
      <3>1. QED
        BY <1>6, <1>10 DEF Stored
    <2>4. r # None
      BY <1>5
    <2>5. T.page.step # "days"
      BY <1>10
    <2>6. rows'[r].owner # "new"
      BY <1>6
    <2> HIDE DEF r
    <2>7. QED
      BY <1>10, <2>2, <2>3, <2>4, <2>5, <2>6 DEF Keeps
  <1>15. QED
    BY <1>4, <1>10, <1>12, <1>13, <1>14

\* The server answers a call.
LEMMA CallServedInv ==
  ASSUME IInv, NEW t \in Tabs, NEW c \in Slots, CallServed(t, c)
  PROVE  IInv'
  <1> DEFINE b == tab[t]  k == b.call[c]  p == b.page  w == UserOf(k.token)
  <1>1. ServedBy(b, c, w) /\ k.pc = "sent"
    BY GrantedCall
  <1>2. CASE k.op = "create"
    BY <1>2, CreatedInv
  <1>3. CASE k.op # "create"
    <2>1. /\ rows' = RowsAfter(b, c, w) /\ session' = SessionsAfter(b, c, w)
          /\ UNCHANGED <<expired, cookie, reused, raced>>
          /\ \/ tab' = TabsAfter(t, c, Settled(b, c, TRUE, w))
             \/ tab' = TabsAfter(t, c, Settled(b, c, FALSE, None))
      BY Zenon, <1>3 DEF CallServed, Noted
    <2>2. /\ Ending(b, c) /\ w \in Users /\ (c = "page" => p.step # "create")
          /\ TypeOK /\ GroupOK /\ k.token \in Tokens \ {None}
      BY <1>1, <1>3 DEF ServedBy, IInv
    <2>3. ASSUME NEW ok \in BOOLEAN, NEW u \in Users \cup {None}, ok => u = w,
                 tab' = TabsAfter(t, c, Settled(b, c, ok, u))
          PROVE  IInv'
      <3> DEFINE R == Settled(b, c, ok, u)
      <3>1. R = Settled(b, c, ok, u)
        OBVIOUS
      <3> HIDE DEF R
      <3>2. /\ Settles(b, R) /\ PageOfSame(b, R) /\ PageAfter(b, c, ok, R)
            /\ IF c = "profile" /\ ok
               THEN R.status = "authenticated" /\ R.shown = u /\ R.access = b.access
               ELSE Looks(b, R)
        <4> HIDE DEF b
        <4>1. b.page.step # "create" \/ c # "page"
          BY <2>2
        <4>2. QED
          BY <2>2, <3>1, <4>1, SettledTab
      <3>3. R.call[c] = NoCall \/ c = "page"
        BY <2>2, <3>1, SettledSlot
      <3>4. R.slips = b.slips /\ R.page.made = p.made
        BY <3>2 DEF Settles, PageOfSame
      <3>5. Keeps(R)
        <4> HIDE DEF w
        <4>1. QED
          BY <1>1, <1>3, <2>1, <3>2, <3>3, <3>4, ServedKeeps
      <3>6. ASSUME b.slips = {}, R.status = "authenticated"
            PROVE  R.access # None /\ session[R.access[1]].user = R.shown
        <4>1. CASE c = "profile" /\ ok
          <5>1. R.access = b.access /\ R.shown = w
            BY <2>3, <3>2, <4>1
          <5>2. b.access = k.token
            BY <1>1, <2>2, <3>6, <4>1 DEF Ending, TabOK, MountOK
          <5>3. QED
            BY <2>2, <5>1, <5>2 DEF UserOf
        <4>2. CASE ~(c = "profile" /\ ok)
          <5>1. Looks(b, R)
            BY <3>2, <4>2
          <5>2. QED
            BY <2>2, <3>6, <5>1, LooksStill
        <4>3. QED
          BY <4>1, <4>2
      <3>7. tab' = TabsAfter(t, c, R)
        BY <2>3, <3>1
      <3> HIDE DEF w
      <3>8. QED
        BY Zenon, <1>1, <2>1, <3>2, <3>4, <3>5, <3>6, <3>7, ServedMove
    <2>4. CASE tab' = TabsAfter(t, c, Settled(b, c, TRUE, w))
      BY Zenon, <2>2, <2>3, <2>4
    <2>5. CASE tab' = TabsAfter(t, c, Settled(b, c, FALSE, None))
      BY Zenon, <2>3, <2>5
    <2>6. QED
      BY Zenon, <2>1, <2>4, <2>5
  <1>4. QED
    BY <1>2, <1>3

(***************************************************************************)
(* The invariant.                                                          *)
(***************************************************************************)
LEMMA InitIInv == Init => IInv
  <1> SUFFICES ASSUME Init PROVE IInv
    OBVIOUS
  <1>1. PICK s \in Sessions, u \in Users, n \in {0, 1}, old \in SUBSET Records :
          /\ session = [x \in Sessions |->
                           IF x = s THEN [user |-> u, gen |-> 1, alive |-> TRUE]
                           ELSE [user |-> None, gen |-> 0, alive |-> FALSE]]
          /\ cookie = IF n = 1 THEN <<s, 1>> ELSE None
          /\ rows = [x \in Records |-> IF x \in old THEN [NewRow EXCEPT !.owner = u] ELSE NewRow]
    BY Zenon DEF Init
  <1>2. expired = {} /\ reused = {} /\ raced = {} /\ \A t \in Tabs : tab[t] = Closed
    BY DEF Init
  <1>3. 1 \in 1 .. MaxGen
    OBVIOUS
  <1>4. cookie # None => cookie = <<s, 1>> /\ cookie \in Tokens /\ cookie[1] = s /\ cookie[2] = 1
    BY <1>1, <1>3, Pairs
  <1>5. /\ session[s].user = u /\ session[s].gen = 1
        /\ \A x \in Sessions : session[x].user = None => ~session[x].alive
    BY <1>1
  <1>6. TypeOK
    <2>1. session \in [Sessions -> [user : Users \cup {None}, gen : 0 .. MaxGen, alive : BOOLEAN]]
      BY <1>1
    <2>2. [NewRow EXCEPT !.owner = u] \in Row
      BY Constants DEF Row
    <2>3. rows \in [Records -> Row]
      BY <1>1, <2>2, Constants
    <2>4. tab \in [Tabs -> Tab]
      BY Constants DEF Init
    <2>5. QED
      BY <1>2, <1>4, <2>1, <2>3, <2>4, Constants DEF TypeOK
  <1>7. \A t \in Tabs : TabOK(tab[t])
    BY <1>2, ClosedTab
  <1>8. \A t \in Tabs :
          /\ tab[t].page = NoPage /\ tab[t].access = None /\ tab[t].refresh.cookie = None
          /\ tab[t].refresh.pc = "none" /\ tab[t].status = "closed" /\ tab[t].out = FALSE
          /\ \A c \in Slots : /\ tab[t].call[c].token = None /\ tab[t].call[c].cookie = None
                              /\ tab[t].call[c].pc = "idle"
    BY <1>2, ClosedTab, IdleCall DEF NoRefresh
  <1>9. RowsOK
    <2>1. \A r \in Records : rows[r].owner = "new" => rows[r] = NewRow
      BY <1>1 DEF NewRow
    <2>2. QED
      BY <1>8, <2>1, NoPageOK DEF RowsOK
  <1>10. TokensOK
    BY <1>4, <1>5, <1>8 DEF TokensOK, Begun, UserOf
  <1>11. LoginsOK
    BY <1>8, SlotNames DEF LoginsOK
  <1>12. RefreshesOK
    BY <1>2, <1>4, <1>5, <1>8 DEF RefreshesOK, Newest, Of
  <1>13. GroupOK
    <2>1. \A r \in Sessions : Held(r) => r = s
      BY <1>4, <1>8 DEF Held, Holds, Of
    <2>2. \A t \in Tabs : ShowsUser(tab[t]) /\ UserAgrees(tab[t]) /\ LogoutOK(tab[t])
      BY <1>8, NoPageOK, SlotNames DEF ShowsUser, UserAgrees, LogoutOK
    <2>3. QED
      BY <2>1, <2>2 DEF GroupOK, OneSession
  <1>14. QED
    BY <1>6, <1>7, <1>9, <1>10, <1>11, <1>12, <1>13 DEF IInv

\* Every action preserves the invariant.
LEMMA NextIInv == IInv /\ [Next]_vars => IInv'
  <1> SUFFICES ASSUME IInv, [Next]_vars PROVE IInv'
    OBVIOUS
  <1>1. CASE UNCHANGED vars
    <2>1. UNCHANGED <<session, expired, rows, cookie, tab, reused, raced>>
      BY <1>1 DEF vars
    <2>2. TypeOK' /\ \A t \in Tabs : TabOK(tab'[t])
      BY <2>1 DEF IInv, TypeOK
    <2>3. RowsOK'
      BY <2>1 DEF IInv, RowsOK
    <2>4. TokensOK'
      BY <2>1 DEF IInv, TokensOK, Begun, UserOf
    <2>5. LoginsOK'
      BY <2>1 DEF IInv, LoginsOK, UserOf
    <2>6. RefreshesOK'
      BY <2>1 DEF IInv, RefreshesOK, Newest
    <2>7. GroupOK'
      <3>1. \A s : Held(s)' <=> Held(s)
        BY <2>1 DEF Held
      <3>2. OneSession'
        BY <3>1 DEF IInv, GroupOK, OneSession
      <3>3. ASSUME NEW t \in Tabs, tab'[t].slips = {}
            PROVE  ShowsUser(tab[t])' /\ UserAgrees(tab[t])' /\ LogoutOK(tab[t])'
        <4>1. ShowsUser(tab[t]) /\ UserAgrees(tab[t]) /\ LogoutOK(tab[t])
          BY <2>1, <3>3 DEF IInv, GroupOK
        <4>2. QED
          BY <2>1, <3>1, <4>1 DEF ShowsUser, UserAgrees, LogoutOK, UserOf
      <3>4. QED
        BY <3>2, <3>3 DEF GroupOK
    <2>8. QED
      BY <2>2, <2>3, <2>4, <2>5, <2>6, <2>7 DEF IInv
  <1>2. ASSUME NEW t \in Tabs, NEW u \in Users, LoginReturns(t, u) PROVE IInv'
    BY <1>2, LoginReturnsInv
  <1>3. ASSUME NEW t \in Tabs, NEW s \in Sessions, LoginServed(t, s) PROVE IInv'
    BY <1>3, LoginServedInv
  <1>4. ASSUME NEW t \in Tabs, NEW op \in Ops, ExitAsked(t, op) PROVE IInv'
    BY <1>4, ExitAskedInv
  <1>5. ASSUME NEW t \in Tabs, NEW note \in BOOLEAN, NEW place \in BOOLEAN, SubmitAsked(t, note, place)
        PROVE  IInv'
    BY <1>5, SubmitAskedInv
  <1>6. ASSUME NEW t \in Tabs, NEW r \in Records, SaveAsked(t, r) PROVE IInv'
    BY <1>6, SaveAskedInv
  <1>7. ASSUME NEW t \in Tabs, NEW c \in Slots, CallServed(t, c) PROVE IInv'
    BY <1>7, CallServedInv
  <1>8. ASSUME NEW t \in Tabs, NEW c \in Slots, CallFails(t, c) PROVE IInv'
    BY <1>8, CallFailsInv
  <1>9. ASSUME NEW t \in Tabs, NEW c \in Slots, CallRefused(t, c) PROVE IInv'
    BY <1>9, CallRefusedInv
  <1>10. ASSUME NEW t \in Tabs, NEW c \in Slots, CallSettles(t, c) PROVE IInv'
    BY <1>10, CallSettlesInv
  <1>11. ASSUME NEW t \in Tabs,
                \/ Opened(t) \/ LogoutServed(t) \/ LogoutArrives(t) \/ LoginArrives(t)
                \/ PhotoPrepared(t) \/ Expires(t)
                \/ RefreshRotates(t) \/ RefreshRefused(t) \/ RefreshArrives(t) \/ RefreshFails(t)
         PROVE  IInv'
    BY <1>11, OpenedInv, LogoutServedInv, LogoutArrivesInv, LoginArrivesInv, PhotoPreparedInv,
       ExpiresInv, RefreshRotatesInv, RefreshRefusedInv, RefreshArrivesInv, RefreshFailsInv
  <1>12. QED
    BY <1>1, <1>2, <1>3, <1>4, <1>5, <1>6, <1>7, <1>8, <1>9, <1>10, <1>11 DEF Next

\* The invariant behind the theorems below: what every tab, every slot of a
\* tab and every page looks like, which tokens are under way, and that the tabs
\* beside which nobody has signed in share one session.
THEOREM WebInvariance == Spec => []IInv
  BY InitIInv, NextIInv, PTL DEF Spec

\* A tab at rest shows the account of the token it holds, and after a logout
\* that the server has answered none of its tokens is good, whatever refreshes,
\* logins and pages of other tabs went on meanwhile (AuthSessionProvider).
THEOREM TabsAlwaysAgree == Spec => []TabsAgree
  <1>1. IInv => TabsAgree
    <2> SUFFICES ASSUME IInv, NEW t \in Tabs,
                        tab[t].status # "closed", AtRest(tab[t]), tab[t].slips = {}
                 PROVE  /\ tab[t].status # "loading"
                        /\ tab[t].status = "authenticated" =>
                              tab[t].access # None /\ UserOf(tab[t].access) = tab[t].shown
                        /\ tab[t].out => ~Accepts(tab[t].access)
      BY DEF TabsAgree, IInv
    <2>1. tab[t].status # "loading"
      BY SlotNames DEF IInv, TabOK, MountOK, AtRest
    <2>2. ShowsUser(tab[t]) /\ UserAgrees(tab[t])
      BY DEF IInv, GroupOK
    <2>3. ASSUME tab[t].out, tab[t].access # None PROVE ~session[tab[t].access[1]].alive
      <3>1. tab[t].access \in Tokens
        BY DEF IInv, TypeOK, Tab
      <3>2. tab[t].access[1] \in Sessions /\ Held(tab[t].access[1])
        BY <2>3, <3>1, TokenParts DEF Held, Holds, Of
      <3>3. QED
        BY <2>2, <2>3, <3>2 DEF UserAgrees
    <2>4. QED
      BY <2>1, <2>2, <2>3 DEF ShowsUser, Accepts
  <1>2. QED
    BY <1>1, WebInvariance, PTL

\* Nothing waits for an answer that cannot come: neither a call for a refresh,
\* nor a mounted page for its profile, nor a saving page for its calls
\* (refreshAccessToken, loadProfile, submit, save).
THEOREM NobodyIsForgotten == Spec => []NobodyForgotten
  <1>1. IInv => NobodyForgotten
    <2> SUFFICES ASSUME IInv, NEW t \in Tabs
                 PROVE  LET b == tab[t]
                        IN  /\ \A c \in Slots : b.call[c].pc = "refresh" => b.refresh.pc # "none"
                            /\ b.status = "loading" => b.call["profile"].pc # "idle"
                            /\ b.page.step \in PageOps => b.call["page"].pc # "idle"
                            /\ b.page.step = "days" => \E d \in Days : b.call[d].pc # "idle"
      BY DEF NobodyForgotten
    <2>1. CallsOK(tab[t]) /\ MountOK(tab[t]) /\ PageCallsOK(tab[t])
      BY DEF IInv, TabOK
    <2>2. \A c \in Slots : tab[t].call[c].pc = "refresh" => tab[t].refresh.pc # "none"
      BY <2>1 DEF CallsOK, CallOK
    <2>3. QED
      BY <2>1, <2>2 DEF MountOK, PageCallsOK
  <1>2. QED
    BY <1>1, WebInvariance, PTL

\* The server ends a session for the reuse of a refresh token only if an answer
\* that carried a token was lost or two tabs were refreshing that session at a
\* time (http.ts).
THEOREM ReuseIsAlwaysARace == Spec => []ReuseIsARace
  <1>1. IInv => ReuseIsARace
    BY DEF IInv, RefreshesOK, ReuseIsARace
  <1>2. QED
    BY <1>1, WebInvariance, PTL

\* What the pages that create and edit a record report to the user is what the
\* server has, whatever failed, was lost or was done by another tab meanwhile
\* (submit of RecordCreatePage, save of RecordEditPage).
THEOREM PagesStayTruthful == Spec => []PagesTellTheTruth
  <1>1. IInv => PagesTellTheTruth
    <2> SUFFICES ASSUME IInv, NEW t \in Tabs
                 PROVE  LET p == tab[t].page
                            Exists(r) == rows[r].owner # "deleted"
                        IN  /\ p.outcome = "error" /\ p.made # None => p.rec = None \/ ~Exists(p.made)
                            /\ p.outcome = "shown" /\ Exists(p.rec) =>
                                  /\ rows[p.rec].owner = p.user \/ tab[t].slips # {}
                                  /\ p.made # None =>
                                        /\ rows[p.rec].photos = Files
                                        /\ p.note => rows[p.rec].notes["day1"] > 0
                                        /\ p.place /\ p.synced => rows[p.rec].place
                                  /\ p.made = None /\ p.alone =>
                                        \A d \in Days : rows[p.rec].notes[d] = p.save
      BY DEF PagesTellTheTruth
    <2> DEFINE p == tab[t].page
    <2>1. PageOK(p) /\ p.save \in Nat
      BY DEF IInv, TabOK, TypeOK, Tab, Page
    <2>2. /\ p.outcome = "error" /\ p.made # None => p.rec = None \/ rows[p.made].owner = "deleted"
          /\ p.rec # None => /\ rows[p.rec].owner \in {p.user, "deleted"} \/ tab[t].slips # {}
                             /\ Stored(rows[p.rec], p)
      BY DEF IInv, RowsOK
    <2>3. ASSUME p.outcome = "shown" PROVE p.rec # None /\ (p.made # None <=> p.save = 0)
      BY <2>1, <2>3 DEF PageOK
    <2> HIDE DEF p
    <2>4. ASSUME p.outcome = "shown", p.made # None
          PROVE  /\ rows[p.rec].photos = Files
                 /\ p.note => rows[p.rec].notes["day1"] > 0
                 /\ p.place /\ p.synced => rows[p.rec].place
      BY <2>2, <2>3, <2>4 DEF Stored
    <2>5. ASSUME p.outcome = "shown", p.made = None, p.alone
          PROVE  \A d \in Days : rows[p.rec].notes[d] = p.save
      BY <2>1, <2>2, <2>3, <2>5 DEF Stored
    <2>6. QED
      BY <2>2, <2>3, <2>4, <2>5 DEF p
  <1>2. QED
    BY <1>1, WebInvariance, PTL
=============================================================================
