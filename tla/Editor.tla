--------------------------------- MODULE Editor ---------------------------------
(****************************************************************************)
(* Locks and whole-page saves together, as the users of one page meet them: *)
(* the rows of PageEditor and BlockEditor with their timers, the calls of   *)
(* useCollaboration, and the handlers that answer them.                     *)
(*                                                                          *)
(* A tab asks for the lock of the row it clicks, shows a textarea once it   *)
(* hears lock_acquired, and saves the page some time after the last edit.   *)
(* Moving to another row gives the old lock back at once; the blur timer    *)
(* and the inactivity timer give it back later.  handlePageUpdate looks at  *)
(* the version only, never at locks.                                        *)
(*                                                                          *)
(* The text of a row is the set of the edits that went into it: a text that *)
(* lacks an edit was made by somebody who had not seen that edit.           *)
(*                                                                          *)
(* Coarser than LockService, LockViews and PageSync, which look closer: the *)
(* tabs, one for each user, have joined already; calls of Redis and of      *)
(* PageService succeed; a broadcast is one step, some time after the effect *)
(* it announces, and other goroutines run in between; no message is         *)
(* dropped; React renders what a message changes before the next event      *)
(* (PageSync does not assume that); and timers fire in any order, except    *)
(* that a lock is renewed in time.  The title (PageSync) and lock_denied,   *)
(* which raises a banner, are left out.                                     *)
(****************************************************************************)
EXTENDS Naturals, Sequences

CONSTANTS
  Tabs,
  Rows,        \* rows the page can grow to
  FirstPage,   \* the rows it starts with
  NoTab, NoRow, NoMsg,
  MaxEdits,    \* bound: edits of rows and added pages
  QueueCap     \* bound: users wait while so many messages are unread

ASSUME EditorAssumption ==
  /\ NoTab \notin Tabs /\ NoRow \notin Rows
  /\ FirstPage \subseteq Rows
  /\ MaxEdits \in Nat /\ QueueCap \in Nat

VARIABLES
  holder,   \* holder[r]: the tab whose connection has the key of r in Redis
  page,     \* the row of pages: version, rows, text
  inbound,  \* inbound[c]: messages from tab c the server has not handled
  cast,     \* cast[c]: what goroutine c is about to send
  outbound, \* outbound[d]: messages on their way to tab d
  tab,      \* tab[d]: the editor of d
  edits,    \* how many edits were made
  kept,     \* kept[c][r]: edits of r that c stored while it held r, and has
            \* not taken back with a later save of its own (history)
  orderly   \* whether no message was overtaken on its way out (history)

vars == <<holder, page, inbound, cast, outbound, tab, edits, kept, orderly>>

Holder == Tabs \union {NoTab}
Texts == [Rows -> SUBSET (1..MaxEdits)]
Empty == [r \in Rows |-> {}]
Page == [version : Nat \ {0}, rows : {FirstPage, Rows}, text : Texts]

(****************************************************************************)
(* A tab: locks is locksRef, renewing the rows with a renewInterval, active *)
(* is activeBlockRef; timed the rows with a timer that will release them    *)
(* (one for both timers of BlockEditor), timer the save timer.              *)
(****************************************************************************)
Tab ==
  [open : BOOLEAN, page : Page, locks : [Rows -> Holder],
   active : Rows \union {NoRow}, renewing : SUBSET Rows,
   timed : SUBSET Rows, timer : BOOLEAN]

FirstVersion == [version |-> 1, rows |-> FirstPage, text |-> Empty]

NewTab ==
  [open |-> TRUE, page |-> FirstVersion, locks |-> [r \in Rows |-> NoTab],
   active |-> NoRow, renewing |-> {}, timed |-> {}, timer |-> FALSE]

LockAcquired(r, c) == [type |-> "lock_acquired", row |-> r, user |-> c]
LockReleased(r) == [type |-> "lock_released", row |-> r]
PageUpdated(p) == [type |-> "page_updated", page |-> p]
Answer(p) == [type |-> "answer", page |-> p]   \* PageUpdated, to the requester
Lock(r) == [type |-> "lock", row |-> r]
Unlock(r) == [type |-> "unlock", row |-> r]
Save(p) == [type |-> "page_update", page |-> p]

OutMessage ==
  [type : {"lock_acquired"}, row : Rows, user : Tabs]
    \union [type : {"lock_released"}, row : Rows]
    \union [type : {"page_updated"}, page : Page]

Outgoing == OutMessage \union [type : {"answer"}, page : Page]

ASSUME NoMsgAssumption == NoMsg \notin Outgoing

InMessage ==
  [type : {"lock", "unlock"}, row : Rows]
    \union [type : {"page_update"}, page : Page]

EditorTypeOK ==
  /\ holder \in [Rows -> Holder]
  /\ page \in Page
  /\ inbound \in [Tabs -> Seq(InMessage)]
  /\ cast \in [Tabs -> Outgoing \union {NoMsg}]
  /\ outbound \in [Tabs -> Seq(OutMessage)]
  /\ tab \in [Tabs -> Tab]
  /\ \A d \in Tabs : tab[d].timed \subseteq tab[d].page.rows
  /\ edits \in 0..MaxEdits
  /\ kept \in [Tabs -> Texts]
  /\ orderly \in BOOLEAN

EditorInit ==
  /\ holder = [r \in Rows |-> NoTab]
  /\ page = FirstVersion
  /\ inbound = [c \in Tabs |-> <<>>]
  /\ cast = [c \in Tabs |-> NoMsg]
  /\ outbound = [d \in Tabs |-> <<>>]
  /\ tab = [d \in Tabs |-> NewTab]
  /\ edits = 0
  /\ kept = [c \in Tabs |-> Empty]
  /\ orderly = TRUE

--------------------------------------------------------------------------------
(* The server *)

\* readPump takes the next message of c once the last one is dealt with.
Take(c, type) ==
  /\ cast[c] = NoMsg
  /\ inbound[c] # <<>>
  /\ Head(inbound[c]).type = type
  /\ inbound' = [inbound EXCEPT ![c] = Tail(@)]

Announce(c, m) == cast' = [cast EXCEPT ![c] = m]

\* The key of r was given back, and its lock_released is not out.
Releasing(r) == \E e \in Tabs : cast[e] = LockReleased(r)

\* A stored page is not out.
Publishing ==
  \E e \in Tabs : cast[e] # NoMsg /\ cast[e].type \in {"page_updated", "answer"}

LockRow(c) ==
  /\ Take(c, "lock")
  /\ LET r == Head(inbound[c]).row IN
     \/ /\ holder[r] = NoTab
        /\ holder' = [holder EXCEPT ![r] = c]
        /\ Announce(c, LockAcquired(r, c))
        /\ orderly' = (orderly /\ ~Releasing(r))
     \/ holder[r] # NoTab /\ UNCHANGED <<holder, cast, orderly>>
  /\ UNCHANGED <<page, outbound, tab, edits, kept>>

FreeRow(c, r) ==
  /\ holder[r] = c
  /\ holder' = [holder EXCEPT ![r] = NoTab]
  /\ Announce(c, LockReleased(r))

UnlockRow(c) ==
  /\ Take(c, "unlock")
  /\ LET r == Head(inbound[c]).row IN
     \/ FreeRow(c, r)
     \/ holder[r] # c /\ UNCHANGED <<holder, cast>>
  /\ UNCHANGED <<page, outbound, tab, edits, kept, orderly>>

\* A stored page, and which of its edits their saver had locked.
Store(c, p) ==
  /\ page' = [p EXCEPT !.version = @ + 1]
  /\ kept' = [kept EXCEPT ![c] = [r \in Rows |->
       IF holder[r] = c THEN p.text[r] ELSE @[r] \intersect p.text[r]]]
  /\ Announce(c, PageUpdated(page'))

\* Mutant: the expected version is not looked at.
UpdatePage_AnyVersion(c) ==
  /\ Take(c, "page_update")
  /\ Store(c, [Head(inbound[c]).page EXCEPT !.version = page.version])
  /\ orderly' = (orderly /\ ~Publishing)
  /\ UNCHANGED <<holder, outbound, tab, edits>>

\* On a conflict the requester alone gets the page that is stored.
UpdatePage(c) ==
  /\ Take(c, "page_update")
  /\ LET p == Head(inbound[c]).page IN
     \/ p.version = page.version /\ Store(c, p)
     \/ /\ p.version # page.version
        /\ Announce(c, Answer(page))
        /\ UNCHANGED <<page, kept>>
  /\ orderly' = (orderly /\ ~Publishing)
  /\ UNCHANGED <<holder, outbound, tab, edits>>

\* What a tab gets of an announcement.
Sent(m) == IF m.type = "answer" THEN PageUpdated(m.page) ELSE m

\* The hub hands it to every tab that is still there, or to the one that asked.
Broadcast(c) ==
  /\ cast[c] # NoMsg
  /\ Announce(c, NoMsg)
  /\ outbound' = [d \in Tabs |->
       IF tab[d].open /\ (d = c \/ cast[c].type # "answer")
       THEN Append(outbound[d], Sent(cast[c])) ELSE outbound[d]]
  /\ UNCHANGED <<holder, page, inbound, tab, edits, kept, orderly>>

\* handleDisconnect, one lock at a time.
ReleaseOnClose(c, r) ==
  /\ ~tab[c].open /\ inbound[c] = <<>> /\ cast[c] = NoMsg
  /\ FreeRow(c, r)
  /\ UNCHANGED <<page, inbound, outbound, tab, edits, kept, orderly>>

\* m is on its way from the server to tab d.
OnItsWay(m, d) == m = cast[d] \/ \E i \in DOMAIN outbound[d] : outbound[d][i] = m

Unlocking(d, r) == \E i \in DOMAIN inbound[d] : inbound[d][i] = Unlock(r)

\* The key of r runs out: its tab neither renews it nor is about to do so, nor
\* is its release on the way.
Expire(r) ==
  /\ \E c \in Tabs :
       /\ holder[r] = c
       /\ tab[c].open
       /\ r \notin tab[c].renewing
       /\ ~OnItsWay(LockAcquired(r, c), c)
       /\ ~Unlocking(c, r)
  /\ holder' = [holder EXCEPT ![r] = NoTab]
  /\ orderly' = (orderly /\ ~Publishing)
  /\ UNCHANGED <<page, inbound, cast, outbound, tab, edits, kept>>

--------------------------------------------------------------------------------
(* What a tab shows *)

\* The rows rendered as a textarea; all others are plain text.
IsOwnedByMe(d, t) == {r \in t.page.rows : t.locks[r] = d}

\* The rows with somebody else's badge.
LockedByOther(d) == {r \in tab[d].page.rows : tab[d].locks[r] \notin {d, NoTab}}

Clickable(d) ==
  tab[d].page.rows \ (IsOwnedByMe(d, tab[d]) \union LockedByOther(d))

\* Mutant: no timer starts when a row becomes the tab's own.
Rendered_NoTimer(d, t) == [t EXCEPT !.timed = @ \intersect IsOwnedByMe(d, t)]

\* Mutant: the timers of a row that goes away run on.
Rendered_TimersStay(d, t) ==
  [t EXCEPT !.timed = @ \union (IsOwnedByMe(d, t) \ IsOwnedByMe(d, tab[d]))]

\* A new textarea starts its inactivity timer, one that goes away takes its
\* timers along.
Rendered(d, t) ==
  LET own == IsOwnedByMe(d, t)
      new == own \ IsOwnedByMe(d, tab[d])
  IN [t EXCEPT !.timed = (@ \intersect own) \union new]

Show(d, t) == tab' = [tab EXCEPT ![d] = Rendered(d, t)]

--------------------------------------------------------------------------------
(* ws.onmessage *)

OnLockAcquired(d, m) ==
  Show(d, [tab[d] EXCEPT
    !.locks[m.row] = m.user,
    !.renewing = IF m.user = d THEN @ \union {m.row} ELSE @])

OnLockReleased(d, m) ==
  Show(d, [tab[d] EXCEPT !.locks[m.row] = NoTab, !.renewing = @ \ {m.row}])

\* The rows are those of the message; the text of the tab's own rows stays.
Merge(d, p) ==
  [p EXCEPT !.text = [r \in Rows |->
    IF r \in IsOwnedByMe(d, tab[d]) \intersect p.rows THEN tab[d].page.text[r]
    ELSE p.text[r]]]

OnPageUpdated(d, m) == Show(d, [tab[d] EXCEPT !.page = Merge(d, m.page)])

Receive(d) ==
  /\ outbound[d] # <<>>
  /\ outbound' = [outbound EXCEPT ![d] = Tail(@)]
  /\ LET m == Head(outbound[d]) IN
     \/ m.type = "lock_acquired" /\ OnLockAcquired(d, m)
     \/ m.type = "lock_released" /\ OnLockReleased(d, m)
     \/ m.type = "page_updated" /\ OnPageUpdated(d, m)
  /\ UNCHANGED <<holder, page, inbound, cast, edits, kept, orderly>>

--------------------------------------------------------------------------------
(* What a user does *)

\* Bound: a user waits for the server, and while others have much to read.
Calm(d) ==
  /\ inbound[d] = <<>>
  /\ \A c, e \in Tabs : Len(inbound[c]) + Len(outbound[e]) < QueueCap

\* The tab of d becomes t and sends ms.
ByTab(d, t, ms) ==
  /\ tab[d].open
  /\ tab' = [tab EXCEPT ![d] = t]
  /\ inbound' = [inbound EXCEPT ![d] = @ \o ms]
  /\ UNCHANGED <<holder, page, cast, outbound, kept, orderly>>

\* Mutant: the row left behind keeps its lock.
AcquireLock_KeepsOld(d, r) ==
  /\ Calm(d)
  /\ r \in Clickable(d)
  /\ ByTab(d, [tab[d] EXCEPT !.active = r], <<Lock(r)>>)
  /\ UNCHANGED edits

\* A click on a row: acquireLock gives the active row back first.
AcquireLock(d, r) ==
  /\ Calm(d)
  /\ r \in Clickable(d)
  /\ LET prev == tab[d].active IN
     ByTab(d, [tab[d] EXCEPT !.active = r, !.renewing = @ \ ({prev} \ {r})],
           IF prev \in {NoRow, r} THEN <<Lock(r)>> ELSE <<Unlock(prev), Lock(r)>>)
  /\ UNCHANGED edits

\* Mutant: the renewal stops, and the server is not told.
ReleaseLock_Untold(d, r) ==
  ByTab(d, [tab[d] EXCEPT !.timed = @ \ {r}, !.renewing = @ \ {r},
                          !.active = IF @ = r THEN NoRow ELSE @], <<>>)

ReleaseLock(d, r) ==
  ByTab(d, [tab[d] EXCEPT !.timed = @ \ {r}, !.renewing = @ \ {r},
                          !.active = IF @ = r THEN NoRow ELSE @], <<Unlock(r)>>)

\* The blur timer or the inactivity timer of r fires.
ReleaseTimer(d, r) == r \in tab[d].timed /\ ReleaseLock(d, r) /\ UNCHANGED edits

\* The focus enters or leaves the textarea of r: a timer starts again.
Touch(d, r) ==
  /\ Calm(d)
  /\ r \in IsOwnedByMe(d, tab[d])
  /\ ByTab(d, [tab[d] EXCEPT !.timed = @ \union {r}], <<>>)
  /\ UNCHANGED edits

\* updateBlockContent, scheduleAutoSave, and the inactivity timer again.
TypeIn(d, r) ==
  /\ r \in IsOwnedByMe(d, tab[d])
  /\ edits < MaxEdits
  /\ edits' = edits + 1
  /\ ByTab(d, [tab[d] EXCEPT !.page.text[r] = @ \union {edits'},
                             !.timed = @ \union {r}, !.timer = TRUE], <<>>)

AddPage(d) ==
  /\ tab[d].page.rows # Rows
  /\ edits < MaxEdits
  /\ edits' = edits + 1
  /\ LET t == [tab[d] EXCEPT !.page.rows = Rows, !.timer = TRUE] IN
     ByTab(d, Rendered(d, t), <<>>)

\* The save timer fires: doSave sends all rows with versionRef.
SaveTimer(d) ==
  /\ Calm(d)
  /\ tab[d].timer
  /\ ByTab(d, [tab[d] EXCEPT !.timer = FALSE], <<Save(tab[d].page)>>)
  /\ UNCHANGED edits

\* The page is left: the socket closes behind what was sent, and the editor is
\* unmounted with its timers and intervals.
Close(d) ==
  /\ tab[d].open
  /\ tab' = [tab EXCEPT ![d] = [NewTab EXCEPT !.open = FALSE]]
  /\ outbound' = [outbound EXCEPT ![d] = <<>>]
  /\ UNCHANGED <<holder, page, inbound, cast, edits, kept, orderly>>

--------------------------------------------------------------------------------
Serve(c) ==
  \/ LockRow(c) \/ UnlockRow(c) \/ UpdatePage(c)
  \/ \E r \in Rows : ReleaseOnClose(c, r)

User(d) ==
  \/ AddPage(d) \/ SaveTimer(d) \/ Close(d)
  \/ \E r \in Rows :
       AcquireLock(d, r) \/ ReleaseTimer(d, r) \/ Touch(d, r) \/ TypeIn(d, r)

EditorNext ==
  \/ \E r \in Rows : Expire(r)
  \/ \E d \in Tabs : Serve(d) \/ Broadcast(d) \/ Receive(d) \/ User(d)

EditorSpec == EditorInit /\ [][EditorNext]_vars

(****************************************************************************)
(* The server serves, browsers read and their timers fire, keys run out.    *)
(* Nobody has to click, type or leave, but a user who has a row pauses in   *)
(* the end: every touch starts its timer again (BlockEditor.tsx 82-98), and *)
(* here it fires nevertheless.                                              *)
(****************************************************************************)
Fairness ==
  /\ \A d \in Tabs :
       /\ WF_vars(Serve(d)) /\ WF_vars(Broadcast(d)) /\ WF_vars(Receive(d))
       /\ \A r \in Rows : WF_vars(ReleaseTimer(d, r))
  /\ \A r \in Rows : WF_vars(Expire(r))

FairSpec == EditorSpec /\ Fairness

--------------------------------------------------------------------------------
(****************************************************************************)
(* Nobody else overwrites an edit that the holder of a row's lock stored,   *)
(* although handlePageUpdate asks for no lock: whoever saves without the    *)
(* lock has either seen the edit or is refused by the version check, as a   *)
(* tab takes over the rows of every version it hears of, but for the rows   *)
(* it shows as its own (useCollaboration.ts 109-116).                       *)
(*                                                                          *)
(* Only as long as messages go out in order.  The handlers send after the   *)
(* effect and hold no lock meanwhile (handler.go 177-197, 246-256, 275-307, *)
(* 285-293).  Once a row is granted before its release was announced, or a  *)
(* page is stored or read, or a key runs out, before an earlier page was    *)
(* sent, tabs may hear of them in the wrong order, and edits are lost.      *)
(****************************************************************************)
LockedSaveStays ==
  orderly => \A c \in Tabs : \A r \in Rows : kept[c][r] \subseteq page.text[r]

\* Nothing about r is under way between tab d and the server.
Undisturbed(d, r) ==
  /\ ~Unlocking(d, r)
  /\ \A i \in DOMAIN outbound[d] :
       outbound[d][i].type = "page_updated" \/ outbound[d][i].row # r
  /\ cast[d] # LockReleased(r)

(****************************************************************************)
(* Whoever sees a textarea has the lock: a row a tab shows as its own, with *)
(* no release of it under way, is held by the connection of that tab.  The  *)
(* display, the renewal interval and activeBlockRef are three records of    *)
(* one fact that acquireLock, releaseLock and onmessage change one by one,  *)
(* and lock_released of an earlier holder may come late.                    *)
(****************************************************************************)
WriterHolds ==
  \A d \in Tabs : \A r \in IsOwnedByMe(d, tab[d]) :
    Undisturbed(d, r) => holder[r] = d

(****************************************************************************)
(* A tab keeps one row at most: with all its messages dealt with, a row it  *)
(* holds and renews is the one it clicked last.                             *)
(****************************************************************************)
OneRowKept ==
  \A d \in Tabs :
    inbound[d] = <<>> /\ outbound[d] = <<>> /\ cast[d] = NoMsg =>
      tab[d].renewing \subseteq {tab[d].active}

(****************************************************************************)
(* A row is given back in the end, unless the page was shortened under its  *)
(* holder: whatever was clicked, released twice, denied or closed, a timer, *)
(* an unlock or the expiry of the key frees it, if only users pause.        *)
(****************************************************************************)
RowsComeFree ==
  \A d \in Tabs : \A r \in Rows :
    holder[r] = d ~> holder[r] # d \/ r \notin tab[d].page.rows

(****************************************************************************)
(* "The client should refresh/synchronize the page rather than silently     *)
(* overwrite newer content" (project.md:618): a stored edit stays.          *)
(****************************************************************************)
SavedStays == [][\A r \in Rows : page.text[r] \subseteq page'.text[r]]_vars
================================================================================
