-------------------------------- MODULE PageSync -------------------------------
(****************************************************************************)
(* Whole-page saves and what the browsers of a room show of the page:       *)
(* handlePageUpdate and the page snapshot of backend/websocket/handler.go   *)
(* over the room (Hub), and at the far end of every connection the editor   *)
(* (frontend/src/hooks/useCollaboration.ts, components/Editor/PageEditor).  *)
(*                                                                          *)
(* UpdatePage is one step here: PageStore shows that it is a compare-and-   *)
(* set.  A page is its fields: one row for every tab, edited by that tab    *)
(* alone (the row's lock is its own: LockService), and the title, edited by *)
(* anybody.  The value of a field is the number of the edit that made it.   *)
(* A slot d is one tab of a browser from its opening on; a reload is        *)
(* another slot.                                                            *)
(*                                                                          *)
(* Lock messages share the queues of the page messages but change nothing   *)
(* here, and no message is dropped: the server takes a step only while      *)
(* every browser's queue has room (KeepsUp).                                *)
(*                                                                          *)
(* Faults:                                                                  *)
(*   "db"    a call of PageService fails, its effect in place or not;       *)
(*   "net"   a connection breaks;                                           *)
(*   "rest"  an API client saves by PUT /api/pages/:id, which tells nobody. *)
(****************************************************************************)
EXTENDS Hub, Integers

CONSTANTS
  Title,       \* the field that is not a row
  NoPage,      \* no content
  MaxEdits,    \* bound: edits of a row
  MaxRenames,  \* bound: edits of the title
  MaxVersion,  \* bound: versions made by API clients go no further
  Faults

ASSUME PageSyncAssumption ==
  /\ Title \notin Conns
  /\ MaxEdits \in Nat
  /\ MaxRenames \in Nat
  /\ MaxVersion \in Nat
  /\ Faults \subseteq {"db", "net", "rest"}

VARIABLES
  history,  \* history[v]: the content of version v; the last one is stored
  op,       \* op[c]: where goroutine c is, and the page it has at hand
  inbound,  \* inbound[c]: page_update messages on their way to the server
  tab,      \* tab[d]: the editor of d
  missed,   \* missed[d]: versions saved through the hub since d joined and not
            \* yet queued for d (history)
  unanswered  \* unanswered[d]: saves sent over d's connection, less the answers
              \* queued for d (history)

vars == <<hubVars, history, op, inbound, tab, missed, unanswered>>

Fields == Conns \union {Title}
Content == [Fields -> Nat]
Page == [version : Nat, content : Content]

\* A page_update.  torn: versionRef was ahead of blocksRef when it was sent, the
\* content of a page_updated being still to be rendered (history).
Request == [version : Nat, content : Content, torn : BOOLEAN]

ASSUME NoPageAssumption == NoPage \notin Content

PageUpdated(p) == [type |-> "page_updated", page |-> p]
Error == [type |-> "error"]
Message == [type : {"page_updated"}, page : Page] \union {Error}

Place ==
  { "off",        \* not connected, or not any more
    "dial",       \* ServeWS before GetPage
    "join",       \* GetPage done, not in the room
    "hello",      \* in the room, snapshot not sent
    "ready",      \* readPump waits for the next message
    "announce",   \* UpdatePage returned, Broadcast not reached
    "conflict",   \* UpdatePage refused, GetPage not done
    "resync",     \* about to send the page to the requester
    "fail",       \* about to send an error
    "leave" }     \* handleDisconnect

(****************************************************************************)
(* A tab: version is versionRef, content is blocksRef and titleRef,         *)
(* incoming the page_updated content that React has still to render, mine   *)
(* whether locksRef has the row as the tab's own.  The banner and the line  *)
(* that says "Saved" are left out.                                          *)
(****************************************************************************)
Tab ==
  [socket : {"none", "connecting", "open", "closed"}, version : Nat,
   content : Content, incoming : Content \union {NoPage},
   mine : BOOLEAN, timer : BOOLEAN]

SyncTypeOK ==
  /\ HubTypeOK(Message)
  /\ history \in Seq(Content)
  /\ op \in [Conns -> [at : Place, page : Page \union {NoPage}]]
  /\ inbound \in [Conns -> Seq(Request)]
  /\ tab \in [Conns -> Tab]
  /\ \A d \in Conns : tab[d].version \in DOMAIN history
  /\ missed \in [Conns -> SUBSET Nat]
  /\ unanswered \in [Conns -> Int]

Unwritten == [f \in Fields |-> 0]

NoTab ==
  [socket |-> "none", version |-> 1, content |-> Unwritten,
   incoming |-> NoPage, mine |-> FALSE, timer |-> FALSE]

SyncInit ==
  /\ HubInit
  /\ history = <<Unwritten>>
  /\ op = [c \in Conns |-> [at |-> "off", page |-> NoPage]]
  /\ inbound = [c \in Conns |-> <<>>]
  /\ tab = [d \in Conns |-> NoTab]
  /\ missed = [d \in Conns |-> {}]
  /\ unanswered = [d \in Conns |-> 0]

--------------------------------------------------------------------------------
Version == Len(history)
GetPage == [version |-> Version, content |-> history[Version]]

At(c, p) == Running(c) /\ op[c].at = p
GotoWith(c, p, g) == op' = [op EXCEPT ![c] = [at |-> p, page |-> g]]
Goto(c, p) == GotoWith(c, p, NoPage)

SendPage(c, p) ==
  /\ SendTo(c, PageUpdated(p))
  /\ missed' = [missed EXCEPT ![c] = @ \ {p.version}]
  /\ UNCHANGED <<room, todo, cast>>

\* A browser whose tab is there to be served keeps its queue from filling up.
KeepsUp == \A d \in Conns : Len(outbound[d]) < OutboundCap \/ op[d].at = "leave"

--------------------------------------------------------------------------------
(* ServeWS *)

\* PageView fetches the page, then the editor is mounted and dials.
Open(d) ==
  /\ tab[d].socket = "none"
  /\ tab' = [tab EXCEPT ![d] =
       [NoTab EXCEPT !.socket = "connecting", !.version = Version,
                     !.content = history[Version]]]
  /\ Goto(d, "dial")
  /\ UNCHANGED <<hubVars, history, inbound, missed, unanswered>>

ReadPage(c) ==
  /\ At(c, "dial")
  /\ GotoWith(c, "join", GetPage)
  /\ UNCHANGED <<hubVars, history, inbound, tab, missed, unanswered>>

\* GetPage or AssertAccess fails.
TurnAway(c) ==
  /\ "db" \in Faults
  /\ At(c, "dial")
  /\ Goto(c, "off")
  /\ tab' = [tab EXCEPT ![c].socket = "closed"]
  /\ UNCHANGED <<hubVars, history, inbound, missed, unanswered>>

\* Upgrade and JoinRoom; the browser's socket opens.
Join(c) ==
  /\ At(c, "join")
  /\ JoinRoom(c)
  /\ GotoWith(c, "hello", op[c].page)
  /\ tab' = [tab EXCEPT ![c].socket = "open"]
  /\ UNCHANGED <<history, inbound, missed, unanswered>>

SendSnapshot(c) ==
  /\ At(c, "hello")
  /\ SendPage(c, op[c].page)
  /\ Goto(c, "ready")
  /\ UNCHANGED <<history, inbound, tab, unanswered>>

\* readPump or writePump sees the end of the connection.
Disconnect(c) ==
  /\ "net" \in Faults
  /\ At(c, "ready")
  /\ Goto(c, "leave")
  /\ inbound' = [inbound EXCEPT ![c] = <<>>]
  /\ tab' = [tab EXCEPT ![c].socket = "closed"]
  /\ unanswered' = [unanswered EXCEPT ![c] = 0]
  /\ UNCHANGED <<hubVars, history, missed>>

Leave(c) ==
  /\ At(c, "leave")
  /\ LeaveRoom(c)
  /\ Goto(c, "off")
  /\ missed' = [missed EXCEPT ![c] = {}]
  /\ UNCHANGED <<history, inbound, tab, unanswered>>

--------------------------------------------------------------------------------
(* handlePageUpdate *)

\* The answer to a save of c's is queued for c.
Answered(c) == unanswered' = [unanswered EXCEPT ![c] = @ - 1]

\* readPump hands over the next page_update.
Take(c) ==
  /\ At(c, "ready")
  /\ inbound[c] # <<>>
  /\ inbound' = [inbound EXCEPT ![c] = Tail(@)]

\* tx.Commit with what the message brought.
Commit(c) ==
  /\ history' = Append(history, Head(inbound[c]).content)
  /\ missed' = [d \in Conns |->
       IF d \in room THEN missed[d] \union {Version + 1} ELSE missed[d]]

\* What UpdatePage returns: the new version and the text of the request.
Updated(c) == [version |-> Version + 1, content |-> Head(inbound[c]).content]

\* Mutant: UpdatePage does not look at ExpectedVersion.
UpdateStored_AnyVersion(c) ==
  /\ Take(c)
  /\ Commit(c)
  /\ GotoWith(c, "announce", Updated(c))
  /\ UNCHANGED <<hubVars, tab, unanswered>>

UpdateStored(c) ==
  /\ Take(c)
  /\ Head(inbound[c]).version = Version
  /\ Commit(c)
  /\ GotoWith(c, "announce", Updated(c))
  /\ UNCHANGED <<hubVars, tab, unanswered>>

\* Mutant: nothing is broadcast to others, the requester gets the new version.
BroadcastUpdated_Requester(c) ==
  /\ At(c, "announce")
  /\ SendPage(c, op[c].page)
  /\ Answered(c)
  /\ Goto(c, "ready")
  /\ UNCHANGED <<history, inbound, tab>>

BroadcastUpdated(c) ==
  /\ At(c, "announce")
  /\ StartBroadcast(c, PageUpdated(op[c].page))
  /\ Goto(c, "ready")
  /\ UNCHANGED <<history, inbound, tab, missed, unanswered>>

UpdateRefused(c) ==
  /\ Take(c)
  /\ Head(inbound[c]).version # Version
  /\ Goto(c, "conflict")
  /\ UNCHANGED <<hubVars, history, tab, missed, unanswered>>

\* Mutant: the error is logged and the update announced.
UpdateFailed_Announced(c) ==
  /\ "db" \in Faults
  /\ Take(c)
  /\ GotoWith(c, "announce", Updated(c))
  /\ UNCHANGED <<hubVars, history, tab, missed, unanswered>>

\* An error of the database, or a title of blanks.  A COMMIT whose answer was
\* lost is in place all the same, and is announced to nobody.
UpdateFailed(c) ==
  /\ "db" \in Faults
  /\ Take(c)
  /\ \/ UNCHANGED history
     \/ /\ Head(inbound[c]).version = Version
        /\ history' = Append(history, Head(inbound[c]).content)
  /\ Goto(c, "fail")
  /\ UNCHANGED <<hubVars, tab, missed, unanswered>>

Refetch(c) ==
  /\ At(c, "conflict")
  /\ GotoWith(c, "resync", GetPage)
  /\ UNCHANGED <<hubVars, history, inbound, tab, missed, unanswered>>

RefetchFails(c) ==
  /\ "db" \in Faults
  /\ At(c, "conflict")
  /\ Goto(c, "fail")
  /\ UNCHANGED <<hubVars, history, inbound, tab, missed, unanswered>>

Resync(c) ==
  /\ At(c, "resync")
  /\ SendPage(c, op[c].page)
  /\ Answered(c)
  /\ Goto(c, "ready")
  /\ UNCHANGED <<history, inbound, tab>>

\* Mutant: the failure is logged and the requester not told.
SendError_Silent(c) ==
  /\ At(c, "fail")
  /\ Goto(c, "ready")
  /\ UNCHANGED <<hubVars, history, inbound, tab, missed, unanswered>>

SendError(c) ==
  /\ At(c, "fail")
  /\ SendTo(c, Error)
  /\ Answered(c)
  /\ Goto(c, "ready")
  /\ UNCHANGED <<room, todo, cast, history, inbound, tab, missed>>

Deliver(c, d) ==
  /\ BroadcastTo(c, d)
  /\ missed' = [missed EXCEPT ![d] = @ \ {cast[c].page.version}]
  /\ IF d = c THEN Answered(c) ELSE UNCHANGED unanswered
  /\ UNCHANGED <<history, op, inbound, tab>>

\* PUT /api/pages/:id by a client without a socket: the text stays as it is.
RestUpdate ==
  /\ "rest" \in Faults
  /\ Version < MaxVersion
  /\ history' = Append(history, history[Version])
  /\ UNCHANGED <<hubVars, op, inbound, tab, missed, unanswered>>

--------------------------------------------------------------------------------
(* The editor *)

Pending(d) == tab[d].incoming # NoPage

TabStep == UNCHANGED <<history, op, missed>>

\* ws.onmessage: versionRef at once, the rows when React renders.
Receive(d) ==
  /\ tab[d].socket = "open"
  /\ Dequeue(d)
  /\ LET m == Head(outbound[d]) IN
     \/ /\ m.type = "page_updated"
        /\ tab' = [tab EXCEPT ![d].version = m.page.version,
                              ![d].incoming = m.page.content]
     \/ m.type = "error" /\ UNCHANGED tab
  /\ UNCHANGED <<inbound, unanswered>>
  /\ TabStep

\* What page_updated leaves alone: the rows locked by the tab, and the title.
Kept(d) == IF tab[d].mine THEN {d, Title} ELSE {Title}

\* Mutant: every row the tab already has is kept.
Merged_None(d) == tab[d].content

Merged(d) ==
  [f \in Fields |->
    IF f \in Kept(d) THEN tab[d].content[f] ELSE tab[d].incoming[f]]

\* The setBlocks updaters run.
Render(d) ==
  /\ Pending(d)
  /\ tab' = [tab EXCEPT ![d].content = Merged(d), ![d].incoming = NoPage]
  /\ UNCHANGED <<hubVars, inbound, unanswered>>
  /\ TabStep

\* lock_acquired for the tab's row is handled and rendered.
OwnRow(d) ==
  /\ tab[d].socket = "open"
  /\ ~tab[d].mine
  /\ tab[d].incoming = NoPage
  /\ tab' = [tab EXCEPT ![d].mine = TRUE]
  /\ UNCHANGED <<hubVars, inbound, unanswered>>
  /\ TabStep

\* Typing in a field: scheduleAutoSave (re)starts the timer.
Edit(d, f) ==
  /\ tab' = [tab EXCEPT ![d].content[f] = @ + 1, ![d].timer = TRUE]
  /\ UNCHANGED <<hubVars, inbound, unanswered>>
  /\ TabStep

EditRow(d) == tab[d].mine /\ tab[d].content[d] < MaxEdits /\ Edit(d, d)

EditTitle(d) ==
  /\ tab[d].socket # "none"
  /\ tab[d].content[Title] < MaxRenames
  /\ Edit(d, Title)

\* The timer fires: doSave, which does nothing without an open socket.
Save(d) ==
  /\ tab[d].timer
  /\ tab' = [tab EXCEPT ![d].timer = FALSE]
  /\ IF tab[d].socket = "open"
     THEN /\ inbound' = [inbound EXCEPT ![d] = Append(@,
                [version |-> tab[d].version, content |-> tab[d].content,
                 torn |-> tab[d].incoming # NoPage])]
          /\ unanswered' = [unanswered EXCEPT ![d] = @ + 1]
     ELSE UNCHANGED <<inbound, unanswered>>
  /\ UNCHANGED hubVars
  /\ TabStep

--------------------------------------------------------------------------------
Serve(c) ==
  \/ ReadPage(c) \/ TurnAway(c) \/ Join(c) \/ SendSnapshot(c)
  \/ UpdateStored(c) \/ BroadcastUpdated(c) \/ UpdateRefused(c)
  \/ UpdateFailed(c) \/ Refetch(c) \/ RefetchFails(c) \/ Resync(c)
  \/ SendError(c) \/ \E d \in Conns : Deliver(c, d)

Act(d) == Open(d) \/ OwnRow(d) \/ EditRow(d) \/ EditTitle(d) \/ Save(d)

SyncNext ==
  \/ RestUpdate
  \/ \E c \in Conns :
       \/ KeepsUp /\ Serve(c)
       \/ Disconnect(c) \/ Leave(c) \/ Receive(c) \/ Render(c) \/ Act(c)

\* React may let a timer or another message pass before it renders.
SyncSpec == SyncInit /\ [][SyncNext]_vars

--------------------------------------------------------------------------------
(****************************************************************************)
(* No save takes away what another save brought in: an edit of a row that   *)
(* is stored stays, whatever the tabs that save later were showing          *)
(* ("rather than silently overwrite newer content", project.md:618).  It    *)
(* fails: page_updated sets versionRef at once and blocksRef only when      *)
(* React renders (useCollaboration.ts 105-119), and a save timer that fires *)
(* in between sends the old rows under the new version.                     *)
(****************************************************************************)
NoEditLost ==
  [][\A f \in Conns : history'[Version'][f] >= history[Version][f]]_vars

(****************************************************************************)
(* And nothing else does it: a stored row goes back to an older text only   *)
(* by a torn save, however saves, broadcasts, refusals, answers to refused  *)
(* saves, reconnections and API clients interleave.  The version check and  *)
(* the merge of page_updated are for this.                                  *)
(****************************************************************************)
OnlyTornSavesOverwrite ==
  [][(\E f \in Conns : history'[Version'][f] < history[Version][f]) =>
       \E c \in Conns :
         /\ inbound[c] # <<>> /\ inbound'[c] = Tail(inbound[c])
         /\ Head(inbound[c]).torn]_vars

(****************************************************************************)
(* Why: outside its own row and the title, a rendered tab shows exactly the *)
(* version that it will send as expected_version.                           *)
(****************************************************************************)
ShowsItsVersion ==
  \A d \in Conns : ~Pending(d) =>
    \A f \in Conns \ {d} : tab[d].content[f] = history[tab[d].version][f]

(****************************************************************************)
(* Every version saved through the hub while d is in the room is queued for *)
(* d, or a goroutine is about to: no member falls between the commit and    *)
(* the snapshot of the members that Broadcast takes.                        *)
(****************************************************************************)
Heard ==
  \A d \in Conns : \A v \in missed[d] :
    op[d].at # "leave" =>
      \E c \in Conns :
        \/ op[c].at = "announce" /\ op[c].page.version = v
        \/ d \in todo[c] /\ cast[c].page.version = v

\* The goroutine of d has a save at hand, or its broadcast has still to reach d.
InHand(d) ==
  op[d].at \in {"announce", "conflict", "resync", "fail"} \/ d \in todo[d]

(****************************************************************************)
(* Every save that leaves a browser is answered, and once: one that is not  *)
(* waits to be taken or is in the hands of its goroutine, and each of the   *)
(* ways through handlePageUpdate ends with a page or an error in the queue  *)
(* of the requester, which its own broadcast reaches like any other's.  It  *)
(* is the answer that ends "Saving".  A timer that fires without an open    *)
(* socket sends nothing, so nothing answers it.                             *)
(****************************************************************************)
SavesAnswered ==
  \A d \in Conns :
    unanswered[d] = Len(inbound[d]) + (IF InHand(d) THEN 1 ELSE 0)
================================================================================
