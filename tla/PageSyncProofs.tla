---------------------------- MODULE PageSyncProofs -----------------------------
(****************************************************************************)
(* Theorems about PageSync for any number of tabs, any queue capacity, any  *)
(* bound on edits, every kind of fault and every order of events.           *)
(*                                                                          *)
(* The argument.  A page that the server holds or sends is a stored version *)
(* (Genuine).  So a rendered tab shows, outside its own row and the title,  *)
(* the version it carries, and a save that it sends carries the same rows   *)
(* (Agrees); before the rendering it shows some earlier version (Recalls),  *)
(* and so does a save that is torn.  The tab's own row only grows on the    *)
(* way from the editor through the socket to the store (Leads).  A save is  *)
(* stored only on top of the version that it carries: unless it is torn,    *)
(* the rows of the others stay, and the tab's own never shrinks.            *)
(*                                                                          *)
(* A version is heard by every member, as no goroutine goes on before its   *)
(* broadcast is through (HearingInv), and so the requester hears of its own *)
(* saves: that is the answer (AnswersInv).                                  *)
(****************************************************************************)
EXTENDS PageSync, TLAPS

USE HubAssumption, PageSyncAssumption, NoPageAssumption

--------------------------------------------------------------------------------
(* The inductive invariant *)

\* The types, but for the count of the saves without an answer.
SyncTypes ==
  /\ HubTypeOK(Message)
  /\ history \in Seq(Content)
  /\ op \in [Conns -> [at : Place, page : Page \union {NoPage}]]
  /\ inbound \in [Conns -> Seq(Request)]
  /\ tab \in [Conns -> Tab]
  /\ \A d \in Conns : tab[d].version \in DOMAIN history
  /\ missed \in [Conns -> SUBSET Nat]

\* p is what GetPage returned, or the UpdatePage that made the version.
Genuine(h, p) == p.version \in DOMAIN h /\ p.content = h[p.version]

\* p has the rows of its version, outside row d and the title.
Agrees(h, d, p) ==
  /\ p.version \in DOMAIN h
  /\ \A f \in Conns \ {d} : p.content[f] = h[p.version][f]

\* x has the rows of some version, outside row d and the title.
Recalls(h, d, x) ==
  \E v \in DOMAIN h : \A f \in Conns \ {d} : x[f] = h[v][f]

\* What tab t of d shows, rendered or not, and what a save m of d's carries.
Shows(h, d, t) ==
  IF t.incoming = NoPage THEN Agrees(h, d, t)
  ELSE t.incoming = h[t.version] /\ Recalls(h, d, t.content)

Sent(h, d, m) == IF m.torn THEN Recalls(h, d, m.content) ELSE Agrees(h, d, m)

\* The places of a goroutine that has a page at hand.
WithPage == {"join", "hello", "announce", "resync"}

HeldPages ==
  \A c \in Conns :
    op[c].at \in WithPage => op[c].page \in Page /\ Genuine(history, op[c].page)

CastPages ==
  \A c \in Conns :
    todo[c] # {} => /\ cast[c] \in Message
                    /\ cast[c].type = "page_updated"
                    /\ Genuine(history, cast[c].page)

QueuedPages ==
  \A c \in Conns : \A i \in DOMAIN outbound[c] :
    outbound[c][i].type = "page_updated" => Genuine(history, outbound[c][i].page)

TabPages == \A d \in Conns : Shows(history, d, tab[d])

SentPages ==
  \A d \in Conns : \A i \in DOMAIN inbound[d] : Sent(history, d, inbound[d][i])

(****************************************************************************)
(* A tab's own row: nobody has written it before the tab has it locked, and *)
(* a copy nearer to the tab is never behind one nearer to the store.        *)
(****************************************************************************)
RowLeads(d, h, q, t) ==
  /\ t.socket = "none" => ~t.mine
  /\ ~t.mine => t.content[d] = 0
  /\ \A v \in DOMAIN h : h[v][d] <= t.content[d]
  /\ \A i \in DOMAIN q :
       /\ q[i].content[d] <= t.content[d]
       /\ \A v \in DOMAIN h : h[v][d] <= q[i].content[d]
       /\ \A j \in DOMAIN q : i <= j => q[i].content[d] <= q[j].content[d]

Leads == \A d \in Conns : RowLeads(d, history, inbound[d], tab[d])

PagesInv ==
  /\ SyncTypes
  /\ history # <<>>
  /\ HeldPages
  /\ CastPages
  /\ QueuedPages
  /\ TabPages
  /\ SentPages
  /\ Leads

\* Only members have versions to hear of.
MissedByMembers == \A d \in Conns : missed[d] # {} => d \in room

HeardInv == MissedByMembers /\ Heard

\* No goroutine works for a tab that is yet to be opened.
Unopened == \A d \in Conns : tab[d].socket = "none" => op[d].at = "off"

--------------------------------------------------------------------------------
(* Queues and types *)

LEMMA QueuePut ==
  ASSUME NEW S, NEW q \in Seq(S), NEW m \in S
  PROVE  /\ Put(q, m) \in Seq(S)
         /\ \A i \in DOMAIN Put(q, m) :
              \/ i \in DOMAIN q /\ Put(q, m)[i] = q[i]
              \/ Put(q, m)[i] = m
BY DEF Put

LEMMA QueueTail ==
  ASSUME NEW S, NEW q \in Seq(S), q # <<>>
  PROVE  /\ Head(q) \in S
         /\ 1 \in DOMAIN q /\ Head(q) = q[1]
         /\ Tail(q) \in Seq(S)
         /\ \A i \in DOMAIN Tail(q) :
              i \in Nat /\ i + 1 \in DOMAIN q /\ Tail(q)[i] = q[i + 1]
OBVIOUS

LEMMA QueueAppend ==
  ASSUME NEW S, NEW q \in Seq(S), NEW m \in S
  PROVE  /\ Append(q, m) \in Seq(S)
         /\ Append(q, m) # <<>>
         /\ Len(Append(q, m)) = Len(q) + 1
         /\ Append(q, m)[Len(q) + 1] = m
         /\ DOMAIN q \subseteq DOMAIN Append(q, m)
         /\ \A i \in DOMAIN q :
              i \in Nat /\ i <= Len(q) /\ Append(q, m)[i] = q[i]
         /\ \A i \in DOMAIN Append(q, m) : i \in DOMAIN q \/ i = Len(q) + 1
OBVIOUS

LEMMA TypeFacts ==
  ASSUME PagesInv
  PROVE  /\ room \subseteq Conns
         /\ todo \in [Conns -> SUBSET Conns]
         /\ cast \in [Conns -> Message \union {NoMsg}]
         /\ outbound \in [Conns -> Seq(Message)]
         /\ history \in Seq(Content)
         /\ Version \in DOMAIN history /\ Version \in Nat
         /\ \A v \in DOMAIN history : v \in Nat /\ history[v] \in Content
         /\ op \in [Conns -> [at : Place, page : Page \union {NoPage}]]
         /\ inbound \in [Conns -> Seq(Request)]
         /\ tab \in [Conns -> Tab]
         /\ \A d \in Conns : tab[d].version \in DOMAIN history
         /\ missed \in [Conns -> SUBSET Nat]
BY DEF PagesInv, SyncTypes, HubTypeOK, Version

--------------------------------------------------------------------------------
(* History only grows: what was a version stays one *)

Grows ==
  /\ history' \in Seq(Content)
  /\ history' # <<>>
  /\ \A v \in DOMAIN history : v \in DOMAIN history' /\ history'[v] = history[v]

LEMMA OldVersions ==
  ASSUME Grows
  PROVE  /\ \A p : Genuine(history, p) => Genuine(history', p)
         /\ \A d, p : Agrees(history, d, p) => Agrees(history', d, p)
         /\ \A d, x : Recalls(history, d, x) => Recalls(history', d, x)
         /\ \A d, m : Sent(history, d, m) => Sent(history', d, m)
<1>1. \A d, x : Recalls(history, d, x) => Recalls(history', d, x)
  BY DEF Grows, Recalls
<1>2. /\ \A p : Genuine(history, p) => Genuine(history', p)
      /\ \A d, p : Agrees(history, d, p) => Agrees(history', d, p)
  BY DEF Grows, Genuine, Agrees
<1> QED
  BY <1>1, <1>2 DEF Sent

LEMMA OldTabs ==
  ASSUME Grows, NEW d, NEW t, t.version \in DOMAIN history, Shows(history, d, t)
  PROVE  Shows(history', d, t)
BY OldVersions DEF Shows, Grows

LEMMA ShowsRecalls ==
  ASSUME NEW h, NEW d, NEW t, Shows(h, d, t)
  PROVE  Recalls(h, d, t.content)
BY DEF Shows, Agrees, Recalls

LEMMA Unwritten_Grows ==
  ASSUME PagesInv, UNCHANGED history
  PROVE  Grows
BY TypeFacts DEF Grows, PagesInv

LEMMA Stored_Grows ==
  ASSUME PagesInv, NEW x \in Content, history' = Append(history, x)
  PROVE  /\ Grows
         /\ DOMAIN history' = DOMAIN history \union {Version + 1}
         /\ history'[Version + 1] = x
         /\ Version' = Version + 1
BY TypeFacts, QueueAppend DEF Grows, Version

--------------------------------------------------------------------------------
(* The parts of the invariant, by what a step does to their variables *)

\* Goroutine c goes to a place with what that place needs.
LEMMA HeldPagesStep ==
  ASSUME PagesInv, Grows, NEW c \in Conns, NEW p \in Place,
         NEW g \in Page \union {NoPage}, GotoWith(c, p, g),
         p \in WithPage => g \in Page /\ Genuine(history', g)
  PROVE  /\ op' \in [Conns -> [at : Place, page : Page \union {NoPage}]]
         /\ HeldPages'
<1>1. op \in [Conns -> [at : Place, page : Page \union {NoPage}]]
  BY TypeFacts
<1>2. op' = [op EXCEPT ![c] = [at |-> p, page |-> g]]
  BY DEF GotoWith
<1>3. ASSUME NEW x \in Conns, op'[x].at \in WithPage
      PROVE  op'[x].page \in Page /\ Genuine(history', op'[x].page)
  <2>1. CASE x = c
    BY <1>1, <1>2, <1>3, <2>1
  <2>2. CASE x # c
    BY <1>1, <1>2, <1>3, <2>2, OldVersions DEF PagesInv, HeldPages
  <2> QED
    BY <2>1, <2>2
<1> QED
  BY <1>1, <1>2, <1>3 DEF HeldPages

LEMMA HeldPagesStay ==
  ASSUME PagesInv, Grows, UNCHANGED op
  PROVE  HeldPages'
BY OldVersions DEF PagesInv, HeldPages

LEMMA CastPagesStay ==
  ASSUME PagesInv, Grows, UNCHANGED <<todo, cast>>
  PROVE  CastPages'
BY OldVersions DEF PagesInv, CastPages

LEMMA QueuedPagesStay ==
  ASSUME PagesInv, Grows, UNCHANGED outbound
  PROVE  QueuedPages'
BY OldVersions DEF PagesInv, QueuedPages

\* A message is offered to a queue, and the page it may carry is genuine.
LEMMA QueuedPagesStep ==
  ASSUME PagesInv, UNCHANGED history, NEW c \in Conns, NEW m \in Message,
         SendTo(c, m), m.type = "page_updated" => Genuine(history, m.page)
  PROVE  outbound' \in [Conns -> Seq(Message)] /\ QueuedPages'
<1>1. outbound \in [Conns -> Seq(Message)] /\ outbound[c] \in Seq(Message)
  BY TypeFacts
<1>2. outbound' = [outbound EXCEPT ![c] = Put(outbound[c], m)]
  BY <1>1 DEF SendTo
<1>3. ASSUME NEW x \in Conns, NEW i \in DOMAIN outbound'[x],
             outbound'[x][i].type = "page_updated"
      PROVE  Genuine(history, outbound'[x][i].page)
  <2>1. CASE x = c
    <3>1. outbound'[x] = Put(outbound[c], m)
      BY <1>1, <1>2, <2>1
    <3>2. \/ i \in DOMAIN outbound[c] /\ outbound'[x][i] = outbound[c][i]
          \/ outbound'[x][i] = m
      BY <1>1, <1>3, <3>1, QueuePut
    <3> QED
      BY <1>3, <3>2 DEF PagesInv, QueuedPages
  <2>2. CASE x # c
    BY <1>1, <1>2, <1>3, <2>2 DEF PagesInv, QueuedPages
  <2> QED
    BY <2>1, <2>2
<1> QED
  BY <1>1, <1>2, <1>3, QueuePut DEF QueuedPages

\* The browser of c takes a message from its queue.
LEMMA QueuedPagesTaken ==
  ASSUME PagesInv, UNCHANGED history, NEW c \in Conns, Dequeue(c)
  PROVE  outbound' \in [Conns -> Seq(Message)] /\ QueuedPages'
<1>1. /\ outbound \in [Conns -> Seq(Message)] /\ outbound[c] \in Seq(Message)
      /\ outbound[c] # <<>>
      /\ outbound' = [outbound EXCEPT ![c] = Tail(outbound[c])]
  BY TypeFacts DEF Dequeue
<1>2. ASSUME NEW x \in Conns, NEW i \in DOMAIN outbound'[x],
             outbound'[x][i].type = "page_updated"
      PROVE  Genuine(history, outbound'[x][i].page)
  <2>1. CASE x = c
    BY <1>1, <1>2, <2>1, QueueTail DEF PagesInv, QueuedPages
  <2>2. CASE x # c
    BY <1>1, <1>2, <2>2 DEF PagesInv, QueuedPages
  <2> QED
    BY <2>1, <2>2
<1> QED
  BY <1>1, <1>2, QueueTail DEF QueuedPages

LEMMA QueuedPagesDropped ==
  ASSUME PagesInv, UNCHANGED history, NEW c \in Conns,
         outbound' = [outbound EXCEPT ![c] = <<>>]
  PROVE  outbound' \in [Conns -> Seq(Message)] /\ QueuedPages'
<1>1. <<>> \in Seq(Message) /\ DOMAIN <<>> = {}
  OBVIOUS
<1> QED
  BY <1>1, TypeFacts DEF PagesInv, QueuedPages

\* Only what neither the rows nor the versions depend on is touched.
LEMMA TabsStay ==
  ASSUME PagesInv, UNCHANGED <<history, inbound, tab>>
  PROVE  TabPages' /\ SentPages' /\ Leads'
BY DEF PagesInv, TabPages, SentPages, Leads

\* A tab that only changes what the rows and versions do not depend on.
LEMMA TabPagesStep ==
  ASSUME PagesInv, Grows, tab' \in [Conns -> Tab], NEW d \in Conns,
         \A x \in Conns \ {d} : tab'[x] = tab[x],
         Shows(history', d, tab'[d])
  PROVE  TabPages'
<1>1. ASSUME NEW x \in Conns \ {d}
      PROVE  Shows(history', x, tab'[x])
  <2>1. tab'[x] = tab[x] /\ tab[x].version \in DOMAIN history
    BY <1>1, TypeFacts
  <2> QED
    BY <2>1, OldTabs DEF PagesInv, TabPages
<1> QED
  BY <1>1 DEF TabPages

(****************************************************************************)
(* A save is taken from the socket, and stored or not: when it is, it is on *)
(* top of the version it carries.                                           *)
(****************************************************************************)
Store(c) ==
  /\ Head(inbound[c]).version = Version
  /\ history' = Append(history, Head(inbound[c]).content)

LEMMA TakeFacts ==
  ASSUME PagesInv, NEW c \in Conns, Take(c)
  PROVE  /\ inbound[c] \in Seq(Request) /\ inbound[c] # <<>>
         /\ 1 \in DOMAIN inbound[c]
         /\ Head(inbound[c]) = inbound[c][1]
         /\ Head(inbound[c]) \in Request
         /\ inbound' = [inbound EXCEPT ![c] = Tail(inbound[c])]
         /\ inbound' \in [Conns -> Seq(Request)]
         /\ \A i \in DOMAIN inbound'[c] :
              i \in Nat /\ i + 1 \in DOMAIN inbound[c]
              /\ inbound'[c][i] = inbound[c][i + 1]
<1>1. /\ inbound \in [Conns -> Seq(Request)] /\ inbound[c] \in Seq(Request)
      /\ inbound[c] # <<>>
      /\ inbound' = [inbound EXCEPT ![c] = Tail(inbound[c])]
  BY TypeFacts DEF Take
<1> QED
  BY <1>1, QueueTail

LEMMA TakeSent ==
  ASSUME PagesInv, Grows, NEW c \in Conns, Take(c)
  PROVE  SentPages'
<1>1. ASSUME NEW d \in Conns, NEW i \in DOMAIN inbound'[d]
      PROVE  \E j \in DOMAIN inbound[d] : inbound'[d][i] = inbound[d][j]
  BY <1>1, TakeFacts, TypeFacts
<1> QED
  BY <1>1, OldVersions DEF PagesInv, SentPages

--------------------------------------------------------------------------------
(* A tab's own row, operation by operation *)

LEMMA RowTail ==
  ASSUME NEW d \in Conns, NEW h, NEW q \in Seq(Request), NEW t,
         q # <<>>, RowLeads(d, h, q, t)
  PROVE  RowLeads(d, h, Tail(q), t)
<1>1. \A i \in DOMAIN Tail(q) : i \in Nat /\ i + 1 \in DOMAIN q /\ Tail(q)[i] = q[i + 1]
  BY QueueTail
<1> QED
  BY <1>1 DEF RowLeads

\* A save of somebody else brings back a value that was stored before.
LEMMA RowKept ==
  ASSUME NEW d \in Conns, NEW h \in Seq(Content), NEW q \in Seq(Request), NEW t,
         NEW x \in Content, NEW v \in DOMAIN h, x[d] = h[v][d],
         RowLeads(d, h, q, t)
  PROVE  RowLeads(d, Append(h, x), q, t)
<1>1. \A w \in DOMAIN Append(h, x) :
        \/ w \in DOMAIN h /\ Append(h, x)[w] = h[w]
        \/ Append(h, x)[w] = x
  OBVIOUS
<1> QED
  BY <1>1 DEF RowLeads

\* Its own save puts at the end what no save under way falls behind.
LEMMA RowStored ==
  ASSUME NEW d \in Conns, NEW h \in Seq(Content), NEW q \in Seq(Request), NEW t,
         q # <<>>, RowLeads(d, h, q, t)
  PROVE  RowLeads(d, Append(h, Head(q).content), Tail(q), t)
<1>1. /\ Head(q) = q[1] /\ 1 \in DOMAIN q
      /\ \A i \in DOMAIN Tail(q) :
           i \in Nat /\ i + 1 \in DOMAIN q /\ Tail(q)[i] = q[i + 1]
  BY QueueTail
<1>2. Head(q).content \in Content
  <2>1. Head(q) \in Request
    BY QueueTail
  <2> QED
    BY <2>1 DEF Request
<1>3. \A w \in DOMAIN Append(h, Head(q).content) :
        \/ w \in DOMAIN h /\ Append(h, Head(q).content)[w] = h[w]
        \/ Append(h, Head(q).content)[w] = Head(q).content
  BY <1>2, QueueAppend
<1>4. RowLeads(d, h, Tail(q), t)
  BY RowTail
<1>5. \A i \in DOMAIN Tail(q) : q[1].content[d] <= Tail(q)[i].content[d]
  BY <1>1 DEF RowLeads
<1> QED
  BY <1>1, <1>3, <1>4, <1>5 DEF RowLeads

LEMMA RowSaved ==
  ASSUME NEW d \in Conns, NEW h \in Seq(Content), NEW q \in Seq(Request), NEW t,
         NEW p \in Request, p.content = t.content, RowLeads(d, h, q, t)
  PROVE  RowLeads(d, h, Append(q, p), t)
<1>1. p.content[d] \in Nat
  BY DEF Request, Content, Fields
<1>2. \A i \in DOMAIN Append(q, p) :
        /\ i \in Nat
        /\ \/ i \in DOMAIN q /\ i <= Len(q) /\ Append(q, p)[i] = q[i]
           \/ i = Len(q) + 1 /\ Append(q, p)[i] = p
  BY QueueAppend
<1> QED
  BY <1>1, <1>2 DEF RowLeads

\* The editor only goes up, and only when the row is the tab's own.
LEMMA RowTyped ==
  ASSUME NEW d \in Conns, NEW h \in Seq(Content), NEW q \in Seq(Request),
         NEW t \in Tab, NEW u \in Tab, RowLeads(d, h, q, t),
         t.content[d] <= u.content[d], ~u.mine => u.content[d] = 0,
         u.socket = "none" => ~u.mine
  PROVE  RowLeads(d, h, q, u)
<1>1. t.content[d] \in Nat /\ u.content[d] \in Nat
  BY DEF Tab, Content, Fields
<1>2. ASSUME NEW v \in DOMAIN h PROVE h[v][d] \in Nat
  <2>1. h[v] \in Content
    BY <1>2
  <2> QED
    BY <2>1 DEF Content, Fields
<1>3. ASSUME NEW i \in DOMAIN q PROVE q[i].content[d] \in Nat
  <2>1. q[i] \in Request
    BY <1>3
  <2> QED
    BY <2>1 DEF Request, Content, Fields
<1> QED
  BY <1>1, <1>2, <1>3 DEF RowLeads

LEMMA LeadsStep ==
  ASSUME PagesInv, UNCHANGED <<history, inbound>>, NEW d \in Conns,
         tab' \in [Conns -> Tab], \A x \in Conns \ {d} : tab'[x] = tab[x],
         tab[d].content[d] <= tab'[d].content[d],
         ~tab'[d].mine => tab'[d].content[d] = 0,
         tab'[d].socket = "none" => ~tab'[d].mine
  PROVE  Leads'
<1>1. ASSUME NEW x \in Conns PROVE RowLeads(x, history, inbound[x], tab'[x])
  <2>1. CASE x = d
    BY <2>1, RowTyped, TypeFacts DEF PagesInv, Leads
  <2>2. CASE x # d
    BY <2>2 DEF PagesInv, Leads
  <2> QED
    BY <2>1, <2>2
<1> QED
  BY <1>1 DEF Leads

\* The save that is taken is stored, or it is not.
LEMMA TakeLeads ==
  ASSUME PagesInv, NEW c \in Conns, Take(c), UNCHANGED tab,
         UNCHANGED history \/ Store(c)
  PROVE  Leads'
<1>1. ASSUME NEW d \in Conns PROVE RowLeads(d, history', inbound'[d], tab[d])
  <2> DEFINE x == Head(inbound[c]).content
  <2>1. /\ history \in Seq(Content) /\ inbound[d] \in Seq(Request)
        /\ RowLeads(d, history, inbound[d], tab[d])
    BY TypeFacts DEF PagesInv, Leads
  <2>2. CASE d = c
    <3>1. inbound'[d] = Tail(inbound[d]) /\ inbound[d] # <<>>
      BY <2>2, TakeFacts, TypeFacts
    <3>2. CASE UNCHANGED history
      BY <2>1, <3>1, <3>2, RowTail
    <3>3. CASE Store(c)
      <4>1. history' = Append(history, Head(inbound[d]).content)
        BY <2>2, <3>3 DEF Store
      <4> QED
        BY <2>1, <3>1, <4>1, RowStored
    <3> QED
      BY <3>2, <3>3
  <2>3. CASE d # c /\ UNCHANGED history
    BY <2>1, <2>3, TakeFacts, TypeFacts
  <2>4. CASE d # c /\ Store(c)
    <3>1. x \in Content /\ Sent(history, c, Head(inbound[c]))
      BY <2>4, TakeFacts DEF PagesInv, SentPages, Request
    <3>2. PICK v \in DOMAIN history : x[d] = history[v][d]
      BY <2>4, <3>1 DEF Sent, Agrees, Recalls
    <3>3. inbound'[d] = inbound[d] /\ history' = Append(history, x)
      BY <2>4, TakeFacts, TypeFacts DEF Store
    <3> QED
      BY <2>1, <3>1, <3>2, <3>3, RowKept
  <2> QED
    BY <2>2, <2>3, <2>4
<1> QED
  BY <1>1 DEF Leads

--------------------------------------------------------------------------------
(* Every step keeps the invariant of the pages *)

\* Steps of the server that change no version, no save under way and no tab.
LEMMA ServerStep ==
  ASSUME PagesInv, UNCHANGED <<history, inbound, tab>>, NEW c \in Conns,
         NEW p \in Place, NEW g \in Page \union {NoPage}, GotoWith(c, p, g),
         p \in WithPage => g \in Page /\ Genuine(history, g),
         HubTypeOK(Message)', missed' \in [Conns -> SUBSET Nat],
         CastPages', QueuedPages'
  PROVE  PagesInv'
<1>1. Grows
  BY Unwritten_Grows
<1>2. op' \in [Conns -> [at : Place, page : Page \union {NoPage}]] /\ HeldPages'
  BY <1>1, HeldPagesStep
<1>3. TabPages' /\ SentPages' /\ Leads'
  BY TabsStay
<1>4. SyncTypes'
  BY <1>2, TypeFacts DEF SyncTypes
<1> QED
  BY <1>2, <1>3, <1>4 DEF PagesInv

\* The same when the hub is left alone.
LEMMA QuietServerStep ==
  ASSUME PagesInv, UNCHANGED <<hubVars, history, inbound, tab>>, NEW c \in Conns,
         NEW p \in Place, NEW g \in Page \union {NoPage}, GotoWith(c, p, g),
         p \in WithPage => g \in Page /\ Genuine(history, g), UNCHANGED missed
  PROVE  PagesInv'
<1>1. Grows
  BY Unwritten_Grows
<1>2. CastPages' /\ QueuedPages'
  BY <1>1, CastPagesStay, QueuedPagesStay DEF hubVars
<1>3. HubTypeOK(Message)'
  BY TypeFacts DEF hubVars, HubTypeOK
<1>4. missed' \in [Conns -> SUBSET Nat]
  BY TypeFacts
<1> QED
  BY <1>2, <1>3, <1>4, ServerStep

\* The same when a message is offered to the queue of d.
LEMMA SendingStep ==
  ASSUME PagesInv, UNCHANGED <<room, todo, cast, history, inbound, tab>>,
         NEW c \in Conns, NEW m \in Message, SendTo(c, m), Goto(c, "ready"),
         m.type = "page_updated" => Genuine(history, m.page),
         missed' \in [Conns -> SUBSET Nat]
  PROVE  PagesInv'
<1>1. Grows
  BY Unwritten_Grows
<1>2. outbound' \in [Conns -> Seq(Message)] /\ QueuedPages'
  BY QueuedPagesStep
<1>3. CastPages'
  BY <1>1, CastPagesStay
<1>4. HubTypeOK(Message)'
  BY <1>2, TypeFacts DEF HubTypeOK
<1>5. GotoWith(c, "ready", NoPage) /\ "ready" \in Place /\ "ready" \notin WithPage
  BY DEF Goto, Place, WithPage
<1> QED
  BY <1>2, <1>3, <1>4, <1>5, ServerStep

LEMMA SendPageStep ==
  ASSUME PagesInv, UNCHANGED <<history, inbound, tab>>, NEW c \in Conns,
         op[c].at \in WithPage, SendPage(c, op[c].page), Goto(c, "ready")
  PROVE  PagesInv'
<1>1. op[c].page \in Page /\ Genuine(history, op[c].page)
  BY DEF PagesInv, HeldPages
<1>2. PICK p \in Page : p = op[c].page
  BY <1>1
<1>3. PICK m \in Message : m = PageUpdated(p)
  BY DEF Message, PageUpdated
<1>4. /\ SendTo(c, m) /\ UNCHANGED <<room, todo, cast>>
      /\ missed' = [missed EXCEPT ![c] = @ \ {p.version}]
  BY <1>2, <1>3 DEF SendPage
<1>5. m.type = "page_updated" => Genuine(history, m.page)
  BY <1>1, <1>2, <1>3 DEF PageUpdated
<1>6. missed' \in [Conns -> SUBSET Nat]
  BY <1>4, TypeFacts
<1> QED
  BY <1>4, <1>5, <1>6, SendingStep

LEMMA SendErrorStep ==
  ASSUME PagesInv, NEW c \in Conns, SendError(c)
  PROVE  PagesInv'
<1>1. PICK m \in Message : m = Error
  BY DEF Message
<1>2. m.type # "page_updated"
  BY <1>1 DEF Error
<1>3. missed' \in [Conns -> SUBSET Nat]
  BY TypeFacts DEF SendError
<1> QED
  BY <1>1, <1>2, <1>3, SendingStep DEF SendError

LEMMA BroadcastStep ==
  ASSUME PagesInv, NEW c \in Conns, BroadcastUpdated(c)
  PROVE  PagesInv'
<1>1. /\ At(c, "announce") /\ StartBroadcast(c, PageUpdated(op[c].page))
      /\ GotoWith(c, "ready", NoPage)
      /\ UNCHANGED <<history, inbound, tab, missed>>
  BY DEF BroadcastUpdated, Goto
<1>2. op[c].page \in Page /\ Genuine(history, op[c].page)
  BY <1>1 DEF PagesInv, HeldPages, At, WithPage
<1>3. PICK m \in Message : m = PageUpdated(op[c].page)
  BY <1>2 DEF Message, PageUpdated
<1>4. m.type = "page_updated" /\ Genuine(history, m.page)
  BY <1>2, <1>3 DEF PageUpdated
<1>5. /\ todo' = [todo EXCEPT ![c] = room]
      /\ cast' = [cast EXCEPT ![c] = IF room = {} THEN NoMsg ELSE m]
      /\ UNCHANGED <<room, outbound>>
  BY <1>1, <1>3 DEF StartBroadcast
<1>6. CastPages'
  <2>1. ASSUME NEW x \in Conns, todo'[x] # {}
        PROVE  /\ cast'[x] \in Message /\ cast'[x].type = "page_updated"
               /\ Genuine(history, cast'[x].page)
    <3>1. CASE x = c
      BY <1>4, <1>5, <2>1, <3>1, TypeFacts
    <3>2. CASE x # c
      BY <1>5, <2>1, <3>2, TypeFacts DEF PagesInv, CastPages
    <3> QED
      BY <3>1, <3>2
  <2> QED
    BY <1>1, <2>1 DEF CastPages
<1>7. QueuedPages'
  BY <1>1, <1>5, Unwritten_Grows, QueuedPagesStay
<1>8. HubTypeOK(Message)'
  BY <1>5, TypeFacts DEF HubTypeOK
<1>9. /\ missed' \in [Conns -> SUBSET Nat]
      /\ "ready" \in Place /\ "ready" \notin WithPage
  BY <1>1, TypeFacts DEF Place, WithPage
<1> QED
  BY <1>1, <1>6, <1>7, <1>8, <1>9, ServerStep

\* One member is visited by a broadcast.
LEMMA DeliverStep ==
  ASSUME PagesInv, NEW c \in Conns, NEW d \in Conns, Deliver(c, d)
  PROVE  PagesInv'
<1>1. /\ BroadcastTo(c, d) /\ d \in todo[c]
      /\ UNCHANGED <<history, op, inbound, tab>>
      /\ todo' = [todo EXCEPT ![c] = todo[c] \ {d}]
      /\ cast' = [cast EXCEPT ![c] = IF todo[c] = {d} THEN NoMsg ELSE cast[c]]
      /\ UNCHANGED room
  BY TypeFacts DEF Deliver, BroadcastTo
<1>2. PICK m \in Message : m = cast[c]
  BY <1>1 DEF PagesInv, CastPages
<1>3. m.type = "page_updated" /\ Genuine(history, m.page)
  BY <1>1, <1>2 DEF PagesInv, CastPages
<1>4. SendTo(d, m)
  BY <1>1, <1>2 DEF BroadcastTo
<1>5. outbound' \in [Conns -> Seq(Message)] /\ QueuedPages'
  BY <1>1, <1>3, <1>4, QueuedPagesStep
<1>6. CastPages'
  <2>1. ASSUME NEW x \in Conns, todo'[x] # {}
        PROVE  todo[x] # {} /\ cast'[x] = cast[x]
    BY <1>1, <2>1, TypeFacts
  <2> QED
    BY <1>1, <2>1 DEF PagesInv, CastPages
<1>7. Grows
  BY <1>1, Unwritten_Grows
<1>8. HeldPages'
  BY <1>1, <1>7, HeldPagesStay
<1>9. missed' \in [Conns -> SUBSET Nat]
  <2>1. missed' = [missed EXCEPT ![d] = missed[d] \ {cast[c].page.version}]
    BY TypeFacts DEF Deliver
  <2> QED
    BY <2>1, TypeFacts
<1>10. TabPages' /\ SentPages' /\ Leads'
  BY <1>1, TabsStay
<1>11. SyncTypes'
  BY <1>1, <1>5, <1>9, TypeFacts DEF SyncTypes, HubTypeOK
<1> QED
  BY <1>1, <1>5, <1>6, <1>8, <1>10, <1>11 DEF PagesInv

\* A connection comes to an end and its queue with it.
LEMMA LeaveStep ==
  ASSUME PagesInv, NEW c \in Conns, Leave(c)
  PROVE  PagesInv'
<1>1. /\ GotoWith(c, "off", NoPage) /\ UNCHANGED <<history, inbound, tab>>
      /\ room' = room \ {c}
      /\ outbound' = [outbound EXCEPT ![c] = <<>>]
      /\ UNCHANGED <<todo, cast>>
      /\ missed' \in [Conns -> SUBSET Nat]
  BY TypeFacts DEF Leave, LeaveRoom, Goto
<1>2. outbound' \in [Conns -> Seq(Message)] /\ QueuedPages'
  BY <1>1, QueuedPagesDropped
<1>3. CastPages'
  BY <1>1, Unwritten_Grows, CastPagesStay
<1>4. HubTypeOK(Message)'
  BY <1>1, <1>2, TypeFacts DEF HubTypeOK
<1>5. "off" \in Place /\ "off" \notin WithPage
  BY DEF Place, WithPage
<1> QED
  BY <1>1, <1>2, <1>3, <1>4, <1>5, ServerStep

(****************************************************************************)
(* A save: taken from the socket, refused or stored or lost, and announced  *)
(* when it was stored.                                                      *)
(****************************************************************************)
LEMMA TakeStep ==
  ASSUME PagesInv, NEW c \in Conns, Take(c), UNCHANGED <<hubVars, tab>>,
         UNCHANGED history \/ Store(c),
         NEW p \in Place, NEW g \in Page \union {NoPage}, GotoWith(c, p, g),
         p \in WithPage => g \in Page /\ Genuine(history', g),
         missed' \in [Conns -> SUBSET Nat]
  PROVE  PagesInv'
<1>1. Grows
  <2>1. CASE UNCHANGED history
    BY <2>1, Unwritten_Grows
  <2>2. CASE Store(c)
    <3>1. PICK x \in Content : x = Head(inbound[c]).content
      BY TakeFacts DEF Request
    <3> QED
      BY <2>2, <3>1, Stored_Grows DEF Store
  <2> QED
    BY <2>1, <2>2
<1>2. op' \in [Conns -> [at : Place, page : Page \union {NoPage}]] /\ HeldPages'
  BY <1>1, HeldPagesStep
<1>3. CastPages' /\ QueuedPages'
  BY <1>1, CastPagesStay, QueuedPagesStay DEF hubVars
<1>4. TabPages'
  BY <1>1, OldTabs, TypeFacts DEF PagesInv, TabPages
<1>5. SentPages'
  BY <1>1, TakeSent
<1>6. Leads'
  BY TakeLeads
<1>7. HubTypeOK(Message)'
  BY TypeFacts DEF hubVars, HubTypeOK
<1>8. \A d \in Conns : tab'[d].version \in DOMAIN history'
  BY <1>1, TypeFacts DEF Grows
<1>9. inbound' \in [Conns -> Seq(Request)]
  BY TakeFacts
<1>10. SyncTypes'
  BY <1>1, <1>2, <1>7, <1>8, <1>9, TypeFacts DEF SyncTypes, Grows
<1> QED
  BY <1>1, <1>2, <1>3, <1>4, <1>5, <1>6, <1>10 DEF PagesInv, Grows

LEMMA StoredStep ==
  ASSUME PagesInv, NEW c \in Conns, UpdateStored(c)
  PROVE  PagesInv'
<1>1. /\ Take(c) /\ UNCHANGED <<hubVars, tab>> /\ Store(c)
      /\ GotoWith(c, "announce", Updated(c))
      /\ missed' = [d \in Conns |->
           IF d \in room THEN missed[d] \union {Version + 1} ELSE missed[d]]
  BY DEF UpdateStored, Commit, Store
<1>2. PICK g \in Page : g = Updated(c)
  <2>1. Head(inbound[c]).content \in Content /\ Version + 1 \in Nat
    BY <1>1, TakeFacts, TypeFacts DEF Request
  <2> QED
    BY <2>1 DEF Updated, Page
<1>3. Genuine(history', g)
  <2>1. PICK x \in Content : x = Head(inbound[c]).content
    BY <1>1, TakeFacts DEF Request
  <2>2. g.version = Version + 1 /\ g.content = x
    BY <1>2, <2>1 DEF Updated
  <2>3. history' = Append(history, x)
    BY <1>1, <2>1 DEF Store
  <2> QED
    BY <2>2, <2>3, Stored_Grows DEF Genuine
<1>4. missed' \in [Conns -> SUBSET Nat]
  BY <1>1, TypeFacts
<1>5. "announce" \in Place
  BY DEF Place
<1> QED
  BY <1>1, <1>2, <1>3, <1>4, <1>5, TakeStep

LEMMA NotStoredStep ==
  ASSUME PagesInv, NEW c \in Conns, UpdateRefused(c) \/ UpdateFailed(c)
  PROVE  PagesInv'
<1>1. /\ Take(c) /\ UNCHANGED <<hubVars, tab, missed>>
      /\ UNCHANGED history \/ Store(c)
      /\ \E p \in {"conflict", "fail"} : GotoWith(c, p, NoPage)
  BY DEF UpdateRefused, UpdateFailed, Store, Goto
<1>2. PICK p \in {"conflict", "fail"} : GotoWith(c, p, NoPage)
  BY <1>1
<1>3. p \in Place \ WithPage
  BY DEF Place, WithPage
<1>4. missed' \in [Conns -> SUBSET Nat]
  BY <1>1, TypeFacts
<1> QED
  BY <1>1, <1>2, <1>3, <1>4, TakeStep

LEMMA RestStep ==
  ASSUME PagesInv, RestUpdate
  PROVE  PagesInv'
<1>1. PICK x \in Content : x = history[Version]
  BY TypeFacts
<1>2. /\ history' = Append(history, x)
      /\ UNCHANGED <<hubVars, op, inbound, tab, missed>>
  BY <1>1 DEF RestUpdate
<1>3. Grows
  BY <1>2, Stored_Grows
<1>4. HeldPages' /\ CastPages' /\ QueuedPages'
  BY <1>2, <1>3, HeldPagesStay, CastPagesStay, QueuedPagesStay DEF hubVars
<1>5. TabPages'
  BY <1>2, <1>3, OldTabs, TypeFacts DEF PagesInv, TabPages
<1>6. SentPages'
  BY <1>2, <1>3, OldVersions DEF PagesInv, SentPages
<1>7. Leads'
  <2>1. ASSUME NEW d \in Conns PROVE RowLeads(d, history', inbound[d], tab[d])
    <3>1. /\ history \in Seq(Content) /\ inbound[d] \in Seq(Request)
          /\ Version \in DOMAIN history /\ x[d] = history[Version][d]
          /\ RowLeads(d, history, inbound[d], tab[d])
      BY <1>1, TypeFacts DEF PagesInv, Leads
    <3> QED
      BY <1>2, <3>1, RowKept
  <2> QED
    BY <1>2, <2>1 DEF Leads
<1>8. SyncTypes'
  BY <1>2, <1>3, TypeFacts DEF SyncTypes, HubTypeOK, hubVars, Grows
<1> QED
  BY <1>3, <1>4, <1>5, <1>6, <1>7, <1>8 DEF PagesInv, Grows

--------------------------------------------------------------------------------
(* The browser *)

\* A step of the tab of d that sends nothing.
LEMMA TabStepKeeps ==
  ASSUME PagesInv, UNCHANGED <<todo, cast, room, history, op, inbound, missed>>,
         outbound' \in [Conns -> Seq(Message)], QueuedPages',
         tab' \in [Conns -> Tab], NEW d \in Conns,
         \A x \in Conns \ {d} : tab'[x] = tab[x],
         tab'[d].version \in DOMAIN history,
         Shows(history, d, tab'[d]),
         tab[d].content[d] <= tab'[d].content[d],
         ~tab'[d].mine => tab'[d].content[d] = 0,
         tab'[d].socket = "none" => ~tab'[d].mine
  PROVE  PagesInv'
<1>1. Grows
  BY Unwritten_Grows
<1>2. HeldPages' /\ CastPages'
  BY <1>1, HeldPagesStay, CastPagesStay
<1>3. TabPages'
  BY <1>1, TabPagesStep
<1>4. SentPages'
  BY DEF PagesInv, SentPages
<1>5. Leads'
  BY LeadsStep
<1>6. \A x \in Conns : tab'[x].version \in DOMAIN history
  BY TypeFacts
<1>7. SyncTypes'
  BY <1>6, TypeFacts DEF SyncTypes, HubTypeOK
<1> QED
  BY <1>2, <1>3, <1>4, <1>5, <1>7 DEF PagesInv

\* What the invariant says about one tab.
LEMMA TabFacts ==
  ASSUME PagesInv, NEW d \in Conns
  PROVE  /\ tab[d] \in Tab
         /\ tab[d].content \in Content /\ tab[d].content[d] \in Nat
         /\ tab[d].version \in Nat /\ tab[d].version \in DOMAIN history
         /\ history[tab[d].version] \in Content
         /\ tab[d].socket = "none" => ~tab[d].mine
         /\ ~tab[d].mine => tab[d].content[d] = 0
         /\ \A v \in DOMAIN history : history[v][d] <= tab[d].content[d]
         /\ Shows(history, d, tab[d]) /\ Recalls(history, d, tab[d].content)
         /\ tab[d].incoming = NoPage => Agrees(history, d, tab[d])
         /\ tab[d].incoming # NoPage =>
              /\ tab[d].incoming \in Content
              /\ tab[d].incoming = history[tab[d].version]
<1>1. /\ tab[d] \in Tab /\ tab[d].version \in DOMAIN history
      /\ history[tab[d].version] \in Content
  BY TypeFacts
<1>2. /\ tab[d].content \in Content /\ tab[d].version \in Nat
      /\ tab[d].incoming \in Content \union {NoPage}
  BY <1>1 DEF Tab
<1>3. tab[d].content[d] \in Nat
  BY <1>2 DEF Content, Fields
<1> QED
  <2>1. Shows(history, d, tab[d])
    BY DEF PagesInv, TabPages
  <2> QED
    BY <1>1, <1>2, <1>3, <2>1, ShowsRecalls DEF PagesInv, Leads, RowLeads, Shows

LEMMA TabUpdate ==
  ASSUME tab \in [Conns -> Tab], NEW d \in Conns, NEW u \in Tab,
         tab' = [tab EXCEPT ![d] = u]
  PROVE  /\ tab' \in [Conns -> Tab]
         /\ tab'[d] = u
         /\ \A x \in Conns \ {d} : tab'[x] = tab[x]
OBVIOUS

\* A step of d's editor that leaves the server, its queue and the socket alone.
LEMMA EditorStep ==
  ASSUME PagesInv, UNCHANGED <<hubVars, history, op, inbound, missed>>,
         NEW d \in Conns, NEW u \in Tab, tab' = [tab EXCEPT ![d] = u],
         u.version \in DOMAIN history, Shows(history, d, u),
         tab[d].content[d] <= u.content[d], ~u.mine => u.content[d] = 0,
         u.socket = "none" => ~u.mine
  PROVE  PagesInv'
<1>1. /\ tab' \in [Conns -> Tab]
      /\ tab'[d] = u
      /\ \A x \in Conns \ {d} : tab'[x] = tab[x]
  BY TypeFacts, TabUpdate
<1>2. outbound' \in [Conns -> Seq(Message)] /\ QueuedPages'
  BY TypeFacts, Unwritten_Grows, QueuedPagesStay DEF hubVars
<1>3. tab'[d].version \in DOMAIN history
  BY <1>1
<1>4. Shows(history, d, tab'[d])
  BY <1>1
<1>5. /\ tab[d].content[d] <= tab'[d].content[d]
      /\ ~tab'[d].mine => tab'[d].content[d] = 0
      /\ tab'[d].socket = "none" => ~tab'[d].mine
  BY <1>1
<1> QED
  BY <1>1, <1>2, <1>3, <1>4, <1>5, TabStepKeeps DEF hubVars

\* The row becomes the tab's own.
LEMMA OwnStep ==
  ASSUME PagesInv, NEW d \in Conns, OwnRow(d)
  PROVE  PagesInv'
<1>1. /\ UNCHANGED <<hubVars, history, op, inbound, missed>>
      /\ tab' = [tab EXCEPT ![d].mine = TRUE]
      /\ tab[d].incoming = NoPage /\ tab[d].socket = "open"
  BY DEF OwnRow, TabStep
<1>2. tab[d] \in Tab
  BY TabFacts
<1>3. PICK u \in Tab : u = [tab[d] EXCEPT !.mine = TRUE]
  BY <1>2 DEF Tab
<1>4. /\ u.mine /\ u.socket = "open" /\ u.content = tab[d].content
      /\ u.version = tab[d].version /\ u.incoming = NoPage
  BY <1>1, <1>2, <1>3 DEF Tab
<1>5. u.version \in DOMAIN history /\ Shows(history, d, u)
  BY <1>1, <1>4, TabFacts DEF Agrees, Shows
<1>6. tab[d].content[d] <= u.content[d]
  BY <1>4, TabFacts
<1> QED
  BY <1>1, <1>3, <1>4, <1>5, <1>6, EditorStep

\* Typing in the own row or the title.
LEMMA EditStep ==
  ASSUME PagesInv, NEW d \in Conns, EditRow(d) \/ EditTitle(d)
  PROVE  PagesInv'
<1>1. PICK f \in Fields : Edit(d, f) /\ f \in {d, Title} /\ (f = d => tab[d].mine)
  BY DEF EditRow, EditTitle, Fields
<1>2. /\ UNCHANGED <<hubVars, history, op, inbound, missed>>
      /\ tab' = [tab EXCEPT ![d].content[f] = @ + 1, ![d].timer = TRUE]
  BY <1>1 DEF Edit, TabStep
<1>3. tab[d] \in Tab /\ tab[d].content \in [Fields -> Nat]
  BY TabFacts DEF Content
<1>4. PICK g \in Content : g = [tab[d].content EXCEPT ![f] = tab[d].content[f] + 1]
  <2>1. f \in Fields /\ tab[d].content[f] + 1 \in Nat
    BY <1>1, <1>3
  <2> QED
    BY <1>3, <2>1 DEF Content
<1>5. PICK u \in Tab : u = [tab[d] EXCEPT !.content = g, !.timer = TRUE]
  BY <1>3, <1>4 DEF Tab
<1>6. /\ u.version = tab[d].version /\ u.incoming = tab[d].incoming
      /\ u.content = g /\ u.mine = tab[d].mine /\ u.socket = tab[d].socket
  BY <1>2, <1>3, <1>5 DEF Tab
<1>7. tab' = [tab EXCEPT ![d] = u]
  BY <1>2, <1>3, <1>4, <1>5, TypeFacts DEF Tab
<1>8. \A e \in Conns \ {d} : g[e] = tab[d].content[e]
  BY <1>1, <1>3, <1>4 DEF Fields
<1>9. u.version \in DOMAIN history /\ Shows(history, d, u)
  BY <1>6, <1>8, TabFacts DEF Agrees, Recalls, Shows
<1>10. tab[d].content[d] <= g[d] /\ (~tab[d].mine => g[d] = 0)
  BY <1>1, <1>3, <1>4, TabFacts DEF Fields
<1>11. /\ tab[d].content[d] <= u.content[d]
       /\ ~u.mine => u.content[d] = 0
       /\ u.socket = "none" => ~u.mine
  BY <1>6, <1>10, TabFacts
<1> QED
  BY <1>2, <1>5, <1>6, <1>7, <1>9, <1>11, EditorStep

\* React renders what has come in.
LEMMA RenderStep ==
  ASSUME PagesInv, NEW d \in Conns, Render(d)
  PROVE  PagesInv'
<1>1. tab[d].incoming # NoPage
  BY DEF Render, Pending
<1>2. /\ UNCHANGED <<hubVars, history, op, inbound, missed>>
      /\ tab' = [tab EXCEPT ![d].content = Merged(d), ![d].incoming = NoPage]
  BY DEF Render, TabStep
<1>3. tab[d] \in Tab /\ tab[d].content \in [Fields -> Nat] /\ tab[d].version \in Nat
  BY TabFacts DEF Content
<1>4. /\ Merged(d) \in Content
      /\ \A f \in Conns \ {d} : Merged(d)[f] = history[tab[d].version][f]
      /\ tab[d].content[d] <= Merged(d)[d]
      /\ ~tab[d].mine => Merged(d)[d] = 0
  <2>1. /\ tab[d].incoming \in [Fields -> Nat]
        /\ tab[d].incoming = history[tab[d].version]
    BY <1>1, TabFacts DEF Content
  <2>2. Merged(d) \in Content
    BY <1>3, <2>1 DEF Content, Merged
  <2>3. \A f \in Conns \ {d} : Merged(d)[f] = history[tab[d].version][f]
    BY <2>1 DEF Kept, Fields, Merged
  <2>4. CASE tab[d].mine
    <3>1. Merged(d)[d] = tab[d].content[d]
      BY <2>4 DEF Kept, Fields, Merged
    <3> QED
      BY <2>2, <2>3, <2>4, <3>1, TabFacts
  <2>5. CASE ~tab[d].mine
    <3>1. Merged(d)[d] = history[tab[d].version][d]
      BY <2>1, <2>5 DEF Kept, Fields, Merged
    <3>2. tab[d].content[d] = 0 /\ history[tab[d].version][d] <= 0
      BY <2>5, TabFacts
    <3>3. history[tab[d].version][d] \in Nat
      BY <2>1 DEF Fields
    <3> QED
      BY <2>2, <2>3, <3>1, <3>2, <3>3
  <2> QED
    BY <2>4, <2>5
<1>5. PICK g \in Content : g = Merged(d)
  BY <1>4
<1>6. PICK u \in Tab : u = [tab[d] EXCEPT !.content = g, !.incoming = NoPage]
  BY <1>3, <1>5 DEF Tab
<1>7. /\ u.version = tab[d].version /\ u.incoming = NoPage
      /\ u.content = g /\ u.mine = tab[d].mine /\ u.socket = tab[d].socket
  BY <1>3, <1>6 DEF Tab
<1>8. tab' = [tab EXCEPT ![d] = u]
  BY <1>2, <1>3, <1>5, <1>6, TypeFacts DEF Tab
<1>9. u.version \in DOMAIN history /\ Shows(history, d, u)
  BY <1>4, <1>5, <1>7, TabFacts DEF Agrees, Shows
<1>10. /\ tab[d].content[d] <= u.content[d]
       /\ ~u.mine => u.content[d] = 0
       /\ u.socket = "none" => ~u.mine
  BY <1>4, <1>5, <1>7, TabFacts
<1> QED
  BY <1>2, <1>6, <1>7, <1>8, <1>9, <1>10, EditorStep

\* The browser takes a message: the version now, the rows with the rendering.
LEMMA ReceiveStep ==
  ASSUME PagesInv, NEW d \in Conns, Receive(d)
  PROVE  PagesInv'
<1>1. /\ Dequeue(d) /\ UNCHANGED <<room, todo, cast, history, op, inbound, missed>>
      /\ outbound[d] # <<>>
  BY DEF Receive, TabStep, Dequeue
<1>2. outbound' \in [Conns -> Seq(Message)] /\ QueuedPages'
  BY <1>1, QueuedPagesTaken
<1>3. PICK m \in Message : m = Head(outbound[d])
  BY <1>1, QueueTail, TypeFacts
<1>4. m.type = "page_updated" => Genuine(history, m.page)
  <2>1. 1 \in DOMAIN outbound[d] /\ m = outbound[d][1]
    BY <1>1, <1>3, QueueTail, TypeFacts
  <2> QED
    BY <2>1 DEF PagesInv, QueuedPages
<1>5. tab \in [Conns -> Tab] /\ tab[d] \in Tab
  BY TypeFacts
<1>6. \E u \in Tab :
        /\ tab' = [tab EXCEPT ![d] = u]
        /\ u.version \in DOMAIN history
        /\ Shows(history, d, u)
        /\ u.content = tab[d].content /\ u.mine = tab[d].mine
        /\ u.socket = tab[d].socket
  <2>1. CASE /\ m.type = "page_updated"
             /\ tab' = [tab EXCEPT ![d].version = m.page.version,
                                   ![d].incoming = m.page.content]
    <3>1. /\ m.page.version \in DOMAIN history
          /\ m.page.content = history[m.page.version]
      BY <1>4, <2>1 DEF Genuine
    <3>2. m.page.content \in Content /\ m.page.version \in Nat
      BY <3>1, TypeFacts
    <3>3. PICK u \in Tab : u = [tab[d] EXCEPT !.version = m.page.version,
                                              !.incoming = m.page.content]
      BY <1>5, <3>2 DEF Tab
    <3>4. /\ u.version = m.page.version /\ u.incoming = m.page.content
          /\ u.content = tab[d].content /\ u.mine = tab[d].mine
          /\ u.socket = tab[d].socket
      BY <1>5, <3>3 DEF Tab
    <3>5. tab' = [tab EXCEPT ![d] = u]
      BY <1>5, <2>1, <3>3 DEF Tab
    <3>6. Shows(history, d, u)
      BY <3>1, <3>2, <3>4, TabFacts DEF Shows
    <3> QED
      BY <3>1, <3>2, <3>4, <3>5, <3>6
  <2>2. CASE UNCHANGED tab
    <3>1. tab' = [tab EXCEPT ![d] = tab[d]]
      BY <1>5, <2>2
    <3> QED
      BY <1>5, <3>1, TabFacts
  <2> QED
    BY <1>3, <2>1, <2>2 DEF Receive
<1>7. PICK u \in Tab :
        /\ tab' = [tab EXCEPT ![d] = u]
        /\ u.version \in DOMAIN history
        /\ Shows(history, d, u)
        /\ u.content = tab[d].content /\ u.mine = tab[d].mine
        /\ u.socket = tab[d].socket
  BY <1>6
<1>8. /\ tab' \in [Conns -> Tab]
      /\ tab'[d] = u
      /\ \A x \in Conns \ {d} : tab'[x] = tab[x]
  BY <1>5, <1>7, TabUpdate
<1>9. /\ tab'[d].version \in DOMAIN history
      /\ Shows(history, d, tab'[d])
      /\ tab[d].content[d] <= tab'[d].content[d]
      /\ ~tab'[d].mine => tab'[d].content[d] = 0
      /\ tab'[d].socket = "none" => ~tab'[d].mine
  BY <1>7, <1>8, TabFacts
<1> QED
  BY <1>1, <1>2, <1>8, <1>9, TabStepKeeps

(****************************************************************************)
(* The socket of a tab opens or closes, a timer fires, or the tab itself    *)
(* comes to be: its pages and the versions stay.                            *)
(****************************************************************************)
SamePage(t, u) ==
  /\ u.version = t.version /\ u.incoming = t.incoming
  /\ u.content = t.content /\ u.mine = t.mine
  /\ u.socket = "none" => t.socket = "none"

LEMMA SamePageStep ==
  ASSUME PagesInv, UNCHANGED history, NEW d \in Conns, NEW u \in Tab,
         tab' = [tab EXCEPT ![d] = u], SamePage(tab[d], u)
  PROVE  /\ tab' \in [Conns -> Tab]
         /\ \A x \in Conns : tab'[x].version \in DOMAIN history
         /\ TabPages'
         /\ UNCHANGED inbound => Leads'
<1>1. /\ tab' \in [Conns -> Tab]
      /\ tab'[d] = u
      /\ \A x \in Conns \ {d} : tab'[x] = tab[x]
  BY TypeFacts, TabUpdate
<1>2. \A x \in Conns : SamePage(tab[x], tab'[x])
  BY <1>1 DEF SamePage
<1>3. TabPages'
  BY <1>2 DEF SamePage, PagesInv, TabPages, Shows, Agrees
<1>4. UNCHANGED inbound => Leads'
  BY <1>2 DEF SamePage, PagesInv, Leads, RowLeads
<1>5. \A x \in Conns : tab'[x].version \in DOMAIN history
  BY <1>2, TypeFacts DEF SamePage
<1> QED
  BY <1>1, <1>3, <1>4, <1>5

LEMMA SocketStep ==
  ASSUME PagesInv, UNCHANGED <<todo, cast, outbound, history, missed>>,
         room' \subseteq Conns,
         NEW c \in Conns, NEW p \in Place, NEW g \in Page \union {NoPage},
         GotoWith(c, p, g), p \in WithPage => g \in Page /\ Genuine(history, g),
         NEW u \in Tab, tab' = [tab EXCEPT ![c] = u], SamePage(tab[c], u),
         inbound' \in [Conns -> Seq(Request)], SentPages', Leads'
  PROVE  PagesInv'
<1>1. Grows
  BY Unwritten_Grows
<1>2. op' \in [Conns -> [at : Place, page : Page \union {NoPage}]] /\ HeldPages'
  BY <1>1, HeldPagesStep
<1>3. CastPages' /\ QueuedPages'
  BY <1>1, CastPagesStay, QueuedPagesStay
<1>4. /\ tab' \in [Conns -> Tab] /\ TabPages'
      /\ \A x \in Conns : tab'[x].version \in DOMAIN history
  BY SamePageStep
<1>5. HubTypeOK(Message)'
  BY TypeFacts DEF HubTypeOK
<1>6. SyncTypes'
  BY <1>2, <1>4, <1>5, TypeFacts DEF SyncTypes
<1> QED
  BY <1>2, <1>3, <1>4, <1>6 DEF PagesInv

LEMMA SentPagesStay ==
  ASSUME PagesInv, UNCHANGED <<history, inbound>>
  PROVE  inbound' \in [Conns -> Seq(Request)] /\ SentPages'
BY TypeFacts DEF PagesInv, SentPages

LEMMA TurnAwayStep ==
  ASSUME PagesInv, NEW c \in Conns, TurnAway(c)
  PROVE  PagesInv'
<1>1. /\ UNCHANGED <<room, todo, cast, outbound, history, missed, inbound>>
      /\ GotoWith(c, "off", NoPage)
      /\ tab' = [tab EXCEPT ![c].socket = "closed"]
  BY DEF TurnAway, Goto, hubVars
<1>2. tab \in [Conns -> Tab] /\ tab[c] \in Tab
  BY TypeFacts
<1>3. PICK u \in Tab : u = [tab[c] EXCEPT !.socket = "closed"]
  BY <1>2 DEF Tab
<1>4. tab' = [tab EXCEPT ![c] = u] /\ SamePage(tab[c], u)
  BY <1>1, <1>2, <1>3 DEF Tab, SamePage
<1>5. /\ inbound' \in [Conns -> Seq(Request)] /\ SentPages' /\ Leads'
      /\ room' \subseteq Conns
  BY <1>1, <1>4, SamePageStep, SentPagesStay, TypeFacts
<1>6. "off" \in Place /\ "off" \notin WithPage
  BY DEF Place, WithPage
<1> QED
  BY <1>1, <1>3, <1>4, <1>5, <1>6, SocketStep

LEMMA JoinStep ==
  ASSUME PagesInv, NEW c \in Conns, Join(c)
  PROVE  PagesInv'
<1>1. /\ UNCHANGED <<todo, cast, outbound, history, missed, inbound>>
      /\ room' = room \union {c}
      /\ GotoWith(c, "hello", op[c].page) /\ op[c].at = "join"
      /\ tab' = [tab EXCEPT ![c].socket = "open"]
  BY DEF Join, JoinRoom, At
<1>2. tab \in [Conns -> Tab] /\ tab[c] \in Tab
  BY TypeFacts
<1>3. PICK u \in Tab : u = [tab[c] EXCEPT !.socket = "open"]
  BY <1>2 DEF Tab
<1>4. tab' = [tab EXCEPT ![c] = u] /\ SamePage(tab[c], u)
  BY <1>1, <1>2, <1>3 DEF Tab, SamePage
<1>5. /\ inbound' \in [Conns -> Seq(Request)] /\ SentPages' /\ Leads'
      /\ room' \subseteq Conns
  BY <1>1, <1>4, SamePageStep, SentPagesStay, TypeFacts
<1>6. op[c].page \in Page /\ Genuine(history, op[c].page) /\ "hello" \in Place
  BY <1>1 DEF PagesInv, HeldPages, Place, WithPage
<1> QED
  BY <1>1, <1>3, <1>4, <1>5, <1>6, SocketStep

\* The saves under way are lost with the connection.
LEMMA DisconnectStep ==
  ASSUME PagesInv, NEW c \in Conns, Disconnect(c)
  PROVE  PagesInv'
<1>1. /\ UNCHANGED <<room, todo, cast, outbound, history, missed>>
      /\ GotoWith(c, "leave", NoPage)
      /\ inbound' = [inbound EXCEPT ![c] = <<>>]
      /\ tab' = [tab EXCEPT ![c].socket = "closed"]
  BY DEF Disconnect, Goto, hubVars
<1>2. tab \in [Conns -> Tab] /\ tab[c] \in Tab
  BY TypeFacts
<1>3. PICK u \in Tab : u = [tab[c] EXCEPT !.socket = "closed"]
  BY <1>2 DEF Tab
<1>4. tab' = [tab EXCEPT ![c] = u] /\ SamePage(tab[c], u)
  BY <1>1, <1>2, <1>3 DEF Tab, SamePage
<1>5. <<>> \in Seq(Request) /\ DOMAIN <<>> = {}
  OBVIOUS
<1>6. inbound' \in [Conns -> Seq(Request)]
  BY <1>1, <1>5, TypeFacts
<1>7. SentPages'
  BY <1>1, <1>5, TypeFacts DEF PagesInv, SentPages
<1>8. Leads'
  <2>1. ASSUME NEW d \in Conns PROVE RowLeads(d, history, inbound'[d], tab'[d])
    <3>1. RowLeads(d, history, inbound[d], tab[d])
      BY DEF PagesInv, Leads
    <3>2. SamePage(tab[d], tab'[d])
      BY <1>2, <1>4 DEF SamePage
    <3>3. inbound'[d] = inbound[d] \/ inbound'[d] = <<>>
      BY <1>1, TypeFacts
    <3> QED
      BY <1>5, <3>1, <3>2, <3>3 DEF RowLeads, SamePage
  <2> QED
    BY <1>1, <2>1 DEF Leads
<1>9. room' \subseteq Conns /\ "leave" \in Place /\ "leave" \notin WithPage
  BY <1>1, TypeFacts DEF Place, WithPage
<1> QED
  BY <1>1, <1>3, <1>4, <1>6, <1>7, <1>8, <1>9, SocketStep

\* The timer fires: what the tab shows is what the save carries.
LEMMA SaveStep ==
  ASSUME PagesInv, NEW d \in Conns, Save(d)
  PROVE  PagesInv'
<1>1. /\ UNCHANGED <<hubVars, history, op, missed>>
      /\ tab' = [tab EXCEPT ![d].timer = FALSE]
  BY DEF Save, TabStep
<1>2. tab \in [Conns -> Tab] /\ tab[d] \in Tab
  BY TypeFacts
<1>3. PICK u \in Tab : u = [tab[d] EXCEPT !.timer = FALSE]
  BY <1>2 DEF Tab
<1>4. tab' = [tab EXCEPT ![d] = u] /\ SamePage(tab[d], u)
  BY <1>1, <1>2, <1>3 DEF Tab, SamePage
<1>5. PICK p \in Request :
        p = [version |-> tab[d].version, content |-> tab[d].content,
             torn |-> tab[d].incoming # NoPage]
  <2>1. tab[d].content \in Content /\ tab[d].version \in Nat
    BY TabFacts
  <2>2. (tab[d].incoming # NoPage) \in BOOLEAN
    OBVIOUS
  <2>3. [version |-> tab[d].version, content |-> tab[d].content,
         torn |-> tab[d].incoming # NoPage] \in Request
    BY <2>1, <2>2, Zenon DEF Request
  <2> QED
    BY <2>3
<1>6. /\ p.content = tab[d].content /\ p.version = tab[d].version
      /\ p.torn = (tab[d].incoming # NoPage)
  BY <1>5
<1>7. \/ UNCHANGED inbound
      \/ inbound' = [inbound EXCEPT ![d] = Append(inbound[d], p)]
  BY <1>5, TypeFacts DEF Save
<1>8. inbound' \in [Conns -> Seq(Request)]
  <2>1. inbound \in [Conns -> Seq(Request)] /\ inbound[d] \in Seq(Request)
    BY TypeFacts
  <2>2. Append(inbound[d], p) \in Seq(Request)
    BY <2>1, QueueAppend
  <2> QED
    BY <1>7, <2>1, <2>2
<1>9. Sent(history, d, p)
  BY <1>6, TabFacts DEF Agrees, Sent
<1>10. SentPages'
  <2>1. ASSUME NEW x \in Conns, NEW i \in DOMAIN inbound'[x]
        PROVE  Sent(history, x, inbound'[x][i])
    <3>1. inbound[x] \in Seq(Request) /\ (i \in DOMAIN inbound[x] =>
                                         Sent(history, x, inbound[x][i]))
      BY TypeFacts DEF PagesInv, SentPages
    <3>2. CASE inbound'[x] = inbound[x]
      BY <2>1, <3>1, <3>2
    <3>3. CASE x = d /\ inbound'[x] = Append(inbound[x], p)
      <4>1. \/ i \in DOMAIN inbound[x] /\ inbound'[x][i] = inbound[x][i]
            \/ inbound'[x][i] = p
        BY <2>1, <3>1, <3>3, QueueAppend
      <4> QED
        BY <1>9, <3>1, <3>3, <4>1
    <3> QED
      BY <1>7, <3>2, <3>3, TypeFacts
  <2> QED
    BY <1>1, <2>1 DEF SentPages
<1>11. Leads'
  <2>1. ASSUME NEW x \in Conns PROVE RowLeads(x, history, inbound'[x], tab[x])
    <3>1. /\ RowLeads(x, history, inbound[x], tab[x])
          /\ history \in Seq(Content) /\ inbound[x] \in Seq(Request)
      BY TypeFacts DEF PagesInv, Leads
    <3>2. CASE x = d /\ inbound'[x] = Append(inbound[x], p)
      BY <1>6, <3>1, <3>2, RowSaved
    <3> QED
      BY <1>7, <3>1, <3>2, TypeFacts
  <2>2. ASSUME NEW x \in Conns PROVE SamePage(tab[x], tab'[x])
    BY <1>2, <1>4 DEF SamePage
  <2>3. ASSUME NEW x \in Conns PROVE RowLeads(x, history, inbound'[x], tab'[x])
    <3>1. RowLeads(x, history, inbound'[x], tab[x]) /\ SamePage(tab[x], tab'[x])
      BY <2>1, <2>2
    <3> QED
      BY <3>1 DEF RowLeads, SamePage
  <2> QED
    BY <1>1, <2>3 DEF Leads
<1>12. /\ tab' \in [Conns -> Tab] /\ TabPages'
       /\ \A x \in Conns : tab'[x].version \in DOMAIN history
  BY <1>1, <1>4, SamePageStep
<1>13. Grows
  BY <1>1, Unwritten_Grows
<1>14. HeldPages' /\ CastPages' /\ QueuedPages'
  BY <1>1, <1>13, HeldPagesStay, CastPagesStay, QueuedPagesStay DEF hubVars
<1>15. SyncTypes'
  BY <1>1, <1>8, <1>12, TypeFacts DEF SyncTypes, HubTypeOK, hubVars
<1> QED
  BY <1>1, <1>10, <1>11, <1>12, <1>14, <1>15 DEF PagesInv

\* A tab is opened: nobody has written its row yet.
LEMMA OpenStep ==
  ASSUME PagesInv, NEW d \in Conns, Open(d)
  PROVE  PagesInv'
<1>1. /\ UNCHANGED <<room, todo, cast, outbound, history, inbound, missed>>
      /\ GotoWith(d, "dial", NoPage)
      /\ tab[d].socket = "none"
      /\ tab' = [tab EXCEPT ![d] =
           [NoTab EXCEPT !.socket = "connecting", !.version = Version,
                         !.content = history[Version]]]
  BY DEF Open, Goto, hubVars
<1>2. Version \in Nat /\ Version \in DOMAIN history /\ history[Version] \in Content
  BY TypeFacts
<1>3. NoTab \in Tab
  BY DEF NoTab, Tab, Unwritten, Content
<1>4. PICK u \in Tab :
        u = [NoTab EXCEPT !.socket = "connecting", !.version = Version,
                          !.content = history[Version]]
  BY <1>2, <1>3 DEF Tab
<1>5. /\ u.version = Version /\ u.content = history[Version]
      /\ u.incoming = NoPage /\ ~u.mine /\ u.socket = "connecting"
  BY <1>4 DEF NoTab
<1>6. /\ tab' \in [Conns -> Tab]
      /\ tab'[d] = u
      /\ \A x \in Conns \ {d} : tab'[x] = tab[x]
  BY <1>1, <1>4, TypeFacts, TabUpdate
<1>7. tab[d].content[d] = 0 /\ u.content[d] = 0
  <2>1. history[Version][d] <= tab[d].content[d] /\ tab[d].content[d] = 0
    BY <1>1, <1>2, TabFacts
  <2>2. history[Version][d] \in Nat
    BY <1>2 DEF Content, Fields
  <2> QED
    BY <1>5, <2>1, <2>2
<1>8. Leads'
  BY <1>1, <1>5, <1>6, <1>7, LeadsStep
<1>9. Agrees(history, d, u)
  BY <1>2, <1>5 DEF Agrees
<1>10. Grows
  BY <1>1, Unwritten_Grows
<1>11. TabPages'
  <2>1. Shows(history', d, tab'[d])
    BY <1>1, <1>5, <1>6, <1>9 DEF Shows
  <2> QED
    BY <1>6, <1>10, <2>1, TabPagesStep
<1>12. "dial" \in Place /\ "dial" \notin WithPage
  BY DEF Place, WithPage
<1>13. op' \in [Conns -> [at : Place, page : Page \union {NoPage}]] /\ HeldPages'
  BY <1>1, <1>10, <1>12, HeldPagesStep
<1>14. CastPages' /\ QueuedPages' /\ SentPages'
  BY <1>1, <1>10, CastPagesStay, QueuedPagesStay, SentPagesStay
<1>15. \A x \in Conns : tab'[x].version \in DOMAIN history
  BY <1>2, <1>5, <1>6, TypeFacts
<1>16. SyncTypes'
  BY <1>1, <1>6, <1>13, <1>15, TypeFacts DEF SyncTypes, HubTypeOK
<1> QED
  BY <1>1, <1>8, <1>11, <1>13, <1>14, <1>16 DEF PagesInv

\* GetPage: the stored version.
LEMMA FetchStep ==
  ASSUME PagesInv, NEW c \in Conns, ReadPage(c) \/ Refetch(c)
  PROVE  PagesInv'
<1>1. PICK g \in Page : g = GetPage
  BY TypeFacts DEF GetPage, Page
<1>2. Genuine(history, g)
  BY <1>1, TypeFacts DEF GetPage, Genuine
<1>3. PICK p \in {"join", "resync"} : GotoWith(c, p, g)
  BY <1>1 DEF ReadPage, Refetch
<1>4. UNCHANGED <<hubVars, history, inbound, tab, missed>> /\ p \in Place
  BY <1>3 DEF ReadPage, Refetch, Place
<1> QED
  BY <1>2, <1>3, <1>4, QuietServerStep

LEMMA RefetchFailsStep ==
  ASSUME PagesInv, NEW c \in Conns, RefetchFails(c)
  PROVE  PagesInv'
<1>1. /\ UNCHANGED <<hubVars, history, inbound, tab, missed>>
      /\ GotoWith(c, "fail", NoPage) /\ "fail" \in Place \ WithPage
  BY DEF RefetchFails, Goto, Place, WithPage
<1> QED
  BY <1>1, QuietServerStep

\* The snapshot for a new member, or the page for one whose save was refused.
LEMMA PageSentStep ==
  ASSUME PagesInv, NEW c \in Conns, SendSnapshot(c) \/ Resync(c)
  PROVE  PagesInv'
<1>1. /\ UNCHANGED <<history, inbound, tab>> /\ op[c].at \in {"hello", "resync"}
      /\ SendPage(c, op[c].page) /\ Goto(c, "ready")
  BY DEF SendSnapshot, Resync, At
<1> QED
  BY <1>1, SendPageStep DEF WithPage

LEMMA PagesInit == SyncInit => PagesInv
<1> SUFFICES ASSUME SyncInit PROVE PagesInv
  OBVIOUS
<1>1. Unwritten \in Content /\ NoTab \in Tab
  BY DEF NoTab, Tab, Unwritten, Content
<1>2. /\ history \in Seq(Content) /\ history # <<>>
      /\ DOMAIN history = {1} /\ history[1] = Unwritten
  BY <1>1 DEF SyncInit
<1>3. HubTypeOK(Message)
  <2>1. <<>> \in Seq(Message)
    OBVIOUS
  <2> QED
    BY <2>1 DEF SyncInit, HubInit, HubTypeOK
<1>4. /\ op \in [Conns -> [at : Place, page : Page \union {NoPage}]]
      /\ \A c \in Conns : op[c].at = "off"
  BY DEF SyncInit, Place
<1>5. inbound \in [Conns -> Seq(Request)] /\ \A c \in Conns : DOMAIN inbound[c] = {}
  <2>1. <<>> \in Seq(Request) /\ DOMAIN <<>> = {}
    OBVIOUS
  <2> QED
    BY <2>1 DEF SyncInit
<1>6. tab \in [Conns -> Tab] /\ \A d \in Conns : tab[d] = NoTab
  BY <1>1 DEF SyncInit
<1>7. missed \in [Conns -> SUBSET Nat]
  BY DEF SyncInit
<1>8. SyncTypes
  BY <1>2, <1>3, <1>4, <1>5, <1>6, <1>7 DEF SyncTypes, NoTab
<1>9. HeldPages /\ CastPages
  BY <1>4 DEF HeldPages, CastPages, WithPage, SyncInit, HubInit
<1>10. QueuedPages
  <2>1. DOMAIN <<>> = {}
    OBVIOUS
  <2> QED
    BY <2>1 DEF QueuedPages, SyncInit, HubInit
<1>11. TabPages
  <2>1. ASSUME NEW d \in Conns
        PROVE  Shows(history, d, tab[d])
    <3>1. /\ tab[d].incoming = NoPage /\ tab[d].version = 1
          /\ tab[d].content = Unwritten
      BY <1>6 DEF NoTab
    <3> QED
      BY <1>2, <3>1 DEF Agrees, Shows
  <2> QED
    BY <2>1 DEF TabPages
<1>12. SentPages
  BY <1>5 DEF SentPages
<1>13. Leads
  <2>1. ASSUME NEW d \in Conns PROVE RowLeads(d, history, inbound[d], tab[d])
    <3>1. tab[d].content = Unwritten /\ ~tab[d].mine /\ Unwritten[d] = 0
      BY <1>6 DEF NoTab, Unwritten, Fields
    <3> QED
      BY <1>2, <1>5, <3>1 DEF RowLeads
  <2> QED
    BY <2>1 DEF Leads
<1> QED
  BY <1>2, <1>8, <1>9, <1>10, <1>11, <1>12, <1>13 DEF PagesInv

LEMMA PagesStep == PagesInv /\ [SyncNext]_vars => PagesInv'
<1> SUFFICES ASSUME PagesInv, [SyncNext]_vars PROVE PagesInv'
  OBVIOUS
<1>1. ASSUME NEW d \in Conns, Render(d) PROVE PagesInv'
  BY <1>1, RenderStep
<1>2. ASSUME NEW c \in Conns, Serve(c) PROVE PagesInv'
  <2>1. CASE ReadPage(c) \/ Refetch(c)
    BY <2>1, FetchStep
  <2>2. CASE TurnAway(c)
    BY <2>2, TurnAwayStep
  <2>3. CASE Join(c)
    BY <2>3, JoinStep
  <2>4. CASE SendSnapshot(c) \/ Resync(c)
    BY <2>4, PageSentStep
  <2>5. CASE UpdateStored(c)
    BY <2>5, StoredStep
  <2>6. CASE BroadcastUpdated(c)
    BY <2>6, BroadcastStep
  <2>7. CASE UpdateRefused(c) \/ UpdateFailed(c)
    BY <2>7, NotStoredStep
  <2>8. CASE RefetchFails(c)
    BY <2>8, RefetchFailsStep
  <2>9. CASE SendError(c)
    BY <2>9, SendErrorStep
  <2>10. CASE \E d \in Conns : Deliver(c, d)
    BY <2>10, DeliverStep
  <2> QED
    BY <1>2, <2>1, <2>2, <2>3, <2>4, <2>5, <2>6, <2>7, <2>8, <2>9, <2>10 DEF Serve
<1>3. ASSUME NEW d \in Conns, Act(d) PROVE PagesInv'
  BY <1>3, OpenStep, OwnStep, EditStep, SaveStep DEF Act
<1>4. ASSUME NEW c \in Conns, Disconnect(c) \/ Leave(c) \/ Receive(c)
      PROVE  PagesInv'
  BY <1>4, DisconnectStep, LeaveStep, ReceiveStep
<1>5. CASE UNCHANGED vars
  BY <1>5 DEF vars, hubVars, PagesInv, SyncTypes, HubTypeOK, HeldPages, CastPages,
    QueuedPages, TabPages, SentPages, Leads
<1> QED
  BY <1>1, <1>2, <1>3, <1>4, <1>5, RestStep DEF SyncNext

(****************************************************************************)
(* A rendered tab shows, outside its own row and the title, exactly the     *)
(* version that its next save will carry as expected_version.               *)
(****************************************************************************)
THEOREM RenderedIsVersion == SyncSpec => []ShowsItsVersion
<1>1. PagesInv => ShowsItsVersion
  BY DEF PagesInv, ShowsItsVersion, TabPages, Shows, Agrees, Pending
<1> QED
  BY <1>1, PagesInit, PagesStep, PTL DEF SyncSpec

--------------------------------------------------------------------------------
(* Only torn saves overwrite *)

\* Versions come from API clients and from saves on top of the stored one.
LEMMA HistorySteps ==
  ASSUME SyncNext
  PROVE  \/ UNCHANGED history
         \/ RestUpdate
         \/ \E c \in Conns : Take(c) /\ Store(c)
<1>1. ASSUME NEW c \in Conns, Serve(c)
      PROVE  UNCHANGED history \/ (Take(c) /\ Store(c))
  <2>1. CASE UpdateStored(c)
    BY <2>1 DEF UpdateStored, Commit, Store
  <2>2. CASE UpdateFailed(c)
    BY <2>2 DEF UpdateFailed, Store
  <2>3. CASE ReadPage(c) \/ TurnAway(c) \/ Join(c) \/ SendSnapshot(c)
    BY <2>3 DEF ReadPage, TurnAway, Join, SendSnapshot
  <2>4. CASE BroadcastUpdated(c) \/ UpdateRefused(c) \/ SendError(c)
    BY <2>4 DEF BroadcastUpdated, UpdateRefused, SendError
  <2>5. CASE Refetch(c) \/ RefetchFails(c) \/ Resync(c)
    BY <2>5 DEF Refetch, RefetchFails, Resync
  <2>6. CASE \E d \in Conns : Deliver(c, d)
    BY <2>6 DEF Deliver
  <2> QED
    BY <1>1, <2>1, <2>2, <2>3, <2>4, <2>5, <2>6 DEF Serve
<1>2. ASSUME NEW c \in Conns, Disconnect(c) \/ Leave(c) \/ Receive(c) \/ Render(c)
      PROVE  UNCHANGED history
  BY <1>2 DEF Disconnect, Leave, Receive, Render, TabStep
<1>3. ASSUME NEW d \in Conns, Act(d) PROVE UNCHANGED history
  BY <1>3 DEF Act, Open, OwnRow, EditRow, EditTitle, Edit, Save, TabStep
<1> QED
  BY <1>1, <1>2, <1>3 DEF SyncNext

LEMMA NoLossStep ==
  ASSUME PagesInv, [SyncNext]_vars, NEW f \in Conns
  PROVE  \/ history'[Version'][f] >= history[Version][f]
         \/ \E c \in Conns : Take(c) /\ Head(inbound[c]).torn
<1>1. history[Version][f] \in Nat
  BY TypeFacts DEF Content, Fields
<1>2. CASE UNCHANGED history
  BY <1>1, <1>2 DEF Version
<1>3. CASE RestUpdate
  <2>1. PICK x \in Content : x = history[Version]
    BY TypeFacts
  <2>2. history'[Version'] = x
    BY <1>3, <2>1, Stored_Grows DEF RestUpdate
  <2> QED
    BY <1>1, <2>1, <2>2
<1>4. ASSUME NEW c \in Conns, Take(c), Store(c), ~Head(inbound[c]).torn
      PROVE  history'[Version'][f] >= history[Version][f]
  <2>1. PICK x \in Content : x = Head(inbound[c]).content
    BY <1>4, TakeFacts DEF Request
  <2>2. history'[Version'] = x
    BY <1>4, <2>1, Stored_Grows DEF Store
  <2>3. 1 \in DOMAIN inbound[c] /\ inbound[c][1].version = Version
        /\ inbound[c][1].content = x /\ ~inbound[c][1].torn
    BY <1>4, <2>1, TakeFacts DEF Store
  <2>4. CASE f # c
    <3>1. x[f] = history[Version][f]
      BY <2>3, <2>4 DEF PagesInv, SentPages, Sent, Agrees
    <3> QED
      BY <1>1, <2>2, <3>1
  <2>5. CASE f = c
    <3>1. history[Version][f] <= x[f] /\ x[f] \in Nat
      BY <2>1, <2>3, <2>5, TypeFacts DEF PagesInv, Leads, RowLeads, Content, Fields
    <3> QED
      BY <1>1, <2>2, <3>1
  <2> QED
    BY <2>4, <2>5
<1> QED
  BY <1>2, <1>3, <1>4, HistorySteps DEF vars

(****************************************************************************)
(* A stored row goes back to an older text only by a save that was sent     *)
(* between a page_updated and its rendering, whoever sends the saves and    *)
(* whatever was lost, refused or delayed on the way.                        *)
(****************************************************************************)
THEOREM OnlyTornOverwrite == SyncSpec => OnlyTornSavesOverwrite
<1>1. ASSUME PagesInv, [SyncNext]_vars, NEW f \in Conns,
             history'[Version'][f] < history[Version][f]
      PROVE  \E c \in Conns :
               /\ inbound[c] # <<>> /\ inbound'[c] = Tail(inbound[c])
               /\ Head(inbound[c]).torn
  <2>1. history[Version][f] \in Nat /\ history'[Version'][f] \in Nat
    <3>1. PagesInv'
      BY <1>1, PagesStep
    <3>2. history[Version] \in Content /\ history'[Version'] \in Content
      BY <1>1, <3>1, TypeFacts DEF PagesInv, SyncTypes, Version
    <3> QED
      BY <3>2 DEF Content, Fields
  <2>2. PICK c \in Conns : Take(c) /\ Head(inbound[c]).torn
    BY <1>1, <2>1, NoLossStep
  <2>3. inbound[c] # <<>> /\ inbound'[c] = Tail(inbound[c])
    BY <1>1, <2>2, TakeFacts, TypeFacts
  <2> QED
    BY <2>2, <2>3, Zenon
<1>2. PagesInv /\ [SyncNext]_vars =>
        [(\E f \in Conns : history'[Version'][f] < history[Version][f]) =>
           \E c \in Conns :
             /\ inbound[c] # <<>> /\ inbound'[c] = Tail(inbound[c])
             /\ Head(inbound[c]).torn]_vars
  BY <1>1
<1> QED
  BY <1>2, PagesInit, PagesStep, PTL DEF SyncSpec, OnlyTornSavesOverwrite

--------------------------------------------------------------------------------
(* Every version is heard of *)

\* Somebody is about to queue version v for d.
Underway(v, d) ==
  \E c \in Conns :
    \/ op[c].at = "announce" /\ op[c].page.version = v
    \/ d \in todo[c] /\ cast[c].page.version = v

LEMMA HeardIsUnderway ==
  Heard <=> \A d \in Conns : \A v \in missed[d] : op[d].at # "leave" => Underway(v, d)
BY DEF Heard, Underway

\* A goroutine that neither announces nor leaves gets on with its work.
LEMMA HeardStays ==
  ASSUME HeardInv, NEW c \in Conns, op[c].at \notin {"announce", "leave"},
         \A x \in Conns \ {c} : op'[x] = op[x],
         UNCHANGED <<todo, cast>>, room \subseteq room',
         \A d \in Conns : missed'[d] \subseteq missed[d]
  PROVE  HeardInv'
<1>1. MissedByMembers'
  BY DEF HeardInv, MissedByMembers
<1>2. ASSUME NEW d \in Conns, NEW v \in missed'[d], op'[d].at # "leave"
      PROVE  Underway(v, d)'
  <2>1. Underway(v, d)
    BY <1>2, HeardIsUnderway DEF HeardInv
  <2> QED
    BY <2>1 DEF Underway
<1> QED
  BY <1>1, <1>2 DEF HeardInv, Heard, Underway

LEMMA HeardStutters ==
  ASSUME HeardInv, UNCHANGED <<room, todo, cast, op, missed>>
  PROVE  HeardInv'
BY DEF HeardInv, MissedByMembers, Heard

\* A save is stored: the goroutine that stored it is to announce it.
LEMMA HeardStored ==
  ASSUME PagesInv, HeardInv, NEW c \in Conns, UpdateStored(c)
  PROVE  HeardInv'
<1>1. /\ UNCHANGED <<room, todo, cast>> /\ op[c].at = "ready"
      /\ op' = [op EXCEPT ![c] = [at |-> "announce", page |-> Updated(c)]]
      /\ missed' = [d \in Conns |->
           IF d \in room THEN missed[d] \union {Version + 1} ELSE missed[d]]
  BY DEF UpdateStored, Take, Commit, At, GotoWith, hubVars
<1>2. MissedByMembers'
  BY <1>1 DEF HeardInv, MissedByMembers
<1>3. op'[c].at = "announce" /\ op'[c].page.version = Version + 1
  BY <1>1, TypeFacts DEF Updated
<1>4. ASSUME NEW d \in Conns, NEW v \in missed'[d], op'[d].at # "leave"
      PROVE  Underway(v, d)'
  <2>1. CASE v = Version + 1
    BY <1>3, <2>1 DEF Underway
  <2>2. CASE v # Version + 1
    <3>1. v \in missed[d]
      BY <1>1, <1>4, <2>2
    <3>2. op[d].at # "leave"
      BY <1>1, <1>4, TypeFacts
    <3>3. Underway(v, d)
      BY <3>1, <3>2, HeardIsUnderway DEF HeardInv
    <3> QED
      BY <1>1, <3>3, TypeFacts DEF Underway
  <2> QED
    BY <2>1, <2>2
<1> QED
  BY <1>2, <1>4 DEF HeardInv, Heard, Underway

\* Broadcast takes every member.
LEMMA HeardBroadcast ==
  ASSUME PagesInv, HeardInv, NEW c \in Conns, BroadcastUpdated(c)
  PROVE  HeardInv'
<1>1. /\ op[c].at = "announce" /\ todo[c] = {} /\ UNCHANGED <<room, missed>>
      /\ op' = [op EXCEPT ![c] = [at |-> "ready", page |-> NoPage]]
      /\ todo' = [todo EXCEPT ![c] = room]
      /\ cast' = [cast EXCEPT ![c] = IF room = {} THEN NoMsg
                                     ELSE PageUpdated(op[c].page)]
  BY DEF BroadcastUpdated, StartBroadcast, At, Running, Goto, GotoWith
<1>2. MissedByMembers'
  BY <1>1 DEF HeardInv, MissedByMembers
<1>3. ASSUME NEW d \in Conns, NEW v \in missed[d], op'[d].at # "leave"
      PROVE  Underway(v, d)'
  <2>1. d \in room
    BY <1>3 DEF HeardInv, MissedByMembers
  <2>2. op[d].at # "leave"
    BY <1>1, <1>3, TypeFacts
  <2>3. PICK x \in Conns : \/ op[x].at = "announce" /\ op[x].page.version = v
                           \/ d \in todo[x] /\ cast[x].page.version = v
    BY <1>3, <2>2, HeardIsUnderway DEF HeardInv, Underway
  <2>4. CASE x = c
    <3>1. d \in todo'[c] /\ cast'[c].page.version = v
      BY <1>1, <2>1, <2>3, <2>4, TypeFacts DEF PageUpdated
    <3> QED
      BY <3>1 DEF Underway
  <2>5. CASE x # c
    BY <1>1, <2>3, <2>5, TypeFacts DEF Underway
  <2> QED
    BY <2>4, <2>5
<1> QED
  BY <1>1, <1>2, <1>3 DEF HeardInv, Heard, Underway

\* The broadcast of c reaches d.
LEMMA HeardDeliver ==
  ASSUME PagesInv, HeardInv, NEW c \in Conns, NEW e \in Conns, Deliver(c, e)
  PROVE  HeardInv'
<1>1. /\ UNCHANGED <<room, op>>
      /\ todo' = [todo EXCEPT ![c] = todo[c] \ {e}]
      /\ cast' = [cast EXCEPT ![c] = IF todo[c] = {e} THEN NoMsg ELSE cast[c]]
      /\ missed' = [missed EXCEPT ![e] = missed[e] \ {cast[c].page.version}]
  BY TypeFacts DEF Deliver, BroadcastTo
<1>2. MissedByMembers'
  BY <1>1, TypeFacts DEF HeardInv, MissedByMembers
<1>3. ASSUME NEW d \in Conns, NEW v \in missed'[d], op[d].at # "leave"
      PROVE  Underway(v, d)'
  <2>1. v \in missed[d] /\ (d = e => v # cast[c].page.version)
    BY <1>1, <1>3, TypeFacts
  <2>2. PICK x \in Conns : \/ op[x].at = "announce" /\ op[x].page.version = v
                           \/ d \in todo[x] /\ cast[x].page.version = v
    BY <1>3, <2>1, HeardIsUnderway DEF HeardInv, Underway
  <2>3. \/ op[x].at = "announce" /\ op[x].page.version = v
        \/ d \in todo'[x] /\ cast'[x].page.version = v
    BY <1>1, <2>1, <2>2, TypeFacts
  <2> QED
    BY <1>1, <2>3 DEF Underway
<1> QED
  BY <1>1, <1>2, <1>3 DEF HeardInv, Heard, Underway

LEMMA HeardLeave ==
  ASSUME PagesInv, HeardInv, NEW c \in Conns, Leave(c)
  PROVE  HeardInv'
<1>1. /\ UNCHANGED <<todo, cast>> /\ op[c].at = "leave" /\ room' = room \ {c}
      /\ op' = [op EXCEPT ![c] = [at |-> "off", page |-> NoPage]]
      /\ missed' = [missed EXCEPT ![c] = {}]
  BY DEF Leave, LeaveRoom, At, Goto, GotoWith
<1>2. MissedByMembers'
  BY <1>1, TypeFacts DEF HeardInv, MissedByMembers
<1>3. ASSUME NEW d \in Conns, NEW v \in missed'[d], op'[d].at # "leave"
      PROVE  Underway(v, d)'
  <2>1. d # c /\ v \in missed[d] /\ op[d].at # "leave"
    BY <1>1, <1>3, TypeFacts
  <2>2. Underway(v, d)
    BY <2>1, HeardIsUnderway DEF HeardInv
  <2> QED
    BY <1>1, <2>2, TypeFacts DEF Underway
<1> QED
  BY <1>2, <1>3 DEF HeardInv, Heard, Underway

\* What a step of the server does to its goroutine and to the tab at its end.
ServerMoves(c) ==
  /\ op[c].at # "off"
  /\ \A x \in Conns \ {c} : op'[x] = op[x] /\ tab'[x] = tab[x]
  /\ tab'[c].socket = "none" => tab[c].socket = "none"

LEMMA UnopenedServer ==
  ASSUME Unopened, NEW c \in Conns, ServerMoves(c)
  PROVE  Unopened'
BY DEF Unopened, ServerMoves

LEMMA UnopenedBrowser ==
  ASSUME Unopened, UNCHANGED op,
         \A x \in Conns : tab'[x].socket = "none" => tab[x].socket = "none"
  PROVE  Unopened'
BY DEF Unopened

\* Goroutine c, in place p, goes on without announcing or leaving.
Onward(c) ==
  /\ op[c].at \notin {"off", "announce", "leave"}
  /\ \A x \in Conns \ {c} : op'[x] = op[x]
  /\ UNCHANGED <<todo, cast>>
  /\ room \subseteq room'
  /\ \A d \in Conns : missed'[d] \subseteq missed[d]

LEMMA OnwardGoto ==
  ASSUME PagesInv, NEW c \in Conns, NEW p, NEW g, GotoWith(c, p, g)
  PROVE  \A x \in Conns \ {c} : op'[x] = op[x]
BY TypeFacts DEF GotoWith

LEMMA OnwardMissed ==
  ASSUME PagesInv, NEW c \in Conns, SendPage(c, op[c].page)
  PROVE  \A d \in Conns : missed'[d] \subseteq missed[d]
BY TypeFacts DEF SendPage

LEMMA OnwardSteps ==
  ASSUME PagesInv, NEW c \in Conns,
         \/ ReadPage(c) \/ TurnAway(c) \/ Join(c) \/ SendSnapshot(c)
         \/ UpdateRefused(c) \/ UpdateFailed(c) \/ Refetch(c) \/ RefetchFails(c)
         \/ Resync(c) \/ SendError(c) \/ Disconnect(c)
  PROVE  Onward(c)
<1>1. /\ op[c].at \notin {"off", "announce", "leave"}
      /\ UNCHANGED <<todo, cast>>
      /\ room \subseteq room'
  BY DEF ReadPage, TurnAway, Join, SendSnapshot, UpdateRefused, UpdateFailed,
    Refetch, RefetchFails, Resync, SendError, Disconnect, Take, At, JoinRoom,
    SendPage, hubVars
<1>2. \A x \in Conns \ {c} : op'[x] = op[x]
  BY OnwardGoto DEF ReadPage, TurnAway, Join, SendSnapshot, UpdateRefused,
    UpdateFailed, Refetch, RefetchFails, Resync, SendError, Disconnect, Goto
<1>3. \A d \in Conns : missed'[d] \subseteq missed[d]
  BY OnwardMissed DEF ReadPage, TurnAway, Join, SendSnapshot, UpdateRefused,
    UpdateFailed, Refetch, RefetchFails, Resync, SendError, Disconnect
<1> QED
  BY <1>1, <1>2, <1>3 DEF Onward

\* The tab at the end of a goroutine, whatever the goroutine does.
LEMMA ServedTabs ==
  ASSUME PagesInv, NEW c \in Conns, Serve(c) \/ Disconnect(c) \/ Leave(c)
  PROVE  /\ \A x \in Conns \ {c} : tab'[x] = tab[x]
         /\ tab'[c].socket = "none" => tab[c].socket = "none"
<1>1. tab \in [Conns -> Tab] /\ tab[c] \in Tab
  BY TypeFacts
<1>2. CASE TurnAway(c)
  BY <1>1, <1>2 DEF TurnAway, Tab
<1>3. CASE Join(c)
  BY <1>1, <1>3 DEF Join, Tab
<1>4. CASE Disconnect(c)
  BY <1>1, <1>4 DEF Disconnect, Tab
<1>5. CASE UNCHANGED tab
  BY <1>5
<1>6. CASE Leave(c)
  BY <1>6 DEF Leave
<1> QED
  BY <1>2, <1>3, <1>4, <1>5, <1>6 DEF Serve, ReadPage, SendSnapshot, UpdateStored,
    BroadcastUpdated, UpdateRefused, UpdateFailed, Refetch, RefetchFails, Resync,
    SendError, Deliver

HearingInv == HeardInv /\ Unopened

LEMMA OnwardHeard ==
  ASSUME PagesInv, HearingInv, NEW c \in Conns, Serve(c) \/ Disconnect(c), Onward(c)
  PROVE  HearingInv'
<1>1. HeardInv'
  BY HeardStays DEF HearingInv, Onward
<1>2. ServerMoves(c)
  BY ServedTabs DEF ServerMoves, Onward
<1> QED
  BY <1>1, <1>2, UnopenedServer DEF HearingInv

LEMMA HearingStep ==
  ASSUME PagesInv, HearingInv, [SyncNext]_vars
  PROVE  HearingInv'
<1>1. ASSUME NEW c \in Conns, Serve(c) PROVE HearingInv'
  <2>1. CASE UpdateStored(c)
    <3>1. op[c].at = "ready" /\ GotoWith(c, "announce", Updated(c))
      BY <2>1 DEF UpdateStored, Take, At
    <3>2. ServerMoves(c)
      BY <1>1, <3>1, ServedTabs, OnwardGoto DEF ServerMoves
    <3> QED
      BY <2>1, <3>2, UnopenedServer, HeardStored DEF HearingInv
  <2>2. CASE BroadcastUpdated(c)
    <3>1. op[c].at = "announce" /\ GotoWith(c, "ready", NoPage)
      BY <2>2 DEF BroadcastUpdated, At, Goto
    <3>2. ServerMoves(c)
      BY <1>1, <3>1, ServedTabs, OnwardGoto DEF ServerMoves
    <3> QED
      BY <2>2, <3>2, UnopenedServer, HeardBroadcast DEF HearingInv
  <2>3. ASSUME NEW d \in Conns, Deliver(c, d) PROVE HearingInv'
    <3>1. UNCHANGED <<op, tab>>
      BY <2>3 DEF Deliver
    <3> QED
      BY <2>3, <3>1, UnopenedBrowser, HeardDeliver DEF HearingInv
  <2> QED
    BY <1>1, <2>1, <2>2, <2>3, OnwardSteps, OnwardHeard DEF Serve
<1>2. ASSUME NEW c \in Conns, Disconnect(c) PROVE HearingInv'
  BY <1>2, OnwardSteps, OnwardHeard
<1>3. ASSUME NEW c \in Conns, Leave(c) PROVE HearingInv'
  <2>1. op[c].at = "leave" /\ GotoWith(c, "off", NoPage)
    BY <1>3 DEF Leave, At, Goto
  <2>2. ServerMoves(c)
    BY <1>3, <2>1, ServedTabs, OnwardGoto DEF ServerMoves
  <2> QED
    BY <1>3, <2>2, UnopenedServer, HeardLeave DEF HearingInv
<1>4. ASSUME NEW d \in Conns, Open(d) PROVE HearingInv'
  <2>1. /\ op[d].at = "off" /\ GotoWith(d, "dial", NoPage)
        /\ UNCHANGED <<room, todo, cast, missed>>
    BY <1>4 DEF Open, HearingInv, Unopened, Goto, hubVars
  <2>2. HeardInv'
    BY <2>1, OnwardGoto, HeardStays DEF HearingInv
  <2>3. \A x \in Conns \ {d} : tab'[x] = tab[x] /\ op'[x] = op[x]
    BY <1>4, <2>1, OnwardGoto, TypeFacts DEF Open
  <2>4. tab'[d].socket = "connecting"
    <3>1. tab \in [Conns -> Tab]
      BY TypeFacts
    <3>2. tab'[d] = [NoTab EXCEPT !.socket = "connecting", !.version = Version,
                                  !.content = history[Version]]
      BY <1>4, <3>1 DEF Open
    <3> QED
      BY <3>2 DEF NoTab
  <2> QED
    BY <2>2, <2>3, <2>4 DEF HearingInv, Unopened
<1>5. ASSUME NEW d \in Conns,
             \/ Receive(d) \/ Render(d) \/ OwnRow(d) \/ EditRow(d) \/ EditTitle(d)
             \/ Save(d)
      PROVE  HearingInv'
  <2>1. UNCHANGED <<room, todo, cast, op, missed>>
    BY <1>5 DEF Receive, Render, OwnRow, EditRow, EditTitle, Edit, Save,
      TabStep, Dequeue, hubVars
  <2>2. tab \in [Conns -> Tab] /\ tab[d] \in Tab
    BY TypeFacts
  <2>3. \A x \in Conns : tab'[x].socket = tab[x].socket
    <3>1. CASE Receive(d)
      BY <2>2, <3>1 DEF Receive, Tab
    <3>2. CASE Render(d)
      BY <2>2, <3>2 DEF Render, Tab
    <3>3. CASE OwnRow(d)
      BY <2>2, <3>3 DEF OwnRow, Tab
    <3>4. CASE EditRow(d)
      BY <2>2, <3>4 DEF EditRow, Edit, Tab
    <3>5. CASE EditTitle(d)
      BY <2>2, <3>5 DEF EditTitle, Edit, Tab
    <3>6. CASE Save(d)
      BY <2>2, <3>6 DEF Save, Tab
    <3> QED
      BY <1>5, <3>1, <3>2, <3>3, <3>4, <3>5, <3>6
  <2> QED
    BY <2>1, <2>3, HeardStutters, UnopenedBrowser DEF HearingInv
<1>6. CASE RestUpdate \/ UNCHANGED vars
  BY <1>6, HeardStutters, UnopenedBrowser DEF HearingInv, RestUpdate, vars, hubVars
<1> QED
  BY <1>1, <1>2, <1>3, <1>4, <1>5, <1>6 DEF SyncNext, Act

(****************************************************************************)
(* Every version saved through the hub while d is in the room is queued for *)
(* d, or a goroutine is about to: joining, saving and leaving interleave    *)
(* with the broadcasts in every order.                                      *)
(****************************************************************************)
THEOREM NothingUnheard == SyncSpec => []Heard
<1>1. SyncInit => HearingInv
  BY DEF SyncInit, HearingInv, HeardInv, MissedByMembers, Heard, Unopened
<1>2. PagesInv /\ HearingInv /\ [SyncNext]_vars => HearingInv'
  BY HearingStep
<1>3. HearingInv => Heard
  BY DEF HearingInv, HeardInv
<1> QED
  BY <1>1, <1>2, <1>3, PagesInit, PagesStep, PTL DEF SyncSpec

--------------------------------------------------------------------------------
(* Every save is answered *)

\* Whoever has joined and is not leaving is in the room, so that its own
\* broadcast reaches it; and nobody goes on before its broadcast is through.
Members ==
  \A c \in Conns :
    /\ op[c].at \in {"hello", "ready", "announce", "conflict", "resync", "fail"} =>
         c \in room
    /\ todo[c] # {} => op[c].at = "ready"

\* What d is owed.
Owed(d) == Len(inbound[d]) + (IF InHand(d) THEN 1 ELSE 0)

AnswersInv ==
  /\ unanswered \in [Conns -> Int]
  /\ Members
  /\ SavesAnswered

\* Nothing is asked and nothing answered.
LEMMA AnswersStay ==
  ASSUME AnswersInv, UNCHANGED <<unanswered, inbound>>, Members',
         \A d \in Conns : InHand(d)' = InHand(d)
  PROVE  AnswersInv'
BY DEF AnswersInv, SavesAnswered

\* The step is c's: the others are owed what they were, and c is counted right.
LEMMA AnswersStep ==
  ASSUME AnswersInv, PagesInv, Members', unanswered' \in [Conns -> Int], NEW c \in Conns,
         unanswered'[c] = Owed(c)',
         \A d \in Conns \ {c} :
           /\ unanswered'[d] = unanswered[d] /\ inbound'[d] = inbound[d]
           /\ op'[d] = op[d] /\ (d \in todo'[d] <=> d \in todo[d])
  PROVE  AnswersInv'
<1>1. ASSUME NEW d \in Conns \ {c}
      PROVE  InHand(d)' = InHand(d)
  BY <1>1 DEF InHand
<1> QED
  BY <1>1 DEF AnswersInv, SavesAnswered, Owed

\* The server's step is c's own, in its handler.
LEMMA AnswersServe ==
  ASSUME PagesInv, AnswersInv, NEW c \in Conns,
         UNCHANGED <<room, todo, tab>>, Running(c), c \in room,
         NEW g, NEW p, GotoWith(c, p, g),
         unanswered' \in [Conns -> Int], unanswered'[c] = Len(inbound'[c])
           + (IF p \in {"announce", "conflict", "resync", "fail"} THEN 1 ELSE 0),
         \A d \in Conns \ {c} :
           unanswered'[d] = unanswered[d] /\ inbound'[d] = inbound[d]
  PROVE  AnswersInv'
<1>1. /\ op'[c].at = p
      /\ \A d \in Conns \ {c} : op'[d] = op[d]
  BY TypeFacts DEF GotoWith
<1>2. Members'
  BY <1>1 DEF AnswersInv, Members, Running
<1>3. c \notin todo'[c]
  BY DEF Running
<1>4. unanswered'[c] = Owed(c)'
  BY <1>1, <1>3 DEF Owed, InHand
<1> QED
  BY <1>1, <1>2, <1>4, AnswersStep

\* What readPump's goroutine is owed before it takes the next message.
LEMMA ReadyOwed ==
  ASSUME PagesInv, AnswersInv, NEW c \in Conns, Running(c)
  PROVE  /\ unanswered[c] = Len(inbound[c])
              + (IF op[c].at \in {"announce", "conflict", "resync", "fail"} THEN 1 ELSE 0)
         /\ Len(inbound[c]) \in Nat
         /\ inbound[c] # <<>> => /\ Len(inbound[c]) >= 1
                                 /\ Len(Tail(inbound[c])) = Len(inbound[c]) - 1
<1>1. inbound[c] \in Seq(Request)
  BY TypeFacts
<1>2. c \notin todo[c]
  BY DEF Running
<1>3. unanswered[c] = Len(inbound[c])
        + (IF op[c].at \in {"announce", "conflict", "resync", "fail"} THEN 1 ELSE 0)
  BY <1>2 DEF AnswersInv, SavesAnswered, InHand
<1> QED
  BY <1>1, <1>3

LEMMA AnswersTake ==
  ASSUME PagesInv, AnswersInv, NEW c \in Conns,
         UpdateStored(c) \/ UpdateRefused(c) \/ UpdateFailed(c)
  PROVE  AnswersInv'
<1>1. PICK p \in {"announce", "conflict", "fail"} : \E g : GotoWith(c, p, g)
  BY DEF UpdateStored, UpdateRefused, UpdateFailed, Goto
<1>2. /\ Take(c) /\ UNCHANGED <<room, todo, tab, unanswered>>
  BY DEF UpdateStored, UpdateRefused, UpdateFailed, hubVars
<1>3. /\ Running(c) /\ op[c].at = "ready" /\ inbound[c] # <<>>
      /\ inbound' = [inbound EXCEPT ![c] = Tail(inbound[c])]
  BY <1>2 DEF Take, At
<1>4. /\ inbound'[c] = Tail(inbound[c])
      /\ \A d \in Conns \ {c} : inbound'[d] = inbound[d]
  BY <1>3, TypeFacts
<1>5. c \in room /\ unanswered' \in [Conns -> Int]
  BY <1>2, <1>3 DEF AnswersInv, Members
<1>6. unanswered'[c] = Len(inbound'[c]) + 1
  <2>1. /\ unanswered[c] = Len(inbound[c]) + 0 /\ Len(inbound[c]) \in Nat
        /\ Len(Tail(inbound[c])) = Len(inbound[c]) - 1
    BY <1>3, ReadyOwed
  <2> QED
    BY <1>2, <1>4, <2>1
<1> QED
  BY <1>1, <1>2, <1>3, <1>4, <1>5, <1>6, AnswersServe

LEMMA AnswersSent ==
  ASSUME PagesInv, AnswersInv, NEW c \in Conns,
         Refetch(c) \/ RefetchFails(c) \/ Resync(c) \/ SendError(c)
  PROVE  AnswersInv'
<1>1. /\ Running(c) /\ op[c].at \in {"conflict", "resync", "fail"}
      /\ UNCHANGED <<room, todo, tab, inbound>>
  BY DEF Refetch, RefetchFails, Resync, SendError, At, SendPage, hubVars
<1>2. c \in room /\ unanswered \in [Conns -> Int]
  BY <1>1 DEF AnswersInv, Members
<1>3. unanswered[c] = Len(inbound[c]) + 1 /\ Len(inbound[c]) \in Nat
  BY <1>1, ReadyOwed
<1>4. CASE Refetch(c) \/ RefetchFails(c)
  <2>1. PICK p \in {"resync", "fail"} : \E g : GotoWith(c, p, g)
    BY <1>4 DEF Refetch, RefetchFails, Goto
  <2>2. UNCHANGED unanswered
    BY <1>4 DEF Refetch, RefetchFails
  <2>3. unanswered'[c] = Len(inbound'[c]) + 1
    BY <1>1, <1>3, <2>2
  <2> QED
    BY <1>1, <1>2, <2>1, <2>2, <2>3, AnswersServe
<1>5. CASE Resync(c) \/ SendError(c)
  <2>1. GotoWith(c, "ready", NoPage) /\ Answered(c)
    BY <1>5 DEF Resync, SendError, Goto
  <2>2. /\ unanswered' \in [Conns -> Int]
        /\ unanswered'[c] = unanswered[c] - 1
        /\ \A d \in Conns \ {c} : unanswered'[d] = unanswered[d]
    BY <1>2, <2>1 DEF Answered
  <2>3. unanswered'[c] = Len(inbound'[c]) + 0
    BY <1>1, <1>3, <2>2
  <2> QED
    BY <1>1, <1>2, <2>1, <2>2, <2>3, AnswersServe
<1> QED
  BY <1>4, <1>5

\* The requester is among the members of its own broadcast.
LEMMA AnswersBroadcast ==
  ASSUME PagesInv, AnswersInv, NEW c \in Conns, BroadcastUpdated(c)
  PROVE  AnswersInv'
<1>1. /\ Running(c) /\ op[c].at = "announce"
      /\ todo' = [todo EXCEPT ![c] = room]
      /\ GotoWith(c, "ready", NoPage)
      /\ UNCHANGED <<room, inbound, unanswered>>
  BY DEF BroadcastUpdated, At, StartBroadcast, Goto
<1>2. /\ op'[c].at = "ready" /\ todo'[c] = room
      /\ \A d \in Conns \ {c} : op'[d] = op[d] /\ todo'[d] = todo[d]
  BY <1>1, TypeFacts DEF GotoWith
<1>3. c \in room /\ Members'
  BY <1>1, <1>2 DEF AnswersInv, Members
<1>4. unanswered'[c] = Owed(c)'
  BY <1>1, <1>2, <1>3, ReadyOwed DEF Owed, InHand
<1> QED
  BY <1>1, <1>2, <1>3, <1>4, AnswersStep DEF AnswersInv

LEMMA AnswersDeliver ==
  ASSUME PagesInv, AnswersInv, NEW c \in Conns, NEW d \in Conns, Deliver(c, d)
  PROVE  AnswersInv'
<1>1. /\ d \in todo[c] /\ todo' = [todo EXCEPT ![c] = @ \ {d}]
      /\ UNCHANGED <<room, op, inbound>>
  BY DEF Deliver, BroadcastTo
<1>2. /\ todo'[c] = todo[c] \ {d}
      /\ \A x \in Conns \ {c} : todo'[x] = todo[x]
  BY <1>1, TypeFacts
<1>3. Members'
  BY <1>1 DEF AnswersInv, Members
<1>4. CASE d = c
  <2>1. /\ unanswered' \in [Conns -> Int] /\ unanswered'[c] = unanswered[c] - 1
        /\ \A x \in Conns \ {c} : unanswered'[x] = unanswered[x]
    BY <1>4 DEF Deliver, Answered, AnswersInv
  <2>2. inbound[c] \in Seq(Request) /\ Len(inbound[c]) \in Nat
    BY TypeFacts
  <2>3. unanswered[c] = Len(inbound[c]) + 1
    BY <1>1, <1>4 DEF AnswersInv, SavesAnswered, InHand
  <2>4. op[c].at \notin {"announce", "conflict", "resync", "fail"}
    BY <1>1, <1>4 DEF AnswersInv, Members
  <2>5. ~InHand(c)'
    BY <1>1, <1>2, <1>4, <2>4 DEF InHand
  <2>6. unanswered'[c] = Owed(c)'
    BY <1>1, <2>1, <2>2, <2>3, <2>5 DEF Owed
  <2> QED
    BY <1>1, <1>2, <1>3, <2>1, <2>6, AnswersStep
<1>5. CASE d # c
  <2>1. UNCHANGED unanswered
    BY <1>5 DEF Deliver
  <2>2. \A x \in Conns : x \in todo'[x] <=> x \in todo[x]
    BY <1>2, <1>5
  <2> QED
    BY <1>1, <1>3, <2>1, <2>2, AnswersStay DEF InHand
<1> QED
  BY <1>4, <1>5

\* A step of c in the room: a snapshot, or what makes no save.
LEMMA AnswersIdle ==
  ASSUME PagesInv, AnswersInv, Members', UNCHANGED <<inbound, unanswered, todo>>,
         NEW c \in Conns, NEW g, NEW p, GotoWith(c, p, g),
         {op[c].at, p} \intersect {"announce", "conflict", "resync", "fail"} = {}
  PROVE  AnswersInv'
<1>1. \A d \in Conns : op'[d] = op[d] \/ (d = c /\ op'[d].at = p)
  BY TypeFacts DEF GotoWith
<1> QED
  BY <1>1, AnswersStay DEF InHand

LEMMA AnswersPlace ==
  ASSUME PagesInv, AnswersInv, Unopened, NEW c \in Conns,
         ReadPage(c) \/ TurnAway(c) \/ Join(c) \/ SendSnapshot(c) \/ Leave(c) \/ Open(c)
  PROVE  AnswersInv'
<1>1. /\ UNCHANGED <<inbound, unanswered, todo>>
      /\ op[c].at \in {"off", "dial", "join", "hello", "leave"}
      /\ \E p \in {"off", "dial", "join", "hello", "ready"} : \E g : GotoWith(c, p, g)
  BY DEF ReadPage, TurnAway, Join, SendSnapshot, Leave, Open, At, Goto, hubVars, SendPage,
         JoinRoom, LeaveRoom, Unopened
<1>2. PICK p \in {"off", "dial", "join", "hello", "ready"} : \E g : GotoWith(c, p, g)
  BY <1>1
<1>3. /\ op'[c].at = p
      /\ \A d \in Conns \ {c} : op'[d] = op[d]
  BY <1>2, TypeFacts DEF GotoWith
<1>4. /\ p \in {"hello", "ready"} => c \in room'
      /\ \A d \in Conns \ {c} : d \in room => d \in room'
  <2>1. CASE Join(c)
    BY <2>1 DEF Join, JoinRoom
  <2>2. CASE Leave(c)
    <3>1. p = "off" /\ room' = room \ {c}
      BY <1>3, <2>2, TypeFacts DEF Leave, LeaveRoom, Goto, GotoWith
    <3> QED
      BY <3>1
  <2>3. CASE SendSnapshot(c)
    BY <2>3 DEF SendSnapshot, SendPage, At, AnswersInv, Members
  <2>4. CASE ReadPage(c) \/ TurnAway(c) \/ Open(c)
    <3>1. p \in {"off", "dial", "join"} /\ UNCHANGED room
      BY <1>3, <2>4, TypeFacts DEF ReadPage, TurnAway, Open, Goto, GotoWith, hubVars
    <3> QED
      BY <3>1
  <2> QED
    BY <2>1, <2>2, <2>3, <2>4
<1>5. todo[c] = {}
  BY <1>1 DEF AnswersInv, Members
<1>6. Members'
  BY <1>1, <1>3, <1>4, <1>5 DEF AnswersInv, Members
<1> QED
  BY <1>1, <1>2, <1>6, AnswersIdle

\* What was asked and not answered is gone with the connection.
LEMMA AnswersDisconnect ==
  ASSUME PagesInv, AnswersInv, NEW c \in Conns, Disconnect(c)
  PROVE  AnswersInv'
<1>1. /\ Running(c) /\ GotoWith(c, "leave", NoPage) /\ UNCHANGED <<room, todo>>
      /\ inbound' = [inbound EXCEPT ![c] = <<>>]
      /\ unanswered' = [unanswered EXCEPT ![c] = 0]
  BY DEF Disconnect, At, Goto, hubVars
<1>2. /\ op'[c].at = "leave" /\ inbound'[c] = <<>> /\ unanswered'[c] = 0
      /\ unanswered' \in [Conns -> Int]
      /\ \A d \in Conns \ {c} :
           op'[d] = op[d] /\ inbound'[d] = inbound[d] /\ unanswered'[d] = unanswered[d]
  BY <1>1, TypeFacts DEF GotoWith, AnswersInv
<1>3. Members'
  BY <1>1, <1>2 DEF AnswersInv, Members, Running
<1>4. unanswered'[c] = Owed(c)'
  <2>1. ~InHand(c)'
    BY <1>1, <1>2 DEF InHand, Running
  <2>2. Len(<<>>) = 0
    OBVIOUS
  <2> QED
    BY <1>2, <2>1, <2>2 DEF Owed
<1> QED
  BY <1>1, <1>2, <1>3, <1>4, AnswersStep

LEMMA AnswersSave ==
  ASSUME PagesInv, AnswersInv, NEW c \in Conns, Save(c)
  PROVE  AnswersInv'
<1>1. UNCHANGED <<room, todo, op>> /\ Members'
  BY DEF Save, TabStep, hubVars, AnswersInv, Members
<1>2. CASE UNCHANGED <<inbound, unanswered>>
  BY <1>1, <1>2, AnswersStay DEF InHand
<1>3. CASE \E m :
        /\ inbound' = [inbound EXCEPT ![c] = Append(@, m)]
        /\ unanswered' = [unanswered EXCEPT ![c] = @ + 1]
  <2>1. /\ inbound[c] \in Seq(Request) /\ unanswered[c] = Owed(c)
        /\ Len(inbound[c]) \in Nat /\ unanswered \in [Conns -> Int]
    BY TypeFacts DEF AnswersInv, SavesAnswered, Owed
  <2>2. PICK m : inbound' = [inbound EXCEPT ![c] = Append(@, m)]
    BY <1>3
  <2>3. /\ unanswered' \in [Conns -> Int] /\ unanswered'[c] = unanswered[c] + 1
        /\ \A d \in Conns \ {c} :
             unanswered'[d] = unanswered[d] /\ inbound'[d] = inbound[d]
    BY <1>3, <2>1
  <2>4. Len(inbound'[c]) = Len(inbound[c]) + 1
    <3>1. inbound'[c] = Append(inbound[c], m)
      BY <2>2, TypeFacts
    <3> QED
      BY <2>1, <3>1
  <2>5. InHand(c)' = InHand(c)
    BY <1>1 DEF InHand
  <2>6. unanswered'[c] = Owed(c)'
    <3>1. CASE InHand(c)
      BY <2>1, <2>3, <2>4, <2>5, <3>1 DEF Owed
    <3>2. CASE ~InHand(c)
      BY <2>1, <2>3, <2>4, <2>5, <3>2 DEF Owed
    <3> QED
      BY <3>1, <3>2
  <2> QED
    BY <1>1, <2>3, <2>6, AnswersStep
<1> QED
  BY <1>2, <1>3 DEF Save

LEMMA AnswersKept ==
  ASSUME PagesInv, AnswersInv, Unopened, [SyncNext]_vars
  PROVE  AnswersInv'
<1>1. ASSUME NEW c \in Conns, Serve(c)
      PROVE  AnswersInv'
  BY <1>1, AnswersPlace, AnswersTake, AnswersSent, AnswersBroadcast, AnswersDeliver
     DEF Serve
<1>2. ASSUME NEW c \in Conns,
             \/ Receive(c) \/ Render(c) \/ OwnRow(c) \/ EditRow(c) \/ EditTitle(c)
      PROVE  AnswersInv'
  <2>1. UNCHANGED <<room, todo, op, inbound, unanswered>>
    BY <1>2 DEF Receive, Render, OwnRow, EditRow, EditTitle, Edit, TabStep, Dequeue, hubVars
  <2> QED
    BY <2>1, AnswersStay DEF AnswersInv, Members, InHand
<1>3. CASE RestUpdate \/ UNCHANGED vars
  <2>1. UNCHANGED <<room, todo, op, inbound, unanswered>>
    BY <1>3 DEF RestUpdate, vars, hubVars
  <2> QED
    BY <2>1, AnswersStay DEF AnswersInv, Members, InHand
<1> QED
  BY <1>1, <1>2, <1>3, AnswersPlace, AnswersDisconnect, AnswersSave DEF SyncNext, Act

LEMMA Inductive == SyncSpec => [](PagesInv /\ HearingInv /\ AnswersInv)
<1>1. SyncInit => PagesInv /\ HearingInv /\ AnswersInv
  <2>1. SyncInit => HearingInv
    BY DEF SyncInit, HearingInv, HeardInv, MissedByMembers, Heard, Unopened
  <2>2. SyncInit => AnswersInv
    BY DEF SyncInit, HubInit, AnswersInv, Members, SavesAnswered, InHand
  <2> QED
    BY <2>1, <2>2, PagesInit
<1>2. PagesInv /\ HearingInv /\ AnswersInv /\ [SyncNext]_vars =>
        (PagesInv /\ HearingInv /\ AnswersInv)'
  <2>1. HearingInv => Unopened
    BY DEF HearingInv
  <2> QED
    BY <2>1, PagesStep, HearingStep, AnswersKept
<1> QED
  BY <1>1, <1>2, PTL DEF SyncSpec

(****************************************************************************)
(* Every save that has left a browser and was not answered waits to be      *)
(* taken or is at hand: no way through handlePageUpdate ends without its    *)
(* page or error for the requester, and none with two.                      *)
(****************************************************************************)
THEOREM SavesGetAnswers == SyncSpec => []SavesAnswered
<1>1. AnswersInv => SavesAnswered
  BY DEF AnswersInv
<1> QED
  BY <1>1, Inductive, PTL

(****************************************************************************)
(* The variables keep their types, and every tab is on a version that       *)
(* exists.                                                                  *)
(****************************************************************************)
THEOREM TypeCorrect == SyncSpec => []SyncTypeOK
<1>1. PagesInv /\ AnswersInv => SyncTypeOK
  BY DEF PagesInv, SyncTypes, AnswersInv, SyncTypeOK
<1> QED
  BY <1>1, Inductive, PTL
================================================================================
