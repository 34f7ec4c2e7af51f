---------------------------------- MODULE Portal --------------------------------
(****************************************************************************)
(* One browser tab between the pages of the frontend: App and AuthContext,  *)
(* Login, Register, Dashboard, WikiView, PageView with the share panel and  *)
(* the revision history, and the REST calls they make.  Wikis, codes and    *)
(* members are those of Sharing, which other users change too; that the     *)
(* statements of their calls interleave is in Wikis.                        *)
(*                                                                          *)
(* Answers come back in any order.  One that finds its element unmounted    *)
(* changes no state of it, but may still navigate.  React Router keeps the  *)
(* element of a route when only the parameters of the URL change: what the  *)
(* element showed stays until new answers replace it.                       *)
(*                                                                          *)
(* The tab has one account, is the only one of its browser and lives less   *)
(* than the seven days of the cookie.  A wiki has at most one page, named   *)
(* like the wiki; what is inside PageEditor's canvas is in Editor and       *)
(* PageSync.  The session is in the cookie: it counts when a request is     *)
(* sent and changes when an answer arrives.  A lost answer is a refusal.    *)
(****************************************************************************)
EXTENDS Naturals, FiniteSetsExt, Sharing

CONSTANTS
  Calls,
  Me,          \* the user of the tab
  NoCall,
  MaxSaves     \* bound: versions of all pages together

ASSUME PortalAssumption == Me \in Users /\ MaxSaves \in Nat

VARIABLES
  registered,  \* whether Me has an account
  cookie,      \* whether the browser has a session cookie
  pages,       \* pages[w]: versions of the page of w, 0 if there is none
  tab,         \* what the tab shows
  call,        \* call[c]: what the tab does with the answer of request c
  visited      \* the URLs that the element on show has had (history)

tabVars == <<registered, cookie, pages, tab, call, visited>>
vars == <<sharingVars, tabVars>>

Public == {"login", "register"}
Open == Public \union {"logout"}   \* routes without RequireAuth
Protected == {"dashboard", "wiki", "page"}

(****************************************************************************)
(* A place is a URL.  An element is the state of Login, Register,           *)
(* Dashboard, WikiView, or PageView and PageEditor: links are the wikis or  *)
(* pages listed, title the wiki or page shown, error PageView's, code the   *)
(* share panel, busy the buttons that are disabled, due the requests of     *)
(* effects not yet sent, drawer and revisions the history.                  *)
(****************************************************************************)
Location ==
  [name : Public \union Protected, wiki : WikiIds \union {NoWiki},
   page : WikiIds \union {NoWiki}]

Kind ==
  { "me", "login", "register", "logout", "list", "create", "join", "wiki",
    "pages", "newpage", "share", "page", "revisions" }

Element ==
  [links : SUBSET WikiIds, title : WikiIds \union {NoWiki}, error : BOOLEAN,
   code : Codes \union {NoCode}, busy : SUBSET Kind, due : SUBSET Kind,
   drawer : {"closed", "folded", "open"}, revisions : Nat]

Tab == [user : BOOLEAN, loading : BOOLEAN, at : Location, el : Element]

TabCall ==
  [kind : Kind, wiki : WikiIds \union {NoWiki}, code : Codes \union {NoCode},
   live : BOOLEAN, at : {"sent", "ok", "no"}, links : SUBSET WikiIds,
   revisions : Nat]

ASSUME NoCallAssumption == NoCall \notin TabCall

PortalTypeOK ==
  /\ owner \in [WikiIds -> Users \union {Nobody}]
  /\ members \subseteq WikiIds \X Users
  /\ code \in [WikiIds -> Codes \union {NoCode}]
  /\ registered \in BOOLEAN /\ cookie \in BOOLEAN
  /\ visited \subseteq Location
  /\ pages \in [WikiIds -> Nat]
  /\ tab \in Tab
  /\ tab.at.name = "wiki" => tab.at.wiki \in WikiIds
  /\ call \in [Calls -> TabCall \union {NoCall}]

Go(name, w, p) == [name |-> name, wiki |-> w, page |-> p]
LoginPage == Go("login", NoWiki, NoWiki)
Home == Go("dashboard", NoWiki, NoWiki)

\* What an element asks for when it is mounted or its URL changes.
Effects(name) ==
  CASE name = "dashboard" -> {"list"}
    [] name = "wiki" -> {"wiki"}
    [] name = "page" -> {"page"}
    [] OTHER -> {}

NewElement(name) ==
  [links |-> {}, title |-> NoWiki, error |-> FALSE, code |-> NoCode, busy |-> {},
   due |-> Effects(name), drawer |-> "closed", revisions |-> 0]

\* A request goes out; RequireAuth turns it away without a session.
Sent(kind, w, k) ==
  [kind |-> kind, wiki |-> w, code |-> k, live |-> TRUE, links |-> {},
   revisions |-> 0,
   at |-> IF cookie \/ kind \in Open THEN "sent" ELSE "no"]

\* The URLs that a tab may be opened at; the routes send others to Home.
Bookmarks ==
  {LoginPage, Go("register", NoWiki, NoWiki), Home}
    \union {Go("wiki", w, NoWiki) : w \in WikiIds}
    \union {Go("page", w, w) : w \in WikiIds}

\* main.tsx renders App at any of its URLs; AuthProvider asks for /me, and no
\* other element asks for anything yet.
PortalInit ==
  /\ SharingInit
  /\ registered \in BOOLEAN /\ cookie \in {FALSE, registered}
  /\ pages = [w \in WikiIds |-> 0]
  /\ \E place \in Bookmarks :
       /\ tab = [user |-> FALSE, loading |-> TRUE, at |-> place,
                 el |-> NewElement("loading")]
       /\ visited = {place}
  /\ \E c \in Calls :
       call = [[d \in Calls |-> NoCall] EXCEPT
                 ![c] = Sent("me", NoWiki, NoCode)]

--------------------------------------------------------------------------------
(* Routing *)

\* Mutant: pages are shown before the answer to /me.
Mounted_Now(t) == t.at.name

\* ProtectedRoute shows Loading, the page, or goes to the login page.
Mounted(t) ==
  IF t.loading /\ t.at.name \in Protected THEN "loading" ELSE t.at.name

Redirected(t) ==
  IF t.at.name \in Protected /\ ~t.loading /\ ~t.user
  THEN [t EXCEPT !.at = LoginPage] ELSE t

Remounts(t) == Mounted(Redirected(t)) # Mounted(tab)

Rendered(t) ==
  LET n == Redirected(t) IN
  IF Remounts(t) THEN [n EXCEPT !.el = NewElement(Mounted(n))]
  ELSE IF n.at # tab.at THEN [n EXCEPT !.el.due = @ \union Effects(n.at.name)]
  ELSE n

\* Mutant: the answers of an element that has gone are not told apart.
StillLive_All(t, k) == k

\* Call k after the elements that make calls of some kinds have gone.
Unmounted(k, kinds) ==
  IF k # NoCall /\ k.kind \in kinds THEN [k EXCEPT !.live = FALSE] ELSE k

\* Call k once t is rendered.
StillLive(t, k) ==
  IF Remounts(t) THEN Unmounted(k, Kind \ {"me"}) ELSE k

Show(t) ==
  /\ tab' = Rendered(t)
  /\ visited' = {Redirected(t).at} \union (IF Remounts(t) THEN {} ELSE visited)

\* The user sees an element.
On(name) == Mounted(tab) = name /\ tab.el.due = {}

Click(t) ==
  /\ Show(t)
  /\ call' = [c \in Calls |-> StillLive(t, call[c])]
  /\ UNCHANGED <<sharingVars, registered, cookie, pages>>

\* Links and their targets: Login, Register, the list of Dashboard, the list
\* of WikiView, PageView and PageEditor, and the brand of Layout.
PublicLinks ==
  {IF tab.at.name = "login" THEN Go("register", NoWiki, NoWiki) ELSE LoginPage}

WikiLinks == {Go("wiki", w, NoWiki) : w \in tab.el.links}

PageLinks == {Go("page", tab.at.wiki, p) : p \in tab.el.links}

BackLinks ==
  IF tab.el.title # NoWiki \/ tab.el.error
  THEN {Go("wiki", tab.at.wiki, NoWiki)} ELSE {}

Links ==
  CASE tab.at.name \in Public -> PublicLinks
    [] tab.at.name = "dashboard" -> WikiLinks \union {Home}
    [] tab.at.name = "wiki" -> PageLinks \union {Home}
    [] tab.at.name = "page" -> BackLinks \union {Home}

Follow ==
  /\ \E name \in Public \union Protected : On(name)
  /\ \E place \in Links : Click([tab EXCEPT !.at = place])

--------------------------------------------------------------------------------
(* What the user reads *)

\* The wiki WikiView is headed with, or the page PageEditor edits.
Heading == tab.el.title

\* The code in the share panel.
Invite == tab.el.code

\* The revisions in the history drawer of t.
Listed(t) ==
  IF Mounted(t) = "page" /\ t.el.drawer = "open" THEN 1..t.el.revisions ELSE {}

--------------------------------------------------------------------------------
(* Requests of the tab *)

\* What the URL of a request names: a page of PageView or of PageEditor, or
\* the wiki in the browser's URL.
Of(kind) ==
  CASE kind = "page" -> tab.at.page
    [] kind = "revisions" -> tab.el.title
    [] OTHER -> tab.at.wiki

\* apiFetch, of join with code k; t is the tab afterwards.
FetchWith(c, kind, k, t) ==
  /\ call[c] = NoCall
  /\ tab' = t
  /\ call' = [call EXCEPT ![c] = Sent(kind, Of(kind), k)]
  /\ UNCHANGED <<sharingVars, registered, cookie, pages, visited>>

Fetch(c, kind, t) == FetchWith(c, kind, NoCode, t)

\* An effect sends its request; it does so before the next click.
Load(c) ==
  \E kind \in tab.el.due :
    Fetch(c, kind, [tab EXCEPT !.el.due = @ \ {kind}])

Ready(name, kind) == On(name) /\ kind \notin tab.el.busy

Submit(c, kind) == Fetch(c, kind, [tab EXCEPT !.el.busy = @ \union {kind}])

SubmitLogin(c) == Ready("login", "login") /\ Submit(c, "login")
SubmitRegister(c) == Ready("register", "register") /\ Submit(c, "register")
Logout(c) == (\E p \in Protected : On(p)) /\ Fetch(c, "logout", tab)
Refresh(c) == On("dashboard") /\ Fetch(c, "list", tab)

SubmitWiki(c) == Ready("dashboard", "create") /\ Submit(c, "create")

SubmitCode(c) ==
  /\ Ready("dashboard", "join")
  /\ \E k \in Codes :
       FetchWith(c, "join", k, [tab EXCEPT !.el.busy = @ \union {"join"}])

SubmitPage(c) == Ready("wiki", "newpage") /\ Submit(c, "newpage")

\* The share button opens the panel of WikiView or of PageEditor ...
Share(c) ==
  /\ \/ Ready("wiki", "share")
     \/ Ready("page", "share") /\ Heading # NoWiki
  /\ Invite = NoCode
  /\ Submit(c, "share")

\* ... or closes it.
CloseShare ==
  /\ On("wiki") \/ On("page")
  /\ Invite # NoCode
  /\ Click([tab EXCEPT !.el.code = NoCode])

\* The history button of PageEditor mounts RevisionHistory, or unmounts it.
ToggleDrawer ==
  /\ On("page") /\ Heading # NoWiki
  /\ Show([tab EXCEPT !.el.drawer = IF @ = "closed" THEN "folded" ELSE "closed",
                      !.el.busy = @ \ {"revisions"},
                      !.el.revisions = 0])
  /\ call' = [c \in Calls |-> Unmounted(call[c], {"revisions"})]
  /\ UNCHANGED <<sharingVars, registered, cookie, pages>>

Fold ==
  /\ On("page") /\ tab.el.drawer = "open"
  /\ Click([tab EXCEPT !.el.drawer = "folded"])

\* Mutant: load does not return when it is loading.
Unfold_Again(c) ==
  /\ On("page") /\ tab.el.drawer = "folded"
  /\ LET t == [tab EXCEPT !.el.drawer = "open"] IN
     \/ /\ tab.el.revisions = 0
        /\ Fetch(c, "revisions", [t EXCEPT !.el.busy = @ \union {"revisions"}])
     \/ tab.el.revisions > 0 /\ Click(t)

\* Unfolding loads the revisions unless there are some, or they are loading.
Unfold(c) ==
  /\ On("page") /\ tab.el.drawer = "folded"
  /\ LET t == [tab EXCEPT !.el.drawer = "open"] IN
     \/ /\ tab.el.revisions = 0 /\ "revisions" \notin tab.el.busy
        /\ Fetch(c, "revisions", [t EXCEPT !.el.busy = @ \union {"revisions"}])
     \/ /\ tab.el.revisions > 0 \/ "revisions" \in tab.el.busy
        /\ Click(t)

--------------------------------------------------------------------------------
(* The server *)

Answer(c) == call' = [call EXCEPT ![c].at = "ok"]

Accessible == {w \in WikiIds : owner[w] = Me \/ <<w, Me>> \in members}

ServeSession(c) ==
  /\ \/ call[c].kind \in {"me", "logout"} /\ UNCHANGED registered
     \/ call[c].kind = "login" /\ registered /\ UNCHANGED registered
     \/ call[c].kind = "register" /\ ~registered /\ registered' = TRUE
  /\ Answer(c)
  /\ UNCHANGED pages

ServeList(c) ==
  /\ call[c].kind = "list"
  /\ call' = [call EXCEPT ![c].at = "ok", ![c].links = Accessible]
  /\ UNCHANGED <<registered, pages>>

MayWrite == MapThenSumSet(LAMBDA w : pages[w], WikiIds) < MaxSaves

\* Handlers of a wiki or a page: nobody else than owner and members.
ServePages(c) ==
  LET w == call[c].wiki IN
  /\ w \in Accessible
  /\ \/ call[c].kind = "wiki" /\ Answer(c) /\ UNCHANGED pages
     \/ /\ call[c].kind = "pages"
        /\ call' = [call EXCEPT ![c].at = "ok",
                                ![c].links = {v \in {w} : pages[v] > 0}]
        /\ UNCHANGED pages
     \/ /\ call[c].kind = "newpage" /\ pages[w] = 0 /\ MayWrite
        /\ pages' = [pages EXCEPT ![w] = 1]
        /\ Answer(c)
     \/ /\ call[c].kind = "page" /\ pages[w] > 0
        /\ Answer(c)
        /\ UNCHANGED pages
     \/ /\ call[c].kind = "revisions" /\ pages[w] > 0
        /\ call' = [call EXCEPT ![c].at = "ok", ![c].revisions = pages[w]]
        /\ UNCHANGED pages
  /\ UNCHANGED registered

\* CreateWiki, GenerateShareCode and JoinByCode of Wikis.
ServeSharing(c) ==
  /\ \/ /\ call[c].kind = "create"
        /\ \E w \in WikiIds :
             /\ Found(Me, w)
             /\ call' = [call EXCEPT ![c].at = "ok", ![c].wiki = w]
     \/ /\ call[c].kind = "share" /\ owner[call[c].wiki] = Me
        /\ \/ code[call[c].wiki] # NoCode /\ UNCHANGED sharingVars
           \/ \E k \in Codes : Publish(call[c].wiki, k)
        /\ call' = [call EXCEPT ![c].at = "ok", ![c].code = code'[call[c].wiki]]
     \/ /\ call[c].kind = "join"
        /\ \E w \in WikiIds :
             /\ code[w] = call[c].code
             /\ Join(Me, w)
             /\ call' = [call EXCEPT ![c].at = "ok", ![c].wiki = w]
  /\ UNCHANGED <<registered, pages>>

ServeTab(c) ==
  /\ call[c] # NoCall /\ call[c].at = "sent"
  /\ \/ /\ ServeSession(c) \/ ServeList(c) \/ ServePages(c)
        /\ UNCHANGED sharingVars
     \/ ServeSharing(c)
  /\ UNCHANGED <<cookie, tab, visited>>

\* A request is refused, or it or its answer is lost.
Fail(c) ==
  /\ call[c] # NoCall /\ call[c].at \in {"sent", "ok"}
  /\ call' = [call EXCEPT ![c] =
       [@ EXCEPT !.at = "no", !.code = NoCode, !.links = {}, !.revisions = 0]]
  /\ UNCHANGED <<sharingVars, registered, cookie, pages, tab, visited>>

\* Other users create and share wikis; whom they enrol the tab cannot see.
Peers ==
  /\ \E w \in WikiIds :
       \/ \E u \in Users \ {Me} : Found(u, w)
       \/ owner[w] # Me /\ \E k \in Codes : Publish(w, k)
  /\ UNCHANGED tabVars

\* Somebody saves the page of w.
PageSaved(w) ==
  /\ pages[w] > 0 /\ MayWrite
  /\ pages' = [pages EXCEPT ![w] = @ + 1]
  /\ UNCHANGED <<sharingVars, registered, cookie, tab, call, visited>>

--------------------------------------------------------------------------------
(* Answers reach the tab *)

Good(c) == call[c].at = "ok"

\* Mutant: the button is enabled again only after success.
Closed_Good(c) ==
  IF call[c].live /\ Good(c)
  THEN [tab.el EXCEPT !.busy = @ \ {call[c].kind}] ELSE tab.el

\* The element after the caller's finally.
Closed(c) ==
  IF call[c].live THEN [tab.el EXCEPT !.busy = @ \ {call[c].kind}] ELSE tab.el

\* The answer is used up, and the tab shows t.
Finish(c, t) ==
  /\ Show(t)
  /\ call' = [[d \in Calls |-> StillLive(t, call[d])] EXCEPT ![c] = NoCall]
  /\ UNCHANGED <<sharingVars, registered, pages>>

\* Where the callers of these kinds navigate to.
Destination(c) ==
  CASE call[c].kind = "login" -> Home
    [] call[c].kind \in {"register", "logout"} -> LoginPage
    [] call[c].kind \in {"create", "join"} -> Go("wiki", call[c].wiki, NoWiki)
    [] call[c].kind = "newpage" -> Go("page", call[c].wiki, call[c].wiki)

DeliverMe(c) ==
  /\ call[c].kind = "me"
  /\ Finish(c, [tab EXCEPT !.user = Good(c), !.loading = FALSE])
  /\ UNCHANGED cookie

\* Mutant: navigate stands after the try.
DeliverAndGo_Always(c) ==
  /\ call[c].kind \in {"login", "register", "logout", "create", "join", "newpage"}
  /\ Finish(c, [tab EXCEPT !.el = Closed(c), !.at = Destination(c)])
  /\ UNCHANGED cookie

\* Login, Register, logout, and the forms of Dashboard and WikiView; they
\* navigate although the user has gone elsewhere meanwhile.
DeliverAndGo(c) ==
  /\ call[c].kind \in {"login", "register", "logout", "create", "join", "newpage"}
  /\ LET t == [tab EXCEPT !.el = Closed(c)]
         in == CASE call[c].kind = "login" -> TRUE
                 [] call[c].kind = "logout" -> FALSE
                 [] OTHER -> tab.user
     IN \/ /\ Good(c)
           /\ Finish(c, [t EXCEPT !.at = Destination(c), !.user = in])
           /\ cookie' =
                IF call[c].kind \in {"login", "logout"} THEN in ELSE cookie
        \/ ~Good(c) /\ Finish(c, t) /\ UNCHANGED cookie

\* What a good answer changes in the element el that asked for it.
Filled(c, el) ==
  CASE call[c].kind \in {"list", "pages"} -> [el EXCEPT !.links = call[c].links]
    [] call[c].kind = "share" -> [el EXCEPT !.code = call[c].code]
    [] call[c].kind = "revisions" -> [el EXCEPT !.revisions = call[c].revisions]
    [] call[c].kind = "page" ->
         IF el.error THEN el ELSE [el EXCEPT !.title = call[c].wiki]

DeliverData(c) ==
  /\ \/ call[c].kind \in {"list", "pages", "share", "revisions"}
     \/ call[c].kind = "page" /\ (Good(c) \/ ~call[c].live)
  /\ Finish(c, [tab EXCEPT !.el =
       IF call[c].live /\ Good(c) THEN Filled(c, Closed(c)) ELSE Closed(c)])
  /\ UNCHANGED cookie

\* PageView shows the error for good, and PageEditor is unmounted.
DeliverPageError(c) ==
  /\ call[c].kind = "page" /\ ~Good(c) /\ call[c].live
  /\ tab' = [tab EXCEPT !.el = [NewElement("page") EXCEPT !.error = TRUE,
                                                          !.due = tab.el.due]]
  /\ call' = [[d \in Calls |-> Unmounted(call[d], {"share", "revisions"})]
                EXCEPT ![c] = NoCall]
  /\ UNCHANGED <<sharingVars, registered, cookie, pages, visited>>

\* WikiView asks for the pages after the wiki.
DeliverWiki(c) ==
  /\ call[c].kind = "wiki"
  /\ \/ ~Good(c) /\ Finish(c, tab)
     \/ /\ Good(c)
        /\ tab' = IF call[c].live
                  THEN [tab EXCEPT !.el.title = call[c].wiki] ELSE tab
        /\ call' = [call EXCEPT ![c] =
             [Sent("pages", @.wiki, NoCode) EXCEPT !.live = call[c].live]]
        /\ UNCHANGED <<sharingVars, registered, pages, visited>>
  /\ UNCHANGED cookie

Deliver(c) ==
  /\ call[c] # NoCall /\ call[c].at \in {"ok", "no"}
  /\ \/ DeliverMe(c) \/ DeliverAndGo(c) \/ DeliverData(c)
     \/ DeliverPageError(c) \/ DeliverWiki(c)

--------------------------------------------------------------------------------
User(c) ==
  \/ Load(c) \/ SubmitLogin(c) \/ SubmitRegister(c) \/ Logout(c) \/ Refresh(c)
  \/ SubmitWiki(c) \/ SubmitCode(c) \/ SubmitPage(c) \/ Share(c) \/ Unfold(c)

PortalNext ==
  \/ Follow \/ CloseShare \/ ToggleDrawer \/ Fold \/ Peers
  \/ \E c \in Calls : User(c) \/ ServeTab(c) \/ Fail(c) \/ Deliver(c)
  \/ \E w \in WikiIds : PageSaved(w)

PortalSpec == PortalInit /\ [][PortalNext]_vars

--------------------------------------------------------------------------------
(****************************************************************************)
(* A tab that shows a user has a session: no order of the answers to /me,   *)
(* /login and /logout leaves the pages open after signing out               *)
(* (AuthContext.tsx:23-34, App.tsx:14).                                     *)
(****************************************************************************)
SignedIn == tab.user => cookie

(****************************************************************************)
(* The invite code on show is the code of a wiki that the user owns and     *)
(* that the element has had in its URL: of the present one, unless an       *)
(* answer has taken the element from one URL to another, which may leave    *)
(* the panel of the earlier wiki open (WikiView.tsx:52-65,                  *)
(* PageEditor.tsx:86-102).                                                  *)
(****************************************************************************)
InviteWorks ==
  Invite # NoCode =>
    \E place \in visited :
      /\ place.wiki \in WikiIds
      /\ code[place.wiki] = Invite /\ owner[place.wiki] = Me

(****************************************************************************)
(* What an element shows is that of a URL it has had, however late the      *)
(* answers come, and nothing is left of it on the login page.  While the    *)
(* element has had one URL only, that is the URL of the browser; when an    *)
(* answer has taken it to another, React Router keeps it, and it may go on  *)
(* showing the earlier one (WikiView.tsx:22-33, PageView.tsx:21-31).        *)
(****************************************************************************)
RightPlace ==
  LET wikis == {place.wiki : place \in visited}
      named == {place.page : place \in visited}
  IN CASE Mounted(tab) = "wiki" ->
            Heading \in {NoWiki} \union wikis /\ tab.el.links \subseteq wikis
       [] Mounted(tab) = "page" -> Heading \in {NoWiki} \union named
       [] Mounted(tab) \in Public -> Heading = NoWiki /\ tab.el.links = {}
       [] OTHER -> TRUE

(****************************************************************************)
(* A button is disabled exactly while one request of its own is under way:  *)
(* none stays disabled, and none can be pressed twice (try ... finally in   *)
(* Dashboard.tsx:37-73 and elsewhere, RevisionHistory.tsx:20).              *)
(****************************************************************************)
ButtonsWait ==
  \A kind \in Kind \ {"me", "logout", "list", "wiki", "pages", "page"} :
    LET waiting == {c \in Calls : /\ call[c] # NoCall
                                  /\ call[c].live /\ call[c].kind = kind}
    IN IF kind \in tab.el.busy THEN \E c \in Calls : waiting = {c}
       ELSE waiting = {}

(****************************************************************************)
(* The list of revisions is never replaced by an older one while it is on   *)
(* show (RevisionHistory.tsx:19-37).                                        *)
(****************************************************************************)
HistoryForward ==
  [][tab'.el.drawer = "open" => Listed(tab) \subseteq Listed(tab')]_vars
================================================================================
