------------------------------ MODULE PortalProofs -----------------------------
(****************************************************************************)
(* Theorems about Portal, for any number of requests under way, any users,  *)
(* wikis and codes.                                                         *)
(*                                                                          *)
(* The argument.  A request whose answer still finds its element was made   *)
(* by the element that is mounted now, and for the URL it has now unless it *)
(* has outlived one (Belongs): React unmounts the element of every other    *)
(* one first.  So an answer fills in what belongs to the URL.  A session    *)
(* ends only with an answer to /logout, and nobody asks for that before the *)
(* answer to /me is there.                                                  *)
(****************************************************************************)
EXTENDS Portal, TLAPS

USE SharingAssumption, PortalAssumption, NoCallAssumption

--------------------------------------------------------------------------------
(* The inductive invariant *)

\* The elements that make requests of a kind.
Makers(kind) ==
  CASE kind = "login" -> {"login"}
    [] kind = "register" -> {"register"}
    [] kind \in {"list", "create", "join"} -> {"dashboard"}
    [] kind \in {"wiki", "pages", "newpage"} -> {"wiki"}
    [] kind \in {"page", "revisions"} -> {"page"}
    [] kind = "share" -> {"wiki", "page"}
    [] OTHER -> Protected

\* The kinds of requests that have a button.
Buttons == Kind \ {"me", "logout", "list", "wiki", "pages", "page"}

\* The URL of t is one that the routes let it have.
Routed(t) ==
  /\ t.at.name \in {"wiki", "page"} => t.at.wiki \in WikiIds
  /\ t.at.name \in Protected /\ ~t.loading => t.user

\* What request or answer k says of wikis is true for good.
Carries(k) ==
  /\ k.kind \in {"newpage", "share"} => k.wiki \in WikiIds
  /\ k.kind \in {"create", "join"} /\ k.at = "ok" => k.wiki \in WikiIds
  /\ k.kind = "pages" => k.links \subseteq {k.wiki}
  /\ k.kind = "share" /\ k.at = "ok" =>
       k.code # NoCode /\ code[k.wiki] = k.code /\ owner[k.wiki] = Me

\* The wikis and the pages in the URLs r.
WikisIn(r) == {place.wiki : place \in r}
PagesIn(r) == {place.page : place \in r}

\* If k finds its element, that is the one of t, and k is about one of the
\* URLs r that it has had.
Belongs(t, r, k) ==
  k.live /\ k.kind # "me" =>
    /\ Mounted(t) \in Makers(k.kind)
    /\ k.kind \in {"wiki", "pages", "share"} => k.wiki \in WikisIn(r)
    /\ k.kind = "page" => k.wiki \in PagesIn(r)

CallInv(c) ==
  call[c] # NoCall =>
    /\ Carries(call[c])
    /\ Belongs(tab, visited, call[c])
    /\ tab.loading => call[c].kind \in {"me", "login", "register"}
    /\ tab.loading /\ tab.at.name \in Protected /\ tab.at # Home =>
         call[c].kind = "me"
    /\ call[c].kind = "me" => tab.loading /\ (call[c].at # "no" => cookie)

Asking(c) == call[c] # NoCall /\ call[c].kind = "me"

OneMe == \A c, d \in Calls : Asking(c) /\ Asking(d) => c = d

CallsInv == OneMe /\ \A c \in Calls : CallInv(c)

\* What element e of t shows belongs to one of the URLs r.
Fits(t, r, e) ==
  CASE Mounted(t) = "wiki" ->
         e.title \in {NoWiki} \union WikisIn(r) /\ e.links \subseteq WikisIn(r)
    [] Mounted(t) = "page" -> e.title \in {NoWiki} \union PagesIn(r)
    [] Mounted(t) \in Public -> e.title = NoWiki /\ e.links = {}
    [] OTHER -> TRUE

Invites(t, r, e) ==
  e.code # NoCode =>
    \E w \in WikiIds \intersect WikisIn(r) : code[w] = e.code /\ owner[w] = Me

ElementInv(t, r, e) ==
  /\ t.at \in r
  /\ e.due \subseteq Effects(Mounted(t))
  /\ Fits(t, r, e)
  /\ Invites(t, r, e)

Waits(c, kind) == call[c] # NoCall /\ call[c].live /\ call[c].kind = kind

\* Each button in busy has one request, no other button has one.
ButtonsInv ==
  /\ \A kind \in Buttons :
       /\ kind \in tab.el.busy => \E c \in Calls : Waits(c, kind)
       /\ \A c \in Calls : Waits(c, kind) => kind \in tab.el.busy
       /\ \A c, d \in Calls : Waits(c, kind) /\ Waits(d, kind) => c = d
  /\ "revisions" \in tab.el.busy => tab.el.revisions = 0

PortalInv ==
  /\ PortalTypeOK
  /\ Routed(tab)
  /\ CallsInv
  /\ ElementInv(tab, visited, tab.el)
  /\ ButtonsInv
  /\ SignedIn

--------------------------------------------------------------------------------
(* Elements and places *)

LEMMA Facts ==
  ASSUME PortalInv
  PROVE  /\ PortalTypeOK /\ tab \in Tab /\ tab.el \in Element /\ tab.at \in Location
         /\ call \in [Calls -> TabCall \union {NoCall}]
         /\ \A c \in Calls : CallInv(c) /\ (call[c] # NoCall => call[c] \in TabCall)
         /\ OneMe
BY DEF PortalInv, PortalTypeOK, CallsInv, Tab

LEMMA FixedPlaces ==
  /\ LoginPage \in Location /\ LoginPage.name = "login"
  /\ Home \in Location /\ Home.name = "dashboard"
  /\ Go("register", NoWiki, NoWiki) \in Location
  /\ Go("register", NoWiki, NoWiki).name = "register"
BY DEF LoginPage, Home, Go, Location, Public, Protected

LEMMA Places ==
  ASSUME NEW w \in WikiIds, NEW p \in WikiIds \union {NoWiki}
  PROVE  /\ Go("wiki", w, p) \in Location /\ Go("page", w, p) \in Location
         /\ Go("wiki", w, p).name = "wiki" /\ Go("wiki", w, p).wiki = w
         /\ Go("page", w, p).name = "page" /\ Go("page", w, p).wiki = w
BY DEF Go, Location, Protected

LEMMA NewElements ==
  ASSUME NEW name \in Public \union Protected \union {"loading"}
  PROVE  /\ NewElement(name) \in Element
         /\ NewElement(name).due = Effects(name)
         /\ NewElement(name).links = {} /\ NewElement(name).title = NoWiki
         /\ NewElement(name).code = NoCode /\ NewElement(name).busy = {}
         /\ NewElement(name).drawer = "closed" /\ NewElement(name).revisions = 0
BY DEF NewElement, Element, Effects, Public, Protected, Kind

LEMMA MountedName ==
  ASSUME NEW t \in Tab
  PROVE  /\ t.at \in Location /\ t.el \in Element
         /\ t.at.name \in Public \union Protected
         /\ Mounted(t) \in {t.at.name, "loading"}
         /\ Mounted(t) # "loading" => Mounted(t) = t.at.name
         /\ Mounted(t) = "loading" <=> t.loading /\ t.at.name \in Protected
BY DEF Tab, Location, Mounted, Public, Protected

LEMMA Shown ==
  ASSUME tab \in Tab, visited \subseteq Location, NEW t \in Tab, Show(t)
  PROVE  /\ tab' \in Tab /\ tab'.user = t.user /\ tab'.loading = t.loading
         /\ tab'.at \in {t.at, LoginPage}
         /\ tab'.at.name \in Protected /\ ~tab'.loading => tab'.user
         /\ \/ /\ Remounts(t)
               /\ tab'.el = NewElement(Mounted(tab')) /\ visited' = {tab'.at}
            \/ /\ ~Remounts(t) /\ Mounted(tab)' = Mounted(tab)
               /\ tab'.at = tab.at /\ tab'.el = t.el
               /\ visited' = visited \union {tab'.at}
            \/ /\ ~Remounts(t) /\ Mounted(tab)' = Mounted(tab)
               /\ tab'.at # tab.at /\ visited' = visited \union {tab'.at}
               /\ tab'.el = [t.el EXCEPT !.due = @ \union Effects(tab'.at.name)]
<1> DEFINE n == Redirected(t)
<1>1. /\ n \in Tab /\ n.user = t.user /\ n.loading = t.loading /\ n.el = t.el
      /\ n.at \in {t.at, LoginPage}
      /\ n.at.name \in Protected /\ ~n.loading => n.user
  BY FixedPlaces DEF Redirected, Tab, LoginPage, Go, Location, Public, Protected
<1>2. /\ tab' = IF Remounts(t) THEN [n EXCEPT !.el = NewElement(Mounted(n))]
                ELSE IF n.at # tab.at
                THEN [n EXCEPT !.el = [n.el EXCEPT !.due = @ \union Effects(n.at.name)]]
                ELSE n
      /\ Remounts(t) <=> Mounted(n) # Mounted(tab)
      /\ visited' = IF Remounts(t) THEN {n.at} ELSE visited \union {n.at}
  BY <1>1 DEF Show, Rendered, Remounts
<1> HIDE DEF n
<1>3. ASSUME NEW e \in Element
      PROVE  LET u == [n EXCEPT !.el = e] IN
        /\ u \in Tab /\ u.user = n.user /\ u.loading = n.loading /\ u.at = n.at
        /\ u.el = e /\ Mounted(u) = Mounted(n)
  BY <1>1, <1>3 DEF Tab, Mounted
<1>4. NewElement(Mounted(n)) \in Element /\ n.el \in Element
      /\ Effects(n.at.name) \subseteq Kind
  BY <1>1, MountedName, NewElements DEF Effects, Kind
<1>5. [n.el EXCEPT !.due = @ \union Effects(n.at.name)] \in Element
  BY <1>4 DEF Element
<1>6. Mounted(tab)' = Mounted(tab')
  BY DEF Mounted
<1>7. CASE Remounts(t)
  BY <1>1, <1>2, <1>3, <1>4, <1>6, <1>7
<1>8. CASE ~Remounts(t) /\ n.at = tab.at
  <2>1. tab' = n /\ visited' = visited \union {n.at} /\ Mounted(n) = Mounted(tab)
    BY <1>2, <1>8
  <2>2. Mounted(tab)' = Mounted(tab)
    BY <1>6, <2>1
  <2> QED
    BY <1>1, <1>8, <2>1, <2>2
<1>9. CASE ~Remounts(t) /\ n.at # tab.at
  BY <1>1, <1>2, <1>3, <1>5, <1>6, <1>9
<1> QED
  BY <1>7, <1>8, <1>9

--------------------------------------------------------------------------------
(* The tab shows something else *)

LEMMA Unmounts ==
  ASSUME NEW k \in TabCall \union {NoCall}, NEW kinds
  PROVE  LET u == Unmounted(k, kinds) IN
         /\ u \in TabCall \union {NoCall}
         /\ u # NoCall <=> k # NoCall
         /\ k # NoCall =>
              /\ u.kind = k.kind /\ u.wiki = k.wiki /\ u.code = k.code
              /\ u.at = k.at /\ u.links = k.links /\ u.revisions = k.revisions
              /\ u.live <=> k.live /\ k.kind \notin kinds
<1>1. CASE k # NoCall /\ k.kind \in kinds
  BY <1>1 DEF Unmounted, TabCall
<1>2. CASE ~(k # NoCall /\ k.kind \in kinds)
  BY <1>2 DEF Unmounted, TabCall
<1> QED
  BY <1>1, <1>2

LEMMA StaysLive ==
  ASSUME NEW t \in Tab, NEW k \in TabCall \union {NoCall}
  PROVE  LET u == StillLive(t, k) IN
         /\ u \in TabCall \union {NoCall}
         /\ u # NoCall <=> k # NoCall
         /\ k # NoCall =>
              /\ u.kind = k.kind /\ u.wiki = k.wiki /\ u.code = k.code
              /\ u.at = k.at /\ u.links = k.links /\ u.revisions = k.revisions
              /\ u.live <=> k.live /\ (k.kind = "me" \/ ~Remounts(t))
<1>1. CASE Remounts(t)
  <2>1. StillLive(t, k) = Unmounted(k, Kind \ {"me"})
    BY <1>1 DEF StillLive
  <2>2. k # NoCall => k.kind \in Kind
    BY DEF TabCall
  <2> QED
    BY <1>1, <2>1, <2>2, Unmounts
<1>2. CASE ~Remounts(t)
  BY <1>2 DEF StillLive, TabCall
<1> QED
  BY <1>1, <1>2

\* The tab shows t, and the answers to the requests D are used up.
Shows(t, D) ==
  /\ Show(t)
  /\ call' = [c \in Calls |-> IF c \in D THEN NoCall ELSE StillLive(t, call[c])]
  /\ UNCHANGED <<sharingVars, registered, pages>>

LEMMA ShowRequests ==
  ASSUME PortalInv, NEW t \in Tab, NEW D \in SUBSET Calls, Shows(t, D)
  PROVE  /\ call' \in [Calls -> TabCall \union {NoCall}]
         /\ \A c \in D : call'[c] = NoCall
         /\ \A c \in Calls \ D :
              /\ call'[c] # NoCall <=> call[c] # NoCall
              /\ call[c] # NoCall =>
                   /\ call'[c].kind = call[c].kind /\ call'[c].wiki = call[c].wiki
                   /\ call'[c].code = call[c].code /\ call'[c].at = call[c].at
                   /\ call'[c].links = call[c].links
                   /\ call'[c].live <=>
                        call[c].live /\ (call[c].kind = "me" \/ ~Remounts(t))
BY Facts, StaysLive DEF Shows

LEMMA ShowTyped ==
  ASSUME PortalInv, NEW t \in Tab, NEW D \in SUBSET Calls, Shows(t, D),
         cookie' \in BOOLEAN,
         t.at.name \in {"wiki", "page"} => t.at.wiki \in WikiIds
  PROVE  PortalTypeOK' /\ Routed(tab)'
<1>1. tab \in Tab /\ visited \subseteq Location /\ PortalTypeOK
  BY Facts DEF PortalTypeOK
<1>2. /\ tab' \in Tab /\ tab'.user = t.user /\ tab'.loading = t.loading
      /\ tab'.at \in {t.at, LoginPage}
      /\ tab'.at.name \in Protected /\ ~tab'.loading => tab'.user
      /\ visited' \subseteq Location
  <2>1. tab' \in Tab /\ visited' \subseteq visited \union {tab'.at}
    BY <1>1, Shown DEF Shows
  <2>2. visited' \subseteq Location
    BY <1>1, <2>1, MountedName
  <2> QED
    BY <1>1, <2>2, Shown DEF Shows
<1>3. LoginPage.name \notin Protected \union {"wiki", "page"}
  BY DEF LoginPage, Go, Protected
<1>4. Routed(tab)'
  BY <1>2, <1>3 DEF Routed
<1>5. call' \in [Calls -> TabCall \union {NoCall}]
  BY ShowRequests
<1>6. UNCHANGED <<owner, members, code, registered, pages>>
  BY DEF Shows, sharingVars
<1> QED
  BY <1>1, <1>2, <1>4, <1>5, <1>6 DEF PortalTypeOK, Routed

LEMMA ShowCalls ==
  ASSUME PortalInv, NEW t \in Tab, NEW D \in SUBSET Calls, Shows(t, D),
         t.loading => tab.loading,
         t.loading /\ t.at.name \in Protected /\ t.at # Home => t.at = tab.at,
         (\A c \in Calls \ D : ~Asking(c)) \/ (t.loading = tab.loading /\ (cookie => cookie'))
  PROVE  CallsInv'
<1>1. /\ tab'.loading = t.loading /\ tab'.at \in {t.at, LoginPage}
      /\ \/ Remounts(t)
         \/ ~Remounts(t) /\ Mounted(tab)' = Mounted(tab) /\ visited \subseteq visited'
  BY Facts, Shown DEF Shows, PortalTypeOK
<1>2. UNCHANGED <<owner, code>>
  BY DEF Shows, sharingVars
<1>3. OneMe'
  BY ShowRequests, Facts DEF OneMe, Asking
<1>4. ASSUME NEW c \in Calls, call'[c] # NoCall
      PROVE  CallInv(c)'
  <2>1. /\ c \notin D /\ call[c] # NoCall /\ CallInv(c)
        /\ call'[c].kind = call[c].kind /\ call'[c].wiki = call[c].wiki
        /\ call'[c].code = call[c].code /\ call'[c].at = call[c].at
        /\ call'[c].links = call[c].links
        /\ call'[c].live <=> call[c].live /\ (call[c].kind = "me" \/ ~Remounts(t))
    BY <1>4, ShowRequests, Facts
  <2>2. Carries(call[c])'
    BY <1>2, <2>1 DEF CallInv, Carries
  <2>3. Belongs(tab, visited, call[c])'
    BY <1>1, <2>1 DEF CallInv, Belongs, WikisIn, PagesIn
  <2>4. tab'.loading => call'[c].kind \in {"me", "login", "register"}
    BY <1>1, <2>1 DEF CallInv
  <2>5. call'[c].kind = "me" => tab'.loading /\ (call'[c].at # "no" => cookie')
    BY <1>1, <2>1 DEF CallInv, Asking
  <2>6. tab'.loading /\ tab'.at.name \in Protected /\ tab'.at # Home =>
          call'[c].kind = "me"
    BY <1>1, <2>1, FixedPlaces DEF CallInv, Protected
  <2> QED
    BY <2>2, <2>3, <2>4, <2>5, <2>6 DEF CallInv
<1> QED
  BY <1>3, <1>4 DEF CallsInv, CallInv

LEMMA ShowElement ==
  ASSUME PortalInv, NEW t \in Tab, NEW D \in SUBSET Calls, Shows(t, D),
         Routed(tab)', ElementInv(tab, visited, t.el),
         t.loading => tab.loading,
         t.loading /\ t.at.name \in Protected /\ t.at # Home => t.at = tab.at,
         tab.loading /\ tab.at.name \in Protected /\ tab.at # Home => t.at = tab.at
  PROVE  ElementInv(tab, visited, tab.el)'
<1>1. /\ tab \in Tab /\ t.el \in Element /\ tab' \in Tab
      /\ tab'.loading = t.loading /\ tab'.at \in {t.at, LoginPage}
      /\ UNCHANGED <<owner, code>>
      /\ \/ tab'.el = NewElement(Mounted(tab')) /\ visited' = {tab'.at}
         \/ /\ Mounted(tab)' = Mounted(tab) /\ visited' = visited \union {tab'.at}
            /\ tab'.at = tab.at /\ tab'.el = t.el
         \/ /\ Mounted(tab)' = Mounted(tab) /\ visited' = visited \union {tab'.at}
            /\ tab'.at # tab.at
            /\ tab'.el = [t.el EXCEPT !.due = @ \union Effects(tab'.at.name)]
  BY Facts, Shown DEF Shows, PortalTypeOK, sharingVars, PortalInv, Tab
<1>2. /\ Mounted(tab)' = Mounted(tab')
      /\ Mounted(tab') \in Public \union Protected \union {"loading"}
  BY <1>1, MountedName DEF Mounted
<1>3. CASE tab'.el = NewElement(Mounted(tab')) /\ visited' = {tab'.at}
  BY <1>2, <1>3, NewElements DEF ElementInv, Fits, Invites
<1>4. ASSUME Mounted(tab)' = Mounted(tab), visited' = visited \union {tab'.at},
             tab'.el.title = t.el.title, tab'.el.links = t.el.links,
             tab'.el.code = t.el.code
      PROVE  (tab.at \in visited /\ Fits(tab, visited, tab.el) /\ Invites(tab, visited, tab.el))'
  <2>1. /\ WikisIn(visited) \subseteq WikisIn(visited')
        /\ PagesIn(visited) \subseteq PagesIn(visited')
        /\ WikisIn(visited)' = WikisIn(visited') /\ PagesIn(visited)' = PagesIn(visited')
    BY <1>4 DEF WikisIn, PagesIn
  <2>2. Fits(tab, visited, t.el) /\ Invites(tab, visited, t.el)
    BY DEF ElementInv
  <2>3. Fits(tab, visited, tab.el)'
    <3>1. Mounted(tab) \in {"wiki", "page"} => Mounted(tab) \notin Public
      BY DEF Public
    <3>2. CASE Mounted(tab) = "wiki"
      <4>1. t.el.title \in {NoWiki} \union WikisIn(visited) /\ t.el.links \subseteq WikisIn(visited)
        BY <2>2, <3>2 DEF Fits
      <4>2. tab'.el.title \in {NoWiki} \union WikisIn(visited') /\ tab'.el.links \subseteq WikisIn(visited')
        BY <1>4, <2>1, <4>1
      <4> QED
        BY <1>4, <2>1, <3>1, <3>2, <4>2 DEF Fits
    <3>3. CASE Mounted(tab) = "page"
      <4>1. t.el.title \in {NoWiki} \union PagesIn(visited)
        BY <2>2, <3>3 DEF Fits
      <4>2. tab'.el.title \in {NoWiki} \union PagesIn(visited')
        BY <1>4, <2>1, <4>1
      <4> QED
        BY <1>4, <2>1, <3>1, <3>3, <4>2 DEF Fits
    <3>4. CASE Mounted(tab) \notin {"wiki", "page"}
      BY <1>4, <2>2, <3>1, <3>4 DEF Fits
    <3> QED
      BY <3>2, <3>3, <3>4
  <2>4. Invites(tab, visited, tab.el)'
    BY <1>1, <1>4, <2>1, <2>2 DEF Invites
  <2> QED
    BY <1>4, <2>3, <2>4
<1>5. CASE /\ Mounted(tab)' = Mounted(tab) /\ visited' = visited \union {tab'.at}
           /\ tab'.at = tab.at /\ tab'.el = t.el
  <2>1. (tab.el.due \subseteq Effects(Mounted(tab)))'
    BY <1>2, <1>5 DEF ElementInv
  <2> QED
    BY <1>4, <1>5, <2>1 DEF ElementInv
<1>6. CASE /\ Mounted(tab)' = Mounted(tab) /\ visited' = visited \union {tab'.at}
           /\ tab'.at # tab.at
           /\ tab'.el = [t.el EXCEPT !.due = @ \union Effects(tab'.at.name)]
  <2>1. /\ tab'.el.code = t.el.code /\ tab'.el.due = t.el.due \union Effects(tab'.at.name)
        /\ tab'.el.title = t.el.title /\ tab'.el.links = t.el.links
    BY <1>1, <1>6 DEF Element
  <2>2. Mounted(tab') # "loading"
    <3>1. Mounted(tab') = "loading" =>
            /\ tab.loading /\ tab.at.name \in Protected
            /\ t.loading /\ t.at.name \in Protected /\ tab'.at = t.at
      BY <1>1, <1>2, <1>6, MountedName, FixedPlaces DEF Protected
    <3> QED
      BY <1>6, <3>1
  <2>3. Mounted(tab') = tab'.at.name
    BY <1>1, <2>2, MountedName
  <2>4. (tab.el.due \subseteq Effects(Mounted(tab)))'
    BY <1>2, <1>6, <2>1, <2>3 DEF ElementInv
  <2> QED
    BY <1>4, <1>6, <2>1, <2>4 DEF ElementInv
<1> QED
  BY <1>1, <1>3, <1>5, <1>6

\* Element e has the buttons of tab's but for those of the requests D.
Ends(e, D) ==
  /\ \A kind \in Buttons :
       \/ (kind \in e.busy <=> kind \in tab.el.busy) /\ \A d \in D : ~Waits(d, kind)
       \/ kind \notin e.busy /\ \E d \in D : Waits(d, kind)
  /\ "revisions" \in e.busy => e.revisions = 0

LEMMA ShowButtons ==
  ASSUME PortalInv, NEW t \in Tab, NEW D \in SUBSET Calls, Shows(t, D), Ends(t.el, D)
  PROVE  ButtonsInv'
<1>1. /\ t.el \in Element
      /\ \/ Remounts(t) /\ tab'.el.busy = {}
         \/ ~Remounts(t) /\ tab'.el.busy = t.el.busy /\ tab'.el.revisions = t.el.revisions
  <2>1. tab \in Tab /\ visited \subseteq Location /\ t.el \in Element
    BY Facts DEF PortalTypeOK, Tab
  <2>2. tab' \in Tab /\ Mounted(tab') \in Public \union Protected \union {"loading"}
    BY <2>1, Shown, MountedName DEF Shows
  <2>3. [t.el EXCEPT !.due = @ \union Effects(tab'.at.name)].busy = t.el.busy
        /\ [t.el EXCEPT !.due = @ \union Effects(tab'.at.name)].revisions = t.el.revisions
    BY <2>1 DEF Element
  <2> QED
    BY <2>1, <2>2, <2>3, Shown, NewElements DEF Shows
<1>2. ASSUME NEW kind \in Buttons
      PROVE  \A c \in Calls :
               Waits(c, kind)' <=> Waits(c, kind) /\ c \notin D /\ ~Remounts(t)
  BY ShowRequests DEF Waits, Buttons
<1>3. CASE Remounts(t)
  BY <1>1, <1>2, <1>3 DEF ButtonsInv
<1>4. CASE ~Remounts(t)
  <2>1. ASSUME NEW kind \in Buttons
        PROVE  /\ kind \in tab'.el.busy => \E c \in Calls : Waits(c, kind)'
               /\ \A c \in Calls : Waits(c, kind)' => kind \in tab'.el.busy
               /\ \A c, d \in Calls : Waits(c, kind)' /\ Waits(d, kind)' => c = d
    <3>1. /\ kind \in tab.el.busy => \E c \in Calls : Waits(c, kind)
          /\ \A c \in Calls : Waits(c, kind) => kind \in tab.el.busy
          /\ \A c, d \in Calls : Waits(c, kind) /\ Waits(d, kind) => c = d
      BY DEF PortalInv, ButtonsInv
    <3>2. \/ (kind \in t.el.busy <=> kind \in tab.el.busy) /\ \A d \in D : ~Waits(d, kind)
          \/ kind \notin t.el.busy /\ \E d \in D : Waits(d, kind)
      BY DEF Ends
    <3> QED
      BY <1>1, <1>2, <1>4, <3>1, <3>2
  <2> QED
    BY <1>1, <1>4, <2>1 DEF ButtonsInv, Ends
<1> QED
  BY <1>3, <1>4

\* The history in element e has what the tab lists.
GoesOn(e) == e.drawer = "open" => Listed(tab) = {} \/ tab.el.revisions <= e.revisions

Forward == tab'.el.drawer = "open" => Listed(tab) \subseteq Listed(tab')

LEMMA ListedIn ==
  ASSUME NEW t \in Tab
  PROVE  /\ t.el.revisions \in Nat
         /\ Listed(t) = IF Mounted(t) = "page" /\ t.el.drawer = "open"
                        THEN 1..t.el.revisions ELSE {}
BY DEF Listed, Tab, Element

LEMMA ShowForward ==
  ASSUME PortalInv, NEW t \in Tab, NEW D \in SUBSET Calls, Shows(t, D), GoesOn(t.el)
  PROVE  Forward
<1>1. tab \in Tab /\ t.el \in Element /\ tab' \in Tab
      /\ Mounted(tab') \in Public \union Protected \union {"loading"}
  BY Facts, Shown, MountedName DEF Shows, PortalTypeOK, Tab
<1>2. [t.el EXCEPT !.due = @ \union Effects(tab'.at.name)].drawer = t.el.drawer
      /\ [t.el EXCEPT !.due = @ \union Effects(tab'.at.name)].revisions = t.el.revisions
  BY <1>1 DEF Element
<1>3. \/ tab'.el.drawer = "closed"
      \/ /\ Mounted(tab)' = Mounted(tab)
         /\ tab'.el.drawer = t.el.drawer /\ tab'.el.revisions = t.el.revisions
  BY <1>1, <1>2, Facts, Shown, NewElements DEF Shows, PortalTypeOK
<1>4. Mounted(tab)' = Mounted(tab')
  BY DEF Mounted
<1> QED
  BY <1>1, <1>3, <1>4, ListedIn DEF Forward, GoesOn

\* All that PortalInv asks of a step that shows t.
ShowsWell(t, D) ==
  /\ t \in Tab /\ D \subseteq Calls
  /\ Shows(t, D)
  /\ cookie' \in BOOLEAN /\ (t.user => cookie')
  /\ t.at.name \in {"wiki", "page"} => t.at.wiki \in WikiIds
  /\ t.loading /\ t.at.name \in Protected /\ t.at # Home => t.at = tab.at
  /\ tab.loading /\ tab.at.name \in Protected /\ tab.at # Home => t.at = tab.at
  /\ t.loading => tab.loading
  /\ (\A c \in Calls \ D : ~Asking(c)) \/ (t.loading = tab.loading /\ (cookie => cookie'))
  /\ ElementInv(tab, visited, t.el)
  /\ Ends(t.el, D)
  /\ GoesOn(t.el)

LEMMA ShowStep ==
  ASSUME PortalInv, NEW t, NEW D, ShowsWell(t, D)
  PROVE  PortalInv' /\ Forward
<1>1. t \in Tab /\ D \in SUBSET Calls /\ Shows(t, D)
  BY DEF ShowsWell
<1>2. PortalTypeOK' /\ Routed(tab)'
  BY <1>1, ShowTyped DEF ShowsWell
<1>3. CallsInv'
  BY <1>1, ShowCalls DEF ShowsWell
<1>4. ElementInv(tab, visited, tab.el)'
  BY <1>1, <1>2, ShowElement DEF ShowsWell
<1>5. ButtonsInv'
  BY <1>1, ShowButtons DEF ShowsWell
<1>6. SignedIn'
  <2>1. tab'.user = t.user
    BY <1>1, Facts, Shown DEF Shows, PortalTypeOK
  <2> QED
    BY <2>1 DEF ShowsWell, SignedIn
<1>7. Forward
  BY <1>1, ShowForward DEF ShowsWell
<1> QED
  BY <1>2, <1>3, <1>4, <1>5, <1>6, <1>7 DEF PortalInv

--------------------------------------------------------------------------------
(* The user clicks *)

\* A click changes the element to e and the URL to place; no request is made.
LEMMA ClickStep ==
  ASSUME PortalInv, NEW e \in Element, NEW place \in Location,
         Click([tab EXCEPT !.el = e, !.at = place]),
         \/ place = tab.at
         \/ place.name \in Public /\ Mounted(tab) # "loading"
         \/ ~tab.loading /\ tab.user,
         place.name \in {"wiki", "page"} => place.wiki \in WikiIds,
         ElementInv(tab, visited, e),
         e.busy = tab.el.busy, e.revisions = tab.el.revisions,
         GoesOn(e)
  PROVE  PortalInv' /\ Forward
<1> DEFINE t == [tab EXCEPT !.el = e, !.at = place]
<1>1. /\ tab \in Tab /\ t \in Tab /\ t.user = tab.user /\ t.loading = tab.loading
      /\ t.at = place /\ t.el = e
  BY Facts DEF Tab
<1>2. Click(t)
  OBVIOUS
<1> HIDE DEF t
<1>3. Shows(t, {}) /\ UNCHANGED cookie
  BY <1>2 DEF Click, Shows
<1>4. Ends(t.el, {})
  BY <1>1 DEF Ends, PortalInv, ButtonsInv
<1>5. /\ t.loading /\ t.at.name \in Protected /\ t.at # Home => t.at = tab.at
      /\ tab.loading /\ tab.at.name \in Protected /\ tab.at # Home => t.at = tab.at
  BY <1>1, MountedName DEF Public, Protected
<1>6. cookie \in BOOLEAN /\ (tab.user => cookie)
  BY Facts DEF PortalTypeOK, PortalInv, SignedIn
<1>7. ShowsWell(t, {})
  BY <1>1, <1>3, <1>4, <1>5, <1>6 DEF ShowsWell
<1> QED
  BY <1>7, ShowStep

LEMMA FollowStep ==
  ASSUME PortalInv, Follow
  PROVE  PortalInv' /\ Forward
<1>1. /\ tab \in Tab /\ tab.el \in Element /\ tab.at \in Location
      /\ ElementInv(tab, visited, tab.el) /\ Routed(tab)
  BY Facts DEF PortalInv
<1>2. PICK place \in Links : Click([tab EXCEPT !.at = place])
  BY DEF Follow
<1>3. Mounted(tab) # "loading"
  <2>1. PICK name \in Public \union Protected : Mounted(tab) = name
    BY DEF Follow, On
  <2> QED
    BY <2>1 DEF Public, Protected
<1>4. /\ place \in Location
      /\ place.name \in Public \/ tab.at.name \in Protected
      /\ place.name \in {"wiki", "page"} => place.wiki \in WikiIds
  <2>1. tab.at.name \in Public \/ tab.at.name \in Protected
    BY <1>1 DEF Location
  <2>2. CASE tab.at.name \in Public
    BY <1>2, <2>2 DEF Links, PublicLinks, Go, LoginPage, Location, Public, Protected
  <2>3. CASE tab.at.name \in {"wiki", "page"}
    <3>1. tab.at.wiki \in WikiIds /\ tab.el.links \subseteq WikiIds
      BY <1>1, <2>3 DEF Routed, Element
    <3>2. place = Home \/ place = Go("wiki", tab.at.wiki, NoWiki)
            \/ \E p \in tab.el.links : place = Go("page", tab.at.wiki, p)
      BY <1>2, <2>3 DEF Links, PageLinks, BackLinks, Public
    <3> QED
      BY <2>3, <3>1, <3>2, FixedPlaces, Places DEF Protected
  <2>4. CASE tab.at.name = "dashboard"
    <3>1. tab.el.links \subseteq WikiIds
      BY <1>1 DEF Element
    <3>2. place = Home \/ \E w \in tab.el.links : place = Go("wiki", w, NoWiki)
      BY <1>2, <2>4 DEF Links, WikiLinks, Public
    <3> QED
      BY <2>4, <3>1, <3>2, FixedPlaces, Places DEF Protected
  <2> QED
    BY <2>1, <2>2, <2>3, <2>4 DEF Protected
<1>5. place.name \in Public \/ (~tab.loading /\ tab.user)
  BY <1>1, <1>3, <1>4, MountedName DEF Routed
<1>6. [tab EXCEPT !.at = place] = [tab EXCEPT !.el = tab.el, !.at = place]
  BY <1>1 DEF Tab
<1>7. GoesOn(tab.el)
  BY <1>1 DEF GoesOn, Element
<1> QED
  BY <1>1, <1>2, <1>3, <1>4, <1>5, <1>6, <1>7, ClickStep

\* An element that shows the same or no code fits where the old one did.
LEMMA StillFits ==
  ASSUME NEW t, NEW r, NEW e, NEW f, ElementInv(t, r, e),
         f.due \subseteq e.due, f.title = e.title, f.links = e.links,
         f.code \in {e.code, NoCode}
  PROVE  ElementInv(t, r, f)
BY DEF ElementInv, Fits, Invites

LEMMA StayClick ==
  ASSUME PortalInv, NEW e \in Element, Click([tab EXCEPT !.el = e]),
         ElementInv(tab, visited, e),
         e.busy = tab.el.busy, e.revisions = tab.el.revisions, GoesOn(e)
  PROVE  PortalInv' /\ Forward
<1>1. /\ tab \in Tab /\ tab.at \in Location
      /\ tab.at.name \in {"wiki", "page"} => tab.at.wiki \in WikiIds
  BY Facts DEF PortalInv, Routed
<1>2. [tab EXCEPT !.el = e] = [tab EXCEPT !.el = e, !.at = tab.at]
  BY <1>1 DEF Tab
<1> QED
  BY <1>1, <1>2, ClickStep

LEMMA CloseShareStep ==
  ASSUME PortalInv, CloseShare
  PROVE  PortalInv' /\ Forward
<1> DEFINE e == [tab.el EXCEPT !.code = NoCode]
<1>1. /\ tab \in Tab /\ tab.el \in Element /\ ElementInv(tab, visited, tab.el)
      /\ Click([tab EXCEPT !.el = e])
  BY Facts DEF PortalInv, CloseShare
<1>2. /\ e \in Element /\ e.due = tab.el.due /\ e.title = tab.el.title
      /\ e.links = tab.el.links /\ e.code = NoCode /\ e.busy = tab.el.busy
      /\ e.revisions = tab.el.revisions /\ e.revisions \in Nat
  BY <1>1 DEF Element
<1> HIDE DEF e
<1>3. ElementInv(tab, visited, e)
  BY <1>1, <1>2, StillFits
<1> QED
  BY <1>1, <1>2, <1>3, StayClick DEF GoesOn

LEMMA DrawerClick ==
  ASSUME PortalInv, NEW drawer \in {"folded", "open"},
         drawer = "open" => tab.el.drawer = "folded",
         Click([tab EXCEPT !.el.drawer = drawer])
  PROVE  PortalInv' /\ Forward
<1> DEFINE e == [tab.el EXCEPT !.drawer = drawer]
<1>1. /\ tab \in Tab /\ tab.el \in Element /\ ElementInv(tab, visited, tab.el)
      /\ Click([tab EXCEPT !.el = e])
  BY Facts DEF PortalInv
<1>2. /\ e \in Element /\ e.due = tab.el.due /\ e.title = tab.el.title
      /\ e.links = tab.el.links /\ e.code = tab.el.code /\ e.busy = tab.el.busy
      /\ e.revisions = tab.el.revisions /\ e.revisions \in Nat /\ e.drawer = drawer
  BY <1>1 DEF Element
<1> HIDE DEF e
<1>3. ElementInv(tab, visited, e)
  BY <1>1, <1>2, StillFits
<1>4. GoesOn(e)
  BY <1>1, <1>2, ListedIn DEF GoesOn
<1> QED
  BY <1>1, <1>2, <1>3, <1>4, StayClick

LEMMA FoldStep ==
  ASSUME PortalInv, Fold
  PROVE  PortalInv' /\ Forward
BY DrawerClick DEF Fold

--------------------------------------------------------------------------------
(* The element changes, the place stays *)

LEMMA SamePlace ==
  ASSUME PortalInv, NEW e \in Element, tab' = [tab EXCEPT !.el = e],
         UNCHANGED <<owner, code, visited, cookie>>,
         ElementInv(tab, visited, e), GoesOn(e)
  PROVE  /\ tab' \in Tab /\ tab'.el = e /\ tab'.loading = tab.loading
         /\ tab'.at = tab.at /\ Routed(tab)' /\ SignedIn' /\ Forward
         /\ ElementInv(tab, visited, tab.el)'
         /\ \A k : Belongs(tab, visited, k) => Belongs(tab', visited', k)
         /\ \A k : Carries(k) => Carries(k)'
<1>1. /\ tab \in Tab /\ tab' \in Tab /\ tab'.el = e /\ tab'.at = tab.at
      /\ tab'.user = tab.user /\ tab'.loading = tab.loading
      /\ Mounted(tab)' = Mounted(tab) /\ Mounted(tab') = Mounted(tab)
      /\ Routed(tab) /\ SignedIn
  BY Facts DEF Tab, Mounted, PortalInv
<1>2. Routed(tab)' /\ SignedIn'
  BY <1>1 DEF Routed, SignedIn
<1>3. Forward
  <2>1. /\ Listed(tab) = IF Mounted(tab) = "page" /\ tab.el.drawer = "open"
                         THEN 1..tab.el.revisions ELSE {}
        /\ Listed(tab') = IF Mounted(tab) = "page" /\ e.drawer = "open"
                          THEN 1..e.revisions ELSE {}
        /\ tab.el.revisions \in Nat /\ e.revisions \in Nat
    BY <1>1, ListedIn
  <2> QED
    BY <1>1, <2>1 DEF Forward, GoesOn
<1>4. ElementInv(tab, visited, tab.el)'
  BY <1>1 DEF ElementInv, Fits, Invites
<1>5. \A k : Belongs(tab, visited, k) => Belongs(tab', visited', k)
  BY <1>1 DEF Belongs
<1> QED
  BY <1>1, <1>2, <1>3, <1>4, <1>5 DEF Carries

\* Element e replaces the tab's, parts of which are unmounted: no answer finds
\* the callers of these kinds, and the requests D are done.
Drops(e, D, kinds) ==
  /\ D \subseteq Calls /\ kinds \subseteq Kind
  /\ tab' = [tab EXCEPT !.el = e]
  /\ call' = [c \in Calls |-> IF c \in D THEN NoCall ELSE Unmounted(call[c], kinds)]
  /\ UNCHANGED <<sharingVars, registered, cookie, pages, visited>>
  /\ \A kind \in Buttons :
       IF kind \in kinds THEN kind \notin e.busy
       ELSE (kind \in e.busy <=> kind \in tab.el.busy) /\ \A d \in D : ~Waits(d, kind)
  /\ "revisions" \in e.busy => e.revisions = 0

LEMMA DropStep ==
  ASSUME PortalInv, NEW e \in Element, NEW D, NEW kinds, Drops(e, D, kinds),
         ElementInv(tab, visited, e), GoesOn(e)
  PROVE  PortalInv' /\ Forward
<1>1. /\ D \subseteq Calls /\ tab' = [tab EXCEPT !.el = e]
      /\ UNCHANGED <<owner, members, code, registered, cookie, pages, visited>>
      /\ PortalTypeOK
  BY Facts DEF Drops, sharingVars
<1>2. /\ tab' \in Tab /\ tab'.el = e /\ tab'.loading = tab.loading
      /\ tab'.at = tab.at /\ Routed(tab)' /\ SignedIn' /\ Forward
      /\ ElementInv(tab, visited, tab.el)'
      /\ \A k : Belongs(tab, visited, k) => Belongs(tab', visited', k)
      /\ \A k : Carries(k) => Carries(k)'
  BY <1>1, SamePlace
<1>3. /\ call' \in [Calls -> TabCall \union {NoCall}]
      /\ \A c \in D : call'[c] = NoCall
      /\ \A c \in Calls \ D :
           /\ call'[c] # NoCall <=> call[c] # NoCall
           /\ call[c] # NoCall =>
                /\ call'[c].kind = call[c].kind /\ call'[c].wiki = call[c].wiki
                /\ call'[c].code = call[c].code /\ call'[c].at = call[c].at
                /\ call'[c].links = call[c].links
                /\ call'[c].live <=> call[c].live /\ call[c].kind \notin kinds
  BY Facts, Unmounts DEF Drops
<1>4. PortalTypeOK'
  BY <1>1, <1>2, <1>3 DEF PortalTypeOK, Routed
<1>5. CallsInv'
  <2>1. OneMe'
    BY <1>1, <1>3, Facts DEF OneMe, Asking
  <2>2. ASSUME NEW c \in Calls, call'[c] # NoCall
        PROVE  CallInv(c)'
    <3>1. c \notin D /\ call[c] # NoCall /\ CallInv(c)
      BY <1>3, <2>2, Facts
    <3>2. Carries(call[c])' /\ Belongs(tab, visited, call[c])'
      BY <1>1, <1>2, <1>3, <3>1 DEF CallInv, Carries, Belongs
    <3> QED
      BY <1>1, <1>2, <1>3, <3>1, <3>2 DEF CallInv
  <2> QED
    BY <2>1, <2>2 DEF CallsInv, CallInv
<1>6. ButtonsInv'
  <2>1. \A kind \in Buttons : \A c \in Calls :
          Waits(c, kind)' <=> Waits(c, kind) /\ c \notin D /\ kind \notin kinds
    BY <1>3 DEF Waits
  <2>2. ASSUME NEW kind \in Buttons
        PROVE  /\ kind \in tab'.el.busy => \E c \in Calls : Waits(c, kind)'
               /\ \A c \in Calls : Waits(c, kind)' => kind \in tab'.el.busy
               /\ \A c, d \in Calls : Waits(c, kind)' /\ Waits(d, kind)' => c = d
    <3>1. /\ kind \in tab.el.busy => \E c \in Calls : Waits(c, kind)
          /\ \A c \in Calls : Waits(c, kind) => kind \in tab.el.busy
          /\ \A c, d \in Calls : Waits(c, kind) /\ Waits(d, kind) => c = d
      BY DEF PortalInv, ButtonsInv
    <3> QED
      BY <1>2, <2>1, <3>1 DEF Drops
  <2> QED
    BY <1>2, <2>2 DEF ButtonsInv, Drops
<1> QED
  BY <1>2, <1>4, <1>5, <1>6 DEF PortalInv

LEMMA ToggleStep ==
  ASSUME PortalInv, ToggleDrawer
  PROVE  PortalInv' /\ Forward
<1> DEFINE e == [tab.el EXCEPT !.drawer = IF @ = "closed" THEN "folded" ELSE "closed",
                               !.busy = @ \ {"revisions"},
                               !.revisions = 0]
           t == [tab EXCEPT !.el = e]
<1>1. /\ tab \in Tab /\ tab.el \in Element /\ ElementInv(tab, visited, tab.el)
      /\ Routed(tab) /\ tab.at \in visited
  BY Facts DEF PortalInv, PortalTypeOK, ElementInv
<1>2. /\ Show(t) /\ Mounted(tab) = "page"
      /\ call' = [c \in Calls |-> Unmounted(call[c], {"revisions"})]
      /\ UNCHANGED <<sharingVars, registered, cookie, pages>>
  BY <1>1 DEF ToggleDrawer, On, Tab, Element
<1>3. /\ e \in Element /\ e.due = tab.el.due /\ e.title = tab.el.title
      /\ e.links = tab.el.links /\ e.code = tab.el.code
      /\ e.busy = tab.el.busy \ {"revisions"} /\ e.drawer # "open"
  BY <1>1 DEF Element
<1> HIDE DEF e
<1>4. /\ t \in Tab /\ t.at = tab.at /\ t.loading = tab.loading /\ t.user = tab.user
      /\ Mounted(t) = Mounted(tab)
  BY <1>1, <1>3 DEF Tab, Mounted
<1>5. Redirected(t) = t
  BY <1>1, <1>4 DEF Redirected, Routed
<1> HIDE DEF t
<1>6. tab' = t /\ visited' = visited
  BY <1>1, <1>2, <1>4, <1>5 DEF Show, Rendered, Remounts
<1>7. ElementInv(tab, visited, e) /\ GoesOn(e)
  BY <1>1, <1>3, StillFits DEF GoesOn
<1>8. Drops(e, {}, {"revisions"})
  BY <1>2, <1>3, <1>6 DEF Drops, t, Kind
<1> QED
  BY <1>3, <1>7, <1>8, DropStep

--------------------------------------------------------------------------------
(* The tab sends a request *)

\* Element e, which is about to replace the tab's, has sent a request c.
Asks(c, kind, k, e) ==
  /\ call[c] = NoCall
  /\ FetchWith(c, kind, k, [tab EXCEPT !.el = e])
  /\ kind \in Kind \ {"me", "pages"} /\ k \in Codes \union {NoCode}
  /\ Mounted(tab) \in Makers(kind)
  /\ e.due \subseteq tab.el.due /\ e.title = tab.el.title
  /\ e.links = tab.el.links /\ e.code = tab.el.code
  /\ e.revisions = tab.el.revisions
  /\ kind = "revisions" => e.revisions = 0
  /\ IF kind \in Buttons
     THEN kind \notin tab.el.busy /\ e.busy = tab.el.busy \union {kind}
     ELSE e.busy = tab.el.busy
  /\ GoesOn(e)

LEMMA Request ==
  ASSUME PortalInv, NEW kind \in Kind \ {"me", "pages"}, NEW k \in Codes \union {NoCode},
         Mounted(tab) \in Makers(kind)
  PROVE  LET s == Sent(kind, Of(kind), k) IN
         /\ s \in TabCall /\ s # NoCall /\ s.kind = kind /\ s.live
         /\ Carries(s) /\ Belongs(tab, visited, s)
         /\ tab.loading => kind \in {"login", "register"}
         /\ Mounted(tab) # "loading"
<1> DEFINE s == Sent(kind, Of(kind), k)
<1>1. /\ tab \in Tab /\ tab.el \in Element /\ tab.at \in Location
      /\ tab.el.title \in WikiIds \union {NoWiki}
      /\ tab.at.wiki \in WikiIds \union {NoWiki}
      /\ tab.at.page \in WikiIds \union {NoWiki}
      /\ tab.at.name \in {"wiki", "page"} => tab.at.wiki \in WikiIds
      /\ tab.at \in visited
  BY Facts DEF PortalInv, Routed, Element, Location, ElementInv
<1>2. Of(kind) \in WikiIds \union {NoWiki}
  BY <1>1 DEF Of
<1>3. /\ s.kind = kind /\ s.live /\ s.wiki = Of(kind) /\ s.at \in {"sent", "no"}
      /\ s.at # "ok" /\ s \in TabCall
  BY <1>2 DEF Sent, TabCall
<1> HIDE DEF s
<1>4. s # NoCall
  BY <1>3
<1>5. /\ Mounted(tab) # "loading"
      /\ kind \in {"newpage", "share"} => tab.at.wiki \in WikiIds
  BY <1>1, MountedName DEF Makers, Kind, Protected
<1>6. Carries(s)
  BY <1>3, <1>5 DEF Carries, Of
<1>7. Belongs(tab, visited, s)
  BY <1>1, <1>3 DEF Belongs, Of, WikisIn, PagesIn
<1>8. tab.loading => kind \in {"login", "register"}
  BY <1>1, MountedName DEF Makers, Kind, Public, Protected
<1> QED
  BY <1>3, <1>4, <1>5, <1>6, <1>7, <1>8 DEF s

LEMMA AskStep ==
  ASSUME PortalInv, NEW c \in Calls, NEW kind, NEW k, NEW e \in Element,
         Asks(c, kind, k, e)
  PROVE  PortalInv' /\ Forward
<1> DEFINE s == Sent(kind, Of(kind), k)
<1>1. /\ kind \in Kind \ {"me", "pages"} /\ k \in Codes \union {NoCode}
      /\ Mounted(tab) \in Makers(kind)
      /\ tab' = [tab EXCEPT !.el = e] /\ call' = [call EXCEPT ![c] = s]
      /\ call[c] = NoCall /\ PortalTypeOK
      /\ call \in [Calls -> TabCall \union {NoCall}]
      /\ UNCHANGED <<owner, members, code, registered, cookie, pages, visited>>
  BY Facts DEF Asks, FetchWith, sharingVars
<1>2. /\ s \in TabCall /\ s # NoCall /\ s.kind = kind /\ s.live
      /\ Carries(s) /\ Belongs(tab, visited, s)
      /\ tab.loading => kind \in {"login", "register"}
      /\ ~(tab.loading /\ tab.at.name \in Protected)
  BY <1>1, Request, Facts, MountedName
<1> HIDE DEF s
<1>3. ElementInv(tab, visited, e)
  BY StillFits DEF PortalInv, Asks
<1>4. /\ tab' \in Tab /\ tab'.el = e /\ tab'.loading = tab.loading
      /\ tab'.at = tab.at /\ Routed(tab)' /\ SignedIn' /\ Forward
      /\ ElementInv(tab, visited, tab.el)'
      /\ \A x : Belongs(tab, visited, x) => Belongs(tab', visited', x)
      /\ \A x : Carries(x) => Carries(x)'
  BY <1>1, <1>3, SamePlace DEF Asks
<1>5. call' \in [Calls -> TabCall \union {NoCall}]
      /\ \A d \in Calls : call'[d] = IF d = c THEN s ELSE call[d]
  BY <1>1, <1>2
<1>6. PortalTypeOK'
  BY <1>1, <1>4, <1>5 DEF PortalTypeOK, Routed
<1>7. CallsInv'
  <2>1. OneMe'
    BY <1>1, <1>2, <1>5, Facts DEF OneMe, Asking
  <2>2. ASSUME NEW d \in Calls, call'[d] # NoCall
        PROVE  CallInv(d)'
    <3>1. CASE d = c
      <4>1. Carries(call[d])' /\ Belongs(tab, visited, call[d])'
        BY <1>2, <1>4, <1>5, <3>1 DEF Carries, Belongs
      <4> QED
        BY <1>1, <1>2, <1>4, <1>5, <3>1, <4>1 DEF CallInv
    <3>2. CASE d # c
      <4>1. CallInv(d) /\ call'[d] = call[d] /\ call[d] # NoCall
        BY <1>5, <2>2, <3>2, Facts
      <4>2. Carries(call[d])' /\ Belongs(tab, visited, call[d])'
        BY <1>4, <4>1 DEF CallInv, Carries, Belongs
      <4> QED
        BY <1>1, <1>4, <4>1, <4>2 DEF CallInv
    <3> QED
      BY <3>1, <3>2
  <2> QED
    BY <2>1, <2>2 DEF CallsInv, CallInv
<1>8. ButtonsInv'
  <2>1. \A d \in Calls : \A x \in Buttons :
          Waits(d, x)' <=> IF d = c THEN x = kind ELSE Waits(d, x)
    BY <1>2, <1>5 DEF Waits
  <2>2. \A x \in Buttons : ~Waits(c, x)
    BY <1>1 DEF Waits
  <2>3. ASSUME NEW x \in Buttons
        PROVE  /\ x \in tab'.el.busy => \E d \in Calls : Waits(d, x)'
               /\ \A d \in Calls : Waits(d, x)' => x \in tab'.el.busy
               /\ \A d, f \in Calls : Waits(d, x)' /\ Waits(f, x)' => d = f
    <3>1. /\ x \in tab.el.busy => \E d \in Calls : Waits(d, x)
          /\ \A d \in Calls : Waits(d, x) => x \in tab.el.busy
          /\ \A d, f \in Calls : Waits(d, x) /\ Waits(f, x) => d = f
      BY DEF PortalInv, ButtonsInv
    <3>2. IF kind \in Buttons
          THEN kind \notin tab.el.busy /\ e.busy = tab.el.busy \union {kind}
          ELSE e.busy = tab.el.busy
      BY DEF Asks
    <3> QED
      BY <1>4, <2>1, <2>2, <3>1, <3>2
  <2>4. "revisions" \in e.busy => e.revisions = 0
    BY DEF Asks, PortalInv, ButtonsInv
  <2> QED
    BY <1>4, <2>3, <2>4 DEF ButtonsInv
<1> QED
  BY <1>4, <1>6, <1>7, <1>8 DEF PortalInv

LEMMA LoadStep ==
  ASSUME PortalInv, NEW c \in Calls, Load(c)
  PROVE  PortalInv' /\ Forward
<1>1. PICK kind \in tab.el.due : Fetch(c, kind, [tab EXCEPT !.el.due = @ \ {kind}])
  BY DEF Load
<1> DEFINE e == [tab.el EXCEPT !.due = @ \ {kind}]
<1>2. /\ tab \in Tab /\ tab.el \in Element /\ tab.el.due \subseteq Effects(Mounted(tab))
      /\ FetchWith(c, kind, NoCode, [tab EXCEPT !.el = e])
  BY <1>1, Facts DEF PortalInv, ElementInv, Fetch
<1>3. /\ e \in Element /\ e.due = tab.el.due \ {kind} /\ e.title = tab.el.title
      /\ e.links = tab.el.links /\ e.code = tab.el.code /\ e.busy = tab.el.busy
      /\ e.revisions = tab.el.revisions /\ e.revisions \in Nat
  BY <1>2 DEF Element
<1> HIDE DEF e
<1>4. Mounted(tab) \in Makers(kind) /\ kind \in {"list", "wiki", "page"}
  BY <1>2 DEF Makers, Effects
<1>5. Asks(c, kind, NoCode, e)
  BY <1>2, <1>3, <1>4 DEF Asks, FetchWith, GoesOn, Kind, Buttons
<1> QED
  BY <1>3, <1>5, AskStep

\* A button is pressed on the element called name.
LEMMA SubmitStep ==
  ASSUME PortalInv, NEW c \in Calls, NEW k \in Codes \union {NoCode},
         NEW kind \in Buttons \ {"revisions"}, Ready(Mounted(tab), kind),
         Mounted(tab) \in Makers(kind),
         FetchWith(c, kind, k, [tab EXCEPT !.el.busy = @ \union {kind}])
  PROVE  PortalInv' /\ Forward
<1> DEFINE e == [tab.el EXCEPT !.busy = @ \union {kind}]
<1>1. /\ tab \in Tab /\ tab.el \in Element /\ kind \notin tab.el.busy
      /\ FetchWith(c, kind, k, [tab EXCEPT !.el = e])
  BY Facts DEF Ready
<1>2. /\ e \in Element /\ e.due = tab.el.due /\ e.title = tab.el.title
      /\ e.links = tab.el.links /\ e.code = tab.el.code
      /\ e.busy = tab.el.busy \union {kind}
      /\ e.revisions = tab.el.revisions /\ e.revisions \in Nat
  BY <1>1 DEF Element, Buttons
<1> HIDE DEF e
<1>3. Asks(c, kind, k, e)
  BY <1>1, <1>2 DEF Asks, FetchWith, GoesOn, Kind, Buttons
<1> QED
  BY <1>2, <1>3, AskStep

\* A request without a button of its own.
LEMMA PlainStep ==
  ASSUME PortalInv, NEW c \in Calls, NEW kind \in {"logout", "list"},
         Mounted(tab) \in Makers(kind), Fetch(c, kind, tab)
  PROVE  PortalInv' /\ Forward
<1>1. tab \in Tab /\ tab.el \in Element /\ tab.el.revisions \in Nat
  BY Facts DEF Element
<1>2. [tab EXCEPT !.el = tab.el] = tab
  BY <1>1 DEF Tab
<1>3. Asks(c, kind, NoCode, tab.el)
  BY <1>1, <1>2 DEF Asks, Fetch, FetchWith, GoesOn, Kind, Buttons
<1> QED
  BY <1>1, <1>3, AskStep

LEMMA UnfoldStep ==
  ASSUME PortalInv, NEW c \in Calls, Unfold(c)
  PROVE  PortalInv' /\ Forward
<1>1. CASE Click([tab EXCEPT !.el.drawer = "open"])
  BY <1>1, DrawerClick DEF Unfold
<1>2. CASE ~Click([tab EXCEPT !.el.drawer = "open"])
  <2> DEFINE e == [tab.el EXCEPT !.drawer = "open", !.busy = @ \union {"revisions"}]
  <2>1. /\ tab \in Tab /\ tab.el \in Element /\ "revisions" \notin tab.el.busy
        /\ tab.el.drawer = "folded" /\ tab.el.revisions = 0 /\ Mounted(tab) = "page"
        /\ FetchWith(c, "revisions", NoCode, [tab EXCEPT !.el = e])
    BY <1>2, Facts DEF Unfold, Fetch, On, Tab, Element
  <2>2. /\ e \in Element /\ e.due = tab.el.due /\ e.title = tab.el.title
        /\ e.links = tab.el.links /\ e.code = tab.el.code
        /\ e.busy = tab.el.busy \union {"revisions"}
        /\ e.revisions = 0
    BY <2>1 DEF Element, Kind
  <2> HIDE DEF e
  <2>3. Asks(c, "revisions", NoCode, e)
    BY <2>1, <2>2 DEF Asks, FetchWith, GoesOn, Kind, Buttons, Makers
  <2> QED
    BY <2>2, <2>3, AskStep
<1> QED
  BY <1>1, <1>2

LEMMA UserStep ==
  ASSUME PortalInv, NEW c \in Calls, User(c)
  PROVE  PortalInv' /\ Forward
<1>1. CASE SubmitLogin(c) \/ SubmitRegister(c) \/ SubmitWiki(c) \/ SubmitPage(c) \/ Share(c)
  <2>1. PICK kind \in {"login", "register", "create", "newpage", "share"} :
          /\ Ready(Mounted(tab), kind) /\ Mounted(tab) \in Makers(kind)
          /\ FetchWith(c, kind, NoCode, [tab EXCEPT !.el.busy = @ \union {kind}])
    BY <1>1 DEF SubmitLogin, SubmitRegister, SubmitWiki, SubmitPage, Share, Submit,
                Fetch, Ready, On, Makers
  <2> QED
    BY <2>1, SubmitStep DEF Buttons, Kind
<1>2. CASE SubmitCode(c)
  <2>1. PICK k \in Codes :
          /\ Ready("dashboard", "join")
          /\ FetchWith(c, "join", k, [tab EXCEPT !.el.busy = @ \union {"join"}])
    BY <1>2 DEF SubmitCode
  <2>2. Mounted(tab) = "dashboard" /\ Mounted(tab) \in Makers("join")
    BY <2>1 DEF Ready, On, Makers
  <2> QED
    BY <2>1, <2>2, SubmitStep DEF Buttons, Kind
<1>3. CASE Logout(c) \/ Refresh(c)
  <2>1. PICK kind \in {"logout", "list"} :
          Mounted(tab) \in Makers(kind) /\ Fetch(c, kind, tab)
    BY <1>3 DEF Logout, Refresh, On, Makers
  <2> QED
    BY <2>1, PlainStep
<1> QED
  BY <1>1, <1>2, <1>3, LoadStep, UnfoldStep DEF User

--------------------------------------------------------------------------------
(* The server and other users *)

\* An owner and a code are there for good.
Lasting ==
  \A w \in WikiIds :
    /\ owner[w] # Nobody => owner'[w] = owner[w]
    /\ code[w] # NoCode => code'[w] = code[w]

Tables ==
  /\ owner' \in [WikiIds -> Users \union {Nobody}]
  /\ members' \subseteq WikiIds \X Users
  /\ code' \in [WikiIds -> Codes \union {NoCode}]

LEMMA FoundLasts ==
  ASSUME PortalInv, NEW u \in Users, NEW w \in WikiIds, Found(u, w)
  PROVE  Lasting /\ Tables
BY Facts DEF Found, PortalTypeOK, Lasting, Tables

LEMMA PublishLasts ==
  ASSUME PortalInv, NEW w \in WikiIds, NEW k \in Codes, Publish(w, k)
  PROVE  Lasting /\ Tables /\ code'[w] = k
BY Facts DEF Publish, PortalTypeOK, Lasting, Tables

LEMMA JoinLasts ==
  ASSUME PortalInv, NEW u \in Users, NEW w \in WikiIds, Join(u, w)
  PROVE  Lasting /\ Tables
BY Facts DEF Join, PortalTypeOK, Lasting, Tables

LEMMA SameLasts ==
  ASSUME PortalInv, UNCHANGED sharingVars
  PROVE  Lasting /\ Tables
BY Facts DEF sharingVars, PortalTypeOK, Lasting, Tables

LEMMA CarriesOn ==
  ASSUME Lasting, NEW k, Carries(k)
  PROVE  Carries(k)'
BY DEF Lasting, Carries

\* What the tab shows is not touched, request c becomes k.
LEMMA ServedStep ==
  ASSUME PortalInv, Lasting, Tables, NEW c \in Calls, NEW k \in TabCall,
         call[c] # NoCall, call' = [call EXCEPT ![c] = k],
         k.kind = call[c].kind, k.live = call[c].live,
         k.wiki = call[c].wiki \/ k.kind \in {"create", "join"},
         k.kind = "me" /\ k.at # "no" => call[c].at # "no",
         Carries(k)',
         registered' \in BOOLEAN, pages' \in [WikiIds -> Nat],
         UNCHANGED <<cookie, tab, visited>>
  PROVE  PortalInv' /\ Forward
<1>1. /\ PortalTypeOK /\ Routed(tab) /\ CallInv(c)
      /\ k # NoCall /\ call' \in [Calls -> TabCall \union {NoCall}]
      /\ \A d \in Calls : call'[d] = IF d = c THEN k ELSE call[d]
  BY Facts DEF PortalInv
<1>2. PortalTypeOK' /\ Routed(tab)' /\ SignedIn'
  BY <1>1 DEF PortalTypeOK, Tables, Routed, PortalInv, SignedIn
<1>3. OneMe'
  BY <1>1, Facts DEF OneMe, Asking
<1>4. ASSUME NEW d \in Calls, call'[d] # NoCall
      PROVE  CallInv(d)'
  <2>1. CASE d = c
    <3>1. Carries(call[d])'
      BY <1>1, <2>1 DEF Carries
    <3>2. Belongs(tab, visited, call[d])'
      BY <1>1, <2>1 DEF CallInv, Belongs, Mounted
    <3> QED
      BY <1>1, <2>1, <3>1, <3>2 DEF CallInv
  <2>2. CASE d # c
    <3>1. CallInv(d) /\ call'[d] = call[d] /\ call[d] # NoCall
      BY <1>1, <1>4, <2>2, Facts
    <3>2. Carries(call[d])' /\ Belongs(tab, visited, call[d])'
      BY <3>1, CarriesOn DEF CallInv, Carries, Belongs, Mounted
    <3> QED
      BY <3>1, <3>2 DEF CallInv
  <2> QED
    BY <2>1, <2>2
<1>5. ElementInv(tab, visited, tab.el)'
  BY DEF PortalInv, ElementInv, Fits, Invites, Lasting, Mounted
<1>6. ButtonsInv'
  <2>1. \A d \in Calls : \A x \in Buttons : Waits(d, x)' <=> Waits(d, x)
    BY <1>1 DEF Waits
  <2> QED
    BY <2>1 DEF PortalInv, ButtonsInv
<1>7. Forward
  BY DEF Forward, Listed, Mounted
<1> QED
  BY <1>2, <1>3, <1>4, <1>5, <1>6, <1>7 DEF PortalInv, CallsInv, CallInv

LEMMA OutsideStep ==
  ASSUME PortalInv, Lasting, Tables, pages' \in [WikiIds -> Nat],
         UNCHANGED <<registered, cookie, tab, call, visited>>
  PROVE  PortalInv' /\ Forward
<1>1. PortalTypeOK' /\ Routed(tab)' /\ SignedIn'
  BY Facts DEF PortalTypeOK, Tables, PortalInv, Routed, SignedIn
<1>2. ASSUME NEW c \in Calls, call'[c] # NoCall
      PROVE  CallInv(c)'
  <2>1. CallInv(c) /\ call[c] # NoCall
    BY <1>2, Facts
  <2>2. Carries(call[c])' /\ Belongs(tab, visited, call[c])'
    BY <2>1, CarriesOn DEF CallInv, Carries, Belongs, Mounted
  <2> QED
    BY <2>1, <2>2 DEF CallInv
<1>3. OneMe' /\ ButtonsInv'
  BY DEF PortalInv, CallsInv, OneMe, Asking, ButtonsInv, Waits
<1>4. ElementInv(tab, visited, tab.el)'
  BY DEF PortalInv, ElementInv, Fits, Invites, Lasting, Mounted
<1>5. Forward
  BY DEF Forward, Listed, Mounted
<1> QED
  BY <1>1, <1>2, <1>3, <1>4, <1>5 DEF PortalInv, CallsInv, CallInv

LEMMA PeersStep ==
  ASSUME PortalInv, Peers \/ \E w \in WikiIds : PageSaved(w)
  PROVE  PortalInv' /\ Forward
<1>1. pages \in [WikiIds -> Nat]
  BY Facts DEF PortalTypeOK
<1>2. CASE Peers
  BY <1>1, <1>2, FoundLasts, PublishLasts, OutsideStep DEF Peers, tabVars
<1>3. CASE \E w \in WikiIds : PageSaved(w)
  BY <1>1, <1>3, SameLasts, OutsideStep DEF PageSaved
<1> QED
  BY <1>2, <1>3

LEMMA FailStep ==
  ASSUME PortalInv, NEW c \in Calls, Fail(c)
  PROVE  PortalInv' /\ Forward
<1>1. /\ call[c] # NoCall /\ call[c] \in TabCall /\ CallInv(c)
      /\ UNCHANGED <<sharingVars, registered, cookie, pages, tab, visited>>
      /\ registered \in BOOLEAN /\ pages \in [WikiIds -> Nat]
  BY Facts DEF Fail, PortalTypeOK
<1>2. [call[c] EXCEPT !.at = "no", !.code = NoCode, !.links = {}, !.revisions = 0]
        \in TabCall
  BY <1>1 DEF TabCall
<1>3. PICK k \in TabCall :
        k = [call[c] EXCEPT !.at = "no", !.code = NoCode, !.links = {}, !.revisions = 0]
  BY <1>2
<1>4. call' = [call EXCEPT ![c] = k]
  BY <1>3 DEF Fail
<1>5. /\ k.kind = call[c].kind /\ k.live = call[c].live
      /\ k.wiki = call[c].wiki /\ k.at = "no" /\ k.links = {}
  BY <1>1, <1>3 DEF TabCall
<1>6. Lasting /\ Tables
  BY <1>1, SameLasts
<1>7. Carries(k)
  BY <1>1, <1>5 DEF CallInv, Carries
<1>8. Carries(k)'
  BY <1>6, <1>7, CarriesOn
<1> QED
  BY <1>1, <1>4, <1>5, <1>6, <1>8, ServedStep

\* An answer that has no code and names the wiki of its request.
LEMMA AnswerStep ==
  ASSUME PortalInv, NEW c \in Calls, call[c] # NoCall, call[c].at = "sent",
         call[c].kind \notin {"create", "join", "share"},
         NEW links \in SUBSET WikiIds, NEW revisions \in Nat,
         call[c].kind = "pages" => links \subseteq {call[c].wiki},
         call' = [call EXCEPT ![c] =
                    [call[c] EXCEPT !.at = "ok", !.links = links, !.revisions = revisions]],
         registered' \in BOOLEAN, pages' \in [WikiIds -> Nat],
         UNCHANGED <<sharingVars, cookie, tab, visited>>
  PROVE  PortalInv' /\ Forward
<1>1. call[c] \in TabCall /\ CallInv(c)
  BY Facts
<1>2. [call[c] EXCEPT !.at = "ok", !.links = links, !.revisions = revisions] \in TabCall
  BY <1>1 DEF TabCall
<1>3. PICK k \in TabCall :
        k = [call[c] EXCEPT !.at = "ok", !.links = links, !.revisions = revisions]
  BY <1>2
<1>4. call' = [call EXCEPT ![c] = k]
  BY <1>3
<1>5. /\ k.kind = call[c].kind /\ k.live = call[c].live
      /\ k.wiki = call[c].wiki /\ k.links = links
  BY <1>1, <1>3 DEF TabCall
<1>6. Lasting /\ Tables
  BY SameLasts
<1>7. Carries(k)
  BY <1>1, <1>5 DEF CallInv, Carries
<1>8. Carries(k)'
  BY <1>6, <1>7, CarriesOn
<1> QED
  BY <1>4, <1>5, <1>6, <1>8, ServedStep

LEMMA ServeReadStep ==
  ASSUME PortalInv, NEW c \in Calls, call[c] # NoCall, call[c].at = "sent",
         ServeSession(c) \/ ServeList(c) \/ ServePages(c),
         UNCHANGED <<sharingVars, cookie, tab, visited>>
  PROVE  PortalInv' /\ Forward
<1>1. /\ call[c] \in TabCall /\ call \in [Calls -> TabCall \union {NoCall}]
      /\ call[c].links \in SUBSET WikiIds /\ call[c].revisions \in Nat
      /\ CallInv(c) /\ registered \in BOOLEAN /\ pages \in [WikiIds -> Nat]
  BY Facts DEF PortalTypeOK, TabCall
<1>2. /\ call[c].kind = "pages" => call[c].links \subseteq {call[c].wiki}
      /\ Accessible \in SUBSET WikiIds
  BY <1>1 DEF CallInv, Carries, Accessible
<1>3. Answer(c) => call' = [call EXCEPT ![c] =
        [call[c] EXCEPT !.at = "ok", !.links = call[c].links,
                        !.revisions = call[c].revisions]]
  BY <1>1 DEF Answer, TabCall
<1>4. CASE ServeSession(c)
  <2>1. /\ call[c].kind \notin {"create", "join", "share", "pages"}
        /\ registered' \in BOOLEAN /\ Answer(c) /\ UNCHANGED pages
    BY <1>1, <1>4 DEF ServeSession
  <2> QED
    BY <1>1, <1>2, <1>3, <2>1, AnswerStep
<1>5. CASE ServeList(c)
  <2>1. PICK links \in SUBSET WikiIds : links = Accessible
    BY <1>2
  <2>2. call' = [call EXCEPT ![c] =
          [call[c] EXCEPT !.at = "ok", !.links = links,
                          !.revisions = call[c].revisions]]
    BY <1>1, <1>5, <2>1 DEF ServeList, TabCall
  <2>3. call[c].kind = "list" /\ UNCHANGED <<registered, pages>>
    BY <1>5 DEF ServeList
  <2> QED
    BY <1>1, <2>2, <2>3, AnswerStep
<1>6. CASE ServePages(c)
  <2> DEFINE w == call[c].wiki
  <2>1. w \in WikiIds /\ UNCHANGED registered
    BY <1>6 DEF ServePages, Accessible
  <2>2. CASE Answer(c) /\ UNCHANGED pages /\ call[c].kind \in {"wiki", "page"}
    BY <1>1, <1>2, <1>3, <2>1, <2>2, AnswerStep
  <2>3. CASE /\ Answer(c) /\ call[c].kind = "newpage"
             /\ pages' = [pages EXCEPT ![w] = 1]
    <3>1. pages' \in [WikiIds -> Nat]
      BY <1>1, <2>1, <2>3
    <3> QED
      BY <1>1, <1>2, <1>3, <2>1, <2>3, <3>1, AnswerStep
  <2>4. CASE /\ call[c].kind = "pages" /\ UNCHANGED pages
             /\ call' = [call EXCEPT ![c].at = "ok",
                                     ![c].links = {v \in {w} : pages[v] > 0}]
    <3>1. PICK links \in SUBSET WikiIds : links = {v \in {w} : pages[v] > 0}
      BY <2>1
    <3>2. call' = [call EXCEPT ![c] =
            [call[c] EXCEPT !.at = "ok", !.links = links,
                            !.revisions = call[c].revisions]]
      BY <1>1, <2>4, <3>1 DEF TabCall
    <3>3. links \subseteq {call[c].wiki}
      BY <3>1
    <3> QED
      BY <1>1, <2>1, <2>4, <3>2, <3>3, AnswerStep
  <2>5. CASE /\ call[c].kind = "revisions" /\ UNCHANGED pages
             /\ call' = [call EXCEPT ![c].at = "ok", ![c].revisions = pages[w]]
    <3>1. PICK revisions \in Nat : revisions = pages[w]
      BY <1>1, <2>1
    <3>2. call' = [call EXCEPT ![c] =
            [call[c] EXCEPT !.at = "ok", !.links = call[c].links,
                            !.revisions = revisions]]
      BY <1>1, <2>5, <3>1 DEF TabCall
    <3>3. PICK links \in SUBSET WikiIds : links = call[c].links
      BY <1>1
    <3>4. /\ call[c].kind \notin {"create", "join", "share", "pages"}
          /\ registered' \in BOOLEAN /\ pages' \in [WikiIds -> Nat]
      BY <1>1, <2>1, <2>5
    <3>5. call' = [call EXCEPT ![c] =
            [call[c] EXCEPT !.at = "ok", !.links = links, !.revisions = revisions]]
      BY <3>2, <3>3
    <3> QED
      BY <3>4, <3>5, AnswerStep
  <2> QED
    BY <1>6, <2>2, <2>3, <2>4, <2>5 DEF ServePages
<1> QED
  BY <1>4, <1>5, <1>6

LEMMA ServeSharingStep ==
  ASSUME PortalInv, NEW c \in Calls, call[c] # NoCall, call[c].at = "sent",
         ServeSharing(c), UNCHANGED <<cookie, tab, visited>>
  PROVE  PortalInv' /\ Forward
<1>1. /\ call[c] \in TabCall /\ CallInv(c)
      /\ registered \in BOOLEAN /\ pages \in [WikiIds -> Nat]
      /\ code \in [WikiIds -> Codes \union {NoCode}]
      /\ UNCHANGED <<registered, pages>>
  BY Facts DEF PortalTypeOK, ServeSharing
<1>2. ASSUME NEW w \in WikiIds, call[c].kind \in {"create", "join"}, Lasting, Tables,
             call' = [call EXCEPT ![c].at = "ok", ![c].wiki = w]
      PROVE  PortalInv' /\ Forward
  <2>1. [call[c] EXCEPT !.at = "ok", !.wiki = w] \in TabCall
    BY <1>1 DEF TabCall
  <2>2. PICK k \in TabCall : k = [call[c] EXCEPT !.at = "ok", !.wiki = w]
    BY <2>1
  <2>3. call' = [call EXCEPT ![c] = k]
    BY <1>1, <1>2, <2>2 DEF TabCall
  <2>4. k.kind = call[c].kind /\ k.live = call[c].live /\ k.wiki = w
    BY <1>1, <2>2 DEF TabCall
  <2>5. Carries(k)'
    BY <1>2, <2>4 DEF Carries
  <2> QED
    BY <1>1, <1>2, <2>3, <2>4, <2>5, ServedStep
<1>3. CASE \E w \in WikiIds :
             /\ call[c].kind = "create" /\ Found(Me, w)
             /\ call' = [call EXCEPT ![c].at = "ok", ![c].wiki = w]
  BY <1>2, <1>3, FoundLasts
<1>4. CASE \E w \in WikiIds :
             /\ call[c].kind = "join" /\ Join(Me, w)
             /\ call' = [call EXCEPT ![c].at = "ok", ![c].wiki = w]
  BY <1>2, <1>4, JoinLasts
<1>5. CASE /\ call[c].kind = "share" /\ owner[call[c].wiki] = Me
           /\ \/ code[call[c].wiki] # NoCode /\ UNCHANGED sharingVars
              \/ \E k \in Codes : Publish(call[c].wiki, k)
           /\ call' = [call EXCEPT ![c].at = "ok", ![c].code = code'[call[c].wiki]]
  <2>1. PICK w \in WikiIds : w = call[c].wiki
    BY <1>1, <1>5 DEF CallInv, Carries
  <2>2. Lasting /\ Tables /\ code'[w] \in Codes
    <3>1. CASE code[w] # NoCode /\ UNCHANGED sharingVars
      BY <1>1, <3>1, SameLasts DEF sharingVars
    <3>2. CASE \E k \in Codes : Publish(w, k)
      BY <3>2, PublishLasts
    <3> QED
      BY <1>5, <2>1, <3>1, <3>2
  <2>3. PICK x \in Codes : x = code'[w]
    BY <2>2
  <2>4. [call[c] EXCEPT !.at = "ok", !.code = x] \in TabCall
    BY <1>1 DEF TabCall
  <2>5. PICK k \in TabCall : k = [call[c] EXCEPT !.at = "ok", !.code = x]
    BY <2>4
  <2>6. call' = [call EXCEPT ![c] = k]
    BY <1>1, <1>5, <2>1, <2>3, <2>5 DEF TabCall
  <2>7. /\ k.kind = "share" /\ k.kind = call[c].kind /\ k.live = call[c].live
        /\ k.wiki = w /\ k.wiki = call[c].wiki /\ k.code = x /\ x # NoCode
    BY <1>1, <1>5, <2>1, <2>5 DEF TabCall
  <2>8. owner'[w] = Me
    BY <1>5, <2>1, <2>2 DEF Lasting
  <2>9. Carries(k)'
    BY <2>3, <2>7, <2>8 DEF Carries
  <2> QED
    BY <1>1, <2>2, <2>6, <2>7, <2>9, ServedStep
<1> QED
  BY <1>3, <1>4, <1>5 DEF ServeSharing

LEMMA ServeStep ==
  ASSUME PortalInv, NEW c \in Calls, ServeTab(c)
  PROVE  PortalInv' /\ Forward
BY ServeReadStep, ServeSharingStep DEF ServeTab

--------------------------------------------------------------------------------
(* An answer reaches the tab *)

LEMMA Closing ==
  ASSUME PortalInv, NEW c \in Calls, call[c] # NoCall
  PROVE  LET e == Closed(c) IN
         /\ e \in Element /\ e.due = tab.el.due /\ e.title = tab.el.title
         /\ e.links = tab.el.links /\ e.code = tab.el.code
         /\ e.revisions = tab.el.revisions /\ e.drawer = tab.el.drawer
         /\ e.error = tab.el.error
         /\ e.busy = IF call[c].live THEN tab.el.busy \ {call[c].kind} ELSE tab.el.busy
BY Facts DEF Closed, Element

LEMMA ClosingEnds ==
  ASSUME PortalInv, NEW c \in Calls, call[c] # NoCall, NEW e,
         e.busy = Closed(c).busy,
         "revisions" \in e.busy => e.revisions = tab.el.revisions
  PROVE  Ends(e, {c})
<1>1. /\ e.busy = IF call[c].live THEN tab.el.busy \ {call[c].kind} ELSE tab.el.busy
      /\ call[c].live \in BOOLEAN
  BY Closing, Facts DEF TabCall
<1>2. \A kind : Waits(c, kind) <=> call[c].live /\ call[c].kind = kind
  BY DEF Waits
<1>3. "revisions" \in e.busy => e.revisions = 0
  BY <1>1 DEF PortalInv, ButtonsInv
<1> QED
  BY <1>1, <1>2, <1>3 DEF Ends

LEMMA FinishShows ==
  ASSUME PortalInv, NEW c \in Calls, NEW t, Finish(c, t)
  PROVE  Shows(t, {c})
<1>1. call' = [d \in Calls |-> IF d \in {c} THEN NoCall ELSE StillLive(t, call[d])]
  BY DEF Finish
<1> QED
  BY <1>1 DEF Finish, Shows

LEMMA DeliverMeStep ==
  ASSUME PortalInv, NEW c \in Calls, call[c] # NoCall, call[c].at \in {"ok", "no"},
         DeliverMe(c)
  PROVE  PortalInv' /\ Forward
<1> DEFINE t == [tab EXCEPT !.user = Good(c), !.loading = FALSE]
<1>1. /\ tab \in Tab /\ tab.el \in Element /\ Routed(tab) /\ CallInv(c) /\ OneMe
      /\ cookie \in BOOLEAN /\ ElementInv(tab, visited, tab.el)
      /\ call[c].kind = "me"
  BY Facts DEF PortalInv, PortalTypeOK, DeliverMe
<1>2. /\ t \in Tab /\ t.at = tab.at /\ t.el = tab.el /\ t.loading = FALSE
      /\ t.user = Good(c)
  BY <1>1 DEF Tab, Good
<1>3. Finish(c, t) /\ UNCHANGED cookie
  BY DEF DeliverMe
<1> HIDE DEF t
<1>4. Shows(t, {c})
  BY <1>3, FinishShows
<1>5. \A d \in Calls \ {c} : ~Asking(d)
  BY <1>1 DEF OneMe, Asking
<1>6. t.user => cookie
  BY <1>1, <1>2 DEF CallInv, Good
<1>7. Ends(t.el, {c})
  <2>1. \A kind \in Buttons : ~Waits(c, kind)
    BY <1>1 DEF Waits, Buttons
  <2> QED
    BY <1>2, <2>1 DEF Ends, PortalInv, ButtonsInv
<1>8. GoesOn(t.el)
  BY <1>1, <1>2 DEF GoesOn, Element
<1>9. ShowsWell(t, {c})
  BY <1>1, <1>2, <1>3, <1>4, <1>5, <1>6, <1>7, <1>8 DEF ShowsWell, Routed
<1> QED
  BY <1>9, ShowStep

\* The answer to c changes the element to e and the tab stays.
LEMMA FilledStep ==
  ASSUME PortalInv, NEW c \in Calls, call[c] # NoCall, NEW e \in Element,
         Finish(c, [tab EXCEPT !.el = e]), UNCHANGED cookie,
         ElementInv(tab, visited, e), Ends(e, {c}), GoesOn(e)
  PROVE  PortalInv' /\ Forward
<1> DEFINE t == [tab EXCEPT !.el = e]
<1>1. /\ tab \in Tab /\ Routed(tab) /\ SignedIn /\ cookie \in BOOLEAN
  BY Facts DEF PortalInv, PortalTypeOK
<1>2. /\ t \in Tab /\ t.at = tab.at /\ t.el = e /\ t.loading = tab.loading
      /\ t.user = tab.user
  BY <1>1 DEF Tab
<1>3. Finish(c, t)
  OBVIOUS
<1> HIDE DEF t
<1>4. Shows(t, {c})
  BY <1>3, FinishShows
<1>5. ShowsWell(t, {c})
  BY <1>1, <1>2, <1>4 DEF ShowsWell, Routed, SignedIn
<1> QED
  BY <1>5, ShowStep

LEMMA Filling ==
  ASSUME PortalInv, NEW c \in Calls, call[c] # NoCall, call[c].live, Good(c),
         call[c].kind \in {"list", "pages", "share", "revisions", "page"}
  PROVE  LET e == Filled(c, Closed(c)) IN
         /\ e \in Element /\ e.due = tab.el.due /\ e.busy = tab.el.busy \ {call[c].kind}
         /\ e.drawer = tab.el.drawer
         /\ e.links = IF call[c].kind \in {"list", "pages"} THEN call[c].links
                      ELSE tab.el.links
         /\ e.code = IF call[c].kind = "share" THEN call[c].code ELSE tab.el.code
         /\ e.revisions = IF call[c].kind = "revisions" THEN call[c].revisions
                          ELSE tab.el.revisions
         /\ e.title \in IF call[c].kind = "page" THEN {call[c].wiki, tab.el.title}
                        ELSE {tab.el.title}
<1> DEFINE f == Closed(c)
<1>1. /\ f \in Element /\ f.due = tab.el.due /\ f.title = tab.el.title
      /\ f.links = tab.el.links /\ f.code = tab.el.code
      /\ f.revisions = tab.el.revisions /\ f.drawer = tab.el.drawer
      /\ f.busy = tab.el.busy \ {call[c].kind}
  BY Closing
<1>2. /\ call[c].links \in SUBSET WikiIds /\ call[c].code \in Codes \union {NoCode}
      /\ call[c].revisions \in Nat /\ call[c].wiki \in WikiIds \union {NoWiki}
  BY Facts DEF TabCall
<1> HIDE DEF f
<1>3. CASE call[c].kind \in {"list", "pages"}
  BY <1>1, <1>2, <1>3 DEF Filled, Element, f
<1>4. CASE call[c].kind = "share"
  BY <1>1, <1>2, <1>4 DEF Filled, Element, f
<1>5. CASE call[c].kind = "revisions"
  BY <1>1, <1>2, <1>5 DEF Filled, Element, f
<1>6. CASE call[c].kind = "page"
  BY <1>1, <1>2, <1>6 DEF Filled, Element, f
<1> QED
  BY <1>3, <1>4, <1>5, <1>6

LEMMA FillingFits ==
  ASSUME PortalInv, NEW c \in Calls, call[c] # NoCall, call[c].live, Good(c),
         call[c].kind \in {"list", "pages", "share", "revisions", "page"}
  PROVE  ElementInv(tab, visited, Filled(c, Closed(c)))
<1> DEFINE e == Filled(c, Closed(c))
<1>1. /\ e \in Element /\ e.due = tab.el.due
      /\ e.links = IF call[c].kind \in {"list", "pages"} THEN call[c].links
                   ELSE tab.el.links
      /\ e.code = IF call[c].kind = "share" THEN call[c].code ELSE tab.el.code
      /\ e.title \in IF call[c].kind = "page" THEN {call[c].wiki, tab.el.title}
                     ELSE {tab.el.title}
  BY Filling
<1> HIDE DEF e
<1>2. /\ ElementInv(tab, visited, tab.el) /\ call[c].at = "ok"
      /\ Carries(call[c]) /\ Belongs(tab, visited, call[c])
      /\ Mounted(tab) \in Makers(call[c].kind)
  BY Facts DEF PortalInv, CallInv, Good, Belongs
<1>3. Fits(tab, visited, e)
  <2>1. CASE call[c].kind = "list"
    BY <1>1, <1>2, <2>1 DEF Makers, Fits, Public
  <2>2. CASE call[c].kind = "pages"
    BY <1>1, <1>2, <2>2 DEF Makers, Fits, Public, Belongs, Carries, ElementInv
  <2>3. CASE call[c].kind = "page"
    BY <1>1, <1>2, <2>3 DEF Makers, Fits, Public, Belongs, ElementInv
  <2>4. CASE call[c].kind \in {"share", "revisions"}
    BY <1>1, <1>2, <2>4 DEF Fits, ElementInv
  <2> QED
    BY <2>1, <2>2, <2>3, <2>4
<1>4. Invites(tab, visited, e)
  <2>1. CASE call[c].kind = "share"
    BY <1>1, <1>2, <2>1 DEF Invites, Belongs, Carries
  <2>2. CASE call[c].kind # "share"
    BY <1>1, <1>2, <2>2 DEF Invites, ElementInv
  <2> QED
    BY <2>1, <2>2
<1> QED
  BY <1>1, <1>2, <1>3, <1>4 DEF ElementInv, e

\* The answer to c changes nothing but its button.
LEMMA ClosedStep ==
  ASSUME PortalInv, NEW c \in Calls, call[c] # NoCall
  PROVE  /\ ElementInv(tab, visited, Closed(c)) /\ Ends(Closed(c), {c})
         /\ GoesOn(Closed(c))
<1>1. /\ ElementInv(tab, visited, tab.el) /\ tab.el.revisions \in Nat
  BY Facts DEF PortalInv, Element
<1>2. LET e == Closed(c) IN
        /\ e.due = tab.el.due /\ e.title = tab.el.title
        /\ e.links = tab.el.links /\ e.code = tab.el.code
        /\ e.revisions = tab.el.revisions
  BY Closing
<1>3. ElementInv(tab, visited, Closed(c))
  BY <1>1, <1>2, StillFits
<1>4. Ends(Closed(c), {c})
  BY <1>2, ClosingEnds
<1> QED
  BY <1>1, <1>2, <1>3, <1>4 DEF GoesOn

LEMMA DeliverDataStep ==
  ASSUME PortalInv, NEW c \in Calls, call[c] # NoCall, DeliverData(c)
  PROVE  PortalInv' /\ Forward
<1>1. CASE call[c].live /\ Good(c)
  <2> DEFINE e == Filled(c, Closed(c))
  <2>1. /\ call[c].kind \in {"list", "pages", "share", "revisions", "page"}
        /\ Finish(c, [tab EXCEPT !.el = e]) /\ UNCHANGED cookie
    BY <1>1 DEF DeliverData
  <2>2. /\ e \in Element /\ e.busy = tab.el.busy \ {call[c].kind}
        /\ e.revisions = IF call[c].kind = "revisions" THEN call[c].revisions
                         ELSE tab.el.revisions
    BY <1>1, <2>1, Filling
  <2>3. ElementInv(tab, visited, e)
    BY <1>1, <2>1, FillingFits
  <2> HIDE DEF e
  <2>4. Ends(e, {c})
    <3>1. e.busy = Closed(c).busy
      BY <1>1, <2>2, Closing
    <3> QED
      BY <2>2, <3>1, ClosingEnds
  <2>5. GoesOn(e)
    <3>1. /\ tab.el.revisions \in Nat /\ e.revisions \in Nat
          /\ call[c].kind = "revisions" => tab.el.revisions = 0
      BY <1>1, <2>2, Facts DEF PortalInv, ButtonsInv, Waits, Buttons, Kind, Element
    <3> QED
      BY <2>2, <3>1 DEF GoesOn
  <2> QED
    BY <2>1, <2>2, <2>3, <2>4, <2>5, FilledStep DEF e
<1>2. CASE ~(call[c].live /\ Good(c))
  <2>1. Finish(c, [tab EXCEPT !.el = Closed(c)]) /\ UNCHANGED cookie
    BY <1>2 DEF DeliverData
  <2>2. Closed(c) \in Element
    BY Closing
  <2> QED
    BY <2>1, <2>2, ClosedStep, FilledStep
<1> QED
  BY <1>1, <1>2

LEMMA DeliverAndGoStep ==
  ASSUME PortalInv, NEW c \in Calls, call[c] # NoCall, call[c].at \in {"ok", "no"},
         DeliverAndGo(c)
  PROVE  PortalInv' /\ Forward
<1>1. CASE ~Good(c)
  <2>1. Finish(c, [tab EXCEPT !.el = Closed(c)]) /\ UNCHANGED cookie
    BY <1>1 DEF DeliverAndGo
  <2>2. Closed(c) \in Element
    BY Closing
  <2> QED
    BY <2>1, <2>2, ClosedStep, FilledStep
<1>2. CASE Good(c)
  <2> DEFINE in == CASE call[c].kind = "login" -> TRUE
                     [] call[c].kind = "logout" -> FALSE
                     [] OTHER -> tab.user
             t == [tab EXCEPT !.el = Closed(c), !.at = Destination(c), !.user = in]
  <2>1. /\ call[c].kind \in {"login", "register", "logout", "create", "join", "newpage"}
        /\ Finish(c, [[tab EXCEPT !.el = Closed(c)] EXCEPT !.at = Destination(c),
                                                           !.user = in])
        /\ cookie' = IF call[c].kind \in {"login", "logout"} THEN in ELSE cookie
    BY <1>2 DEF DeliverAndGo
  <2>2. /\ tab \in Tab /\ CallInv(c) /\ OneMe /\ cookie \in BOOLEAN /\ SignedIn
        /\ call[c].at = "ok" /\ Routed(tab)
        /\ \A d \in Calls : CallInv(d)
    BY <1>2, Facts DEF PortalInv, PortalTypeOK, Good
  <2>3. /\ tab.user \in BOOLEAN /\ in \in BOOLEAN
        /\ call[c].kind = "login" => in
        /\ call[c].kind = "logout" => ~in
        /\ call[c].kind \notin {"login", "logout"} => in = tab.user
    BY <2>2 DEF Tab
  <2>4. /\ Destination(c) \in Location
        /\ Destination(c).name \in {"wiki", "page"} => Destination(c).wiki \in WikiIds
        /\ call[c].kind = "login" => Destination(c) = Home
        /\ call[c].kind \in {"register", "logout"} => Destination(c) = LoginPage
    <3>1. call[c].kind \in {"create", "join", "newpage"} => call[c].wiki \in WikiIds
      BY <2>2 DEF CallInv, Carries
    <3>2. CASE call[c].kind \in {"login", "register", "logout"}
      BY <3>2, FixedPlaces DEF Destination
    <3>3. CASE call[c].kind \in {"create", "join"}
      <4>1. Destination(c) = Go("wiki", call[c].wiki, NoWiki)
        BY <3>3 DEF Destination
      <4> QED
        BY <3>1, <3>3, <4>1, Places
    <3>4. CASE call[c].kind = "newpage"
      <4>1. Destination(c) = Go("page", call[c].wiki, call[c].wiki)
        BY <3>4 DEF Destination
      <4> QED
        BY <3>1, <3>4, <4>1, Places
    <3> QED
      BY <2>1, <3>2, <3>3, <3>4
  <2>5. Closed(c) \in Element
    BY Closing
  <2> HIDE DEF in
  <2>6. /\ t \in Tab /\ t.at = Destination(c) /\ t.el = Closed(c)
        /\ t.loading = tab.loading /\ t.user = in
        /\ [[tab EXCEPT !.el = Closed(c)] EXCEPT !.at = Destination(c), !.user = in] = t
    BY <2>2, <2>3, <2>4, <2>5 DEF Tab
  <2> HIDE DEF t
  <2>7. Shows(t, {c})
    BY <2>1, <2>6, FinishShows
  <2>8. t.loading => call[c].kind \in {"login", "register"}
    BY <2>1, <2>2, <2>6 DEF CallInv
  <2>9. /\ t.loading /\ t.at.name \in Protected => t.at = Home
        /\ ~(tab.loading /\ tab.at.name \in Protected /\ tab.at # Home)
    BY <2>1, <2>2, <2>4, <2>6, <2>8, FixedPlaces DEF Protected, CallInv
  <2>10. (\A d \in Calls \ {c} : ~Asking(d)) \/ (cookie => cookie')
    <3>1. CASE call[c].kind = "logout"
      BY <2>2, <2>6, <2>8, <3>1 DEF Asking, CallInv
    <3>2. CASE call[c].kind # "logout"
      BY <2>1, <2>3, <3>2
    <3> QED
      BY <3>1, <3>2
  <2>11. cookie' \in BOOLEAN /\ (t.user => cookie')
    BY <2>1, <2>2, <2>3, <2>6 DEF SignedIn
  <2>12. ShowsWell(t, {c})
    BY <2>4, <2>6, <2>7, <2>9, <2>10, <2>11, ClosedStep DEF ShowsWell
  <2> QED
    BY <2>12, ShowStep
<1> QED
  BY <1>1, <1>2

LEMMA DeliverPageErrorStep ==
  ASSUME PortalInv, NEW c \in Calls, call[c] # NoCall, DeliverPageError(c)
  PROVE  PortalInv' /\ Forward
<1> DEFINE e == [NewElement("page") EXCEPT !.error = TRUE, !.due = tab.el.due]
<1>1. /\ tab \in Tab /\ tab.el \in Element /\ ElementInv(tab, visited, tab.el)
      /\ CallInv(c) /\ call[c].kind = "page" /\ call[c].live
      /\ tab' = [tab EXCEPT !.el = e]
  BY Facts DEF PortalInv, DeliverPageError
<1>2. /\ e \in Element /\ e.due = tab.el.due /\ e.links = {} /\ e.title = NoWiki
      /\ e.code = NoCode /\ e.busy = {} /\ e.drawer = "closed"
  BY <1>1 DEF NewElement, Element, Effects, Kind
<1> HIDE DEF e
<1>3. Mounted(tab) = "page"
  BY <1>1 DEF CallInv, Belongs, Makers
<1>4. ElementInv(tab, visited, e) /\ GoesOn(e)
  BY <1>1, <1>2, <1>3 DEF ElementInv, Fits, Invites, GoesOn
<1>5. ASSUME NEW kind \in Buttons \ {"share", "revisions"}
      PROVE  kind \notin tab.el.busy /\ ~Waits(c, kind)
  <2>1. "page" \notin Makers(kind)
    BY DEF Makers, Buttons, Kind
  <2>2. \A d \in Calls : ~Waits(d, kind)
    BY <1>3, <2>1, Facts DEF Waits, CallInv, Belongs, Buttons
  <2> QED
    BY <2>2 DEF PortalInv, ButtonsInv
<1>6. call' = [d \in Calls |-> IF d \in {c} THEN NoCall
                               ELSE Unmounted(call[d], {"share", "revisions"})]
      /\ UNCHANGED <<sharingVars, registered, cookie, pages, visited>>
  BY DEF DeliverPageError
<1>7. Drops(e, {c}, {"share", "revisions"})
  BY <1>1, <1>2, <1>5, <1>6 DEF Drops, Kind
<1> QED
  BY <1>2, <1>4, <1>7, DropStep

LEMMA DeliverWikiStep ==
  ASSUME PortalInv, NEW c \in Calls, call[c] # NoCall, DeliverWiki(c)
  PROVE  PortalInv' /\ Forward
<1>1. /\ tab \in Tab /\ tab.el \in Element /\ ElementInv(tab, visited, tab.el)
      /\ CallInv(c) /\ call[c].kind = "wiki" /\ call[c] \in TabCall
      /\ [tab EXCEPT !.el = tab.el] = tab /\ GoesOn(tab.el)
      /\ call \in [Calls -> TabCall \union {NoCall}] /\ PortalTypeOK
      /\ UNCHANGED cookie
  BY Facts DEF PortalInv, DeliverWiki, Tab, Element, GoesOn
<1>2. CASE ~Good(c)
  <2>1. Finish(c, [tab EXCEPT !.el = tab.el])
    BY <1>1, <1>2 DEF DeliverWiki
  <2>2. Ends(tab.el, {c})
    BY <1>1 DEF Ends, Waits, Buttons, PortalInv, ButtonsInv
  <2> QED
    BY <1>1, <2>1, <2>2, FilledStep
<1>3. CASE Good(c)
  <2> DEFINE e == IF call[c].live THEN [tab.el EXCEPT !.title = call[c].wiki] ELSE tab.el
             s == [Sent("pages", call[c].wiki, NoCode) EXCEPT !.live = call[c].live]
  <2>1. /\ tab' = [tab EXCEPT !.el = e] /\ call' = [call EXCEPT ![c] = s]
        /\ UNCHANGED <<owner, members, code, registered, cookie, pages, visited>>
    BY <1>1, <1>3 DEF DeliverWiki, sharingVars
  <2>2. /\ e \in Element /\ e.due = tab.el.due /\ e.links = tab.el.links
        /\ e.code = tab.el.code /\ e.busy = tab.el.busy
        /\ e.revisions = tab.el.revisions /\ e.drawer = tab.el.drawer
        /\ e.title = IF call[c].live THEN call[c].wiki ELSE tab.el.title
    BY <1>1 DEF Element, TabCall
  <2>3. /\ s \in TabCall /\ s.kind = "pages" /\ s.wiki = call[c].wiki /\ s.links = {}
        /\ s.live = call[c].live /\ s # NoCall
    <3>1. Sent("pages", call[c].wiki, NoCode) \in TabCall
      BY <1>1 DEF Sent, TabCall, Kind
    <3> QED
      BY <1>1, <3>1 DEF Sent, TabCall
  <2> HIDE DEF e, s
  <2>4. Belongs(tab, visited, call[c])
    BY <1>1, <1>3 DEF CallInv, Good
  <2>5. ElementInv(tab, visited, e)
    <3>1. call[c].live => Mounted(tab) = "wiki" /\ call[c].wiki \in WikisIn(visited)
      BY <1>1, <2>4 DEF Belongs, Makers
    <3>2. Fits(tab, visited, e)
      BY <1>1, <2>2, <3>1 DEF ElementInv, Fits, Public
    <3> QED
      BY <1>1, <2>2, <3>2 DEF ElementInv, Invites
  <2>6. Carries(s) /\ Belongs(tab, visited, s)
    BY <1>1, <2>3, <2>4 DEF Carries, Belongs, Makers
  <2>7. /\ tab' \in Tab /\ tab'.el = e /\ tab'.loading = tab.loading
        /\ tab'.at = tab.at /\ Routed(tab)' /\ SignedIn' /\ Forward
        /\ ElementInv(tab, visited, tab.el)'
        /\ \A x : Belongs(tab, visited, x) => Belongs(tab', visited', x)
        /\ \A x : Carries(x) => Carries(x)'
    BY <1>1, <2>1, <2>2, <2>5, SamePlace DEF GoesOn
  <2>8. /\ call' \in [Calls -> TabCall \union {NoCall}]
        /\ \A d \in Calls : call'[d] = IF d = c THEN s ELSE call[d]
    BY <1>1, <2>1, <2>3
  <2>9. PortalTypeOK'
    BY <1>1, <2>1, <2>7, <2>8 DEF PortalTypeOK, Routed
  <2>10. CallsInv'
    <3>1. OneMe'
      BY <2>3, <2>8, Facts DEF OneMe, Asking
    <3>2. ASSUME NEW d \in Calls, call'[d] # NoCall
          PROVE  CallInv(d)'
      <4>1. CASE d = c
        <5>1. Carries(call[d])' /\ Belongs(tab, visited, call[d])'
          BY <2>6, <2>7, <2>8, <4>1 DEF Carries, Belongs
        <5>2. ~tab'.loading
          BY <1>1, <2>7 DEF CallInv
        <5> QED
          BY <2>3, <2>8, <4>1, <5>1, <5>2 DEF CallInv
      <4>2. CASE d # c
        <5>1. CallInv(d) /\ call'[d] = call[d] /\ call[d] # NoCall
          BY <2>8, <3>2, <4>2, Facts
        <5>2. Carries(call[d])' /\ Belongs(tab, visited, call[d])'
          BY <2>7, <5>1 DEF CallInv, Carries, Belongs
        <5> QED
          BY <2>1, <2>7, <5>1, <5>2 DEF CallInv
      <4> QED
        BY <4>1, <4>2
    <3> QED
      BY <3>1, <3>2 DEF CallsInv, CallInv
  <2>11. ButtonsInv'
    <3>1. \A d \in Calls : \A x \in Buttons : Waits(d, x)' <=> Waits(d, x)
      BY <1>1, <2>3, <2>8 DEF Waits, Buttons
    <3> QED
      BY <2>2, <2>7, <3>1 DEF PortalInv, ButtonsInv
  <2> QED
    BY <2>7, <2>9, <2>10, <2>11 DEF PortalInv
<1> QED
  BY <1>2, <1>3

LEMMA DeliverStep ==
  ASSUME PortalInv, NEW c \in Calls, Deliver(c)
  PROVE  PortalInv' /\ Forward
BY DeliverMeStep, DeliverAndGoStep, DeliverDataStep, DeliverPageErrorStep,
   DeliverWikiStep DEF Deliver

--------------------------------------------------------------------------------
(* The theorems *)

LEMMA InitInv == PortalInit => PortalInv
<1> SUFFICES ASSUME PortalInit PROVE PortalInv
  OBVIOUS
<1>1. PICK place \in Bookmarks :
        /\ tab = [user |-> FALSE, loading |-> TRUE, at |-> place, el |-> NewElement("loading")]
        /\ visited = {place}
  BY DEF PortalInit
<1>2. PICK c \in Calls :
        call = [[d \in Calls |-> NoCall] EXCEPT ![c] = Sent("me", NoWiki, NoCode)]
  BY DEF PortalInit
<1>3. /\ "loading" \in Public \union Protected \union {"loading"}
      /\ Effects("loading") = {}
      /\ place \in Location
      /\ place.name \in {"wiki", "page"} => place.wiki \in WikiIds
  BY FixedPlaces, Places DEF Bookmarks, Effects
<1>4. /\ NewElement("loading") \in Element /\ NewElement("loading").due = {}
      /\ NewElement("loading").links = {} /\ NewElement("loading").title = NoWiki
      /\ NewElement("loading").code = NoCode /\ NewElement("loading").busy = {}
  BY <1>3, NewElements
<1>5. /\ tab \in Tab /\ ~tab.user /\ tab.loading /\ tab.at = place
      /\ tab.el = NewElement("loading")
  BY <1>1, <1>3, <1>4 DEF Tab
<1>6. /\ Sent("me", NoWiki, NoCode) \in TabCall
      /\ Sent("me", NoWiki, NoCode).kind = "me"
      /\ Sent("me", NoWiki, NoCode).at # "no" => cookie
  BY DEF Sent, TabCall, Kind, Open, Public
<1>7. /\ call \in [Calls -> TabCall \union {NoCall}]
      /\ \A d \in Calls :
           call[d] = IF d = c THEN Sent("me", NoWiki, NoCode) ELSE NoCall
  BY <1>2, <1>6
<1>8. /\ owner \in [WikiIds -> Users \union {Nobody}] /\ members \subseteq WikiIds \X Users
      /\ code \in [WikiIds -> Codes \union {NoCode}] /\ pages \in [WikiIds -> Nat]
      /\ registered \in BOOLEAN /\ cookie \in BOOLEAN /\ visited \subseteq Location
  BY <1>1, <1>3 DEF PortalInit, SharingInit
<1>9. PortalTypeOK /\ Routed(tab) /\ SignedIn
  BY <1>3, <1>5, <1>7, <1>8 DEF PortalTypeOK, Routed, SignedIn, Protected
<1>10. CallsInv
  BY <1>5, <1>6, <1>7 DEF CallsInv, OneMe, Asking, CallInv, Carries, Belongs
<1>11. ElementInv(tab, visited, tab.el)
  BY <1>1, <1>4, <1>5 DEF ElementInv, Fits, Invites
<1>12. ButtonsInv
  BY <1>4, <1>5, <1>6, <1>7 DEF ButtonsInv, Waits, Buttons
<1> QED
  BY <1>9, <1>10, <1>11, <1>12 DEF PortalInv

LEMMA StepInv ==
  ASSUME PortalInv, [PortalNext]_vars
  PROVE  PortalInv' /\ (Forward \/ UNCHANGED vars)
<1>1. CASE PortalNext
  BY <1>1, FollowStep, CloseShareStep, ToggleStep, FoldStep, PeersStep, UserStep,
     ServeStep, FailStep, DeliverStep DEF PortalNext
<1>2. CASE UNCHANGED vars
  <2>1. UNCHANGED <<registered, cookie, pages, tab, call, visited, sharingVars>>
    BY <1>2 DEF vars, tabVars
  <2>2. pages' \in [WikiIds -> Nat]
    BY <2>1, Facts DEF PortalTypeOK
  <2> QED
    BY <2>1, <2>2, SameLasts, OutsideStep
<1> QED
  BY <1>1, <1>2

LEMMA Inductive == PortalSpec => []PortalInv
<1>1. PortalInv /\ [PortalNext]_vars => PortalInv'
  BY StepInv
<1> QED
  BY InitInv, <1>1, PTL DEF PortalSpec

(****************************************************************************)
(* The URL, the element and the requests keep their types, and no late      *)
(* answer navigates WikiView to a URL without a wiki.                       *)
(****************************************************************************)
THEOREM TypeCorrect == PortalSpec => []PortalTypeOK
<1>1. PortalInv => PortalTypeOK
  BY DEF PortalInv
<1> QED
  BY <1>1, Inductive, PTL

(****************************************************************************)
(* However the answers to /me, /login and /logout cross, a tab that shows a *)
(* user has the session cookie (AuthContext).                               *)
(****************************************************************************)
THEOREM SessionKept == PortalSpec => []SignedIn
<1>1. PortalInv => SignedIn
  BY DEF PortalInv
<1> QED
  BY <1>1, Inductive, PTL

(****************************************************************************)
(* An invite code in the share panel is the code of a wiki of the user that *)
(* the element has had in its URL (handleShare of WikiView and PageEditor). *)
(****************************************************************************)
THEOREM InvitesWork == PortalSpec => []InviteWorks
<1>1. PortalInv => InviteWorks
  BY DEF PortalInv, ElementInv, Invites, InviteWorks, Invite, WikisIn
<1> QED
  BY <1>1, Inductive, PTL

(****************************************************************************)
(* However late answers come, an element shows only what belongs to a URL   *)
(* that it has had itself: to the URL of the browser unless an answer has   *)
(* taken it there from another (the effects of WikiView and PageView).      *)
(****************************************************************************)
THEOREM ShownInPlace == PortalSpec => []RightPlace
<1>1. PortalInv => RightPlace
  BY DEF PortalInv, ElementInv, Fits, RightPlace, Heading, WikisIn, PagesIn
<1> QED
  BY <1>1, Inductive, PTL

(****************************************************************************)
(* A disabled button has one request under way, and an enabled one has none *)
(* (the finally blocks of the forms).                                       *)
(****************************************************************************)
THEOREM ButtonsReturn == PortalSpec => []ButtonsWait
<1>1. PortalInv => ButtonsWait
  <2> SUFFICES ASSUME PortalInv, NEW kind \in Buttons
               PROVE  LET waiting == {c \in Calls : Waits(c, kind)}
                      IN IF kind \in tab.el.busy THEN \E c \in Calls : waiting = {c}
                         ELSE waiting = {}
    BY DEF ButtonsWait, Buttons, Waits
  <2>1. /\ kind \in tab.el.busy => \E c \in Calls : Waits(c, kind)
        /\ \A c \in Calls : Waits(c, kind) => kind \in tab.el.busy
        /\ \A c, d \in Calls : Waits(c, kind) /\ Waits(d, kind) => c = d
    BY DEF PortalInv, ButtonsInv
  <2>2. CASE kind \in tab.el.busy
    <3>1. PICK c \in Calls : Waits(c, kind)
      BY <2>1, <2>2
    <3>2. {d \in Calls : Waits(d, kind)} = {c}
      BY <2>1, <3>1
    <3> QED
      BY <2>2, <3>2
  <2>3. CASE kind \notin tab.el.busy
    BY <2>1, <2>3
  <2> QED
    BY <2>2, <2>3
<1> QED
  BY <1>1, Inductive, PTL

(****************************************************************************)
(* An older list of revisions never replaces a newer one on show (load and  *)
(* toggle of RevisionHistory).                                              *)
(****************************************************************************)
THEOREM HistoryGrows == PortalSpec => HistoryForward
<1>1. PortalInv /\ [PortalNext]_vars =>
        [tab'.el.drawer = "open" => Listed(tab) \subseteq Listed(tab')]_vars
  BY StepInv DEF Forward
<1> QED
  BY <1>1, Inductive, PTL DEF PortalSpec, HistoryForward
================================================================================
