# WikiCollab: TLA+ models, checks and proofs

WikiCollab is a wiki whose pages are edited by several people at once. A Go
server keeps users, wikis, pages and revisions in PostgreSQL and block locks in
Redis; the React editor talks to it by REST and by one WebSocket per open page.
Text is not merged character by character: a *lock* in Redis gives a row of the
page to one user, and every save replaces the whole page under a *version check*.

This directory models the parts where processes meet: locks, rooms, page
transactions, sharing, what users do in the editor, what the browsers end up
showing, and the way of one tab through the pages of the frontend.

## Inventory

| Part | State | Operations | Meets others through |
|---|---|---|---|
| Hub, rooms (`websocket/hub.go`, `client.go`) | members of a room, one outbound queue of 32 messages per client | JoinRoom, LeaveRoom, Broadcast, SendTo, GetRoomLocks | `room.mu`, the queues |
| Lock store (`redis/lock.go`) | one key per block: token and expiry | SET NX EX, compare-and-expire, compare-and-delete | Redis |
| Lock service (`websocket/handler.go`) | `Client.ownedLocks` per connection | connect, lock, lock_renew, unlock, disconnect | hub, lock store |
| Page service (`services/page.go`) | rows of `pages` and `revisions` | CreatePage, UpdatePage, GetPage, ListPages | row locks, connection pool |
| Page updates (`handler.go` 83-138, 265-314) | none of its own | page snapshot, page_update | page service, hub |
| Editor (`hooks/useCollaboration.ts`, `components/Editor/`) | version, rows, title, locks shown, save status, timers | open, click, type, rename, add a page, save, switch rows, leave, handle messages | WebSocket, REST |
| Wikis and sharing (`services/wiki.go`) | `wikis`, `wiki_members`, `share_codes` | CreateWiki, GenerateShareCode, JoinByCode, AssertAccess | PostgreSQL |
| Accounts (`services/auth.go`, `middleware/auth.go`) | `users`, signed session cookie | Register, Login, Logout | PostgreSQL |
| Revisions (`services/revision.go`, `RevisionHistory.tsx`) | reads `revisions`; the list in the drawer | ListRevisions, open, fold, load | PostgreSQL, REST |
| Frontend shell (`App.tsx`, `context/`, `pages/`, `api/`) | user, URL, the state of the page on show, requests under way | sign in and out, follow a link, create, join, share, late answers | REST, the session cookie |
| Start, configuration, routing | none | start, shutdown | |

What is hard, and what makes each part correct:

* **Locks.** A goroutine per connection interleaves with others at every Redis
  call and every queue send; Redis calls fail with an unknown effect, keys
  expire under their holders, clients vanish and the server restarts. A key may
  be removed early only by the connection that made it; a key nobody will
  release must be one that a fault cut loose, and it must run out; a
  disconnecting client must get out of its room whatever the other browsers do.
* **Rooms.** Iterations hold the lock of the room for reading and interleave.
  They must reach members only, and end although queues are full.
* **What browsers show of locks.** Snapshot and broadcasts travel through one
  queue but come from several goroutines. No member may miss an announcement,
  and two browsers must not both show a block as their own.
* **Page transactions.** Calls overlap, statements fail, the answer to COMMIT
  is lost. Versions must match revisions one to one, an update must apply to the
  version its caller saw, and nobody may wait for ever for a connection.
* **Page synchronisation.** Each tab saves the whole page, with other people's
  rows as it last saw them, and React renders a message some time after it came.
  Nothing but a save from that moment may overwrite a stored edit; a member must
  not be skipped by a broadcast; a save that was sent must be answered.
* **Rows.** Clicks, four kinds of timers and messages change the lock, its
  renewal, the display and the text of a row one by one. While messages go out in order, nobody else may overwrite what is
  saved under a lock; a textarea must mean a lock; a tab must keep one row, and
  give it back once its user pauses.
* **Sharing.** GenerateShareCode and JoinByCode run several statements without a
  transaction. A wiki must have one code for good, no two wikis the same, and
  members must have come by it.
* **The frontend.** Every answer may come late, out of order or never, after the
  page that asked has gone or shows another URL. Nobody may see pages without a
  session; what is on show must belong to a URL the element has had; no button may stay disabled.

`PROJECT.json` lists every component with its status, and every hazard at the
line where it bites.

## Modules

```
BlockLease <= LockService = Hub + LockStore      VersionedPage <= PageStore
                 |                                     (UpdatePage as one step)
             LockViews                            Hub -> PageSync

Sharing <= Wikis        Sharing -> Portal         Editor: locks and saves of rows
```
(`A <= B`: B is shown to implement A; `A -> B`: B is built on A.)

| Module | Models | State and actions against the code |
|---|---|---|
| `Hub` | one room | `room` is `Room.clients`; `outbound` the channels; `todo[c]`, `cast[c]` an iteration of goroutine c under `room.mu.RLock`. JoinRoom and LeaveRoom need the write lock, so they wait for `~RoomRLocked`. |
| `LockStore` | Redis | `key[b]`, its time to live; one operator for each outcome of each script. |
| `LockService` | ServeWS, the lock handlers, disconnect | `op[c]` is the place of goroutine c in its handler, `owned[c]` is `ownedLocks`, `drained[c]` the rest of the loop of handleDisconnect. A handler is cut at every Redis call, critical section, send and loop turn. `minted` and `abandoned` are history. |
| `BlockLease` | what the lock service promises | a block is free, leased to an online connection, or an orphan that only runs out; a lease starts on a free block, and a connection leaves with none left. |
| `LockViews` | `locksRef` of every browser | LockService plus `view`, updated when a message is taken from the queue. `heard` is history. |
| `PageStore` | CreatePage, UpdatePage | one step per statement; `holder` is the row lock, `wrote[w]` the uncommitted rows, `Connected` the connections in use. |
| `VersionedPage` | what page storage promises | an atomic compare-and-set register with a history. |
| `PageSync` | page snapshot, page_update, editor | `history[v]` is the content of version v; `op`, `inbound` the server side; `tab[d]` the editor: version (`versionRef`), content (`blocksRef`, `titleRef`), incoming (a `setBlocks` updater React has not run), timer (the save timer). `missed`, `unanswered` and the mark `torn` of a save sent while rows were still to be rendered are history. |
| `Editor` | rows, locks and saves together, for all users of a page | `holder[r]` is the key in Redis, `page` the stored row of `pages`; `tab[d]` has `locksRef`, `activeBlockRef`, `renewing` (`renewIntervals`), `timed` (rows whose blur or inactivity timer runs), `timer` (the save timer). `Rendered` is what React does to the timers when a textarea comes or goes. `kept[c][r]`, what c stored in r under its lock and has not taken back itself, and `orderly`, whether no message was overtaken on its way out, are history. |
| `Sharing` | what sharing promises | `owner`, `members`, `code` are the tables; Found, Publish, Join are atomic. |
| `Wikis` | CreateWiki, GenerateShareCode, JoinByCode | one step per statement; `job[c]` is the place of call c and its variables. `given`, `asked` are history. |
| `Portal` | one tab between the pages | `tab.at` is the URL, `tab.el` the state of the element on show, `call[c]` what the tab does with the answer of request c and whether its element lives; `Rendered` is ProtectedRoute and the routes; wikis and codes are those of `Sharing`, changed by others too. |
| `LockServiceProofs`, `LeaseProofs`, `LockViewsProofs`, `PageStoreProofs`, `PageSyncProofs`, `EditorProofs`, `WikisProofs`, `PortalProofs` | theorems | see Proofs |
| `MC...` | instances for TLC | |

One room stands for the whole hub: every handler names the room of its own page
only. `hub.mu` is held over map look-ups alone and is not modelled.

`Editor` is coarser than `LockService`, `LockViews` and `PageSync`, which look
closer at the same handlers: Redis calls succeed, no message is dropped, and
React renders what a message changes before the next event. A broadcast is one
step, some time after the effect it announces: other connections' goroutines run
in between, as nothing in handler.go holds them back. In exchange it has all that a user can do to a row, in tabs
that hold locks and save pages at once. The text of a row is the set of edits in
it, so that an overwritten edit is one that is missing.

`Portal` has one user in one tab, whose requests run side by side. A wiki has at
most one page. React Router keeps an element whose route matches the new URL
too, and it then shows what it has until new answers come; `visited` is the set
of URLs the element on show has had. App may be opened at any of its URLs.

In `PageSync` UpdatePage is one step. `PageStoreProofs` proves why that is
sound: its transactions implement the atomic register. A slot is one tab, with
a row that only this tab edits (the lock service gives the row to one holder);
a reload is another slot. Content is, per field, the number of the edit it
comes from: enough to see an edit overwritten.

## Runs

| Run | Question | Bounds |
|---|---|---|
| `lock_faults` | Is a key ever leaked, or removed by the wrong connection, and does the service implement the lease? | 2 connections, 1 block, 3 tokens, TTL 2; failing Redis calls with either effect, restarts |
| `lock_live` | Do orphaned keys run out, broadcasts end, disconnects complete? | the same with 1 token, under fairness; queues of 1 that nobody need drain |
| `views_informed` | Does a browser past its snapshot ever miss an announcement? Do iterations reach members only? | 3 browsers joining and leaving, 1 block, keys expire at any time |
| `views_timely` | Can two browsers come to rest both showing a block as their own? | 2 browsers, 2 tokens, failing Redis calls; holders renew in time |
| `page_faults` | Do revisions match versions, are calls atomic compare-and-sets, and does every call return? | 2 calls, column limit 2, pool of 2, every failure and restarts, under fairness |
| `sync_faults` | Is a stored row ever overwritten but by a torn save, a member skipped, a save left without its answer? | 2 tabs, a row edit and a rename each (a rename also while connecting), an API client up to version 2, failing and lost updates, broken connections, late rendering; queues of 1 |
| `editor_rows` | Does nobody else overwrite a save under the lock while messages go out in order, does a textarea mean a lock, does a tab keep one row? | 2 users, 2 rows, the page starting with 1; 2 edits or added pages; users wait while a message is unread |
| `editor_live` | Does every row come free again? | 2 users, 2 rows that nobody edits, up to 2 unread messages, under fairness |
| `wikis` | Are codes permanent and unique, and did members come by them? | 2 users, 2 wikis, 2 codes, 2 calls at a time that fail anywhere |
| `portal` | Does what is on show belong to the user and to the URLs of its element, and do buttons come back? | 1 tab opened at any URL, 1 other user, 2 wikis, 2 codes, 2 requests at a time, 2 saved versions |
| `sync_torn` | *violated:* does a stored edit stay, whatever saves later? | 2 tabs, 2 edits each, no faults; queues of 1 |
| `editor_switch` | *violated:* does a stored edit stay? | 2 users, 2 rows, 2 edits; users move on before the timers of the row fire |

Why the bounds are enough for the questions: every hazard on locks needs a late
actor and one that takes its place (two connections, two tokens) and, to mix
them up once more, a third token; an announcement is missed between a joiner, a
holder and a third goroutine that keeps the room locked, hence three browsers.
Two calls that hold both connections of a pool of two while one waits for the
other's row are the smallest jam, and the column limit is reached within one
update. A save goes wrong between a tab that saves and one that shows something
older; switching takes two rows, and losing an edit two edits. Codes collide
between two wikis and race between two calls. A late answer goes wrong between
the request that asked and the one that moved the tab on, so two requests; two
wikis are enough for one to be the wrong one. The proofs remove the bounds
for every safety property below, from the assumptions they name.

Queues: capacity 1 makes "full" frequent in the lock runs, where dropping
matters. `LockViews` and `PageSync` ask about order alone, so there the server
pauses while a queue is full (`KeepsUp`) and nothing is dropped. In `Editor` the
users wait instead (`Calm`): they click, save and focus only while fewer than
`QueueCap` messages are unread, and one user's next message goes out when the
server has taken the last. An announcement that is not out yet is unread by
nobody, so even with one message users click a row whose lock_acquired is still
to come, and are denied; with two, in `editor_live`, both may click at once.

Deadlock is checked except in the `PageSync` and `Editor` runs, where edits are
bounded and the tabs may have nothing left to do.

### Fairness

* `LockService!FairSpec`: the Go scheduler runs every goroutine that can run,
  and Redis answers or fails, so the steps inside a handler are weakly fair, as
  is the passing of time in Redis. LeaveRoom waits for the write lock of
  `room.mu`; a waiting writer of a Go RWMutex holds back new readers, so it is
  not overtaken for ever, which is strong fairness of that step. No client has
  to send anything, nor a browser to read: queues may stay full for ever.
* `PageStore!FairSpec`: PostgreSQL answers and grants a row lock in the order of
  requests; the pool serves waiters in order. Hence strong fairness of the two
  steps that wait. No call has to be made.
* `PageSync` promises nothing in the end. `SavesAnswered` says instead, at every
  moment, where the answer to a save is: the save waits in the connection, or its
  goroutine has it, or the answer was queued. That the goroutine runs on is what
  Go does.
* `Editor!FairSpec`: handlers run, announcements go out at last, browsers read,
  the timers that release a row fire, and a key nobody renews runs out: Go, the
  event loop and Redis. Nobody has to click, type, save or leave. It presumes
  that a user pauses: every touch starts the inactivity timer again
  (`BlockEditor.tsx` 82-98), and one who never stops typing keeps the row.
* `Wikis` and `Portal` promise nothing in the end: any call may fail, and any
  answer may be lost. `ButtonsWait` says instead, at every moment, that a
  disabled button has a request under way.

### What the code does not keep

Two runs show a statement of the repository violated, and the findings in
`PROJECT.json` quote it: "The client should refresh/synchronize the page rather
than silently overwrite newer content" (`project.md:618`).

* `sync_torn`: `versionRef` changes when page_updated arrives, `blocksRef` when
  React renders (`useCollaboration.ts:105-119`). A save timer that fires in
  between (`PageEditor.tsx:58-61`) sends old rows with the new version, and the
  version check lets them pass. `OnlyTornSavesOverwrite`, checked by
  `sync_faults` and proved, says that nothing else does it: a row goes back only
  by a save that was sent between those two moments.
* `editor_switch`: acquireLock gives the old row back at once, while its text
  waits up to two seconds for the save timer. The next holder starts from the
  old text, keeps it as her own when the late save arrives, and overwrites it
  with a save that passes the version check. `LockedSaveStays` says what remains
  true, while messages go out in order: an edit that its writer stores while
  holding the lock is overwritten by nobody else.

Disagreements of the same kind, which the models have and no run repeats:

* Handlers announce after the effect and hold no lock meanwhile (`handler.go`
  177-197, 246-256, 275-307, 285-293), so announcements overtake each other. The
  next holder's lock_acquired can come before the lock_released, and a held block
  then shows as free, where `docs/websocket.md:121` says that clients mark it as
  read-only; a late lock_released also lets another tab keep its old row. In all
  such cases a later save can overwrite what was saved under a lock:
  `LockedSaveStays` without its premise `orderly` fails. `orderly` becomes false
  when a row is granted before its last release was announced, and when a page
  update is handled or a key runs out while a stored page has still to be sent.
  `EditorTypeOK`, `WriterHolds`, `OneRowKept` and `RowsComeFree` need no such
  premise.
* Editors ignore the title of page_updated and save their own, and so take back
  a title that somebody else saved (`useCollaboration.ts:103`).
* ServeWS reads the page before it joins the room (`handler.go:99`, 123): a
  version saved in between never reaches the joiner, although `handler.go:130`
  says it is "in sync".
* A refused save is answered with the page as it is at that moment
  (`handler.go:285-293`), and the tab takes it without asking whether it is newer
  than what it has (`useCollaboration.ts:102-119`). The answer can come after a
  later save of the same tab was stored. If the tab has asked for its row again
  but is not shown as its holder yet, the old row replaces its text; once it is
  shown as the holder it keeps that text, hears of its own save, and takes its
  own stored edit back with the next one, which passes the version check. This
  takes four edits and four unread messages, more than `editor_rows` has: it was
  met while proving `LockedSavesStay`, with TLC on a larger instance. Hence
  `LockedSaveStays` speaks of what others overwrite, and `kept` forgets what a
  tab takes back itself.
* A row whose page is shortened under its holder loses its textarea and with it
  the timers that would release it, but its renewal goes on: it stays locked
  until the tab is closed. `RowsComeFree` leaves it out.
* `README.md:137` has locks renewed every 10 s; the code does so every 5 s.

Met while modelling and kept as hazards only, each a disagreement of the same
kind: lock_denied names the requester instead of the owner (`handler.go:187`);
an expired lock is announced to nobody; the lock snapshot can be queued behind a
newer lock_released; broadcasts of two versions can arrive in the wrong order; a
refused save is answered with page_updated, where `docs/websocket.md:102` and
`handler_test.go:442-452` expect an error; and the tab then shows "Saved".

## Proofs

`LockServiceProofs`, for every set of connections, users, blocks and tokens,
every queue capacity, TTL and set of faults, from the named assumptions of
`Hub`, `LockStore` and `LockService`:

* `TypeCorrect`, `RoomSafety` (iterations reach members only), `LockInvariant`,
  `NoLeak` (`LockAccounted`), `NoEviction` (`NoForeignEviction`).
* `LockAccounted` alone is not inductive: that a key has a live owner depends
  on where tokens are. `LockInv` adds that a connection remembers only tokens it
  minted and no two minted the same (`Minting`); that a remembered token about
  to be overwritten or removed is not the one in Redis (`Overwritable`); and
  which tables are empty in which phase of a connection (`Phases`).
  `NoForeignEviction` then follows, since a compare-and-delete matches a token
  of the caller's own.

`LeaseProofs`, for the same constants, with `LeaseAssumption` (the two marks of
`BlockLease` for a block nobody holds are not connections):

* `LocksAreLeases`: LockService implements `BlockLease` under the refinement
  mapping at the end of `LockService`.
* `LockInv` does not suffice. `Separate` adds that a token is used for one block
  only, or losing it in a failed clean-up would orphan a second block, and that
  a token that was given up is remembered by nobody, or an orphan could be
  renewed. Most steps leave Redis and the tables alone and stutter (`Quiet`);
  the others are mapped one by one.

`LockViewsProofs`, for the same constants as `LockService` and any number of
browsers, users with several tabs included, with `LockViewsAssumption` (the two
marks for no user and no message are neither):

* `SameServer`: with the browsers left out, ViewSpec is the specification of
  LockService, so whatever is proved of it holds here. `ViewTypes` (`ViewTypeOK`).
* `NobodyUninformed` (`Informed`). Being past the snapshot says nothing of how a
  browser got there, so `InformedInv` starts with GetRoomLocks: every lock on
  record has been heard of, or is being announced, or was collected by the scan,
  or belongs to a connection the scan has yet to visit. `Casting` adds that a
  broadcast with members left has its sender in the room, and no scan running.
  An announcement names a user, and counts whichever tab of that user it is from:
  with two tabs of one user, no more than that is true.
* `OneAtRest` (`OneEditor`), from `TimelySpec` (no key expires under its holder)
  and under the hypothesis `OneTabEach`, without which it is false: `isMe` cannot
  tell two tabs of one user apart. `Holding`: from AcquireLock to the end of the
  broadcast the key is the announcer's, so a block is announced by one at a time;
  `ScansOthers`: nobody's snapshot has a lock of its own; `Passed`: a browser that
  got an announcement under way will not show the block as its own; `OneMine`: of
  two browsers that will, as far as their queues say, one has the announcement of
  the other coming. At rest nothing is coming.

`PageStoreProofs`, for every set of calls and texts, every column limit, pool
size and set of faults:

* `PageInvariant`, `StoreTypes`, `RevisionsAreVersions` (`RevisionsMatch`), and
  `Implements`: PageStore implements `VersionedPage` under the refinement
  mapping at the end of `PageStore`.
* `PageInv` says why: a transaction that may still change the row (`Live`, which
  includes one whose client is gone but whose COMMIT may yet be carried out)
  works on the version the row has now and holds the row's lock, so no two are
  live, and what it has written follows from its request alone. Each action
  disturbs one call; a frame lemma takes care of all others.

`PageSyncProofs`, for every set of tabs, queue capacity, bounds on edits and
versions and set of faults, from `SyncSpec` (React renders whenever it likes) and
`NoPageAssumption`:

* `TypeCorrect`, `RenderedIsVersion` (`ShowsItsVersion`), `NothingUnheard`
  (`Heard`), `SavesGetAnswers` (`SavesAnswered`), and the action property
  `OnlyTornOverwrite` (`OnlyTornSavesOverwrite`).
* `PagesInv` follows a page from the store to the tab and back: what handlers,
  broadcasts and queues carry is a stored version (`Genuine`); hence a rendered
  tab, and a save it has sent, agree with the version they name outside the
  tab's own row (`Agrees`), while a tab with rows still to be rendered, and a
  torn save, have the rows of some version (`Recalls`). The own row is never
  newer nearer to the store than nearer to the tab (`Leads`), so a save that is
  not torn and meets its version takes nothing back.
* `HearingInv` is about the room: a version yet to be heard is in the rest of an
  iteration or in the handler about to broadcast it. `Members` is why a save is
  answered by its own broadcast: its goroutine is in the room, and takes no new
  message while the broadcast is under way.

`EditorProofs`, for every set of tabs and rows and all bounds, from `EditorSpec`
(broadcasts come late and overtake each other) and `NoMsgAssumption`:

* `TypeCorrect`, `LockedSavesStay` (`LockedSaveStays`), `WritersHold`
  (`WriterHolds`), `OneRow` (`OneRowKept`).
* `LocksInv` holds in whatever order announcements come. It reads the queue of a
  tab, with what its own goroutine is about to send, as what the tab has yet to
  hear (`Waiting`): a tab that shows or renews a row it does not hold has a
  release of it waiting, behind every grant; and a row that is not the one
  clicked last is being given back. Only the holder is told of a grant to
  itself, so late announcements of others change none of this.
* `OrderedInv` holds while `orderly` does, and is what `LockedSaveStays` rests on.
  `InOrder`: one page is about to be sent at a time, the stored one. `VersionsInv`:
  pages, answers to refused saves included, are heard in the order of their
  versions. `KeptInv`: there is a version n, that of the last save of c under the
  lock, such that every page of version n or later that another tab has, has sent
  or has yet to hear contains the edits; and a tab that takes the row for its own
  either knows version n by then or hears of the row's release first.

`WikisProofs`, for every set of users, wikis, codes and calls:

* `WikiTypes`, `WikiInvariance` (`WikiInv`), `Permanent` (`OneCode`), `Invited`
  (`MembersAsked`), and `WikisShare`: Wikis implements `Sharing`, its variables
  being those of `Sharing`.
* `WikiInv` says what a call may rely on between two of its statements: a wiki
  keeps the owner that AssertOwner read, a code that INSERT met or made is there
  to be read again, and the code JoinByCode found is still the wiki's. Other
  calls keep this because owners and codes are never replaced.

`PortalProofs`, for every set of requests, users, wikis and codes and any
number of saved versions, from the assumptions of `Sharing` and `Portal`:

* `TypeCorrect`, `SessionKept` (`SignedIn`), `InvitesWork` (`InviteWorks`),
  `ShownInPlace` (`RightPlace`), `ButtonsReturn` (`ButtonsWait`), and the action
  property `HistoryGrows` (`HistoryForward`).
* `PortalInv` ties every request to the element that made it. `Belongs`: an answer
  that finds its element finds the one on show, and is about a URL which that
  element has had; so what it fills in fits too (`Fits`, `Invites`; a code stays
  that of its wiki by the properties of `Sharing`). `OneMe`: there is one
  call of /me, and while it runs nothing but logins and registrations is asked
  besides (`CallInv`), so no logout removes the cookie from under its answer. `ButtonsInv`: a busy button has exactly one request that will find it.
  Most of the proof is about changing the URL (`Show`), where some elements end,
  one may go on, and the answers of the others must find nobody.

Only model-checked: the five liveness properties (`OrphansExpire`, `BroadcastsEnd`,
`DisconnectCompletes`, `CallsReturn`, `RowsComeFree`) and the two violations. Liveness under fairness is out
of the prover's reach.

## Not modelled, and why

* One user in two tabs: `isMe` compares users (`useCollaboration.ts:66`), so both
  tabs show the row as their own. `LockViews` allows it (`UserOf`), and
  `OneEditor` is claimed under `OneTabEach` alone. `Editor` gives every user one
  tab, `Portal` every browser, so what two tabs do to one session cookie is not
  modelled.
* Racing registrations: one INSERT each under a unique index decides, so nothing
  interleaves. Passwords, hashes and the age of the cookie are left out.
* Dropped messages in the editor: a full queue drops messages in `LockService`;
  what a browser shows after it missed one, nothing in the code repairs.
* Texts: of errors, inputs, lists, and their layout; the clipboard. Health.
* Configuration, connecting, migrations: done once before the server listens.
  The models take `TTL > 0`, which `config.go` does not check.
* Retries inside the Redis client, step by step: a call that fails with its
  effect in place or not covers the last of them. A SET NX that is repeated after
  its answer was lost finds its own key, so `AcquireLost` ends in an error or in
  lock_denied.
* The line that says "Saved" or "Saving" and the error banner, which the next
  message or dismissError clears: no property speaks of them.
* Encodings of messages, titles and content; HTTP status codes.

## Plan

1. *Done.* `Hub`, `LockStore`, `LockService`, `BlockLease`; their safety proofs.
2. *Done.* `LockViews` over LockService. `VersionedPage`, `PageStore`; safety and
   refinement proofs. `PageSync` over Hub.
3. *Done.* `Editor`; `Sharing`, `Wikis` with their proofs; `Portal`.
4. `HubRooms`: `hub.mu` and `room.mu` as explicit locks over several rooms;
   freedom from deadlock, no client in a room that the hub has dropped.
5. *Done.* Proofs that LockService implements BlockLease, and of the safety
   properties of `PageSync`, `Editor`, `Portal` and `LockViews`.
