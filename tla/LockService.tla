------------------------------ MODULE LockService ------------------------------
(****************************************************************************)
(* The block-lock side of the WebSocket server: ServeWS, the lock, renew    *)
(* and unlock handlers and the disconnect cleanup of                        *)
(* backend/websocket/handler.go, over the room (Hub) and Redis (LockStore). *)
(*                                                                          *)
(* A handler is cut into steps where another goroutine can interleave: one  *)
(* step per Redis call, per critical section of locksMu, per queue send and *)
(* per member of a room iteration.  op[c] is where goroutine c is, with the *)
(* locals it still needs.  Calls of an unknown outcome are Faults:          *)
(*   "redis"    a Redis call fails, before or after Redis applied it;       *)
(*   "restart"  the server process dies and comes back; Redis does not.     *)
(* Keys expire at any time (Age), faults or none.                           *)
(****************************************************************************)
EXTENDS Hub, LockStore

CONSTANTS
  Users,        \* user accounts
  UserOf,       \* UserOf[c]: the account connection c is authenticated as
  NoBlock,
  Faults

ASSUME LockServiceAssumption ==
  /\ UserOf \in [Conns -> Users]
  /\ NoBlock \notin Blocks
  /\ Faults \subseteq {"redis", "restart"}

VARIABLES
  op,           \* op[c]: program counter and locals of goroutine c
  owned,        \* owned[c]: Client.ownedLocks, NoToken where absent
  drained,      \* drained[c]: what handleDisconnect has left to release
  snap,         \* snap[c]: the <<member, block>> pairs GetRoomLocks collected
  minted,       \* minted[c]: every token c has sent to Redis (history)
  abandoned     \* tokens no goroutine will ever release any more (history)

serverVars == <<op, owned, drained, snap>>
vars == <<hubVars, storeVars, serverVars, minted, abandoned>>

--------------------------------------------------------------------------------
(* Messages: what a handler queues for a browser, as far as locks go.  Texts
   and usernames are left out; a page snapshot is only its arrival. *)

LockAcquired(b, u) == [type |-> "lock_acquired", block |-> b, user |-> u]
LockDenied(b, u) == [type |-> "lock_denied", block |-> b, user |-> u]
LockReleased(b) == [type |-> "lock_released", block |-> b]
PageSnapshot == [type |-> "page_updated"]
Error == [type |-> "error"]

Message ==
  [type : {"lock_acquired", "lock_denied"}, block : Blocks, user : Users]
    \union [type : {"lock_released"}, block : Blocks]
    \union {PageSnapshot, Error}

Place ==
  { "off",        \* not connected
    "hello",      \* in the room, page snapshot not sent
    "sync",       \* about to call GetRoomLocks
    "scan",       \* inside GetRoomLocks, or sending its result
    "ready",      \* readPump waits for the next message
    "fail",       \* about to queue an error
    "deny",       \* about to queue lock_denied
    "add",        \* AcquireLock returned true, addLock not reached
    "announce",   \* about to broadcast lock_acquired
    "expired",    \* RenewLock returned false, removeLock not reached
    "remove",     \* ReleaseLock returned true, removeLock not reached
    "forget",     \* ReleaseLock returned false, removeLock not reached
    "released",   \* about to broadcast lock_released
    "drain",      \* in the loop of handleDisconnect
    "drained" }   \* in that loop, about to broadcast lock_released

NoLocks == [b \in Blocks |-> NoToken]

TypeOK ==
  /\ HubTypeOK(Message)
  /\ StoreTypeOK
  /\ op \in [Conns -> [at : Place, block : Blocks \union {NoBlock},
                       token : Tokens \union {NoToken}]]
  /\ owned \in [Conns -> [Blocks -> Tokens \union {NoToken}]]
  /\ drained \in [Conns -> [Blocks -> Tokens \union {NoToken}]]
  /\ snap \in [Conns -> SUBSET (Conns \X Blocks)]
  /\ minted \in [Conns -> SUBSET Tokens]
  /\ abandoned \subseteq Tokens

Off == [at |-> "off", block |-> NoBlock, token |-> NoToken]

Init ==
  /\ HubInit
  /\ StoreInit
  /\ op = [c \in Conns |-> Off]
  /\ owned = [c \in Conns |-> NoLocks]
  /\ drained = [c \in Conns |-> NoLocks]
  /\ snap = [c \in Conns |-> {}]
  /\ minted = [c \in Conns |-> {}]
  /\ abandoned = {}

--------------------------------------------------------------------------------
(* Control of goroutine c. *)

At(c, p) == Running(c) /\ op[c].at = p

GotoWith(c, p, b, t) ==
  op' = [op EXCEPT ![c] = [at |-> p, block |-> b, token |-> t]]

GotoOn(c, p, b) == GotoWith(c, p, b, NoToken)
Goto(c, p) == GotoOn(c, p, NoBlock)

\* generateToken: 16 random bytes never repeat.
Fresh(t) == \A c \in Conns : t \notin minted[c]
Mint(c, t) == minted' = [minted EXCEPT ![c] = @ \union {t}]

AddLock(c, b, t) == owned' = [owned EXCEPT ![c][b] = t]
RemoveLock(c, b) == owned' = [owned EXCEPT ![c][b] = NoToken]

--------------------------------------------------------------------------------
(* ServeWS: join, page snapshot, lock snapshot, readPump. *)

\* Authentication and AssertAccess have passed.
Connect(c) ==
  /\ At(c, "off")
  /\ JoinRoom(c)
  /\ Goto(c, "hello")
  /\ UNCHANGED <<storeVars, owned, drained, snap, minted, abandoned>>

\* Mutant: the lock snapshot is left out.
SendPage_NoLocks(c) ==
  /\ At(c, "hello")
  /\ SendTo(c, PageSnapshot)
  /\ Goto(c, "ready")
  /\ UNCHANGED <<room, todo, cast, storeVars, owned, drained, snap, minted,
                 abandoned>>

SendPage(c) ==
  /\ At(c, "hello")
  /\ SendTo(c, PageSnapshot)
  /\ Goto(c, "sync")
  /\ UNCHANGED <<room, todo, cast, storeVars, owned, drained, snap, minted,
                 abandoned>>

GetRoomLocks(c) ==
  /\ At(c, "sync")
  /\ StartScan(c)
  /\ Goto(c, "scan")
  /\ UNCHANGED <<storeVars, owned, drained, snap, minted, abandoned>>

\* One member of the room, under its locksMu.
ScanClient(c, d) ==
  /\ op[c].at = "scan"
  /\ ScanNext(c, d)
  /\ snap' = [snap EXCEPT ![c] = @ \union
       {<<d, b>> : b \in {x \in Blocks : owned[d][x] # NoToken}}]
  /\ UNCHANGED <<storeVars, op, owned, drained, minted, abandoned>>

SendLock(c, d, b) ==
  /\ At(c, "scan")
  /\ <<d, b>> \in snap[c]
  /\ SendTo(c, LockAcquired(b, UserOf[d]))
  /\ snap' = [snap EXCEPT ![c] = @ \ {<<d, b>>}]
  /\ UNCHANGED <<room, todo, cast, storeVars, op, owned, drained, minted,
                 abandoned>>

EnterReadPump(c) ==
  /\ At(c, "scan")
  /\ snap[c] = {}
  /\ Goto(c, "ready")
  /\ UNCHANGED <<hubVars, storeVars, owned, drained, snap, minted, abandoned>>

--------------------------------------------------------------------------------
(* handleLockAcquire *)

\* A token that Redis refuses is forgotten by everyone: only stored ones are
\* counted as minted.
AcquireGranted(c, b, t) ==
  /\ At(c, "ready")
  /\ Fresh(t)
  /\ Acquired(b, t)
  /\ Mint(c, t)
  /\ GotoWith(c, "add", b, t)
  /\ UNCHANGED <<hubVars, owned, drained, snap, abandoned>>

AcquireRefused(c, b) ==
  /\ At(c, "ready")
  /\ NotAcquired(b)
  /\ GotoOn(c, "deny", b)
  /\ UNCHANGED <<hubVars, owned, drained, snap, minted, abandoned>>

\* SET NX reached Redis, its answer did not reach the server: an error, or,
\* when go-redis repeats the command by itself, a refusal by its own key.
AcquireLost(c, b, t) ==
  /\ "redis" \in Faults
  /\ At(c, "ready")
  /\ Fresh(t)
  /\ Acquired(b, t)
  /\ Mint(c, t)
  /\ abandoned' = abandoned \union {t}
  /\ Goto(c, "fail") \/ GotoOn(c, "deny", b)
  /\ UNCHANGED <<hubVars, owned, drained, snap>>

RecordLock(c) ==
  /\ At(c, "add")
  /\ AddLock(c, op[c].block, op[c].token)
  /\ GotoOn(c, "announce", op[c].block)
  /\ UNCHANGED <<hubVars, storeVars, drained, snap, minted, abandoned>>

BroadcastAcquired(c) ==
  /\ At(c, "announce")
  /\ StartBroadcast(c, LockAcquired(op[c].block, UserOf[c]))
  /\ Goto(c, "ready")
  /\ UNCHANGED <<storeVars, owned, drained, snap, minted, abandoned>>

\* The denial carries the requester's own account.
SendDenied(c) ==
  /\ At(c, "deny")
  /\ SendTo(c, LockDenied(op[c].block, UserOf[c]))
  /\ Goto(c, "ready")
  /\ UNCHANGED <<room, todo, cast, storeVars, owned, drained, snap, minted,
                 abandoned>>

--------------------------------------------------------------------------------
(* handleLockRenew *)

\* Without a remembered token the answer is an error, as for any bad message.
RenewUnowned(c, b) ==
  /\ At(c, "ready")
  /\ owned[c][b] = NoToken
  /\ Goto(c, "fail")
  /\ UNCHANGED <<hubVars, storeVars, owned, drained, snap, minted, abandoned>>

RenewGranted(c, b) ==
  /\ At(c, "ready")
  /\ owned[c][b] # NoToken
  /\ Renewed(b, owned[c][b])
  /\ UNCHANGED <<hubVars, serverVars, minted, abandoned>>

RenewRefused(c, b) ==
  /\ At(c, "ready")
  /\ owned[c][b] # NoToken
  /\ NotRenewed(b, owned[c][b])
  /\ GotoOn(c, "expired", b)
  /\ UNCHANGED <<hubVars, owned, drained, snap, minted, abandoned>>

RenewLost(c, b) ==
  /\ "redis" \in Faults
  /\ At(c, "ready")
  /\ owned[c][b] # NoToken
  /\ Renewed(b, owned[c][b])
  /\ Goto(c, "fail")
  /\ UNCHANGED <<hubVars, owned, drained, snap, minted, abandoned>>

ForgetExpired(c) ==
  /\ At(c, "expired")
  /\ RemoveLock(c, op[c].block)
  /\ Goto(c, "fail")
  /\ UNCHANGED <<hubVars, storeVars, drained, snap, minted, abandoned>>

--------------------------------------------------------------------------------
(* handleUnlock.  Without a remembered token it returns at once.  A script that
   go-redis repeats after it ran is refused, as if the key had expired. *)

UnlockGranted(c, b) ==
  /\ At(c, "ready")
  /\ owned[c][b] # NoToken
  /\ Released(b, owned[c][b])
  /\ GotoOn(c, "remove", b)
  /\ UNCHANGED <<hubVars, owned, drained, snap, minted, abandoned>>

UnlockRefused(c, b) ==
  /\ At(c, "ready")
  /\ owned[c][b] # NoToken
  /\ NotReleased(b, owned[c][b])
  /\ GotoOn(c, "forget", b)
  /\ UNCHANGED <<hubVars, owned, drained, snap, minted, abandoned>>

\* Mutant: ownership is dropped although the call failed and the key stands.
UnlockLost_Forgets(c, b) ==
  /\ "redis" \in Faults
  /\ At(c, "ready")
  /\ owned[c][b] # NoToken
  /\ RemoveLock(c, b)
  /\ Goto(c, "fail")
  /\ UNCHANGED <<hubVars, storeVars, drained, snap, minted, abandoned>>

\* The script ran, its answer was lost: ownership stays recorded.
UnlockLost(c, b) ==
  /\ "redis" \in Faults
  /\ At(c, "ready")
  /\ owned[c][b] # NoToken
  /\ Released(b, owned[c][b])
  /\ Goto(c, "fail")
  /\ UNCHANGED <<hubVars, owned, drained, snap, minted, abandoned>>

ForgetUnlocked(c) ==
  \/ /\ At(c, "remove")
     /\ RemoveLock(c, op[c].block)
     /\ GotoOn(c, "released", op[c].block)
     /\ UNCHANGED <<hubVars, storeVars, drained, snap, minted, abandoned>>
  \/ /\ At(c, "forget")
     /\ RemoveLock(c, op[c].block)
     /\ Goto(c, "ready")
     /\ UNCHANGED <<hubVars, storeVars, drained, snap, minted, abandoned>>

BroadcastReleased(c) ==
  /\ At(c, "released")
  /\ StartBroadcast(c, LockReleased(op[c].block))
  /\ Goto(c, "ready")
  /\ UNCHANGED <<storeVars, owned, drained, snap, minted, abandoned>>

--------------------------------------------------------------------------------
(* Error replies *)

\* Bad JSON, no block_id or an unknown type; with "redis" also a call that
\* failed before Redis saw it.  All of them answer with an error, no more.
Rejected(c) ==
  /\ At(c, "ready")
  /\ Goto(c, "fail")
  /\ UNCHANGED <<hubVars, storeVars, owned, drained, snap, minted, abandoned>>

SendError(c) ==
  /\ At(c, "fail")
  /\ SendTo(c, Error)
  /\ Goto(c, "ready")
  /\ UNCHANGED <<room, todo, cast, storeVars, owned, drained, snap, minted,
                 abandoned>>

--------------------------------------------------------------------------------
(* handleDisconnect: drainLocks, one ReleaseLock per lock, LeaveRoom. *)

\* Mutant: drainLocks copies ownedLocks and forgets to reset it.
Disconnect_KeepsMap(c) ==
  /\ At(c, "ready")
  /\ drained' = [drained EXCEPT ![c] = owned[c]]
  /\ Goto(c, "drain")
  /\ UNCHANGED <<hubVars, storeVars, owned, snap, minted, abandoned>>

\* The read fails: the browser closed, the network or the ping timed out.
Disconnect(c) ==
  /\ At(c, "ready")
  /\ drained' = [drained EXCEPT ![c] = owned[c]]
  /\ owned' = [owned EXCEPT ![c] = NoLocks]
  /\ Goto(c, "drain")
  /\ UNCHANGED <<hubVars, storeVars, snap, minted, abandoned>>

Drop(c, b) == drained' = [drained EXCEPT ![c][b] = NoToken]

DrainGranted(c, b) ==
  /\ At(c, "drain")
  /\ drained[c][b] # NoToken
  /\ Released(b, drained[c][b])
  /\ Drop(c, b)
  /\ GotoOn(c, "drained", b)
  /\ UNCHANGED <<hubVars, owned, snap, minted, abandoned>>

DrainRefused(c, b) ==
  /\ At(c, "drain")
  /\ drained[c][b] # NoToken
  /\ NotReleased(b, drained[c][b])
  /\ Drop(c, b)
  /\ UNCHANGED <<hubVars, op, owned, snap, minted, abandoned>>

\* The error is logged and the loop goes on; nobody will try this token again.
DrainFailed(c, b) ==
  /\ "redis" \in Faults
  /\ At(c, "drain")
  /\ drained[c][b] # NoToken
  /\ \/ UNCHANGED storeVars
     \/ Released(b, drained[c][b])
  /\ Drop(c, b)
  /\ abandoned' = abandoned \union {drained[c][b]}
  /\ UNCHANGED <<hubVars, op, owned, snap, minted>>

BroadcastDrained(c) ==
  /\ At(c, "drained")
  /\ StartBroadcast(c, LockReleased(op[c].block))
  /\ Goto(c, "drain")
  /\ UNCHANGED <<storeVars, owned, drained, snap, minted, abandoned>>

\* Mutant: the room is left before the locks are released.
Leave_Early(c) ==
  /\ At(c, "drain")
  /\ LeaveRoom(c)
  /\ Goto(c, "off")
  /\ UNCHANGED <<storeVars, owned, drained, snap, minted, abandoned>>

Leave(c) ==
  /\ At(c, "drain")
  /\ drained[c] = NoLocks
  /\ LeaveRoom(c)
  /\ Goto(c, "off")
  /\ UNCHANGED <<storeVars, owned, drained, snap, minted, abandoned>>

--------------------------------------------------------------------------------
(* Everything that is not a step of goroutine c. *)

Deliver(c, d) ==
  /\ BroadcastTo(c, d)
  /\ UNCHANGED <<storeVars, serverVars, minted, abandoned>>

\* readPump closes the socket before handleDisconnect starts.
WritePump(c) ==
  /\ op[c].at \notin {"off", "drain", "drained"}
  /\ Dequeue(c)
  /\ UNCHANGED <<storeVars, serverVars, minted, abandoned>>

Expire(b) ==
  /\ Age(b)
  /\ UNCHANGED <<hubVars, serverVars, minted, abandoned>>

\* main.go: Shutdown does not wait for hijacked connections, so a planned stop
\* is no different from a crash.
Restart ==
  /\ "restart" \in Faults
  /\ HubLost
  /\ op' = [c \in Conns |-> Off]
  /\ owned' = [c \in Conns |-> NoLocks]
  /\ drained' = [c \in Conns |-> NoLocks]
  /\ snap' = [c \in Conns |-> {}]
  /\ abandoned' = abandoned \union UNION {minted[c] : c \in Conns}
  /\ UNCHANGED <<storeVars, minted>>

Serve(c) ==
  \/ SendPage(c)
  \/ GetRoomLocks(c)
  \/ EnterReadPump(c)
  \/ RecordLock(c)
  \/ BroadcastAcquired(c)
  \/ SendDenied(c)
  \/ ForgetExpired(c)
  \/ ForgetUnlocked(c)
  \/ BroadcastReleased(c)
  \/ SendError(c)
  \/ BroadcastDrained(c)
  \/ \E d \in Conns : ScanClient(c, d) \/ Deliver(c, d)
  \/ \E d \in Conns, b \in Blocks : SendLock(c, d, b)
  \/ \E b \in Blocks :
       DrainGranted(c, b) \/ DrainRefused(c, b) \/ DrainFailed(c, b)

Request(c) ==
  \/ Rejected(c)
  \/ Disconnect(c)
  \/ \E b \in Blocks :
       \/ AcquireRefused(c, b)
       \/ RenewUnowned(c, b)
       \/ RenewGranted(c, b)
       \/ RenewRefused(c, b)
       \/ RenewLost(c, b)
       \/ UnlockGranted(c, b)
       \/ UnlockRefused(c, b)
       \/ UnlockLost(c, b)
  \/ \E b \in Blocks, t \in Tokens :
       AcquireGranted(c, b, t) \/ AcquireLost(c, b, t)

Next ==
  \/ Restart
  \/ \E b \in Blocks : Expire(b)
  \/ \E c \in Conns :
       Connect(c) \/ Serve(c) \/ Request(c) \/ Leave(c) \/ WritePump(c)

Spec == Init /\ [][Next]_vars

(****************************************************************************)
(* The server's own steps are taken eventually: a handler runs on, Redis    *)
(* answers or fails within the client's timeouts, keys expire.  A goroutine *)
(* that leaves needs the write lock of room.mu, which other iterations keep *)
(* taking; a Go RWMutex lets no new reader in front of a waiting writer,    *)
(* hence SF.  What browsers send, when they connect or hang up, and whether *)
(* a socket accepts another write is up to them: no fairness.               *)
(****************************************************************************)
Fairness ==
  /\ \A c \in Conns : WF_vars(Serve(c)) /\ SF_vars(Leave(c))
  /\ \A b \in Blocks : WF_vars(Expire(b))

FairSpec == Spec /\ Fairness

--------------------------------------------------------------------------------
(****************************************************************************)
(* Every token in Redis is on somebody's way out: the connection that       *)
(* minted it remembers it in ownedLocks, is about to (between AcquireLock   *)
(* and addLock), or has it left in handleDisconnect's loop.  The only other *)
(* keys are those a failed call or a restart cut loose.  So no sequence of  *)
(* lock, renew, unlock and disconnect leaks a lock while Redis answers.     *)
(****************************************************************************)
LockAccounted ==
  \A c \in Conns, b \in Blocks :
    key[b] \in minted[c] =>
      \/ key[b] \in abandoned
      \/ key[b] \in {owned[c][b], drained[c][b]}
      \/ op[c].at = "add" /\ op[c].block = b /\ op[c].token = key[b]

(****************************************************************************)
(* LockAccounted is not inductive: it needs to know where the tokens are.   *)
(* A connection only remembers tokens it minted, no two minted the same,    *)
(* and Redis holds minted ones only (Minting).  While acquire is between    *)
(* AcquireLock and addLock, and while renew or unlock is on its way to      *)
(* removeLock, the remembered token of the block is not the one in Redis,   *)
(* so overwriting it loses nothing (Overwritable).  A client that is not in *)
(* readPump remembers no lock, and one that is has nothing left to drain    *)
(* (Phases).                                                                *)
(****************************************************************************)
WithBlock == {"deny", "add", "announce", "expired", "remove", "forget",
              "released", "drained"}

Locals ==
  \A c \in Conns :
    /\ op[c].at \in WithBlock => op[c].block \in Blocks
    /\ op[c].at = "add" <=> op[c].token # NoToken

Minting ==
  /\ \A c, d \in Conns : c # d => minted[c] \intersect minted[d] = {}
  /\ \A b \in Blocks : key[b] # NoToken => \E c \in Conns : key[b] \in minted[c]
  /\ \A c \in Conns :
       /\ op[c].token \in minted[c] \union {NoToken}
       /\ \A b \in Blocks :
            {owned[c][b], drained[c][b]} \subseteq minted[c] \union {NoToken}

Overwritable ==
  \A c \in Conns :
    /\ op[c].at = "add" /\ key[op[c].block] \in minted[c] =>
         key[op[c].block] = op[c].token
    /\ op[c].at \in {"add", "expired", "remove", "forget"} =>
         \/ owned[c][op[c].block] = NoToken
         \/ owned[c][op[c].block] # key[op[c].block]

Phases ==
  \A c \in Conns :
    /\ op[c].at \notin {"drain", "drained"} => drained[c] = NoLocks
    /\ op[c].at \in {"off", "hello", "sync", "scan", "drain", "drained"} =>
         owned[c] = NoLocks

LockInv == Locals /\ Minting /\ Overwritable /\ Phases /\ LockAccounted

(****************************************************************************)
(* A room iteration only ever reaches connections that are still in the     *)
(* room, and those are exactly the ones being served: broadcast and         *)
(* GetRoomLocks never touch a Client after its LeaveRoom, however they      *)
(* overlap with other goroutines joining and leaving.                       *)
(****************************************************************************)
IterationsVisitMembers ==
  \A c \in Conns :
    /\ todo[c] \subseteq room
    /\ c \in room <=> op[c].at # "off"

(****************************************************************************)
(* A key disappears before its time only by a step of the connection that   *)
(* minted its token, and no step puts one token in place of another: a late *)
(* unlock or disconnect cleanup never evicts a lock that has since gone to  *)
(* someone else (the promise of the comment at lock.go:61-64).              *)
(****************************************************************************)
NoForeignEviction ==
  [][\A b \in Blocks :
       key[b] # NoToken /\ key'[b] # key[b] =>
         /\ key'[b] = NoToken
         /\ \/ ttl[b] = 1
            \/ \E c \in Conns :
                 /\ key[b] \in minted[c]
                 /\ key[b] \in {owned[c][b], drained[c][b]}
                 /\ <<op[c], drained[c]>> # <<op'[c], drained'[c]>>]_vars

(****************************************************************************)
(* The lease promise of BlockLease: tokens, queues and goroutines hidden, a *)
(* block is free, leased to an online connection, or an orphan that only    *)
(* runs out; a connection leaves with no lease left.                        *)
(****************************************************************************)
Free == "free"
Orphan == "orphan"

ASSUME LeaseAssumption == Free \notin Conns /\ Orphan \notin Conns

HolderOf(b) ==
  IF key[b] = NoToken THEN Free
  ELSE IF key[b] \in abandoned THEN Orphan
  ELSE CHOOSE c \in Conns : key[b] \in minted[c]

Lease == INSTANCE BlockLease WITH
  online <- {c \in Conns : op[c].at # "off"},
  holder <- [b \in Blocks |-> HolderOf(b)],
  lease <- ttl

LeaseSpec == Lease!LeaseSpec

(****************************************************************************)
(* A lock that a crash, a failed call or an abandoned cleanup has cut loose *)
(* does come back into use: the key expires, and nothing sets it again.     *)
(****************************************************************************)
OrphansExpire ==
  \A b \in Blocks, t \in Tokens :
    key[b] = t /\ t \in abandoned ~> key[b] # t

(****************************************************************************)
(* A slow browser never holds up the others: every broadcast reaches its    *)
(* last recipient although no queue need ever be drained, and a connection  *)
(* that hung up does get out of the room.                                   *)
(****************************************************************************)
BroadcastsEnd == \A c \in Conns : todo[c] # {} ~> todo[c] = {}

DisconnectCompletes ==
  \A c \in Conns : op[c].at = "drain" ~> op[c].at = "off"
================================================================================
