------------------------------- MODULE LockViews -------------------------------
(****************************************************************************)
(* What the browsers of a room believe about its locks: LockService with    *)
(* the locksRef table of frontend/src/hooks/useCollaboration.ts at the far  *)
(* end of every connection.                                                 *)
(*                                                                          *)
(* No message is ever dropped here: the server takes a step only while      *)
(* every open browser's queue has room (KeepsUp).  So whatever a browser    *)
(* gets wrong in this module is due to the order and the choice of messages *)
(* alone.                                                                   *)
(****************************************************************************)
EXTENDS LockService

CONSTANT NoUser   \* the browser shows the block as free

ASSUME LockViewsAssumption == NoUser \notin Users /\ NoMsg \notin Message

VARIABLES
  view,   \* view[d][b]: locksRef.current of d's browser, a user or NoUser
  heard   \* heard[d]: <<u, b>> once d was sent lock_acquired for the lock on
          \* b that u has at present (history)

viewVars == <<view, heard>>
allVars == <<vars, viewVars>>

ViewTypeOK ==
  /\ view \in [Conns -> [Blocks -> Users \union {NoUser}]]
  /\ heard \in [Conns -> SUBSET (Users \X Blocks)]

NothingShown == [b \in Blocks |-> NoUser]

ViewInit ==
  /\ Init
  /\ view = [d \in Conns |-> NothingShown]
  /\ heard = [d \in Conns |-> {}]

\* Mutant: the fields of lock_acquired are mixed up.
Shown_Swapped(v, m) ==
  CASE m.type = "lock_acquired" -> [v EXCEPT ![m.block] = m.block]
    [] m.type = "lock_released" -> [v EXCEPT ![m.block] = NoUser]
    [] OTHER -> v

(****************************************************************************)
(* ws.onmessage.  A denial and an error only set a banner.                  *)
(****************************************************************************)
Shown(v, m) ==
  CASE m.type = "lock_acquired" -> [v EXCEPT ![m.block] = m.user]
    [] m.type = "lock_released" -> [v EXCEPT ![m.block] = NoUser]
    [] OTHER -> v

\* writePump writes the oldest message and the browser handles it.
Receive(d) ==
  /\ WritePump(d)
  /\ view' = [view EXCEPT ![d] = Shown(@, Head(outbound[d]))]
  /\ UNCHANGED heard

\* The page is opened: the hook starts with an empty table.
Open(d) ==
  /\ Connect(d)
  /\ view' = [view EXCEPT ![d] = NothingShown]
  /\ heard' = [heard EXCEPT ![d] = {}]

--------------------------------------------------------------------------------
KeepsUp ==
  \A d \in Conns :
    Len(outbound[d]) < OutboundCap \/ op[d].at \in {"drain", "drained"}

\* Locks recorded by this step; whatever was heard of earlier ones is void.
Recorded ==
  {lock \in Users \X Blocks :
     \E c \in Conns :
       /\ UserOf[c] = lock[1]
       /\ owned'[c][lock[2]] \notin {NoToken, owned[c][lock[2]]}}

\* What this step puts into d's queue about who has a lock.
Told(d) ==
  LET q == outbound'[d] IN
  IF Len(q) > Len(outbound[d]) /\ q[Len(q)].type = "lock_acquired"
  THEN {<<q[Len(q)].user, q[Len(q)].block>>} ELSE {}

ServerStep ==
  /\ \/ KeepsUp /\ \E c \in Conns : Serve(c) \/ Request(c)
     \/ \E c \in Conns : Leave(c)
     \/ \E b \in Blocks : Expire(b)
  /\ view' = view
  /\ heard' = [d \in Conns |-> (heard[d] \ Recorded) \union Told(d)]

ViewNext ==
  \/ ServerStep
  \/ \E d \in Conns : Receive(d) \/ Open(d)

ViewSpec == ViewInit /\ [][ViewNext]_allVars

\* Every holder renews in time: no key expires.
InTime == \A b \in Blocks : ~Expire(b)

TimelySpec == ViewInit /\ [][ViewNext /\ InTime]_allVars

--------------------------------------------------------------------------------
\* d is served, and has been sent its lock snapshot.
Synced(d) == op[d].at \notin {"off", "hello", "sync", "scan", "drain", "drained"}

\* The announcement that u has b is on its way to d.
OnItsWay(d, u, b) ==
  \E e \in Conns :
    /\ UserOf[e] = u
    /\ \/ op[e].at = "announce" /\ op[e].block = b
       \/ d \in todo[e] /\ cast[e] = LockAcquired(b, u)

(****************************************************************************)
(* Once it is past its snapshot, a browser has been sent the lock_acquired  *)
(* of every lock that a connection has on record, or will be: addLock       *)
(* before Broadcast, and JoinRoom before GetRoomLocks, leave no gap between *)
(* the snapshot and the broadcasts to fall through.                         *)
(****************************************************************************)
Informed ==
  \A d, c \in Conns, b \in Blocks :
    Synced(d) /\ owned[c][b] # NoToken =>
      <<UserOf[c], b>> \in heard[d] \/ OnItsWay(d, UserOf[c], b)

\* Nothing is under way: every goroutine waits for its browser, every message
\* has been handled.
Settled ==
  \A d \in Conns :
    /\ op[d].at \in {"ready", "off"}
    /\ todo[d] = {}
    /\ outbound[d] = <<>>

\* No user has the page in two tabs: isMe could not tell them apart.
OneTabEach == \A c, d \in Conns : UserOf[c] = UserOf[d] => c = d

(****************************************************************************)
(* When nothing is under way and no holder was late, at most one browser    *)
(* shows the block as its own user's: the editor lets one user type.        *)
(****************************************************************************)
OneEditor ==
  Settled =>
    \A c, d \in Conns, b \in Blocks :
      /\ "ready" = op[c].at /\ view[c][b] = UserOf[c]
      /\ "ready" = op[d].at /\ view[d][b] = UserOf[d]
      => c = d
================================================================================
