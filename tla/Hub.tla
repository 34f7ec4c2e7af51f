---------------------------------- MODULE Hub ----------------------------------
(****************************************************************************)
(* One collaboration room of backend/websocket: its members, the bounded    *)
(* outbound queue of every member, and the room iterations that hold        *)
(* room.mu for reading.                                                     *)
(*                                                                          *)
(* A connection c is one slot: the goroutine that serves it (ServeWS, then  *)
(* readPump and the message handlers) and its writePump.  Every handler     *)
(* names the room of its own page only, so one room is the whole hub as     *)
(* seen by the clients of a page; hub.mu only serialises JoinRoom and       *)
(* LeaveRoom and is held by no one who waits for anything but room.mu.      *)
(*                                                                          *)
(* broadcast and GetRoomLocks visit the members one at a time under         *)
(* room.mu.RLock.  RLock is shared, so two iterations interleave member by  *)
(* member; a JoinRoom or LeaveRoom needs the write lock and waits for all   *)
(* of them.                                                                 *)
(****************************************************************************)
EXTENDS Naturals, Sequences

CONSTANTS
  Conns,        \* connection slots
  OutboundCap,  \* capacity of Client.outbound (32 in the code)
  NoMsg         \* no message is being broadcast

ASSUME HubAssumption == OutboundCap \in Nat \ {0}

VARIABLES
  room,         \* Room.clients: the connections that have joined
  todo,         \* todo[c]: members goroutine c has yet to visit under RLock
  cast,         \* cast[c]: the message goroutine c is broadcasting
  outbound      \* outbound[c]: the queue drained by c's writePump

hubVars == <<room, todo, cast, outbound>>

HubTypeOK(Message) ==
  /\ room \subseteq Conns
  /\ todo \in [Conns -> SUBSET Conns]
  /\ cast \in [Conns -> Message \union {NoMsg}]
  /\ outbound \in [Conns -> Seq(Message)]

HubInit ==
  /\ room = {}
  /\ todo = [c \in Conns |-> {}]
  /\ cast = [c \in Conns |-> NoMsg]
  /\ outbound = [c \in Conns |-> <<>>]

(****************************************************************************)
(* Client.send: never blocks, a full queue loses the message.               *)
(****************************************************************************)
Put(q, m) == IF Len(q) < OutboundCap THEN Append(q, m) ELSE q

SendTo(c, m) == outbound' = [outbound EXCEPT ![c] = Put(@, m)]

(****************************************************************************)
(* Goroutine c is between two steps of its own code exactly when it is not  *)
(* inside a room iteration.                                                 *)
(****************************************************************************)
Running(c) == todo[c] = {}

RoomRLocked == \E c \in Conns : todo[c] # {}

JoinRoom(c) ==
  /\ ~RoomRLocked
  /\ room' = room \union {c}
  /\ UNCHANGED <<todo, cast, outbound>>

\* Mutant: remove without the write lock of room.mu.
LeaveRoom_Unlocked(c) ==
  /\ room' = room \ {c}
  /\ outbound' = [outbound EXCEPT ![c] = <<>>]
  /\ UNCHANGED <<todo, cast>>

\* The Client becomes garbage with its queue: the slot is as newClient makes it.
LeaveRoom(c) ==
  /\ ~RoomRLocked
  /\ room' = room \ {c}
  /\ outbound' = [outbound EXCEPT ![c] = <<>>]
  /\ UNCHANGED <<todo, cast>>

\* Hub.Broadcast up to room.mu.RLock; the recipients are fixed from here on.
StartBroadcast(c, m) ==
  /\ todo' = [todo EXCEPT ![c] = room]
  /\ cast' = [cast EXCEPT ![c] = IF room = {} THEN NoMsg ELSE m]
  /\ UNCHANGED <<room, outbound>>

\* Mutant: send waits for room in the queue.
BroadcastTo_Blocking(c, d) ==
  /\ cast[c] # NoMsg
  /\ d \in todo[c]
  /\ Len(outbound[d]) < OutboundCap
  /\ SendTo(d, cast[c])
  /\ todo' = [todo EXCEPT ![c] = @ \ {d}]
  /\ cast' = [cast EXCEPT ![c] = IF todo[c] = {d} THEN NoMsg ELSE @]
  /\ UNCHANGED room

\* One turn of the loop in Room.broadcast, members in any order; the last one
\* also drops the read lock.
BroadcastTo(c, d) ==
  /\ cast[c] # NoMsg
  /\ d \in todo[c]
  /\ SendTo(d, cast[c])
  /\ todo' = [todo EXCEPT ![c] = @ \ {d}]
  /\ cast' = [cast EXCEPT ![c] = IF todo[c] = {d} THEN NoMsg ELSE @]
  /\ UNCHANGED room

\* GetRoomLocks takes room.mu.RLock and visits every member but the caller.
StartScan(c) ==
  /\ todo' = [todo EXCEPT ![c] = room \ {c}]
  /\ UNCHANGED <<room, cast, outbound>>

ScanNext(c, d) ==
  /\ d \in todo[c]
  /\ todo' = [todo EXCEPT ![c] = @ \ {d}]
  /\ UNCHANGED <<room, cast, outbound>>

\* c's writePump takes the oldest message; what the browser does with it is the
\* caller's business.
Dequeue(c) ==
  /\ outbound[c] # <<>>
  /\ outbound' = [outbound EXCEPT ![c] = Tail(@)]
  /\ UNCHANGED <<room, todo, cast>>

\* The process dies: every Room and Client is gone.
HubLost ==
  /\ room' = {}
  /\ todo' = [c \in Conns |-> {}]
  /\ cast' = [c \in Conns |-> NoMsg]
  /\ outbound' = [c \in Conns |-> <<>>]
================================================================================
