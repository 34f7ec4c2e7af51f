--------------------------- MODULE LockServiceProofs ---------------------------
(****************************************************************************)
(* Theorems about LockService, for any set of connections, blocks and       *)
(* tokens, any queue capacity and time to live, and every kind of fault.    *)
(****************************************************************************)
EXTENDS LockService, TLAPS

USE HubAssumption, LockStoreAssumption, LockServiceAssumption

--------------------------------------------------------------------------------
(* Helpers *)

(****************************************************************************)
(* A queue of messages stays one when send offers it a message.             *)
(****************************************************************************)
LEMMA PutType ==
  ASSUME NEW S, NEW q \in Seq(S), NEW m \in S
  PROVE  Put(q, m) \in Seq(S)
BY DEF Put

(****************************************************************************)
(* What the handlers send are messages.                                     *)
(****************************************************************************)
LEMMA MessageType ==
  /\ PageSnapshot \in Message
  /\ Error \in Message
  /\ \A b \in Blocks : LockReleased(b) \in Message
  /\ \A b \in Blocks, c \in Conns :
       /\ LockAcquired(b, UserOf[c]) \in Message
       /\ LockDenied(b, UserOf[c]) \in Message
BY DEF Message, PageSnapshot, Error, LockReleased, LockAcquired, LockDenied

--------------------------------------------------------------------------------
(* Type correctness, operation by operation *)

(****************************************************************************)
(* Every operation of the room keeps its variables in their types.          *)
(****************************************************************************)
RoomOK == HubTypeOK(Message)

LEMMA RoomStutter == RoomOK /\ UNCHANGED hubVars => RoomOK'
BY DEF RoomOK, HubTypeOK, hubVars

LEMMA RoomLost == HubLost => RoomOK'
<1>1. <<>> \in Seq(Message)
  OBVIOUS
<1> QED
  BY <1>1 DEF RoomOK, HubTypeOK, HubLost

LEMMA RoomMembers ==
  ASSUME RoomOK, NEW c \in Conns, JoinRoom(c) \/ LeaveRoom(c)
  PROVE  RoomOK'
<1>1. CASE JoinRoom(c)
  BY <1>1 DEF RoomOK, HubTypeOK, JoinRoom
<1>2. CASE LeaveRoom(c)
  <2>1. <<>> \in Seq(Message)
    OBVIOUS
  <2> QED
    BY <1>2, <2>1 DEF RoomOK, HubTypeOK, LeaveRoom
<1> QED
  BY <1>1, <1>2

LEMMA RoomScan ==
  ASSUME RoomOK, NEW c \in Conns, StartScan(c) \/ \E d \in Conns : ScanNext(c, d)
  PROVE  RoomOK'
<1>1. CASE StartScan(c)
  BY <1>1 DEF RoomOK, HubTypeOK, StartScan
<1>2. ASSUME NEW d \in Conns, ScanNext(c, d) PROVE RoomOK'
  BY <1>2 DEF RoomOK, HubTypeOK, ScanNext
<1> QED
  BY <1>1, <1>2

LEMMA RoomDequeue ==
  ASSUME RoomOK, NEW c \in Conns, Dequeue(c)
  PROVE  RoomOK'
<1>1. Tail(outbound[c]) \in Seq(Message)
  BY DEF RoomOK, HubTypeOK, Dequeue
<1> QED
  BY <1>1 DEF RoomOK, HubTypeOK, Dequeue

LEMMA RoomSend ==
  ASSUME RoomOK, NEW c \in Conns, NEW m \in Message,
         SendTo(c, m), UNCHANGED <<room, todo, cast>>
  PROVE  RoomOK'
<1>1. Put(outbound[c], m) \in Seq(Message)
  BY PutType DEF RoomOK, HubTypeOK
<1> QED
  BY <1>1 DEF RoomOK, HubTypeOK, SendTo

LEMMA RoomBroadcast ==
  ASSUME RoomOK, NEW c \in Conns, NEW m \in Message, StartBroadcast(c, m)
  PROVE  RoomOK'
BY DEF RoomOK, HubTypeOK, StartBroadcast

LEMMA RoomDeliver ==
  ASSUME RoomOK, NEW c \in Conns, NEW d \in Conns, BroadcastTo(c, d)
  PROVE  RoomOK'
<1>1. Put(outbound[d], cast[c]) \in Seq(Message)
  BY PutType DEF RoomOK, HubTypeOK, BroadcastTo
<1> QED
  BY <1>1 DEF RoomOK, HubTypeOK, BroadcastTo, SendTo

(****************************************************************************)
(* Every operation on a key keeps the store in its type, the time to live   *)
(* with it.                                                                 *)
(****************************************************************************)
LEMMA StoreStutter == StoreTypeOK /\ UNCHANGED storeVars => StoreTypeOK'
BY DEF StoreTypeOK, storeVars

LEMMA StoreCall ==
  ASSUME StoreTypeOK, NEW b \in Blocks, NEW t \in Tokens,
         Acquired(b, t) \/ Renewed(b, t) \/ Released(b, t)
  PROVE  StoreTypeOK'
BY DEF StoreTypeOK, Acquired, Renewed, Released, Set

LEMMA StoreAge ==
  ASSUME StoreTypeOK, NEW b \in Blocks, Age(b)
  PROVE  StoreTypeOK'
BY DEF StoreTypeOK, Set, Age

(****************************************************************************)
(* A goroutine moves to a place with the locals that place needs.           *)
(****************************************************************************)
OpOK ==
  /\ op \in [Conns -> [at : Place, block : Blocks \union {NoBlock},
                      token : Tokens \union {NoToken}]]
  /\ Locals

LEMMA OpStutter == OpOK /\ UNCHANGED op => OpOK'
BY DEF OpOK, Locals

LEMMA OpGoto ==
  ASSUME OpOK, NEW c \in Conns, NEW p \in Place \ WithBlock, Goto(c, p)
  PROVE  OpOK'
BY DEF OpOK, Place, WithBlock, Locals, Goto, GotoOn, GotoWith

LEMMA OpGotoOn ==
  ASSUME OpOK, NEW c \in Conns, NEW p \in WithBlock \ {"add"}, NEW b \in Blocks,
         GotoOn(c, p, b)
  PROVE  OpOK'
BY DEF OpOK, Place, WithBlock, Locals, GotoOn, GotoWith

LEMMA OpGotoAdd ==
  ASSUME OpOK, NEW c \in Conns, NEW b \in Blocks, NEW t \in Tokens,
         GotoWith(c, "add", b, t)
  PROVE  OpOK'
BY DEF OpOK, Place, WithBlock, Locals, GotoWith

(****************************************************************************)
(* The remembered tokens, the lock snapshots and the two histories.         *)
(****************************************************************************)
TablesOK ==
  /\ owned \in [Conns -> [Blocks -> Tokens \union {NoToken}]]
  /\ drained \in [Conns -> [Blocks -> Tokens \union {NoToken}]]
  /\ snap \in [Conns -> SUBSET (Conns \X Blocks)]
  /\ minted \in [Conns -> SUBSET Tokens]
  /\ abandoned \subseteq Tokens

TypeInv == RoomOK /\ StoreTypeOK /\ OpOK /\ TablesOK

LEMMA TypeParts == TypeInv <=> TypeOK /\ Locals
BY DEF TypeInv, TypeOK, RoomOK, OpOK, TablesOK

(****************************************************************************)
(* Every step keeps the variables in their types, and Locals with them: a   *)
(* handler that is about to use its block has one.                          *)
(****************************************************************************)
LEMMA TypeStep ==
  ASSUME TypeInv, [Next]_vars
  PROVE  TypeInv'
<1>a. RoomOK /\ StoreTypeOK /\ OpOK /\ TablesOK
  BY DEF TypeInv
<1>b. \A c \in Conns :
        /\ op[c].at \in WithBlock => op[c].block \in Blocks
        /\ op[c].at = "add" => op[c].token \in Tokens
  BY <1>a DEF OpOK, Locals
<1>c. \A c \in Conns, b \in Blocks :
        /\ owned[c][b] \in Tokens \union {NoToken}
        /\ drained[c][b] \in Tokens \union {NoToken}
  BY <1>a DEF TablesOK
<1> USE <1>a DEF serverVars, At, Place, WithBlock, TypeInv
<1>1. ASSUME UNCHANGED vars PROVE TypeInv'
  BY <1>1, RoomStutter, StoreStutter, OpStutter
  DEF TablesOK, vars
<1>2. ASSUME Restart PROVE TypeInv'
  BY <1>2, RoomLost, StoreStutter
  DEF Restart, OpOK, Locals, Off, TablesOK, NoLocks
<1>3. ASSUME NEW b \in Blocks, Expire(b) PROVE TypeInv'
  BY <1>3, RoomStutter, StoreAge, OpStutter
  DEF Expire, TablesOK
<1>4. ASSUME NEW c \in Conns, Connect(c) PROVE TypeInv'
  BY <1>4, RoomMembers, StoreStutter, OpGoto
  DEF Connect, TablesOK
<1>5. ASSUME NEW c \in Conns, Leave(c) PROVE TypeInv'
  BY <1>5, RoomMembers, StoreStutter, OpGoto
  DEF Leave, TablesOK
<1>6. ASSUME NEW c \in Conns, WritePump(c) PROVE TypeInv'
  BY <1>6, RoomDequeue, StoreStutter, OpStutter
  DEF WritePump, TablesOK
<1>7. ASSUME NEW c \in Conns, SendPage(c) PROVE TypeInv'
  BY <1>7, MessageType, RoomSend, StoreStutter, OpGoto
  DEF SendPage, TablesOK
<1>8. ASSUME NEW c \in Conns, GetRoomLocks(c) PROVE TypeInv'
  BY <1>8, RoomScan, StoreStutter, OpGoto
  DEF GetRoomLocks, TablesOK
<1>9. ASSUME NEW c \in Conns, NEW d \in Conns, ScanClient(c, d) PROVE TypeInv'
  BY <1>9, RoomScan, StoreStutter, OpStutter
  DEF ScanClient, TablesOK
<1>10. ASSUME NEW c \in Conns, NEW d \in Conns, NEW b \in Blocks, SendLock(c, d, b)
      PROVE TypeInv'
  BY <1>10, MessageType, RoomSend, StoreStutter, OpStutter
  DEF SendLock, TablesOK
<1>11. ASSUME NEW c \in Conns, EnterReadPump(c) PROVE TypeInv'
  BY <1>11, RoomStutter, StoreStutter, OpGoto
  DEF EnterReadPump, TablesOK
<1>12. ASSUME NEW c \in Conns, NEW b \in Blocks, NEW t \in Tokens, AcquireGranted(c, b, t)
      PROVE TypeInv'
  BY <1>12, RoomStutter, StoreCall, OpGotoAdd
  DEF AcquireGranted, TablesOK, Mint
<1>13. ASSUME NEW c \in Conns, NEW b \in Blocks, AcquireRefused(c, b)
      PROVE TypeInv'
  BY <1>13, RoomStutter, StoreStutter, OpGotoOn
  DEF AcquireRefused, TablesOK, NotAcquired
<1>14. ASSUME NEW c \in Conns, NEW b \in Blocks, NEW t \in Tokens, AcquireLost(c, b, t)
      PROVE TypeInv'
  BY <1>14, RoomStutter, StoreCall, OpGoto, OpGotoOn
  DEF AcquireLost, TablesOK, Mint
<1>15. ASSUME NEW c \in Conns, RecordLock(c) PROVE TypeInv'
  BY <1>15, <1>b, RoomStutter, StoreStutter, OpGotoOn
  DEF RecordLock, TablesOK, AddLock
<1>16. ASSUME NEW c \in Conns, BroadcastAcquired(c) PROVE TypeInv'
  BY <1>16, <1>b, MessageType, RoomBroadcast, StoreStutter, OpGoto
  DEF BroadcastAcquired, TablesOK
<1>17. ASSUME NEW c \in Conns, SendDenied(c) PROVE TypeInv'
  BY <1>17, <1>b, MessageType, RoomSend, StoreStutter, OpGoto
  DEF SendDenied, TablesOK
<1>18. ASSUME NEW c \in Conns, NEW b \in Blocks, RenewUnowned(c, b)
      PROVE TypeInv'
  BY <1>18, RoomStutter, StoreStutter, OpGoto
  DEF RenewUnowned, TablesOK
<1>19. ASSUME NEW c \in Conns, NEW b \in Blocks, RenewGranted(c, b)
      PROVE TypeInv'
  BY <1>19, <1>c, RoomStutter, StoreCall, OpStutter
  DEF RenewGranted, TablesOK
<1>20. ASSUME NEW c \in Conns, NEW b \in Blocks, RenewRefused(c, b)
      PROVE TypeInv'
  BY <1>20, RoomStutter, StoreStutter, OpGotoOn
  DEF RenewRefused, TablesOK, NotRenewed
<1>21. ASSUME NEW c \in Conns, NEW b \in Blocks, RenewLost(c, b)
      PROVE TypeInv'
  BY <1>21, <1>c, RoomStutter, StoreCall, OpGoto
  DEF RenewLost, TablesOK
<1>22. ASSUME NEW c \in Conns, ForgetExpired(c) PROVE TypeInv'
  BY <1>22, <1>b, RoomStutter, StoreStutter, OpGoto
  DEF ForgetExpired, TablesOK, RemoveLock
<1>23. ASSUME NEW c \in Conns, NEW b \in Blocks, UnlockGranted(c, b)
      PROVE TypeInv'
  BY <1>23, <1>c, RoomStutter, StoreCall, OpGotoOn
  DEF UnlockGranted, TablesOK
<1>24. ASSUME NEW c \in Conns, NEW b \in Blocks, UnlockRefused(c, b)
      PROVE TypeInv'
  BY <1>24, RoomStutter, StoreStutter, OpGotoOn
  DEF UnlockRefused, TablesOK, NotReleased
<1>25. ASSUME NEW c \in Conns, NEW b \in Blocks, UnlockLost(c, b)
      PROVE TypeInv'
  BY <1>25, <1>c, RoomStutter, StoreCall, OpGoto
  DEF UnlockLost, TablesOK
<1>26. ASSUME NEW c \in Conns, ForgetUnlocked(c) PROVE TypeInv'
  BY <1>26, <1>b, RoomStutter, StoreStutter, OpGoto, OpGotoOn
  DEF ForgetUnlocked, TablesOK, RemoveLock
<1>27. ASSUME NEW c \in Conns, BroadcastReleased(c) PROVE TypeInv'
  BY <1>27, <1>b, MessageType, RoomBroadcast, StoreStutter, OpGoto
  DEF BroadcastReleased, TablesOK
<1>28. ASSUME NEW c \in Conns, Rejected(c) PROVE TypeInv'
  BY <1>28, RoomStutter, StoreStutter, OpGoto
  DEF Rejected, TablesOK
<1>29. ASSUME NEW c \in Conns, SendError(c) PROVE TypeInv'
  BY <1>29, MessageType, RoomSend, StoreStutter, OpGoto
  DEF SendError, TablesOK
<1>30. ASSUME NEW c \in Conns, Disconnect(c) PROVE TypeInv'
  BY <1>30, <1>c, RoomStutter, StoreStutter, OpGoto
  DEF Disconnect, TablesOK, NoLocks
<1>31. ASSUME NEW c \in Conns, NEW b \in Blocks, DrainGranted(c, b)
      PROVE TypeInv'
  BY <1>31, <1>c, RoomStutter, StoreCall, OpGotoOn
  DEF DrainGranted, TablesOK, Drop
<1>32. ASSUME NEW c \in Conns, NEW b \in Blocks, DrainRefused(c, b)
      PROVE TypeInv'
  BY <1>32, RoomStutter, StoreStutter, OpStutter
  DEF DrainRefused, TablesOK, NotReleased, Drop
<1>33. ASSUME NEW c \in Conns, NEW b \in Blocks, DrainFailed(c, b)
      PROVE TypeInv'
  BY <1>33, <1>c, RoomStutter, StoreStutter, StoreCall, OpStutter
  DEF DrainFailed, TablesOK, Drop
<1>34. ASSUME NEW c \in Conns, BroadcastDrained(c) PROVE TypeInv'
  BY <1>34, <1>b, MessageType, RoomBroadcast, StoreStutter, OpGoto
  DEF BroadcastDrained, TablesOK
<1>35. ASSUME NEW c \in Conns, NEW d \in Conns, Deliver(c, d) PROVE TypeInv'
  BY <1>35, RoomDeliver, StoreStutter, OpStutter
  DEF Deliver, TablesOK
<1> QED
  BY <1>1, <1>2, <1>3, <1>4, <1>5, <1>6, <1>7, <1>8, <1>9, <1>10, <1>11, <1>12,
     <1>13, <1>14, <1>15, <1>16, <1>17, <1>18, <1>19, <1>20, <1>21, <1>22,
     <1>23, <1>24, <1>25, <1>26, <1>27, <1>28, <1>29, <1>30, <1>31, <1>32,
     <1>33, <1>34, <1>35
  DEF Next, Serve, Request

(****************************************************************************)
(* The variables keep their types in every behaviour.                       *)
(****************************************************************************)
THEOREM TypeCorrect == Spec => []TypeOK
<1>1. Init => TypeInv
  <2>1. <<>> \in Seq(Message)
    OBVIOUS
  <2>2. ASSUME Init PROVE RoomOK
    BY <2>1, <2>2 DEF Init, HubInit, RoomOK, HubTypeOK
  <2>3. ASSUME Init PROVE StoreTypeOK /\ OpOK /\ TablesOK
    BY <2>3
      DEF Init, StoreInit, StoreTypeOK, OpOK, Locals, Off, Place, WithBlock,
      TablesOK, NoLocks
  <2> QED
    BY <2>2, <2>3 DEF TypeInv
<1>2. TypeInv /\ [Next]_vars => TypeInv'
  BY TypeStep
<1>3. TypeInv => TypeOK
  BY TypeParts
<1> QED
  BY <1>1, <1>2, <1>3, PTL DEF Spec

--------------------------------------------------------------------------------
(* Locks *)

(****************************************************************************)
(* Every step keeps the lock invariant.                                     *)
(****************************************************************************)
Placed == Minting /\ Overwritable /\ Phases /\ LockAccounted

LEMMA LockStep ==
  ASSUME TypeInv, TypeInv', Placed, [Next]_vars
  PROVE  Placed'
<1>a. /\ op \in [Conns -> [at : Place, block : Blocks \union {NoBlock},
                          token : Tokens \union {NoToken}]]
      /\ TablesOK
      /\ key \in [Blocks -> Tokens \union {NoToken}]
  BY DEF TypeInv, OpOK, StoreTypeOK
<1>b. \A c \in Conns :
        /\ op[c].at \in WithBlock => op[c].block \in Blocks
        /\ op[c].at = "add" <=> op[c].token # NoToken
  BY DEF TypeInv, OpOK, Locals
<1> USE <1>a, <1>b
      DEF At, WithBlock, Goto, GotoOn, GotoWith, TablesOK, Placed, Minting,
          Overwritable, Phases,
      LockAccounted, NoLocks
<1>1. ASSUME UNCHANGED vars PROVE Placed'
  BY <1>1
  DEF vars, serverVars, storeVars
<1>2. ASSUME Restart PROVE Placed'
  BY <1>2
  DEF Restart, Off, serverVars, storeVars
<1>3. ASSUME NEW b \in Blocks, Expire(b) PROVE Placed'
  <2>1. \A x \in Blocks : key'[x] = key[x] \/ key'[x] = NoToken
    BY <1>3 DEF Expire, Age, Set
  <2>2. UNCHANGED <<op, owned, drained, minted, abandoned>>
    BY <1>3 DEF Expire, serverVars
  <2>3. \A d \in Conns : NoToken \notin minted[d]
    OBVIOUS
  <2>4. Minting'
    BY <2>1, <2>2
  <2>5. Overwritable'
    <3>1. \A d \in Conns :
            op[d].at \in {"add", "expired", "remove", "forget"} => op[d].block \in Blocks
      OBVIOUS
    <3> QED
      BY <2>1, <2>2, <2>3, <3>1
  <2>6. Phases'
    BY <2>2
  <2>7. LockAccounted'
    BY <2>1, <2>2, <2>3
  <2> QED
    BY <2>4, <2>5, <2>6, <2>7
<1>4. ASSUME NEW c \in Conns, Connect(c) PROVE Placed'
  BY <1>4
  DEF Connect, serverVars, storeVars
<1>5. ASSUME NEW c \in Conns, Leave(c) PROVE Placed'
  BY <1>5
  DEF Leave, serverVars, storeVars
<1>6. ASSUME NEW c \in Conns, WritePump(c) PROVE Placed'
  BY <1>6
  DEF WritePump, serverVars, storeVars
<1>7. ASSUME NEW c \in Conns, SendPage(c) PROVE Placed'
  BY <1>7
  DEF SendPage, serverVars, storeVars
<1>8. ASSUME NEW c \in Conns, GetRoomLocks(c) PROVE Placed'
  BY <1>8
  DEF GetRoomLocks, serverVars, storeVars
<1>9. ASSUME NEW c \in Conns, NEW d \in Conns, ScanClient(c, d) PROVE Placed'
  BY <1>9
  DEF ScanClient, serverVars, storeVars
<1>10. ASSUME NEW c \in Conns, NEW d \in Conns, NEW b \in Blocks, SendLock(c, d, b)
      PROVE Placed'
  BY <1>10
  DEF SendLock, serverVars, storeVars
<1>11. ASSUME NEW c \in Conns, EnterReadPump(c) PROVE Placed'
  BY <1>11
  DEF EnterReadPump, serverVars, storeVars
<1>12. ASSUME NEW c \in Conns, NEW b \in Blocks, NEW t \in Tokens, AcquireGranted(c, b, t)
      PROVE Placed'
  <2>1. /\ \A d \in Conns : t \notin minted[d]
        /\ key[b] = NoToken
        /\ key' = [key EXCEPT ![b] = t]
        /\ minted' = [minted EXCEPT ![c] = @ \union {t}]
        /\ UNCHANGED <<owned, drained>>
        /\ op[c].at = "ready"
    BY <1>12 DEF AcquireGranted, Acquired, Set, Mint, Fresh
  <2>2. /\ UNCHANGED abandoned
        /\ op' = [op EXCEPT ![c] = [at |-> "add", block |-> b, token |-> t]]
    BY <1>12 DEF AcquireGranted
  <2>3. \A d \in Conns : minted[d] \subseteq minted'[d] /\ minted'[d] \subseteq minted[d] \union {t}
    BY <2>1
  <2>4. \A d \in Conns : t \in minted'[d] => d = c
    BY <2>1
  <2>5. Minting'
    <3>1. \A d, e \in Conns : d # e => minted'[d] \intersect minted'[e] = {}
      <4>1. SUFFICES ASSUME NEW d \in Conns, NEW e \in Conns, d # e, NEW x,
                            x \in minted'[d], x \in minted'[e]
                     PROVE  FALSE
        OBVIOUS
      <4>2. x # t
        BY <2>4, <4>1
      <4>3. x \in minted[d] \intersect minted[e]
        BY <2>3, <4>1, <4>2
      <4> QED
        BY <4>1, <4>3
    <3>2. \A x \in Blocks : key'[x] # NoToken => \E d \in Conns : key'[x] \in minted'[d]
      <4>1. t \in minted'[c] /\ key'[b] = t
        BY <2>1
      <4>2. ASSUME NEW x \in Blocks \ {b}, key'[x] # NoToken
            PROVE  \E d \in Conns : key'[x] \in minted'[d]
        <5>1. key'[x] = key[x]
          BY <2>1
        <5>2. PICK d \in Conns : key[x] \in minted[d]
          BY <4>2, <5>1
        <5> QED
          BY <5>1, <5>2, <2>3
      <4> QED
        BY <4>1, <4>2
    <3>3. \A d \in Conns : op'[d].token \in minted'[d] \union {NoToken}
      BY <2>1, <2>2, <2>3
    <3>4. \A d \in Conns, x \in Blocks :
            {owned'[d][x], drained'[d][x]} \subseteq minted'[d] \union {NoToken}
      BY <2>1, <2>3
    <3> QED
      BY <3>1, <3>2, <3>3, <3>4
  <2>6. Overwritable'
    BY <2>1, <2>2
  <2>7. Phases'
    BY <2>1, <2>2
  <2>8. LockAccounted'
    BY <2>1, <2>2
  <2> QED
    BY <2>5, <2>6, <2>7, <2>8
<1>13. ASSUME NEW c \in Conns, NEW b \in Blocks, AcquireRefused(c, b)
      PROVE Placed'
  BY <1>13
  DEF AcquireRefused, NotAcquired, serverVars, storeVars
<1>14. ASSUME NEW c \in Conns, NEW b \in Blocks, NEW t \in Tokens, AcquireLost(c, b, t)
      PROVE Placed'
  <2>1. /\ \A d \in Conns : t \notin minted[d]
        /\ key[b] = NoToken
        /\ key' = [key EXCEPT ![b] = t]
        /\ minted' = [minted EXCEPT ![c] = @ \union {t}]
        /\ UNCHANGED <<owned, drained>>
        /\ op[c].at = "ready"
    BY <1>14 DEF AcquireLost, Acquired, Set, Mint, Fresh
  <2>2. /\ abandoned' = abandoned \union {t}
        /\ \/ op' = [op EXCEPT ![c] = [at |-> "fail", block |-> NoBlock, token |-> NoToken]]
           \/ op' = [op EXCEPT ![c] = [at |-> "deny", block |-> b, token |-> NoToken]]
    BY <1>14 DEF AcquireLost
  <2>3. \A d \in Conns : minted[d] \subseteq minted'[d] /\ minted'[d] \subseteq minted[d] \union {t}
    BY <2>1
  <2>4. \A d \in Conns : t \in minted'[d] => d = c
    BY <2>1
  <2>5. Minting'
    <3>1. \A d, e \in Conns : d # e => minted'[d] \intersect minted'[e] = {}
      <4>1. SUFFICES ASSUME NEW d \in Conns, NEW e \in Conns, d # e, NEW x,
                            x \in minted'[d], x \in minted'[e]
                     PROVE  FALSE
        OBVIOUS
      <4>2. x # t
        BY <2>4, <4>1
      <4>3. x \in minted[d] \intersect minted[e]
        BY <2>3, <4>1, <4>2
      <4> QED
        BY <4>1, <4>3
    <3>2. \A x \in Blocks : key'[x] # NoToken => \E d \in Conns : key'[x] \in minted'[d]
      <4>1. t \in minted'[c] /\ key'[b] = t
        BY <2>1
      <4>2. ASSUME NEW x \in Blocks \ {b}, key'[x] # NoToken
            PROVE  \E d \in Conns : key'[x] \in minted'[d]
        <5>1. key'[x] = key[x]
          BY <2>1
        <5>2. PICK d \in Conns : key[x] \in minted[d]
          BY <4>2, <5>1
        <5> QED
          BY <5>1, <5>2, <2>3
      <4> QED
        BY <4>1, <4>2
    <3>3. \A d \in Conns : op'[d].token \in minted'[d] \union {NoToken}
      BY <2>1, <2>2, <2>3
    <3>4. \A d \in Conns, x \in Blocks :
            {owned'[d][x], drained'[d][x]} \subseteq minted'[d] \union {NoToken}
      BY <2>1, <2>3
    <3> QED
      BY <3>1, <3>2, <3>3, <3>4
  <2>9. /\ op'[c].at \in {"fail", "deny"}
        /\ \A d \in Conns : d # c => op'[d] = op[d]
    BY <2>2
  <2>6. Overwritable'
    <3>1. CASE op' = [op EXCEPT ![c] = [at |-> "fail", block |-> NoBlock, token |-> NoToken]]
      BY <2>1, <3>1
    <3>2. CASE op' = [op EXCEPT ![c] = [at |-> "deny", block |-> b, token |-> NoToken]]
      BY <2>1, <3>2
    <3> QED
      BY <2>2, <3>1, <3>2
  <2>7. Phases'
    <3>1. drained[c] = NoLocks
      BY <2>1
    <3> QED
      BY <2>1, <2>9, <3>1
  <2>8. LockAccounted'
    BY <2>1, <2>2
  <2> QED
    BY <2>5, <2>6, <2>7, <2>8
<1>15. ASSUME NEW c \in Conns, RecordLock(c) PROVE Placed'
  BY <1>15
  DEF RecordLock, AddLock, serverVars, storeVars
<1>16. ASSUME NEW c \in Conns, BroadcastAcquired(c) PROVE Placed'
  BY <1>16
  DEF BroadcastAcquired, serverVars, storeVars
<1>17. ASSUME NEW c \in Conns, SendDenied(c) PROVE Placed'
  BY <1>17
  DEF SendDenied, serverVars, storeVars
<1>18. ASSUME NEW c \in Conns, NEW b \in Blocks, RenewUnowned(c, b)
      PROVE Placed'
  BY <1>18
  DEF RenewUnowned, serverVars, storeVars
<1>19. ASSUME NEW c \in Conns, NEW b \in Blocks, RenewGranted(c, b)
      PROVE Placed'
  BY <1>19
  DEF RenewGranted, Renewed, Set, serverVars, storeVars
<1>20. ASSUME NEW c \in Conns, NEW b \in Blocks, RenewRefused(c, b)
      PROVE Placed'
  BY <1>20
  DEF RenewRefused, NotRenewed, serverVars, storeVars
<1>21. ASSUME NEW c \in Conns, NEW b \in Blocks, RenewLost(c, b) PROVE Placed'
  BY <1>21
  DEF RenewLost, Renewed, Set, serverVars, storeVars
<1>22. ASSUME NEW c \in Conns, ForgetExpired(c) PROVE Placed'
  BY <1>22
  DEF ForgetExpired, RemoveLock, serverVars, storeVars
<1>23. ASSUME NEW c \in Conns, NEW b \in Blocks, UnlockGranted(c, b)
      PROVE Placed'
  BY <1>23
  DEF UnlockGranted, Released, Set, serverVars, storeVars
<1>24. ASSUME NEW c \in Conns, NEW b \in Blocks, UnlockRefused(c, b)
      PROVE Placed'
  BY <1>24
  DEF UnlockRefused, NotReleased, serverVars, storeVars
<1>25. ASSUME NEW c \in Conns, NEW b \in Blocks, UnlockLost(c, b)
      PROVE Placed'
  BY <1>25
  DEF UnlockLost, Released, Set, serverVars, storeVars
<1>26. ASSUME NEW c \in Conns, ForgetUnlocked(c) PROVE Placed'
  <2> DEFINE b == op[c].block
  <2>1. /\ op[c].at \in {"remove", "forget"}
        /\ owned' = [owned EXCEPT ![c][b] = NoToken]
        /\ UNCHANGED <<key, drained, minted, abandoned>>
    BY <1>26 DEF ForgetUnlocked, RemoveLock, storeVars
  <2>2. \/ op' = [op EXCEPT ![c] = [at |-> "released", block |-> b, token |-> NoToken]]
        \/ op' = [op EXCEPT ![c] = [at |-> "ready", block |-> NoBlock, token |-> NoToken]]
    BY <1>26 DEF ForgetUnlocked
  <2>3. b \in Blocks
    BY <2>1
  <2>4. Minting'
    BY <2>1, <2>2, <2>3
  <2>5. Overwritable'
    <3>1. \A d \in Conns \ {c} : op'[d] = op[d] /\ owned'[d] = owned[d]
      BY <2>1, <2>2
    <3>2. op'[c].at \notin {"add", "expired", "remove", "forget"}
      BY <2>2
    <3>3. UNCHANGED <<key, minted>>
      BY <2>1
    <3>4. ASSUME NEW d \in Conns \ {c}
          PROVE  /\ op'[d].at = "add" /\ key'[op'[d].block] \in minted'[d] =>
                      key'[op'[d].block] = op'[d].token
                 /\ op'[d].at \in {"add", "expired", "remove", "forget"} =>
                      \/ owned'[d][op'[d].block] = NoToken
                      \/ owned'[d][op'[d].block] # key'[op'[d].block]
      <4>1. /\ op'[d] = op[d]
            /\ owned'[d] = owned[d]
            /\ key' = key
            /\ minted' = minted
        BY <3>1, <3>3
      <4>2. /\ op[d].at = "add" /\ key[op[d].block] \in minted[d] =>
                 key[op[d].block] = op[d].token
            /\ op[d].at \in {"add", "expired", "remove", "forget"} =>
                 \/ owned[d][op[d].block] = NoToken
                 \/ owned[d][op[d].block] # key[op[d].block]
        OBVIOUS
      <4> QED
        BY ONLY <4>1, <4>2
    <3> QED
      BY <3>2, <3>4
  <2>6. Phases'
    BY <2>1, <2>2, <2>3
  <2>7. LockAccounted'
    <3>1. \A d \in Conns, x \in Blocks : <<d, x>> # <<c, b>> => owned'[d][x] = owned[d][x]
      BY <2>1, <2>3
    <3>2. \A d \in Conns : op[d].at = "add" => op'[d] = op[d]
      BY <2>1, <2>2
    <3>3. key[b] \in minted[c] => owned[c][b] # key[b]
      BY <2>1, <2>3
    <3> QED
      BY <2>1, <3>1, <3>2, <3>3
  <2> QED
    BY <2>4, <2>5, <2>6, <2>7
<1>27. ASSUME NEW c \in Conns, BroadcastReleased(c) PROVE Placed'
  BY <1>27
  DEF BroadcastReleased, serverVars, storeVars
<1>28. ASSUME NEW c \in Conns, Rejected(c) PROVE Placed'
  BY <1>28
  DEF Rejected, serverVars, storeVars
<1>29. ASSUME NEW c \in Conns, SendError(c) PROVE Placed'
  BY <1>29
  DEF SendError, serverVars, storeVars
<1>30. ASSUME NEW c \in Conns, Disconnect(c) PROVE Placed'
  <2>1. /\ op[c].at = "ready"
        /\ drained' = [drained EXCEPT ![c] = owned[c]]
        /\ owned' = [owned EXCEPT ![c] = NoLocks]
        /\ op' = [op EXCEPT ![c] = [at |-> "drain", block |-> NoBlock, token |-> NoToken]]
        /\ UNCHANGED <<key, minted, abandoned>>
    BY <1>30 DEF Disconnect, storeVars
  <2>2. Minting'
    BY <2>1
  <2>3. Overwritable'
    BY <2>1
  <2>4. Phases'
    BY <2>1
  <2>5. LockAccounted'
    <3>1. \A x \in Blocks : drained[c][x] = NoToken /\ drained'[c][x] = owned[c][x]
      BY <2>1
    <3>2. \A d \in Conns \ {c} :
            op'[d] = op[d] /\ owned'[d] = owned[d] /\ drained'[d] = drained[d]
      BY <2>1
    <3>3. \A x \in Blocks : key[x] \in minted[c] => key[x] # NoToken
      OBVIOUS
    <3> QED
      BY <2>1, <3>1, <3>2, <3>3
  <2> QED
    BY <2>2, <2>3, <2>4, <2>5
<1>31. ASSUME NEW c \in Conns, NEW b \in Blocks, DrainGranted(c, b)
      PROVE Placed'
  BY <1>31
  DEF DrainGranted, Released, Set, Drop, serverVars, storeVars
<1>32. ASSUME NEW c \in Conns, NEW b \in Blocks, DrainRefused(c, b)
      PROVE Placed'
  BY <1>32
  DEF DrainRefused, NotReleased, Drop, serverVars, storeVars
<1>33. ASSUME NEW c \in Conns, NEW b \in Blocks, DrainFailed(c, b)
      PROVE Placed'
  BY <1>33
  DEF DrainFailed, Released, Set, Drop, serverVars, storeVars
<1>34. ASSUME NEW c \in Conns, BroadcastDrained(c) PROVE Placed'
  BY <1>34
  DEF BroadcastDrained, serverVars, storeVars
<1>35. ASSUME NEW c \in Conns, NEW d \in Conns, Deliver(c, d) PROVE Placed'
  BY <1>35
  DEF Deliver, serverVars, storeVars
<1> QED
  BY <1>1, <1>2, <1>3, <1>4, <1>5, <1>6, <1>7, <1>8, <1>9, <1>10, <1>11, <1>12,
     <1>13, <1>14, <1>15, <1>16, <1>17, <1>18, <1>19, <1>20, <1>21, <1>22,
     <1>23, <1>24, <1>25, <1>26, <1>27, <1>28, <1>29, <1>30, <1>31, <1>32,
     <1>33, <1>34, <1>35
  DEF Next, Serve, Request

(****************************************************************************)
(* Locks start out accounted for.                                           *)
(****************************************************************************)
LEMMA LockInit == Init => TypeInv /\ Placed
<1>1. <<>> \in Seq(Message)
  OBVIOUS
<1>2. ASSUME Init PROVE RoomOK
  BY <1>1, <1>2 DEF Init, HubInit, RoomOK, HubTypeOK
<1>3. ASSUME Init PROVE StoreTypeOK /\ OpOK /\ TablesOK
  BY <1>3 DEF Init, StoreInit, StoreTypeOK, OpOK, Locals, Off, Place, WithBlock,
    TablesOK, NoLocks
<1>4. ASSUME Init PROVE Placed
  BY <1>4
    DEF Init, StoreInit, Off, NoLocks, Placed, Minting, Overwritable, Phases,
    LockAccounted
<1> QED
  BY <1>2, <1>3, <1>4 DEF TypeInv

(****************************************************************************)
(* The inductive invariant holds in every behaviour.                        *)
(****************************************************************************)
THEOREM LockInvariant == Spec => []LockInv
<1>1. TypeInv /\ Placed /\ [Next]_vars => TypeInv' /\ Placed'
  BY TypeStep, LockStep
<1>2. TypeInv /\ Placed => LockInv
  BY DEF TypeInv, OpOK, Placed, LockInv
<1> QED
  BY LockInit, <1>1, <1>2, PTL DEF Spec

(****************************************************************************)
(* No lock is leaked: each key in Redis is remembered by the connection     *)
(* that minted its token, or a fault cut it loose.                          *)
(****************************************************************************)
THEOREM NoLeak == Spec => []LockAccounted
<1>1. LockInv => LockAccounted
  BY DEF LockInv
<1> QED
  BY LockInvariant, <1>1, PTL

(****************************************************************************)
(* A key with a token is removed early by its minter only, and never        *)
(* overwritten.                                                             *)
(****************************************************************************)
THEOREM NoEviction == Spec => NoForeignEviction
<1> DEFINE Kept(b) == key[b] # NoToken /\ key'[b] # key[b] =>
         /\ key'[b] = NoToken
         /\ \/ ttl[b] = 1
            \/ \E c \in Conns :
                 /\ key[b] \in minted[c]
                 /\ key[b] \in {owned[c][b], drained[c][b]}
                 /\ <<op[c], drained[c]>> # <<op'[c], drained'[c]>>
<1>1. ASSUME TypeInv, Placed, [Next]_vars, NEW b \in Blocks PROVE Kept(b)
  <2>a. /\ op \in [Conns -> [at : Place, block : Blocks \union {NoBlock},
                            token : Tokens \union {NoToken}]]
        /\ TablesOK
        /\ key \in [Blocks -> Tokens \union {NoToken}]
    BY <1>1 DEF TypeInv, OpOK, StoreTypeOK
  <2>b. \A c \in Conns :
          {owned[c][b], drained[c][b]} \subseteq minted[c] \union {NoToken}
    BY <1>1 DEF Placed, Minting
  <2> USE <2>a DEF TablesOK, At, Set, Goto, GotoOn, GotoWith
  <2>1. CASE key' = key
    BY <2>1
  <2>2. ASSUME NEW x \in Blocks, Expire(x) PROVE Kept(b)
    BY <2>2 DEF Expire, Age
  <2>3. ASSUME NEW c \in Conns, NEW x \in Blocks, NEW t \in Tokens, Acquired(x, t)
        PROVE  Kept(b)
    BY <2>3 DEF Acquired
  <2>4. ASSUME NEW c \in Conns, NEW x \in Blocks, UnlockGranted(c, x)
        PROVE  Kept(b)
    BY <2>4, <2>b DEF UnlockGranted, Released
  <2>5. ASSUME NEW c \in Conns, NEW x \in Blocks, UnlockLost(c, x)
        PROVE  Kept(b)
    BY <2>5, <2>b DEF UnlockLost, Released
  <2>6. ASSUME NEW c \in Conns, NEW x \in Blocks, DrainGranted(c, x)
        PROVE  Kept(b)
    BY <2>6, <2>b DEF DrainGranted, Released, Drop
  <2>7. ASSUME NEW c \in Conns, NEW x \in Blocks, DrainFailed(c, x)
        PROVE  Kept(b)
    BY <2>7, <2>b DEF DrainFailed, Released, Drop, storeVars
  <2>8. ASSUME NEW c \in Conns, NEW x \in Blocks, RenewGranted(c, x) \/ RenewLost(c, x)
        PROVE  key' = key
    BY <2>8 DEF RenewGranted, RenewLost, Renewed
  <2>9. ASSUME UNCHANGED vars \/ Restart PROVE key' = key
    BY <2>9 DEF vars, Restart, storeVars
  <2>10. ASSUME NEW c \in Conns,
                Connect(c) \/ Leave(c) \/ WritePump(c) \/ Rejected(c) \/ Disconnect(c)
         PROVE  key' = key
    BY <2>10 DEF Connect, Leave, WritePump, Rejected, Disconnect, storeVars
  <2>11. ASSUME NEW c \in Conns, NEW x \in Blocks,
                \/ AcquireRefused(c, x) \/ RenewUnowned(c, x) \/ RenewRefused(c, x)
                \/ UnlockRefused(c, x) \/ DrainRefused(c, x)
         PROVE  key' = key
    BY <2>11
      DEF AcquireRefused, RenewUnowned, RenewRefused, UnlockRefused,
          DrainRefused,
      NotAcquired, NotRenewed, NotReleased, storeVars
  <2>12. ASSUME NEW c \in Conns,
                \/ SendPage(c) \/ GetRoomLocks(c) \/ EnterReadPump(c) \/ RecordLock(c)
                \/ BroadcastAcquired(c) \/ SendDenied(c) \/ ForgetExpired(c)
                \/ ForgetUnlocked(c) \/ BroadcastReleased(c) \/ SendError(c)
                \/ BroadcastDrained(c)
                \/ \E d \in Conns : ScanClient(c, d) \/ Deliver(c, d)
                \/ \E d \in Conns, x \in Blocks : SendLock(c, d, x)
         PROVE  key' = key
    BY <2>12
      DEF SendPage, GetRoomLocks, EnterReadPump, RecordLock, BroadcastAcquired,
      SendDenied, ForgetExpired, ForgetUnlocked, BroadcastReleased, SendError,
      BroadcastDrained, ScanClient, Deliver, SendLock, storeVars
  <2>13. ASSUME NEW c \in Conns, Serve(c) PROVE Kept(b)
    BY <2>1, <2>6, <2>7, <2>11, <2>12, <2>13 DEF Serve
  <2>14. ASSUME NEW c \in Conns, Request(c) PROVE Kept(b)
    BY <2>1, <2>3, <2>4, <2>5, <2>8, <2>10, <2>11, <2>14
    DEF Request, AcquireGranted, AcquireLost
  <2> QED
    BY <1>1, <2>1, <2>2, <2>9, <2>10, <2>13, <2>14 DEF Next
<1>2. TypeInv /\ Placed /\ [Next]_vars => TypeInv' /\ Placed'
  BY TypeStep, LockStep
<1>3. TypeInv /\ Placed /\ [Next]_vars => [\A b \in Blocks : Kept(b)]_vars
  BY <1>1
<1> QED
  BY LockInit, <1>2, <1>3, PTL DEF Spec, NoForeignEviction

--------------------------------------------------------------------------------
(* Rooms *)

(****************************************************************************)
(* Every step keeps room iterations inside the room, and the room made of   *)
(* exactly the connections being served.                                    *)
(****************************************************************************)
LEMMA RoomStep ==
  ASSUME TypeInv, IterationsVisitMembers, [Next]_vars
  PROVE  IterationsVisitMembers'
<1>a. /\ op \in [Conns -> [at : Place, block : Blocks \union {NoBlock},
                          token : Tokens \union {NoToken}]]
      /\ room \subseteq Conns
      /\ todo \in [Conns -> SUBSET Conns]
  BY DEF TypeInv, OpOK, RoomOK, HubTypeOK
<1> USE <1>a
      DEF At, Running, RoomRLocked, Goto, GotoOn, GotoWith,
          IterationsVisitMembers,
      hubVars
<1>1. ASSUME UNCHANGED vars PROVE IterationsVisitMembers'
  BY <1>1
  DEF vars, serverVars
<1>2. ASSUME Restart PROVE IterationsVisitMembers'
  BY <1>2
  DEF Restart, HubLost, Off
<1>3. ASSUME NEW b \in Blocks, Expire(b) PROVE IterationsVisitMembers'
  BY <1>3
  DEF Expire, serverVars
<1>4. ASSUME NEW c \in Conns, Connect(c) PROVE IterationsVisitMembers'
  BY <1>4
  DEF Connect, JoinRoom
<1>5. ASSUME NEW c \in Conns, Leave(c) PROVE IterationsVisitMembers'
  BY <1>5
  DEF Leave, LeaveRoom
<1>6. ASSUME NEW c \in Conns, WritePump(c) PROVE IterationsVisitMembers'
  BY <1>6
  DEF WritePump, Dequeue, serverVars
<1>7. ASSUME NEW c \in Conns, SendPage(c) PROVE IterationsVisitMembers'
  BY <1>7
  DEF SendPage
<1>8. ASSUME NEW c \in Conns, GetRoomLocks(c) PROVE IterationsVisitMembers'
  BY <1>8
  DEF GetRoomLocks, StartScan
<1>9. ASSUME NEW c \in Conns, NEW d \in Conns, ScanClient(c, d)
      PROVE IterationsVisitMembers'
  BY <1>9
  DEF ScanClient, ScanNext
<1>10. ASSUME NEW c \in Conns, NEW d \in Conns, NEW b \in Blocks, SendLock(c, d, b)
      PROVE IterationsVisitMembers'
  BY <1>10
  DEF SendLock
<1>11. ASSUME NEW c \in Conns, EnterReadPump(c) PROVE IterationsVisitMembers'
  BY <1>11
  DEF EnterReadPump
<1>12. ASSUME NEW c \in Conns, NEW b \in Blocks, NEW t \in Tokens, AcquireGranted(c, b, t)
      PROVE IterationsVisitMembers'
  BY <1>12
  DEF AcquireGranted
<1>13. ASSUME NEW c \in Conns, NEW b \in Blocks, AcquireRefused(c, b)
      PROVE IterationsVisitMembers'
  BY <1>13
  DEF AcquireRefused
<1>14. ASSUME NEW c \in Conns, NEW b \in Blocks, NEW t \in Tokens, AcquireLost(c, b, t)
      PROVE IterationsVisitMembers'
  BY <1>14
  DEF AcquireLost
<1>15. ASSUME NEW c \in Conns, RecordLock(c) PROVE IterationsVisitMembers'
  BY <1>15
  DEF RecordLock
<1>16. ASSUME NEW c \in Conns, BroadcastAcquired(c)
      PROVE IterationsVisitMembers'
  BY <1>16
  DEF BroadcastAcquired, StartBroadcast
<1>17. ASSUME NEW c \in Conns, SendDenied(c) PROVE IterationsVisitMembers'
  BY <1>17
  DEF SendDenied
<1>18. ASSUME NEW c \in Conns, NEW b \in Blocks, RenewUnowned(c, b)
      PROVE IterationsVisitMembers'
  BY <1>18
  DEF RenewUnowned
<1>19. ASSUME NEW c \in Conns, NEW b \in Blocks, RenewGranted(c, b)
      PROVE IterationsVisitMembers'
  BY <1>19
  DEF RenewGranted, serverVars
<1>20. ASSUME NEW c \in Conns, NEW b \in Blocks, RenewRefused(c, b)
      PROVE IterationsVisitMembers'
  BY <1>20
  DEF RenewRefused
<1>21. ASSUME NEW c \in Conns, NEW b \in Blocks, RenewLost(c, b)
      PROVE IterationsVisitMembers'
  BY <1>21
  DEF RenewLost
<1>22. ASSUME NEW c \in Conns, ForgetExpired(c) PROVE IterationsVisitMembers'
  BY <1>22
  DEF ForgetExpired
<1>23. ASSUME NEW c \in Conns, NEW b \in Blocks, UnlockGranted(c, b)
      PROVE IterationsVisitMembers'
  BY <1>23
  DEF UnlockGranted
<1>24. ASSUME NEW c \in Conns, NEW b \in Blocks, UnlockRefused(c, b)
      PROVE IterationsVisitMembers'
  BY <1>24
  DEF UnlockRefused
<1>25. ASSUME NEW c \in Conns, NEW b \in Blocks, UnlockLost(c, b)
      PROVE IterationsVisitMembers'
  BY <1>25
  DEF UnlockLost
<1>26. ASSUME NEW c \in Conns, ForgetUnlocked(c) PROVE IterationsVisitMembers'
  BY <1>26
  DEF ForgetUnlocked
<1>27. ASSUME NEW c \in Conns, BroadcastReleased(c)
      PROVE IterationsVisitMembers'
  BY <1>27
  DEF BroadcastReleased, StartBroadcast
<1>28. ASSUME NEW c \in Conns, Rejected(c) PROVE IterationsVisitMembers'
  BY <1>28
  DEF Rejected
<1>29. ASSUME NEW c \in Conns, SendError(c) PROVE IterationsVisitMembers'
  BY <1>29
  DEF SendError
<1>30. ASSUME NEW c \in Conns, Disconnect(c) PROVE IterationsVisitMembers'
  BY <1>30
  DEF Disconnect
<1>31. ASSUME NEW c \in Conns, NEW b \in Blocks, DrainGranted(c, b)
      PROVE IterationsVisitMembers'
  BY <1>31
  DEF DrainGranted
<1>32. ASSUME NEW c \in Conns, NEW b \in Blocks, DrainRefused(c, b)
      PROVE IterationsVisitMembers'
  BY <1>32
  DEF DrainRefused
<1>33. ASSUME NEW c \in Conns, NEW b \in Blocks, DrainFailed(c, b)
      PROVE IterationsVisitMembers'
  BY <1>33
  DEF DrainFailed
<1>34. ASSUME NEW c \in Conns, BroadcastDrained(c)
      PROVE IterationsVisitMembers'
  BY <1>34
  DEF BroadcastDrained, StartBroadcast
<1>35. ASSUME NEW c \in Conns, NEW d \in Conns, Deliver(c, d)
      PROVE IterationsVisitMembers'
  BY <1>35
  DEF Deliver, BroadcastTo, serverVars
<1> QED
  BY <1>1, <1>2, <1>3, <1>4, <1>5, <1>6, <1>7, <1>8, <1>9, <1>10, <1>11, <1>12,
     <1>13, <1>14, <1>15, <1>16, <1>17, <1>18, <1>19, <1>20, <1>21, <1>22,
     <1>23, <1>24, <1>25, <1>26, <1>27, <1>28, <1>29, <1>30, <1>31, <1>32,
     <1>33, <1>34, <1>35
  DEF Next, Serve, Request

(****************************************************************************)
(* Broadcasts and lock scans reach members of the room only, in every       *)
(* behaviour.                                                               *)
(****************************************************************************)
THEOREM RoomSafety == Spec => []IterationsVisitMembers
<1>1. ASSUME Init PROVE IterationsVisitMembers
  <2>1. /\ room = {}
        /\ todo = [c \in Conns |-> {}]
        /\ \A c \in Conns : op[c].at = "off"
    BY <1>1 DEF Init, HubInit, Off
  <2> QED
    BY <2>1 DEF IterationsVisitMembers
<1>2. TypeInv /\ IterationsVisitMembers /\ [Next]_vars =>
        TypeInv' /\ IterationsVisitMembers'
  BY TypeStep, RoomStep
<1> QED
  BY LockInit, <1>1, <1>2, PTL DEF Spec
================================================================================
