------------------------------- MODULE LeaseProofs ------------------------------
(****************************************************************************)
(* LockService implements BlockLease, for any set of connections, blocks    *)
(* and tokens, any queue capacity and time to live, and every fault: tokens *)
(* compared in Redis, goroutines and queues together amount to leases.      *)
(****************************************************************************)
EXTENDS LockServiceProofs

--------------------------------------------------------------------------------
(* One token, one block *)

(****************************************************************************)
(* Connection c has token t down for block b, in a table or between         *)
(* AcquireLock and addLock; somebody has, or Redis.                         *)
(****************************************************************************)
Held(c, b, t) ==
  \/ owned[c][b] = t
  \/ drained[c][b] = t
  \/ op[c].block = b /\ op[c].token = t

Used(b, t) == key[b] = t \/ \E c \in Conns : Held(c, b, t)

(****************************************************************************)
(* A token is used for one block only: otherwise a lease lost in a failed   *)
(* cleanup would orphan another block with it.  A token that is given up    *)
(* was minted, and no connection has it down any more: otherwise an orphan  *)
(* could be renewed.                                                        *)
(****************************************************************************)
OneBlock == \A b, x \in Blocks, t \in Tokens : Used(b, t) /\ Used(x, t) => b = x

GivenUp ==
  \A t \in abandoned :
    /\ \E c \in Conns : t \in minted[c]
    /\ \A c \in Conns, b \in Blocks : ~Held(c, b, t)

Separate == OneBlock /\ GivenUp

Known == TypeInv /\ Placed /\ Separate

(****************************************************************************)
(* A token in use has been minted.                                          *)
(****************************************************************************)
LEMMA HeldMinted ==
  ASSUME Minting, NEW c \in Conns, NEW b \in Blocks, NEW t \in Tokens, Held(c, b, t)
  PROVE  t \in minted[c]
BY LockStoreAssumption DEF Minting, Held

LEMMA UsedMinted ==
  ASSUME Minting, NEW b \in Blocks, NEW t \in Tokens, Used(b, t)
  PROVE  \E c \in Conns : t \in minted[c]
<1>1. CASE key[b] = t
  BY <1>1, LockStoreAssumption DEF Minting
<1>2. CASE \E c \in Conns : Held(c, b, t)
  BY <1>2, HeldMinted
<1> QED
  BY <1>1, <1>2 DEF Used

(****************************************************************************)
(* No step but AcquireLock puts a token to a use it did not have.           *)
(****************************************************************************)
NothingNew ==
  /\ \A b \in Blocks, t \in Tokens : key'[b] = t => key[b] = t
  /\ \A c \in Conns, b \in Blocks, t \in Tokens : Held(c, b, t)' => Held(c, b, t)

LEMMA UseStep ==
  ASSUME TypeInv, Placed, [Next]_vars
  PROVE  \/ NothingNew /\ UNCHANGED minted
         \/ \E c \in Conns, b \in Blocks, t \in Tokens :
              AcquireGranted(c, b, t) \/ AcquireLost(c, b, t)
<1> DEFINE Old == NothingNew /\ UNCHANGED minted
<1>a. /\ op \in [Conns -> [at : Place, block : Blocks \union {NoBlock},
                          token : Tokens \union {NoToken}]]
      /\ TablesOK
      /\ key \in [Blocks -> Tokens \union {NoToken}]
  BY DEF TypeInv, OpOK, StoreTypeOK
<1>b. NoToken \notin Tokens
  BY LockStoreAssumption
<1> USE <1>a, <1>b
      DEF NothingNew, Held, TablesOK, Goto, GotoOn, GotoWith, At, NoLocks, Set
<1>1. CASE UNCHANGED vars
  BY <1>1 DEF vars, serverVars, storeVars
<1>2. CASE Restart
  BY <1>2 DEF Restart, Off, storeVars
<1>3. ASSUME NEW b \in Blocks, Expire(b) PROVE Old
  BY <1>3 DEF Expire, Age, serverVars
<1>4. ASSUME NEW c \in Conns, Connect(c) PROVE Old
  BY <1>4 DEF Connect, storeVars
<1>5. ASSUME NEW c \in Conns, Leave(c) PROVE Old
  BY <1>5 DEF Leave, storeVars
<1>6. ASSUME NEW c \in Conns, Rejected(c) PROVE Old
  BY <1>6 DEF Rejected, storeVars
<1>7. ASSUME NEW c \in Conns, WritePump(c) PROVE Old
  BY <1>7 DEF WritePump, serverVars, storeVars
<1>8. ASSUME NEW c \in Conns, Disconnect(c) PROVE Old
  BY <1>8 DEF Disconnect, storeVars
<1>9. ASSUME NEW c \in Conns, SendPage(c) PROVE Old
  BY <1>9 DEF SendPage, storeVars
<1>10. ASSUME NEW c \in Conns, GetRoomLocks(c) PROVE Old
  BY <1>10 DEF GetRoomLocks, storeVars
<1>11. ASSUME NEW c \in Conns, EnterReadPump(c) PROVE Old
  BY <1>11 DEF EnterReadPump, storeVars
<1>12. ASSUME NEW c \in Conns, BroadcastAcquired(c) PROVE Old
  BY <1>12 DEF BroadcastAcquired, storeVars
<1>13. ASSUME NEW c \in Conns, SendDenied(c) PROVE Old
  BY <1>13 DEF SendDenied, storeVars
<1>14. ASSUME NEW c \in Conns, BroadcastReleased(c) PROVE Old
  BY <1>14 DEF BroadcastReleased, storeVars
<1>15. ASSUME NEW c \in Conns, SendError(c) PROVE Old
  BY <1>15 DEF SendError, storeVars
<1>16. ASSUME NEW c \in Conns, BroadcastDrained(c) PROVE Old
  BY <1>16 DEF BroadcastDrained, storeVars
<1>17. ASSUME NEW c \in Conns, RecordLock(c) PROVE Old
  BY <1>17 DEF RecordLock, AddLock, storeVars
<1>18. ASSUME NEW c \in Conns, ForgetExpired(c) PROVE Old
  BY <1>18 DEF ForgetExpired, RemoveLock, storeVars
<1>19. ASSUME NEW c \in Conns, ForgetUnlocked(c) PROVE Old
  <2>1. /\ owned' = [owned EXCEPT ![c][op[c].block] = NoToken]
        /\ UNCHANGED <<key, drained, minted>>
    BY <1>19 DEF ForgetUnlocked, RemoveLock, storeVars
  <2>2. \/ op' = [op EXCEPT ![c] =
                   [at |-> "released", block |-> op[c].block, token |-> NoToken]]
        \/ op' = [op EXCEPT ![c] = [at |-> "ready", block |-> NoBlock, token |-> NoToken]]
    BY <1>19 DEF ForgetUnlocked
  <2>3. \A d \in Conns, t \in Tokens, b \in Blocks :
          /\ owned'[d][b] = t => owned[d][b] = t
          /\ op'[d].token = t => op'[d] = op[d]
    BY <2>1, <2>2
  <2> QED
    BY <2>1, <2>3
<1>20. ASSUME NEW c \in Conns, NEW d \in Conns, ScanClient(c, d) PROVE Old
  BY <1>20 DEF ScanClient, storeVars
<1>21. ASSUME NEW c \in Conns, NEW d \in Conns, Deliver(c, d) PROVE Old
  BY <1>21 DEF Deliver, serverVars, storeVars
<1>22. ASSUME NEW c \in Conns, NEW d \in Conns, NEW b \in Blocks, SendLock(c, d, b) PROVE Old
  BY <1>22 DEF SendLock, storeVars
<1>23. ASSUME NEW c \in Conns, NEW b \in Blocks, AcquireRefused(c, b) PROVE Old
  BY <1>23 DEF AcquireRefused, NotAcquired, storeVars
<1>24. ASSUME NEW c \in Conns, NEW b \in Blocks, RenewUnowned(c, b) PROVE Old
  BY <1>24 DEF RenewUnowned, storeVars
<1>25. ASSUME NEW c \in Conns, NEW b \in Blocks, RenewGranted(c, b) PROVE Old
  BY <1>25 DEF RenewGranted, Renewed, serverVars
<1>26. ASSUME NEW c \in Conns, NEW b \in Blocks, RenewRefused(c, b) PROVE Old
  BY <1>26 DEF RenewRefused, NotRenewed, storeVars
<1>27. ASSUME NEW c \in Conns, NEW b \in Blocks, RenewLost(c, b) PROVE Old
  BY <1>27 DEF RenewLost, Renewed
<1>28. ASSUME NEW c \in Conns, NEW b \in Blocks, UnlockGranted(c, b) PROVE Old
  BY <1>28 DEF UnlockGranted, Released
<1>29. ASSUME NEW c \in Conns, NEW b \in Blocks, UnlockRefused(c, b) PROVE Old
  BY <1>29 DEF UnlockRefused, NotReleased, storeVars
<1>30. ASSUME NEW c \in Conns, NEW b \in Blocks, UnlockLost(c, b) PROVE Old
  BY <1>30 DEF UnlockLost, Released
<1>31. ASSUME NEW c \in Conns, NEW b \in Blocks, DrainGranted(c, b) PROVE Old
  BY <1>31 DEF DrainGranted, Released, Drop
<1>32. ASSUME NEW c \in Conns, NEW b \in Blocks, DrainRefused(c, b) PROVE Old
  BY <1>32 DEF DrainRefused, NotReleased, Drop, storeVars
<1>33. ASSUME NEW c \in Conns, NEW b \in Blocks, DrainFailed(c, b) PROVE Old
  BY <1>33 DEF DrainFailed, Released, Drop, storeVars
<1> QED
  BY <1>1, <1>2, <1>3, <1>4, <1>5, <1>6, <1>7, <1>8, <1>9, <1>10, <1>11,
     <1>12, <1>13, <1>14, <1>15, <1>16, <1>17, <1>18, <1>19, <1>20, <1>21,
     <1>22, <1>23, <1>24, <1>25, <1>26, <1>27, <1>28, <1>29, <1>30, <1>31,
     <1>32, <1>33
  DEF Next, Serve, Request
(****************************************************************************)
(* Tokens stay one to a block when no use is new.                           *)
(****************************************************************************)
LEMMA OldUses ==
  ASSUME OneBlock, NothingNew
  PROVE  OneBlock'
<1>1. \A b \in Blocks, t \in Tokens : Used(b, t)' => Used(b, t)
  BY DEF NothingNew, Used
<1> QED
  BY <1>1 DEF OneBlock

(****************************************************************************)
(* Most steps leave Redis and the histories alone, and nobody comes or goes.*)
(****************************************************************************)
Quiet ==
  /\ UNCHANGED <<key, ttl, minted, abandoned>>
  /\ \A c \in Conns : op'[c].at = "off" <=> op[c].at = "off"

QuietStep(c) ==
  \/ WritePump(c) \/ Rejected(c) \/ Disconnect(c)
  \/ SendPage(c) \/ GetRoomLocks(c) \/ EnterReadPump(c) \/ RecordLock(c)
  \/ BroadcastAcquired(c) \/ SendDenied(c) \/ ForgetExpired(c)
  \/ ForgetUnlocked(c) \/ BroadcastReleased(c) \/ SendError(c)
  \/ BroadcastDrained(c)
  \/ \E d \in Conns : ScanClient(c, d) \/ Deliver(c, d)
  \/ \E d \in Conns, b \in Blocks : SendLock(c, d, b)
  \/ \E b \in Blocks :
       \/ AcquireRefused(c, b) \/ RenewUnowned(c, b) \/ RenewRefused(c, b)
       \/ UnlockRefused(c, b) \/ DrainRefused(c, b)

LEMMA QuietSteps ==
  ASSUME TypeInv, NEW c \in Conns, QuietStep(c)
  PROVE  Quiet
<1>a. op \in [Conns -> [at : Place, block : Blocks \union {NoBlock},
                         token : Tokens \union {NoToken}]]
  BY DEF TypeInv, OpOK
<1> USE <1>a DEF Quiet, At, Goto, GotoOn, GotoWith
<1>1. CASE WritePump(c) \/ Rejected(c) \/ Disconnect(c)
  BY <1>1 DEF WritePump, Rejected, Disconnect, serverVars, storeVars
<1>2. CASE SendPage(c) \/ GetRoomLocks(c) \/ EnterReadPump(c)
  BY <1>2 DEF SendPage, GetRoomLocks, EnterReadPump, storeVars
<1>3. CASE RecordLock(c) \/ BroadcastAcquired(c) \/ SendDenied(c)
  BY <1>3 DEF RecordLock, BroadcastAcquired, SendDenied, storeVars
<1>4. CASE ForgetExpired(c) \/ ForgetUnlocked(c)
  BY <1>4 DEF ForgetExpired, ForgetUnlocked, storeVars
<1>5. CASE BroadcastReleased(c) \/ SendError(c) \/ BroadcastDrained(c)
  BY <1>5 DEF BroadcastReleased, SendError, BroadcastDrained, storeVars
<1>6. ASSUME NEW d \in Conns, ScanClient(c, d) \/ Deliver(c, d) PROVE Quiet
  BY <1>6 DEF ScanClient, Deliver, serverVars, storeVars
<1>7. ASSUME NEW d \in Conns, NEW b \in Blocks, SendLock(c, d, b) PROVE Quiet
  BY <1>7 DEF SendLock, storeVars
<1>8. ASSUME NEW b \in Blocks,
             \/ AcquireRefused(c, b) \/ RenewUnowned(c, b) \/ RenewRefused(c, b)
             \/ UnlockRefused(c, b) \/ DrainRefused(c, b)
      PROVE  Quiet
  BY <1>8
    DEF AcquireRefused, RenewUnowned, RenewRefused, UnlockRefused, DrainRefused,
        NotAcquired, NotRenewed, NotReleased, storeVars
<1> QED
  BY <1>1, <1>2, <1>3, <1>4, <1>5, <1>6, <1>7, <1>8 DEF QuietStep

(****************************************************************************)
(* The other steps.                                                         *)
(****************************************************************************)
LEMMA StepKinds ==
  ASSUME [Next]_vars
  PROVE  \/ UNCHANGED vars
         \/ Restart
         \/ \E b \in Blocks : Expire(b)
         \/ \E c \in Conns :
              \/ QuietStep(c) \/ Connect(c) \/ Leave(c)
              \/ \E b \in Blocks :
                   \/ RenewGranted(c, b) \/ RenewLost(c, b)
                   \/ UnlockGranted(c, b) \/ UnlockLost(c, b)
                   \/ DrainGranted(c, b) \/ DrainFailed(c, b)
              \/ \E b \in Blocks, t \in Tokens :
                   AcquireGranted(c, b, t) \/ AcquireLost(c, b, t)
BY DEF Next, Serve, Request, QuietStep

(****************************************************************************)
(* Every step keeps tokens to their blocks, and given up.                   *)
(****************************************************************************)
LEMMA SeparateStep ==
  ASSUME Known, [Next]_vars
  PROVE  Separate'
<1>a. TypeInv /\ Placed /\ OneBlock /\ GivenUp /\ Minting
  BY DEF Known, Separate, Placed
<1>b. /\ op \in [Conns -> [at : Place, block : Blocks \union {NoBlock},
                          token : Tokens \union {NoToken}]]
      /\ TablesOK
      /\ key \in [Blocks -> Tokens \union {NoToken}]
  BY <1>a DEF TypeInv, OpOK, StoreTypeOK
<1>c. Locals
  BY <1>a DEF TypeInv, OpOK
<1>1. CASE NothingNew /\ UNCHANGED minted
  <2>1. OneBlock'
    BY <1>a, <1>1, OldUses
  <2>2. CASE UNCHANGED abandoned
    <3>1. ASSUME NEW t \in abandoned', NEW c \in Conns, NEW b \in Blocks
          PROVE  ~Held(c, b, t)'
      BY <1>a, <1>b, <1>1, <2>2 DEF NothingNew, GivenUp, TablesOK
    <3> QED
      BY <1>a, <1>1, <2>1, <2>2, <3>1 DEF Separate, GivenUp
  <2>3. CASE Restart
    <3>1. ASSUME NEW t \in abandoned' PROVE \E c \in Conns : t \in minted'[c]
      BY <1>a, <2>3 DEF Restart, GivenUp
    <3>2. ASSUME NEW t \in abandoned', NEW c \in Conns, NEW b \in Blocks
          PROVE  ~Held(c, b, t)'
      <4>1. t # NoToken
        BY <1>a, <1>b, <2>3, LockStoreAssumption DEF Restart, TablesOK
      <4> QED
        BY <2>3, <4>1 DEF Restart, Held, Off, NoLocks
    <3> QED
      BY <2>1, <3>1, <3>2 DEF Separate, GivenUp
  <2>4. ASSUME NEW c \in Conns, NEW b \in Blocks, DrainFailed(c, b)
        PROVE  Separate'
    <3>0. PICK t \in Tokens : t = drained[c][b]
      BY <1>b, <2>4 DEF DrainFailed, TablesOK
    <3>1. /\ op[c].at = "drain" /\ op[c].token = NoToken
          /\ owned[c] = NoLocks
          /\ abandoned' = abandoned \union {t}
          /\ drained' = [drained EXCEPT ![c][b] = NoToken]
          /\ UNCHANGED <<op, owned>>
      BY <1>a, <1>b, <1>c, <2>4, <3>0
        DEF DrainFailed, Drop, At, TablesOK, Placed, Phases, Locals
    <3>2. Held(c, b, t)
      BY <3>0 DEF Held
    <3>3. t \in minted[c]
      BY <1>a, <3>1, <3>2, HeldMinted
    <3>4. ASSUME NEW d \in Conns, NEW x \in Blocks PROVE ~Held(d, x, t)'
      <4>1. CASE d # c
        <5>1. t \notin minted[d]
          BY <1>a, <3>3, <4>1 DEF Minting
        <5>2. ~Held(d, x, t)
          BY <1>a, <3>1, <5>1, HeldMinted
        <5> QED
          BY <1>1, <3>1, <5>2 DEF NothingNew
      <4>2. CASE d = c /\ x # b
        <5>1. ~Held(d, x, t)
          BY <1>a, <3>1, <3>2, <4>2 DEF OneBlock, Used
        <5> QED
          BY <1>1, <3>1, <5>1 DEF NothingNew
      <4>3. CASE d = c /\ x = b
        BY <1>b, <3>1, <4>3, LockStoreAssumption DEF Held, NoLocks, TablesOK
      <4> QED
        BY <4>1, <4>2, <4>3
    <3>5. ASSUME NEW u \in abandoned, NEW d \in Conns, NEW x \in Blocks
          PROVE  ~Held(d, x, u)'
      BY <1>a, <1>b, <1>1 DEF NothingNew, GivenUp, TablesOK
    <3>6. GivenUp'
      BY <1>a, <1>1, <3>1, <3>3, <3>4, <3>5 DEF GivenUp
    <3> QED
      BY <2>1, <3>6 DEF Separate
  <2>5. ASSUME NEW c \in Conns, NEW b \in Blocks, NEW t \in Tokens,
               AcquireLost(c, b, t)
        PROVE  FALSE
    BY <1>1, <1>b, <2>5 DEF AcquireLost, Fresh, Mint, TablesOK
  <2>6. ASSUME NEW c \in Conns, QuietStep(c) PROVE UNCHANGED abandoned
    BY <1>a, <2>6, QuietSteps DEF Quiet
  <2>7. ASSUME NEW c \in Conns, NEW b \in Blocks,
               \/ RenewGranted(c, b) \/ RenewLost(c, b)
               \/ UnlockGranted(c, b) \/ UnlockLost(c, b) \/ DrainGranted(c, b)
        PROVE  UNCHANGED abandoned
    BY <2>7 DEF RenewGranted, RenewLost, UnlockGranted, UnlockLost, DrainGranted
  <2>8. ASSUME NEW c \in Conns,
               \/ Connect(c) \/ Leave(c)
               \/ \E b \in Blocks, t \in Tokens : AcquireGranted(c, b, t)
        PROVE  UNCHANGED abandoned
    BY <2>8 DEF Connect, Leave, AcquireGranted
  <2>9. ASSUME NEW b \in Blocks, Expire(b) PROVE UNCHANGED abandoned
    BY <2>9 DEF Expire
  <2>10. CASE UNCHANGED vars
    BY <2>2, <2>10 DEF vars
  <2> QED
    BY <2>2, <2>3, <2>4, <2>5, <2>6, <2>7, <2>8, <2>9, <2>10, StepKinds
<1>2. ASSUME NEW c \in Conns, NEW b \in Blocks, NEW t \in Tokens,
             AcquireGranted(c, b, t) \/ AcquireLost(c, b, t)
      PROVE  Separate'
  <2>1. /\ \A d \in Conns : t \notin minted[d]
        /\ key' = [key EXCEPT ![b] = t]
        /\ minted' = [minted EXCEPT ![c] = @ \union {t}]
        /\ UNCHANGED <<owned, drained>>
        /\ \A d \in Conns, x \in Blocks, u \in Tokens :
             op'[d].block = x /\ op'[d].token = u =>
               \/ op[d].block = x /\ op[d].token = u
               \/ d = c /\ x = b /\ u = t
    BY <1>2, <1>b, LockStoreAssumption
      DEF AcquireGranted, AcquireLost, Acquired, Set, Mint, Fresh, Goto, GotoOn,
          GotoWith
  <2>2. \A x \in Blocks : ~Used(x, t)
    BY <1>a, <2>1, UsedMinted
  <2>3. \A x \in Blocks, u \in Tokens :
          Used(x, u)' => Used(x, u) \/ (x = b /\ u = t)
    <3>1. \A x \in Blocks : key'[x] = key[x] \/ (x = b /\ key'[x] = t)
      BY <1>b, <2>1
    <3>2. \A d \in Conns, x \in Blocks, u \in Tokens :
            Held(d, x, u)' => Held(d, x, u) \/ (x = b /\ u = t)
      BY <2>1 DEF Held
    <3> QED
      BY <3>1, <3>2 DEF Used
  <2>4. OneBlock'
    BY <1>a, <2>2, <2>3 DEF OneBlock
  <2>5. \A d \in Conns : minted[d] \subseteq minted'[d]
    BY <1>b, <2>1 DEF TablesOK
  <2>6. ASSUME NEW u \in abandoned
        PROVE  /\ \E d \in Conns : u \in minted'[d]
               /\ \A d \in Conns, x \in Blocks : ~Held(d, x, u)'
    <3>1. u # t /\ u \in Tokens
      BY <1>a, <1>b, <2>1 DEF GivenUp, TablesOK
    <3>2. \A d \in Conns, x \in Blocks : ~Held(d, x, u)
      BY <1>a DEF GivenUp
    <3>3. \A d \in Conns, x \in Blocks : ~Held(d, x, u)'
      BY <2>1, <3>1, <3>2 DEF Held
    <3> QED
      BY <1>a, <2>5, <3>3 DEF GivenUp
  <2>7. CASE AcquireGranted(c, b, t)
    <3>1. UNCHANGED abandoned
      BY <2>7 DEF AcquireGranted
    <3> QED
      BY <2>4, <2>6, <3>1 DEF Separate, GivenUp
  <2>8. CASE AcquireLost(c, b, t)
    <3>1. /\ abandoned' = abandoned \union {t}
          /\ \/ op' = [op EXCEPT ![c] = [at |-> "fail", block |-> NoBlock,
                                         token |-> NoToken]]
             \/ op' = [op EXCEPT ![c] = [at |-> "deny", block |-> b,
                                         token |-> NoToken]]
      BY <2>8 DEF AcquireLost, Goto, GotoOn, GotoWith
    <3>2. t \in minted'[c]
      BY <1>b, <2>1 DEF TablesOK
    <3>3. ASSUME NEW d \in Conns, NEW x \in Blocks PROVE ~Held(d, x, t)'
      <4>1. ~Held(d, x, t)
        BY <2>2 DEF Used
      <4>2. op'[d].token = t => op'[d] = op[d]
        BY <1>b, <3>1, LockStoreAssumption
      <4> QED
        BY <2>1, <4>1, <4>2 DEF Held
    <3> QED
      BY <2>4, <2>6, <3>1, <3>2, <3>3 DEF Separate, GivenUp
  <2> QED
    BY <1>2, <2>7, <2>8
<1> QED
  BY <1>a, <1>1, <1>2, UseStep

--------------------------------------------------------------------------------
(* The refinement *)

Holding == [b \in Blocks |-> HolderOf(b)]
Online == {c \in Conns : op[c].at # "off"}

(****************************************************************************)
(* Who holds a lease: the one connection that minted the token in Redis.    *)
(****************************************************************************)
LEMMA HolderFacts ==
  ASSUME Minting, NEW b \in Blocks
  PROVE  /\ key[b] = NoToken => HolderOf(b) = Free
         /\ key[b] # NoToken =>
              IF key[b] \in abandoned THEN HolderOf(b) = Orphan
              ELSE HolderOf(b) \in Conns /\ key[b] \in minted[HolderOf(b)]
         /\ \A c \in Conns :
              key[b] # NoToken /\ key[b] \in minted[c] /\ key[b] \notin abandoned =>
                HolderOf(b) = c
<1>1. ASSUME key[b] # NoToken, key[b] \notin abandoned
      PROVE  HolderOf(b) \in Conns /\ key[b] \in minted[HolderOf(b)]
  <2>1. \E c \in Conns : key[b] \in minted[c]
    BY <1>1 DEF Minting
  <2> QED
    BY <1>1, <2>1 DEF HolderOf
<1>2. ASSUME NEW c \in Conns, NEW d \in Conns, key[b] \in minted[c], key[b] \in minted[d]
      PROVE  c = d
  BY <1>2 DEF Minting
<1> QED
  BY <1>1, <1>2 DEF HolderOf

(****************************************************************************)
(* A block whose key and whose token's fate stay the same keeps its holder. *)
(****************************************************************************)
LEMMA HolderStays ==
  ASSUME Minting, Minting', NEW b \in Blocks,
         key'[b] = key[b],
         key[b] # NoToken => (key[b] \in abandoned <=> key[b] \in abandoned'),
         \A c \in Conns : minted[c] \subseteq minted'[c]
  PROVE  HolderOf(b)' = HolderOf(b)
<1>1. CASE key[b] = NoToken
  BY <1>1 DEF HolderOf
<1>2. CASE key[b] # NoToken /\ key[b] \in abandoned
  BY <1>2 DEF HolderOf
<1>3. CASE key[b] # NoToken /\ key[b] \notin abandoned
  <2>1. PICK d \in Conns : d = HolderOf(b)
    BY <1>3, HolderFacts
  <2>2. key[b] \in minted[d]
    BY <1>3, <2>1, HolderFacts
  <2>3. key'[b] \in minted'[d] /\ key'[b] \notin abandoned' /\ key'[b] # NoToken
    BY <1>3, <2>2
  <2>4. HolderOf(b)' = d
    <3>1. \A e \in Conns : key'[b] \in minted'[e] => e = d
      BY <2>3 DEF Minting
    <3> QED
      BY <2>3, <3>1 DEF HolderOf
  <2> QED
    BY <2>1, <2>4
<1> QED
  BY <1>1, <1>2, <1>3

(****************************************************************************)
(* Holders, from one step to the next, when the key of at most block b      *)
(* changes and no other token is given up or minted.                        *)
(****************************************************************************)
LEMMA HolderChanges ==
  ASSUME Minting, Minting', NEW b \in Blocks,
         \A x \in Blocks \ {b} :
           /\ key'[x] = key[x]
           /\ key[x] # NoToken => (key[x] \in abandoned <=> key[x] \in abandoned'),
         \A c \in Conns : minted[c] \subseteq minted'[c]
  PROVE  Holding' = [Holding EXCEPT ![b] = HolderOf(b)']
<1>1. \A x \in Blocks \ {b} : HolderOf(x)' = HolderOf(x)
  BY HolderStays
<1> QED
  BY <1>1 DEF Holding

LEMMA HoldersStay ==
  ASSUME Minting, Minting', UNCHANGED <<key, minted, abandoned>>
  PROVE  Holding' = Holding
<1>1. \A x \in Blocks : HolderOf(x)' = HolderOf(x)
  BY HolderStays
<1> QED
  BY <1>1 DEF Holding

(****************************************************************************)
(* A connection that remembers the token in Redis holds the lease.          *)
(****************************************************************************)
LEMMA HolderRemembers ==
  ASSUME Known, NEW c \in Conns, NEW b \in Blocks, NEW t \in Tokens,
         Held(c, b, t), key[b] = t
  PROVE  HolderOf(b) = c /\ t \notin abandoned
<1>1. t \in minted[c]
  BY HeldMinted DEF Known, Placed
<1>2. t \notin abandoned
  BY DEF Known, Separate, GivenUp
<1> QED
  BY <1>1, <1>2, HolderFacts, LockStoreAssumption DEF Known, Placed

(****************************************************************************)
(* What the invariants say about the step at hand.                          *)
(****************************************************************************)
LEMMA KnownFacts ==
  ASSUME Known
  PROVE  /\ op \in [Conns -> [at : Place, block : Blocks \union {NoBlock},
                             token : Tokens \union {NoToken}]]
         /\ owned \in [Conns -> [Blocks -> Tokens \union {NoToken}]]
         /\ drained \in [Conns -> [Blocks -> Tokens \union {NoToken}]]
         /\ minted \in [Conns -> SUBSET Tokens]
         /\ abandoned \subseteq Tokens
         /\ StoreTypeOK
         /\ Minting /\ OneBlock /\ GivenUp
BY DEF Known, Separate, Placed, TypeInv, OpOK, TablesOK

LEMMA StaysOnline ==
  ASSUME Known, NEW c \in Conns, NEW p, NEW b, NEW t,
         GotoWith(c, p, b, t), op[c].at # "off", p # "off"
  PROVE  Online' = Online
BY KnownFacts DEF Online, GotoWith

(****************************************************************************)
(* Renewing, releasing and ageing are those of the abstract lease.          *)
(****************************************************************************)
LEMMA RenewStep ==
  ASSUME Known, Known', NEW c \in Conns, NEW b \in Blocks,
         RenewGranted(c, b) \/ RenewLost(c, b)
  PROVE  Lease!Renew(b)
<1>1. /\ owned[c][b] \in Tokens /\ key[b] = owned[c][b]
      /\ key' = [key EXCEPT ![b] = owned[c][b]]
      /\ ttl' = [ttl EXCEPT ![b] = TTL]
      /\ UNCHANGED <<minted, abandoned>>
      /\ op[c].at = "ready"
  BY KnownFacts DEF RenewGranted, RenewLost, Renewed, Set, serverVars, At
<1>2. HolderOf(b) = c
  BY <1>1, HolderRemembers DEF Held
<1>3. key' = key
  BY <1>1, KnownFacts DEF StoreTypeOK
<1>4. Holding' = Holding
  BY <1>1, <1>3, HoldersStay, KnownFacts DEF Known, Placed
<1>5. Online' = Online
  <2>1. CASE RenewGranted(c, b)
    BY <2>1 DEF RenewGranted, serverVars, Online
  <2>2. CASE RenewLost(c, b)
    <3>1. GotoWith(c, "fail", NoBlock, NoToken)
      BY <2>2 DEF RenewLost, Goto, GotoOn
    <3> QED
      BY <1>1, <3>1, StaysOnline
  <2> QED
    BY <2>1, <2>2
<1> QED
  BY <1>1, <1>2, <1>4, <1>5 DEF Lease!Renew, Lease!Put, Holding, Online

LEMMA ReleaseStep ==
  ASSUME Known, Known', NEW c \in Conns, NEW b \in Blocks, NEW t \in Tokens,
         Held(c, b, t), Released(b, t), UNCHANGED minted,
         abandoned' \subseteq abandoned \union {t}, abandoned \subseteq abandoned',
         Online' = Online
  PROVE  Lease!Release(b)
<1>1. /\ key[b] = t
      /\ key' = [key EXCEPT ![b] = NoToken]
      /\ ttl' = [ttl EXCEPT ![b] = 0]
  BY DEF Released, Set
<1>2. HolderOf(b) = c
  BY <1>1, HolderRemembers
<1>3. HolderOf(b)' = Free
  BY <1>1, KnownFacts DEF HolderOf, StoreTypeOK
<1>4. ASSUME NEW x \in Blocks \ {b}
      PROVE  /\ key'[x] = key[x]
             /\ key[x] # NoToken => (key[x] \in abandoned <=> key[x] \in abandoned')
  <2>1. key[x] # t
    BY <1>1, KnownFacts DEF OneBlock, Used
  <2> QED
    BY <1>1, <2>1, KnownFacts DEF StoreTypeOK
<1>5. Holding' = [Holding EXCEPT ![b] = Free]
  BY <1>3, <1>4, HolderChanges, KnownFacts DEF Known, Placed
<1> QED
  BY <1>1, <1>2, <1>5 DEF Lease!Release, Lease!Put, Holding, Online

LEMMA UnlockStep ==
  ASSUME Known, Known', NEW c \in Conns, NEW b \in Blocks,
         UnlockGranted(c, b) \/ UnlockLost(c, b) \/ DrainGranted(c, b)
  PROVE  Lease!Release(b)
<1>1. PICK t \in Tokens : t \in {owned[c][b], drained[c][b]} /\ Released(b, t)
  BY KnownFacts DEF UnlockGranted, UnlockLost, DrainGranted
<1>2. UNCHANGED <<minted, abandoned>> /\ op[c].at # "off"
  BY DEF UnlockGranted, UnlockLost, DrainGranted, At
<1>3. Online' = Online
  <2>1. CASE UnlockGranted(c, b)
    <3>1. GotoWith(c, "remove", b, NoToken)
      BY <2>1 DEF UnlockGranted, GotoOn
    <3> QED
      BY <1>2, <3>1, StaysOnline
  <2>2. CASE UnlockLost(c, b)
    <3>1. GotoWith(c, "fail", NoBlock, NoToken)
      BY <2>2 DEF UnlockLost, Goto, GotoOn
    <3> QED
      BY <1>2, <3>1, StaysOnline
  <2>3. CASE DrainGranted(c, b)
    <3>1. GotoWith(c, "drained", b, NoToken)
      BY <2>3 DEF DrainGranted, GotoOn
    <3> QED
      BY <1>2, <3>1, StaysOnline
  <2> QED
    BY <2>1, <2>2, <2>3
<1> QED
  BY <1>1, <1>2, <1>3, ReleaseStep DEF Held

LEMMA DrainFailedStep ==
  ASSUME Known, Known', NEW c \in Conns, NEW b \in Blocks, DrainFailed(c, b)
  PROVE  Lease!LeaseNext \/ UNCHANGED Lease!leaseVars
<1>1. PICK t \in Tokens : t = drained[c][b]
  BY KnownFacts DEF DrainFailed
<1>2. /\ abandoned' = abandoned \union {t}
      /\ UNCHANGED <<op, minted>>
      /\ Held(c, b, t)
  BY <1>1 DEF DrainFailed, Held
<1>3. Online' = Online
  BY <1>2 DEF Online
<1>4. CASE Released(b, t)
  BY <1>2, <1>3, <1>4, ReleaseStep DEF Lease!LeaseNext
<1>5. CASE UNCHANGED storeVars /\ key[b] = t
  <2>1. HolderOf(b) = c
    BY <1>2, <1>5, HolderRemembers
  <2>2. HolderOf(b)' = Orphan
    BY <1>2, <1>5, LockStoreAssumption DEF HolderOf, storeVars
  <2>3. ASSUME NEW x \in Blocks \ {b}
        PROVE  /\ key'[x] = key[x]
               /\ key[x] # NoToken => (key[x] \in abandoned <=> key[x] \in abandoned')
    <3>1. key[x] # t
      BY <1>5, KnownFacts DEF OneBlock, Used
    <3> QED
      BY <1>2, <1>5, <3>1 DEF storeVars
  <2>4. Holding' = [Holding EXCEPT ![b] = Orphan]
    BY <1>2, <2>2, <2>3, HolderChanges, KnownFacts DEF Known, Placed
  <2>5. ttl' = [ttl EXCEPT ![b] = ttl[b]]
    BY <1>5, KnownFacts DEF StoreTypeOK, storeVars
  <2>6. Lease!Lose(b)
    BY <1>3, <2>1, <2>4, <2>5 DEF Lease!Lose, Lease!Put, Holding, Online
  <2> QED
    BY <2>6 DEF Lease!LeaseNext
<1>6. CASE UNCHANGED storeVars /\ key[b] # t
  <2>1. ASSUME NEW x \in Blocks PROVE HolderOf(x)' = HolderOf(x)
    <3>1. key[x] # t
      BY <1>2, <1>6, KnownFacts DEF OneBlock, Used
    <3> QED
      BY <1>2, <1>6, <3>1, HolderStays, KnownFacts DEF storeVars, Known, Placed
  <2>2. Holding' = Holding
    BY <2>1 DEF Holding
  <2> QED
    BY <1>3, <1>6, <2>2 DEF Lease!leaseVars, Holding, Online, storeVars
<1> QED
  BY <1>1, <1>4, <1>5, <1>6 DEF DrainFailed

LEMMA ExpireStep ==
  ASSUME Known, Known', NEW b \in Blocks, Expire(b)
  PROVE  Lease!AgeLease(b)
<1>1. UNCHANGED <<op, minted, abandoned>> /\ ttl[b] > 0 /\ ttl[b] \in 0..TTL
  BY KnownFacts DEF Expire, Age, serverVars, StoreTypeOK
<1>2. /\ key' = [key EXCEPT ![b] = IF ttl[b] = 1 THEN NoToken ELSE key[b]]
      /\ ttl' = [ttl EXCEPT ![b] = ttl[b] - 1]
  BY <1>1 DEF Expire, Age, Set
<1>3. HolderOf(b)' = IF ttl[b] = 1 THEN Free ELSE HolderOf(b)
  <2>1. CASE ttl[b] = 1
    BY <1>2, <2>1, KnownFacts DEF HolderOf, StoreTypeOK
  <2>2. CASE ttl[b] # 1
    <3>1. key'[b] = key[b]
      BY <1>2, <2>2, KnownFacts DEF StoreTypeOK
    <3> QED
      BY <1>1, <2>2, <3>1, HolderStays, KnownFacts DEF Known, Placed
  <2> QED
    BY <2>1, <2>2
<1>4. \A x \in Blocks \ {b} : key'[x] = key[x]
  BY <1>2, KnownFacts DEF StoreTypeOK
<1>5. Holding' = [Holding EXCEPT ![b] = IF ttl[b] = 1 THEN Free ELSE Holding[b]]
  <2>1. Holding[b] = HolderOf(b)
    BY DEF Holding
  <2> QED
    BY <1>1, <1>3, <1>4, <2>1, HolderChanges, KnownFacts DEF Known, Placed
<1>6. Online' = Online
  BY <1>1 DEF Online
<1> QED
  BY <1>1, <1>2, <1>5, <1>6 DEF Lease!AgeLease, Lease!Put, Holding, Online

LEMMA AcquireStep ==
  ASSUME Known, Known', NEW c \in Conns, NEW b \in Blocks, NEW t \in Tokens,
         AcquireGranted(c, b, t) \/ AcquireLost(c, b, t)
  PROVE  Lease!LeaseNext
<1>1. /\ key[b] = NoToken /\ op[c].at = "ready"
      /\ \A d \in Conns : t \notin minted[d]
      /\ key' = [key EXCEPT ![b] = t]
      /\ ttl' = [ttl EXCEPT ![b] = TTL]
      /\ minted' = [minted EXCEPT ![c] = @ \union {t}]
      /\ \E r : op' = [op EXCEPT ![c] = r] /\ r.at # "off"
  BY DEF AcquireGranted, AcquireLost, Acquired, Set, Mint, Fresh, At, Goto,
    GotoOn, GotoWith
<1>2. Online' = Online /\ c \in Online
  BY <1>1, KnownFacts DEF Online
<1>3. HolderOf(b) = Free
  BY <1>1 DEF HolderOf
<1>4. key'[b] = t /\ t # NoToken /\ t \in minted'[c]
  BY <1>1, KnownFacts, LockStoreAssumption DEF StoreTypeOK
<1>5. t \notin abandoned
  BY <1>1, KnownFacts DEF GivenUp
<1>6. abandoned \subseteq abandoned' /\ abandoned' \subseteq abandoned \union {t}
  BY DEF AcquireGranted, AcquireLost
<1>7. ASSUME NEW x \in Blocks \ {b}
      PROVE  /\ key'[x] = key[x]
             /\ key[x] # NoToken => (key[x] \in abandoned <=> key[x] \in abandoned')
  <2>1. key[x] # t
    BY <1>1, KnownFacts, UsedMinted DEF Used
  <2> QED
    BY <1>1, <1>6, <2>1, KnownFacts DEF StoreTypeOK
<1>8. \A d \in Conns : minted[d] \subseteq minted'[d]
  BY <1>1, KnownFacts
<1>9. Holding' = [Holding EXCEPT ![b] = HolderOf(b)']
  BY <1>7, <1>8, HolderChanges, KnownFacts DEF Known, Placed
<1>10. CASE AcquireGranted(c, b, t)
  <2>1. HolderOf(b)' = c
    <3>1. key'[b] \notin abandoned'
      BY <1>4, <1>5, <1>10 DEF AcquireGranted
    <3>2. \A d \in Conns : key'[b] \in minted'[d] => d = c
      BY <1>1, <1>4, KnownFacts
    <3> QED
      BY <1>4, <3>1, <3>2 DEF HolderOf
  <2>2. Lease!Grant(c, b)
    BY <1>1, <1>2, <1>3, <1>9, <2>1 DEF Lease!Grant, Lease!Put, Holding, Online
  <2> QED
    BY <2>2 DEF Lease!LeaseNext
<1>11. CASE AcquireLost(c, b, t)
  <2>1. HolderOf(b)' = Orphan
    BY <1>4, <1>11 DEF HolderOf, AcquireLost
  <2>2. Lease!GrantLost(b)
    BY <1>1, <1>2, <1>3, <1>9, <2>1 DEF Lease!GrantLost, Lease!Put, Holding, Online
  <2> QED
    BY <2>2 DEF Lease!LeaseNext
<1> QED
  BY <1>10, <1>11

(****************************************************************************)
(* Connections come and go.                                                 *)
(****************************************************************************)
LEMMA ConnectStep ==
  ASSUME Known, Known', NEW c \in Conns, Connect(c)
  PROVE  Lease!Come(c)
<1>1. /\ UNCHANGED <<key, ttl, minted, abandoned>>
      /\ op' = [op EXCEPT ![c] = [at |-> "hello", block |-> NoBlock, token |-> NoToken]]
  BY DEF Connect, Goto, GotoOn, GotoWith, storeVars
<1>2. Holding' = Holding
  BY <1>1, HoldersStay, KnownFacts DEF Known, Placed
<1>3. Online' = Online \union {c}
  BY <1>1, KnownFacts DEF Online
<1> QED
  BY <1>1, <1>2, <1>3 DEF Lease!Come, Holding, Online

LEMMA LeaveStep ==
  ASSUME Known, Known', NEW c \in Conns, Leave(c)
  PROVE  Lease!Depart(c)
<1>1. /\ UNCHANGED <<key, ttl, minted, abandoned>>
      /\ op[c].at = "drain" /\ drained[c] = NoLocks
      /\ op' = [op EXCEPT ![c] = [at |-> "off", block |-> NoBlock, token |-> NoToken]]
  BY DEF Leave, At, Goto, GotoOn, GotoWith, storeVars
<1>2. Holding' = Holding
  BY <1>1, HoldersStay, KnownFacts DEF Known, Placed
<1>3. Online' = Online \ {c}
  BY <1>1, KnownFacts DEF Online
<1>4. ASSUME NEW b \in Blocks, HolderOf(b) = c PROVE FALSE
  <2>1. key[b] # NoToken /\ key[b] \notin abandoned /\ key[b] \in minted[c]
    BY <1>4, HolderFacts, KnownFacts, LeaseAssumption
  <2>2. key[b] \in {owned[c][b], drained[c][b]}
    BY <1>1, <2>1 DEF Known, Placed, LockAccounted
  <2>3. owned[c] = NoLocks
    BY <1>1 DEF Known, Placed, Phases
  <2> QED
    BY <1>1, <2>1, <2>2, <2>3 DEF NoLocks
<1> QED
  BY <1>1, <1>2, <1>3, <1>4 DEF Lease!Depart, Holding, Online

LEMMA RestartStep ==
  ASSUME Known, Known', Restart
  PROVE  Lease!Crash
<1>1. /\ UNCHANGED <<key, ttl, minted>>
      /\ op' = [c \in Conns |-> Off]
      /\ abandoned' = abandoned \union UNION {minted[c] : c \in Conns}
  BY DEF Restart, storeVars
<1>2. ASSUME NEW b \in Blocks
      PROVE  HolderOf(b)' = IF HolderOf(b) = Free THEN Free ELSE Orphan
  <2>1. CASE key[b] = NoToken
    BY <1>1, <2>1 DEF HolderOf
  <2>2. CASE key[b] # NoToken
    <3>1. key[b] \in abandoned'
      BY <1>1, <2>2, KnownFacts DEF Minting
    <3>2. HolderOf(b)' = Orphan
      BY <1>1, <2>2, <3>1 DEF HolderOf
    <3>3. HolderOf(b) # Free
      BY <2>2, HolderFacts, KnownFacts, LeaseAssumption DEF Orphan, Free
    <3> QED
      BY <3>2, <3>3
  <2> QED
    BY <2>1, <2>2
<1>3. Holding' = [b \in Blocks |-> IF Holding[b] = Free THEN Free ELSE Orphan]
  BY <1>2 DEF Holding
<1>4. Online' = {}
  BY <1>1 DEF Online, Off
<1> QED
  BY <1>1, <1>3, <1>4 DEF Lease!Crash, Holding, Online

(****************************************************************************)
(* Every step of the service is one of the lease, or none.                  *)
(****************************************************************************)
LEMMA LeaseStep ==
  ASSUME Known, Known', [Next]_vars
  PROVE  [Lease!LeaseNext]_(Lease!leaseVars)
<1>1. ASSUME Quiet PROVE UNCHANGED Lease!leaseVars
  <2>1. Holding' = Holding
    BY <1>1, HoldersStay, KnownFacts DEF Quiet, Known, Placed
  <2>2. Online' = Online
    BY <1>1 DEF Quiet, Online
  <2> QED
    BY <1>1, <2>1, <2>2 DEF Quiet, Lease!leaseVars, Holding, Online
<1>2. CASE UNCHANGED vars
  BY <1>1, <1>2 DEF Quiet, vars, serverVars, storeVars
<1>3. ASSUME NEW c \in Conns, QuietStep(c) PROVE UNCHANGED Lease!leaseVars
  BY <1>1, <1>3, QuietSteps DEF Known
<1>4. CASE Restart
  BY <1>4, RestartStep DEF Lease!LeaseNext
<1>5. ASSUME NEW b \in Blocks, Expire(b) PROVE Lease!LeaseNext
  BY <1>5, ExpireStep DEF Lease!LeaseNext
<1>6. ASSUME NEW c \in Conns, Connect(c) \/ Leave(c) PROVE Lease!LeaseNext
  BY <1>6, ConnectStep, LeaveStep DEF Lease!LeaseNext
<1>7. ASSUME NEW c \in Conns, NEW b \in Blocks,
             \/ RenewGranted(c, b) \/ RenewLost(c, b)
             \/ UnlockGranted(c, b) \/ UnlockLost(c, b)
             \/ DrainGranted(c, b) \/ DrainFailed(c, b)
      PROVE  Lease!LeaseNext \/ UNCHANGED Lease!leaseVars
  BY <1>7, RenewStep, UnlockStep, DrainFailedStep DEF Lease!LeaseNext
<1>8. ASSUME NEW c \in Conns, NEW b \in Blocks, NEW t \in Tokens,
             AcquireGranted(c, b, t) \/ AcquireLost(c, b, t)
      PROVE  Lease!LeaseNext
  BY <1>8, AcquireStep
<1> QED
  BY <1>2, <1>3, <1>4, <1>5, <1>6, <1>7, <1>8, StepKinds

(****************************************************************************)
(* What the handlers, Redis and the room do together is what BlockLease     *)
(* promises: leases start on free blocks, pass through "free" from holder   *)
(* to holder, are renewed by nobody once orphaned, and are all given back   *)
(* before their connection leaves (handler.go, lock.go).                    *)
(****************************************************************************)
THEOREM LocksAreLeases == Spec => LeaseSpec
<1>1. Init => Known
  <2>1. ASSUME Init PROVE Separate
    BY <2>1, LockStoreAssumption
      DEF Init, StoreInit, Off, NoLocks, Separate, OneBlock, GivenUp, Used, Held
  <2> QED
    BY <2>1, LockInit DEF Known
<1>2. Known /\ [Next]_vars => Known'
  BY TypeStep, LockStep, SeparateStep DEF Known
<1>3. Init => Lease!LeaseInit
  <2>1. ASSUME Init PROVE Online = {} /\ Holding = [b \in Blocks |-> Free]
    BY <2>1 DEF Init, StoreInit, Online, Holding, HolderOf, Off
  <2> QED
    BY <2>1 DEF Lease!LeaseInit, Init, StoreInit, Online, Holding
<1>4. Known /\ Known' /\ [Next]_vars => [Lease!LeaseNext]_(Lease!leaseVars)
  BY LeaseStep
<1> QED
  BY <1>1, <1>2, <1>3, <1>4, PTL DEF Spec, LeaseSpec, Lease!LeaseSpec
================================================================================
