---------------------------- MODULE LockViewsProofs ----------------------------
(****************************************************************************)
(* Theorems about LockViews, for any set of connections, users, blocks and  *)
(* tokens, any queue capacity and time to live, and failing Redis calls.    *)
(****************************************************************************)
EXTENDS LockViews, LockServiceProofs

USE HubAssumption, LockStoreAssumption, LockServiceAssumption

--------------------------------------------------------------------------------
(* The server under the browsers is that of LockService. *)

(****************************************************************************)
(* Every step is one of LockService, with what the browser makes of it.     *)
(****************************************************************************)
LEMMA ServiceStep == [ViewNext]_allVars => [Next]_vars
<1>1. ServerStep => Next
  BY DEF ServerStep, Next
<1>2. ASSUME NEW d \in Conns, Receive(d) \/ Open(d) PROVE Next
  BY <1>2 DEF Receive, Open, Next
<1> QED
  BY <1>1, <1>2 DEF ViewNext, allVars

(****************************************************************************)
(* So the theorems of LockServiceProofs hold of the server that the         *)
(* browsers of LockViews talk to.                                           *)
(****************************************************************************)
THEOREM SameServer == ViewSpec => Spec
<1>1. ViewInit => Init
  BY DEF ViewInit
<1> QED
  BY <1>1, ServiceStep, PTL DEF ViewSpec, Spec

\* What those theorems say of a state.
Served == TypeInv /\ Placed /\ IterationsVisitMembers

LEMMA ServedInit == Init => Served
<1>1. ASSUME Init PROVE IterationsVisitMembers
  <2>1. /\ room = {}
        /\ todo = [c \in Conns |-> {}]
        /\ \A c \in Conns : op[c].at = "off"
    BY <1>1 DEF Init, HubInit, Off
  <2> QED
    BY <2>1 DEF IterationsVisitMembers
<1> QED
  BY <1>1, LockInit DEF Served

LEMMA ServedStep == Served /\ [ViewNext]_allVars => Served'
BY ServiceStep, TypeStep, LockStep, RoomStep DEF Served

(****************************************************************************)
(* The facts about the server that the proofs below use.                    *)
(****************************************************************************)
LEMMA ServedFacts ==
  ASSUME Served
  PROVE  /\ op \in [Conns -> [at : Place, block : Blocks \union {NoBlock},
                             token : Tokens \union {NoToken}]]
         /\ owned \in [Conns -> [Blocks -> Tokens \union {NoToken}]]
         /\ snap \in [Conns -> SUBSET (Conns \X Blocks)]
         /\ outbound \in [Conns -> Seq(Message)]
         /\ cast \in [Conns -> Message \union {NoMsg}]
         /\ todo \in [Conns -> SUBSET Conns]
         /\ \A c \in Conns :
              /\ op[c].at \in WithBlock => op[c].block \in Blocks
              /\ todo[c] \subseteq room
              /\ c \in room <=> op[c].at # "off"
              /\ op[c].at \in {"off", "hello", "sync", "scan", "drain", "drained"} =>
                   \A b \in Blocks : owned[c][b] = NoToken
BY DEF Served, TypeInv, RoomOK, HubTypeOK, OpOK, Locals, TablesOK, Placed, Phases,
       NoLocks, IterationsVisitMembers

--------------------------------------------------------------------------------
(* Type correctness *)

(****************************************************************************)
(* A browser shows users, whatever message it handles.                      *)
(****************************************************************************)
LEMMA ShownType ==
  ASSUME NEW v \in [Blocks -> Users \union {NoUser}], NEW m \in Message
  PROVE  Shown(v, m) \in [Blocks -> Users \union {NoUser}]
<1>1. CASE m.type = "lock_acquired"
  <2>1. m.block \in Blocks /\ m.user \in Users
    BY <1>1 DEF Message, PageSnapshot, Error
  <2> QED
    BY <1>1, <2>1 DEF Shown
<1>2. CASE m.type = "lock_released"
  BY <1>2 DEF Shown
<1>3. CASE m.type \notin {"lock_acquired", "lock_released"}
  BY <1>3 DEF Shown
<1> QED
  BY <1>1, <1>2, <1>3

(****************************************************************************)
(* What a step tells a browser is who has which block.                      *)
(****************************************************************************)
LEMMA ToldType ==
  ASSUME outbound \in [Conns -> Seq(Message)], outbound' \in [Conns -> Seq(Message)],
         NEW d \in Conns
  PROVE  Told(d) \subseteq Users \X Blocks
<1> DEFINE q == outbound'[d]
<1>1. CASE Len(q) > Len(outbound[d]) /\ q[Len(q)].type = "lock_acquired"
  <2>1. q[Len(q)] \in Message
    BY <1>1
  <2>2. q[Len(q)].user \in Users /\ q[Len(q)].block \in Blocks
    BY <1>1, <2>1 DEF Message, PageSnapshot, Error
  <2> QED
    BY <1>1, <2>2 DEF Told
<1>2. CASE ~(Len(q) > Len(outbound[d]) /\ q[Len(q)].type = "lock_acquired")
  BY <1>2 DEF Told
<1> QED
  BY <1>1, <1>2

LEMMA ViewTypeStep ==
  ASSUME Served, Served', ViewTypeOK, [ViewNext]_allVars
  PROVE  ViewTypeOK'
<1>a. /\ outbound \in [Conns -> Seq(Message)]
      /\ outbound' \in [Conns -> Seq(Message)]
  BY ServedFacts DEF Served, TypeInv, RoomOK, HubTypeOK
<1>1. CASE UNCHANGED allVars
  BY <1>1 DEF ViewTypeOK, allVars, viewVars
<1>2. CASE ServerStep
  <2>1. \A d \in Conns : (heard[d] \ Recorded) \union Told(d) \subseteq Users \X Blocks
    BY <1>a, ToldType DEF ViewTypeOK
  <2> HIDE DEF Recorded, Told
  <2> QED
    BY <1>2, <2>1 DEF ServerStep, ViewTypeOK
<1>3. ASSUME NEW d \in Conns, Receive(d) PROVE ViewTypeOK'
  <2>1. Head(outbound[d]) \in Message
    BY <1>3, <1>a DEF Receive, WritePump, Dequeue
  <2>2. Shown(view[d], Head(outbound[d])) \in [Blocks -> Users \union {NoUser}]
    BY <2>1, ShownType DEF ViewTypeOK
  <2> QED
    BY <1>3, <2>2 DEF Receive, ViewTypeOK
<1>4. ASSUME NEW d \in Conns, Open(d) PROVE ViewTypeOK'
  BY <1>4 DEF Open, ViewTypeOK, NothingShown
<1> QED
  BY <1>1, <1>2, <1>3, <1>4 DEF ViewNext

(****************************************************************************)
(* The variables keep their types in every behaviour.                       *)
(****************************************************************************)
THEOREM ViewTypes == ViewSpec => []ViewTypeOK
<1>1. ViewInit => Served /\ ViewTypeOK
  BY ServedInit DEF ViewInit, ViewTypeOK, NothingShown
<1>2. Served /\ ViewTypeOK /\ [ViewNext]_allVars => Served' /\ ViewTypeOK'
  BY ServedStep, ViewTypeStep
<1> QED
  BY <1>1, <1>2, PTL DEF ViewSpec

--------------------------------------------------------------------------------
(* Nobody misses an announcement *)

(****************************************************************************)
(* Being past the snapshot says nothing of how d got there.  From the       *)
(* moment GetRoomLocks starts, every lock on record is one that d was told  *)
(* of or will be: by its announcement, by the scan that has collected it,   *)
(* or by the scan that has yet to visit its holder.                         *)
(****************************************************************************)
Listening(d) == op[d].at \notin {"off", "hello", "sync", "drain", "drained"}

Collected(d, c, b) == op[d].at = "scan" /\ (<<c, b>> \in snap[d] \/ c \in todo[d])

Reaches(d, c, b) ==
  <<UserOf[c], b>> \in heard[d] \/ OnItsWay(d, UserOf[c], b) \/ Collected(d, c, b)

InformedInv ==
  \A d, c \in Conns, b \in Blocks :
    Listening(d) /\ owned[c][b] # NoToken => Reaches(d, c, b)

(****************************************************************************)
(* It implies what the run checks: after the scan nothing is collected.     *)
(****************************************************************************)
LEMMA PastSnapshot == InformedInv => Informed
BY DEF InformedInv, Informed, Listening, Synced, Reaches, Collected

(****************************************************************************)
(* Most steps record no lock, admit no listener, and leave announcements    *)
(* and scans under way as they are.                                         *)
(****************************************************************************)
NoNewLock == \A c \in Conns, b \in Blocks : owned'[c][b] \in {NoToken, owned[c][b]}

StillListens ==
  \A d \in Conns :
    Listening(d)' =>
      /\ Listening(d)
      /\ op[d].at = "scan" => op'[d].at = "scan"
      /\ heard[d] \subseteq heard'[d]
      /\ snap[d] \subseteq snap'[d]

StillAnnounced ==
  \A e \in Conns :
    /\ op[e].at = "announce" => op'[e].at = "announce" /\ op'[e].block = op[e].block
    /\ todo[e] # {} => todo'[e] = todo[e] /\ cast'[e] = cast[e]

Onward == NoNewLock /\ StillListens /\ StillAnnounced

LEMMA OnItsWayStays ==
  ASSUME StillAnnounced, NEW d \in Conns, NEW u, NEW b, OnItsWay(d, u, b)
  PROVE  OnItsWay(d, u, b)'
<1>1. PICK e \in Conns :
        /\ UserOf[e] = u
        /\ \/ op[e].at = "announce" /\ op[e].block = b
           \/ d \in todo[e] /\ cast[e] = LockAcquired(b, u)
  BY DEF OnItsWay
<1>2. \/ op'[e].at = "announce" /\ op'[e].block = b
      \/ d \in todo'[e] /\ cast'[e] = LockAcquired(b, u)
  BY <1>1 DEF StillAnnounced
<1> QED
  BY <1>1, <1>2 DEF OnItsWay, LockAcquired

LEMMA OnwardInformed ==
  ASSUME InformedInv, Onward
  PROVE  InformedInv'
<1> SUFFICES ASSUME NEW d \in Conns, NEW c \in Conns, NEW b \in Blocks,
                    Listening(d)', owned'[c][b] # NoToken
             PROVE  Reaches(d, c, b)'
  BY DEF InformedInv
<1>1. Listening(d) /\ owned[c][b] # NoToken
  BY DEF Onward, NoNewLock, StillListens
<1>2. Reaches(d, c, b)
  BY <1>1 DEF InformedInv
<1>3. CASE <<UserOf[c], b>> \in heard[d]
  BY <1>3 DEF Onward, StillListens, Reaches
<1>4. CASE OnItsWay(d, UserOf[c], b)
  BY <1>4, OnItsWayStays DEF Onward, Reaches
<1>5. CASE Collected(d, c, b)
  <2>1. op'[d].at = "scan" /\ snap[d] \subseteq snap'[d]
    BY <1>5 DEF Onward, StillListens, Collected
  <2>2. c \in todo[d] => c \in todo'[d]
    BY DEF Onward, StillAnnounced
  <2> QED
    BY <1>5, <2>1, <2>2 DEF Collected, Reaches
<1> QED
  BY <1>2, <1>3, <1>4, <1>5 DEF Reaches

(****************************************************************************)
(* What was heard stays heard while no lock is recorded.                    *)
(****************************************************************************)
Hears == heard' = [d \in Conns |-> (heard[d] \ Recorded) \union Told(d)]

LEMMA StillHeard ==
  ASSUME Hears, NoNewLock, NEW d \in Conns
  PROVE  heard[d] \subseteq heard'[d]
<1>1. Recorded = {}
  BY DEF Recorded, NoNewLock
<1> HIDE DEF Recorded, Told
<1> QED
  BY <1>1 DEF Hears

(****************************************************************************)
(* Whom a queue takes a lock_acquired for has heard of it.                  *)
(****************************************************************************)
LEMMA PutIsTold ==
  ASSUME Served, KeepsUp, Hears, NEW d \in Conns, op[d].at \notin {"drain", "drained"},
         NEW u, NEW b, SendTo(d, LockAcquired(b, u))
  PROVE  <<u, b>> \in heard'[d]
<1> DEFINE m == LockAcquired(b, u)
           q == outbound[d]
<1>1. q \in Seq(Message) /\ outbound'[d] = Put(q, m)
  BY ServedFacts DEF SendTo
<1>2. outbound'[d] = Append(q, m)
  BY <1>1 DEF KeepsUp, Put
<1>3. Len(outbound'[d]) = Len(q) + 1 /\ Len(q) \in Nat
  BY <1>1, <1>2
<1>4. outbound'[d][Len(outbound'[d])] = m
  BY <1>1, <1>2, <1>3
<1>5. m.type = "lock_acquired" /\ m.user = u /\ m.block = b
  BY DEF LockAcquired
<1>6. <<u, b>> \in Told(d)
  BY <1>3, <1>4, <1>5 DEF Told
<1> HIDE DEF Recorded, Told
<1> QED
  BY <1>6 DEF Hears

--------------------------------------------------------------------------------
(* Step by step *)

(****************************************************************************)
(* The steps that only move one goroutine, or a key.                        *)
(****************************************************************************)
LEMMA RequestsOnward ==
  ASSUME Served, Hears, NEW c \in Conns, Request(c)
  PROVE  Onward
<1>a. op \in [Conns -> [at : Place, block : Blocks \union {NoBlock},
                        token : Tokens \union {NoToken}]]
      /\ owned \in [Conns -> [Blocks -> Tokens \union {NoToken}]]
  BY ServedFacts
<1> DEFINE Moved ==
             /\ UNCHANGED <<todo, cast, snap>>
             /\ \A e \in Conns : e # c => op'[e] = op[e]
             /\ op[c].at = "ready"
             /\ op'[c].at \in {"ready", "fail", "deny", "add", "expired", "remove",
                               "forget", "drain"}
             /\ NoNewLock
<1>1. Moved
  <2> USE <1>a DEF NoNewLock, At, Goto, GotoOn, GotoWith, hubVars, serverVars
  <2>1. CASE Rejected(c)
    BY <2>1 DEF Rejected
  <2>2. CASE Disconnect(c)
    BY <2>2 DEF Disconnect, NoLocks
  <2>3. ASSUME NEW b \in Blocks,
               \/ AcquireRefused(c, b) \/ RenewUnowned(c, b) \/ RenewGranted(c, b)
               \/ RenewRefused(c, b) \/ RenewLost(c, b)
        PROVE  Moved
    BY <2>3 DEF AcquireRefused, RenewUnowned, RenewGranted, RenewRefused, RenewLost
  <2>4. ASSUME NEW b \in Blocks,
               UnlockGranted(c, b) \/ UnlockRefused(c, b) \/ UnlockLost(c, b)
        PROVE  Moved
    BY <2>4 DEF UnlockGranted, UnlockRefused, UnlockLost
  <2>5. ASSUME NEW b \in Blocks, NEW t \in Tokens,
               AcquireGranted(c, b, t) \/ AcquireLost(c, b, t)
        PROVE  Moved
    BY <2>5 DEF AcquireGranted, AcquireLost
  <2> QED
    BY <2>1, <2>2, <2>3, <2>4, <2>5 DEF Request
<1>2. StillListens
  BY <1>1, StillHeard DEF StillListens, Listening
<1> QED
  BY <1>1, <1>2 DEF Onward, StillAnnounced

(****************************************************************************)
(* The steps of a handler that record no lock and announce none, and those  *)
(* of the disconnect.                                                       *)
(****************************************************************************)
LEMMA AnswersOnward ==
  ASSUME Served, Hears, NEW c \in Conns,
         \/ SendPage(c) \/ SendDenied(c) \/ SendError(c)
         \/ ForgetExpired(c) \/ ForgetUnlocked(c)
  PROVE  Onward
<1>a. /\ op \in [Conns -> [at : Place, block : Blocks \union {NoBlock},
                        token : Tokens \union {NoToken}]]
      /\ owned \in [Conns -> [Blocks -> Tokens \union {NoToken}]]
      /\ op[c].at \in WithBlock => op[c].block \in Blocks
  BY ServedFacts
<1> DEFINE Moved ==
             /\ UNCHANGED <<todo, cast, snap>>
             /\ \A e \in Conns : e # c => op'[e] = op[e]
             /\ \/ op[c].at = "hello" /\ op'[c].at = "sync"
                \/ /\ op[c].at \in {"deny", "fail", "expired", "remove", "forget"}
                   /\ op'[c].at \in {"ready", "fail", "released"}
             /\ NoNewLock
<1>1. Moved
  <2> USE <1>a DEF NoNewLock, At, Goto, GotoOn, GotoWith, hubVars, WithBlock
  <2>1. CASE SendPage(c)
    BY <2>1 DEF SendPage
  <2>2. CASE SendDenied(c)
    BY <2>2 DEF SendDenied
  <2>3. CASE SendError(c)
    BY <2>3 DEF SendError
  <2>4. CASE ForgetExpired(c)
    BY <2>4 DEF ForgetExpired, RemoveLock
  <2>5. CASE ForgetUnlocked(c)
    BY <2>5 DEF ForgetUnlocked, RemoveLock
  <2> QED
    BY <2>1, <2>2, <2>3, <2>4, <2>5
<1>2. StillListens
  BY <1>1, StillHeard DEF StillListens, Listening
<1> QED
  BY <1>1, <1>2 DEF Onward, StillAnnounced

LEMMA ReleasesOnward ==
  ASSUME Served, Hears, NEW c \in Conns,
         \/ BroadcastReleased(c) \/ BroadcastDrained(c) \/ Leave(c)
         \/ \E b \in Blocks :
              DrainGranted(c, b) \/ DrainRefused(c, b) \/ DrainFailed(c, b)
  PROVE  Onward
<1>a. /\ op \in [Conns -> [at : Place, block : Blocks \union {NoBlock},
                        token : Tokens \union {NoToken}]]
      /\ todo \in [Conns -> SUBSET Conns]
      /\ cast \in [Conns -> Message \union {NoMsg}]
  BY ServedFacts
<1> DEFINE Moved ==
             /\ UNCHANGED <<snap, owned>>
             /\ \A e \in Conns :
                  e # c => op'[e] = op[e] /\ todo'[e] = todo[e] /\ cast'[e] = cast[e]
             /\ (op[c].at = "released" /\ op'[c].at = "ready") \/ ~Listening(c)'
             /\ op[c].at # "announce"
             /\ todo[c] # {} => UNCHANGED <<todo, cast>>
<1>1. Moved
  <2> USE <1>a DEF At, Running, Goto, GotoOn, GotoWith, hubVars, Listening
  <2>1. CASE BroadcastReleased(c)
    BY <2>1 DEF BroadcastReleased, StartBroadcast
  <2>2. CASE BroadcastDrained(c)
    BY <2>2 DEF BroadcastDrained, StartBroadcast
  <2>3. CASE Leave(c)
    BY <2>3 DEF Leave, LeaveRoom
  <2>4. ASSUME NEW b \in Blocks,
               DrainGranted(c, b) \/ DrainRefused(c, b) \/ DrainFailed(c, b)
        PROVE  Moved
    BY <2>4 DEF DrainGranted, DrainRefused, DrainFailed
  <2> QED
    BY <2>1, <2>2, <2>3, <2>4
<1>2. NoNewLock
  BY <1>1 DEF NoNewLock
<1>3. StillListens
  BY <1>1, <1>2, StillHeard DEF StillListens, Listening
<1> QED
  BY <1>1, <1>2, <1>3 DEF Onward, StillAnnounced

(****************************************************************************)
(* The page is opened again: the browser has not asked for the locks yet.   *)
(* A browser that reads, and a key that expires, change nothing.            *)
(****************************************************************************)
LEMMA OthersOnward ==
  ASSUME Served,
         \/ \E d \in Conns : Open(d) \/ Receive(d)
         \/ Hears /\ \E b \in Blocks : Expire(b)
         \/ UNCHANGED allVars
  PROVE  Onward
<1>a. op \in [Conns -> [at : Place, block : Blocks \union {NoBlock},
                        token : Tokens \union {NoToken}]]
  BY ServedFacts
<1>1. ASSUME NEW d \in Conns, Open(d) PROVE Onward
  <2>1. /\ UNCHANGED <<todo, cast, snap, owned>>
        /\ \A e \in Conns : e # d => op'[e] = op[e] /\ heard'[e] = heard[e]
        /\ op[d].at = "off"
        /\ op'[d].at = "hello"
    <3> HIDE DEF Open
    <3>1. Connect(d) /\ heard' = [heard EXCEPT ![d] = {}]
      BY <1>1 DEF Open
    <3>2. /\ UNCHANGED <<todo, cast, snap, owned>>
          /\ op[d].at = "off"
          /\ op' = [op EXCEPT ![d] = [at |-> "hello", block |-> NoBlock, token |-> NoToken]]
      BY <3>1 DEF Connect, JoinRoom, At, Goto, GotoOn, GotoWith
    <3> QED
      BY <1>a, <3>1, <3>2 
  <2> QED
    BY <2>1 DEF Onward, NoNewLock, StillListens, StillAnnounced, Listening
<1>2. ASSUME NEW d \in Conns, Receive(d) PROVE Onward
  <2>1. UNCHANGED <<op, todo, cast, snap, owned, heard>>
    BY <1>2 DEF Receive, WritePump, Dequeue, serverVars
  <2> QED
    BY <2>1 DEF Onward, NoNewLock, StillListens, StillAnnounced, Listening
<1>3. ASSUME Hears, NEW b \in Blocks, Expire(b) PROVE Onward
  <2>1. UNCHANGED <<op, todo, cast, snap, owned>>
    BY <1>3 DEF Expire, hubVars, serverVars
  <2>2. NoNewLock
    BY <2>1 DEF NoNewLock
  <2> QED
    BY <1>3, <2>1, <2>2, StillHeard
    DEF Onward, StillListens, StillAnnounced, Listening
<1>4. CASE UNCHANGED allVars
  BY <1>4 DEF allVars, vars, viewVars, hubVars, serverVars, Onward, NoNewLock,
    StillListens, StillAnnounced, Listening
<1> QED
  BY <1>1, <1>2, <1>3, <1>4

(****************************************************************************)
(* GetRoomLocks: whoever has a lock is another member, to be visited.       *)
(****************************************************************************)
LEMMA ScanStarts ==
  ASSUME Served, Hears, InformedInv, NEW c \in Conns, GetRoomLocks(c)
  PROVE  InformedInv'
<1>1. /\ op[c].at = "sync" /\ todo[c] = {}
      /\ op' = [op EXCEPT ![c] = [at |-> "scan", block |-> NoBlock, token |-> NoToken]]
      /\ todo' = [todo EXCEPT ![c] = room \ {c}]
      /\ UNCHANGED <<cast, snap, owned>>
  BY DEF GetRoomLocks, StartScan, At, Running, Goto, GotoOn, GotoWith
<1>2. NoNewLock /\ \A d \in Conns : heard[d] \subseteq heard'[d]
  BY <1>1, StillHeard DEF NoNewLock
<1>3. StillAnnounced
  BY <1>1, ServedFacts DEF StillAnnounced
<1>4. ASSUME NEW d \in Conns, NEW e \in Conns, NEW b \in Blocks,
             Listening(d)', owned'[e][b] # NoToken
      PROVE  Reaches(d, e, b)'
  <2>1. CASE d = c
    <3>1. e \in room /\ e # c
      BY <1>1, <1>4, ServedFacts
    <3>2. op'[d].at = "scan" /\ e \in todo'[d]
      BY <1>1, <2>1, <3>1, ServedFacts
    <3> QED
      BY <3>2 DEF Reaches, Collected
  <2>2. CASE d # c
    <3>1. op'[d] = op[d] /\ todo'[d] = todo[d] /\ owned[e][b] # NoToken
      BY <1>1, <1>4, <2>2
    <3>2. Listening(d)
      BY <1>4, <3>1 DEF Listening
    <3>3. Reaches(d, e, b)
      BY <3>1, <3>2 DEF InformedInv
    <3>4. CASE OnItsWay(d, UserOf[e], b)
      BY <1>3, <3>4, OnItsWayStays DEF Reaches
    <3>5. CASE <<UserOf[e], b>> \in heard[d] \/ Collected(d, e, b)
      BY <1>1, <1>2, <3>1, <3>5 DEF Reaches, Collected
    <3> QED
      BY <3>3, <3>4, <3>5 DEF Reaches
  <2> QED
    BY <2>1, <2>2
<1> QED
  BY <1>4 DEF InformedInv

--------------------------------------------------------------------------------
(* Broadcasts *)

(****************************************************************************)
(* A goroutine that broadcasts is between handlers, or draining; it has     *)
(* members to visit, and is not scanning.                                   *)
(****************************************************************************)
CastsInTurn(e) == cast[e] # NoMsg => todo[e] # {} /\ op[e].at \in {"ready", "drain"}

Casting == \A e \in Conns : CastsInTurn(e)

LEMMA CastingStep ==
  ASSUME Served, Casting, [Next]_vars
  PROVE  Casting'
<1>a. /\ op \in [Conns -> [at : Place, block : Blocks \union {NoBlock},
                        token : Tokens \union {NoToken}]]
      /\ todo \in [Conns -> SUBSET Conns]
      /\ cast \in [Conns -> Message \union {NoMsg}]
  BY ServedFacts
<1> DEFINE Frame(c) ==
             \A e \in Conns \ {c} :
               op'[e] = op[e] /\ todo'[e] = todo[e] /\ cast'[e] = cast[e]
           Moves(c) == todo[c] = {} /\ todo'[c] = {} /\ cast'[c] = cast[c]
           Scans(c) == op[c].at = "scan" /\ op'[c] = op[c] /\ cast'[c] = cast[c]
           Starts(c) == cast'[c] # NoMsg => todo'[c] # {} /\ op'[c].at \in {"ready", "drain"}
<1>f. ASSUME NEW c \in Conns, Frame(c), Moves(c) \/ Scans(c) \/ Starts(c)
      PROVE  Casting'
  <2>1. ASSUME NEW e \in Conns, e # c PROVE CastsInTurn(e)'
    BY <1>f, <2>1 DEF Casting, CastsInTurn
  <2>2. CastsInTurn(c)'
    BY <1>f DEF Casting, CastsInTurn
  <2> QED
    BY <2>1, <2>2 DEF Casting
<1>s. ASSUME UNCHANGED <<op, todo, cast>> PROVE Casting'
  BY <1>s DEF Casting, CastsInTurn
<1>0. ASSUME Restart PROVE Casting'
  BY <1>0 DEF Restart, HubLost, Casting, CastsInTurn
<1>1. ASSUME UNCHANGED vars PROVE Casting'
  BY <1>1, <1>s DEF vars, hubVars, serverVars
<1>2. ASSUME NEW b \in Blocks, Expire(b) PROVE Casting'
  BY <1>2, <1>s DEF Expire, hubVars, serverVars
<1>3. ASSUME NEW c \in Conns, Connect(c) \/ Leave(c) PROVE Casting'
  <2>1. Frame(c) /\ Moves(c)
    BY <1>3, <1>a
    DEF Connect, Leave, JoinRoom, LeaveRoom, At, Running, Goto, GotoOn, GotoWith
  <2> HIDE DEF Frame, Moves, Scans, Starts
  <2> QED
    BY <1>f, <2>1
<1>4. ASSUME NEW c \in Conns, WritePump(c) PROVE Casting'
  BY <1>4, <1>s DEF WritePump, Dequeue, serverVars
<1>5. ASSUME NEW c \in Conns, Request(c) PROVE Casting'
  <2>1. Frame(c) /\ Moves(c)
    <3> USE <1>a DEF At, Running, Goto, GotoOn, GotoWith, hubVars, serverVars
    <3>1. CASE Rejected(c) \/ Disconnect(c)
      BY <3>1 DEF Rejected, Disconnect
    <3>2. ASSUME NEW b \in Blocks,
                 \/ AcquireRefused(c, b) \/ RenewUnowned(c, b) \/ RenewGranted(c, b)
                 \/ RenewRefused(c, b) \/ RenewLost(c, b)
          PROVE  Frame(c) /\ Moves(c)
      BY <3>2 DEF AcquireRefused, RenewUnowned, RenewGranted, RenewRefused, RenewLost
    <3>3. ASSUME NEW b \in Blocks,
                 UnlockGranted(c, b) \/ UnlockRefused(c, b) \/ UnlockLost(c, b)
          PROVE  Frame(c) /\ Moves(c)
      BY <3>3 DEF UnlockGranted, UnlockRefused, UnlockLost
    <3>4. ASSUME NEW b \in Blocks, NEW t \in Tokens,
                 AcquireGranted(c, b, t) \/ AcquireLost(c, b, t)
          PROVE  Frame(c) /\ Moves(c)
      BY <3>4 DEF AcquireGranted, AcquireLost
    <3> HIDE DEF Frame, Moves
    <3> QED
      BY <1>5, <3>1, <3>2, <3>3, <3>4 DEF Request
  <2> HIDE DEF Frame, Moves, Scans, Starts
  <2> QED
    BY <1>f, <2>1
<1>6. ASSUME NEW c \in Conns,
             \/ SendPage(c) \/ SendDenied(c) \/ SendError(c) \/ EnterReadPump(c)
             \/ RecordLock(c) \/ ForgetExpired(c) \/ ForgetUnlocked(c)
             \/ \E d \in Conns, b \in Blocks : SendLock(c, d, b)
             \/ \E b \in Blocks :
                  DrainGranted(c, b) \/ DrainRefused(c, b) \/ DrainFailed(c, b)
      PROVE  Casting'
  <2>1. Frame(c) /\ Moves(c)
    <3> USE <1>a DEF At, Running, Goto, GotoOn, GotoWith, hubVars
    <3>1. CASE SendPage(c) \/ SendDenied(c) \/ SendError(c) \/ EnterReadPump(c)
      BY <3>1 DEF SendPage, SendDenied, SendError, EnterReadPump
    <3>2. CASE RecordLock(c) \/ ForgetExpired(c) \/ ForgetUnlocked(c)
      BY <3>2 DEF RecordLock, ForgetExpired, ForgetUnlocked
    <3>3. ASSUME NEW d \in Conns, NEW b \in Blocks, SendLock(c, d, b)
          PROVE  Frame(c) /\ Moves(c)
      BY <3>3 DEF SendLock
    <3>4. ASSUME NEW b \in Blocks,
                 DrainGranted(c, b) \/ DrainRefused(c, b) \/ DrainFailed(c, b)
          PROVE  Frame(c) /\ Moves(c)
      BY <3>4 DEF DrainGranted, DrainRefused, DrainFailed
    <3> HIDE DEF Frame, Moves
    <3> QED
      BY <1>6, <3>1, <3>2, <3>3, <3>4
  <2> HIDE DEF Frame, Moves, Scans, Starts
  <2> QED
    BY <1>f, <2>1
<1>7. ASSUME NEW c \in Conns, GetRoomLocks(c) PROVE Casting'
  <2>1. Frame(c) /\ cast'[c] = cast[c] /\ todo[c] = {}
    BY <1>7, <1>a DEF GetRoomLocks, StartScan, At, Running, Goto, GotoOn, GotoWith
  <2>2. Starts(c)
    BY <2>1 DEF Casting, CastsInTurn
  <2> HIDE DEF Frame, Moves, Scans, Starts
  <2> QED
    BY <1>f, <2>1, <2>2
<1>8. ASSUME NEW c \in Conns, NEW d \in Conns, ScanClient(c, d) PROVE Casting'
  <2>1. Frame(c) /\ Scans(c)
    BY <1>8, <1>a DEF ScanClient, ScanNext
  <2> HIDE DEF Frame, Moves, Scans, Starts
  <2> QED
    BY <1>f, <2>1
<1>9. ASSUME NEW c \in Conns,
             BroadcastAcquired(c) \/ BroadcastReleased(c) \/ BroadcastDrained(c)
      PROVE  Casting'
  <2>1. Frame(c) /\ Starts(c)
    BY <1>9, <1>a
    DEF BroadcastAcquired, BroadcastReleased, BroadcastDrained, StartBroadcast,
        Goto, GotoOn, GotoWith
  <2> HIDE DEF Frame, Moves, Scans, Starts
  <2> QED
    BY <1>f, <2>1
<1>10. ASSUME NEW c \in Conns, NEW d \in Conns, Deliver(c, d) PROVE Casting'
  <2>1. Frame(c) /\ op'[c] = op[c] /\ cast[c] # NoMsg
    BY <1>10, <1>a DEF Deliver, BroadcastTo, serverVars
  <2>2. /\ d \in todo[c]
        /\ todo'[c] = todo[c] \ {d}
        /\ cast'[c] = IF todo[c] = {d} THEN NoMsg ELSE cast[c]
    BY <1>10, <1>a DEF Deliver, BroadcastTo
  <2>3. Starts(c)
    BY <2>1, <2>2 DEF Casting, CastsInTurn
  <2> HIDE DEF Frame, Moves, Scans, Starts
  <2> QED
    BY <1>f, <2>1, <2>3
<1>11. ASSUME NEW c \in Conns, Serve(c) PROVE Casting'
  BY <1>6, <1>7, <1>8, <1>9, <1>10, <1>11 DEF Serve
<1> QED
  BY <1>0, <1>1, <1>2, <1>3, <1>4, <1>5, <1>11 DEF Next

--------------------------------------------------------------------------------
(* The steps that scan, record and announce *)

(****************************************************************************)
(* A member visited by the scan has its locks collected.                    *)
(****************************************************************************)
LEMMA ScanVisits ==
  ASSUME Served, Casting, Hears, InformedInv, NEW c \in Conns, NEW x \in Conns,
         ScanClient(c, x)
  PROVE  InformedInv'
<1>1. /\ op[c].at = "scan" /\ cast[c] = NoMsg
      /\ snap' = [snap EXCEPT ![c] =
                    @ \union {<<x, b>> : b \in {y \in Blocks : owned[x][y] # NoToken}}]
      /\ todo' = [todo EXCEPT ![c] = @ \ {x}]
      /\ UNCHANGED <<op, cast, owned>>
  BY DEF ScanClient, ScanNext, Casting, CastsInTurn
<1>2. NoNewLock /\ \A d \in Conns : heard[d] \subseteq heard'[d]
  BY <1>1, StillHeard DEF NoNewLock
<1>3. ASSUME NEW d \in Conns, NEW u \in Users, NEW b \in Blocks, OnItsWay(d, u, b)
      PROVE  OnItsWay(d, u, b)'
  <2>1. PICK e \in Conns :
          /\ UserOf[e] = u
          /\ \/ op[e].at = "announce" /\ op[e].block = b
             \/ d \in todo[e] /\ cast[e] = LockAcquired(b, u)
    BY <1>3 DEF OnItsWay
  <2>2. LockAcquired(b, u) # NoMsg
    BY LockViewsAssumption DEF Message, LockAcquired
  <2>3. e # c \/ op[e].at = "announce"
    BY <1>1, <2>1, <2>2
  <2> QED
    BY <1>1, <2>1, <2>3, ServedFacts DEF OnItsWay, LockAcquired
<1>4. ASSUME NEW d \in Conns, NEW e \in Conns, NEW b \in Blocks,
             Listening(d)', owned'[e][b] # NoToken
      PROVE  Reaches(d, e, b)'
  <2>1. Listening(d) /\ owned[e][b] # NoToken
    BY <1>1, <1>4 DEF Listening
  <2>2. Reaches(d, e, b)
    BY <2>1 DEF InformedInv
  <2>3. UserOf[e] \in Users
    BY LockServiceAssumption
  <2>4. CASE Collected(d, e, b)
    BY <1>1, <2>1, <2>4, ServedFacts DEF Collected, Reaches
  <2> QED
    BY <1>2, <1>3, <2>2, <2>3, <2>4 DEF Reaches
<1> QED
  BY <1>4 DEF InformedInv

(****************************************************************************)
(* A collected lock is sent, and a scan that has sent everything ends.      *)
(****************************************************************************)
LEMMA ScanSends ==
  ASSUME Served, KeepsUp, Hears, InformedInv, NEW c \in Conns, NEW x \in Conns,
         NEW y \in Blocks, SendLock(c, x, y)
  PROVE  InformedInv'
<1>1. /\ op[c].at = "scan"
      /\ SendTo(c, LockAcquired(y, UserOf[x]))
      /\ snap' = [snap EXCEPT ![c] = @ \ {<<x, y>>}]
      /\ UNCHANGED <<op, todo, cast, owned>>
  BY DEF SendLock, At
<1>2. NoNewLock /\ \A d \in Conns : heard[d] \subseteq heard'[d]
  BY <1>1, StillHeard DEF NoNewLock
<1>3. <<UserOf[x], y>> \in heard'[c]
  BY <1>1, PutIsTold
<1>4. StillAnnounced
  BY <1>1 DEF StillAnnounced
<1>5. ASSUME NEW d \in Conns, NEW e \in Conns, NEW b \in Blocks,
             Listening(d)', owned'[e][b] # NoToken
      PROVE  Reaches(d, e, b)'
  <2>1. Listening(d) /\ owned[e][b] # NoToken
    BY <1>1, <1>5 DEF Listening
  <2>2. Reaches(d, e, b)
    BY <2>1 DEF InformedInv
  <2>3. CASE d = c /\ e = x /\ b = y
    BY <1>3, <2>3 DEF Reaches
  <2>4. CASE Collected(d, e, b) /\ ~(d = c /\ e = x /\ b = y)
    BY <1>1, <2>4, ServedFacts DEF Collected, Reaches
  <2> QED
    BY <1>2, <1>4, <2>2, <2>3, <2>4, OnItsWayStays DEF Reaches
<1> QED
  BY <1>5 DEF InformedInv

LEMMA ScanEnds ==
  ASSUME Served, Hears, InformedInv, NEW c \in Conns, EnterReadPump(c)
  PROVE  InformedInv'
<1>1. /\ op[c].at = "scan" /\ todo[c] = {} /\ snap[c] = {}
      /\ op' = [op EXCEPT ![c] = [at |-> "ready", block |-> NoBlock, token |-> NoToken]]
      /\ UNCHANGED <<todo, cast, snap, owned>>
  BY DEF EnterReadPump, At, Running, Goto, GotoOn, GotoWith, hubVars
<1>2. NoNewLock /\ \A d \in Conns : heard[d] \subseteq heard'[d]
  BY <1>1, StillHeard DEF NoNewLock
<1>3. StillAnnounced
  BY <1>1, ServedFacts DEF StillAnnounced
<1>4. ASSUME NEW d \in Conns, NEW e \in Conns, NEW b \in Blocks,
             Listening(d)', owned'[e][b] # NoToken
      PROVE  Reaches(d, e, b)'
  <2>1. Listening(d) /\ owned[e][b] # NoToken
    BY <1>1, <1>4, ServedFacts DEF Listening
  <2>2. Reaches(d, e, b)
    BY <2>1 DEF InformedInv
  <2>3. CASE Collected(d, e, b)
    <3>1. d # c
      BY <1>1, <2>3 DEF Collected
    <3> QED
      BY <1>1, <2>3, <3>1 DEF Collected, Reaches
  <2> QED
    BY <1>2, <1>3, <2>2, <2>3, OnItsWayStays DEF Reaches
<1> QED
  BY <1>4 DEF InformedInv

(****************************************************************************)
(* addLock: what was heard of this user and block is void, but the          *)
(* announcement is about to start.                                          *)
(****************************************************************************)
LEMMA RecordInformed ==
  ASSUME Served, Hears, InformedInv, NEW c \in Conns, RecordLock(c)
  PROVE  InformedInv'
<1> DEFINE x == op[c].block
<1>1. /\ op[c].at = "add" /\ x \in Blocks
      /\ op'[c].at = "announce" /\ op'[c].block = x
      /\ \A e \in Conns \ {c} : op'[e] = op[e]
      /\ owned' = [owned EXCEPT ![c][x] = op[c].token]
      /\ UNCHANGED <<todo, cast, snap>>
  BY ServedFacts
  DEF RecordLock, At, AddLock, GotoOn, GotoWith, hubVars, WithBlock
<1>2. StillAnnounced
  BY <1>1 DEF StillAnnounced
<1>3. ASSUME NEW d \in Conns, NEW e \in Conns, NEW b \in Blocks,
             Listening(d)', owned'[e][b] # NoToken
      PROVE  Reaches(d, e, b)'
  <2>1. CASE UserOf[e] = UserOf[c] /\ b = x
    BY <1>1, <2>1 DEF Reaches, OnItsWay
  <2>2. CASE ~(UserOf[e] = UserOf[c] /\ b = x)
    <3>1. owned'[e][b] = owned[e][b]
      BY <1>1, <2>2, ServedFacts
    <3>2. Listening(d) /\ (op[d].at = "scan" => op'[d].at = "scan")
      BY <1>1, <1>3 DEF Listening
    <3>3. Reaches(d, e, b)
      BY <1>3, <3>1, <3>2 DEF InformedInv
    <3>4. <<UserOf[e], b>> \notin Recorded
      <4>1. \A k \in Conns : UserOf[k] = UserOf[e] => owned'[k][b] = owned[k][b]
        BY <1>1, <2>2, ServedFacts
      <4> QED
        BY <4>1 DEF Recorded
    <3>5. <<UserOf[e], b>> \in heard[d] => <<UserOf[e], b>> \in heard'[d]
      <4> HIDE DEF Recorded, Told
      <4> QED
        BY <3>4 DEF Hears
    <3>6. Collected(d, e, b) => Collected(d, e, b)'
      BY <1>1, <3>2 DEF Collected
    <3> QED
      BY <1>2, <3>3, <3>5, <3>6, OnItsWayStays DEF Reaches
  <2> QED
    BY <2>1, <2>2
<1> QED
  BY <1>3 DEF InformedInv

(****************************************************************************)
(* Broadcast: all members are visited, listeners among them.                *)
(****************************************************************************)
LEMMA AnnounceInformed ==
  ASSUME Served, Hears, InformedInv, NEW c \in Conns, BroadcastAcquired(c)
  PROVE  InformedInv'
<1> DEFINE x == op[c].block
<1>1. /\ op[c].at = "announce" /\ todo[c] = {} /\ x \in Blocks
      /\ op'[c].at = "ready"
      /\ \A e \in Conns \ {c} :
           op'[e] = op[e] /\ todo'[e] = todo[e] /\ cast'[e] = cast[e]
      /\ todo'[c] = room
      /\ c \in room
      /\ cast'[c] = LockAcquired(x, UserOf[c])
      /\ UNCHANGED <<snap, owned>>
  BY ServedFacts
  DEF BroadcastAcquired, StartBroadcast, At, Running, Goto, GotoOn, GotoWith, WithBlock
<1>2. NoNewLock /\ \A d \in Conns : heard[d] \subseteq heard'[d]
  BY <1>1, StillHeard DEF NoNewLock
<1>3. ASSUME NEW d \in Conns, NEW e \in Conns, NEW b \in Blocks,
             Listening(d)', owned'[e][b] # NoToken
      PROVE  Reaches(d, e, b)'
  <2>1. Listening(d) /\ d \in room
    BY <1>1, <1>3, ServedFacts DEF Listening
  <2>2. Reaches(d, e, b)
    BY <1>1, <1>3, <2>1 DEF InformedInv
  <2>3. CASE OnItsWay(d, UserOf[e], b)
    <3>1. PICK k \in Conns :
            /\ UserOf[k] = UserOf[e]
            /\ \/ op[k].at = "announce" /\ op[k].block = b
               \/ d \in todo[k] /\ cast[k] = LockAcquired(b, UserOf[e])
      BY <2>3 DEF OnItsWay
    <3>2. \/ op'[k].at = "announce" /\ op'[k].block = b
          \/ d \in todo'[k] /\ cast'[k] = LockAcquired(b, UserOf[e])
      BY <1>1, <2>1, <3>1
    <3> QED
      BY <3>1, <3>2 DEF Reaches, OnItsWay, LockAcquired
  <2>4. CASE Collected(d, e, b)
    BY <1>1, <2>4 DEF Collected, Reaches
  <2> QED
    BY <1>2, <2>2, <2>3, <2>4 DEF Reaches
<1> QED
  BY <1>3 DEF InformedInv

(****************************************************************************)
(* One member gets the announcement; the others still wait for it.          *)
(****************************************************************************)
LEMMA DeliverInformed ==
  ASSUME Served, Casting, KeepsUp, Hears, InformedInv, NEW c \in Conns, NEW x \in Conns,
         Deliver(c, x)
  PROVE  InformedInv'
<1>1. /\ cast[c] # NoMsg /\ x \in todo[c]
      /\ SendTo(x, cast[c])
      /\ todo'[c] = todo[c] \ {x}
      /\ cast'[c] = IF todo[c] = {x} THEN NoMsg ELSE cast[c]
      /\ \A e \in Conns \ {c} : todo'[e] = todo[e] /\ cast'[e] = cast[e]
      /\ UNCHANGED <<op, snap, owned>>
  BY ServedFacts DEF Deliver, BroadcastTo, serverVars
<1>2. NoNewLock /\ \A d \in Conns : heard[d] \subseteq heard'[d]
  BY <1>1, StillHeard DEF NoNewLock
<1>3. op[c].at # "scan"
  BY <1>1 DEF Casting, CastsInTurn
<1>4. ASSUME NEW d \in Conns, NEW e \in Conns, NEW b \in Blocks,
             Listening(d)', owned'[e][b] # NoToken
      PROVE  Reaches(d, e, b)'
  <2>1. Listening(d)
    BY <1>1, <1>4 DEF Listening
  <2>2. Reaches(d, e, b)
    BY <1>1, <1>4, <2>1 DEF InformedInv
  <2>3. CASE OnItsWay(d, UserOf[e], b)
    <3>1. PICK k \in Conns :
            /\ UserOf[k] = UserOf[e]
            /\ \/ op[k].at = "announce" /\ op[k].block = b
               \/ d \in todo[k] /\ cast[k] = LockAcquired(b, UserOf[e])
      BY <2>3 DEF OnItsWay
    <3>2. CASE k = c /\ d = x /\ d \in todo[k] /\ cast[k] = LockAcquired(b, UserOf[e])
      <4>1. SendTo(d, LockAcquired(b, UserOf[e]))
        BY <1>1, <3>2
      <4>2. <<UserOf[e], b>> \in heard'[d]
        BY <2>1, <4>1, PutIsTold DEF Listening
      <4> QED
        BY <4>2 DEF Reaches
    <3>3. CASE ~(k = c /\ d = x) \/ (op[k].at = "announce" /\ op[k].block = b)
      <4>1. \/ op'[k].at = "announce" /\ op'[k].block = b
            \/ d \in todo'[k] /\ cast'[k] = LockAcquired(b, UserOf[e])
        BY <1>1, <3>1, <3>3
      <4> QED
        BY <3>1, <4>1 DEF Reaches, OnItsWay, LockAcquired
    <3> QED
      BY <3>1, <3>2, <3>3
  <2>4. CASE Collected(d, e, b)
    BY <1>1, <1>3, <2>4 DEF Collected, Reaches
  <2> QED
    BY <1>2, <2>2, <2>3, <2>4 DEF Reaches
<1> QED
  BY <1>4 DEF InformedInv

(****************************************************************************)
(* All steps together.                                                      *)
(****************************************************************************)
LEMMA InformedStep ==
  ASSUME Served, Casting, InformedInv, [ViewNext]_allVars
  PROVE  InformedInv'
<1>1. ASSUME Onward PROVE InformedInv'
  BY <1>1, OnwardInformed
<1>2. ASSUME ServerStep PROVE Hears
  BY <1>2 DEF ServerStep, Hears
<1>3. ASSUME ServerStep, KeepsUp, NEW c \in Conns, Serve(c) PROVE InformedInv'
  <2>1. CASE \/ SendPage(c) \/ SendDenied(c) \/ SendError(c)
             \/ ForgetExpired(c) \/ ForgetUnlocked(c)
    BY <1>1, <1>2, <1>3, <2>1, AnswersOnward
  <2>2. CASE \/ BroadcastReleased(c) \/ BroadcastDrained(c)
             \/ \E b \in Blocks :
                  DrainGranted(c, b) \/ DrainRefused(c, b) \/ DrainFailed(c, b)
    BY <1>1, <1>2, <1>3, <2>2, ReleasesOnward
  <2>3. CASE GetRoomLocks(c) \/ EnterReadPump(c) \/ RecordLock(c) \/ BroadcastAcquired(c)
    BY <1>2, <1>3, <2>3, ScanStarts, ScanEnds, RecordInformed, AnnounceInformed
  <2>4. ASSUME NEW d \in Conns, ScanClient(c, d) \/ Deliver(c, d)
        PROVE  InformedInv'
    BY <1>2, <1>3, <2>4, ScanVisits, DeliverInformed
  <2>5. ASSUME NEW d \in Conns, NEW b \in Blocks, SendLock(c, d, b)
        PROVE  InformedInv'
    BY <1>2, <1>3, <2>5, ScanSends
  <2> QED
    BY <1>3, <2>1, <2>2, <2>3, <2>4, <2>5 DEF Serve
<1>4. ASSUME ServerStep, NEW c \in Conns, Request(c) PROVE InformedInv'
  BY <1>1, <1>2, <1>4, RequestsOnward
<1>5. ASSUME ServerStep, NEW c \in Conns, Leave(c) PROVE InformedInv'
  BY <1>1, <1>2, <1>5, ReleasesOnward
<1>6. ASSUME ServerStep, NEW b \in Blocks, Expire(b) PROVE InformedInv'
  BY <1>1, <1>2, <1>6, OthersOnward
<1>7. ASSUME ServerStep PROVE InformedInv'
  BY <1>3, <1>4, <1>5, <1>6, <1>7 DEF ServerStep
<1>8. ASSUME UNCHANGED allVars \/ \E d \in Conns : Open(d) \/ Receive(d)
      PROVE  InformedInv'
  BY <1>1, <1>8, OthersOnward
<1> QED
  BY <1>7, <1>8 DEF ViewNext

(****************************************************************************)
(* No browser past its snapshot misses the announcement of a lock, for any  *)
(* number of browsers, and with any number of tabs per user.                *)
(****************************************************************************)
THEOREM NobodyUninformed == ViewSpec => []Informed
<1> DEFINE Inv == Served /\ Casting /\ InformedInv
<1>1. ViewInit => Inv
  <2> SUFFICES ASSUME ViewInit PROVE Inv
    OBVIOUS
  <2>1. Init
    BY DEF ViewInit
  <2>2. /\ cast = [c \in Conns |-> NoMsg]
        /\ op = [c \in Conns |-> Off]
    BY <2>1 DEF Init, HubInit
  <2>3. Casting
    BY <2>2 DEF Casting, CastsInTurn
  <2>4. InformedInv
    BY <2>2 DEF InformedInv, Listening, Off
  <2> QED
    BY <2>1, <2>3, <2>4, ServedInit
<1>2. Inv /\ [ViewNext]_allVars => Inv'
  BY ServedStep, ServiceStep, CastingStep, InformedStep
<1>3. Inv => Informed
  BY PastSnapshot
<1> HIDE DEF Inv
<1> QED
  BY <1>1, <1>2, <1>3, PTL DEF ViewSpec

--------------------------------------------------------------------------------
(* While a lock is being announced, its holder has it. *)

(****************************************************************************)
(* Goroutine e broadcasts that it has b.                                    *)
(****************************************************************************)
Announces(e, b) == cast[e] = LockAcquired(b, UserOf[e])

(****************************************************************************)
(* From AcquireLock to the end of the broadcast nobody can take the key     *)
(* away but a late expiry, as e itself does nothing else meanwhile; and     *)
(* what e broadcasts is about its own lock.                                 *)
(****************************************************************************)
HoldsOn(e) ==
  /\ op[e].at = "add" => key[op[e].block] = op[e].token
  /\ op[e].at = "announce" =>
       /\ owned[e][op[e].block] # NoToken
       /\ key[op[e].block] = owned[e][op[e].block]
  /\ \A b \in Blocks :
       Announces(e, b) => owned[e][b] # NoToken /\ key[b] = owned[e][b]
  /\ cast[e] # NoMsg =>
       \E b \in Blocks : cast[e] = LockReleased(b) \/ Announces(e, b)

Holding == \A e \in Conns : HoldsOn(e)

(****************************************************************************)
(* A key that e minted stays as it is whatever the others do.               *)
(****************************************************************************)
KeyStays(e) == \A b \in Blocks : key[b] \in minted[e] => key'[b] = key[b]

LEMMA MintedFacts ==
  ASSUME Served
  PROVE  /\ key \in [Blocks -> Tokens \union {NoToken}]
         /\ drained \in [Conns -> [Blocks -> Tokens \union {NoToken}]]
         /\ \A c \in Conns :
              /\ NoToken \notin minted[c]
              /\ op[c].at = "add" => op[c].token \in minted[c]
              /\ \A b \in Blocks :
                   /\ owned[c][b] \in minted[c] \union {NoToken}
                   /\ drained[c][b] \in minted[c] \union {NoToken}
              /\ \A d \in Conns : c # d => minted[c] \intersect minted[d] = {}
BY LockStoreAssumption
DEF Served, TypeInv, StoreTypeOK, OpOK, Locals, TablesOK, Placed, Minting

LEMMA OthersKeep ==
  ASSUME Served, NEW c \in Conns, NEW e \in Conns, c # e, NEW b \in Blocks,
         Released(b, owned[c][b]) \/ Released(b, drained[c][b])
  PROVE  KeyStays(e)
<1>1. key[b] \notin minted[e]
  BY MintedFacts DEF Released
<1>2. key' = [key EXCEPT ![b] = NoToken]
  BY DEF Released, Set
<1> QED
  BY <1>1, <1>2, MintedFacts DEF KeyStays

LEMMA SetKeeps ==
  ASSUME Served, NEW e \in Conns, NEW b \in Blocks, NEW t \in Tokens,
         Acquired(b, t) \/ Renewed(b, t)
  PROVE  KeyStays(e)
BY MintedFacts DEF Acquired, Renewed, Set, KeyStays

(****************************************************************************)
(* A step of goroutine c leaves the others to their announcements, and      *)
(* most often c has none under way before or after.                         *)
(****************************************************************************)
Apart(c) ==
  \A e \in Conns \ {c} :
    /\ op'[e] = op[e] /\ owned'[e] = owned[e] /\ cast'[e] = cast[e]
    /\ KeyStays(e)

Silent(c) == cast'[c] = cast[c] /\ op'[c].at \notin {"add", "announce"}

LEMMA NotNoMsg ==
  ASSUME NEW b \in Blocks, NEW e \in Conns
  PROVE  LockAcquired(b, UserOf[e]) # NoMsg
BY MessageType, LockViewsAssumption

LEMMA ApartHolds ==
  ASSUME Served, Holding, NEW c \in Conns, Apart(c), HoldsOn(c)'
  PROVE  Holding'
<1>1. ASSUME NEW e \in Conns, e # c PROVE HoldsOn(e)'
  <2>1. /\ op'[e] = op[e] /\ owned'[e] = owned[e] /\ cast'[e] = cast[e]
        /\ KeyStays(e) /\ HoldsOn(e)
    BY <1>1 DEF Apart, Holding
  <2>2. op[e].at \in {"add", "announce"} => op[e].block \in Blocks
    BY ServedFacts DEF WithBlock
  <2>3. op[e].at = "add" => key'[op[e].block] = op[e].token
    BY <2>1, <2>2, MintedFacts DEF HoldsOn, KeyStays
  <2>4. op[e].at = "announce" => key'[op[e].block] = owned[e][op[e].block]
    BY <2>1, <2>2, MintedFacts DEF HoldsOn, KeyStays
  <2>5. \A b \in Blocks : Announces(e, b) => owned[e][b] # NoToken /\ key'[b] = owned[e][b]
    BY <2>1, MintedFacts DEF HoldsOn, KeyStays
  <2>6. \A b \in Blocks : Announces(e, b)' <=> Announces(e, b)
    BY <2>1 DEF Announces, LockAcquired
  <2>7. \A b \in Blocks : LockReleased(b)' = LockReleased(b)
    BY DEF LockReleased
  <2>8. cast[e] # NoMsg => \E b \in Blocks : cast[e] = LockReleased(b) \/ Announces(e, b)
    BY <2>1 DEF HoldsOn
  <2>9. op[e].at = "announce" => owned[e][op[e].block] # NoToken
    BY <2>1 DEF HoldsOn
  <2> HIDE DEF Announces, LockReleased
  <2> QED
    BY <2>1, <2>3, <2>4, <2>5, <2>6, <2>7, <2>8, <2>9 DEF HoldsOn
<1> QED
  BY <1>1 DEF Holding

LEMMA SilentHolds ==
  ASSUME Casting, NEW c \in Conns, Silent(c), todo[c] = {} \/ op[c].at = "scan"
  PROVE  HoldsOn(c)'
<1>1. cast'[c] = NoMsg
  BY DEF Casting, CastsInTurn, Silent
<1>2. \A b \in Blocks : ~Announces(c, b)'
  BY <1>1, NotNoMsg DEF Announces, LockAcquired
<1> QED
  BY <1>1, <1>2 DEF HoldsOn, Silent

LEMMA HoldingStep ==
  ASSUME Served, Casting, Holding, [ViewNext /\ InTime]_allVars
  PROVE  Holding'
<1>a. /\ op \in [Conns -> [at : Place, block : Blocks \union {NoBlock},
                        token : Tokens \union {NoToken}]]
      /\ owned \in [Conns -> [Blocks -> Tokens \union {NoToken}]]
      /\ drained \in [Conns -> [Blocks -> Tokens \union {NoToken}]]
      /\ todo \in [Conns -> SUBSET Conns]
      /\ cast \in [Conns -> Message \union {NoMsg}]
      /\ \A c \in Conns : op[c].at \in WithBlock => op[c].block \in Blocks
  BY ServedFacts, MintedFacts
<1>s. ASSUME UNCHANGED <<op, owned, key, cast>> PROVE Holding'
  BY <1>s DEF Holding, HoldsOn, Announces, LockAcquired, LockReleased
<1>k. ASSUME UNCHANGED key, NEW e \in Conns PROVE KeyStays(e)
  BY <1>k DEF KeyStays
<1>q. ASSUME NEW c \in Conns, Apart(c), Silent(c), todo[c] = {} \/ op[c].at = "scan"
      PROVE  Holding'
  BY <1>q, ApartHolds, SilentHolds
<1>1. CASE UNCHANGED allVars
  BY <1>1, <1>s DEF allVars, vars, hubVars, storeVars, serverVars
<1>2. ASSUME NEW d \in Conns, Receive(d) PROVE Holding'
  BY <1>2, <1>s DEF Receive, WritePump, Dequeue, serverVars, storeVars
<1>3. ASSUME NEW c \in Conns, Open(c) \/ Leave(c) PROVE Holding'
  <2>1. /\ \A e \in Conns \ {c} : op'[e] = op[e]
        /\ op'[c].at \in {"hello", "off"} /\ todo[c] = {}
        /\ UNCHANGED <<owned, cast, key>>
    BY <1>3, <1>a
    DEF Open, Connect, Leave, JoinRoom, LeaveRoom, At, Running, Goto, GotoOn, GotoWith,
        storeVars
  <2>2. Apart(c) /\ Silent(c)
    BY <2>1, <1>k DEF Apart, Silent
  <2> QED
    BY <1>q, <2>1, <2>2
<1>4. ASSUME NEW c \in Conns, Request(c) PROVE Holding'
  <2> DEFINE Moved ==
               /\ \A e \in Conns \ {c} : op'[e] = op[e] /\ owned'[e] = owned[e]
               /\ op'[c].at \notin {"add", "announce"}
               /\ todo[c] = {}
               /\ UNCHANGED cast
  <2> USE <1>a DEF At, Running, Goto, GotoOn, GotoWith, hubVars, storeVars, serverVars
  <2>q. ASSUME Moved, \A e \in Conns \ {c} : KeyStays(e) PROVE Holding'
    <3>1. Apart(c) /\ Silent(c)
      BY <2>q DEF Apart, Silent
    <3> QED
      BY <1>q, <2>q, <3>1
  <2>1. CASE Rejected(c) \/ Disconnect(c)
    <3>1. Moved /\ UNCHANGED key
      BY <2>1 DEF Rejected, Disconnect
    <3> HIDE DEF Moved
    <3> QED
      BY <3>1, <2>q, <1>k
  <2>2. ASSUME NEW b \in Blocks,
               \/ AcquireRefused(c, b) \/ RenewUnowned(c, b) \/ RenewRefused(c, b)
               \/ UnlockRefused(c, b)
        PROVE  Holding'
    <3>1. Moved /\ UNCHANGED key
      BY <2>2 DEF AcquireRefused, RenewUnowned, RenewRefused, UnlockRefused, NotAcquired,
        NotRenewed, NotReleased
    <3> HIDE DEF Moved
    <3> QED
      BY <3>1, <2>q, <1>k
  <2>3. ASSUME NEW b \in Blocks, RenewGranted(c, b) \/ RenewLost(c, b)
        PROVE  Holding'
    <3>1. Moved /\ Renewed(b, owned[c][b]) /\ owned[c][b] \in Tokens
      BY <2>3 DEF RenewGranted, RenewLost
    <3>2. \A e \in Conns \ {c} : KeyStays(e)
      BY <3>1, SetKeeps
    <3> HIDE DEF Moved
    <3> QED
      BY <3>1, <3>2, <2>q
  <2>4. ASSUME NEW b \in Blocks, UnlockGranted(c, b) \/ UnlockLost(c, b)
        PROVE  Holding'
    <3>1. Moved /\ Released(b, owned[c][b])
      BY <2>4 DEF UnlockGranted, UnlockLost
    <3>2. \A e \in Conns \ {c} : KeyStays(e)
      BY <3>1, OthersKeep
    <3> HIDE DEF Moved
    <3> QED
      BY <3>1, <3>2, <2>q
  <2>5. ASSUME NEW b \in Blocks, NEW t \in Tokens, AcquireLost(c, b, t)
        PROVE  Holding'
    <3>1. Moved /\ Acquired(b, t)
      BY <2>5 DEF AcquireLost
    <3>2. \A e \in Conns \ {c} : KeyStays(e)
      BY <3>1, SetKeeps
    <3> HIDE DEF Moved
    <3> QED
      BY <3>1, <3>2, <2>q
  <2>6. ASSUME NEW b \in Blocks, NEW t \in Tokens, AcquireGranted(c, b, t)
        PROVE  Holding'
    <3>1. /\ op' = [op EXCEPT ![c] = [at |-> "add", block |-> b, token |-> t]]
          /\ todo[c] = {} /\ Acquired(b, t)
          /\ UNCHANGED <<owned, cast>>
      BY <2>6 DEF AcquireGranted
    <3>2. Apart(c)
      BY <3>1, SetKeeps DEF Apart
    <3>3. cast'[c] = NoMsg
      BY <3>1 DEF Casting, CastsInTurn
    <3>4. \A x \in Blocks : ~Announces(c, x)'
      BY <3>3, NotNoMsg DEF Announces, LockAcquired
    <3>5. op'[c].at = "add" /\ op'[c].block = b /\ op'[c].token = t /\ key'[b] = t
      BY <3>1, MintedFacts DEF Acquired, Set
    <3>6. HoldsOn(c)'
      BY <3>3, <3>4, <3>5 DEF HoldsOn
    <3> QED
      BY <3>2, <3>6, ApartHolds
  <2> QED
    BY <1>4, <2>1, <2>2, <2>3, <2>4, <2>5, <2>6 DEF Request
<1>5. ASSUME NEW c \in Conns,
             \/ SendPage(c) \/ SendDenied(c) \/ SendError(c) \/ EnterReadPump(c)
             \/ GetRoomLocks(c) \/ ForgetExpired(c) \/ ForgetUnlocked(c)
             \/ \E d \in Conns : ScanClient(c, d)
             \/ \E d \in Conns, b \in Blocks : SendLock(c, d, b)
      PROVE  Holding'
  <2> DEFINE Moved ==
               /\ \A e \in Conns \ {c} : op'[e] = op[e] /\ owned'[e] = owned[e]
               /\ op'[c].at \notin {"add", "announce"}
               /\ todo[c] = {} \/ op[c].at = "scan"
               /\ UNCHANGED <<cast, key>>
  <2> USE <1>a DEF At, Running, Goto, GotoOn, GotoWith, hubVars, storeVars, serverVars
  <2>1. ASSUME SendPage(c) \/ SendDenied(c) \/ SendError(c) \/ EnterReadPump(c)
        PROVE  Moved
    BY <2>1 DEF SendPage, SendDenied, SendError, EnterReadPump
  <2>2. ASSUME GetRoomLocks(c) \/ \E d \in Conns : ScanClient(c, d)
        PROVE  Moved
    BY <2>2 DEF GetRoomLocks, ScanClient, StartScan, ScanNext
  <2>3. ASSUME ForgetExpired(c) \/ ForgetUnlocked(c)
        PROVE  Moved
    BY <2>3 DEF ForgetExpired, ForgetUnlocked, RemoveLock
  <2>4. ASSUME \E d \in Conns, b \in Blocks : SendLock(c, d, b)
        PROVE  Moved
    BY <2>4 DEF SendLock
  <2>5. Moved
    BY <1>5, <2>1, <2>2, <2>3, <2>4
  <2>6. Apart(c) /\ Silent(c)
    BY <2>5, <1>k DEF Apart, Silent
  <2> QED
    BY <1>q, <2>5, <2>6
<1>6. ASSUME NEW c \in Conns, NEW b \in Blocks,
             DrainGranted(c, b) \/ DrainRefused(c, b) \/ DrainFailed(c, b)
      PROVE  Holding'
  <2>1. /\ \A e \in Conns \ {c} : op'[e] = op[e]
        /\ op'[c].at \notin {"add", "announce"}
        /\ todo[c] = {}
        /\ UNCHANGED <<owned, cast>>
        /\ UNCHANGED key \/ Released(b, drained[c][b])
    BY <1>6, <1>a
    DEF DrainGranted, DrainRefused, DrainFailed, NotReleased, At, Running, GotoOn,
        GotoWith, hubVars, storeVars
  <2>2. \A e \in Conns \ {c} : KeyStays(e)
    BY <2>1, <1>k, OthersKeep
  <2>3. Apart(c) /\ Silent(c)
    BY <2>1, <2>2 DEF Apart, Silent
  <2> QED
    BY <1>q, <2>1, <2>3
<1>7. ASSUME NEW c \in Conns, RecordLock(c) PROVE Holding'
  <2> DEFINE x == op[c].block
  <2>1. /\ op[c].at = "add" /\ todo[c] = {} /\ x \in Blocks
        /\ op' = [op EXCEPT ![c] = [at |-> "announce", block |-> x, token |-> NoToken]]
        /\ owned' = [owned EXCEPT ![c][x] = op[c].token]
        /\ UNCHANGED <<cast, key>>
    BY <1>7, <1>a
    DEF RecordLock, AddLock, At, Running, GotoOn, GotoWith, hubVars, storeVars, WithBlock
  <2>2. Apart(c)
    BY <2>1, <1>a, <1>k DEF Apart
  <2>3. cast'[c] = NoMsg
    BY <2>1 DEF Casting, CastsInTurn
  <2>4. \A b \in Blocks : ~Announces(c, b)'
    BY <2>3, NotNoMsg DEF Announces, LockAcquired
  <2>5. key[x] = op[c].token /\ op[c].token # NoToken
    BY <2>1, MintedFacts DEF Holding, HoldsOn
  <2>6. op'[c].at = "announce" /\ op'[c].block = x /\ owned'[c][x] = op[c].token
    BY <2>1, <1>a
  <2>7. HoldsOn(c)'
    BY <2>1, <2>3, <2>4, <2>5, <2>6 DEF HoldsOn
  <2> QED
    BY <2>2, <2>7, ApartHolds
<1>8. ASSUME NEW c \in Conns,
             BroadcastAcquired(c) \/ BroadcastReleased(c) \/ BroadcastDrained(c)
      PROVE  Holding'
  <2> DEFINE x == op[c].block
  <2>1. /\ \A e \in Conns \ {c} : op'[e] = op[e] /\ cast'[e] = cast[e]
        /\ op'[c].at \in {"ready", "drain"} /\ x \in Blocks
        /\ \/ /\ op[c].at = "announce"
              /\ cast'[c] \in {NoMsg, LockAcquired(x, UserOf[c])}
           \/ cast'[c] \in {NoMsg, LockReleased(x)}
        /\ UNCHANGED <<owned, key>>
    BY <1>8, <1>a
    DEF BroadcastAcquired, BroadcastReleased, BroadcastDrained, StartBroadcast, At, Goto,
        GotoOn, GotoWith, storeVars, WithBlock
  <2>2. Apart(c)
    BY <2>1, <1>k DEF Apart
  <2>3. \A b \in Blocks :
          Announces(c, b)' => op[c].at = "announce" /\ b = x
    BY <2>1, NotNoMsg DEF Announces, LockAcquired, LockReleased
  <2>4. op[c].at = "announce" => owned[c][x] # NoToken /\ key[x] = owned[c][x]
    BY DEF Holding, HoldsOn
  <2>5. \A b \in Blocks : Announces(c, b)' => owned'[c][b] # NoToken /\ key'[b] = owned'[c][b]
    BY <2>1, <2>3, <2>4
  <2>6. cast'[c] # NoMsg =>
          \E b \in Blocks : cast'[c] = LockReleased(b)' \/ Announces(c, b)'
    BY <2>1 DEF Announces, LockAcquired, LockReleased
  <2> HIDE DEF Announces, LockReleased
  <2>7. HoldsOn(c)'
    BY <2>1, <2>5, <2>6 DEF HoldsOn
  <2> QED
    BY <2>2, <2>7, ApartHolds
<1>9. ASSUME NEW c \in Conns, NEW d \in Conns, Deliver(c, d) PROVE Holding'
  <2>1. /\ UNCHANGED <<op, owned, key>>
        /\ \A e \in Conns \ {c} : cast'[e] = cast[e]
        /\ cast'[c] \in {NoMsg, cast[c]}
    BY <1>9, <1>a DEF Deliver, BroadcastTo, serverVars, storeVars
  <2>2. Apart(c)
    BY <2>1, <1>k DEF Apart
  <2>3. \A b \in Blocks : Announces(c, b)' => Announces(c, b)
    BY <2>1, NotNoMsg DEF Announces, LockAcquired
  <2>4. cast'[c] # NoMsg => cast'[c] = cast[c]
    BY <2>1
  <2>5. \A b \in Blocks : cast'[c] = cast[c] => (Announces(c, b)' <=> Announces(c, b))
    BY DEF Announces, LockAcquired
  <2>6. \A b \in Blocks : LockReleased(b)' = LockReleased(b)
    BY DEF LockReleased
  <2>7. HoldsOn(c)
    BY DEF Holding
  <2> HIDE DEF Announces, LockReleased
  <2>8. HoldsOn(c)'
    BY <2>1, <2>3, <2>4, <2>5, <2>6, <2>7 DEF HoldsOn
  <2> QED
    BY <2>2, <2>8, ApartHolds
<1>10. ASSUME NEW c \in Conns, Serve(c) PROVE Holding'
  BY <1>5, <1>6, <1>7, <1>8, <1>9, <1>10 DEF Serve
<1> QED
  BY <1>1, <1>2, <1>3, <1>4, <1>10 DEF ViewNext, ServerStep, InTime

--------------------------------------------------------------------------------
(* What the steps do to queues, iterations and views *)

Live(c) == op[c].at \notin {"off", "drain", "drained"}

(****************************************************************************)
(* A handler moves on and touches nothing of the room.                      *)
(****************************************************************************)
Works ==
  /\ UNCHANGED <<room, todo, cast, outbound, snap, view>>
  /\ \A e \in Conns :
       \/ op'[e].at = op[e].at
       \/ op'[e].at \notin {"off", "scan"} /\ (Live(e)' => Live(e))

(****************************************************************************)
(* A handler queues a message for its own browser; a lock_acquired is one   *)
(* of its snapshot.                                                         *)
(****************************************************************************)
Sends(c) ==
  /\ KeepsUp /\ Live(c) /\ Live(c)'
  /\ UNCHANGED <<room, todo, cast, view>>
  /\ \A e \in Conns : snap'[e] \subseteq snap[e]
  /\ \A e \in Conns \ {c} : op'[e] = op[e]
  /\ op'[c].at = "scan" => op[c].at = "scan"
  /\ \E m \in Message :
       /\ SendTo(c, m)
       /\ \A b \in Blocks, u \in Users :
            m = LockAcquired(b, u) =>
              \E d \in Conns : <<d, b>> \in snap[c] /\ u = UserOf[d]

(****************************************************************************)
(* Broadcast begins.                                                        *)
(****************************************************************************)
Casts(c) ==
  /\ UNCHANGED <<room, outbound, snap, view>>
  /\ \A e \in Conns \ {c} :
       op'[e] = op[e] /\ todo'[e] = todo[e] /\ cast'[e] = cast[e]
  /\ todo[c] = {} /\ todo'[c] = room
  /\ op'[c].at \in {"ready", "drain"} /\ (Live(c)' => Live(c))

LEMMA MessageKinds ==
  ASSUME NEW b \in Blocks, NEW u \in Users
  PROVE  /\ LockAcquired(b, u) \notin {PageSnapshot, Error}
         /\ \A x \in Blocks : LockAcquired(b, u) # LockReleased(x)
         /\ \A x \in Blocks, v \in Users : LockAcquired(b, u) # LockDenied(x, v)
         /\ \A x \in Blocks, v \in Users :
              LockAcquired(b, u) = LockAcquired(x, v) => b = x /\ u = v
<1>1. LockAcquired(b, u).type = "lock_acquired"
  BY DEF LockAcquired
<1>2. PageSnapshot.type = "page_updated" /\ Error.type = "error"
  BY DEF PageSnapshot, Error
<1>3. \A x \in Blocks, v \in Users :
        LockReleased(x).type = "lock_released" /\ LockDenied(x, v).type = "lock_denied"
  BY DEF LockReleased, LockDenied
<1>4. \A x \in Blocks, v \in Users :
        LockAcquired(x, v).block = x /\ LockAcquired(x, v).user = v
  BY DEF LockAcquired
<1>5. LockAcquired(b, u) \notin {PageSnapshot, Error}
  BY <1>1, <1>2
<1>6. \A x \in Blocks : LockAcquired(b, u) # LockReleased(x)
  BY <1>1, <1>3
<1>7. \A x \in Blocks, v \in Users : LockAcquired(b, u) # LockDenied(x, v)
  BY <1>1, <1>3
<1> QED
  BY <1>4, <1>5, <1>6, <1>7

LEMMA WorksSteps ==
  ASSUME Served, NEW c \in Conns, view' = view,
         \/ Request(c) \/ EnterReadPump(c) \/ RecordLock(c)
         \/ ForgetExpired(c) \/ ForgetUnlocked(c)
         \/ \E b \in Blocks :
              DrainGranted(c, b) \/ DrainRefused(c, b) \/ DrainFailed(c, b)
  PROVE  Works
<1>a. op \in [Conns -> [at : Place, block : Blocks \union {NoBlock},
                        token : Tokens \union {NoToken}]]
  BY ServedFacts
<1> USE <1>a DEF Works, Live, At, Goto, GotoOn, GotoWith, hubVars, serverVars
<1>1. CASE EnterReadPump(c) \/ RecordLock(c) \/ ForgetExpired(c) \/ ForgetUnlocked(c)
  BY <1>1 DEF EnterReadPump, RecordLock, ForgetExpired, ForgetUnlocked
<1>2. ASSUME NEW b \in Blocks,
             DrainGranted(c, b) \/ DrainRefused(c, b) \/ DrainFailed(c, b)
      PROVE  Works
  BY <1>2 DEF DrainGranted, DrainRefused, DrainFailed
<1>3. CASE Rejected(c) \/ Disconnect(c)
  BY <1>3 DEF Rejected, Disconnect
<1>4. ASSUME NEW b \in Blocks,
             \/ AcquireRefused(c, b) \/ RenewUnowned(c, b) \/ RenewGranted(c, b)
             \/ RenewRefused(c, b) \/ RenewLost(c, b)
      PROVE  Works
  BY <1>4 DEF AcquireRefused, RenewUnowned, RenewGranted, RenewRefused, RenewLost
<1>5. ASSUME NEW b \in Blocks,
             UnlockGranted(c, b) \/ UnlockRefused(c, b) \/ UnlockLost(c, b)
      PROVE  Works
  BY <1>5 DEF UnlockGranted, UnlockRefused, UnlockLost
<1>6. ASSUME NEW b \in Blocks, NEW t \in Tokens,
             AcquireGranted(c, b, t) \/ AcquireLost(c, b, t)
      PROVE  Works
  BY <1>6 DEF AcquireGranted, AcquireLost
<1> HIDE DEF Works
<1> QED
  BY <1>1, <1>2, <1>3, <1>4, <1>5, <1>6 DEF Request

LEMMA SendsSteps ==
  ASSUME Served, KeepsUp, view' = view, NEW c \in Conns,
         \/ SendPage(c) \/ SendDenied(c) \/ SendError(c)
         \/ \E d \in Conns, b \in Blocks : SendLock(c, d, b)
  PROVE  Sends(c)
<1>a. /\ op \in [Conns -> [at : Place, block : Blocks \union {NoBlock},
                        token : Tokens \union {NoToken}]]
      /\ snap \in [Conns -> SUBSET (Conns \X Blocks)]
      /\ op[c].at \in WithBlock => op[c].block \in Blocks
      /\ UserOf[c] \in Users
  BY ServedFacts, LockServiceAssumption
<1> DEFINE Fine(m) ==
             \A b \in Blocks, u \in Users :
               m = LockAcquired(b, u) =>
                 \E d \in Conns : <<d, b>> \in snap[c] /\ u = UserOf[d]
           Moved ==
             /\ Live(c) /\ Live(c)'
             /\ UNCHANGED <<room, todo, cast>>
             /\ \A e \in Conns : snap'[e] \subseteq snap[e]
             /\ \A e \in Conns \ {c} : op'[e] = op[e]
             /\ op'[c].at = "scan" => op[c].at = "scan"
<1>1. CASE SendPage(c)
  <2>1. Moved /\ SendTo(c, PageSnapshot)
    BY <1>1, <1>a DEF SendPage, Live, At, Goto, GotoOn, GotoWith
  <2>2. PageSnapshot \in Message /\ Fine(PageSnapshot)
    BY MessageType, MessageKinds
  <2> QED
    BY <2>1, <2>2 DEF Sends
<1>2. CASE SendDenied(c)
  <2> DEFINE m == LockDenied(op[c].block, UserOf[c])
  <2>1. Moved /\ SendTo(c, m) /\ op[c].block \in Blocks
    BY <1>2, <1>a DEF SendDenied, Live, At, Goto, GotoOn, GotoWith, WithBlock
  <2>2. m \in Message /\ Fine(m)
    BY <1>a, <2>1, MessageType, MessageKinds
  <2> QED
    BY <2>1, <2>2 DEF Sends
<1>3. CASE SendError(c)
  <2>1. Moved /\ SendTo(c, Error)
    BY <1>3, <1>a DEF SendError, Live, At, Goto, GotoOn, GotoWith
  <2>2. Error \in Message /\ Fine(Error)
    BY MessageType, MessageKinds
  <2> QED
    BY <2>1, <2>2 DEF Sends
<1>4. ASSUME NEW d \in Conns, NEW b \in Blocks, SendLock(c, d, b) PROVE Sends(c)
  <2> DEFINE m == LockAcquired(b, UserOf[d])
  <2>1. Moved /\ SendTo(c, m) /\ <<d, b>> \in snap[c]
    BY <1>4, <1>a DEF SendLock, Live, At
  <2>2. m \in Message /\ UserOf[d] \in Users
    BY MessageType, LockServiceAssumption
  <2>3. Fine(m)
    BY <2>1, <2>2, MessageKinds
  <2> QED
    BY <2>1, <2>2, <2>3 DEF Sends
<1> QED
  BY <1>1, <1>2, <1>3, <1>4

LEMMA CastsSteps ==
  ASSUME Served, view' = view, NEW c \in Conns,
         BroadcastAcquired(c) \/ BroadcastReleased(c) \/ BroadcastDrained(c)
  PROVE  Casts(c)
<1>a. /\ op \in [Conns -> [at : Place, block : Blocks \union {NoBlock},
                        token : Tokens \union {NoToken}]]
      /\ todo \in [Conns -> SUBSET Conns]
      /\ cast \in [Conns -> Message \union {NoMsg}]
  BY ServedFacts
<1> QED
  BY <1>a
  DEF BroadcastAcquired, BroadcastReleased, BroadcastDrained, StartBroadcast, Casts,
      Live, At, Running, Goto, GotoOn, GotoWith

(****************************************************************************)
(* Every step is of one of these kinds.                                     *)
(****************************************************************************)
LEMMA StepKinds ==
  ASSUME Served, [ViewNext /\ InTime]_allVars
  PROVE  \/ Works
         \/ \E c \in Conns :
              \/ Sends(c) \/ Casts(c) \/ Receive(c) \/ Open(c)
              \/ (Leave(c) \/ GetRoomLocks(c)) /\ view' = view
         \/ \E c, d \in Conns :
              (ScanClient(c, d) \/ Deliver(c, d)) /\ KeepsUp /\ view' = view
<1>1. CASE UNCHANGED allVars
  BY <1>1 DEF allVars, vars, viewVars, hubVars, serverVars, Works
<1>2. ASSUME KeepsUp, view' = view, NEW c \in Conns, Serve(c)
      PROVE  \/ Works
             \/ Sends(c) \/ Casts(c) \/ GetRoomLocks(c)
             \/ \E d \in Conns : ScanClient(c, d) \/ Deliver(c, d)
  BY <1>2, WorksSteps, SendsSteps, CastsSteps DEF Serve
<1>3. ASSUME view' = view, NEW c \in Conns, Request(c) PROVE Works
  BY <1>3, WorksSteps
<1>4. ServerStep => view' = view
  BY DEF ServerStep
<1> QED
  BY <1>1, <1>2, <1>3, <1>4 DEF ViewNext, ServerStep, InTime

--------------------------------------------------------------------------------
(* What a browser will show *)

(****************************************************************************)
(* No connection scans itself or collects its own locks, and one that is    *)
(* off has no messages left.                                                *)
(****************************************************************************)
Alone(c) ==
  /\ op[c].at = "scan" => c \notin todo[c]
  /\ \A b \in Blocks : <<c, b>> \notin snap[c]
  /\ op[c].at = "off" => outbound[c] = <<>>

ScansOthers == \A c \in Conns : Alone(c)

LEMMA ScansOthersStep ==
  ASSUME Served, ScansOthers, [ViewNext /\ InTime]_allVars
  PROVE  ScansOthers'
<1>a. /\ op \in [Conns -> [at : Place, block : Blocks \union {NoBlock},
                        token : Tokens \union {NoToken}]]
      /\ snap \in [Conns -> SUBSET (Conns \X Blocks)]
      /\ outbound \in [Conns -> Seq(Message)]
      /\ todo \in [Conns -> SUBSET Conns]
      /\ \A c \in Conns : todo[c] \subseteq room /\ (c \in room <=> op[c].at # "off")
  BY ServedFacts
<1> USE <1>a DEF ScansOthers, Alone
<1>1. CASE Works
  BY <1>1 DEF Works
<1>2. ASSUME NEW c \in Conns, Sends(c) PROVE ScansOthers'
  <2>1. /\ UNCHANGED todo /\ op'[c].at # "off"
        /\ \A e \in Conns : snap'[e] \subseteq snap[e]
        /\ \A e \in Conns \ {c} : op'[e] = op[e]
        /\ op'[c].at = "scan" => op[c].at = "scan"
    BY <1>2 DEF Sends, Live
  <2>2. \A e \in Conns \ {c} : outbound'[e] = outbound[e]
    BY <1>2 DEF Sends, SendTo
  <2> QED
    BY <2>1, <2>2
<1>3. ASSUME NEW c \in Conns, Casts(c) PROVE ScansOthers'
  <2>1. /\ UNCHANGED <<outbound, snap>> /\ op'[c].at \in {"ready", "drain"}
        /\ \A e \in Conns \ {c} : op'[e] = op[e] /\ todo'[e] = todo[e]
    BY <1>3 DEF Casts
  <2>2. Alone(c)'
    BY <2>1
  <2>3. \A e \in Conns \ {c} : Alone(e)'
    BY <2>1
  <2> HIDE DEF Alone
  <2> QED
    BY <2>2, <2>3
<1>4. ASSUME NEW d \in Conns, Receive(d) PROVE ScansOthers'
  BY <1>4 DEF Receive, WritePump, Dequeue, serverVars
<1>5. ASSUME NEW d \in Conns, Open(d) PROVE ScansOthers'
  BY <1>5 DEF Open, Connect, JoinRoom, Goto, GotoOn, GotoWith
<1>6. ASSUME NEW c \in Conns, Leave(c) PROVE ScansOthers'
  BY <1>6 DEF Leave, LeaveRoom, Goto, GotoOn, GotoWith
<1>7. ASSUME NEW c \in Conns, GetRoomLocks(c) PROVE ScansOthers'
  BY <1>7 DEF GetRoomLocks, StartScan, Goto, GotoOn, GotoWith
<1>8. ASSUME NEW c \in Conns, NEW d \in Conns, ScanClient(c, d) PROVE ScansOthers'
  BY <1>8 DEF ScanClient, ScanNext
<1>9. ASSUME NEW c \in Conns, NEW d \in Conns, Deliver(c, d) PROVE ScansOthers'
  <2>1. UNCHANGED <<op, snap>> /\ \A e \in Conns : todo'[e] \subseteq todo[e]
    BY <1>9 DEF Deliver, BroadcastTo, serverVars
  <2>2. op[d].at # "off"
    BY <1>9 DEF Deliver, BroadcastTo
  <2>3. \A e \in Conns \ {d} : outbound'[e] = outbound[e]
    BY <1>9 DEF Deliver, BroadcastTo, SendTo
  <2> QED
    BY <2>1, <2>2, <2>3
<1> QED
  BY <1>1, <1>2, <1>3, <1>4, <1>5, <1>6, <1>7, <1>8, <1>9, StepKinds

(****************************************************************************)
(* What browser c will show of b once it has read its queue is its own      *)
(* user: the last message about b says so, or there is none and it does.    *)
(****************************************************************************)
Aside(b, m) == m # LockReleased(b) /\ \A u \in Users : m # LockAcquired(b, u)

Mine(c, b) ==
  LET q == outbound[c] IN
  \/ /\ view[c][b] = UserOf[c]
     /\ \A i \in 1..Len(q) : Aside(b, q[i])
  \/ \E i \in 1..Len(q) :
       /\ q[i] = LockAcquired(b, UserOf[c])
       /\ \A j \in 1..Len(q) : j > i => Aside(b, q[j])

LEMMA MineSame ==
  ASSUME NEW c \in Conns, NEW b \in Blocks,
         outbound'[c] = outbound[c], view'[c] = view[c], Mine(c, b)'
  PROVE  Mine(c, b)
BY DEF Mine, Aside, LockAcquired, LockReleased

(****************************************************************************)
(* One more message: it says so itself, or it is about something else.      *)
(****************************************************************************)
LEMMA MineSent ==
  ASSUME Served, KeepsUp, NEW c \in Conns, Live(c), NEW b \in Blocks, NEW m \in Message,
         SendTo(c, m), view' = view, Mine(c, b)'
  PROVE  m = LockAcquired(b, UserOf[c]) \/ (Aside(b, m) /\ Mine(c, b))
<1> DEFINE q == outbound[c]
           n == Len(q)
<1>1. q \in Seq(Message) /\ outbound'[c] = Append(q, m)
  <2>1. q \in Seq(Message) /\ outbound'[c] = Put(q, m)
    BY ServedFacts DEF SendTo
  <2> QED
    BY <2>1 DEF KeepsUp, Live, Put
<1>2. /\ n \in Nat
      /\ Len(outbound'[c]) = n + 1
      /\ outbound'[c][n + 1] = m
      /\ \A i \in 1..n : outbound'[c][i] = q[i]
  BY <1>1
<1> HIDE DEF q, n
<1>3. \/ /\ view[c][b] = UserOf[c]
         /\ \A i \in 1..(n + 1) : Aside(b, outbound'[c][i])
      \/ \E i \in 1..(n + 1) :
           /\ outbound'[c][i] = LockAcquired(b, UserOf[c])
           /\ \A j \in 1..(n + 1) : j > i => Aside(b, outbound'[c][j])
  BY <1>2 DEF Mine, Aside, LockAcquired, LockReleased
<1>4. CASE /\ view[c][b] = UserOf[c]
           /\ \A i \in 1..(n + 1) : Aside(b, outbound'[c][i])
  <2>1. Aside(b, m) /\ \A i \in 1..n : Aside(b, q[i])
    BY <1>2, <1>4
  <2> QED
    BY <1>4, <2>1 DEF Mine, q, n
<1>5. ASSUME NEW i \in 1..(n + 1),
             outbound'[c][i] = LockAcquired(b, UserOf[c]),
             \A j \in 1..(n + 1) : j > i => Aside(b, outbound'[c][j])
      PROVE  m = LockAcquired(b, UserOf[c]) \/ (Aside(b, m) /\ Mine(c, b))
  <2>1. CASE i = n + 1
    BY <1>2, <1>5, <2>1
  <2>2. CASE i # n + 1
    <3>1. i \in 1..n /\ n + 1 > i
      BY <1>2, <2>2
    <3>2. Aside(b, m) /\ q[i] = LockAcquired(b, UserOf[c])
      BY <1>2, <1>5, <3>1
    <3>3. \A j \in 1..n : j > i => Aside(b, q[j])
      BY <1>2, <1>5
    <3> QED
      BY <3>1, <3>2, <3>3 DEF Mine, q, n
  <2> QED
    BY <2>1, <2>2
<1> QED
  BY <1>3, <1>4, <1>5

(****************************************************************************)
(* Reading makes no difference to what will be shown.                       *)
(****************************************************************************)
LEMMA MineRead ==
  ASSUME Served, ViewTypeOK, NEW c \in Conns, Receive(c), NEW b \in Blocks, Mine(c, b)'
  PROVE  Mine(c, b)
<1> DEFINE q == outbound[c]
           m == Head(q)
           n == Len(q)
<1>1. /\ q \in Seq(Message) /\ q # <<>>
      /\ outbound'[c] = Tail(q)
      /\ view'[c] = Shown(view[c], m)
      /\ view[c] \in [Blocks -> Users \union {NoUser}]
  BY ServedFacts DEF Receive, WritePump, Dequeue, ViewTypeOK
<1>2. /\ n \in Nat /\ n > 0 /\ m = q[1] /\ m \in Message
      /\ Len(outbound'[c]) = n - 1
      /\ \A i \in 1..(n - 1) : outbound'[c][i] = q[i + 1]
  BY <1>1
<1>3. /\ UserOf[c] \in Users /\ UserOf[c] # NoUser
  BY LockServiceAssumption, LockViewsAssumption
<1>4. CASE /\ view'[c][b] = UserOf[c]
           /\ \A i \in 1..(n - 1) : Aside(b, q[i + 1])
  <2>1. \A j \in 1..n : j > 1 => Aside(b, q[j])
    <3> TAKE j \in 1..n
    <3> HAVE j > 1
    <3>1. j - 1 \in 1..(n - 1) /\ (j - 1) + 1 = j
      BY <1>2
    <3> QED
      BY <1>4, <3>1
  <2>2. CASE m.type = "lock_acquired"
    <3>1. m.block \in Blocks /\ m.user \in Users /\ m = LockAcquired(m.block, m.user)
      BY <1>2, <2>2 DEF Message, PageSnapshot, Error, LockAcquired
    <3>2. view'[c] = [view[c] EXCEPT ![m.block] = m.user]
      BY <1>1, <2>2 DEF Shown
    <3>3. CASE m.block = b
      <4>1. m = LockAcquired(b, UserOf[c])
        BY <1>1, <1>4, <3>1, <3>2, <3>3
      <4> HIDE DEF m, q, n
      <4>2. 1 \in 1..n /\ q[1] = LockAcquired(b, UserOf[c])
        BY <1>2, <4>1
      <4> QED
        BY <2>1, <4>2 DEF Mine, q, n
    <3>4. CASE m.block # b
      <4>1. view[c][b] = UserOf[c]
        BY <1>1, <1>4, <3>1, <3>2, <3>4
      <4>2. Aside(b, m)
        BY <3>1, <3>4, MessageKinds DEF Aside
      <4> HIDE DEF m
      <4>3. \A j \in 1..n : Aside(b, q[j])
        <5> TAKE j \in 1..n
        <5>1. j = 1 \/ j > 1
          BY <1>2
        <5> QED
          BY <1>2, <2>1, <4>2, <5>1
      <4> QED
        BY <4>1, <4>3 DEF Mine
    <3> QED
      BY <3>3, <3>4
  <2>3. CASE m.type = "lock_released"
    <3>1. m.block \in Blocks /\ m = LockReleased(m.block)
      BY <1>2, <2>3 DEF Message, PageSnapshot, Error, LockReleased
    <3>2. view'[c] = [view[c] EXCEPT ![m.block] = NoUser]
      BY <1>1, <2>3 DEF Shown
    <3>3. m.block # b /\ view[c][b] = UserOf[c]
      BY <1>1, <1>3, <1>4, <3>1, <3>2
    <3>4. Aside(b, m)
      BY <3>1, <3>3 DEF Aside, LockReleased, LockAcquired
    <3> HIDE DEF m
    <3>5. \A j \in 1..n : Aside(b, q[j])
      <4> TAKE j \in 1..n
      <4>1. j = 1 \/ j > 1
        BY <1>2
      <4> QED
        BY <1>2, <2>1, <3>4, <4>1
    <3> QED
      BY <3>3, <3>5 DEF Mine
  <2>4. CASE m.type \notin {"lock_acquired", "lock_released"}
    <3>1. view'[c] = view[c]
      BY <1>1, <2>4 DEF Shown
    <3>2. Aside(b, m)
      BY <2>4 DEF Aside, LockReleased, LockAcquired
    <3> HIDE DEF m
    <3>3. \A j \in 1..n : Aside(b, q[j])
      <4> TAKE j \in 1..n
      <4>1. j = 1 \/ j > 1
        BY <1>2
      <4> QED
        BY <1>2, <2>1, <3>2, <4>1
    <3> QED
      BY <1>4, <3>1, <3>3 DEF Mine
  <2> QED
    BY <2>2, <2>3, <2>4
<1>5. ASSUME NEW i \in 1..(n - 1),
             q[i + 1] = LockAcquired(b, UserOf[c]),
             \A j \in 1..(n - 1) : j > i => Aside(b, q[j + 1])
      PROVE  Mine(c, b)
  <2>1. i + 1 \in 1..n
    BY <1>2
  <2>2. \A j \in 1..n : j > i + 1 => Aside(b, q[j])
    <3> TAKE j \in 1..n
    <3> HAVE j > i + 1
    <3>1. j - 1 \in 1..(n - 1) /\ j - 1 > i /\ (j - 1) + 1 = j
      BY <1>2
    <3> QED
      BY <1>5, <3>1
  <2> QED
    BY <1>5, <2>1, <2>2 DEF Mine
<1> HIDE DEF m, q, n
<1>6. \/ /\ view'[c][b] = UserOf[c]
         /\ \A i \in 1..(n - 1) : Aside(b, outbound'[c][i])
      \/ \E i \in 1..(n - 1) :
           /\ outbound'[c][i] = LockAcquired(b, UserOf[c])
           /\ \A j \in 1..(n - 1) : j > i => Aside(b, outbound'[c][j])
  BY <1>2 DEF Mine, Aside, LockAcquired, LockReleased
<1>7. \/ /\ view'[c][b] = UserOf[c]
         /\ \A i \in 1..(n - 1) : Aside(b, q[i + 1])
      \/ \E i \in 1..(n - 1) :
           /\ q[i + 1] = LockAcquired(b, UserOf[c])
           /\ \A j \in 1..(n - 1) : j > i => Aside(b, q[j + 1])
  BY <1>2, <1>6
<1> QED
  BY <1>4, <1>5, <1>7

--------------------------------------------------------------------------------
(* One editor *)

(****************************************************************************)
(* A browser that has got an announcement still under way shows somebody    *)
(* else; and of two that will show b as their own, one has an announcement  *)
(* coming from the other.  When nothing is under way there are no two.      *)
(****************************************************************************)
Passed ==
  \A c, e \in Conns, b \in Blocks :
    Live(c) /\ c # e /\ Announces(e, b) /\ c \notin todo[e] => ~Mine(c, b)

\* The announcement of e is on its way to c.
Awaits(c, e, b) == Announces(e, b) /\ c \in todo[e]

OneMine ==
  \A c, e \in Conns, b \in Blocks :
    Live(c) /\ Live(e) /\ c # e /\ Mine(c, b) /\ Mine(e, b) =>
      Awaits(c, e, b) \/ Awaits(e, c, b)

(****************************************************************************)
(* Only one connection at a time announces a block.                         *)
(****************************************************************************)
LEMMA OneAnnounces ==
  ASSUME Served, Holding, NEW c \in Conns, NEW e \in Conns, NEW b \in Blocks,
         Announces(c, b), Announces(e, b)
  PROVE  c = e
<1>1. /\ owned[c][b] # NoToken /\ key[b] = owned[c][b]
      /\ owned[e][b] # NoToken /\ key[b] = owned[e][b]
  BY DEF Holding, HoldsOn
<1>2. owned[c][b] \in minted[c] /\ owned[e][b] \in minted[e]
  BY <1>1, MintedFacts
<1> QED
  BY <1>1, <1>2, MintedFacts

(****************************************************************************)
(* A browser will show b as its own because it would have before, or        *)
(* because it has just got its own announcement.                            *)
(****************************************************************************)
LEMMA MineStep ==
  ASSUME OneTabEach, Served, ViewTypeOK, Holding, ScansOthers,
         [ViewNext /\ InTime]_allVars,
         NEW c \in Conns, NEW b \in Blocks, Live(c)', Mine(c, b)'
  PROVE  /\ Live(c)
         /\ \/ Mine(c, b)
            \/ Announces(c, b) /\ todo'[c] = todo[c] \ {c} /\ Deliver(c, c)
<1>a. /\ op \in [Conns -> [at : Place, block : Blocks \union {NoBlock},
                        token : Tokens \union {NoToken}]]
      /\ outbound \in [Conns -> Seq(Message)]
      /\ todo \in [Conns -> SUBSET Conns]
      /\ cast \in [Conns -> Message \union {NoMsg}]
      /\ view \in [Conns -> [Blocks -> Users \union {NoUser}]]
      /\ UserOf[c] \in Users /\ UserOf[c] # NoUser
  BY ServedFacts, LockServiceAssumption, LockViewsAssumption DEF ViewTypeOK
<1> DEFINE Goal ==
             /\ Live(c)
             /\ \/ Mine(c, b)
                \/ Announces(c, b) /\ todo'[c] = todo[c] \ {c} /\ Deliver(c, c)
<1>s. ASSUME outbound'[c] = outbound[c], view'[c] = view[c], Live(c) PROVE Goal
  BY <1>s, MineSame
<1> HIDE DEF Mine
<1>1. CASE Works
  <2>1. outbound'[c] = outbound[c] /\ view'[c] = view[c] /\ Live(c)
    BY <1>1 DEF Works, Live
  <2> QED
    BY <1>s, <2>1
<1>2. ASSUME NEW e \in Conns, Sends(e) PROVE Goal
  <2>1. /\ KeepsUp /\ view' = view /\ Live(e)
        /\ \A x \in Conns \ {e} : op'[x] = op[x]
    BY <1>2 DEF Sends
  <2>2. PICK m \in Message :
          /\ SendTo(e, m)
          /\ \A x \in Blocks, u \in Users :
               m = LockAcquired(x, u) =>
                 \E d \in Conns : <<d, x>> \in snap[e] /\ u = UserOf[d]
    BY <1>2 DEF Sends
  <2>3. CASE e # c
    <3>1. outbound'[c] = outbound[c] /\ Live(c)
      BY <1>a, <2>1, <2>2, <2>3 DEF SendTo, Live
    <3> QED
      BY <1>s, <2>1, <3>1
  <2>4. CASE e = c
    <3>1. ASSUME m = LockAcquired(b, UserOf[c]) PROVE FALSE
      <4>1. PICK d \in Conns : <<d, b>> \in snap[c] /\ UserOf[c] = UserOf[d]
        BY <1>a, <2>2, <2>4, <3>1
      <4>2. d = c
        BY <4>1 DEF OneTabEach
      <4> QED
        BY <4>1, <4>2 DEF ScansOthers, Alone
    <3> QED
      BY <2>1, <2>2, <2>4, <3>1, MineSent
  <2> QED
    BY <2>3, <2>4
<1>3. ASSUME NEW e \in Conns, Casts(e) PROVE Goal
  <2>1. outbound'[c] = outbound[c] /\ view'[c] = view[c] /\ Live(c)
    BY <1>3 DEF Casts, Live
  <2> QED
    BY <1>s, <2>1
<1>4. ASSUME NEW d \in Conns, Receive(d) PROVE Goal
  <2>1. Live(c)
    BY <1>4 DEF Receive, WritePump, serverVars, Live
  <2>2. CASE d = c
    BY <1>4, <2>1, <2>2, MineRead
  <2>3. CASE d # c
    <3>1. outbound'[c] = outbound[c] /\ view'[c] = view[c]
      BY <1>4, <1>a, <2>3 DEF Receive, WritePump, Dequeue
    <3> QED
      BY <1>s, <2>1, <3>1
  <2> QED
    BY <2>2, <2>3
<1>5. ASSUME NEW d \in Conns, Open(d) PROVE Goal
  <2>1. /\ UNCHANGED outbound
        /\ op[d].at = "off"
        /\ \A x \in Conns \ {d} : op'[x] = op[x] /\ view'[x] = view[x]
        /\ view'[d] = NothingShown
    BY <1>5, <1>a DEF Open, Connect, JoinRoom, At, Goto, GotoOn, GotoWith
  <2>2. CASE d = c
    <3>1. outbound'[c] = <<>> /\ view'[c][b] = NoUser
      BY <2>1, <2>2 DEF ScansOthers, Alone, NothingShown
    <3>2. ~Mine(c, b)'
      BY <1>a, <3>1 DEF Mine
    <3> QED
      BY <3>2
  <2>3. CASE d # c
    BY <1>s, <2>1, <2>3 DEF Live
  <2> QED
    BY <2>2, <2>3
<1>6. ASSUME NEW e \in Conns, Leave(e), view' = view PROVE Goal
  <2>1. e # c
    BY <1>6, <1>a DEF Leave, Goto, GotoOn, GotoWith, Live
  <2>2. outbound'[c] = outbound[c] /\ Live(c)
    BY <1>6, <1>a, <2>1 DEF Leave, LeaveRoom, Goto, GotoOn, GotoWith, Live
  <2> QED
    BY <1>s, <1>6, <2>2
<1>7. ASSUME NEW e \in Conns, GetRoomLocks(e), view' = view PROVE Goal
  <2>1. outbound'[c] = outbound[c] /\ Live(c)
    BY <1>7, <1>a DEF GetRoomLocks, StartScan, At, Goto, GotoOn, GotoWith, Live
  <2> QED
    BY <1>s, <1>7, <2>1
<1>8. ASSUME NEW e \in Conns, NEW d \in Conns, ScanClient(e, d), view' = view PROVE Goal
  <2>1. outbound'[c] = outbound[c] /\ Live(c)
    BY <1>8 DEF ScanClient, ScanNext, Live
  <2> QED
    BY <1>s, <1>8, <2>1
<1>9. ASSUME NEW e \in Conns, NEW d \in Conns, Deliver(e, d), KeepsUp, view' = view
      PROVE  Goal
  <2>1. /\ cast[e] # NoMsg /\ cast[e] \in Message
        /\ SendTo(d, cast[e])
        /\ todo'[e] = todo[e] \ {d}
        /\ Live(c)
    BY <1>9, <1>a DEF Deliver, BroadcastTo, serverVars, Live
  <2>2. CASE d # c
    <3>1. outbound'[c] = outbound[c]
      BY <1>a, <2>1, <2>2 DEF SendTo
    <3> QED
      BY <1>s, <1>9, <2>1, <3>1
  <2>3. CASE d = c
    <3>1. cast[e] = LockAcquired(b, UserOf[c]) \/ Mine(c, b)
      BY <1>9, <2>1, <2>3, MineSent
    <3>2. CASE cast[e] = LockAcquired(b, UserOf[c])
      <4>1. PICK x \in Blocks : cast[e] = LockReleased(x) \/ Announces(e, x)
        BY <2>1 DEF Holding, HoldsOn
      <4>2. UserOf[e] = UserOf[c]
        BY <1>a, <3>2, <4>1, MessageKinds, LockServiceAssumption DEF Announces
      <4>3. e = c
        BY <4>2 DEF OneTabEach
      <4> QED
        BY <1>9, <2>1, <2>3, <3>2, <4>3 DEF Announces
    <3> QED
      BY <2>1, <3>1, <3>2
  <2> QED
    BY <2>2, <2>3
<1> QED
  BY <1>1, <1>2, <1>3, <1>4, <1>5, <1>6, <1>7, <1>8, <1>9, StepKinds

(****************************************************************************)
(* An announcement on its way to c stays so until c gets it, and then c     *)
(* will not show b as its own.                                              *)
(****************************************************************************)
LEMMA AwaitsStep ==
  ASSUME OneTabEach, Served, Casting, [ViewNext /\ InTime]_allVars,
         NEW c \in Conns, NEW e \in Conns, c # e, NEW b \in Blocks,
         Live(c), Mine(c, b)', Awaits(c, e, b)
  PROVE  Awaits(c, e, b)'
<1>a. /\ todo \in [Conns -> SUBSET Conns]
      /\ cast \in [Conns -> Message \union {NoMsg}]
      /\ UserOf[c] \in Users /\ UserOf[e] \in Users /\ UserOf[c] # UserOf[e]
      /\ LockAcquired(b, UserOf[e]) \in Message
      /\ cast[e] = LockAcquired(b, UserOf[e]) /\ c \in todo[e]
  BY ServedFacts, MessageType, LockServiceAssumption DEF OneTabEach, Awaits, Announces
<1>s. ASSUME todo'[e] = todo[e], cast'[e] = cast[e] PROVE Awaits(c, e, b)'
  BY <1>s, <1>a DEF Awaits, Announces, LockAcquired
<1>1. CASE Works
  BY <1>1, <1>s DEF Works
<1>2. ASSUME NEW x \in Conns, Sends(x) PROVE Awaits(c, e, b)'
  BY <1>2, <1>s DEF Sends
<1>3. ASSUME NEW x \in Conns, Casts(x) PROVE Awaits(c, e, b)'
  <2>1. x # e
    BY <1>3, <1>a DEF Casts
  <2> QED
    BY <1>3, <1>s, <2>1 DEF Casts
<1>4. ASSUME NEW d \in Conns, Receive(d) \/ Open(d) PROVE Awaits(c, e, b)'
  BY <1>4, <1>s DEF Receive, WritePump, Dequeue, Open, Connect, JoinRoom
<1>5. ASSUME NEW x \in Conns, Leave(x) PROVE Awaits(c, e, b)'
  BY <1>5, <1>s DEF Leave, LeaveRoom
<1>6. ASSUME NEW x \in Conns, GetRoomLocks(x) PROVE Awaits(c, e, b)'
  <2>1. x # e
    BY <1>6, <1>a DEF GetRoomLocks, At, Running
  <2> QED
    BY <1>6, <1>a, <1>s, <2>1 DEF GetRoomLocks, StartScan
<1>7. ASSUME NEW x \in Conns, NEW d \in Conns, ScanClient(x, d) PROVE Awaits(c, e, b)'
  <2>1. cast[x] = NoMsg
    BY <1>7 DEF ScanClient, Casting, CastsInTurn
  <2>2. x # e
    BY <1>a, <2>1, LockViewsAssumption
  <2> QED
    BY <1>7, <1>a, <1>s, <2>2 DEF ScanClient, ScanNext
<1>8. ASSUME NEW x \in Conns, NEW d \in Conns, Deliver(x, d), KeepsUp, view' = view
      PROVE  Awaits(c, e, b)'
  <2>1. /\ SendTo(d, cast[x])
        /\ todo' = [todo EXCEPT ![x] = @ \ {d}]
        /\ cast' = [cast EXCEPT ![x] = IF todo[x] = {d} THEN NoMsg ELSE @]
    BY <1>8 DEF Deliver, BroadcastTo
  <2>2. CASE x # e
    BY <1>a, <1>s, <2>1, <2>2
  <2>3. CASE x = e /\ d # c
    <3>1. c \in todo'[e] /\ cast'[e] = cast[e]
      BY <1>a, <2>1, <2>3
    <3> QED
      BY <1>a, <3>1 DEF Awaits, Announces, LockAcquired
  <2>4. CASE x = e /\ d = c
    <3>1. SendTo(c, LockAcquired(b, UserOf[e]))
      BY <1>a, <2>1, <2>4
    <3>2. \/ LockAcquired(b, UserOf[e]) = LockAcquired(b, UserOf[c])
          \/ Aside(b, LockAcquired(b, UserOf[e]))
      BY <1>a, <1>8, <3>1, MineSent
    <3> QED
      BY <1>a, <3>2, MessageKinds DEF Aside
  <2> QED
    BY <2>2, <2>3, <2>4
<1> QED
  BY <1>1, <1>2, <1>3, <1>4, <1>5, <1>6, <1>7, <1>8, StepKinds

(****************************************************************************)
(* An announcement under way was so before, or is still to reach all        *)
(* members.                                                                 *)
(****************************************************************************)
LEMMA AnnouncesStep ==
  ASSUME Served, [ViewNext /\ InTime]_allVars,
         NEW c \in Conns, Live(c)', NEW e \in Conns, NEW b \in Blocks, Announces(e, b)'
  PROVE  Announces(e, b) \/ c \in todo'[e]
<1>a. /\ todo \in [Conns -> SUBSET Conns]
      /\ cast \in [Conns -> Message \union {NoMsg}]
      /\ LockAcquired(b, UserOf[e]) # NoMsg
      /\ cast'[e] = LockAcquired(b, UserOf[e])
  BY ServedFacts, NotNoMsg DEF Announces, LockAcquired
<1>s. ASSUME cast'[e] = cast[e] PROVE Announces(e, b)
  BY <1>s, <1>a DEF Announces
<1>1. CASE Works
  BY <1>1, <1>s DEF Works
<1>2. ASSUME NEW x \in Conns, Sends(x) PROVE Announces(e, b)
  BY <1>2, <1>s DEF Sends
<1>3. ASSUME NEW x \in Conns, Casts(x) PROVE Announces(e, b) \/ c \in todo'[e]
  <2>1. CASE x # e
    BY <1>3, <1>s, <2>1 DEF Casts
  <2>2. CASE x = e
    <3>1. Live(c) /\ todo'[e] = room
      BY <1>3, <2>2 DEF Casts, Live
    <3> QED
      BY <3>1, ServedFacts DEF Live
  <2> QED
    BY <2>1, <2>2
<1>4. ASSUME NEW d \in Conns, Receive(d) \/ Open(d) PROVE Announces(e, b)
  BY <1>4, <1>s DEF Receive, WritePump, Dequeue, Open, Connect, JoinRoom
<1>5. ASSUME NEW x \in Conns, Leave(x) \/ GetRoomLocks(x) PROVE Announces(e, b)
  BY <1>5, <1>s DEF Leave, LeaveRoom, GetRoomLocks, StartScan
<1>6. ASSUME NEW x \in Conns, NEW d \in Conns, ScanClient(x, d) PROVE Announces(e, b)
  BY <1>6, <1>s DEF ScanClient, ScanNext
<1>7. ASSUME NEW x \in Conns, NEW d \in Conns, Deliver(x, d) PROVE Announces(e, b)
  <2>1. cast'[e] = cast[e] \/ cast'[e] = NoMsg
    BY <1>7, <1>a DEF Deliver, BroadcastTo
  <2> QED
    BY <1>a, <1>s, <2>1
<1> QED
  BY <1>1, <1>2, <1>3, <1>4, <1>5, <1>6, <1>7, StepKinds

LEMMA OneMineStep ==
  ASSUME OneTabEach, Served, ViewTypeOK, Casting, Holding, ScansOthers, Passed, OneMine,
         [ViewNext /\ InTime]_allVars
  PROVE  Passed' /\ OneMine'
<1>1. ASSUME NEW c \in Conns, NEW e \in Conns, NEW b \in Blocks,
             Live(c)', c # e, Announces(e, b)', c \notin todo'[e], Mine(c, b)'
      PROVE  FALSE
  <2>1. Announces(e, b)
    BY <1>1, AnnouncesStep
  <2>2. /\ Live(c)
        /\ Mine(c, b) \/ Announces(c, b)
    BY <1>1, MineStep
  <2>3. ~Announces(c, b)
    BY <1>1, <2>1, OneAnnounces
  <2>4. c \in todo[e]
    BY <1>1, <2>1, <2>2, <2>3 DEF Passed
  <2>5. Awaits(c, e, b)'
    BY <1>1, <2>1, <2>2, <2>4, AwaitsStep DEF Awaits
  <2> QED
    BY <1>1, <2>5 DEF Awaits
<1>2. ASSUME NEW c \in Conns, NEW e \in Conns, NEW b \in Blocks, c # e,
             Live(c)', Live(e)', Mine(c, b)', Mine(e, b)',
             Live(c), Live(e), Mine(c, b), Announces(e, b)
      PROVE  Awaits(c, e, b)'
  <2>1. Awaits(c, e, b)
    BY <1>2 DEF Passed, Awaits
  <2> QED
    BY <1>2, <2>1, AwaitsStep
<1>3. ASSUME NEW c \in Conns, NEW e \in Conns, NEW b \in Blocks,
             Live(c)', Live(e)', c # e, Mine(c, b)', Mine(e, b)'
      PROVE  Awaits(c, e, b)' \/ Awaits(e, c, b)'
  <2>1. /\ Live(c) /\ Live(e)
        /\ Mine(c, b) \/ Announces(c, b)
        /\ Mine(e, b) \/ Announces(e, b)
    BY <1>3, MineStep
  <2>2. ~(Announces(c, b) /\ Announces(e, b))
    BY <1>3, OneAnnounces
  <2>3. CASE Mine(c, b) /\ Mine(e, b)
    <3>1. Awaits(c, e, b) \/ Awaits(e, c, b)
      BY <1>3, <2>1, <2>3 DEF OneMine
    <3> QED
      BY <1>3, <2>1, <3>1, AwaitsStep
  <2>4. CASE Mine(c, b) /\ Announces(e, b)
    BY <1>2, <1>3, <2>1, <2>4
  <2>5. CASE Announces(c, b) /\ Mine(e, b)
    BY <1>2, <1>3, <2>1, <2>5
  <2> QED
    BY <2>1, <2>2, <2>3, <2>4, <2>5
<1>4. Passed'
  BY <1>1 DEF Passed
<1> QED
  BY <1>3, <1>4 DEF OneMine

(****************************************************************************)
(* Where no user has two tabs and holders renew in time, at most one        *)
(* browser comes to rest showing a block as its own: for any number of      *)
(* browsers and blocks, and with failing Redis calls.                       *)
(****************************************************************************)
THEOREM OneAtRest ==
  ASSUME OneTabEach
  PROVE  TimelySpec => []OneEditor
<1> DEFINE Inv ==
             /\ Served /\ ViewTypeOK /\ Casting
             /\ Holding /\ ScansOthers /\ Passed /\ OneMine
<1>1. ViewInit => Inv
  <2> SUFFICES ASSUME ViewInit PROVE Inv
    OBVIOUS
  <2>1. Init /\ ViewTypeOK
    BY DEF ViewInit, ViewTypeOK, NothingShown
  <2>2. /\ cast = [c \in Conns |-> NoMsg]
        /\ op = [c \in Conns |-> Off]
        /\ snap = [c \in Conns |-> {}]
        /\ outbound = [c \in Conns |-> <<>>]
    BY <2>1 DEF Init, HubInit
  <2>3. Casting /\ ScansOthers
    BY <2>2 DEF Casting, CastsInTurn, ScansOthers, Alone, Off
  <2>4. \A c \in Conns, b \in Blocks : ~Announces(c, b)
    BY <2>2, NotNoMsg DEF Announces
  <2>5. Holding
    BY <2>2, <2>4 DEF Holding, HoldsOn, Off
  <2>6. Passed /\ OneMine
    BY <2>2 DEF Passed, OneMine, Live, Off
  <2> QED
    BY <2>1, <2>3, <2>5, <2>6, ServedInit
<1>2. [ViewNext /\ InTime]_allVars => [ViewNext]_allVars
  OBVIOUS
<1>3. Inv /\ [ViewNext /\ InTime]_allVars => Inv'
  BY <1>2, ServedStep, ServiceStep, ViewTypeStep, CastingStep, HoldingStep,
     ScansOthersStep, OneMineStep
<1>4. Inv => OneEditor
  <2> SUFFICES ASSUME Inv, Settled, NEW c \in Conns, NEW d \in Conns, NEW b \in Blocks,
                      "ready" = op[c].at, view[c][b] = UserOf[c],
                      "ready" = op[d].at, view[d][b] = UserOf[d], c # d
               PROVE  FALSE
    BY DEF OneEditor
  <2>1. /\ todo[c] = {} /\ todo[d] = {}
        /\ outbound[c] = <<>> /\ outbound[d] = <<>>
    BY DEF Settled
  <2>2. Mine(c, b) /\ Mine(d, b)
    BY <2>1 DEF Mine
  <2> QED
    BY <2>1, <2>2 DEF OneMine, Awaits, Live
<1> HIDE DEF Inv
<1> QED
  BY <1>1, <1>3, <1>4, PTL DEF TimelySpec
================================================================================
