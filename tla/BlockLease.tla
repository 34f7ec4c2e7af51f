------------------------------ MODULE BlockLease -------------------------------
(****************************************************************************)
(* What the block-lock service promises, without tokens, queues or          *)
(* goroutines.  A block is free, leased to one online connection, or an     *)
(* orphan: a lease nobody will give back.                                   *)
(*                                                                          *)
(*   - A lease starts on a free block only; it never passes from one holder *)
(*     to the next without the block being free in between.                 *)
(*   - Only a leased block is renewed.  An orphan just runs out.            *)
(*   - A connection goes offline by leaving, which it does with no lease    *)
(*     left, or in a crash of the process, which orphans every lease.       *)
(****************************************************************************)
EXTENDS Naturals

CONSTANTS Conns, Blocks, TTL, Free, Orphan

VARIABLES
  online,   \* connections being served
  holder,   \* holder[b]: Free, Orphan or the connection the lease belongs to
  lease     \* lease[b]: lifetime left

leaseVars == <<online, holder, lease>>

LeaseInit ==
  /\ online = {}
  /\ holder = [b \in Blocks |-> Free]
  /\ lease = [b \in Blocks |-> 0]

Put(b, h, n) ==
  /\ holder' = [holder EXCEPT ![b] = h]
  /\ lease' = [lease EXCEPT ![b] = n]

Come(c) ==
  /\ online' = online \union {c}
  /\ UNCHANGED <<holder, lease>>

Grant(c, b) ==
  /\ c \in online
  /\ holder[b] = Free
  /\ Put(b, c, TTL)
  /\ UNCHANGED online

\* The lease was taken but its holder was never told.
GrantLost(b) ==
  /\ holder[b] = Free
  /\ Put(b, Orphan, TTL)
  /\ UNCHANGED online

Renew(b) ==
  /\ holder[b] \in Conns
  /\ Put(b, holder[b], TTL)
  /\ UNCHANGED online

Release(b) ==
  /\ holder[b] \in Conns
  /\ Put(b, Free, 0)
  /\ UNCHANGED online

\* The holder gives up without the lease being given back.
Lose(b) ==
  /\ holder[b] \in Conns
  /\ Put(b, Orphan, lease[b])
  /\ UNCHANGED online

AgeLease(b) ==
  /\ lease[b] > 0
  /\ Put(b, IF lease[b] = 1 THEN Free ELSE holder[b], lease[b] - 1)
  /\ UNCHANGED online

Depart(c) ==
  /\ \A b \in Blocks : holder[b] # c
  /\ online' = online \ {c}
  /\ UNCHANGED <<holder, lease>>

Crash ==
  /\ online' = {}
  /\ holder' = [b \in Blocks |-> IF holder[b] = Free THEN Free ELSE Orphan]
  /\ UNCHANGED lease

LeaseNext ==
  \/ Crash
  \/ \E c \in Conns : Come(c) \/ Depart(c)
  \/ \E b \in Blocks :
       GrantLost(b) \/ Renew(b) \/ Release(b) \/ Lose(b) \/ AgeLease(b)
  \/ \E c \in Conns, b \in Blocks : Grant(c, b)

LeaseSpec == LeaseInit /\ [][LeaseNext]_leaseVars
================================================================================
