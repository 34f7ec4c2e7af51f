------------------------------- MODULE LockStore -------------------------------
(****************************************************************************)
(* The block locks of one page in Redis (backend/redis/lock.go): a key per  *)
(* block that holds the owner's token and expires.  SET NX and the two Lua  *)
(* scripts are atomic in Redis, so each call is one step.                   *)
(*                                                                          *)
(* A random 16-byte token is an opaque value.  Time is counted per key, in  *)
(* steps of any length: ttl[b] says how many of them the key has left, and  *)
(* keys age independently of each other, which allows every order in which  *)
(* real expiries can fall.                                                  *)
(****************************************************************************)
EXTENDS Naturals

CONSTANTS
  Blocks,   \* block ids of the page
  Tokens,   \* lock tokens
  NoToken,  \* the key does not exist, or: no token is remembered
  TTL       \* LOCK_TTL, in steps of Age

ASSUME LockStoreAssumption ==
  /\ TTL \in Nat \ {0}
  /\ NoToken \notin Tokens

VARIABLES
  key,      \* key[b]: token stored under lock:page:<page>:block:<b>
  ttl       \* ttl[b]: lifetime left, 0 exactly when there is no key

storeVars == <<key, ttl>>

StoreTypeOK ==
  /\ key \in [Blocks -> Tokens \union {NoToken}]
  /\ ttl \in [Blocks -> 0..TTL]
  /\ \A b \in Blocks : ttl[b] = 0 <=> key[b] = NoToken

StoreInit ==
  /\ key = [b \in Blocks |-> NoToken]
  /\ ttl = [b \in Blocks |-> 0]

Set(b, t, n) ==
  /\ key' = [key EXCEPT ![b] = t]
  /\ ttl' = [ttl EXCEPT ![b] = n]

(****************************************************************************)
(* Each operation comes as its two outcomes: the call returned TRUE, or it  *)
(* returned FALSE and changed nothing.                                      *)
(****************************************************************************)
\* Mutant: SET NX without the expiry argument, a key that lives for ever.
Acquired_NoExpiry(b, t) == key[b] = NoToken /\ Set(b, t, 0)

\* Mutant: SET without NX.
Acquired_Always(b, t) == Set(b, t, TTL)

Acquired(b, t) == key[b] = NoToken /\ Set(b, t, TTL)
NotAcquired(b) == key[b] # NoToken /\ UNCHANGED storeVars

Renewed(b, t) == key[b] = t /\ Set(b, t, TTL)
NotRenewed(b, t) == key[b] # t /\ UNCHANGED storeVars

\* Mutant: DEL without comparing the token.
Released_Unchecked(b, t) == key[b] # NoToken /\ Set(b, NoToken, 0)

Released(b, t) == key[b] = t /\ Set(b, NoToken, 0)
NotReleased(b, t) == key[b] # t /\ UNCHANGED storeVars

\* Mutant: a key outlives its time to live.
Age_Late(b) ==
  /\ ttl[b] > 0
  /\ Set(b, key[b], ttl[b] - 1)

\* Redis counts the key down and deletes it at zero.
Age(b) ==
  /\ ttl[b] > 0
  /\ IF ttl[b] = 1 THEN Set(b, NoToken, 0) ELSE Set(b, key[b], ttl[b] - 1)
================================================================================
