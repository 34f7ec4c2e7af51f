------------------------------ MODULE EditorProofs ------------------------------
(****************************************************************************)
(* Theorems about Editor, for any number of tabs, any rows and any bounds   *)
(* on edits and messages.                                                   *)
(*                                                                          *)
(* The argument, first for the locks.  Waiting(d) is what d has yet to hear *)
(* as far as it is settled: what others announce may still come before what *)
(* its own goroutine is about to send.  A tab that no longer holds a row it *)
(* shows as its own has the release of it waiting behind every grant, and   *)
(* as only the holder is told of a grant to itself, no order of broadcasts  *)
(* changes that (LocksOf).                                                  *)
(*                                                                          *)
(* For the edits, as long as messages go out in order: a row that another   *)
(* tab holds was released towards d before the next page stored under that  *)
(* lock goes out (NewsOf).  From then on d takes the row over from the      *)
(* pages it hears of, and what it saves with their version has the edits    *)
(* stored under the lock.                                                   *)
(****************************************************************************)
EXTENDS Editor, TLAPS

USE EditorAssumption, NoMsgAssumption

--------------------------------------------------------------------------------
(* The inductive invariant *)

\* What tab d has yet to hear, with what its own goroutine is about to send.
Waiting(d) ==
  IF cast[d] = NoMsg THEN outbound[d] ELSE Append(outbound[d], Sent(cast[d]))

ClosedOf(t, q) ==
  ~t.open => (\A r \in Rows : t.locks[r] = NoTab) /\ t.renewing = {} /\ q = <<>>

\* Place 0 is the tab t of d, the others are the messages it has yet to hear:
\* from place i on, d takes row r for its own.
Tied(d, r, t, q, i) ==
  \/ i = 0 /\ (t.locks[r] = d \/ r \in t.renewing)
  \/ i \in DOMAIN q /\ q[i] = LockAcquired(r, d)

ReleasedAfter(r, q, i) == \E j \in DOMAIN q : i < j /\ q[j] = LockReleased(r)

Asked(r, s) == \E i \in DOMAIN s : s[i] = Unlock(r)

Followed(d, r, t, q) ==
  \A i \in 0..Len(q) : Tied(d, r, t, q, i) => ReleasedAfter(r, q, i)

AskedAfter(r, s) ==
  \A i \in DOMAIN s :
    s[i] = Lock(r) => \E j \in DOMAIN s : i < j /\ s[j] = Unlock(r)

\* h holds r, and s are the messages of tab t of d to the server.
LocksOf(d, r, h, t, s, q) ==
  /\ h # d => Followed(d, r, t, q)
  /\ t.locks[r] = d /\ r \notin t.renewing => Asked(r, s) \/ ReleasedAfter(r, q, 0)
  /\ r # t.active => (Asked(r, s) \/ Followed(d, r, t, q)) /\ AskedAfter(r, s)

\* A grant is announced by the tab that holds the row.
Grants ==
  \A c \in Tabs : \A r \in Rows : \A u \in Tabs :
    cast[c] = LockAcquired(r, u) => u = c /\ holder[r] = c

LocksInv ==
  \A d \in Tabs :
    /\ ClosedOf(tab[d], outbound[d])
    /\ tab[d].open =>
         \A r \in Rows : LocksOf(d, r, holder[r], tab[d], inbound[d], Waiting(d))

\* c is about to send a page.
Sending(c) == cast[c] # NoMsg /\ cast[c].type \in {"page_updated", "answer"}

\* In order: one page at a time, the stored one; no row granted unreleased.
InOrder ==
  /\ \A c, e \in Tabs : Sending(c) /\ Sending(e) => c = e
  /\ \A c \in Tabs : Sending(c) => cast[c].page = page
  /\ \A c \in Tabs : \A r \in Rows : cast[c] = LockReleased(r) => holder[r] = NoTab

\* c has stored the page, and is about to send it.
Stored(c) == cast[c] # NoMsg /\ cast[c].type = "page_updated"

\* The version last sent.
Announced == IF \E c \in Tabs : Stored(c) THEN page.version - 1 ELSE page.version

PageAt(q, i) == i \in DOMAIN q /\ q[i].type = "page_updated"

\* No version is heard of after a later one, and version v will be heard of.
Ordered(v, t, q) ==
  /\ t.page.version <= v
  /\ \A i \in DOMAIN q : PageAt(q, i) =>
       /\ t.page.version <= q[i].page.version
       /\ q[i].page.version <= v
       /\ \A j \in DOMAIN q :
            PageAt(q, j) /\ i < j => q[i].page.version <= q[j].page.version
  /\ t.page.version = v \/ \E i \in DOMAIN q : PageAt(q, i) /\ q[i].page.version = v

NotLater(v, s) ==
  \A i \in DOMAIN s : s[i].type = "page_update" => s[i].page.version <= v

VersionsInv ==
  \A d \in Tabs :
    /\ NotLater(page.version, inbound[d])
    /\ tab[d].open => Ordered(Announced, tab[d], outbound[d])

\* p has the edits k of r, if it has version n or a later one.
Covers(n, r, k, p) == p.version >= n => k \subseteq p.text[r]

\* At place i the tab knows version n.
Knows(n, t, q, i) ==
  \/ t.page.version >= n
  \/ \E j \in DOMAIN q : j < i /\ PageAt(q, j) /\ q[j].page.version >= n

\* Row r is released after place i, and before version n is heard of.
ReleasedBefore(n, r, t, q, i) ==
  /\ t.page.version < n
  /\ \E j \in DOMAIN q :
       /\ i < j /\ q[j] = LockReleased(r)
       /\ \A k \in 1..j : PageAt(q, k) => q[k].page.version < n

\* The edits k of r were stored by a holder other than d, the last ones with
\* version n.
NewsOf(d, r, n, k, t, q) ==
  /\ Covers(n, r, k, t.page)
  /\ \A i \in DOMAIN q : PageAt(q, i) => Covers(n, r, k, q[i].page)
  /\ \A i \in 0..Len(q) :
       Tied(d, r, t, q, i) => Knows(n, t, q, i) \/ ReleasedBefore(n, r, t, q, i)

SavesOf(r, n, k, s) ==
  \A i \in DOMAIN s : s[i].type = "page_update" => Covers(n, r, k, s[i].page)

\* A tab that is granted r knows version n before it hears of the grant.
KnowsOf(d, r, n, m, t, q) == m = LockAcquired(r, d) => Knows(n, t, q, Len(q) + 1)

\* Version n was sent, or c has yet to send it and still holds r.
SentOf(c, r, n) == n <= Announced \/ (Stored(c) /\ holder[r] = c)

KeptSince(c, r, n) ==
  /\ n <= page.version /\ SentOf(c, r, n)
  /\ kept[c][r] \subseteq page.text[r]
  /\ \A d \in Tabs \ {c} :
       /\ SavesOf(r, n, kept[c][r], inbound[d])
       /\ tab[d].open =>
            /\ NewsOf(d, r, n, kept[c][r], tab[d], outbound[d])
            /\ KnowsOf(d, r, n, cast[d], tab[d], outbound[d])

KeptInv == \A c \in Tabs : \A r \in Rows : \E n \in 0..page.version : KeptSince(c, r, n)

OrderedInv == InOrder /\ VersionsInv /\ KeptInv

EditorInv == EditorTypeOK /\ Grants /\ LocksInv /\ (orderly => OrderedInv)

--------------------------------------------------------------------------------
(* Messages and queues *)

LEMMA LockMessages ==
  ASSUME NEW r \in Rows, NEW x \in Rows, NEW d \in Tabs, NEW c \in Tabs
  PROVE  /\ LockAcquired(r, d) \in OutMessage
         /\ LockReleased(r) \in OutMessage
         /\ LockAcquired(r, d).type = "lock_acquired"
         /\ LockReleased(r).type = "lock_released"
         /\ LockReleased(r) = LockReleased(x) => r = x
         /\ LockAcquired(r, d) = LockAcquired(x, c) => r = x /\ d = c
         /\ LockAcquired(r, d) # LockReleased(x)
<1>1. /\ LockReleased(r).row = r /\ LockReleased(x).row = x
      /\ LockAcquired(r, d).row = r /\ LockAcquired(x, c).row = x
      /\ LockAcquired(r, d).user = d /\ LockAcquired(x, c).user = c
      /\ LockAcquired(r, d).type = "lock_acquired"
      /\ LockReleased(x).type = "lock_released"
      /\ LockReleased(r).type = "lock_released"
  BY DEF LockReleased, LockAcquired
<1>2. LockAcquired(r, d) \in OutMessage /\ LockReleased(r) \in OutMessage
  BY DEF LockReleased, LockAcquired, OutMessage
<1> QED
  BY <1>1, <1>2

LEMMA PageMessages ==
  ASSUME NEW p \in Page
  PROVE  /\ PageUpdated(p) \in OutMessage
         /\ PageUpdated(p).type = "page_updated" /\ PageUpdated(p).page = p
         /\ \A r \in Rows : PageUpdated(p) # LockReleased(r)
         /\ \A r \in Rows, d \in Tabs : PageUpdated(p) # LockAcquired(r, d)
<1>1. PageUpdated(p).type = "page_updated" /\ PageUpdated(p).page = p
  BY DEF PageUpdated
<1>2. PageUpdated(p) \in OutMessage
  BY DEF PageUpdated, OutMessage
<1>3. /\ \A r \in Rows : LockReleased(r).type = "lock_released"
      /\ \A r \in Rows, d \in Tabs : LockAcquired(r, d).type = "lock_acquired"
  BY DEF LockReleased, LockAcquired
<1> QED
  BY <1>1, <1>2, <1>3

LEMMA OutMessageKinds ==
  ASSUME NEW m \in OutMessage
  PROVE  \/ /\ m.type = "lock_acquired" /\ m.row \in Rows /\ m.user \in Tabs
            /\ m = LockAcquired(m.row, m.user)
         \/ m.type = "lock_released" /\ m.row \in Rows /\ m = LockReleased(m.row)
         \/ m.type = "page_updated" /\ m.page \in Page
BY DEF OutMessage, LockAcquired, LockReleased

LEMMA InMessages ==
  ASSUME NEW r \in Rows, NEW x \in Rows
  PROVE  /\ Lock(r) \in InMessage /\ Unlock(r) \in InMessage
         /\ Lock(r) = Lock(x) => r = x
         /\ Unlock(r) = Unlock(x) => r = x
         /\ Lock(r) # Unlock(x)
         /\ Lock(r).type = "lock" /\ Unlock(r).type = "unlock"
<1>1. /\ Lock(r).row = r /\ Lock(x).row = x /\ Unlock(r).row = r /\ Unlock(x).row = x
      /\ Lock(r).type = "lock" /\ Unlock(r).type = "unlock"
      /\ Unlock(x).type = "unlock"
  BY DEF Lock, Unlock
<1>2. Lock(r) \in InMessage /\ Unlock(r) \in InMessage
  BY DEF Lock, Unlock, InMessage
<1> QED
  BY <1>1, <1>2

LEMMA SaveMessages ==
  ASSUME NEW p \in Page
  PROVE  /\ Save(p) \in InMessage /\ Save(p).type = "page_update" /\ Save(p).page = p
         /\ \A r \in Rows : Save(p) # Lock(r) /\ Save(p) # Unlock(r)
<1>1. Save(p).type = "page_update" /\ Save(p).page = p
  BY DEF Save
<1>2. Save(p) \in InMessage
  BY DEF Save, InMessage
<1>3. \A r \in Rows : Lock(r).type = "lock" /\ Unlock(r).type = "unlock"
  BY DEF Lock, Unlock
<1> QED
  BY <1>1, <1>2, <1>3

LEMMA InMessageKinds ==
  ASSUME NEW m \in InMessage
  PROVE  /\ m.type = "lock" => m.row \in Rows /\ m = Lock(m.row)
         /\ m.type = "unlock" => m.row \in Rows /\ m = Unlock(m.row)
         /\ m.type = "page_update" => m.page \in Page
BY DEF InMessage, Lock, Unlock

LEMMA QueueTail ==
  ASSUME NEW S, NEW q \in Seq(S), q # <<>>
  PROVE  /\ Head(q) \in S /\ Head(q) = q[1] /\ 1 \in DOMAIN q
         /\ Tail(q) \in Seq(S) /\ Len(q) \in Nat /\ Len(Tail(q)) = Len(q) - 1
         /\ \A i \in DOMAIN Tail(q) :
              i \in Nat /\ i >= 1 /\ i + 1 \in DOMAIN q /\ Tail(q)[i] = q[i + 1]
         /\ \A i \in DOMAIN q :
              i \in Nat /\ i >= 1 /\ (i # 1 => i - 1 \in DOMAIN Tail(q)
                                              /\ Tail(q)[i - 1] = q[i])
OBVIOUS

LEMMA QueueAppend ==
  ASSUME NEW S, NEW q \in Seq(S), NEW m \in S
  PROVE  /\ Append(q, m) \in Seq(S)
         /\ Len(q) \in Nat /\ Len(Append(q, m)) = Len(q) + 1
         /\ Len(q) + 1 \in DOMAIN Append(q, m) /\ Append(q, m)[Len(q) + 1] = m
         /\ \A i \in DOMAIN q :
              /\ i \in Nat /\ i >= 1 /\ i <= Len(q)
              /\ i \in DOMAIN Append(q, m) /\ Append(q, m)[i] = q[i]
         /\ \A i \in DOMAIN Append(q, m) : i \in DOMAIN q \/ i = Len(q) + 1
OBVIOUS

LEMMA QueueConcat ==
  ASSUME NEW S, NEW q \in Seq(S), NEW a \in S, NEW b \in S
  PROVE  /\ q \o <<>> = q
         /\ q \o <<a>> = Append(q, a)
         /\ q \o <<a, b>> = Append(Append(q, a), b)
OBVIOUS

LEMMA QueueAppendTail ==
  ASSUME NEW S, NEW q \in Seq(S), q # <<>>, NEW m \in S
  PROVE  /\ Append(q, m) # <<>> /\ Head(Append(q, m)) = Head(q)
         /\ Tail(Append(q, m)) = Append(Tail(q), m)
OBVIOUS

--------------------------------------------------------------------------------
(* Announcements *)

LEMMA SentFacts ==
  ASSUME NEW m \in Outgoing
  PROVE  /\ Sent(m) \in OutMessage
         /\ \A r \in Rows : Sent(m) = LockReleased(r) => m = LockReleased(r)
         /\ \A r \in Rows, d \in Tabs :
              Sent(m) = LockAcquired(r, d) => m = LockAcquired(r, d)
         /\ m.type \in {"page_updated", "answer"} =>
              /\ m.page \in Page /\ Sent(m).type = "page_updated"
              /\ Sent(m).page = m.page
         /\ m.type \notin {"page_updated", "answer"} =>
              Sent(m) = m /\ Sent(m).type # "page_updated"
<1>1. CASE m \in OutMessage
  <2>1. m.type \in {"lock_acquired", "lock_released", "page_updated"}
        /\ (m.type = "page_updated" => m.page \in Page)
    BY <1>1, OutMessageKinds
  <2> QED
    BY <1>1, <2>1 DEF Sent
<1>2. CASE m \in [type : {"answer"}, page : Page]
  <2>1. m.type = "answer" /\ m.page \in Page /\ Sent(m) = PageUpdated(m.page)
    BY <1>2 DEF Sent
  <2> QED
    BY <2>1, PageMessages
<1> QED
  BY <1>1, <1>2 DEF Outgoing

LEMMA OutgoingMessages ==
  /\ \A r \in Rows, d \in Tabs : LockAcquired(r, d) \in Outgoing
  /\ \A r \in Rows : LockReleased(r) \in Outgoing
  /\ \A p \in Page : /\ PageUpdated(p) \in Outgoing /\ Answer(p) \in Outgoing
                     /\ Answer(p).type = "answer" /\ Answer(p).page = p
                     /\ \A r \in Rows : Answer(p) # LockReleased(r)
                     /\ \A r \in Rows, d \in Tabs : Answer(p) # LockAcquired(r, d)
  /\ OutMessage \subseteq Outgoing
<1>1. \A p \in Page : /\ Answer(p) \in Outgoing
                      /\ Answer(p).type = "answer" /\ Answer(p).page = p
  BY DEF Answer, Outgoing
<1>2. OutMessage \subseteq Outgoing
  BY DEF Outgoing
<1>3. /\ \A r \in Rows, d \in Tabs : /\ LockAcquired(r, d) \in OutMessage
                                   /\ LockAcquired(r, d).type = "lock_acquired"
      /\ \A r \in Rows : /\ LockReleased(r) \in OutMessage
                         /\ LockReleased(r).type = "lock_released"
  BY DEF LockAcquired, LockReleased, OutMessage
<1>4. \A p \in Page : PageUpdated(p) \in Outgoing
  BY <1>2, PageMessages
<1>5. \A p \in Page : /\ \A r \in Rows : Answer(p) # LockReleased(r)
                      /\ \A r \in Rows, d \in Tabs : Answer(p) # LockAcquired(r, d)
  BY <1>1, <1>3
<1> QED
  BY <1>1, <1>2, <1>3, <1>4, <1>5

--------------------------------------------------------------------------------
(* Grants and releases under way *)

LEMMA ReleasedAppend ==
  ASSUME NEW r \in Rows, NEW q \in Seq(OutMessage), NEW m \in OutMessage, NEW i \in Nat
  PROVE  /\ ReleasedAfter(r, q, i) => ReleasedAfter(r, Append(q, m), i)
         /\ i <= Len(q) => ReleasedAfter(r, Append(q, LockReleased(r)), i)
<1>1. ReleasedAfter(r, q, i) => ReleasedAfter(r, Append(q, m), i)
  BY QueueAppend DEF ReleasedAfter
<1>2. LockReleased(r) \in OutMessage
  BY DEF LockReleased, OutMessage
<1>3. ASSUME i <= Len(q)
      PROVE  ReleasedAfter(r, Append(q, LockReleased(r)), i)
  BY <1>2, <1>3, QueueAppend DEF ReleasedAfter
<1> QED
  BY <1>1, <1>3

LEMMA ReleasedTail ==
  ASSUME NEW r \in Rows, NEW q \in Seq(OutMessage), q # <<>>, NEW i \in Nat
  PROVE  /\ ReleasedAfter(r, q, i + 1) => ReleasedAfter(r, Tail(q), i)
         /\ ReleasedAfter(r, q, 0) /\ Head(q) # LockReleased(r)
              => ReleasedAfter(r, Tail(q), 0)
<1>1. ASSUME ReleasedAfter(r, q, i + 1)
      PROVE  ReleasedAfter(r, Tail(q), i)
  <2>1. PICK j \in DOMAIN q : i + 1 < j /\ q[j] = LockReleased(r)
    BY <1>1 DEF ReleasedAfter
  <2>2. j - 1 \in DOMAIN Tail(q) /\ Tail(q)[j - 1] = q[j] /\ i < j - 1
    BY <2>1, QueueTail
  <2> QED
    BY <2>1, <2>2 DEF ReleasedAfter
<1>2. ASSUME ReleasedAfter(r, q, 0), Head(q) # LockReleased(r)
      PROVE  ReleasedAfter(r, Tail(q), 0)
  <2>1. PICK j \in DOMAIN q : 0 < j /\ q[j] = LockReleased(r)
    BY <1>2 DEF ReleasedAfter
  <2>2. j - 1 \in DOMAIN Tail(q) /\ Tail(q)[j - 1] = q[j] /\ 0 < j - 1
    BY <1>2, <2>1, QueueTail
  <2> QED
    BY <2>1, <2>2 DEF ReleasedAfter
<1> QED
  BY <1>1, <1>2

LEMMA TiedAppend ==
  ASSUME NEW d \in Tabs, NEW r \in Rows, NEW t, NEW q \in Seq(OutMessage),
         NEW m \in OutMessage, NEW i \in 0..Len(Append(q, m)),
         Tied(d, r, t, Append(q, m), i)
  PROVE  \/ i \in 0..Len(q) /\ Tied(d, r, t, q, i)
         \/ i = Len(q) + 1 /\ m = LockAcquired(r, d)
<1>1. CASE i = 0 /\ (t.locks[r] = d \/ r \in t.renewing)
  <2>1. 0 \in 0..Len(q)
    BY QueueAppend
  <2> QED
    BY <1>1, <2>1 DEF Tied
<1>2. CASE i \in DOMAIN Append(q, m) /\ Append(q, m)[i] = LockAcquired(r, d)
  <2>1. CASE i \in DOMAIN q
    BY <1>2, <2>1, QueueAppend DEF Tied
  <2>2. CASE i = Len(q) + 1
    BY <1>2, <2>2, QueueAppend
  <2> QED
    BY <1>2, <2>1, <2>2, QueueAppend
<1> QED
  BY <1>1, <1>2 DEF Tied

LEMMA FollowedAppend ==
  ASSUME NEW d \in Tabs, NEW r \in Rows, NEW t, NEW q \in Seq(OutMessage),
         NEW m \in OutMessage
  PROVE  /\ m # LockAcquired(r, d) /\ Followed(d, r, t, q)
              => Followed(d, r, t, Append(q, m))
         /\ m = LockReleased(r) => Followed(d, r, t, Append(q, m))
<1>1. m = LockReleased(r) => m # LockAcquired(r, d)
  BY LockMessages
<1>2. ASSUME m # LockAcquired(r, d), m = LockReleased(r) \/ Followed(d, r, t, q),
             NEW i \in 0..Len(Append(q, m)), Tied(d, r, t, Append(q, m), i)
      PROVE  ReleasedAfter(r, Append(q, m), i)
  <2>1. i \in 0..Len(q) /\ Tied(d, r, t, q, i)
    BY <1>2, TiedAppend
  <2>2. i \in Nat /\ i <= Len(q)
    BY <2>1, QueueAppend
  <2> QED
    BY <1>2, <2>1, <2>2, ReleasedAppend DEF Followed
<1> QED
  BY <1>1, <1>2 DEF Followed

\* A tab takes the next message: it is tied to r if it was told so, or was
\* before and has not heard of a release.
LEMMA TiedTail ==
  ASSUME NEW d \in Tabs, NEW r \in Rows, NEW t, NEW u, NEW q \in Seq(OutMessage),
         q # <<>>, NEW i \in 0..Len(Tail(q)), Tied(d, r, u, Tail(q), i),
         u.locks[r] = d \/ r \in u.renewing =>
           \/ Head(q) = LockAcquired(r, d)
           \/ t.locks[r] = d /\ Head(q) # LockReleased(r)
           \/ r \in t.renewing /\ Head(q) # LockReleased(r)
  PROVE  \/ i + 1 \in 0..Len(q) /\ Tied(d, r, t, q, i + 1)
         \/ i = 0 /\ Tied(d, r, t, q, 0) /\ Head(q) # LockReleased(r)
<1>1. CASE i \in DOMAIN Tail(q) /\ Tail(q)[i] = LockAcquired(r, d)
  <2>1. i + 1 \in DOMAIN q /\ q[i + 1] = LockAcquired(r, d)
    BY <1>1, QueueTail
  <2>2. i + 1 \in 0..Len(q)
    BY <2>1, QueueTail
  <2> QED
    BY <2>1, <2>2 DEF Tied
<1>2. CASE i = 0 /\ (u.locks[r] = d \/ r \in u.renewing)
  <2>1. CASE Head(q) = LockAcquired(r, d)
    <3>1. i + 1 = 1 /\ 1 \in DOMAIN q /\ q[1] = LockAcquired(r, d) /\ 1 \in 0..Len(q)
      BY <1>2, <2>1, QueueTail
    <3> QED
      BY <3>1 DEF Tied
  <2>2. CASE Head(q) # LockAcquired(r, d)
    BY <1>2, <2>2 DEF Tied
  <2> QED
    BY <2>1, <2>2
<1> QED
  BY <1>1, <1>2 DEF Tied

LEMMA FollowedTail ==
  ASSUME NEW d \in Tabs, NEW r \in Rows, NEW t, NEW u, NEW q \in Seq(OutMessage),
         q # <<>>, Followed(d, r, t, q),
         u.locks[r] = d \/ r \in u.renewing =>
           \/ Head(q) = LockAcquired(r, d)
           \/ t.locks[r] = d /\ Head(q) # LockReleased(r)
           \/ r \in t.renewing /\ Head(q) # LockReleased(r)
  PROVE  Followed(d, r, u, Tail(q))
<1>1. ASSUME NEW i \in 0..Len(Tail(q)), Tied(d, r, u, Tail(q), i)
      PROVE  ReleasedAfter(r, Tail(q), i)
  <2>1. i \in Nat /\ 0 \in 0..Len(q)
    BY QueueTail
  <2>2. CASE i + 1 \in 0..Len(q) /\ Tied(d, r, t, q, i + 1)
    BY <2>1, <2>2, ReleasedTail DEF Followed
  <2>3. CASE i = 0 /\ Tied(d, r, t, q, 0) /\ Head(q) # LockReleased(r)
    BY <2>1, <2>3, ReleasedTail DEF Followed
  <2>4. \/ i + 1 \in 0..Len(q) /\ Tied(d, r, t, q, i + 1)
        \/ i = 0 /\ Tied(d, r, t, q, 0) /\ Head(q) # LockReleased(r)
    BY <1>1, TiedTail
  <2> QED
    BY <2>2, <2>3, <2>4
<1> QED
  BY <1>1 DEF Followed

\* What another goroutine announces comes before what is settled to come last.
LEMMA ReleasedInsert ==
  ASSUME NEW r \in Rows, NEW q \in Seq(OutMessage), NEW m \in OutMessage,
         NEW x \in OutMessage, NEW i \in Nat, ReleasedAfter(r, Append(q, x), i)
  PROVE  ReleasedAfter(r, Append(Append(q, m), x), i)
<1> DEFINE Q == Append(q, m)
<1>1. PICK j \in DOMAIN Append(q, x) : i < j /\ Append(q, x)[j] = LockReleased(r)
  BY DEF ReleasedAfter
<1>2. Q \in Seq(OutMessage) /\ Len(Q) = Len(q) + 1 /\ Len(q) \in Nat
  BY QueueAppend
<1>3. CASE j \in DOMAIN q
  <2>1. q[j] = LockReleased(r)
    BY <1>1, <1>3, QueueAppend
  <2>2. j \in DOMAIN Q /\ Q[j] = q[j]
    BY <1>3, QueueAppend
  <2>3. j \in DOMAIN Append(Q, x) /\ Append(Q, x)[j] = Q[j]
    BY <1>2, <2>2, QueueAppend
  <2> QED
    BY <1>1, <2>1, <2>2, <2>3 DEF ReleasedAfter
<1>4. CASE j = Len(q) + 1
  <2>1. x = LockReleased(r)
    BY <1>1, <1>4, QueueAppend
  <2>2. Len(Q) + 1 \in DOMAIN Append(Q, x) /\ Append(Q, x)[Len(Q) + 1] = x
    BY <1>2, QueueAppend
  <2>3. i < Len(Q) + 1
    BY <1>1, <1>2, <1>4
  <2> QED
    BY <2>1, <2>2, <2>3 DEF ReleasedAfter
<1> QED
  BY <1>1, <1>3, <1>4, QueueAppend

LEMMA FollowedInsert ==
  ASSUME NEW d \in Tabs, NEW r \in Rows, NEW t, NEW q \in Seq(OutMessage),
         NEW m \in OutMessage, NEW x \in OutMessage, m # LockAcquired(r, d),
         Followed(d, r, t, Append(q, x))
  PROVE  Followed(d, r, t, Append(Append(q, m), x))
<1> DEFINE Q == Append(q, m)
<1>1. /\ Q \in Seq(OutMessage) /\ Len(Q) = Len(q) + 1 /\ Len(q) \in Nat
      /\ Len(Append(q, x)) = Len(q) + 1
  BY QueueAppend
<1>2. ASSUME NEW i \in 0..Len(q), Tied(d, r, t, q, i)
      PROVE  ReleasedAfter(r, Append(Q, x), i)
  <2>1. i \in Nat /\ i \in 0..Len(Append(q, x))
    BY <1>1
  <2>2. Tied(d, r, t, Append(q, x), i)
    BY <1>2, QueueAppend DEF Tied
  <2>3. ReleasedAfter(r, Append(q, x), i)
    BY <2>1, <2>2 DEF Followed
  <2> QED
    BY <2>1, <2>3, ReleasedInsert
<1>3. x # LockAcquired(r, d)
  <2> SUFFICES ASSUME x = LockAcquired(r, d)
               PROVE  FALSE
    OBVIOUS
  <2>1. /\ Len(q) + 1 \in 0..Len(Append(q, x))
        /\ Tied(d, r, t, Append(q, x), Len(q) + 1)
    BY <1>1, QueueAppend DEF Tied
  <2>2. PICK j \in DOMAIN Append(q, x) : Len(q) + 1 < j
    BY <2>1 DEF Followed, ReleasedAfter
  <2> QED
    BY <2>2, QueueAppend
<1>4. ASSUME NEW i \in 0..Len(Append(Q, x)), Tied(d, r, t, Append(Q, x), i)
      PROVE  ReleasedAfter(r, Append(Q, x), i)
  <2>1. i \in 0..Len(Q) /\ Tied(d, r, t, Q, i)
    BY <1>1, <1>3, <1>4, TiedAppend
  <2>2. i \in 0..Len(q) /\ Tied(d, r, t, q, i)
    BY <2>1, TiedAppend
  <2> QED
    BY <1>2, <2>2
<1> QED
  BY <1>4 DEF Followed

\* Without the last message, unless it is the release.
LEMMA FollowedFront ==
  ASSUME NEW d \in Tabs, NEW r \in Rows, NEW t, NEW q \in Seq(OutMessage),
         NEW x \in OutMessage, x # LockReleased(r), Followed(d, r, t, Append(q, x))
  PROVE  Followed(d, r, t, q)
<1>1. ASSUME NEW i \in 0..Len(q), Tied(d, r, t, q, i)
      PROVE  ReleasedAfter(r, q, i)
  <2>1. i \in 0..Len(Append(q, x)) /\ Tied(d, r, t, Append(q, x), i)
    BY <1>1, QueueAppend DEF Tied
  <2>2. PICK j \in DOMAIN Append(q, x) : i < j /\ Append(q, x)[j] = LockReleased(r)
    BY <2>1 DEF Followed, ReleasedAfter
  <2>3. j \in DOMAIN q /\ q[j] = LockReleased(r)
    BY <2>2, QueueAppend
  <2> QED
    BY <2>2, <2>3 DEF ReleasedAfter
<1> QED
  BY <1>1 DEF Followed

\* The tab itself lets go of rows, and takes none.
LEMMA FollowedLess ==
  ASSUME NEW d \in Tabs, NEW r \in Rows, NEW t, NEW u, NEW q \in Seq(OutMessage),
         Followed(d, r, t, q), u.locks = t.locks, u.renewing \subseteq t.renewing
  PROVE  Followed(d, r, u, q)
BY DEF Followed, Tied

LEMMA AskedAppend ==
  ASSUME NEW r \in Rows, NEW s \in Seq(InMessage), NEW m \in InMessage
  PROVE  /\ Asked(r, s) => Asked(r, Append(s, m))
         /\ m = Unlock(r) => Asked(r, Append(s, m)) /\ AskedAfter(r, Append(s, m))
         /\ AskedAfter(r, s) /\ m # Lock(r) => AskedAfter(r, Append(s, m))
<1>1. Asked(r, s) => Asked(r, Append(s, m))
  BY QueueAppend DEF Asked
<1>2. m = Unlock(r) => Asked(r, Append(s, m))
  BY QueueAppend DEF Asked
<1>3. m = Unlock(r) => m # Lock(r)
  BY InMessages
<1>4. ASSUME m # Lock(r), m = Unlock(r) \/ AskedAfter(r, s),
             NEW i \in DOMAIN Append(s, m), Append(s, m)[i] = Lock(r)
      PROVE  \E j \in DOMAIN Append(s, m) : i < j /\ Append(s, m)[j] = Unlock(r)
  <2>1. i \in DOMAIN s /\ s[i] = Lock(r) /\ i \in Nat /\ i < Len(s) + 1
    BY <1>4, QueueAppend
  <2>2. CASE m = Unlock(r)
    BY <2>1, <2>2, QueueAppend
  <2>3. CASE AskedAfter(r, s)
    <3>1. PICK j \in DOMAIN s : i < j /\ s[j] = Unlock(r)
      BY <2>1, <2>3 DEF AskedAfter
    <3> QED
      BY <3>1, QueueAppend
  <2> QED
    BY <1>4, <2>2, <2>3
<1> QED
  BY <1>1, <1>2, <1>3, <1>4 DEF AskedAfter

LEMMA AskedTail ==
  ASSUME NEW r \in Rows, NEW s \in Seq(InMessage), s # <<>>
  PROVE  /\ Asked(r, s) /\ Head(s) # Unlock(r) => Asked(r, Tail(s))
         /\ AskedAfter(r, s) => AskedAfter(r, Tail(s))
         /\ AskedAfter(r, s) /\ Head(s) = Lock(r) => Asked(r, Tail(s))
<1>1. ASSUME Asked(r, s), Head(s) # Unlock(r)
      PROVE  Asked(r, Tail(s))
  <2>1. PICK j \in DOMAIN s : s[j] = Unlock(r)
    BY <1>1 DEF Asked
  <2>2. j - 1 \in DOMAIN Tail(s) /\ Tail(s)[j - 1] = Unlock(r)
    BY <1>1, <2>1, QueueTail
  <2> QED
    BY <2>2 DEF Asked
<1>2. ASSUME AskedAfter(r, s), Head(s) = Lock(r)
      PROVE  Asked(r, Tail(s))
  <2>1. 1 \in DOMAIN s /\ s[1] = Lock(r)
    BY <1>2, QueueTail
  <2>2. PICK j \in DOMAIN s : 1 < j /\ s[j] = Unlock(r)
    BY <1>2, <2>1 DEF AskedAfter
  <2>3. j - 1 \in DOMAIN Tail(s) /\ Tail(s)[j - 1] = Unlock(r)
    BY <2>2, QueueTail
  <2> QED
    BY <2>3 DEF Asked
<1>3. ASSUME AskedAfter(r, s), NEW i \in DOMAIN Tail(s), Tail(s)[i] = Lock(r)
      PROVE  \E j \in DOMAIN Tail(s) : i < j /\ Tail(s)[j] = Unlock(r)
  <2>1. i \in Nat /\ i + 1 \in DOMAIN s /\ s[i + 1] = Lock(r)
    BY <1>3, QueueTail
  <2>2. PICK j \in DOMAIN s : i + 1 < j /\ s[j] = Unlock(r)
    BY <1>3, <2>1 DEF AskedAfter
  <2>3. j - 1 \in DOMAIN Tail(s) /\ Tail(s)[j - 1] = Unlock(r) /\ i < j - 1
    BY <2>1, <2>2, QueueTail
  <2> QED
    BY <2>3
<1> QED
  BY <1>1, <1>2, <1>3 DEF AskedAfter

--------------------------------------------------------------------------------
(* Who holds a row *)

LEMMA LocksHear ==
  ASSUME NEW d \in Tabs, NEW r \in Rows, NEW h, NEW t, NEW s, NEW q \in Seq(OutMessage),
         NEW m \in OutMessage, LocksOf(d, r, h, t, s, q), m # LockAcquired(r, d)
  PROVE  LocksOf(d, r, h, t, s, Append(q, m))
<1>1. Followed(d, r, t, q) => Followed(d, r, t, Append(q, m))
  BY FollowedAppend
<1>2. ReleasedAfter(r, q, 0) => ReleasedAfter(r, Append(q, m), 0)
  BY ReleasedAppend
<1> QED
  BY <1>1, <1>2 DEF LocksOf

LEMMA LocksInsert ==
  ASSUME NEW d \in Tabs, NEW r \in Rows, NEW h, NEW t, NEW s, NEW q \in Seq(OutMessage),
         NEW m \in OutMessage, NEW x \in OutMessage,
         LocksOf(d, r, h, t, s, Append(q, x)), m # LockAcquired(r, d)
  PROVE  LocksOf(d, r, h, t, s, Append(Append(q, m), x))
<1>1. Followed(d, r, t, Append(q, x)) => Followed(d, r, t, Append(Append(q, m), x))
  BY FollowedInsert
<1>2. ReleasedAfter(r, Append(q, x), 0) => ReleasedAfter(r, Append(Append(q, m), x), 0)
  BY ReleasedInsert
<1> QED
  BY <1>1, <1>2 DEF LocksOf

LEMMA LocksOther ==
  ASSUME NEW d, NEW r, NEW h, NEW g, NEW t, NEW s, NEW q,
         LocksOf(d, r, h, t, s, q), h # d
  PROVE  LocksOf(d, r, g, t, s, q)
BY DEF LocksOf

LEMMA LocksServed ==
  ASSUME NEW d \in Tabs, NEW r \in Rows, NEW h, NEW t, NEW s \in Seq(InMessage),
         NEW q \in Seq(OutMessage), LocksOf(d, r, h, t, s, q), s # <<>>,
         Head(s) = Unlock(r) => h # d
  PROVE  LocksOf(d, r, h, t, Tail(s), q)
<1>1. AskedAfter(r, s) => AskedAfter(r, Tail(s))
  BY AskedTail
<1>2. Asked(r, s) => Asked(r, Tail(s)) \/ h # d
  BY AskedTail
<1>3. h # d /\ t.locks[r] = d => ReleasedAfter(r, q, 0)
  <2>1. 0 \in 0..Len(q)
    BY Z3
  <2> QED
    BY <2>1 DEF LocksOf, Followed, Tied
<1> QED
  BY <1>1, <1>2, <1>3 DEF LocksOf

LEMMA LocksGranted ==
  ASSUME NEW d \in Tabs, NEW r \in Rows, NEW h, NEW t, NEW s \in Seq(InMessage),
         NEW q \in Seq(OutMessage), LocksOf(d, r, h, t, s, q), s # <<>>,
         Head(s) = Lock(r)
  PROVE  LocksOf(d, r, d, t, Tail(s), Append(q, LockAcquired(r, d)))
<1>1. LockAcquired(r, d) \in OutMessage
  BY LockMessages
<1>2. Head(s) # Unlock(r)
  BY InMessages
<1>3. /\ AskedAfter(r, s) => AskedAfter(r, Tail(s)) /\ Asked(r, Tail(s))
      /\ Asked(r, s) => Asked(r, Tail(s))
  BY <1>2, AskedTail
<1>4. ReleasedAfter(r, q, 0) => ReleasedAfter(r, Append(q, LockAcquired(r, d)), 0)
  BY <1>1, ReleasedAppend
<1> QED
  BY <1>3, <1>4 DEF LocksOf

LEMMA LocksFreed ==
  ASSUME NEW d \in Tabs, NEW r \in Rows, NEW h, NEW g, NEW t, NEW s \in Seq(InMessage),
         NEW q \in Seq(OutMessage), LocksOf(d, r, h, t, s, q), s # <<>>
  PROVE  LocksOf(d, r, g, t, Tail(s), Append(q, LockReleased(r)))
<1>1. LockReleased(r) \in OutMessage
  BY LockMessages
<1>2. Followed(d, r, t, Append(q, LockReleased(r)))
  BY <1>1, FollowedAppend
<1>3. ReleasedAfter(r, Append(q, LockReleased(r)), 0)
  BY <1>1, ReleasedAppend, QueueAppend
<1>4. AskedAfter(r, s) => AskedAfter(r, Tail(s))
  BY AskedTail
<1> QED
  BY <1>2, <1>3, <1>4 DEF LocksOf

LEMMA LocksReceive ==
  ASSUME NEW d \in Tabs, NEW r \in Rows, NEW h, NEW t, NEW u, NEW s,
         NEW q \in Seq(OutMessage), LocksOf(d, r, h, t, s, q), q # <<>>,
         u.active = t.active,
         u.locks[r] = d \/ r \in u.renewing =>
           \/ Head(q) = LockAcquired(r, d)
           \/ t.locks[r] = d /\ Head(q) # LockReleased(r)
           \/ r \in t.renewing /\ Head(q) # LockReleased(r),
         u.locks[r] = d /\ r \notin u.renewing =>
           t.locks[r] = d /\ r \notin t.renewing /\ Head(q) # LockReleased(r)
  PROVE  LocksOf(d, r, h, u, s, Tail(q))
<1>1. Followed(d, r, t, q) => Followed(d, r, u, Tail(q))
  BY FollowedTail
<1>2. ReleasedAfter(r, q, 0) /\ Head(q) # LockReleased(r) => ReleasedAfter(r, Tail(q), 0)
  BY ReleasedTail
<1> QED
  BY <1>1, <1>2 DEF LocksOf

LEMMA LocksSend ==
  ASSUME NEW d \in Tabs, NEW r \in Rows, NEW h, NEW t, NEW u, NEW s, NEW z,
         NEW q \in Seq(OutMessage), LocksOf(d, r, h, t, s, q),
         u.locks = t.locks, u.renewing \subseteq t.renewing,
         Asked(r, s) => Asked(r, z),
         r \in t.renewing /\ r \notin u.renewing => Asked(r, z),
         \/ r = u.active
         \/ r # t.active /\ (AskedAfter(r, s) => AskedAfter(r, z))
         \/ Asked(r, z) /\ AskedAfter(r, z)
  PROVE  LocksOf(d, r, h, u, z, q)
<1>1. Followed(d, r, t, q) => Followed(d, r, u, q)
  BY FollowedLess
<1> QED
  BY <1>1 DEF LocksOf

--------------------------------------------------------------------------------
(* Versions under way *)

LEMMA PageVersion ==
  ASSUME NEW q \in Seq(OutMessage), NEW i, PageAt(q, i)
  PROVE  q[i].page \in Page /\ q[i].page.version \in Nat /\ i \in Nat /\ i >= 1
<1>1. i \in DOMAIN q /\ q[i] \in OutMessage /\ q[i].type = "page_updated" /\ i \in 1..Len(q)
  BY DEF PageAt
<1>2. q[i].page \in Page
  BY <1>1, OutMessageKinds
<1> QED
  BY <1>1, <1>2 DEF Page

LEMMA PageAppend ==
  ASSUME NEW q \in Seq(OutMessage), NEW m \in OutMessage, NEW i
  PROVE  /\ PageAt(Append(q, m), i) =>
              \/ PageAt(q, i) /\ Append(q, m)[i] = q[i] /\ i <= Len(q)
              \/ i = Len(q) + 1 /\ m.type = "page_updated" /\ Append(q, m)[i] = m
         /\ PageAt(q, i) => PageAt(Append(q, m), i) /\ Append(q, m)[i] = q[i]
BY QueueAppend DEF PageAt

LEMMA PageTail ==
  ASSUME NEW q \in Seq(OutMessage), q # <<>>, NEW i
  PROVE  /\ PageAt(Tail(q), i) =>
              i \in Nat /\ PageAt(q, i + 1) /\ Tail(q)[i] = q[i + 1]
         /\ PageAt(q, i) =>
              \/ i = 1 /\ Head(q).type = "page_updated" /\ q[i] = Head(q)
              \/ i - 1 \in Nat /\ PageAt(Tail(q), i - 1) /\ Tail(q)[i - 1] = q[i]
         /\ Head(q).type = "page_updated" => PageAt(q, 1) /\ q[1] = Head(q)
BY QueueTail DEF PageAt

\* A tab takes the next message: u has the version it knows then.
NextVersion(t, u, m) ==
  u.page.version =
    IF m.type = "page_updated" THEN m.page.version ELSE t.page.version

LEMMA OrderedHear ==
  ASSUME NEW v \in Nat, NEW w \in Nat, v <= w, NEW t, t.page.version \in Nat,
         NEW q \in Seq(OutMessage), NEW m \in OutMessage, Ordered(v, t, q),
         IF m.type = "page_updated" THEN m.page.version = w ELSE v = w
  PROVE  Ordered(w, t, Append(q, m))
<1> DEFINE Q == Append(q, m)
<1>1. ASSUME NEW i \in DOMAIN Q, PageAt(Q, i)
      PROVE  /\ t.page.version <= Q[i].page.version
             /\ Q[i].page.version <= w
             /\ \A j \in DOMAIN Q :
                  PageAt(Q, j) /\ i < j => Q[i].page.version <= Q[j].page.version
  <2>1. CASE PageAt(q, i) /\ Q[i] = q[i]
    <3>1. /\ i \in DOMAIN q /\ q[i].page.version \in Nat
          /\ t.page.version <= q[i].page.version /\ q[i].page.version <= v
          /\ \A j \in DOMAIN q :
               PageAt(q, j) /\ i < j => q[i].page.version <= q[j].page.version
      BY <2>1, PageVersion DEF Ordered, PageAt
    <3>2. ASSUME NEW j \in DOMAIN Q, PageAt(Q, j), i < j
          PROVE  Q[i].page.version <= Q[j].page.version
      <4>1. \/ PageAt(q, j) /\ Q[j] = q[j]
            \/ m.type = "page_updated" /\ Q[j] = m
        BY <3>2, PageAppend
      <4> QED
        BY <2>1, <3>1, <3>2, <4>1 DEF PageAt
    <3> QED
      BY <2>1, <3>1, <3>2
  <2>2. CASE i = Len(q) + 1 /\ m.type = "page_updated" /\ Q[i] = m
    <3>1. \A j \in DOMAIN Q : ~(i < j)
      BY <2>2, QueueAppend
    <3> QED
      BY <2>2, <3>1 DEF Ordered
  <2> QED
    BY <1>1, <2>1, <2>2, PageAppend
<1>2. t.page.version = w \/ \E i \in DOMAIN Q : PageAt(Q, i) /\ Q[i].page.version = w
  <2>1. CASE m.type = "page_updated"
    <3>1. Len(q) + 1 \in DOMAIN Q /\ Q[Len(q) + 1] = m
      BY QueueAppend
    <3> QED
      BY <2>1, <3>1 DEF PageAt
  <2>2. CASE m.type # "page_updated"
    <3>1. CASE t.page.version = v
      BY <2>2, <3>1
    <3>2. CASE \E i \in DOMAIN q : PageAt(q, i) /\ q[i].page.version = v
      <4>1. PICK i \in DOMAIN q : PageAt(q, i) /\ q[i].page.version = v
        BY <3>2
      <4>2. PageAt(Q, i) /\ Q[i] = q[i]
        BY <4>1, PageAppend
      <4> QED
        BY <2>2, <4>1, <4>2 DEF PageAt
    <3> QED
      BY <3>1, <3>2 DEF Ordered
  <2> QED
    BY <2>1, <2>2
<1>3. t.page.version <= w
  BY DEF Ordered
<1> QED
  BY <1>1, <1>2, <1>3 DEF Ordered

LEMMA OrderedTail ==
  ASSUME NEW v \in Nat, NEW t, t.page.version \in Nat, NEW u, NEW q \in Seq(OutMessage),
         q # <<>>, Ordered(v, t, q), NextVersion(t, u, Head(q))
  PROVE  Ordered(v, u, Tail(q)) /\ t.page.version <= u.page.version
<1> DEFINE Q == Tail(q)
<1>1. /\ u.page.version \in Nat /\ u.page.version <= v
      /\ t.page.version <= u.page.version
      /\ \A i : PageAt(q, i) => u.page.version <= q[i].page.version
  <2>1. CASE Head(q).type = "page_updated"
    <3>1. PageAt(q, 1) /\ q[1] = Head(q) /\ 1 \in DOMAIN q /\ u.page.version = q[1].page.version
      BY <2>1, PageTail DEF NextVersion, PageAt
    <3>2. \A i : PageAt(q, i) => i \in Nat /\ i >= 1 /\ i \in DOMAIN q /\ q[i].page.version \in Nat
      BY PageVersion DEF PageAt
    <3>3. \A i : PageAt(q, i) => q[1].page.version <= q[i].page.version
      BY <3>1, <3>2 DEF Ordered
    <3> QED
      BY <3>1, <3>2, <3>3 DEF Ordered
  <2>2. CASE Head(q).type # "page_updated"
    BY <2>2 DEF NextVersion, Ordered, PageAt
  <2> QED
    BY <2>1, <2>2
<1>2. ASSUME NEW i \in DOMAIN Q, PageAt(Q, i)
      PROVE  /\ u.page.version <= Q[i].page.version
             /\ Q[i].page.version <= v
             /\ \A j \in DOMAIN Q :
                  PageAt(Q, j) /\ i < j => Q[i].page.version <= Q[j].page.version
  <2>1. i \in Nat /\ PageAt(q, i + 1) /\ Q[i] = q[i + 1] /\ i + 1 \in DOMAIN q
    BY <1>2, PageTail DEF PageAt
  <2>2. ASSUME NEW j \in DOMAIN Q, PageAt(Q, j), i < j
        PROVE  Q[i].page.version <= Q[j].page.version
    <3>1. j \in Nat /\ PageAt(q, j + 1) /\ Q[j] = q[j + 1] /\ j + 1 \in DOMAIN q
      BY <2>2, PageTail DEF PageAt
    <3> QED
      BY <2>1, <2>2, <3>1 DEF Ordered
  <2> QED
    BY <1>1, <2>1, <2>2 DEF Ordered
<1>3. u.page.version = v \/ \E i \in DOMAIN Q : PageAt(Q, i) /\ Q[i].page.version = v
  <2>1. CASE t.page.version = v
    BY <1>1, <2>1
  <2>2. CASE \E i \in DOMAIN q : PageAt(q, i) /\ q[i].page.version = v
    <3>1. PICK i \in DOMAIN q : PageAt(q, i) /\ q[i].page.version = v
      BY <2>2
    <3> QED
      BY <3>1, PageTail DEF NextVersion, PageAt
  <2> QED
    BY <2>1, <2>2 DEF Ordered
<1> QED
  BY <1>1, <1>2, <1>3 DEF Ordered

LEMMA OrderedSame ==
  ASSUME NEW v, NEW t, NEW u, NEW q, Ordered(v, t, q), u.page.version = t.page.version
  PROVE  Ordered(v, u, q)
BY DEF Ordered

--------------------------------------------------------------------------------
(* What a tab knows of the edits stored by others *)

LEMMA KnowsAppend ==
  ASSUME NEW n \in Nat, NEW r \in Rows, NEW t, NEW q \in Seq(OutMessage),
         NEW m \in OutMessage, NEW i \in Nat
  PROVE  /\ Knows(n, t, q, i) => Knows(n, t, Append(q, m), i)
         /\ ReleasedBefore(n, r, t, q, i) => ReleasedBefore(n, r, t, Append(q, m), i)
<1> DEFINE Q == Append(q, m)
<1>1. ASSUME Knows(n, t, q, i)
      PROVE  Knows(n, t, Q, i)
  <2>1. CASE t.page.version >= n
    BY <2>1 DEF Knows
  <2>2. CASE ~(t.page.version >= n)
    <3>1. PICK j \in DOMAIN q : j < i /\ PageAt(q, j) /\ q[j].page.version >= n
      BY <1>1, <2>2 DEF Knows
    <3>2. PageAt(Q, j) /\ Q[j] = q[j] /\ j \in DOMAIN Q
      BY <3>1, PageAppend DEF PageAt
    <3> QED
      BY <3>1, <3>2 DEF Knows
  <2> QED
    BY <2>1, <2>2
<1>2. ASSUME ReleasedBefore(n, r, t, q, i)
      PROVE  ReleasedBefore(n, r, t, Q, i)
  <2>1. PICK j \in DOMAIN q :
          /\ i < j /\ q[j] = LockReleased(r)
          /\ \A k \in 1..j : PageAt(q, k) => q[k].page.version < n
    BY <1>2 DEF ReleasedBefore
  <2>2. j \in DOMAIN Q /\ Q[j] = q[j] /\ j \in Nat /\ j <= Len(q)
    BY QueueAppend
  <2>3. ASSUME NEW k \in 1..j, PageAt(Q, k)
        PROVE  Q[k].page.version < n
    <3>1. PageAt(q, k) /\ Q[k] = q[k]
      BY <2>2, <2>3, PageAppend, QueueAppend
    <3> QED
      BY <2>1, <3>1
  <2> QED
    BY <1>2, <2>1, <2>2, <2>3 DEF ReleasedBefore
<1> QED
  BY <1>1, <1>2

\* Version v has been sent, and all up to it.
LEMMA KnowsAll ==
  ASSUME NEW n \in Nat, NEW v \in Nat, n <= v, NEW t, NEW q \in Seq(OutMessage),
         Ordered(v, t, q)
  PROVE  Knows(n, t, q, Len(q) + 1)
<1>1. CASE t.page.version = v
  BY <1>1 DEF Knows
<1>2. CASE \E j \in DOMAIN q : PageAt(q, j) /\ q[j].page.version = v
  <2>1. PICK j \in DOMAIN q : PageAt(q, j) /\ q[j].page.version = v
    BY <1>2
  <2>2. j < Len(q) + 1
    BY QueueAppend
  <2> QED
    BY <2>1, <2>2 DEF Knows
<1> QED
  BY <1>1, <1>2 DEF Ordered

LEMMA KnowsLater ==
  ASSUME NEW n \in Nat, NEW t, NEW q \in Seq(OutMessage), NEW m \in OutMessage,
         Knows(n, t, q, Len(q) + 1)
  PROVE  Knows(n, t, Append(q, m), Len(Append(q, m)) + 1)
<1> DEFINE Q == Append(q, m)
<1>1. CASE t.page.version >= n
  BY <1>1 DEF Knows
<1>2. CASE ~(t.page.version >= n)
  <2>1. PICK j \in DOMAIN q : PageAt(q, j) /\ q[j].page.version >= n
    BY <1>2 DEF Knows
  <2>2. /\ j \in DOMAIN Q /\ PageAt(Q, j) /\ Q[j] = q[j]
        /\ j < Len(Q) + 1
    BY <2>1, PageAppend, QueueAppend DEF PageAt
  <2> QED
    BY <2>1, <2>2 DEF Knows
<1> QED
  BY <1>1, <1>2

\* What the tab knew at a place it knows one place nearer.
LEMMA KnowsTail ==
  ASSUME NEW n \in Nat, NEW t, NEW u, NEW v \in Nat, NEW q \in Seq(OutMessage),
         q # <<>>, Ordered(v, t, q), t.page.version \in Nat,
         NextVersion(t, u, Head(q)), NEW i \in Nat, NEW x \in Nat,
         x = i + 1 \/ (x = 0 /\ i = 0), Knows(n, t, q, x)
  PROVE  Knows(n, u, Tail(q), i)
<1> DEFINE Q == Tail(q)
<1>1. t.page.version <= u.page.version /\ u.page.version \in Nat
  <2>1. Head(q).type = "page_updated" =>
          q[1] = Head(q) /\ q[1].page.version \in Nat
    BY PageTail, PageVersion
  <2> QED
    BY <2>1, OrderedTail DEF NextVersion
<1>2. CASE t.page.version >= n
  BY <1>1, <1>2 DEF Knows
<1>3. CASE ~(t.page.version >= n)
  <2>1. PICK j \in DOMAIN q : j < x /\ PageAt(q, j) /\ q[j].page.version >= n
    BY <1>3 DEF Knows
  <2>2. CASE j = 1
    <3>1. Head(q) = q[1]
      BY QueueTail
    <3> QED
      BY <2>1, <2>2, <3>1 DEF Knows, NextVersion, PageAt
  <2>3. CASE j # 1
    <3>1. /\ j - 1 \in DOMAIN Q /\ PageAt(Q, j - 1) /\ Q[j - 1] = q[j]
          /\ j - 1 < i
      BY <2>1, <2>3, PageTail, QueueTail DEF PageAt
    <3> QED
      BY <2>1, <3>1 DEF Knows
  <2> QED
    BY <2>2, <2>3
<1> QED
  BY <1>2, <1>3

LEMMA NewsHear ==
  ASSUME NEW d \in Tabs, NEW r \in Rows, NEW n \in Nat, NEW k, NEW t,
         NEW q \in Seq(OutMessage), NEW m \in OutMessage, NewsOf(d, r, n, k, t, q),
         m.type = "page_updated" => Covers(n, r, k, m.page),
         m = LockAcquired(r, d) => Knows(n, t, q, Len(q) + 1)
  PROVE  NewsOf(d, r, n, k, t, Append(q, m))
<1> DEFINE Q == Append(q, m)
<1>1. ASSUME NEW i \in DOMAIN Q, PageAt(Q, i)
      PROVE  Covers(n, r, k, Q[i].page)
  <2>1. CASE PageAt(q, i) /\ Q[i] = q[i]
    BY <2>1 DEF NewsOf, PageAt
  <2>2. CASE m.type = "page_updated" /\ Q[i] = m
    BY <2>2
  <2> QED
    BY <1>1, <2>1, <2>2, PageAppend
<1>2. ASSUME NEW i \in 0..Len(Q), Tied(d, r, t, Q, i)
      PROVE  Knows(n, t, Q, i) \/ ReleasedBefore(n, r, t, Q, i)
  <2>1. CASE i \in 0..Len(q) /\ Tied(d, r, t, q, i)
    <3>1. i \in Nat /\ (Knows(n, t, q, i) \/ ReleasedBefore(n, r, t, q, i))
      BY <2>1 DEF NewsOf
    <3> QED
      BY <3>1, KnowsAppend
  <2>2. CASE i = Len(q) + 1 /\ m = LockAcquired(r, d)
    <3>1. Knows(n, t, q, i) /\ i \in Nat
      BY <2>2, QueueAppend
    <3> QED
      BY <3>1, KnowsAppend
  <2> QED
    BY <1>2, <2>1, <2>2, TiedAppend
<1> QED
  BY <1>1, <1>2 DEF NewsOf

\* Another holder of r stores version n: whatever ties d to r is over by then.
LEMMA NewsStored ==
  ASSUME NEW d \in Tabs, NEW r \in Rows, NEW n \in Nat, NEW k, NEW t,
         NEW q \in Seq(OutMessage), Followed(d, r, t, q),
         t.page.version \in Nat, t.page.version < n,
         \A i \in DOMAIN q : PageAt(q, i) => q[i].page.version < n
  PROVE  NewsOf(d, r, n, k, t, q)
<1>1. Covers(n, r, k, t.page)
  BY DEF Covers
<1>2. ASSUME NEW i \in DOMAIN q, PageAt(q, i)
      PROVE  Covers(n, r, k, q[i].page)
  <2>1. q[i].page.version < n /\ q[i].page.version \in Nat
    BY <1>2, PageVersion DEF PageAt
  <2> QED
    BY <2>1 DEF Covers
<1>3. ASSUME NEW i \in 0..Len(q), Tied(d, r, t, q, i)
      PROVE  ReleasedBefore(n, r, t, q, i)
  <2>1. PICK j \in DOMAIN q : i < j /\ q[j] = LockReleased(r)
    BY <1>3 DEF Followed, ReleasedAfter
  <2>2. \A x \in 1..j : PageAt(q, x) => q[x].page.version < n
    BY DEF PageAt
  <2> QED
    BY <2>1, <2>2 DEF ReleasedBefore
<1> QED
  BY <1>1, <1>2, <1>3 DEF NewsOf

LEMMA NewsFewer ==
  ASSUME NEW d, NEW r, NEW n, NEW k, NEW l, NEW t, NEW q,
         NewsOf(d, r, n, k, t, q), l \subseteq k
  PROVE  NewsOf(d, r, n, l, t, q)
BY DEF NewsOf, Covers

LEMMA NewsSame ==
  ASSUME NEW d, NEW r, NEW n, NEW k, NEW t, NEW u, NEW q, NewsOf(d, r, n, k, t, q),
         u.page.version = t.page.version, t.page.text[r] \subseteq u.page.text[r],
         u.locks = t.locks, u.renewing \subseteq t.renewing
  PROVE  NewsOf(d, r, n, k, u, q)
<1>1. Covers(n, r, k, u.page)
  BY DEF NewsOf, Covers
<1>2. \A i : Tied(d, r, u, q, i) => Tied(d, r, t, q, i)
  BY DEF Tied
<1>3. \A i : /\ Knows(n, t, q, i) => Knows(n, u, q, i)
             /\ ReleasedBefore(n, r, t, q, i) => ReleasedBefore(n, r, u, q, i)
  BY DEF Knows, ReleasedBefore
<1> QED
  BY <1>1, <1>2, <1>3 DEF NewsOf

\* d takes the next message, and with a page the text of every row that it does
\* not show as its own.
LEMMA NewsReceive ==
  ASSUME NEW d \in Tabs, NEW r \in Rows, NEW n \in Nat, NEW k, NEW t, NEW u,
         NEW v \in Nat, NEW q \in Seq(OutMessage), q # <<>>,
         NewsOf(d, r, n, k, t, q), Ordered(v, t, q), t.page.version \in Nat,
         NextVersion(t, u, Head(q)),
         u.locks[r] = d \/ r \in u.renewing =>
           \/ Head(q) = LockAcquired(r, d)
           \/ t.locks[r] = d /\ Head(q) # LockReleased(r)
           \/ r \in t.renewing /\ Head(q) # LockReleased(r),
         IF Head(q).type = "page_updated"
           THEN \/ u.page.text[r] = Head(q).page.text[r]
                \/ u.page.text[r] = t.page.text[r] /\ t.locks[r] = d
           ELSE u.page.text[r] = t.page.text[r]
  PROVE  NewsOf(d, r, n, k, u, Tail(q))
<1> DEFINE Q == Tail(q)
<1>1. /\ t.page.version <= u.page.version /\ u.page.version \in Nat
      /\ Head(q).type = "page_updated" =>
           /\ 1 \in DOMAIN q /\ PageAt(q, 1) /\ q[1] = Head(q)
           /\ u.page.version = q[1].page.version
           /\ Covers(n, r, k, Head(q).page)
  <2>1. Head(q).type = "page_updated" =>
          /\ 1 \in DOMAIN q /\ PageAt(q, 1) /\ q[1] = Head(q)
          /\ u.page.version = q[1].page.version /\ q[1].page.version \in Nat
          /\ Covers(n, r, k, Head(q).page)
    BY PageTail, PageVersion DEF NextVersion, PageAt, NewsOf
  <2>2. t.page.version <= u.page.version
    BY OrderedTail
  <2> QED
    BY <2>1, <2>2 DEF NextVersion
\* Once d shows r as its own, the next page is later than n only if it has n.
<1>2. t.locks[r] = d /\ Head(q).type = "page_updated" /\ u.page.version >= n
        => t.page.version >= n
  <2> SUFFICES ASSUME t.locks[r] = d, Head(q).type = "page_updated",
                      u.page.version >= n
               PROVE  t.page.version >= n
    OBVIOUS
  <2>1. 0 \in 0..Len(q) /\ Tied(d, r, t, q, 0)
    BY QueueTail DEF Tied
  <2>2. ~ReleasedBefore(n, r, t, q, 0)
    <3> SUFFICES ASSUME ReleasedBefore(n, r, t, q, 0)
                 PROVE  FALSE
      OBVIOUS
    <3>1. PICK j \in DOMAIN q :
            0 < j /\ \A x \in 1..j : PageAt(q, x) => q[x].page.version < n
      BY DEF ReleasedBefore
    <3>2. 1 \in 1..j
      BY <3>1, QueueTail
    <3> QED
      BY <1>1, <3>1, <3>2
  <2>3. Knows(n, t, q, 0)
    BY <2>1, <2>2 DEF NewsOf
  <2>4. \A j \in DOMAIN q : ~(j < 0)
    BY QueueTail
  <2> QED
    BY <2>3, <2>4 DEF Knows
<1>3. Covers(n, r, k, u.page)
  <2> SUFFICES ASSUME u.page.version >= n
               PROVE  k \subseteq u.page.text[r]
    BY DEF Covers
  <2>1. t.page.version >= n => k \subseteq t.page.text[r]
    BY DEF NewsOf, Covers
  <2>2. CASE Head(q).type = "page_updated"
    <3>1. k \subseteq Head(q).page.text[r]
      BY <1>1, <2>2 DEF Covers
    <3> QED
      BY <1>2, <2>1, <2>2, <3>1
  <2>3. CASE Head(q).type # "page_updated"
    BY <2>1, <2>3 DEF NextVersion
  <2> QED
    BY <2>2, <2>3
<1>4. ASSUME NEW i \in DOMAIN Q, PageAt(Q, i)
      PROVE  Covers(n, r, k, Q[i].page)
  <2>1. PageAt(q, i + 1) /\ Q[i] = q[i + 1] /\ i + 1 \in DOMAIN q
    BY <1>4, PageTail DEF PageAt
  <2> QED
    BY <2>1 DEF NewsOf
\* What the tab knew, or missed, at a place it knows or misses one place nearer.
<1>5. ASSUME NEW i \in Nat, NEW x \in Nat, x = i + 1 \/ (x = 0 /\ i = 0),
             Knows(n, t, q, x)
      PROVE  Knows(n, u, Q, i)
  BY <1>5, KnowsTail
<1>6. ASSUME NEW i \in Nat, NEW x \in Nat,
             x = i + 1 \/ (x = 0 /\ i = 0 /\ Head(q) # LockReleased(r)),
             ReleasedBefore(n, r, t, q, x)
      PROVE  ReleasedBefore(n, r, u, Q, i)
  <2>1. PICK j \in DOMAIN q :
          /\ x < j /\ q[j] = LockReleased(r)
          /\ \A y \in 1..j : PageAt(q, y) => q[y].page.version < n
    BY <1>6 DEF ReleasedBefore
  <2>2. j - 1 \in DOMAIN Q /\ Q[j - 1] = LockReleased(r) /\ i < j - 1
        /\ 1 \in 1..j /\ j \in Nat
    BY <1>6, <2>1, QueueTail
  <2>3. u.page.version < n
    <3>1. CASE Head(q).type = "page_updated"
      BY <1>1, <2>1, <2>2, <3>1
    <3>2. CASE Head(q).type # "page_updated"
      BY <1>6, <3>2 DEF NextVersion, ReleasedBefore
    <3> QED
      BY <3>1, <3>2
  <2>4. ASSUME NEW y \in 1..(j - 1), PageAt(Q, y)
        PROVE  Q[y].page.version < n
    <3>1. PageAt(q, y + 1) /\ Q[y] = q[y + 1]
      BY <2>4, PageTail
    <3>2. y + 1 \in 1..j
      BY <2>2, <2>4
    <3> QED
      BY <2>1, <3>1, <3>2
  <2> QED
    BY <2>2, <2>3, <2>4 DEF ReleasedBefore
<1>7. ASSUME NEW i \in 0..Len(Q), Tied(d, r, u, Q, i)
      PROVE  Knows(n, u, Q, i) \/ ReleasedBefore(n, r, u, Q, i)
  <2>1. i \in Nat
    BY QueueTail
  <2>2. \/ i + 1 \in 0..Len(q) /\ Tied(d, r, t, q, i + 1)
        \/ i = 0 /\ Tied(d, r, t, q, 0) /\ Head(q) # LockReleased(r)
    BY <1>7, TiedTail
  <2>3. CASE i + 1 \in 0..Len(q) /\ Tied(d, r, t, q, i + 1)
    <3>1. PICK x \in 0..Len(q) : x = i + 1 /\ x \in Nat /\ Tied(d, r, t, q, x)
      BY <2>1, <2>3
    <3>2. Knows(n, t, q, x) \/ ReleasedBefore(n, r, t, q, x)
      BY <3>1 DEF NewsOf
    <3>3. CASE Knows(n, t, q, x)
      BY <1>5, <2>1, <3>1, <3>3
    <3>4. CASE ReleasedBefore(n, r, t, q, x)
      BY <1>6, <2>1, <3>1, <3>4
    <3> QED
      BY <3>2, <3>3, <3>4
  <2>4. CASE i = 0 /\ Tied(d, r, t, q, 0) /\ Head(q) # LockReleased(r)
    <3>1. 0 \in 0..Len(q)
      BY QueueTail
    <3>2. Knows(n, t, q, 0) \/ ReleasedBefore(n, r, t, q, 0)
      BY <2>4, <3>1 DEF NewsOf
    <3> QED
      BY <1>5, <1>6, <2>4, <3>2
  <2> QED
    BY <2>2, <2>3, <2>4
<1> QED
  BY <1>3, <1>4, <1>7 DEF NewsOf


--------------------------------------------------------------------------------
(* Types and steps *)

LEMMA TypeFacts ==
  ASSUME EditorTypeOK
  PROVE  /\ holder \in [Rows -> Holder]
         /\ page \in Page
         /\ inbound \in [Tabs -> Seq(InMessage)]
         /\ cast \in [Tabs -> Outgoing \union {NoMsg}]
         /\ outbound \in [Tabs -> Seq(OutMessage)]
         /\ tab \in [Tabs -> Tab]
         /\ \A d \in Tabs : tab[d] \in Tab /\ tab[d].timed \subseteq tab[d].page.rows
         /\ \A d \in Tabs : inbound[d] \in Seq(InMessage) /\ outbound[d] \in Seq(OutMessage)
         /\ edits \in 0..MaxEdits
         /\ kept \in [Tabs -> Texts] /\ orderly \in BOOLEAN
BY DEF EditorTypeOK

LEMMA PageFacts ==
  ASSUME NEW p \in Page
  PROVE  /\ p.version \in Nat \ {0} /\ p.rows \in {FirstPage, Rows} /\ p.rows \subseteq Rows
         /\ p.text \in Texts
         /\ \A r \in Rows : p.text[r] \in SUBSET (1..MaxEdits)
         /\ \A x \in Texts : [p EXCEPT !.text = x] \in Page
         /\ [p EXCEPT !.rows = Rows] \in Page
         /\ [p EXCEPT !.version = @ + 1] \in Page
BY DEF Page, Texts

LEMMA TabFacts ==
  ASSUME NEW t \in Tab
  PROVE  /\ t.open \in BOOLEAN /\ t.page \in Page /\ t.locks \in [Rows -> Holder]
         /\ t.active \in Rows \union {NoRow} /\ t.renewing \in SUBSET Rows
         /\ t.timed \in SUBSET Rows /\ t.timer \in BOOLEAN
         /\ t.page.version \in Nat /\ t.page.rows \subseteq Rows
<1>1. /\ t.open \in BOOLEAN /\ t.page \in Page /\ t.locks \in [Rows -> Holder]
      /\ t.active \in Rows \union {NoRow} /\ t.renewing \in SUBSET Rows
      /\ t.timed \in SUBSET Rows /\ t.timer \in BOOLEAN
  BY DEF Tab
<1> QED
  BY <1>1, PageFacts

LEMMA TabUpdate ==
  ASSUME EditorTypeOK, NEW d \in Tabs, NEW u \in Tab, u.timed \subseteq u.page.rows,
         tab' = [tab EXCEPT ![d] = u]
  PROVE  /\ tab' \in [Tabs -> Tab]
         /\ \A e \in Tabs : tab'[e].timed \subseteq tab'[e].page.rows
         /\ tab'[d] = u /\ \A e \in Tabs \ {d} : tab'[e] = tab[e]
BY DEF EditorTypeOK

LEMMA TakeFacts ==
  ASSUME EditorTypeOK, NEW c \in Tabs, NEW type, Take(c, type)
  PROVE  /\ cast[c] = NoMsg
         /\ inbound[c] \in Seq(InMessage) /\ inbound[c] # <<>>
         /\ Head(inbound[c]) \in InMessage /\ Head(inbound[c]).type = type
         /\ inbound' \in [Tabs -> Seq(InMessage)]
         /\ inbound'[c] = Tail(inbound[c])
         /\ \A d \in Tabs \ {c} : inbound'[d] = inbound[d]
<1>1. /\ inbound \in [Tabs -> Seq(InMessage)] /\ inbound[c] \in Seq(InMessage)
      /\ inbound[c] # <<>> /\ Head(inbound[c]).type = type /\ cast[c] = NoMsg
      /\ inbound' = [inbound EXCEPT ![c] = Tail(inbound[c])]
  BY TypeFacts DEF Take
<1>2. Head(inbound[c]) \in InMessage /\ Tail(inbound[c]) \in Seq(InMessage)
  BY <1>1, QueueTail
<1> QED
  BY <1>1, <1>2

LEMMA AnnounceFacts ==
  ASSUME EditorTypeOK, NEW c \in Tabs, NEW m \in Outgoing \union {NoMsg},
         Announce(c, m)
  PROVE  /\ cast' \in [Tabs -> Outgoing \union {NoMsg}] /\ cast'[c] = m
         /\ \A d \in Tabs \ {c} : cast'[d] = cast[d]
BY TypeFacts DEF Announce

LEMMA WaitingFacts ==
  ASSUME EditorTypeOK, NEW d \in Tabs
  PROVE  /\ Waiting(d) \in Seq(OutMessage)
         /\ cast[d] = NoMsg => Waiting(d) = outbound[d]
         /\ cast[d] # NoMsg =>
              /\ cast[d] \in Outgoing /\ Sent(cast[d]) \in OutMessage
              /\ Waiting(d) = Append(outbound[d], Sent(cast[d]))
<1>1. outbound[d] \in Seq(OutMessage) /\ cast[d] \in Outgoing \union {NoMsg}
  BY TypeFacts
<1> QED
  BY <1>1, SentFacts, QueueAppend DEF Waiting

LEMMA BroadcastFacts ==
  ASSUME EditorTypeOK, NEW c \in Tabs, Broadcast(c)
  PROVE  /\ cast[c] # NoMsg /\ cast[c] \in Outgoing /\ Sent(cast[c]) \in OutMessage
         /\ cast' \in [Tabs -> Outgoing \union {NoMsg}] /\ cast'[c] = NoMsg
         /\ \A d \in Tabs \ {c} : cast'[d] = cast[d]
         /\ outbound' \in [Tabs -> Seq(OutMessage)]
         /\ \A d \in Tabs :
              IF tab[d].open /\ (d = c \/ cast[c].type # "answer")
              THEN outbound'[d] = Append(outbound[d], Sent(cast[c]))
              ELSE outbound'[d] = outbound[d]
<1>1. cast[c] # NoMsg /\ cast[c] \in Outgoing
  BY TypeFacts DEF Broadcast
<1>2. Sent(cast[c]) \in OutMessage
  BY <1>1, SentFacts
<1>3. \A d \in Tabs : /\ outbound[d] \in Seq(OutMessage)
                     /\ Append(outbound[d], Sent(cast[c])) \in Seq(OutMessage)
  BY <1>2, TypeFacts, QueueAppend
<1>4. outbound' = [d \in Tabs |->
        IF tab[d].open /\ (d = c \/ cast[c].type # "answer")
        THEN Append(outbound[d], Sent(cast[c])) ELSE outbound[d]]
  BY DEF Broadcast
<1>5. outbound' \in [Tabs -> Seq(OutMessage)]
  BY <1>3, <1>4
<1>6. Announce(c, NoMsg)
  BY DEF Broadcast
<1> QED
  BY <1>1, <1>2, <1>4, <1>5, <1>6, AnnounceFacts

LEMMA RenderedFacts ==
  ASSUME NEW d \in Tabs, NEW t \in Tab
  PROVE  /\ Rendered(d, t) \in Tab
         /\ Rendered(d, t).timed \subseteq Rendered(d, t).page.rows
         /\ Rendered(d, t).open = t.open /\ Rendered(d, t).page = t.page
         /\ Rendered(d, t).locks = t.locks /\ Rendered(d, t).active = t.active
         /\ Rendered(d, t).renewing = t.renewing
<1> DEFINE own == IsOwnedByMe(d, t)
           new == own \ IsOwnedByMe(d, tab[d])
           x == (t.timed \intersect own) \union new
<1>1. own \subseteq t.page.rows /\ t.page.rows \subseteq Rows
  BY TabFacts DEF IsOwnedByMe
<1>2. x \subseteq t.page.rows /\ x \in SUBSET Rows
  BY <1>1
<1>3. Rendered(d, t) = [t EXCEPT !.timed = x]
  BY DEF Rendered
<1> HIDE DEF x
<1> QED
  BY <1>2, <1>3 DEF Tab

\* Tab t of d becomes u when it reads m.
Reads(d, t, u, m) ==
  /\ u.open = t.open /\ u.active = t.active
  /\ NextVersion(t, u, m)
  /\ m.type = "page_updated" => u.locks = t.locks /\ u.renewing = t.renewing
  /\ \A r \in Rows :
       /\ u.locks[r] = d \/ r \in u.renewing =>
            \/ m = LockAcquired(r, d)
            \/ t.locks[r] = d /\ m # LockReleased(r)
            \/ r \in t.renewing /\ m # LockReleased(r)
       /\ u.locks[r] = d /\ r \notin u.renewing =>
            t.locks[r] = d /\ r \notin t.renewing /\ m # LockReleased(r)
       /\ IF m.type = "page_updated"
            THEN \/ u.page.text[r] = m.page.text[r]
                 \/ u.page.text[r] = t.page.text[r] /\ t.locks[r] = d
            ELSE u.page.text[r] = t.page.text[r]

LEMMA ReadsAcquired ==
  ASSUME EditorTypeOK, NEW d \in Tabs, NEW m \in OutMessage, m.type = "lock_acquired",
         OnLockAcquired(d, m)
  PROVE  \E u \in Tab : /\ u.timed \subseteq u.page.rows
                        /\ tab' = [tab EXCEPT ![d] = u]
                        /\ Reads(d, tab[d], u, m)
<1> DEFINE w == [tab[d] EXCEPT
                   !.locks[m.row] = m.user,
                   !.renewing = IF m.user = d THEN @ \union {m.row} ELSE @]
<1>1. m.row \in Rows /\ m.user \in Tabs /\ m = LockAcquired(m.row, m.user)
  BY OutMessageKinds
<1>2. tab[d] \in Tab
  BY TypeFacts
<1>3. /\ w \in Tab
      /\ w.open = tab[d].open /\ w.active = tab[d].active /\ w.page = tab[d].page
      /\ w.locks = [tab[d].locks EXCEPT ![m.row] = m.user]
      /\ w.renewing = IF m.user = d THEN tab[d].renewing \union {m.row}
                      ELSE tab[d].renewing
  BY <1>1, <1>2 DEF Tab, Holder
<1> HIDE DEF w
<1>4. tab' = [tab EXCEPT ![d] = Rendered(d, w)]
  BY DEF OnLockAcquired, Show, w
<1>5. \A r \in Rows : m # LockReleased(r)
  BY <1>1, LockMessages
<1>6. tab[d].locks \in [Rows -> Holder]
  BY <1>2, TabFacts
<1>7. ASSUME NEW u \in Tab, u.open = w.open, u.active = w.active, u.page = w.page,
             u.locks = w.locks, u.renewing = w.renewing
      PROVE  Reads(d, tab[d], u, m)
  <2>1. NextVersion(tab[d], u, m)
    BY <1>3, <1>7 DEF NextVersion
  <2>2. ASSUME NEW r \in Rows, r = m.row
        PROVE  /\ u.locks[r] = m.user
               /\ m.user = d => r \in u.renewing /\ m = LockAcquired(r, d)
               /\ m.user # d => (r \in u.renewing <=> r \in tab[d].renewing)
    BY <1>1, <1>3, <1>6, <1>7, <2>2
  <2>3. ASSUME NEW r \in Rows, r # m.row
        PROVE  /\ u.locks[r] = tab[d].locks[r]
               /\ r \in u.renewing <=> r \in tab[d].renewing
    BY <1>1, <1>3, <1>6, <1>7, <2>3
  <2>4. ASSUME NEW r \in Rows
        PROVE  u.page.text[r] = tab[d].page.text[r]
    BY <1>3, <1>7
  <2> QED
    BY <1>3, <1>5, <1>7, <2>1, <2>2, <2>3, <2>4 DEF Reads
<1> QED
  BY <1>3, <1>4, <1>7, RenderedFacts

LEMMA ReadsReleased ==
  ASSUME EditorTypeOK, NEW d \in Tabs, NEW m \in OutMessage, m.type = "lock_released",
         OnLockReleased(d, m)
  PROVE  \E u \in Tab : /\ u.timed \subseteq u.page.rows
                        /\ tab' = [tab EXCEPT ![d] = u]
                        /\ Reads(d, tab[d], u, m)
<1> DEFINE w == [tab[d] EXCEPT !.locks[m.row] = NoTab, !.renewing = @ \ {m.row}]
<1>1. m.row \in Rows /\ m = LockReleased(m.row)
  BY OutMessageKinds
<1>2. tab[d] \in Tab
  BY TypeFacts
<1>3. /\ w \in Tab
      /\ w.open = tab[d].open /\ w.active = tab[d].active /\ w.page = tab[d].page
      /\ w.locks = [tab[d].locks EXCEPT ![m.row] = NoTab]
      /\ w.renewing = tab[d].renewing \ {m.row}
  BY <1>1, <1>2 DEF Tab, Holder
<1> HIDE DEF w
<1>4. tab' = [tab EXCEPT ![d] = Rendered(d, w)]
  BY DEF OnLockReleased, Show, w
<1>5. \A r \in Rows : r # m.row => m # LockReleased(r)
  BY <1>1, LockMessages
<1>6. tab[d].locks \in [Rows -> Holder]
  BY <1>2, TabFacts
<1>7. ASSUME NEW u \in Tab, u.open = w.open, u.active = w.active, u.page = w.page,
             u.locks = w.locks, u.renewing = w.renewing
      PROVE  Reads(d, tab[d], u, m)
  <2>1. NextVersion(tab[d], u, m)
    BY <1>3, <1>7 DEF NextVersion
  <2>2. ASSUME NEW r \in Rows, r = m.row
        PROVE  u.locks[r] # d /\ r \notin u.renewing
    BY <1>1, <1>3, <1>6, <1>7, <2>2
  <2>3. ASSUME NEW r \in Rows, r # m.row
        PROVE  /\ u.locks[r] = tab[d].locks[r]
               /\ r \in u.renewing <=> r \in tab[d].renewing
    BY <1>1, <1>3, <1>6, <1>7, <2>3
  <2>4. ASSUME NEW r \in Rows
        PROVE  u.page.text[r] = tab[d].page.text[r]
    BY <1>3, <1>7
  <2> QED
    BY <1>3, <1>5, <1>7, <2>1, <2>2, <2>3, <2>4 DEF Reads
<1> QED
  BY <1>3, <1>4, <1>7, RenderedFacts

LEMMA ReadsPage ==
  ASSUME EditorTypeOK, NEW d \in Tabs, NEW m \in OutMessage, m.type = "page_updated",
         OnPageUpdated(d, m)
  PROVE  \E u \in Tab : /\ u.timed \subseteq u.page.rows
                        /\ tab' = [tab EXCEPT ![d] = u]
                        /\ Reads(d, tab[d], u, m)
<1> DEFINE own == IsOwnedByMe(d, tab[d]) \intersect m.page.rows
           x == [r \in Rows |->
                   IF r \in own THEN tab[d].page.text[r] ELSE m.page.text[r]]
           w == [tab[d] EXCEPT !.page = Merge(d, m.page)]
<1>1. m.page \in Page
  BY OutMessageKinds
<1>2. tab[d] \in Tab /\ tab[d].page \in Page
  BY TypeFacts, TabFacts
<1>3. x \in Texts
  BY <1>1, <1>2, PageFacts DEF Texts
<1>4. Merge(d, m.page) \in Page /\ Merge(d, m.page).version = m.page.version
      /\ Merge(d, m.page).text = x
  <2>1. Merge(d, m.page) = [m.page EXCEPT !.text = x]
    BY DEF Merge
  <2> HIDE DEF x
  <2> QED
    BY <1>1, <1>3, <2>1, PageFacts DEF Page
<1>5. /\ w \in Tab
      /\ w.open = tab[d].open /\ w.active = tab[d].active /\ w.locks = tab[d].locks
      /\ w.renewing = tab[d].renewing /\ w.page = Merge(d, m.page)
  <2> HIDE DEF x
  <2> QED
    BY <1>2, <1>4 DEF Tab
<1>6. ASSUME NEW r \in Rows
      PROVE  \/ x[r] = m.page.text[r]
             \/ x[r] = tab[d].page.text[r] /\ tab[d].locks[r] = d
  BY DEF IsOwnedByMe
<1> HIDE DEF w, x
<1>7. tab' = [tab EXCEPT ![d] = Rendered(d, w)]
  BY DEF OnPageUpdated, Show, w
<1>8. \A r \in Rows : m # LockReleased(r)
  BY LockMessages
<1>9. ASSUME NEW u \in Tab, u.open = w.open, u.active = w.active, u.page = w.page,
             u.locks = w.locks, u.renewing = w.renewing
      PROVE  Reads(d, tab[d], u, m)
  <2>1. NextVersion(tab[d], u, m)
    BY <1>4, <1>5, <1>9 DEF NextVersion
  <2>2. ASSUME NEW r \in Rows
        PROVE  \/ u.page.text[r] = m.page.text[r]
               \/ u.page.text[r] = tab[d].page.text[r] /\ tab[d].locks[r] = d
    BY <1>4, <1>5, <1>6, <1>9
  <2> QED
    BY <1>5, <1>8, <1>9, <2>1, <2>2 DEF Reads
<1> QED
  BY <1>5, <1>7, <1>9, RenderedFacts

LEMMA ReceiveFacts ==
  ASSUME EditorTypeOK, NEW d \in Tabs, Receive(d)
  PROVE  /\ outbound[d] \in Seq(OutMessage) /\ outbound[d] # <<>>
         /\ outbound' \in [Tabs -> Seq(OutMessage)]
         /\ outbound'[d] = Tail(outbound[d])
         /\ \A e \in Tabs \ {d} : outbound'[e] = outbound[e]
         /\ \E u \in Tab : /\ u.timed \subseteq u.page.rows
                           /\ tab' = [tab EXCEPT ![d] = u]
                           /\ Reads(d, tab[d], u, Head(outbound[d]))
<1>1. /\ outbound \in [Tabs -> Seq(OutMessage)] /\ outbound[d] \in Seq(OutMessage)
      /\ outbound[d] # <<>> /\ outbound' = [outbound EXCEPT ![d] = Tail(outbound[d])]
  BY TypeFacts DEF Receive
<1>2. Head(outbound[d]) \in OutMessage /\ Tail(outbound[d]) \in Seq(OutMessage)
  BY <1>1, QueueTail
<1>3. \/ Head(outbound[d]).type = "lock_acquired" /\ OnLockAcquired(d, Head(outbound[d]))
      \/ Head(outbound[d]).type = "lock_released" /\ OnLockReleased(d, Head(outbound[d]))
      \/ Head(outbound[d]).type = "page_updated" /\ OnPageUpdated(d, Head(outbound[d]))
  BY DEF Receive
<1>4. \E u \in Tab : /\ u.timed \subseteq u.page.rows
                     /\ tab' = [tab EXCEPT ![d] = u]
                     /\ Reads(d, tab[d], u, Head(outbound[d]))
  BY <1>2, <1>3, ReadsAcquired, ReadsReleased, ReadsPage
<1> QED
  BY <1>1, <1>2, <1>4

\* The user of an open tab makes it u, and its messages z.
Sends(t, u, s, z) ==
  /\ u.open = t.open /\ u.locks = t.locks /\ u.renewing \subseteq t.renewing
  /\ u.page.version = t.page.version
  /\ \A r \in Rows :
       /\ t.page.text[r] \subseteq u.page.text[r]
       /\ Asked(r, s) => Asked(r, z)
       /\ r \in t.renewing /\ r \notin u.renewing => Asked(r, z)
       /\ \/ r = u.active
          \/ r # t.active /\ (AskedAfter(r, s) => AskedAfter(r, z))
          \/ Asked(r, z) /\ AskedAfter(r, z)
  /\ \A i \in DOMAIN z :
       z[i].type = "page_update" =>
         \/ i \in DOMAIN s /\ z[i] = s[i]
         \/ z[i].page = t.page

UserStep(d) ==
  /\ tab[d].open
  /\ UNCHANGED <<holder, page, cast, outbound, kept, orderly>>
  /\ edits' \in 0..MaxEdits
  /\ \E u \in Tab, z \in Seq(InMessage) :
       /\ u.timed \subseteq u.page.rows
       /\ tab' = [tab EXCEPT ![d] = u]
       /\ inbound' = [inbound EXCEPT ![d] = z]
       /\ Sends(tab[d], u, inbound[d], z)

\* Nothing is sent, and the tab lets go of nothing.
LEMMA SilentStep ==
  ASSUME EditorTypeOK, NEW d \in Tabs, NEW u \in Tab, ByTab(d, u, <<>>),
         edits' \in 0..MaxEdits, u.timed \subseteq u.page.rows,
         u.open = tab[d].open, u.locks = tab[d].locks, u.renewing = tab[d].renewing,
         u.active = tab[d].active, u.page.version = tab[d].page.version,
         \A r \in Rows : tab[d].page.text[r] \subseteq u.page.text[r]
  PROVE  UserStep(d)
<1>1. inbound[d] \in Seq(InMessage) /\ inbound[d] \o <<>> = inbound[d]
  BY TypeFacts
<1>2. inbound' = [inbound EXCEPT ![d] = inbound[d]]
  BY <1>1 DEF ByTab
<1>3. Sends(tab[d], u, inbound[d], inbound[d])
  BY DEF Sends
<1> QED
  BY <1>1, <1>2, <1>3 DEF ByTab, UserStep

LEMMA Step_AcquireLock ==
  ASSUME EditorTypeOK, NEW d \in Tabs, NEW r \in Rows, AcquireLock(d, r)
  PROVE  UserStep(d)
<1> DEFINE t == tab[d]
           s == inbound[d]
           prev == t.active
           u == [t EXCEPT !.active = r, !.renewing = @ \ ({prev} \ {r})]
           ms == IF prev \in {NoRow, r} THEN <<Lock(r)>> ELSE <<Unlock(prev), Lock(r)>>
<1>1. /\ t \in Tab /\ s \in Seq(InMessage) /\ t.timed \subseteq t.page.rows
      /\ edits \in 0..MaxEdits
  BY TypeFacts
<1>2. prev \in Rows \union {NoRow} /\ t.renewing \in SUBSET Rows
  BY <1>1, TabFacts
<1>3. /\ u \in Tab /\ u.timed \subseteq u.page.rows /\ u.open = t.open
      /\ u.locks = t.locks /\ u.page = t.page /\ u.active = r
      /\ u.renewing = t.renewing \ ({prev} \ {r})
  BY <1>1, <1>2 DEF Tab
<1>4. ByTab(d, u, ms) /\ UNCHANGED edits
  BY DEF AcquireLock
<1> HIDE DEF u
<1>5. Lock(r) \in InMessage /\ Lock(r).type = "lock"
      /\ \A x \in Rows : x # r => Lock(r) # Lock(x)
  BY InMessages
<1>6. CASE prev \in {NoRow, r}
  <2>1. ms = <<Lock(r)>>
    BY <1>6
  <2>2. s \o ms = Append(s, Lock(r)) /\ Append(s, Lock(r)) \in Seq(InMessage)
    <3> HIDE DEF ms
    <3>1. s \o <<Lock(r)>> = Append(s, Lock(r)) /\ Append(s, Lock(r)) \in Seq(InMessage)
      BY <1>1, <1>5, QueueConcat, QueueAppend
    <3> QED
      BY <2>1, <3>1
  <2>3. ASSUME NEW x \in Rows
        PROVE  /\ Asked(x, s) => Asked(x, Append(s, Lock(r)))
               /\ x \in t.renewing => x \in u.renewing
               /\ \/ x = r
                  \/ x # prev /\ (AskedAfter(x, s) => AskedAfter(x, Append(s, Lock(r))))
    BY <1>1, <1>3, <1>5, <1>6, AskedAppend
  <2>4. ASSUME NEW i \in DOMAIN Append(s, Lock(r)),
               Append(s, Lock(r))[i].type = "page_update"
        PROVE  i \in DOMAIN s /\ Append(s, Lock(r))[i] = s[i]
    BY <1>1, <1>5, <2>4, QueueAppend
  <2>5. Sends(t, u, s, Append(s, Lock(r)))
    BY <1>3, <2>3, <2>4 DEF Sends
  <2> QED
    BY <1>1, <1>3, <1>4, <2>2, <2>5 DEF UserStep, ByTab
<1>7. CASE prev \notin {NoRow, r}
  <2> DEFINE a == Append(s, Unlock(prev))
             z == Append(a, Lock(r))
  <2>1. ms = <<Unlock(prev), Lock(r)>> /\ prev \in Rows
    BY <1>2, <1>7
  <2>2. /\ Unlock(prev) \in InMessage /\ Unlock(prev).type = "unlock"
        /\ \A x \in Rows : Unlock(prev) # Lock(x)
    BY <2>1, InMessages
  <2>3. a \in Seq(InMessage) /\ z \in Seq(InMessage) /\ s \o ms = z
    <3> HIDE DEF ms
    <3>1. s \o <<Unlock(prev), Lock(r)>> = z
      BY <1>1, <1>5, <2>2, QueueConcat
    <3>2. a \in Seq(InMessage) /\ z \in Seq(InMessage)
      BY <1>1, <1>5, <2>2, QueueAppend
    <3> QED
      BY <2>1, <3>1, <3>2
  <2>4. ASSUME NEW x \in Rows
        PROVE  /\ Asked(x, s) => Asked(x, z)
               /\ x = prev => Asked(x, z) /\ AskedAfter(x, z)
               /\ x # r /\ AskedAfter(x, s) => AskedAfter(x, z)
    <3>1. /\ Asked(x, s) => Asked(x, a)
          /\ x = prev => Asked(x, a) /\ AskedAfter(x, a)
          /\ AskedAfter(x, s) => AskedAfter(x, a)
      BY <1>1, <2>2, AskedAppend
    <3>2. /\ Asked(x, a) => Asked(x, z)
          /\ x # r /\ AskedAfter(x, a) => AskedAfter(x, z)
      BY <1>5, <2>3, AskedAppend
    <3> QED
      BY <1>7, <3>1, <3>2
  <2>5. ASSUME NEW i \in DOMAIN z, z[i].type = "page_update"
        PROVE  i \in DOMAIN s /\ z[i] = s[i]
    <3>1. i \in DOMAIN a /\ z[i] = a[i]
      BY <1>5, <2>3, <2>5, QueueAppend
    <3> QED
      BY <1>1, <2>2, <2>5, <3>1, QueueAppend
  <2>6. Sends(t, u, s, z)
    <3>1. ASSUME NEW x \in Rows
          PROVE  /\ x \in t.renewing /\ x \notin u.renewing => Asked(x, z)
                 /\ \/ x = u.active
                    \/ x # t.active /\ (AskedAfter(x, s) => AskedAfter(x, z))
                    \/ Asked(x, z) /\ AskedAfter(x, z)
      BY <1>3, <2>4
    <3> QED
      BY <1>3, <2>4, <2>5, <3>1 DEF Sends
  <2> QED
    BY <1>1, <1>3, <1>4, <2>3, <2>6 DEF UserStep, ByTab
<1> QED
  BY <1>6, <1>7

LEMMA Step_ReleaseTimer ==
  ASSUME EditorTypeOK, NEW d \in Tabs, NEW r \in Rows, ReleaseTimer(d, r)
  PROVE  UserStep(d)
<1> DEFINE t == tab[d]
           s == inbound[d]
           z == Append(s, Unlock(r))
           u == [t EXCEPT !.timed = @ \ {r}, !.renewing = @ \ {r},
                          !.active = IF @ = r THEN NoRow ELSE @]
<1>1. /\ t \in Tab /\ s \in Seq(InMessage) /\ t.timed \subseteq t.page.rows
      /\ edits \in 0..MaxEdits
  BY TypeFacts
<1>2. /\ u \in Tab /\ u.timed \subseteq u.page.rows /\ u.open = t.open
      /\ u.locks = t.locks /\ u.page = t.page
      /\ u.renewing = t.renewing \ {r} /\ u.active = IF t.active = r THEN NoRow ELSE t.active
  BY <1>1 DEF Tab
<1>3. ByTab(d, u, <<Unlock(r)>>) /\ UNCHANGED edits
  BY DEF ReleaseTimer, ReleaseLock
<1> HIDE DEF u
<1>4. /\ Unlock(r) \in InMessage /\ Unlock(r).type = "unlock"
      /\ \A x \in Rows : Unlock(r) # Lock(x)
  BY InMessages
<1>5. z \in Seq(InMessage) /\ s \o <<Unlock(r)>> = z
  BY <1>1, <1>4, QueueConcat, QueueAppend
<1>6. ASSUME NEW x \in Rows
      PROVE  /\ Asked(x, s) => Asked(x, z)
             /\ x \in t.renewing /\ x \notin u.renewing => Asked(x, z)
             /\ \/ x = u.active
                \/ x # t.active /\ (AskedAfter(x, s) => AskedAfter(x, z))
                \/ Asked(x, z) /\ AskedAfter(x, z)
  <2>1. x = r => Asked(x, z) /\ AskedAfter(x, z)
    BY <1>1, <1>4, AskedAppend
  <2>2. /\ Asked(x, s) => Asked(x, z)
        /\ AskedAfter(x, s) => AskedAfter(x, z)
    BY <1>1, <1>4, AskedAppend
  <2> QED
    BY <1>2, <2>1, <2>2
<1>7. ASSUME NEW i \in DOMAIN z, z[i].type = "page_update"
      PROVE  i \in DOMAIN s /\ z[i] = s[i]
  BY <1>1, <1>4, <1>7, QueueAppend
<1>8. Sends(t, u, s, z)
  BY <1>2, <1>6, <1>7 DEF Sends
<1> QED
  BY <1>1, <1>2, <1>3, <1>5, <1>8 DEF UserStep, ByTab

LEMMA Step_Touch ==
  ASSUME EditorTypeOK, NEW d \in Tabs, NEW r \in Rows, Touch(d, r)
  PROVE  UserStep(d)
<1> DEFINE t == tab[d]
           u == [t EXCEPT !.timed = @ \union {r}]
<1>1. t \in Tab /\ t.timed \subseteq t.page.rows /\ edits \in 0..MaxEdits
  BY TypeFacts
<1>2. r \in t.page.rows /\ ByTab(d, u, <<>>) /\ UNCHANGED edits
  BY DEF Touch, IsOwnedByMe
<1>3. /\ u \in Tab /\ u.timed \subseteq u.page.rows /\ u.open = t.open
      /\ u.locks = t.locks /\ u.page = t.page /\ u.active = t.active
      /\ u.renewing = t.renewing
  BY <1>1, <1>2 DEF Tab
<1> HIDE DEF u
<1> QED
  BY <1>1, <1>2, <1>3, SilentStep

LEMMA Step_TypeIn ==
  ASSUME EditorTypeOK, NEW d \in Tabs, NEW r \in Rows, TypeIn(d, r)
  PROVE  UserStep(d)
<1> DEFINE t == tab[d]
           x == [t.page.text EXCEPT ![r] = @ \union {edits'}]
           p == [t.page EXCEPT !.text = x]
           u == [t EXCEPT !.page = p, !.timed = @ \union {r}, !.timer = TRUE]
<1>1. /\ t \in Tab /\ t.timed \subseteq t.page.rows /\ edits \in 0..MaxEdits
      /\ t.page \in Page
  BY TypeFacts, TabFacts
<1>2. r \in t.page.rows /\ edits < MaxEdits /\ edits' = edits + 1
      /\ edits' \in 1..MaxEdits /\ edits' \in 0..MaxEdits
  BY <1>1 DEF TypeIn, IsOwnedByMe
<1>3. x \in Texts /\ \A y \in Rows : t.page.text[y] \subseteq x[y]
  <2>1. t.page.text \in Texts
    BY <1>1, PageFacts
  <2> QED
    BY <1>2, <2>1 DEF Texts
<1> HIDE DEF x
<1>4. p \in Page /\ p.version = t.page.version /\ p.rows = t.page.rows /\ p.text = x
  BY <1>1, <1>3 DEF Page
<1> HIDE DEF p
<1>5. /\ u \in Tab /\ u.timed \subseteq u.page.rows /\ u.open = t.open
      /\ u.locks = t.locks /\ u.page = p /\ u.active = t.active
      /\ u.renewing = t.renewing
  BY <1>1, <1>2, <1>4 DEF Tab
<1>6. ByTab(d, u, <<>>)
  BY DEF TypeIn, p, x
<1> HIDE DEF u
<1> QED
  BY <1>1, <1>2, <1>3, <1>4, <1>5, <1>6, SilentStep

LEMMA Step_AddPage ==
  ASSUME EditorTypeOK, NEW d \in Tabs, AddPage(d)
  PROVE  UserStep(d)
<1> DEFINE t == tab[d]
           p == [t.page EXCEPT !.rows = Rows]
           w == [t EXCEPT !.page = p, !.timer = TRUE]
<1>1. t \in Tab /\ edits \in 0..MaxEdits /\ t.page \in Page
  BY TypeFacts, TabFacts
<1>2. edits' \in 0..MaxEdits
  BY <1>1 DEF AddPage
<1>3. p \in Page /\ p.version = t.page.version /\ p.text = t.page.text
  BY <1>1 DEF Page
<1> HIDE DEF p
<1>4. /\ w \in Tab /\ w.open = t.open /\ w.locks = t.locks /\ w.page = p
      /\ w.active = t.active /\ w.renewing = t.renewing
  BY <1>1, <1>3 DEF Tab
<1>5. ByTab(d, Rendered(d, w), <<>>)
  BY DEF AddPage, p
<1> HIDE DEF w
<1>6. PICK u \in Tab : u = Rendered(d, w)
  BY <1>4, RenderedFacts
<1>7. /\ u.timed \subseteq u.page.rows /\ u.open = t.open
      /\ u.locks = t.locks /\ u.page = p /\ u.active = t.active
      /\ u.renewing = t.renewing
  BY <1>4, <1>6, RenderedFacts
<1> QED
  BY <1>2, <1>3, <1>5, <1>6, <1>7, SilentStep

LEMMA Step_SaveTimer ==
  ASSUME EditorTypeOK, NEW d \in Tabs, SaveTimer(d)
  PROVE  UserStep(d)
<1> DEFINE t == tab[d]
           s == inbound[d]
           m == Save(t.page)
           z == Append(s, m)
           u == [t EXCEPT !.timer = FALSE]
<1>1. /\ t \in Tab /\ s \in Seq(InMessage) /\ t.timed \subseteq t.page.rows
      /\ edits \in 0..MaxEdits /\ t.page \in Page
  BY TypeFacts, TabFacts
<1>2. /\ u \in Tab /\ u.timed \subseteq u.page.rows /\ u.open = t.open
      /\ u.locks = t.locks /\ u.page = t.page /\ u.active = t.active
      /\ u.renewing = t.renewing
  BY <1>1 DEF Tab
<1>3. ByTab(d, u, <<m>>) /\ UNCHANGED edits
  BY DEF SaveTimer
<1> HIDE DEF u
<1>4. m \in InMessage /\ m.page = t.page /\ \A x \in Rows : m # Lock(x)
  BY <1>1, SaveMessages
<1> HIDE DEF m
<1>5. z \in Seq(InMessage) /\ s \o <<m>> = z
  BY <1>1, <1>4, QueueConcat, QueueAppend
<1>6. ASSUME NEW x \in Rows
      PROVE  /\ Asked(x, s) => Asked(x, z)
             /\ AskedAfter(x, s) => AskedAfter(x, z)
  BY <1>1, <1>4, AskedAppend
<1>7. ASSUME NEW i \in DOMAIN z
      PROVE  \/ i \in DOMAIN s /\ z[i] = s[i]
             \/ z[i].page = t.page
  BY <1>1, <1>4, QueueAppend
<1>8. Sends(t, u, s, z)
  BY <1>2, <1>6, <1>7 DEF Sends
<1> QED
  BY <1>1, <1>2, <1>3, <1>5, <1>8 DEF UserStep, ByTab

LEMMA UserIsStep ==
  ASSUME EditorTypeOK, NEW d \in Tabs, User(d)
  PROVE  UserStep(d) \/ Close(d)
BY Step_AddPage, Step_SaveTimer, Step_AcquireLock, Step_ReleaseTimer, Step_Touch,
   Step_TypeIn DEF User

LEMMA NewTabFacts ==
  /\ FirstVersion \in Page /\ FirstVersion.version = 1 /\ FirstVersion.text = Empty
  /\ NewTab \in Tab /\ NewTab.timed = {} /\ NewTab.page = FirstVersion
  /\ NewTab.renewing = {} /\ \A r \in Rows : NewTab.locks[r] = NoTab
  /\ NewTab.open = TRUE
<1>1. Empty \in Texts
  BY DEF Empty, Texts
<1>2. FirstVersion \in Page /\ FirstVersion.version = 1 /\ FirstVersion.text = Empty
  BY <1>1 DEF FirstVersion, Page
<1> QED
  BY <1>2 DEF NewTab, Tab, Holder

--------------------------------------------------------------------------------
(* Every step keeps the locks *)

LockInv == EditorTypeOK /\ Grants /\ LocksInv

\* What a step of the server does to the rows and the announcements: c alone
\* sends and hears something else, and no row is taken from another tab or
\* granted to it.
ServerStep(c) ==
  /\ UNCHANGED <<outbound, tab>>
  /\ \A d \in Tabs \ {c} :
       /\ cast'[d] = cast[d] /\ inbound'[d] = inbound[d]
       /\ \A r \in Rows : holder'[r] = holder[r] \/ (holder[r] # d /\ holder'[r] # d)

LEMMA LocksServe ==
  ASSUME LockInv, EditorTypeOK', NEW c \in Tabs, ServerStep(c),
         \A r \in Rows, u \in Tabs :
           cast'[c] = LockAcquired(r, u) => u = c /\ holder'[r] = c,
         tab[c].open => \A r \in Rows :
           LocksOf(c, r, holder'[r], tab[c], inbound'[c], Waiting(c)')
  PROVE  LockInv'
<1>1. Grants'
  <2> SUFFICES ASSUME NEW d \in Tabs, NEW r \in Rows, NEW u \in Tabs,
                      cast'[d] = LockAcquired(r, u)
               PROVE  u = d /\ holder'[r] = d
    BY DEF Grants
  <2>1. CASE d # c
    <3>1. cast[d] = LockAcquired(r, u)
      BY <2>1 DEF ServerStep
    <3>2. u = d /\ holder[r] = d
      BY <3>1 DEF LockInv, Grants
    <3> QED
      BY <2>1, <3>2 DEF ServerStep
  <2> QED
    BY <2>1
<1>2. ASSUME NEW d \in Tabs
      PROVE  ClosedOf(tab'[d], outbound'[d])
  BY DEF LockInv, LocksInv, ServerStep
<1>3. ASSUME NEW d \in Tabs, tab'[d].open, NEW r \in Rows
      PROVE  LocksOf(d, r, holder'[r], tab'[d], inbound'[d], Waiting(d)')
  <2>1. CASE d # c
    <3>1. LocksOf(d, r, holder[r], tab[d], inbound[d], Waiting(d))
      BY <1>3 DEF LockInv, LocksInv, ServerStep
    <3>2. Waiting(d)' = Waiting(d) /\ tab'[d] = tab[d] /\ inbound'[d] = inbound[d]
      BY <2>1 DEF ServerStep, Waiting
    <3>3. holder'[r] = holder[r] \/ holder[r] # d
      BY <2>1 DEF ServerStep
    <3> QED
      BY <3>1, <3>2, <3>3, LocksOther
  <2> QED
    BY <1>3, <2>1 DEF ServerStep
<1> QED
  BY <1>1, <1>2, <1>3 DEF LockInv, LocksInv

LEMMA Locks_LockRow ==
  ASSUME LockInv, NEW c \in Tabs, LockRow(c)
  PROVE  LockInv'
<1> DEFINE s == inbound[c]
           x == Head(s).row
<1>1. EditorTypeOK /\ Take(c, "lock")
  BY DEF LockInv, LockRow
<1>2. /\ cast[c] = NoMsg /\ s \in Seq(InMessage) /\ s # <<>>
      /\ Head(s) \in InMessage /\ Head(s).type = "lock"
      /\ inbound' \in [Tabs -> Seq(InMessage)] /\ inbound'[c] = Tail(s)
      /\ \A d \in Tabs \ {c} : inbound'[d] = inbound[d]
  BY <1>1, TakeFacts
<1>3. x \in Rows /\ Head(s) = Lock(x)
  BY <1>2, InMessageKinds
<1>4. UNCHANGED <<page, outbound, tab, edits, kept>> /\ orderly' \in BOOLEAN
  BY <1>1, TypeFacts DEF LockRow
<1>5. Waiting(c) = outbound[c] /\ outbound[c] \in Seq(OutMessage)
  BY <1>1, <1>2, TypeFacts, WaitingFacts
<1>6. tab[c].open => \A r \in Rows :
        LocksOf(c, r, holder[r], tab[c], s, outbound[c])
  BY <1>5 DEF LockInv, LocksInv
<1>7. CASE holder[x] # NoTab /\ UNCHANGED <<holder, cast, orderly>>
  <2>1. EditorTypeOK'
    BY <1>1, <1>2, <1>4, <1>7 DEF EditorTypeOK
  <2>2. ServerStep(c)
    BY <1>2, <1>4, <1>7 DEF ServerStep
  <2>3. Waiting(c)' = outbound[c]
    BY <1>2, <1>4, <1>7 DEF Waiting
  <2>4. ASSUME NEW r \in Rows, tab[c].open
        PROVE  LocksOf(c, r, holder'[r], tab[c], inbound'[c], Waiting(c)')
    <3>1. Head(s) # Unlock(r)
      BY <1>3, InMessages
    <3> QED
      BY <1>2, <1>5, <1>6, <1>7, <2>3, <2>4, <3>1, LocksServed
  <2>5. \A r \in Rows, u \in Tabs : cast'[c] # LockAcquired(r, u)
    BY <1>2, <1>7, OutgoingMessages
  <2> QED
    BY <2>1, <2>2, <2>4, <2>5, LocksServe
<1>8. CASE /\ holder[x] = NoTab /\ holder' = [holder EXCEPT ![x] = c]
           /\ Announce(c, LockAcquired(x, c))
  <2>1. LockAcquired(x, c) \in Outgoing
    BY <1>3, OutgoingMessages
  <2>2. /\ cast' \in [Tabs -> Outgoing \union {NoMsg}] /\ cast'[c] = LockAcquired(x, c)
        /\ \A d \in Tabs \ {c} : cast'[d] = cast[d]
    BY <1>1, <1>8, <2>1, AnnounceFacts
  <2>3. /\ holder' \in [Rows -> Holder] /\ holder'[x] = c
        /\ \A r \in Rows \ {x} : holder'[r] = holder[r]
    BY <1>1, <1>3, <1>8, TypeFacts DEF Holder
  <2>4. EditorTypeOK'
    BY <1>1, <1>2, <1>4, <2>2, <2>3 DEF EditorTypeOK
  <2>5. ServerStep(c)
    BY <1>2, <1>3, <1>4, <1>8, <2>2, <2>3 DEF ServerStep
  <2>6. Waiting(c)' = Append(outbound[c], LockAcquired(x, c))
    <3>1. Sent(LockAcquired(x, c)) = LockAcquired(x, c)
      BY <1>3, LockMessages DEF Sent
    <3> QED
      BY <1>4, <2>1, <2>2, <3>1 DEF Waiting
  <2>7. ASSUME NEW r \in Rows, tab[c].open
        PROVE  LocksOf(c, r, holder'[r], tab[c], Tail(s), Append(outbound[c], LockAcquired(x, c)))
    <3>1. LocksOf(c, r, holder[r], tab[c], s, outbound[c])
      BY <1>6, <2>7
    <3>2. CASE r = x
      BY <1>2, <1>3, <1>5, <2>3, <3>1, <3>2, LocksGranted
    <3>3. CASE r # x
      <4>1. LockAcquired(x, c) # LockAcquired(r, c) /\ LockAcquired(x, c) \in OutMessage
            /\ Head(s) # Unlock(r)
        BY <1>3, <3>3, LockMessages, InMessages
      <4>2. LocksOf(c, r, holder[r], tab[c], Tail(s), outbound[c])
        BY <1>2, <1>5, <3>1, <4>1, LocksServed
      <4> QED
        BY <1>5, <2>3, <3>3, <4>1, <4>2, LocksHear
    <3> QED
      BY <3>2, <3>3
  <2>8. \A r \in Rows, u \in Tabs :
          cast'[c] = LockAcquired(r, u) => u = c /\ holder'[r] = c
    BY <1>3, <2>2, <2>3, LockMessages
  <2> QED
    <3>1. ASSUME NEW r \in Rows, tab[c].open
          PROVE  LocksOf(c, r, holder'[r], tab[c], inbound'[c], Waiting(c)')
      BY <1>2, <2>6, <2>7, <3>1
    <3> QED
      BY <2>4, <2>5, <2>8, <3>1, LocksServe
<1> QED
  BY <1>7, <1>8 DEF LockRow

\* c gives back row x: its tab is gone, or has just asked it to.
LEMMA Locks_FreeRow ==
  ASSUME LockInv, NEW c \in Tabs, NEW x \in Rows, FreeRow(c, x), cast[c] = NoMsg,
         inbound' \in [Tabs -> Seq(InMessage)],
         \A d \in Tabs \ {c} : inbound'[d] = inbound[d],
         tab[c].open => /\ inbound[c] # <<>> /\ inbound'[c] = Tail(inbound[c])
                        /\ Head(inbound[c]) = Unlock(x),
         UNCHANGED <<page, outbound, tab, edits, kept, orderly>>
  PROVE  LockInv'
<1> DEFINE q == Append(outbound[c], LockReleased(x))
<1>1. EditorTypeOK /\ outbound[c] \in Seq(OutMessage) /\ inbound[c] \in Seq(InMessage)
  BY TypeFacts DEF LockInv
<1>2. LockReleased(x) \in Outgoing /\ LockReleased(x) \in OutMessage
  BY OutgoingMessages, LockMessages
<1>3. /\ cast' \in [Tabs -> Outgoing \union {NoMsg}] /\ cast'[c] = LockReleased(x)
      /\ \A d \in Tabs \ {c} : cast'[d] = cast[d]
  BY <1>1, <1>2, AnnounceFacts DEF FreeRow
<1>4. /\ holder[x] = c
      /\ holder' \in [Rows -> Holder] /\ holder'[x] = NoTab
      /\ \A r \in Rows \ {x} : holder'[r] = holder[r]
  BY <1>1, TypeFacts DEF FreeRow, Holder
<1>5. EditorTypeOK'
  BY <1>1, <1>3, <1>4 DEF EditorTypeOK
<1>6. ServerStep(c)
  BY <1>3, <1>4 DEF ServerStep
<1>7. Waiting(c) = outbound[c] /\ Waiting(c)' = q
  <2>1. Sent(LockReleased(x)) = LockReleased(x)
    BY LockMessages DEF Sent
  <2> QED
    BY <1>2, <1>3, <2>1 DEF Waiting
<1>8. ASSUME NEW r \in Rows, tab[c].open
      PROVE  LocksOf(c, r, holder'[r], tab[c], Tail(inbound[c]), q)
  <2>1. LocksOf(c, r, holder[r], tab[c], inbound[c], outbound[c])
    BY <1>7, <1>8 DEF LockInv, LocksInv
  <2>2. CASE r = x
    BY <1>1, <1>8, <2>1, <2>2, LocksFreed
  <2>3. CASE r # x
    <3>1. LockReleased(x) # LockAcquired(r, c) /\ Head(inbound[c]) # Unlock(r)
      BY <1>8, <2>3, LockMessages, InMessages
    <3>2. LocksOf(c, r, holder[r], tab[c], Tail(inbound[c]), outbound[c])
      BY <1>1, <1>8, <2>1, <3>1, LocksServed
    <3> QED
      BY <1>1, <1>2, <1>4, <2>3, <3>1, <3>2, LocksHear
  <2> QED
    BY <2>2, <2>3
<1>9. \A r \in Rows, u \in Tabs : cast'[c] # LockAcquired(r, u)
  BY <1>3, LockMessages
<1> QED
  BY <1>5, <1>6, <1>7, <1>8, <1>9, LocksServe

LEMMA Locks_UnlockRow ==
  ASSUME LockInv, NEW c \in Tabs, UnlockRow(c)
  PROVE  LockInv'
<1> DEFINE s == inbound[c]
           x == Head(s).row
<1>1. EditorTypeOK /\ Take(c, "unlock")
  BY DEF LockInv, UnlockRow
<1>2. /\ cast[c] = NoMsg /\ s \in Seq(InMessage) /\ s # <<>>
      /\ Head(s) \in InMessage /\ Head(s).type = "unlock"
      /\ inbound' \in [Tabs -> Seq(InMessage)] /\ inbound'[c] = Tail(s)
      /\ \A d \in Tabs \ {c} : inbound'[d] = inbound[d]
  BY <1>1, TakeFacts
<1>3. x \in Rows /\ Head(s) = Unlock(x)
  BY <1>2, InMessageKinds
<1>4. UNCHANGED <<page, outbound, tab, edits, kept, orderly>>
  BY DEF UnlockRow
<1>5. CASE FreeRow(c, x)
  BY <1>2, <1>3, <1>4, <1>5, Locks_FreeRow
<1>6. CASE holder[x] # c /\ UNCHANGED <<holder, cast>>
  <2>1. EditorTypeOK'
    BY <1>1, <1>2, <1>4, <1>6 DEF EditorTypeOK
  <2>2. ServerStep(c)
    BY <1>2, <1>4, <1>6 DEF ServerStep
  <2>3. Waiting(c)' = outbound[c] /\ Waiting(c) = outbound[c]
    BY <1>2, <1>4, <1>6 DEF Waiting
  <2>4. ASSUME NEW r \in Rows, tab[c].open
        PROVE  LocksOf(c, r, holder'[r], tab[c], inbound'[c], Waiting(c)')
    <3>1. Head(s) = Unlock(r) => holder[r] # c
      BY <1>3, <1>6, InMessages
    <3>2. LocksOf(c, r, holder[r], tab[c], s, outbound[c])
      BY <2>3, <2>4 DEF LockInv, LocksInv
    <3>3. outbound[c] \in Seq(OutMessage)
      BY <1>1, TypeFacts
    <3> QED
      BY <1>2, <1>6, <2>3, <3>1, <3>2, <3>3, LocksServed
  <2>5. \A r \in Rows, u \in Tabs : cast'[c] # LockAcquired(r, u)
    BY <1>2, <1>6, OutgoingMessages
  <2> QED
    BY <2>1, <2>2, <2>4, <2>5, LocksServe
<1> QED
  BY <1>5, <1>6 DEF UnlockRow

LEMMA Locks_ReleaseOnClose ==
  ASSUME LockInv, NEW c \in Tabs, NEW r \in Rows, ReleaseOnClose(c, r)
  PROVE  LockInv'
<1>1. /\ ~tab[c].open /\ FreeRow(c, r) /\ cast[c] = NoMsg
      /\ UNCHANGED <<page, inbound, outbound, tab, edits, kept, orderly>>
  BY DEF ReleaseOnClose
<1>2. inbound' \in [Tabs -> Seq(InMessage)] /\ \A d \in Tabs : inbound'[d] = inbound[d]
  BY <1>1, TypeFacts DEF LockInv
<1> QED
  BY <1>1, <1>2, Locks_FreeRow

LEMMA Locks_Expire ==
  ASSUME LockInv, NEW x \in Rows, Expire(x)
  PROVE  LockInv'
<1>1. PICK c \in Tabs :
        /\ holder[x] = c /\ tab[c].open /\ x \notin tab[c].renewing
        /\ ~OnItsWay(LockAcquired(x, c), c) /\ ~Unlocking(c, x)
  BY DEF Expire
<1>2. /\ EditorTypeOK /\ UNCHANGED <<page, inbound, cast, outbound, tab, edits, kept>>
      /\ orderly' \in BOOLEAN
  BY DEF Expire, LockInv, EditorTypeOK
<1>3. /\ holder' \in [Rows -> Holder] /\ holder'[x] = NoTab
      /\ \A r \in Rows \ {x} : holder'[r] = holder[r]
  BY <1>2, TypeFacts DEF Expire, Holder
<1>4. EditorTypeOK'
  BY <1>2, <1>3 DEF EditorTypeOK
<1>5. ServerStep(c)
  BY <1>1, <1>2, <1>3 DEF ServerStep
<1>6. Waiting(c)' = Waiting(c)
  BY <1>2 DEF Waiting
<1>7. ASSUME NEW r \in Rows
      PROVE  LocksOf(c, r, holder'[r], tab[c], inbound[c], Waiting(c))
  <2>1. LocksOf(c, r, holder[r], tab[c], inbound[c], Waiting(c))
    BY <1>1 DEF LockInv, LocksInv
  <2>2. CASE r = x
    <3>1. ~Asked(x, inbound[c])
      BY <1>1 DEF Asked, Unlocking
    <3>2. tab[c].locks[x] = c => ReleasedAfter(x, Waiting(c), 0)
      BY <1>1, <2>1, <2>2, <3>1 DEF LocksOf
    <3>3. ~\E i \in DOMAIN Waiting(c) : Waiting(c)[i] = LockAcquired(x, c)
      <4> SUFFICES ASSUME NEW i \in DOMAIN Waiting(c), Waiting(c)[i] = LockAcquired(x, c)
                   PROVE  FALSE
        OBVIOUS
      <4>1. outbound[c] \in Seq(OutMessage)
        BY <1>2, TypeFacts
      <4>2. i \notin DOMAIN outbound[c] \/ outbound[c][i] # LockAcquired(x, c)
        BY <1>1 DEF OnItsWay
      <4>3. CASE cast[c] = NoMsg
        BY <1>2, <4>2, <4>3, WaitingFacts
      <4>4. CASE cast[c] # NoMsg
        <5>1. /\ cast[c] \in Outgoing /\ Sent(cast[c]) \in OutMessage
              /\ Waiting(c) = Append(outbound[c], Sent(cast[c]))
          BY <1>2, <4>4, WaitingFacts
        <5>2. Sent(cast[c]) = LockAcquired(x, c)
          BY <4>1, <4>2, <5>1, QueueAppend
        <5> QED
          BY <1>1, <5>1, <5>2, SentFacts DEF OnItsWay
      <4> QED
        BY <4>3, <4>4
    <3>4. Followed(c, x, tab[c], Waiting(c))
      BY <1>1, <3>2, <3>3 DEF Followed, Tied
    <3> QED
      BY <2>1, <2>2, <3>4 DEF LocksOf
  <2>3. CASE r # x
    BY <1>3, <2>1, <2>3
  <2> QED
    BY <2>2, <2>3
<1>8. \A r \in Rows, u \in Tabs :
        cast'[c] = LockAcquired(r, u) => u = c /\ holder'[r] = c
  <2> SUFFICES ASSUME NEW r \in Rows, NEW u \in Tabs, cast[c] = LockAcquired(r, u)
               PROVE  u = c /\ holder'[r] = c
    BY <1>2
  <2>1. u = c /\ holder[r] = c
    BY DEF LockInv, Grants
  <2>2. r # x
    BY <1>1, <2>1 DEF OnItsWay
  <2> QED
    BY <1>3, <2>1, <2>2
<1> QED
  BY <1>2, <1>4, <1>5, <1>6, <1>7, <1>8, LocksServe

LEMMA StoreFacts ==
  ASSUME EditorTypeOK, NEW c \in Tabs, NEW p \in Page, Store(c, p)
  PROVE  /\ page' \in Page /\ page'.version = p.version + 1 /\ page'.text = p.text
         /\ cast' \in [Tabs -> Outgoing \union {NoMsg}] /\ cast'[c] = PageUpdated(page')
         /\ \A d \in Tabs \ {c} : cast'[d] = cast[d]
         /\ kept' \in [Tabs -> Texts]
         /\ \A d \in Tabs \ {c} : kept'[d] = kept[d]
         /\ \A r \in Rows :
              IF holder[r] = c THEN kept'[c][r] = p.text[r]
              ELSE kept'[c][r] = kept[c][r] \intersect p.text[r]
<1>1. page' \in Page /\ page'.version = p.version + 1 /\ page'.text = p.text
  <2>1. page' = [p EXCEPT !.version = @ + 1]
    BY DEF Store
  <2> QED
    BY <2>1, PageFacts DEF Page
<1>2. /\ cast' \in [Tabs -> Outgoing \union {NoMsg}] /\ cast'[c] = PageUpdated(page')
      /\ \A d \in Tabs \ {c} : cast'[d] = cast[d]
  <2>1. PageUpdated(page') \in Outgoing /\ Announce(c, PageUpdated(page'))
    BY <1>1, OutgoingMessages DEF Store
  <2> QED
    BY <2>1, AnnounceFacts
<1>3. /\ kept' \in [Tabs -> Texts]
      /\ \A d \in Tabs \ {c} : kept'[d] = kept[d]
      /\ \A r \in Rows :
           IF holder[r] = c THEN kept'[c][r] = p.text[r]
           ELSE kept'[c][r] = kept[c][r] \intersect p.text[r]
  <2> DEFINE k == [r \in Rows |-> IF holder[r] = c THEN p.text[r]
                                  ELSE kept[c][r] \intersect p.text[r]]
  <2>1. kept \in [Tabs -> Texts]
    BY TypeFacts
  <2>2. kept' = [kept EXCEPT ![c] = k]
    BY <2>1 DEF Store
  <2>3. kept[c] \in Texts /\ p.text \in Texts
    BY <2>1, PageFacts
  <2>4. k \in Texts
    BY <2>3 DEF Texts
  <2>5. \A r \in Rows : k[r] = IF holder[r] = c THEN p.text[r]
                               ELSE kept[c][r] \intersect p.text[r]
    OBVIOUS
  <2> HIDE DEF k
  <2>6. kept'[c] = k
    BY <2>1, <2>2
  <2> QED
    BY <2>1, <2>2, <2>4, <2>5, <2>6
<1> QED
  BY <1>1, <1>2, <1>3

LEMMA Locks_UpdatePage ==
  ASSUME LockInv, NEW c \in Tabs, UpdatePage(c)
  PROVE  LockInv'
<1> DEFINE s == inbound[c]
           p == Head(s).page
<1>1. /\ EditorTypeOK /\ Take(c, "page_update") /\ page \in Page
      /\ UNCHANGED <<holder, outbound, tab, edits>> /\ orderly' \in BOOLEAN
  BY TypeFacts DEF LockInv, UpdatePage
<1>2. /\ cast[c] = NoMsg /\ s \in Seq(InMessage) /\ s # <<>>
      /\ Head(s) \in InMessage /\ Head(s).type = "page_update"
      /\ inbound' \in [Tabs -> Seq(InMessage)] /\ inbound'[c] = Tail(s)
      /\ \A d \in Tabs \ {c} : inbound'[d] = inbound[d]
  BY <1>1, TakeFacts
<1>3. p \in Page
  BY <1>2, InMessageKinds
<1>4. PICK m \in Outgoing :
        /\ cast' \in [Tabs -> Outgoing \union {NoMsg}] /\ cast'[c] = m
        /\ \A d \in Tabs \ {c} : cast'[d] = cast[d]
        /\ Sent(m) \in OutMessage
        /\ \A r \in Rows : Sent(m) # LockAcquired(r, c)
        /\ \A r \in Rows, u \in Tabs : m # LockAcquired(r, u)
        /\ page' \in Page /\ kept' \in [Tabs -> Texts]
  <2>1. CASE Store(c, p)
    <3>1. page' \in Page /\ PageUpdated(page') \in Outgoing
      BY <1>1, <1>3, <2>1, StoreFacts, OutgoingMessages
    <3>2. \A r \in Rows, u \in Tabs : PageUpdated(page') # LockAcquired(r, u)
      BY <3>1, PageMessages
    <3>3. /\ Sent(PageUpdated(page')) \in OutMessage
          /\ \A r \in Rows : Sent(PageUpdated(page')) # LockAcquired(r, c)
      BY <3>1, <3>2, SentFacts
    <3> QED
      BY <1>1, <1>3, <2>1, <3>1, <3>2, <3>3, StoreFacts
  <2>2. CASE Announce(c, Answer(page)) /\ UNCHANGED <<page, kept>>
    <3>1. Answer(page) \in Outgoing
          /\ \A r \in Rows, u \in Tabs : Answer(page) # LockAcquired(r, u)
      BY <1>1, OutgoingMessages
    <3>2. /\ Sent(Answer(page)) \in OutMessage
          /\ \A r \in Rows : Sent(Answer(page)) # LockAcquired(r, c)
      BY <3>1, SentFacts
    <3>3. kept' \in [Tabs -> Texts]
      BY <1>1, <2>2, TypeFacts
    <3> QED
      BY <1>1, <2>2, <3>1, <3>2, <3>3, AnnounceFacts
  <2> QED
    BY <2>1, <2>2 DEF UpdatePage
<1>5. EditorTypeOK'
  BY <1>1, <1>2, <1>4 DEF EditorTypeOK
<1>6. ServerStep(c)
  BY <1>1, <1>2, <1>4 DEF ServerStep
<1>7. /\ outbound[c] \in Seq(OutMessage) /\ Waiting(c) = outbound[c]
      /\ Waiting(c)' = Append(outbound[c], Sent(m))
  <2>1. m # NoMsg
    OBVIOUS
  <2> QED
    BY <1>1, <1>2, <1>4, <2>1, TypeFacts DEF Waiting
<1>8. ASSUME NEW r \in Rows, tab[c].open
      PROVE  LocksOf(c, r, holder'[r], tab[c], inbound'[c], Waiting(c)')
  <2>1. LocksOf(c, r, holder[r], tab[c], s, outbound[c])
    BY <1>7, <1>8 DEF LockInv, LocksInv
  <2>2. Head(s) # Unlock(r)
    BY <1>2, InMessages
  <2>3. LocksOf(c, r, holder[r], tab[c], Tail(s), outbound[c])
    BY <1>2, <1>7, <2>1, <2>2, LocksServed
  <2>4. LocksOf(c, r, holder[r], tab[c], Tail(s), Append(outbound[c], Sent(m)))
    BY <1>4, <1>7, <2>3, LocksHear
  <2> QED
    BY <1>1, <1>2, <1>7, <2>4
<1> QED
  BY <1>4, <1>5, <1>6, <1>8, LocksServe

LEMMA Locks_Broadcast ==
  ASSUME LockInv, NEW c \in Tabs, Broadcast(c)
  PROVE  LockInv'
<1> DEFINE m == Sent(cast[c])
<1>1. EditorTypeOK /\ UNCHANGED <<holder, page, inbound, tab, edits, kept, orderly>>
  BY DEF LockInv, Broadcast
<1>2. /\ cast[c] # NoMsg /\ cast[c] \in Outgoing /\ m \in OutMessage
      /\ cast' \in [Tabs -> Outgoing \union {NoMsg}] /\ cast'[c] = NoMsg
      /\ \A d \in Tabs \ {c} : cast'[d] = cast[d]
      /\ outbound' \in [Tabs -> Seq(OutMessage)]
      /\ \A d \in Tabs :
           \/ tab[d].open /\ outbound'[d] = Append(outbound[d], m)
           \/ outbound'[d] = outbound[d] /\ (tab[d].open => d # c)
  BY <1>1, BroadcastFacts
<1>3. EditorTypeOK'
  BY <1>1, <1>2 DEF EditorTypeOK
<1>4. Grants'
  <2> SUFFICES ASSUME NEW d \in Tabs, NEW r \in Rows, NEW u \in Tabs,
                      cast'[d] = LockAcquired(r, u)
               PROVE  u = d /\ holder'[r] = d
    BY DEF Grants
  <2>1. d # c
    BY <1>2, OutgoingMessages
  <2> QED
    BY <1>1, <1>2, <2>1 DEF LockInv, Grants
<1>5. ASSUME NEW d \in Tabs
      PROVE  ClosedOf(tab'[d], outbound'[d])
  BY <1>1, <1>2 DEF LockInv, LocksInv, ClosedOf
<1>6. ASSUME NEW d \in Tabs, tab'[d].open, NEW r \in Rows
      PROVE  LocksOf(d, r, holder'[r], tab'[d], inbound'[d], Waiting(d)')
  <2>1. LocksOf(d, r, holder[r], tab[d], inbound[d], Waiting(d))
    BY <1>1, <1>6 DEF LockInv, LocksInv
  <2>2. outbound[d] \in Seq(OutMessage)
    BY <1>1, TypeFacts
  <2>3. CASE d = c
    <3>1. outbound'[c] = Append(outbound[c], m)
      BY <1>1, <1>2, <1>6, <2>3
    <3>2. Waiting(c)' = Waiting(c)
      BY <1>2, <3>1 DEF Waiting
    <3> QED
      BY <1>1, <2>1, <2>3, <3>2
  <2>4. CASE d # c /\ outbound'[d] = outbound[d]
    <3>1. Waiting(d)' = Waiting(d)
      BY <1>2, <2>4 DEF Waiting
    <3> QED
      BY <1>1, <2>1, <3>1
  <2>5. CASE d # c /\ outbound'[d] = Append(outbound[d], m)
    <3>1. m # LockAcquired(r, d)
      BY <1>2, <2>5, SentFacts DEF LockInv, Grants
    <3>2. CASE cast[d] = NoMsg
      <4>1. Waiting(d) = outbound[d] /\ Waiting(d)' = Append(outbound[d], m)
        BY <1>2, <2>5, <3>2 DEF Waiting
      <4> QED
        BY <1>1, <1>2, <2>1, <2>2, <3>1, <4>1, LocksHear
    <3>3. CASE cast[d] # NoMsg
      <4>1. /\ Sent(cast[d]) \in OutMessage
            /\ Waiting(d) = Append(outbound[d], Sent(cast[d]))
        BY <1>1, <3>3, WaitingFacts
      <4>2. Waiting(d)' = Append(Append(outbound[d], m), Sent(cast[d]))
        BY <1>2, <2>5, <3>3 DEF Waiting
      <4> QED
        BY <1>1, <1>2, <2>1, <2>2, <3>1, <4>1, <4>2, LocksInsert
    <3> QED
      BY <3>2, <3>3
  <2> QED
    BY <1>2, <2>3, <2>4, <2>5
<1> QED
  BY <1>3, <1>4, <1>5, <1>6 DEF LockInv, LocksInv

LEMMA Locks_Receive ==
  ASSUME LockInv, NEW d \in Tabs, Receive(d)
  PROVE  LockInv'
<1> DEFINE q == outbound[d]
           t == tab[d]
<1>1. EditorTypeOK /\ UNCHANGED <<holder, page, inbound, cast, edits, kept, orderly>>
  BY DEF LockInv, Receive
<1>2. /\ q \in Seq(OutMessage) /\ q # <<>>
      /\ outbound' \in [Tabs -> Seq(OutMessage)]
      /\ outbound'[d] = Tail(q)
      /\ \A e \in Tabs \ {d} : outbound'[e] = outbound[e]
  BY <1>1, ReceiveFacts
<1>3. PICK u \in Tab : /\ u.timed \subseteq u.page.rows
                       /\ tab' = [tab EXCEPT ![d] = u]
                       /\ Reads(d, t, u, Head(q))
  BY <1>1, ReceiveFacts
<1>4. /\ tab' \in [Tabs -> Tab] /\ tab'[d] = u
      /\ \A e \in Tabs : tab'[e].timed \subseteq tab'[e].page.rows
      /\ \A e \in Tabs \ {d} : tab'[e] = tab[e]
  BY <1>1, <1>3, TabUpdate
<1>5. t.open /\ u.open /\ u.active = t.active
  <2>1. t.open \in BOOLEAN
    BY <1>1, TypeFacts, TabFacts
  <2>2. t.open
    BY <1>2, <2>1 DEF LockInv, LocksInv, ClosedOf
  <2> QED
    BY <1>3, <2>2 DEF Reads
<1>6. EditorTypeOK'
  BY <1>1, <1>2, <1>4 DEF EditorTypeOK
<1>7. Grants'
  BY <1>1 DEF LockInv, Grants
<1>8. ASSUME NEW e \in Tabs
      PROVE  ClosedOf(tab'[e], outbound'[e])
  <2>1. CASE e = d
    BY <1>4, <1>5, <2>1 DEF ClosedOf
  <2>2. CASE e # d
    BY <1>2, <1>4, <2>2 DEF LockInv, LocksInv
  <2> QED
    BY <2>1, <2>2
<1>9. ASSUME NEW e \in Tabs, tab'[e].open, NEW r \in Rows
      PROVE  LocksOf(e, r, holder'[r], tab'[e], inbound'[e], Waiting(e)')
  <2>1. CASE e = d
    <3>1. LocksOf(d, r, holder[r], t, inbound[d], Waiting(d))
      BY <1>5 DEF LockInv, LocksInv
    <3>2. /\ Waiting(d) \in Seq(OutMessage) /\ Waiting(d) # <<>>
          /\ Head(Waiting(d)) = Head(q) /\ Waiting(d)' = Tail(Waiting(d))
      <4>1. CASE cast[d] = NoMsg
        BY <1>1, <1>2, <4>1 DEF Waiting
      <4>2. CASE cast[d] # NoMsg
        <5>1. /\ Sent(cast[d]) \in OutMessage /\ Waiting(d) \in Seq(OutMessage)
              /\ Waiting(d) = Append(q, Sent(cast[d]))
          BY <1>1, <4>2, WaitingFacts
        <5>2. Waiting(d)' = Append(Tail(q), Sent(cast[d]))
          BY <1>1, <1>2, <4>2 DEF Waiting
        <5>3. ASSUME NEW m \in OutMessage
              PROVE  /\ Append(q, m) # <<>> /\ Head(Append(q, m)) = Head(q)
                     /\ Tail(Append(q, m)) = Append(Tail(q), m)
          BY <1>2, QueueAppendTail
        <5> QED
          BY <5>1, <5>2, <5>3
      <4> QED
        BY <4>1, <4>2
    <3>3. LocksOf(d, r, holder[r], u, inbound[d], Tail(Waiting(d)))
      BY <1>3, <1>5, <3>1, <3>2, LocksReceive DEF Reads
    <3> QED
      BY <1>1, <1>4, <2>1, <3>2, <3>3
  <2>2. CASE e # d
    <3>1. Waiting(e)' = Waiting(e) /\ tab'[e] = tab[e]
      BY <1>1, <1>2, <1>4, <2>2 DEF Waiting
    <3> QED
      BY <1>1, <1>9, <3>1 DEF LockInv, LocksInv
  <2> QED
    BY <2>1, <2>2
<1> QED
  BY <1>6, <1>7, <1>8, <1>9 DEF LockInv, LocksInv

LEMMA Locks_User ==
  ASSUME LockInv, NEW d \in Tabs, UserStep(d)
  PROVE  LockInv'
<1> DEFINE t == tab[d]
           s == inbound[d]
<1>1. /\ EditorTypeOK /\ t.open /\ edits' \in 0..MaxEdits
      /\ UNCHANGED <<holder, page, cast, outbound, kept, orderly>>
  BY DEF LockInv, UserStep
<1>2. PICK u \in Tab, z \in Seq(InMessage) :
        /\ u.timed \subseteq u.page.rows
        /\ tab' = [tab EXCEPT ![d] = u]
        /\ inbound' = [inbound EXCEPT ![d] = z]
        /\ Sends(t, u, s, z)
  BY DEF UserStep
<1>3. /\ tab' \in [Tabs -> Tab] /\ tab'[d] = u
      /\ \A e \in Tabs : tab'[e].timed \subseteq tab'[e].page.rows
      /\ \A e \in Tabs \ {d} : tab'[e] = tab[e]
  BY <1>1, <1>2, TabUpdate
<1>4. /\ inbound' \in [Tabs -> Seq(InMessage)] /\ inbound'[d] = z
      /\ \A e \in Tabs \ {d} : inbound'[e] = inbound[e]
  BY <1>1, <1>2, TypeFacts
<1>5. EditorTypeOK'
  BY <1>1, <1>3, <1>4 DEF EditorTypeOK
<1>6. Grants'
  BY <1>1 DEF LockInv, Grants
<1>7. \A e \in Tabs : Waiting(e)' = Waiting(e) /\ Waiting(e) \in Seq(OutMessage)
  BY <1>1, WaitingFacts DEF Waiting
<1>8. ASSUME NEW e \in Tabs
      PROVE  ClosedOf(tab'[e], outbound'[e])
  <2>1. CASE e = d
    BY <1>1, <1>2, <1>3, <2>1 DEF ClosedOf, Sends
  <2>2. CASE e # d
    BY <1>1, <1>3, <2>2 DEF LockInv, LocksInv
  <2> QED
    BY <2>1, <2>2
<1>9. ASSUME NEW e \in Tabs, tab'[e].open, NEW r \in Rows
      PROVE  LocksOf(e, r, holder'[r], tab'[e], inbound'[e], Waiting(e)')
  <2>1. CASE e = d
    <3>1. LocksOf(d, r, holder[r], t, s, Waiting(d))
      BY <1>1 DEF LockInv, LocksInv
    <3>2. LocksOf(d, r, holder[r], u, z, Waiting(d))
      BY <1>2, <1>7, <3>1, LocksSend DEF Sends
    <3> QED
      BY <1>1, <1>3, <1>4, <1>7, <2>1, <3>2
  <2>2. CASE e # d
    BY <1>1, <1>3, <1>4, <1>7, <1>9, <2>2 DEF LockInv, LocksInv
  <2> QED
    BY <2>1, <2>2
<1> QED
  BY <1>5, <1>6, <1>8, <1>9 DEF LockInv, LocksInv

LEMMA CloseFacts ==
  ASSUME EditorTypeOK, NEW d \in Tabs, Close(d)
  PROVE  /\ UNCHANGED <<holder, page, inbound, cast, edits, kept, orderly>>
         /\ tab' \in [Tabs -> Tab] /\ outbound' \in [Tabs -> Seq(OutMessage)]
         /\ \A e \in Tabs : tab'[e].timed \subseteq tab'[e].page.rows
         /\ ~tab'[d].open /\ tab'[d].renewing = {} /\ outbound'[d] = <<>>
         /\ \A r \in Rows : tab'[d].locks[r] = NoTab
         /\ \A e \in Tabs \ {d} : tab'[e] = tab[e] /\ outbound'[e] = outbound[e]
<1> DEFINE u == [NewTab EXCEPT !.open = FALSE]
<1>1. /\ u \in Tab /\ ~u.open /\ u.timed = {} /\ u.renewing = {}
      /\ \A r \in Rows : u.locks[r] = NoTab
  <2>1. NewTab \in Tab /\ NewTab.timed = {} /\ NewTab.renewing = {}
        /\ \A r \in Rows : NewTab.locks[r] = NoTab
    BY NewTabFacts
  <2> HIDE DEF u
  <2> QED
    BY <2>1 DEF Tab, u
<1>2. tab' = [tab EXCEPT ![d] = u] /\ outbound' = [outbound EXCEPT ![d] = <<>>]
      /\ UNCHANGED <<holder, page, inbound, cast, edits, kept, orderly>>
  BY DEF Close
<1> HIDE DEF u
<1>3. /\ tab' \in [Tabs -> Tab] /\ tab'[d] = u
      /\ \A e \in Tabs : tab'[e].timed \subseteq tab'[e].page.rows
      /\ \A e \in Tabs \ {d} : tab'[e] = tab[e]
  BY <1>1, <1>2, TabUpdate
<1>4. <<>> \in Seq(OutMessage)
  OBVIOUS
<1>5. /\ outbound' \in [Tabs -> Seq(OutMessage)] /\ outbound'[d] = <<>>
      /\ \A e \in Tabs \ {d} : outbound'[e] = outbound[e]
  BY <1>2, <1>4, TypeFacts
<1> QED
  BY <1>1, <1>2, <1>3, <1>5

LEMMA Locks_Close ==
  ASSUME LockInv, NEW d \in Tabs, Close(d)
  PROVE  LockInv'
<1>1. /\ EditorTypeOK /\ UNCHANGED <<holder, page, inbound, cast, edits, kept, orderly>>
      /\ tab' \in [Tabs -> Tab] /\ outbound' \in [Tabs -> Seq(OutMessage)]
      /\ \A e \in Tabs : tab'[e].timed \subseteq tab'[e].page.rows
      /\ ~tab'[d].open /\ tab'[d].renewing = {} /\ outbound'[d] = <<>>
      /\ \A r \in Rows : tab'[d].locks[r] = NoTab
      /\ \A e \in Tabs \ {d} : tab'[e] = tab[e] /\ outbound'[e] = outbound[e]
  BY CloseFacts DEF LockInv
<1>2. EditorTypeOK' /\ Grants'
  BY <1>1 DEF EditorTypeOK, LockInv, Grants
<1>3. ASSUME NEW e \in Tabs
      PROVE  ClosedOf(tab'[e], outbound'[e])
  BY <1>1 DEF ClosedOf, LockInv, LocksInv
<1>4. ASSUME NEW e \in Tabs, tab'[e].open, NEW r \in Rows
      PROVE  LocksOf(e, r, holder'[r], tab'[e], inbound'[e], Waiting(e)')
  <2>1. e # d
    BY <1>1, <1>4
  <2>2. Waiting(e)' = Waiting(e) /\ tab'[e] = tab[e]
    BY <1>1, <2>1 DEF Waiting
  <2> QED
    BY <1>1, <1>4, <2>2 DEF LockInv, LocksInv
<1> QED
  BY <1>2, <1>3, <1>4 DEF LockInv, LocksInv

LEMMA LocksStep ==
  ASSUME LockInv, [EditorNext]_vars
  PROVE  LockInv'
<1>1. ASSUME NEW d \in Tabs, User(d)
      PROVE  LockInv'
  BY <1>1, UserIsStep, Locks_User, Locks_Close DEF LockInv
<1>2. ASSUME NEW c \in Tabs, Serve(c)
      PROVE  LockInv'
  BY <1>2, Locks_LockRow, Locks_UnlockRow, Locks_UpdatePage, Locks_ReleaseOnClose
     DEF Serve
<1>3. CASE UNCHANGED vars
  <2>1. \A d \in Tabs : Waiting(d)' = Waiting(d)
    BY <1>3 DEF vars, Waiting
  <2> QED
    BY <1>3, <2>1 DEF vars, LockInv, EditorTypeOK, Grants, LocksInv
<1> QED
  BY <1>1, <1>2, <1>3, Locks_Broadcast, Locks_Receive, Locks_Expire DEF EditorNext

--------------------------------------------------------------------------------
(* Every step keeps the order of messages, or makes orderly FALSE *)

LEMMA AnnouncedFacts ==
  ASSUME EditorTypeOK
  PROVE  /\ page \in Page /\ page.version \in Nat /\ page.version >= 1
         /\ Announced \in Nat /\ Announced <= page.version
         /\ IF \E c \in Tabs : Stored(c) THEN page.version = Announced + 1
            ELSE page.version = Announced
<1>1. page \in Page /\ page.version \in Nat \ {0}
  BY TypeFacts, PageFacts
<1> QED
  BY <1>1 DEF Announced

\* What OrderedInv says of a tab, and of the edits of one saver.
LEMMA OrderFacts ==
  ASSUME EditorTypeOK, OrderedInv
  PROVE  /\ \A d \in Tabs :
              /\ NotLater(page.version, inbound[d])
              /\ tab[d].open => Ordered(Announced, tab[d], outbound[d])
         /\ \A c \in Tabs, r \in Rows : \E n \in Nat : KeptSince(c, r, n)
         /\ \A d \in Tabs : /\ inbound[d] \in Seq(InMessage)
                            /\ outbound[d] \in Seq(OutMessage)
                            /\ tab[d].page.version \in Nat
<1>1. \A c \in Tabs, r \in Rows : \E n \in Nat : KeptSince(c, r, n)
  BY AnnouncedFacts DEF OrderedInv, KeptInv
<1>2. \A d \in Tabs : tab[d].page.version \in Nat
  BY TypeFacts, TabFacts
<1> QED
  BY <1>1, <1>2, TypeFacts DEF OrderedInv, VersionsInv

LEMMA KeptBy ==
  ASSUME EditorTypeOK, NEW c \in Tabs, NEW r \in Rows, NEW n \in Nat, KeptSince(c, r, n)
  PROVE  \E m \in 0..page.version : KeptSince(c, r, m)
<1>1. n \in 0..page.version
  BY AnnouncedFacts DEF KeptSince
<1> QED
  BY <1>1

\* z has messages of s only.
Fewer(z, s) == \A i \in DOMAIN z : \E j \in DOMAIN s : z[i] = s[j]

LEMMA FewerFacts ==
  ASSUME NEW s, NEW z, Fewer(z, s), NEW r, NEW n, NEW k, NEW v
  PROVE  /\ NotLater(v, s) => NotLater(v, z)
         /\ SavesOf(r, n, k, s) => SavesOf(r, n, k, z)
BY DEF Fewer, NotLater, SavesOf

LEMMA FewerTail ==
  ASSUME NEW s \in Seq(InMessage), s # <<>>
  PROVE  Fewer(Tail(s), s)
BY QueueTail DEF Fewer

\* The server stores nothing.
LEMMA OrderServe ==
  ASSUME LockInv, OrderedInv, EditorTypeOK', InOrder', NEW c \in Tabs, ServerStep(c),
         UNCHANGED <<page, kept>>, Announced' = Announced, Fewer(inbound'[c], inbound[c]),
         \A x \in Tabs, r \in Rows :
           Stored(x) /\ holder[r] = x => Stored(x)' /\ holder'[r] = x,
         \A r \in Rows : cast'[c] = LockAcquired(r, c) =>
           cast[c] = LockAcquired(r, c) \/ holder[r] = NoTab
  PROVE  OrderedInv'
<1>1. EditorTypeOK
  BY DEF LockInv
<1>2. \A d \in Tabs : Fewer(inbound'[d], inbound[d])
  BY DEF ServerStep, Fewer
<1>3. UNCHANGED <<page, kept, outbound, tab>>
  BY DEF ServerStep
<1>4. VersionsInv'
  <2>1. ASSUME NEW d \in Tabs
        PROVE  NotLater(page.version, inbound'[d])
    BY <1>1, <1>2, OrderFacts, FewerFacts
  <2> QED
    BY <1>1, <1>3, <2>1, OrderFacts DEF VersionsInv
<1>5. ASSUME NEW x \in Tabs, NEW r \in Rows
      PROVE  \E n \in 0..page'.version : KeptSince(x, r, n)'
  <2>1. PICK n \in Nat : KeptSince(x, r, n)
    BY <1>1, OrderFacts
  <2>2. SentOf(x, r, n)'
    BY <2>1 DEF KeptSince, SentOf
  <2>3. ASSUME NEW d \in Tabs \ {x}
        PROVE  SavesOf(r, n, kept[x][r], inbound'[d])
    BY <1>2, <2>1, FewerFacts DEF KeptSince
  <2>4. ASSUME NEW d \in Tabs \ {x}, tab[d].open, cast'[d] = LockAcquired(r, d)
        PROVE  Knows(n, tab[d], outbound[d], Len(outbound[d]) + 1)
    <3>1. CASE cast[d] = LockAcquired(r, d)
      BY <2>1, <2>4, <3>1 DEF KeptSince, KnowsOf
    <3>2. CASE cast[d] # LockAcquired(r, d)
      <4>1. d = c /\ holder[r] = NoTab
        BY <2>4, <3>2 DEF ServerStep
      <4>2. n <= Announced
        BY <2>1, <4>1 DEF KeptSince, SentOf
      <4> QED
        BY <1>1, <2>4, <4>2, AnnouncedFacts, OrderFacts, KnowsAll
    <3> QED
      BY <3>1, <3>2
  <2>5. KeptSince(x, r, n)'
    BY <1>3, <2>1, <2>2, <2>3, <2>4 DEF KeptSince, KnowsOf
  <2>6. n <= page.version
    BY <2>1 DEF KeptSince
  <2> QED
    BY <1>1, <1>3, <2>5, <2>6, AnnouncedFacts
<1> QED
  BY <1>4, <1>5 DEF OrderedInv, KeptInv

\* Who sends a lock message sends no page.
LEMMA LockIsNoPage ==
  ASSUME NEW c \in Tabs
  PROVE  /\ cast[c] = NoMsg => ~Sending(c) /\ ~Stored(c)
         /\ \A r \in Rows : cast[c] = LockReleased(r) => ~Sending(c) /\ ~Stored(c)
         /\ \A r \in Rows, u \in Tabs :
              cast[c] = LockAcquired(r, u) => ~Sending(c) /\ ~Stored(c)
         /\ Stored(c) => Sending(c)
<1>1. /\ \A r \in Rows : LockReleased(r).type = "lock_released"
      /\ \A r \in Rows, u \in Tabs : LockAcquired(r, u).type = "lock_acquired"
  BY DEF LockReleased, LockAcquired
<1> QED
  BY <1>1 DEF Sending, Stored

\* A lock message takes the place of no announcement, or nothing is sent.
LEMMA OrderLocks ==
  ASSUME LockInv, OrderedInv, EditorTypeOK', NEW c \in Tabs, ServerStep(c),
         UNCHANGED <<page, kept>>, Fewer(inbound'[c], inbound[c]),
         Sending(c)' => cast'[c] = cast[c], Sending(c) => cast'[c] = cast[c],
         \A e \in Tabs, r \in Rows : cast'[e] = LockReleased(r) => holder'[r] = NoTab,
         \A x \in Tabs, r \in Rows : Stored(x) /\ holder[r] = x => holder'[r] = x,
         \A r \in Rows : cast'[c] = LockAcquired(r, c) =>
           cast[c] = LockAcquired(r, c) \/ holder[r] = NoTab
  PROVE  OrderedInv'
<1>1. ASSUME NEW e \in Tabs
      PROVE  /\ Sending(e)' <=> Sending(e)
             /\ Stored(e)' <=> Stored(e)
             /\ Sending(e) => cast'[e] = cast[e]
  <2>1. CASE e = c
    BY <2>1 DEF Sending, Stored
  <2>2. CASE e # c
    BY <2>2 DEF Sending, Stored, ServerStep
  <2> QED
    BY <2>1, <2>2
<1>2. Announced' = Announced
  BY <1>1 DEF Announced
<1>3. InOrder'
  <2>1. InOrder
    BY DEF OrderedInv
  <2>2. \A e, f \in Tabs : Sending(e)' /\ Sending(f)' => e = f
    BY <1>1, <2>1 DEF InOrder
  <2>3. \A e \in Tabs : Sending(e)' => cast'[e].page = page'
    BY <1>1, <2>1 DEF InOrder
  <2> QED
    BY <2>2, <2>3 DEF InOrder
<1>4. \A x \in Tabs, r \in Rows :
        Stored(x) /\ holder[r] = x => Stored(x)' /\ holder'[r] = x
  BY <1>1
<1> QED
  BY <1>2, <1>3, <1>4, OrderServe

LEMMA Order_LockRow ==
  ASSUME LockInv, OrderedInv, NEW c \in Tabs, LockRow(c), LockInv', orderly'
  PROVE  OrderedInv'
<1> DEFINE s == inbound[c]
           x == Head(s).row
<1>1. EditorTypeOK /\ EditorTypeOK' /\ Take(c, "lock") /\ UNCHANGED <<page, outbound, tab, kept>>
  BY DEF LockInv, LockRow
<1>2. /\ cast[c] = NoMsg /\ s \in Seq(InMessage) /\ s # <<>>
      /\ Head(s) \in InMessage /\ Head(s).type = "lock"
      /\ inbound'[c] = Tail(s) /\ \A d \in Tabs \ {c} : inbound'[d] = inbound[d]
  BY <1>1, TakeFacts
<1>3. x \in Rows /\ Fewer(inbound'[c], inbound[c])
  BY <1>2, InMessageKinds, FewerTail
<1>4. \A e \in Tabs, r \in Rows : cast[e] = LockReleased(r) => holder[r] = NoTab
  BY DEF OrderedInv, InOrder
<1>5. CASE holder[x] # NoTab /\ UNCHANGED <<holder, cast, orderly>>
  <2>1. ServerStep(c)
    BY <1>1, <1>2, <1>5 DEF ServerStep
  <2> QED
    BY <1>1, <1>3, <1>4, <1>5, <2>1, OrderLocks
<1>6. CASE /\ holder[x] = NoTab /\ holder' = [holder EXCEPT ![x] = c]
           /\ Announce(c, LockAcquired(x, c))
           /\ orderly' = (orderly /\ ~Releasing(x))
  <2>1. LockAcquired(x, c) \in Outgoing
    BY <1>3, OutgoingMessages
  <2>2. /\ cast'[c] = LockAcquired(x, c)
        /\ \A d \in Tabs \ {c} : cast'[d] = cast[d]
    BY <1>1, <1>6, <2>1, AnnounceFacts
  <2>3. holder'[x] = c /\ \A r \in Rows \ {x} : holder'[r] = holder[r]
    BY <1>1, <1>3, <1>6, TypeFacts
  <2>4. ServerStep(c)
    BY <1>1, <1>2, <1>3, <1>6, <2>2, <2>3 DEF ServerStep
  <2>5. ~Sending(c)' /\ ~Sending(c)
    BY <1>2, <1>3, <2>2, LockMessages DEF Sending
  <2>6. \A e \in Tabs : cast[e] # LockReleased(x)
    BY <1>6 DEF Releasing
  <2>7. ASSUME NEW e \in Tabs, NEW r \in Rows, cast'[e] = LockReleased(r)
        PROVE  holder'[r] = NoTab
    <3>1. e # c
      BY <1>3, <2>2, <2>7, LockMessages
    <3>2. cast[e] = LockReleased(r)
      BY <2>2, <2>7, <3>1
    <3> QED
      BY <1>4, <2>3, <2>6, <3>2
  <2>8. ASSUME NEW y \in Tabs, NEW r \in Rows, holder[r] = y
        PROVE  holder'[r] = y
    BY <1>6, <2>3, <2>8
  <2>9. \A r \in Rows : cast'[c] = LockAcquired(r, c) => holder[r] = NoTab
    BY <1>3, <1>6, <2>2, LockMessages
  <2> QED
    BY <1>1, <1>3, <2>4, <2>5, <2>7, <2>8, <2>9, OrderLocks
<1> QED
  BY <1>5, <1>6 DEF LockRow

LEMMA Order_FreeRow ==
  ASSUME LockInv, OrderedInv, EditorTypeOK', NEW c \in Tabs, NEW x \in Rows,
         FreeRow(c, x), cast[c] = NoMsg, Fewer(inbound'[c], inbound[c]),
         \A d \in Tabs \ {c} : inbound'[d] = inbound[d],
         UNCHANGED <<page, outbound, tab, kept>>
  PROVE  OrderedInv'
<1>1. EditorTypeOK /\ LockReleased(x) \in Outgoing
  BY OutgoingMessages DEF LockInv
<1>2. /\ cast'[c] = LockReleased(x)
      /\ \A d \in Tabs \ {c} : cast'[d] = cast[d]
  BY <1>1, AnnounceFacts DEF FreeRow
<1>3. /\ holder[x] = c
      /\ holder'[x] = NoTab /\ \A r \in Rows \ {x} : holder'[r] = holder[r]
  BY <1>1, TypeFacts DEF FreeRow
<1>4. ServerStep(c)
  BY <1>2, <1>3 DEF ServerStep
<1>5. ~Sending(c)' /\ ~Sending(c) /\ ~Stored(c)
  BY <1>2, LockMessages DEF Sending, Stored
<1>6. \A e \in Tabs, r \in Rows : cast'[e] = LockReleased(r) => holder'[r] = NoTab
  <2> SUFFICES ASSUME NEW e \in Tabs, NEW r \in Rows, cast'[e] = LockReleased(r)
               PROVE  holder'[r] = NoTab
    OBVIOUS
  <2>1. CASE e = c
    BY <1>2, <1>3, <2>1, LockMessages
  <2>2. CASE e # c
    <3>1. holder[r] = NoTab
      BY <1>2, <2>2 DEF OrderedInv, InOrder
    <3> QED
      BY <1>3, <3>1
  <2> QED
    BY <2>1, <2>2
<1>7. \A y \in Tabs, r \in Rows : Stored(y) /\ holder[r] = y => holder'[r] = y
  BY <1>3, <1>5
<1>8. \A r \in Rows : cast'[c] # LockAcquired(r, c)
  BY <1>2, LockMessages
<1> QED
  BY <1>4, <1>5, <1>6, <1>7, <1>8, OrderLocks

LEMMA Order_UnlockRow ==
  ASSUME LockInv, OrderedInv, NEW c \in Tabs, UnlockRow(c), LockInv'
  PROVE  OrderedInv'
<1> DEFINE s == inbound[c]
           x == Head(s).row
<1>1. EditorTypeOK /\ EditorTypeOK' /\ Take(c, "unlock")
      /\ UNCHANGED <<page, outbound, tab, kept>>
  BY DEF LockInv, UnlockRow
<1>2. /\ cast[c] = NoMsg /\ s \in Seq(InMessage) /\ s # <<>>
      /\ Head(s) \in InMessage /\ Head(s).type = "unlock"
      /\ inbound'[c] = Tail(s) /\ \A d \in Tabs \ {c} : inbound'[d] = inbound[d]
  BY <1>1, TakeFacts
<1>3. x \in Rows /\ Fewer(inbound'[c], inbound[c])
  BY <1>2, InMessageKinds, FewerTail
<1>4. CASE FreeRow(c, x)
  BY <1>1, <1>2, <1>3, <1>4, Order_FreeRow
<1>5. CASE UNCHANGED <<holder, cast>>
  <2>1. ServerStep(c)
    BY <1>1, <1>2, <1>5 DEF ServerStep
  <2>2. \A e \in Tabs, r \in Rows : cast[e] = LockReleased(r) => holder[r] = NoTab
    BY DEF OrderedInv, InOrder
  <2> QED
    BY <1>1, <1>3, <1>5, <2>1, <2>2, OrderLocks
<1> QED
  BY <1>4, <1>5 DEF UnlockRow

LEMMA Order_ReleaseOnClose ==
  ASSUME LockInv, OrderedInv, NEW c \in Tabs, NEW r \in Rows, ReleaseOnClose(c, r),
         LockInv'
  PROVE  OrderedInv'
<1>1. /\ FreeRow(c, r) /\ cast[c] = NoMsg /\ EditorTypeOK'
      /\ UNCHANGED <<page, inbound, outbound, tab, kept>>
  BY DEF ReleaseOnClose, LockInv
<1>2. Fewer(inbound'[c], inbound[c])
  BY <1>1 DEF Fewer
<1> QED
  BY <1>1, <1>2, Order_FreeRow

LEMMA Order_Expire ==
  ASSUME LockInv, OrderedInv, NEW x \in Rows, Expire(x), LockInv', orderly'
  PROVE  OrderedInv'
<1>1. PICK c \in Tabs : holder[x] = c
  BY DEF Expire
<1>2. /\ EditorTypeOK /\ EditorTypeOK'
      /\ UNCHANGED <<page, inbound, cast, outbound, tab, kept>> /\ ~Publishing
  BY DEF Expire, LockInv
<1>3. holder'[x] = NoTab /\ \A r \in Rows \ {x} : holder'[r] = holder[r]
  BY <1>2, TypeFacts DEF Expire
<1>4. ServerStep(c)
  BY <1>1, <1>2, <1>3 DEF ServerStep
<1>5. \A y \in Tabs : ~Stored(y)
  BY <1>2 DEF Publishing, Stored
<1>6. \A e \in Tabs, r \in Rows : cast[e] = LockReleased(r) => holder'[r] = NoTab
  BY <1>3 DEF OrderedInv, InOrder
<1>7. Fewer(inbound'[c], inbound[c])
  BY <1>2 DEF Fewer
<1> QED
  BY <1>2, <1>4, <1>5, <1>6, <1>7, OrderLocks

\* On a conflict: the page goes back to c alone.
LEMMA Order_Conflict ==
  ASSUME LockInv, OrderedInv, EditorTypeOK', NEW c \in Tabs, ServerStep(c),
         UNCHANGED <<holder, page, kept>>, Fewer(inbound'[c], inbound[c]), ~Publishing,
         cast'[c] = Answer(page)
  PROVE  OrderedInv'
<1>1. \A e \in Tabs : ~Stored(e) /\ ~Sending(e)
  BY DEF Publishing, Stored, Sending
<1>2. page \in Page
  BY TypeFacts DEF LockInv
<1>3. /\ Answer(page).type = "answer" /\ Answer(page).page = page
      /\ \A r \in Rows : Answer(page) # LockReleased(r)
      /\ \A r \in Rows : Answer(page) # LockAcquired(r, c)
  BY <1>2, OutgoingMessages
<1>4. \A e \in Tabs : ~Stored(e)' /\ (Sending(e)' => e = c)
  BY <1>1, <1>3 DEF Stored, Sending, ServerStep
<1>5. Announced' = Announced
  BY <1>1, <1>4 DEF Announced
<1>6. InOrder'
  <2>1. \A e \in Tabs, r \in Rows : cast'[e] = LockReleased(r) => holder'[r] = NoTab
    BY <1>3 DEF ServerStep, OrderedInv, InOrder
  <2>2. \A e \in Tabs : Sending(e)' => cast'[e].page = page'
    BY <1>3, <1>4
  <2>3. \A e, f \in Tabs : Sending(e)' /\ Sending(f)' => e = f
    BY <1>4
  <2> QED
    BY <2>1, <2>2, <2>3 DEF InOrder
<1> QED
  BY <1>1, <1>3, <1>5, <1>6, OrderServe

\* c stores a page: nobody has sent its version, or a later one.
LEMMA Order_Store ==
  ASSUME LockInv, OrderedInv, EditorTypeOK', NEW c \in Tabs, ServerStep(c),
         UNCHANGED holder, inbound[c] # <<>>, inbound'[c] = Tail(inbound[c]),
         ~Publishing, NEW p, p = Head(inbound[c]).page,
         Head(inbound[c]).type = "page_update", p.version = page.version, Store(c, p)
  PROVE  OrderedInv'
<1> DEFINE v == page.version
<1>1. EditorTypeOK /\ inbound[c] \in Seq(InMessage)
  BY TypeFacts DEF LockInv
<1>2. /\ 1 \in DOMAIN inbound[c] /\ inbound[c][1] = Head(inbound[c])
      /\ Head(inbound[c]) \in InMessage /\ p \in Page
  BY <1>1, QueueTail, InMessageKinds
<1>3. /\ page' \in Page /\ page'.version = v + 1 /\ page'.text = p.text
      /\ cast'[c] = PageUpdated(page')
      /\ \A d \in Tabs \ {c} : cast'[d] = cast[d] /\ kept'[d] = kept[d]
      /\ \A r \in Rows :
           IF holder[r] = c THEN kept'[c][r] = p.text[r]
           ELSE kept'[c][r] = kept[c][r] \intersect p.text[r]
  BY <1>1, <1>2, StoreFacts
<1>4. \A e \in Tabs : ~Stored(e) /\ ~Sending(e)
  BY DEF Publishing, Stored, Sending
<1>5. v \in Nat /\ Announced = v
  BY <1>1, <1>4, AnnouncedFacts
<1>6. /\ PageUpdated(page').type = "page_updated" /\ PageUpdated(page').page = page'
      /\ PageUpdated(page') # NoMsg
      /\ \A r \in Rows : PageUpdated(page') # LockReleased(r)
      /\ \A r \in Rows, u \in Tabs : PageUpdated(page') # LockAcquired(r, u)
  <2>1. PageUpdated(page') \in OutMessage
    BY <1>3, PageMessages
  <2>2. PageUpdated(page') # NoMsg
    BY <2>1, OutgoingMessages
  <2> QED
    BY <1>3, <2>2, PageMessages
<1>7. Stored(c)' /\ \A e \in Tabs : Sending(e)' => e = c
  BY <1>3, <1>4, <1>6 DEF Stored, Sending
<1>8. Announced' = v
  BY <1>3, <1>5, <1>7 DEF Announced
<1>9. InOrder'
  <2>1. \A e \in Tabs, r \in Rows : cast'[e] = LockReleased(r) => holder'[r] = NoTab
    BY <1>3, <1>6 DEF OrderedInv, InOrder
  <2>2. \A e \in Tabs : Sending(e)' => cast'[e].page = page'
    BY <1>3, <1>6, <1>7
  <2>3. \A e, f \in Tabs : Sending(e)' /\ Sending(f)' => e = f
    BY <1>7
  <2> QED
    BY <2>1, <2>2, <2>3 DEF InOrder
<1>10. \A d \in Tabs : Fewer(inbound'[d], inbound[d])
  <2>1. Fewer(Tail(inbound[c]), inbound[c]) /\ \A d \in Tabs : Fewer(inbound[d], inbound[d])
    BY <1>1, FewerTail DEF Fewer
  <2> QED
    BY <2>1 DEF ServerStep
<1>11. ASSUME NEW d \in Tabs
       PROVE  /\ inbound'[d] \in Seq(InMessage)
              /\ \A i \in DOMAIN inbound'[d] : inbound'[d][i].type = "page_update" =>
                   /\ inbound'[d][i].page.version \in Nat
                   /\ inbound'[d][i].page.version <= v
  <2>1. NotLater(v, inbound'[d])
    BY <1>1, <1>10, OrderFacts, FewerFacts
  <2>2. inbound'[d] \in Seq(InMessage)
    BY DEF EditorTypeOK
  <2>3. \A i \in DOMAIN inbound'[d] : inbound'[d][i] \in InMessage
    BY <2>2
  <2>4. \A i \in DOMAIN inbound'[d] :
          inbound'[d][i].type = "page_update" => inbound'[d][i].page.version \in Nat
    BY <2>3, InMessageKinds, PageFacts
  <2> QED
    BY <2>1, <2>2, <2>4 DEF NotLater
<1>12. VersionsInv'
  <2>1. ASSUME NEW d \in Tabs
        PROVE  NotLater(v + 1, inbound'[d])
    BY <1>5, <1>11 DEF NotLater
  <2>2. ASSUME NEW d \in Tabs, tab'[d].open
        PROVE  Ordered(v, tab'[d], outbound'[d])
    BY <1>1, <1>5, <2>2, OrderFacts DEF ServerStep
  <2> QED
    BY <1>3, <1>8, <2>1, <2>2 DEF VersionsInv
<1>13. ASSUME NEW x \in Tabs, NEW r \in Rows
       PROVE  \E n \in Nat : KeptSince(x, r, n)'
  <2>1. PICK n \in Nat : KeptSince(x, r, n)
    BY <1>1, OrderFacts
  \* The saver held r: the version stored is the one to know.
  <2>2. CASE x = c /\ holder[r] = c
    <3>1. PICK w \in Nat : w = v + 1
      BY <1>5
    <3>2. kept'[x][r] \subseteq page'.text[r] /\ w <= page'.version /\ SentOf(x, r, w)'
      BY <1>3, <1>7, <2>2, <3>1 DEF SentOf
    <3>3. ASSUME NEW d \in Tabs \ {x}
          PROVE  SavesOf(r, w, kept'[x][r], inbound'[d])
      <4>1. \A i \in DOMAIN inbound'[d] : inbound'[d][i].type = "page_update" =>
              ~(inbound'[d][i].page.version >= w)
        BY <1>5, <1>11, <3>1
      <4> QED
        BY <4>1 DEF SavesOf, Covers
    <3>4. ASSUME NEW d \in Tabs \ {x}, tab[d].open
          PROVE  /\ NewsOf(d, r, w, kept'[x][r], tab[d], outbound[d])
                 /\ cast[d] # LockAcquired(r, d)
      <4>1. Ordered(v, tab[d], outbound[d]) /\ tab[d].page.version \in Nat
            /\ outbound[d] \in Seq(OutMessage)
        BY <1>1, <1>5, <3>4, OrderFacts
      <4>2. Followed(d, r, tab[d], Waiting(d))
        BY <2>2, <3>4 DEF LockInv, LocksInv, LocksOf
      <4>3. Followed(d, r, tab[d], outbound[d])
        <5>1. CASE cast[d] = NoMsg
          BY <4>2, <5>1 DEF Waiting
        <5>2. CASE cast[d] # NoMsg
          <6>1. cast[d] # LockReleased(r)
            BY <2>2 DEF OrderedInv, InOrder
          <6>2. /\ cast[d] \in Outgoing /\ Sent(cast[d]) \in OutMessage
                /\ Waiting(d) = Append(outbound[d], Sent(cast[d]))
            BY <1>1, <5>2, WaitingFacts
          <6>3. Sent(cast[d]) # LockReleased(r)
            BY <6>1, <6>2, SentFacts
          <6> QED
            BY <4>1, <4>2, <6>2, <6>3, FollowedFront
        <5> QED
          BY <5>1, <5>2
      <4>4. tab[d].page.version < w
        BY <1>5, <3>1, <4>1 DEF Ordered
      <4>5. \A i \in DOMAIN outbound[d] :
              PageAt(outbound[d], i) => outbound[d][i].page.version < w
        <5> SUFFICES ASSUME NEW i \in DOMAIN outbound[d], PageAt(outbound[d], i)
                     PROVE  outbound[d][i].page.version < w
          OBVIOUS
        <5>1. outbound[d][i].page.version \in Nat
          BY <4>1, PageVersion
        <5>2. outbound[d][i].page.version <= v
          BY <4>1 DEF Ordered
        <5> QED
          BY <1>5, <3>1, <5>1, <5>2
      <4>6. cast[d] # LockAcquired(r, d)
        BY <2>2 DEF LockInv, Grants
      <4> QED
        BY <4>1, <4>3, <4>4, <4>5, <4>6, NewsStored
    <3>5. KeptSince(x, r, w)'
      BY <1>3, <2>2, <3>2, <3>3, <3>4 DEF KeptSince, KnowsOf, ServerStep
    <3> QED
      BY <3>5
  \* Otherwise what was kept is in the page stored.
  <2>3. CASE ~(x = c /\ holder[r] = c)
    <3>1. /\ kept'[x][r] \subseteq kept[x][r]
          /\ x = c => kept'[x][r] \subseteq p.text[r]
      BY <1>3, <2>3
    <3>2. n <= v
      BY <2>1 DEF KeptSince
    <3>3. kept'[x][r] \subseteq page'.text[r]
      <4>1. CASE x = c
        BY <1>3, <3>1, <4>1
      <4>2. CASE x # c
        <5>1. Covers(n, r, kept[x][r], p)
          BY <1>2, <2>1, <4>2 DEF KeptSince, SavesOf
        <5>2. kept[x][r] \subseteq p.text[r]
          BY <1>5, <3>2, <5>1 DEF Covers
        <5> QED
          BY <1>3, <3>1, <5>2
      <4> QED
        BY <4>1, <4>2
    <3>4. n <= page'.version /\ SentOf(x, r, n)'
      BY <1>3, <1>5, <1>8, <3>2 DEF SentOf
    <3>5. ASSUME NEW d \in Tabs \ {x}
          PROVE  SavesOf(r, n, kept'[x][r], inbound'[d])
      <4>1. SavesOf(r, n, kept[x][r], inbound'[d])
        BY <1>10, <2>1, FewerFacts DEF KeptSince
      <4> QED
        BY <3>1, <4>1 DEF SavesOf, Covers
    <3>6. ASSUME NEW d \in Tabs \ {x}, tab[d].open
          PROVE  /\ NewsOf(d, r, n, kept'[x][r], tab[d], outbound[d])
                 /\ KnowsOf(d, r, n, cast'[d], tab[d], outbound[d])
      <4>1. NewsOf(d, r, n, kept'[x][r], tab[d], outbound[d])
        BY <2>1, <3>1, <3>6, NewsFewer DEF KeptSince
      <4>2. KnowsOf(d, r, n, cast'[d], tab[d], outbound[d])
        BY <1>3, <1>6, <2>1, <3>6 DEF KeptSince, KnowsOf
      <4> QED
        BY <4>1, <4>2
    <3>7. KeptSince(x, r, n)'
      BY <3>3, <3>4, <3>5, <3>6 DEF KeptSince, ServerStep
    <3> QED
      BY <3>7
  <2> QED
    BY <2>2, <2>3
<1>14. KeptInv'
  <2>1. ASSUME NEW x \in Tabs, NEW r \in Rows
        PROVE  \E n \in 0..page'.version : KeptSince(x, r, n)'
    <3>1. PICK n \in Nat : KeptSince(x, r, n)'
      BY <1>13
    <3>2. n <= page'.version
      BY <3>1 DEF KeptSince
    <3> QED
      BY <1>3, <1>5, <3>1, <3>2
  <2> QED
    BY <2>1 DEF KeptInv
<1> QED
  BY <1>9, <1>12, <1>14 DEF OrderedInv

LEMMA Order_UpdatePage ==
  ASSUME LockInv, OrderedInv, NEW c \in Tabs, UpdatePage(c), LockInv', orderly'
  PROVE  OrderedInv'
<1> DEFINE s == inbound[c]
           p == Head(s).page
<1>1. /\ EditorTypeOK /\ EditorTypeOK' /\ Take(c, "page_update") /\ ~Publishing
      /\ UNCHANGED <<holder, outbound, tab>> /\ page \in Page
  BY TypeFacts DEF LockInv, UpdatePage
<1>2. /\ s \in Seq(InMessage) /\ s # <<>>
      /\ Head(s) \in InMessage /\ Head(s).type = "page_update"
      /\ inbound'[c] = Tail(s) /\ \A d \in Tabs \ {c} : inbound'[d] = inbound[d]
  BY <1>1, TakeFacts
<1>3. p \in Page /\ Fewer(inbound'[c], inbound[c])
  BY <1>2, InMessageKinds, FewerTail
<1>4. CASE p.version = page.version /\ Store(c, p)
  <2>1. \A d \in Tabs \ {c} : cast'[d] = cast[d]
    BY <1>1, <1>3, <1>4, StoreFacts
  <2>2. ServerStep(c)
    BY <1>1, <1>2, <2>1 DEF ServerStep
  <2> QED
    BY <1>1, <1>2, <1>4, <2>2, Order_Store
<1>5. CASE Announce(c, Answer(page)) /\ UNCHANGED <<page, kept>>
  <2>1. cast'[c] = Answer(page) /\ \A d \in Tabs \ {c} : cast'[d] = cast[d]
    BY <1>1, <1>5, OutgoingMessages, AnnounceFacts
  <2>2. ServerStep(c)
    BY <1>1, <1>2, <2>1 DEF ServerStep
  <2> QED
    BY <1>1, <1>3, <1>5, <2>1, <2>2, Order_Conflict
<1> QED
  BY <1>4, <1>5 DEF UpdatePage

LEMMA Order_Broadcast ==
  ASSUME LockInv, OrderedInv, NEW c \in Tabs, Broadcast(c)
  PROVE  OrderedInv'
<1> DEFINE m == cast[c]
           sm == Sent(m)
<1>1. EditorTypeOK /\ UNCHANGED <<holder, page, inbound, tab, kept>>
  BY DEF LockInv, Broadcast
<1>2. /\ m # NoMsg /\ m \in Outgoing /\ sm \in OutMessage /\ cast'[c] = NoMsg
      /\ \A d \in Tabs \ {c} : cast'[d] = cast[d]
      /\ \A d \in Tabs :
           IF tab[d].open /\ (d = c \/ m.type # "answer")
           THEN outbound'[d] = Append(outbound[d], sm)
           ELSE outbound'[d] = outbound[d]
  BY <1>1, BroadcastFacts
<1>3. \A e \in Tabs : /\ Sending(e)' <=> Sending(e) /\ e # c
                      /\ Stored(e)' <=> Stored(e) /\ e # c
  BY <1>2 DEF Sending, Stored
<1>4. InOrder'
  <2>1. \A e, f \in Tabs : Sending(e)' /\ Sending(f)' => e = f
    BY <1>3 DEF OrderedInv, InOrder
  <2>2. \A e \in Tabs : Sending(e)' => cast'[e].page = page'
    BY <1>1, <1>2, <1>3 DEF OrderedInv, InOrder
  <2>3. \A e \in Tabs, r \in Rows : cast'[e] = LockReleased(r) => holder'[r] = NoTab
    BY <1>1, <1>2, OutgoingMessages DEF OrderedInv, InOrder
  <2> QED
    BY <2>1, <2>2, <2>3 DEF InOrder
<1>5. /\ page.version \in Nat /\ Announced \in Nat /\ Announced' \in Nat
      /\ Announced <= Announced' /\ Announced' <= page.version
      /\ IF sm.type = "page_updated"
         THEN sm.page = page /\ Announced' = page.version ELSE Announced' = Announced
      /\ m.type = "answer" => Announced' = Announced
      /\ Stored(c) => Announced' = page.version
  <2>1. CASE Sending(c)
    <3>1. m.page = page /\ \A e \in Tabs : Sending(e) => e = c
      BY <2>1 DEF OrderedInv, InOrder
    <3>2. sm.type = "page_updated" /\ sm.page = page
      BY <1>2, <2>1, <3>1, SentFacts DEF Sending
    <3>3. \A e \in Tabs : (Stored(e) => e = c) /\ ~Stored(e)'
      BY <1>3, <3>1, LockIsNoPage
    <3>4. Announced' = page.version
      BY <1>1, <3>3 DEF Announced
    <3>5. m.type = "answer" => \A e \in Tabs : ~Stored(e)
      BY <3>3 DEF Stored
    <3>6. m.type = "answer" => Announced = page.version
      BY <3>5 DEF Announced
    <3> QED
      BY <1>1, <3>2, <3>4, <3>6, AnnouncedFacts
  <2>2. CASE ~Sending(c)
    <3>1. m.type \notin {"page_updated", "answer"}
      BY <1>2, <2>2 DEF Sending
    <3>2. sm.type # "page_updated"
      BY <1>2, <3>1, SentFacts
    <3>3. ~Stored(c) /\ \A e \in Tabs : Stored(e)' <=> Stored(e)
      BY <1>3, <2>2, LockIsNoPage
    <3>4. Announced' = Announced
      BY <1>1, <3>3 DEF Announced
    <3> QED
      BY <1>1, <3>1, <3>2, <3>3, <3>4, AnnouncedFacts
  <2> QED
    BY <2>1, <2>2
<1>6. \A d \in Tabs : outbound[d] \in Seq(OutMessage) /\ tab[d].page.version \in Nat
  BY <1>1, OrderFacts
<1>7. VersionsInv'
  <2>1. ASSUME NEW d \in Tabs, tab[d].open
        PROVE  Ordered(Announced', tab[d], outbound'[d])
    <3>1. Ordered(Announced, tab[d], outbound[d])
      BY <1>1, <2>1, OrderFacts
    <3>2. CASE d = c \/ m.type # "answer"
      <4>1. outbound'[d] = Append(outbound[d], sm)
        BY <1>2, <2>1, <3>2
      <4>2. IF sm.type = "page_updated" THEN sm.page.version = Announced'
            ELSE Announced = Announced'
        BY <1>5
      <4>3. PICK v \in Nat, w \in Nat : v = Announced /\ w = Announced'
        BY <1>5
      <4>4. Ordered(w, tab[d], Append(outbound[d], sm))
        BY <1>2, <1>5, <1>6, <3>1, <4>2, <4>3, OrderedHear
      <4> QED
        BY <4>1, <4>3, <4>4
    <3>3. CASE ~(d = c \/ m.type # "answer")
      BY <1>2, <1>5, <3>1, <3>3
    <3> QED
      BY <3>2, <3>3
  <2> QED
    BY <1>1, <2>1, OrderFacts DEF VersionsInv
<1>8. ASSUME NEW x \in Tabs, NEW r \in Rows
      PROVE  \E n \in 0..page'.version : KeptSince(x, r, n)'
  <2>1. PICK n \in Nat : KeptSince(x, r, n)
    BY <1>1, OrderFacts
  <2>2. SentOf(x, r, n)'
    <3>1. CASE n <= Announced
      BY <1>5, <3>1 DEF SentOf
    <3>2. CASE Stored(x) /\ holder[r] = x /\ x # c
      BY <1>1, <1>3, <3>2 DEF SentOf
    <3>3. CASE Stored(x) /\ x = c
      BY <1>5, <2>1, <3>3 DEF SentOf, KeptSince
    <3> QED
      BY <2>1, <3>1, <3>2, <3>3 DEF KeptSince, SentOf
  <2>3. ASSUME NEW d \in Tabs \ {x}, tab[d].open
        PROVE  /\ NewsOf(d, r, n, kept[x][r], tab[d], outbound'[d])
               /\ KnowsOf(d, r, n, cast'[d], tab[d], outbound'[d])
    <3>1. /\ NewsOf(d, r, n, kept[x][r], tab[d], outbound[d])
          /\ KnowsOf(d, r, n, cast[d], tab[d], outbound[d])
      BY <2>1, <2>3 DEF KeptSince
    <3>2. NewsOf(d, r, n, kept[x][r], tab[d], Append(outbound[d], sm))
      <4>1. sm.type = "page_updated" => Covers(n, r, kept[x][r], sm.page)
        BY <1>5, <2>1 DEF KeptSince, Covers
      <4>2. sm = LockAcquired(r, d) => Knows(n, tab[d], outbound[d], Len(outbound[d]) + 1)
        <5> SUFFICES ASSUME sm = LockAcquired(r, d)
                     PROVE  Knows(n, tab[d], outbound[d], Len(outbound[d]) + 1)
          OBVIOUS
        <5>1. cast[c] = LockAcquired(r, d)
          BY <1>2, SentFacts
        <5>2. d = c
          BY <5>1 DEF LockInv, Grants
        <5> QED
          BY <3>1, <5>1, <5>2 DEF KnowsOf
      <4> QED
        BY <1>2, <1>6, <3>1, <4>1, <4>2, NewsHear
    <3>3. KnowsOf(d, r, n, cast'[d], tab[d], outbound'[d])
      <4> SUFFICES ASSUME cast'[d] = LockAcquired(r, d)
                   PROVE  Knows(n, tab[d], outbound'[d], Len(outbound'[d]) + 1)
        BY DEF KnowsOf
      <4>1. d # c
        BY <1>2, OutgoingMessages
      <4>2. Knows(n, tab[d], outbound[d], Len(outbound[d]) + 1)
        BY <1>2, <3>1, <4>1 DEF KnowsOf
      <4>3. Knows(n, tab[d], Append(outbound[d], sm), Len(Append(outbound[d], sm)) + 1)
        BY <1>2, <1>6, <4>2, KnowsLater
      <4>4. outbound'[d] = outbound[d] \/ outbound'[d] = Append(outbound[d], sm)
        BY <1>2
      <4> QED
        BY <4>2, <4>3, <4>4
    <3>4. outbound'[d] = outbound[d] \/ outbound'[d] = Append(outbound[d], sm)
      BY <1>2
    <3> QED
      BY <3>1, <3>2, <3>3, <3>4
  <2>4. KeptSince(x, r, n)'
    BY <1>1, <2>1, <2>2, <2>3 DEF KeptSince
  <2>5. n <= page.version
    BY <2>1 DEF KeptSince
  <2> QED
    BY <1>1, <1>5, <2>4, <2>5
<1> QED
  BY <1>4, <1>7, <1>8 DEF OrderedInv, KeptInv

LEMMA Order_Receive ==
  ASSUME LockInv, OrderedInv, NEW d \in Tabs, Receive(d)
  PROVE  OrderedInv'
<1> DEFINE q == outbound[d]
           t == tab[d]
<1>1. EditorTypeOK /\ UNCHANGED <<holder, page, inbound, cast, kept>>
  BY DEF LockInv, Receive
<1>2. /\ q \in Seq(OutMessage) /\ q # <<>>
      /\ outbound'[d] = Tail(q)
      /\ \A e \in Tabs \ {d} : outbound'[e] = outbound[e]
  BY <1>1, ReceiveFacts
<1>3. PICK u \in Tab : /\ u.timed \subseteq u.page.rows
                       /\ tab' = [tab EXCEPT ![d] = u]
                       /\ Reads(d, t, u, Head(q))
  BY <1>1, ReceiveFacts
<1>4. tab'[d] = u /\ \A e \in Tabs \ {d} : tab'[e] = tab[e]
  BY <1>1, <1>3, TabUpdate
<1>5. /\ t.page.version \in Nat /\ u.open = t.open /\ NextVersion(t, u, Head(q))
      /\ Announced \in Nat /\ page.version \in Nat
  BY <1>1, <1>3, TypeFacts, TabFacts, AnnouncedFacts DEF Reads
<1>6. /\ Announced' = Announced /\ \A e \in Tabs : Stored(e)' <=> Stored(e)
      /\ InOrder'
  <2>1. \A e \in Tabs : (Stored(e)' <=> Stored(e)) /\ (Sending(e)' <=> Sending(e))
    BY <1>1 DEF Stored, Sending
  <2>2. Announced' = Announced
    BY <1>1, <2>1 DEF Announced
  <2>3. InOrder'
    BY <1>1, <2>1 DEF OrderedInv, InOrder
  <2> QED
    BY <2>1, <2>2, <2>3
<1>7. VersionsInv'
  <2>1. ASSUME NEW e \in Tabs, tab'[e].open
        PROVE  Ordered(Announced, tab'[e], outbound'[e])
    <3>1. CASE e = d
      <4>1. Ordered(Announced, t, q)
        BY <1>1, <1>4, <1>5, <2>1, <3>1, OrderFacts
      <4>2. Ordered(Announced, u, Tail(q))
        BY <1>2, <1>5, <4>1, OrderedTail
      <4> QED
        BY <1>2, <1>4, <3>1, <4>2
    <3>2. CASE e # d
      BY <1>1, <1>2, <1>4, <2>1, <3>2, OrderFacts
    <3> QED
      BY <3>1, <3>2
  <2> QED
    BY <1>1, <1>6, <2>1, OrderFacts DEF VersionsInv
<1>8. ASSUME NEW x \in Tabs, NEW r \in Rows
      PROVE  \E n \in 0..page'.version : KeptSince(x, r, n)'
  <2>1. PICK n \in Nat : KeptSince(x, r, n)
    BY <1>1, OrderFacts
  <2>2. SentOf(x, r, n)'
    BY <1>1, <1>6, <2>1 DEF KeptSince, SentOf
  <2>3. ASSUME NEW e \in Tabs \ {x}, tab'[e].open
        PROVE  /\ NewsOf(e, r, n, kept[x][r], tab'[e], outbound'[e])
               /\ KnowsOf(e, r, n, cast[e], tab'[e], outbound'[e])
    <3>1. CASE e = d
      <4>1. /\ NewsOf(d, r, n, kept[x][r], t, q) /\ KnowsOf(d, r, n, cast[d], t, q)
            /\ Ordered(Announced, t, q)
        BY <1>1, <1>4, <1>5, <2>1, <2>3, <3>1, OrderFacts DEF KeptSince
      <4>2. NewsOf(d, r, n, kept[x][r], u, Tail(q))
        BY <1>2, <1>3, <1>5, <4>1, NewsReceive DEF Reads
      <4>3. KnowsOf(d, r, n, cast[d], u, Tail(q))
        <5> SUFFICES ASSUME cast[d] = LockAcquired(r, d)
                     PROVE  Knows(n, u, Tail(q), Len(Tail(q)) + 1)
          BY DEF KnowsOf
        <5>1. PICK y \in Nat, i \in Nat : y = Len(q) + 1 /\ i = Len(Tail(q)) + 1 /\ y = i + 1
          BY <1>2, QueueTail
        <5>2. Knows(n, t, q, y)
          BY <4>1, <5>1 DEF KnowsOf
        <5>3. Knows(n, u, Tail(q), i)
          BY <1>2, <1>5, <4>1, <5>1, <5>2, KnowsTail
        <5> QED
          BY <5>1, <5>3
      <4> QED
        BY <1>2, <1>4, <3>1, <4>2, <4>3
    <3>2. CASE e # d
      BY <1>2, <1>4, <2>1, <2>3, <3>2 DEF KeptSince
    <3> QED
      BY <3>1, <3>2
  <2>4. KeptSince(x, r, n)'
    BY <1>1, <2>1, <2>2, <2>3 DEF KeptSince
  <2>5. n <= page.version
    BY <2>1 DEF KeptSince
  <2> QED
    BY <1>1, <1>5, <2>4, <2>5
<1> QED
  BY <1>6, <1>7, <1>8 DEF OrderedInv, KeptInv

LEMMA Order_User ==
  ASSUME LockInv, OrderedInv, NEW d \in Tabs, UserStep(d)
  PROVE  OrderedInv'
<1> DEFINE t == tab[d]
           s == inbound[d]
<1>1. /\ EditorTypeOK /\ t.open
      /\ UNCHANGED <<holder, page, cast, outbound, kept>>
  BY DEF LockInv, UserStep
<1>2. PICK u \in Tab, z \in Seq(InMessage) :
        /\ u.timed \subseteq u.page.rows
        /\ tab' = [tab EXCEPT ![d] = u]
        /\ inbound' = [inbound EXCEPT ![d] = z]
        /\ Sends(t, u, s, z)
  BY DEF UserStep
<1>3. /\ tab'[d] = u /\ \A e \in Tabs \ {d} : tab'[e] = tab[e]
      /\ inbound'[d] = z /\ \A e \in Tabs \ {d} : inbound'[e] = inbound[e]
  BY <1>1, <1>2, TabUpdate, TypeFacts
<1>4. /\ u.open = t.open /\ u.locks = t.locks /\ u.renewing \subseteq t.renewing
      /\ u.page.version = t.page.version
      /\ \A r \in Rows : t.page.text[r] \subseteq u.page.text[r]
      /\ \A i \in DOMAIN z : z[i].type = "page_update" =>
           \/ i \in DOMAIN s /\ z[i] = s[i]
           \/ z[i].page = t.page
  BY <1>2 DEF Sends
<1>5. /\ Announced' = Announced /\ \A e \in Tabs : Stored(e)' <=> Stored(e)
      /\ InOrder'
  <2>1. \A e \in Tabs : (Stored(e)' <=> Stored(e)) /\ (Sending(e)' <=> Sending(e))
    BY <1>1 DEF Stored, Sending
  <2>2. Announced' = Announced
    BY <1>1, <2>1 DEF Announced
  <2>3. InOrder'
    BY <1>1, <2>1 DEF OrderedInv, InOrder
  <2> QED
    BY <2>1, <2>2, <2>3
<1>6. /\ Announced \in Nat /\ page.version \in Nat /\ Announced <= page.version
      /\ t.page.version \in Nat /\ Ordered(Announced, t, outbound[d])
  BY <1>1, AnnouncedFacts, OrderFacts
<1>7. VersionsInv'
  <2>1. ASSUME NEW e \in Tabs, tab'[e].open
        PROVE  Ordered(Announced, tab'[e], outbound[e])
    <3>1. CASE e = d
      BY <1>3, <1>4, <1>6, <3>1, OrderedSame
    <3>2. CASE e # d
      BY <1>1, <1>3, <2>1, <3>2, OrderFacts
    <3> QED
      BY <3>1, <3>2
  <2>2. ASSUME NEW e \in Tabs
        PROVE  NotLater(page.version, inbound'[e])
    <3>1. NotLater(page.version, inbound[e])
      BY <1>1, OrderFacts
    <3>2. t.page.version <= page.version
      BY <1>6 DEF Ordered
    <3>3. CASE e = d
      BY <1>3, <1>4, <3>1, <3>2, <3>3 DEF NotLater
    <3>4. CASE e # d
      BY <1>3, <3>1, <3>4
    <3> QED
      BY <3>3, <3>4
  <2> QED
    BY <1>1, <1>5, <2>1, <2>2 DEF VersionsInv
<1>8. ASSUME NEW x \in Tabs, NEW r \in Rows
      PROVE  \E n \in 0..page'.version : KeptSince(x, r, n)'
  <2>1. PICK n \in Nat : KeptSince(x, r, n)
    BY <1>1, OrderFacts
  <2>2. SentOf(x, r, n)'
    BY <1>1, <1>5, <2>1 DEF KeptSince, SentOf
  <2>3. ASSUME NEW e \in Tabs \ {x}, tab'[e].open
        PROVE  /\ NewsOf(e, r, n, kept[x][r], tab'[e], outbound[e])
               /\ KnowsOf(e, r, n, cast[e], tab'[e], outbound[e])
    <3>1. CASE e = d
      <4>1. /\ NewsOf(d, r, n, kept[x][r], t, outbound[d])
            /\ KnowsOf(d, r, n, cast[d], t, outbound[d])
        BY <1>1, <2>1, <2>3, <3>1 DEF KeptSince
      <4>2. NewsOf(d, r, n, kept[x][r], u, outbound[d])
        BY <1>4, <4>1, NewsSame
      <4>3. KnowsOf(d, r, n, cast[d], u, outbound[d])
        BY <1>4, <4>1 DEF KnowsOf, Knows
      <4> QED
        BY <1>3, <3>1, <4>2, <4>3
    <3>2. CASE e # d
      BY <1>3, <2>1, <2>3, <3>2 DEF KeptSince
    <3> QED
      BY <3>1, <3>2
  <2>4. ASSUME NEW e \in Tabs \ {x}
        PROVE  SavesOf(r, n, kept[x][r], inbound'[e])
    <3>1. SavesOf(r, n, kept[x][r], inbound[e])
      BY <2>1 DEF KeptSince
    <3>2. CASE e = d
      <4>1. Covers(n, r, kept[x][r], t.page)
        BY <1>1, <2>1, <3>2 DEF KeptSince, NewsOf
      <4> QED
        BY <1>3, <1>4, <3>1, <3>2, <4>1 DEF SavesOf
    <3>3. CASE e # d
      BY <1>3, <3>1, <3>3
    <3> QED
      BY <3>2, <3>3
  <2>5. KeptSince(x, r, n)'
    BY <1>1, <2>1, <2>2, <2>3, <2>4 DEF KeptSince
  <2>6. n <= page.version
    BY <2>1 DEF KeptSince
  <2> QED
    BY <1>1, <1>6, <2>5, <2>6
<1> QED
  BY <1>5, <1>7, <1>8 DEF OrderedInv, KeptInv

LEMMA Order_Close ==
  ASSUME LockInv, OrderedInv, NEW d \in Tabs, Close(d)
  PROVE  OrderedInv'
<1>1. /\ EditorTypeOK /\ UNCHANGED <<holder, page, inbound, cast, kept>>
      /\ ~tab'[d].open
      /\ \A e \in Tabs \ {d} : tab'[e] = tab[e] /\ outbound'[e] = outbound[e]
  BY CloseFacts DEF LockInv
<1>2. \A e \in Tabs : tab'[e].open => e # d
  BY <1>1
<1>3. /\ Announced' = Announced /\ \A e \in Tabs : Stored(e)' <=> Stored(e)
      /\ InOrder'
  <2>1. \A e \in Tabs : (Stored(e)' <=> Stored(e)) /\ (Sending(e)' <=> Sending(e))
    BY <1>1 DEF Stored, Sending
  <2>2. Announced' = Announced
    BY <1>1, <2>1 DEF Announced
  <2>3. InOrder'
    BY <1>1, <2>1 DEF OrderedInv, InOrder
  <2> QED
    BY <2>1, <2>2, <2>3
<1>4. VersionsInv'
  BY <1>1, <1>2, <1>3, OrderFacts DEF VersionsInv
<1>5. ASSUME NEW x \in Tabs, NEW r \in Rows
      PROVE  \E n \in 0..page'.version : KeptSince(x, r, n)'
  <2>1. PICK n \in Nat : KeptSince(x, r, n)
    BY <1>1, OrderFacts
  <2>2. SentOf(x, r, n)'
    BY <1>1, <1>3, <2>1 DEF KeptSince, SentOf
  <2>3. ASSUME NEW e \in Tabs \ {x}, tab'[e].open
        PROVE  /\ NewsOf(e, r, n, kept[x][r], tab'[e], outbound'[e])
               /\ KnowsOf(e, r, n, cast[e], tab'[e], outbound'[e])
    BY <1>1, <1>2, <2>1, <2>3 DEF KeptSince
  <2>4. KeptSince(x, r, n)'
    BY <1>1, <2>1, <2>2, <2>3 DEF KeptSince
  <2>5. n <= page.version
    BY <2>1 DEF KeptSince
  <2> QED
    BY <1>1, <2>4, <2>5, AnnouncedFacts
<1> QED
  BY <1>3, <1>4, <1>5 DEF OrderedInv, KeptInv

\* Once a message was overtaken, orderly stays FALSE.
LEMMA OrderlySteps ==
  ASSUME LockInv, [EditorNext]_vars, orderly'
  PROVE  orderly
<1>1. ASSUME NEW d \in Tabs, User(d)
      PROVE  orderly' = orderly
  BY <1>1
     DEF User, ByTab, AddPage, SaveTimer, Close, AcquireLock, ReleaseTimer, ReleaseLock,
         Touch, TypeIn
<1>2. ASSUME NEW c \in Tabs, Serve(c)
      PROVE  orderly
  BY <1>2 DEF Serve, LockRow, UnlockRow, UpdatePage, ReleaseOnClose
<1> QED
  BY <1>1, <1>2 DEF EditorNext, vars, Expire, Broadcast, Receive

LEMMA OrderStep ==
  ASSUME LockInv, LockInv', OrderedInv, orderly', [EditorNext]_vars
  PROVE  OrderedInv'
<1>1. ASSUME NEW d \in Tabs, User(d)
      PROVE  OrderedInv'
  BY <1>1, UserIsStep, Order_User, Order_Close DEF LockInv
<1>2. ASSUME NEW c \in Tabs, Serve(c)
      PROVE  OrderedInv'
  BY <1>2, Order_LockRow, Order_UnlockRow, Order_UpdatePage, Order_ReleaseOnClose
     DEF Serve
<1>3. CASE UNCHANGED vars
  <2>1. /\ Announced' = Announced
        /\ \A c \in Tabs : Sending(c)' = Sending(c) /\ Stored(c)' = Stored(c)
    BY <1>3 DEF vars, Announced, Sending, Stored
  <2>2. InOrder' /\ VersionsInv'
    BY <1>3, <2>1 DEF vars, OrderedInv, InOrder, VersionsInv
  <2>3. ASSUME NEW c \in Tabs, NEW r \in Rows, NEW n, KeptSince(c, r, n)
        PROVE  KeptSince(c, r, n)'
    BY <1>3, <2>1, <2>3 DEF vars, KeptSince, SentOf
  <2>4. KeptInv'
    BY <1>3, <2>3 DEF vars, OrderedInv, KeptInv
  <2> QED
    BY <2>2, <2>4 DEF OrderedInv
<1> QED
  BY <1>1, <1>2, <1>3, Order_Broadcast, Order_Receive, Order_Expire DEF EditorNext

--------------------------------------------------------------------------------
(* The invariant holds *)

LEMMA InitInv ==
  ASSUME EditorInit
  PROVE  EditorInv
<1>1. Empty \in Texts /\ \A r \in Rows : Empty[r] = {}
  BY DEF Empty, Texts
<1>2. FirstVersion \in Page /\ FirstVersion.version = 1 /\ FirstVersion.text = Empty
  BY NewTabFacts
<1>3. /\ NewTab \in Tab /\ NewTab.timed = {} /\ NewTab.page = FirstVersion
      /\ NewTab.renewing = {} /\ \A r \in Rows : NewTab.locks[r] = NoTab
      /\ NewTab.open = TRUE
  BY NewTabFacts
<1>4. <<>> \in Seq(InMessage) /\ <<>> \in Seq(OutMessage)
      /\ Len(<<>>) = 0 /\ DOMAIN <<>> = {} /\ 0..0 = {0}
  OBVIOUS
<1>5. EditorTypeOK
  BY <1>1, <1>2, <1>3, <1>4 DEF EditorTypeOK, EditorInit, Holder
<1>6. \A c \in Tabs : /\ cast[c] = NoMsg /\ ~Sending(c) /\ ~Stored(c)
                      /\ outbound[c] = <<>> /\ inbound[c] = <<>> /\ tab[c] = NewTab
                      /\ Waiting(c) = <<>>
  BY DEF EditorInit, Sending, Stored, Waiting
<1>7. page = FirstVersion /\ page.version = 1 /\ Announced = 1
  BY <1>2, <1>6 DEF EditorInit, Announced
<1>8. ASSUME NEW d \in Tabs, NEW r \in Rows
      PROVE  ~\E i \in 0..0 : Tied(d, r, NewTab, <<>>, i)
  BY <1>3, <1>4 DEF Tied
<1>9. \A r \in Rows, u \in Tabs : LockAcquired(r, u) # NoMsg /\ LockReleased(r) # NoMsg
  <2>1. \A m \in OutMessage : m # NoMsg
    BY DEF Outgoing
  <2> QED
    BY <2>1, LockMessages
<1>10. Grants
  BY <1>6, <1>9 DEF Grants
<1>11. LocksInv
  <2>1. ASSUME NEW d \in Tabs, NEW r \in Rows
        PROVE  LocksOf(d, r, NoTab, NewTab, <<>>, <<>>)
    BY <1>3, <1>4, <1>8 DEF LocksOf, Followed, AskedAfter
  <2> QED
    BY <1>3, <1>6, <2>1 DEF LocksInv, ClosedOf, EditorInit
<1>12. InOrder
  BY <1>6, <1>9 DEF InOrder
<1>13. VersionsInv
  <2>1. NotLater(1, <<>>)
    BY <1>4 DEF NotLater
  <2>2. Ordered(1, NewTab, <<>>)
    BY <1>2, <1>3, <1>4 DEF Ordered
  <2> QED
    BY <1>6, <1>7, <2>1, <2>2 DEF VersionsInv
<1>14. KeptInv
  <2>1. ASSUME NEW c \in Tabs, NEW r \in Rows
        PROVE  KeptSince(c, r, 0)
    <3>1. kept[c][r] = {}
      BY <1>1 DEF EditorInit
    <3>2. ASSUME NEW d \in Tabs
          PROVE  /\ NewsOf(d, r, 0, {}, NewTab, <<>>) /\ SavesOf(r, 0, {}, <<>>)
                 /\ KnowsOf(d, r, 0, NoMsg, NewTab, <<>>)
      <4>1. NewsOf(d, r, 0, {}, NewTab, <<>>) /\ SavesOf(r, 0, {}, <<>>)
        BY <1>4, <1>8 DEF NewsOf, SavesOf, Covers
      <4>2. KnowsOf(d, r, 0, NoMsg, NewTab, <<>>)
        BY <1>9 DEF KnowsOf
      <4> QED
        BY <4>1, <4>2
    <3>3. 0 <= page.version /\ SentOf(c, r, 0)
      BY <1>7 DEF SentOf
    <3> QED
      BY <1>6, <3>1, <3>2, <3>3 DEF KeptSince
  <2> QED
    BY <1>7, <2>1 DEF KeptInv
<1> QED
  BY <1>5, <1>10, <1>11, <1>12, <1>13, <1>14 DEF EditorInv, OrderedInv

LEMMA Inductive == EditorSpec => []EditorInv
<1>1. EditorInit => EditorInv
  BY InitInv
<1>2. EditorInv /\ [EditorNext]_vars => EditorInv'
  <2> SUFFICES ASSUME EditorInv, [EditorNext]_vars
               PROVE  EditorInv'
    OBVIOUS
  <2>1. LockInv /\ (orderly => OrderedInv)
    BY DEF EditorInv, LockInv
  <2>2. LockInv'
    BY <2>1, LocksStep
  <2>3. ASSUME orderly'
        PROVE  OrderedInv'
    <3>1. orderly
      BY <2>1, <2>3, OrderlySteps
    <3> QED
      BY <2>1, <2>2, <2>3, <3>1, OrderStep
  <2> QED
    BY <2>2, <2>3 DEF EditorInv, LockInv
<1> QED
  BY <1>1, <1>2, PTL DEF EditorSpec

\* The variables of the editors, the server and the queues keep their types,
\* and a timer only ever runs for a row that is on the page.
THEOREM TypeCorrect == EditorSpec => []EditorTypeOK
<1>1. EditorInv => EditorTypeOK
  BY DEF EditorInv
<1> QED
  BY <1>1, Inductive, PTL

(****************************************************************************)
(* As long as messages go out in order, what was stored under a row's lock  *)
(* is not overwritten by anybody else, although handlePageUpdate compares   *)
(* versions and asks for no lock.  When other goroutines run between an     *)
(* effect and its broadcast in the wrong order, nothing is claimed: the     *)
(* invariant ends with orderly.                                             *)
(****************************************************************************)
THEOREM LockedSavesStay == EditorSpec => []LockedSaveStays
<1>1. EditorInv => LockedSaveStays
  <2> SUFFICES ASSUME EditorInv, orderly, NEW c \in Tabs, NEW r \in Rows
               PROVE  kept[c][r] \subseteq page.text[r]
    BY DEF LockedSaveStays
  <2>1. PICK n \in 0..page.version : KeptSince(c, r, n)
    BY DEF EditorInv, OrderedInv, KeptInv
  <2> QED
    BY <2>1 DEF KeptSince
<1> QED
  BY <1>1, Inductive, PTL

(****************************************************************************)
(* Who sees a textarea, with no release of it under way, has the lock: the  *)
(* display of onmessage and the key in Redis agree, in whatever order the   *)
(* goroutines announce what they did.                                       *)
(****************************************************************************)
THEOREM WritersHold == EditorSpec => []WriterHolds
<1>1. EditorInv => WriterHolds
  <2> SUFFICES ASSUME EditorInv, NEW d \in Tabs, NEW r \in IsOwnedByMe(d, tab[d]),
                      Undisturbed(d, r), holder[r] # d
               PROVE  FALSE
    BY DEF WriterHolds
  <2>1. EditorTypeOK
    BY DEF EditorInv
  <2>2. /\ tab[d] \in Tab /\ outbound[d] \in Seq(OutMessage)
        /\ Waiting(d) \in Seq(OutMessage)
    BY <2>1, TypeFacts, WaitingFacts
  <2>3. r \in Rows /\ tab[d].locks[r] = d
    BY <2>2, TabFacts DEF IsOwnedByMe
  <2>4. tab[d].open
    BY <2>3, EditorAssumption DEF EditorInv, LocksInv, ClosedOf
  <2>5. LocksOf(d, r, holder[r], tab[d], inbound[d], Waiting(d))
    BY <2>3, <2>4 DEF EditorInv, LocksInv
  <2>6. 0 \in 0..Len(Waiting(d)) /\ Tied(d, r, tab[d], Waiting(d), 0)
    BY <2>2, <2>3 DEF Tied
  <2>7. ReleasedAfter(r, Waiting(d), 0)
    BY <2>5, <2>6 DEF LocksOf, Followed
  <2>8. LockReleased(r).type = "lock_released" /\ LockReleased(r).row = r
    BY DEF LockReleased
  <2>9. ~ReleasedAfter(r, outbound[d], 0)
    BY <2>8 DEF Undisturbed, ReleasedAfter
  <2>10. CASE cast[d] = NoMsg
    BY <2>1, <2>7, <2>9, <2>10, WaitingFacts
  <2>11. CASE cast[d] # NoMsg
    <3>1. /\ cast[d] \in Outgoing /\ Sent(cast[d]) \in OutMessage
          /\ Waiting(d) = Append(outbound[d], Sent(cast[d]))
      BY <2>1, <2>11, WaitingFacts
    <3>2. Sent(cast[d]) # LockReleased(r)
      BY <2>3, <3>1, SentFacts DEF Undisturbed
    <3> QED
      BY <2>2, <2>7, <2>9, <3>1, <3>2, QueueAppend DEF ReleasedAfter
  <2> QED
    BY <2>10, <2>11
<1> QED
  BY <1>1, Inductive, PTL

(****************************************************************************)
(* With everything heard and served, a tab renews no row but the one it     *)
(* clicked last: acquireLock gives the old row back, whatever crosses it.   *)
(****************************************************************************)
THEOREM OneRow == EditorSpec => []OneRowKept
<1>1. EditorInv => OneRowKept
  <2> SUFFICES ASSUME EditorInv, NEW d \in Tabs, inbound[d] = <<>>,
                      outbound[d] = <<>>, cast[d] = NoMsg,
                      NEW r \in tab[d].renewing, r # tab[d].active
               PROVE  FALSE
    BY DEF OneRowKept
  <2>1. tab[d] \in Tab /\ r \in Rows
    BY TypeFacts, TabFacts DEF EditorInv
  <2>2. tab[d].open /\ Waiting(d) = <<>>
    BY DEF EditorInv, LocksInv, ClosedOf, Waiting
  <2>3. LocksOf(d, r, holder[r], tab[d], inbound[d], <<>>)
    BY <2>1, <2>2 DEF EditorInv, LocksInv
  <2>4. ~Asked(r, inbound[d]) /\ Len(<<>>) = 0 /\ DOMAIN <<>> = {} /\ 0 \in 0..0
    BY DEF Asked
  <2>5. Followed(d, r, tab[d], <<>>)
    BY <2>3, <2>4 DEF LocksOf
  <2> QED
    BY <2>4, <2>5 DEF Followed, Tied, ReleasedAfter
<1> QED
  BY <1>1, Inductive, PTL
================================================================================
