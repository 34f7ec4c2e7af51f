------------------------------- MODULE WikisProofs -------------------------------
(****************************************************************************)
(* Wikis keeps WikiInv, and so hands out one code per wiki and enrols only  *)
(* those who asked; and it implements Sharing, for any users, wikis, codes  *)
(* and calls.  Tables only grow: what a call found in them before it went   *)
(* on is still there (Frame), so each action is a matter of its own call.   *)
(****************************************************************************)
EXTENDS Wikis, TLAPS

\* Rows are never changed nor deleted.
Grows ==
  /\ \A w \in WikiIds :
       /\ owner[w] # Nobody => owner'[w] = owner[w]
       /\ code[w] # NoCode => code'[w] = code[w]
  /\ asked \subseteq asked'

\* A call that does not move keeps what it relies on while tables grow.
LEMMA Frame ==
  ASSUME WikiInv, Grows, NEW c \in Calls, job'[c] = job[c]
  PROVE  CallInv(c)'
<1> USE SharingAssumption
<1> USE DEF At
<1>1. WikiTypeOK /\ CallInv(c)
  BY DEF WikiInv
<1>2. job[c] \in Job
  BY <1>1 DEF WikiTypeOK
<1>3. Caller(c)' /\ OfWiki(c)'
  BY <1>1 DEF CallInv, Caller, OfWiki
<1>4. ByOwner(c)'
  <2> SUFFICES ASSUME job[c].at \in {"read", "insert", "reread"}
               PROVE  owner'[job[c].wiki] = job[c].user
    BY DEF ByOwner
  <2>1. /\ owner[job[c].wiki] = job[c].user
        /\ job[c].user \in Users
        /\ job[c].wiki \in WikiIds
    BY <1>1 DEF CallInv, ByOwner, Caller, OfWiki
  <2> QED
    BY <2>1 DEF Grows
<1>5. Inserted(c)'
  BY <1>1 DEF CallInv, Inserted, OfWiki, Grows
<1>6. Joiner(c)'
  <2>1. job[c].at \in {"lookup", "enrol"} =>
          <<job[c].code, job[c].user>> \in asked'
    BY <1>1 DEF CallInv, Joiner, Grows
  <2>2. ASSUME At(c, "enrol")
        PROVE  job[c].wiki \in WikiIds /\ code'[job[c].wiki] = job[c].code
    <3>1. job[c].wiki \in WikiIds /\ code[job[c].wiki] = job[c].code
      BY <1>1, <2>2 DEF CallInv, Joiner
    <3>2. job[c].code \in Codes
      BY <1>1, <2>2 DEF CallInv, Joiner, WikiTypeOK
    <3> QED
      BY <3>1, <3>2 DEF Grows
  <2> QED
    BY <2>1, <2>2 DEF Joiner
<1> QED
  BY <1>3, <1>4, <1>5, <1>6 DEF CallInv

\* What is left to show of a step of call c.
LEMMA OneMoves ==
  ASSUME WikiInv, Grows, NEW c \in Calls, CallInv(c)',
         \A d \in Calls \ {c} : job'[d] = job[d]
  PROVE  \A d \in Calls : CallInv(d)'
<1>1. \A d \in Calls \ {c} : CallInv(d)'
  BY Frame
<1> QED
  BY <1>1

\* A call goes on, and no other moves.
LEMMA CarryMoves ==
  ASSUME WikiTypeOK, NEW c \in Calls, NEW p \in Place,
         NEW w \in WikiIds \union {NoWiki}, NEW k \in Codes \union {NoCode},
         Carry(c, p, w, k)
  PROVE  /\ job' \in [Calls -> Job]
         /\ \A d \in Calls \ {c} : job'[d] = job[d]
         /\ job'[c] = [at |-> p, user |-> job[c].user, wiki |-> w, code |-> k]
<1>1. job[c].user \in Users \union {Nobody}
  BY DEF WikiTypeOK, Job
<1> QED
  BY <1>1 DEF WikiTypeOK, Carry, Job

LEMMA GotoMoves ==
  ASSUME WikiTypeOK, NEW c \in Calls, NEW p \in Place, Goto(c, p)
  PROVE  /\ job' \in [Calls -> Job]
         /\ \A d \in Calls \ {c} : job'[d] = job[d]
         /\ job'[c].at = p /\ job'[c].user = job[c].user
         /\ job'[c].wiki = job[c].wiki /\ job'[c].code = job[c].code
<1>1. /\ job[c].wiki \in WikiIds \union {NoWiki}
      /\ job[c].code \in Codes \union {NoCode}
  BY DEF WikiTypeOK, Job
<1>2. Carry(c, p, job[c].wiki, job[c].code)
  BY DEF Goto
<1>3. /\ job' \in [Calls -> Job]
      /\ \A d \in Calls \ {c} : job'[d] = job[d]
      /\ job'[c] = [at |-> p, user |-> job[c].user, wiki |-> job[c].wiki,
                    code |-> job[c].code]
  BY ONLY WikiTypeOK, c \in Calls, p \in Place, <1>1, <1>2, CarryMoves
<1> QED
  BY ONLY <1>3

LEMMA AnswerMoves ==
  ASSUME WikiTypeOK, NEW c \in Calls, NEW w \in WikiIds,
         NEW k \in Codes \union {NoCode}, Answer(c, w, k)
  PROVE  /\ job' \in [Calls -> Job]
         /\ \A d \in Calls \ {c} : job'[d] = job[d]
         /\ job'[c].at = "done" /\ job'[c].user = job[c].user
<1>1. "done" \in Place
  BY DEF Place
<1>2. Carry(c, "done", w, k)
  BY DEF Answer
<1>3. /\ job' \in [Calls -> Job]
      /\ \A d \in Calls \ {c} : job'[d] = job[d]
      /\ job'[c] = [at |-> "done", user |-> job[c].user, wiki |-> w, code |-> k]
  BY ONLY WikiTypeOK, c \in Calls, w \in WikiIds, k \in Codes \union {NoCode},
     <1>1, <1>2, CarryMoves
<1> QED
  BY ONLY <1>3

\* A step that writes no table but perhaps asked.
LEMMA TablesKept ==
  ASSUME WikiInv, UNCHANGED <<owner, members, code, given>>, asked \subseteq asked'
  PROVE  Grows /\ OneCode' /\ MembersAsked' /\ Distinct' /\ Owned'
<1>1. OneCode /\ MembersAsked /\ Distinct /\ Owned
  BY DEF WikiInv
<1> QED
  BY <1>1 DEF Grows, OneCode, MembersAsked, Distinct, Owned

\* A call that is over relies on nothing.
LEMMA OverInv ==
  ASSUME NEW c \in Calls, job'[c].at \in {"idle", "done", "failed", "get"},
         job'[c].at = "idle" \/ job'[c].user \in Users
  PROVE  CallInv(c)'
BY DEF CallInv, Caller, OfWiki, ByOwner, Inserted, Joiner, At

--------------------------------------------------------------------------------
LEMMA InitInv == WikiInit => WikiInv
<1> SUFFICES ASSUME WikiInit PROVE WikiInv
  OBVIOUS
<1> USE SharingAssumption DEF WikiInit, SharingInit
<1>1. WikiTypeOK
  BY DEF WikiTypeOK, Idle, Job, Place
<1>2. OneCode /\ MembersAsked /\ Distinct /\ Owned
  BY DEF OneCode, MembersAsked, Distinct, Owned
<1>3. \A c \in Calls : CallInv(c)
  BY DEF CallInv, Caller, OfWiki, ByOwner, Inserted, Joiner, At, Idle
<1> QED
  BY <1>1, <1>2, <1>3 DEF WikiInv

LEMMA AskInv ==
  ASSUME WikiInv, NEW c \in Calls, NEW p \in {"create", "own", "lookup"},
         NEW u \in Users, NEW w \in WikiIds \union {NoWiki},
         NEW k \in Codes \union {NoCode}, Ask(c, p, u, w, k),
         p = "own" => w \in WikiIds, p = "lookup" => k \in Codes
  PROVE  WikiInv'
<1>1. WikiTypeOK
  BY DEF WikiInv
<1>2. asked \subseteq asked'
  BY DEF Ask
<1>3. Grows /\ OneCode' /\ MembersAsked' /\ Distinct' /\ Owned'
  BY <1>2, TablesKept DEF Ask
<1>4. /\ job'[c] = [at |-> p, user |-> u, wiki |-> w, code |-> k]
      /\ \A d \in Calls \ {c} : job'[d] = job[d]
  BY <1>1 DEF Ask, WikiTypeOK
<1>5. WikiTypeOK'
  BY <1>1 DEF Ask, WikiTypeOK, Job, Place
<1>6. CallInv(c)'
  BY <1>4 DEF Ask, CallInv, Caller, OfWiki, ByOwner, Inserted, Joiner, At
<1> QED
  BY <1>3, <1>4, <1>5, <1>6, OneMoves DEF WikiInv

LEMMA CreateInv ==
  ASSUME WikiInv, NEW c \in Calls, CreateWiki(c)
  PROVE  WikiInv' /\ \E w \in WikiIds : \E u \in Users : Found(u, w)
<1>1. WikiTypeOK /\ CallInv(c)
  BY DEF WikiInv
<1>2. job[c].user \in Users
  BY <1>1 DEF CallInv, Caller, CreateWiki, At
<1>3. PICK w \in WikiIds : /\ owner[w] = Nobody
                           /\ owner' = [owner EXCEPT ![w] = job[c].user]
                           /\ Answer(c, w, NoCode)
  BY DEF CreateWiki
<1>4. /\ job' \in [Calls -> Job]
      /\ \A d \in Calls \ {c} : job'[d] = job[d]
      /\ job'[c].at = "done" /\ job'[c].user = job[c].user
  BY <1>1, <1>3, AnswerMoves
<1>5. Grows
  BY <1>1, <1>3 DEF CreateWiki, Grows, WikiTypeOK
<1>6. CallInv(c)'
  BY <1>2, <1>4, OverInv
<1>7. \A d \in Calls : CallInv(d)'
  BY <1>4, <1>5, <1>6, OneMoves
<1>8. WikiTypeOK'
  BY <1>1, <1>2, <1>3, <1>4 DEF CreateWiki, WikiTypeOK
<1>9. OneCode' /\ MembersAsked' /\ Distinct'
  BY DEF CreateWiki, WikiInv, OneCode, MembersAsked, Distinct
<1>10. Owned'
  BY <1>1, <1>2, <1>3 DEF CreateWiki, WikiInv, Owned, WikiTypeOK
<1>11. Found(job[c].user, w)
  BY <1>3 DEF CreateWiki, Found
<1> QED
  BY <1>2, <1>7, <1>8, <1>9, <1>10, <1>11 DEF WikiInv

LEMMA AssertOwnerInv ==
  ASSUME WikiInv, NEW c \in Calls, AssertOwner(c)
  PROVE  WikiInv' /\ UNCHANGED sharingVars
<1>1. WikiTypeOK /\ CallInv(c)
  BY DEF WikiInv
<1>2. Grows /\ OneCode' /\ MembersAsked' /\ Distinct' /\ Owned'
  BY TablesKept DEF AssertOwner
<1> DEFINE p == IF owner[job[c].wiki] = job[c].user THEN "read" ELSE "failed"
<1>3. p \in Place /\ Goto(c, p)
  BY DEF AssertOwner, Place
<1>4. /\ job' \in [Calls -> Job]
      /\ \A d \in Calls \ {c} : job'[d] = job[d]
      /\ job'[c].at = p /\ job'[c].user = job[c].user
      /\ job'[c].wiki = job[c].wiki /\ job'[c].code = job[c].code
  BY <1>1, <1>3, GotoMoves
<1>5. CallInv(c)'
  BY <1>1, <1>4
  DEF AssertOwner, CallInv, Caller, OfWiki, ByOwner, Inserted, Joiner, At
<1>6. WikiTypeOK'
  BY <1>1, <1>4 DEF AssertOwner, WikiTypeOK
<1> QED
  BY <1>2, <1>4, <1>5, <1>6, OneMoves DEF WikiInv, AssertOwner, sharingVars

\* GenerateShareCode answers the code of the wiki.
LEMMA AnswerCodeInv ==
  ASSUME WikiInv, NEW c \in Calls, job[c].at \in {"read", "reread"},
         AnswerCode(c), UNCHANGED <<owner, members, code, asked>>
  PROVE  WikiInv'
<1>1. WikiTypeOK /\ CallInv(c)
  BY DEF WikiInv
<1>2. job[c].wiki \in WikiIds /\ job[c].user \in Users
  BY <1>1 DEF CallInv, OfWiki, Caller, At
<1> DEFINE w == job[c].wiki
<1>3. code[w] \in Codes
  BY <1>1, <1>2 DEF AnswerCode, WikiTypeOK
<1>4. /\ job' \in [Calls -> Job]
      /\ \A d \in Calls \ {c} : job'[d] = job[d]
      /\ job'[c].at = "done" /\ job'[c].user = job[c].user
  BY <1>1, <1>2, <1>3, AnswerMoves DEF AnswerCode
<1>5. Grows
  BY DEF Grows
<1>6. \A d \in Calls : CallInv(d)'
  BY <1>2, <1>4, <1>5, OverInv, OneMoves
<1>7. given' = [given EXCEPT ![w] = @ \union {code[w]}]
  BY DEF AnswerCode
<1>8. WikiTypeOK'
  BY <1>1, <1>3, <1>4, <1>7 DEF WikiTypeOK
<1>9. OneCode'
  BY <1>1, <1>7 DEF WikiInv, OneCode, WikiTypeOK
<1>10. MembersAsked' /\ Distinct' /\ Owned'
  BY DEF WikiInv, MembersAsked, Distinct, Owned
<1> QED
  BY <1>6, <1>8, <1>9, <1>10 DEF WikiInv

LEMMA ReadCodeInv ==
  ASSUME WikiInv, NEW c \in Calls, ReadCode(c)
  PROVE  WikiInv' /\ UNCHANGED sharingVars
<1>1. UNCHANGED sharingVars
  BY DEF ReadCode, sharingVars
<1>2. CASE AnswerCode(c)
  BY <1>1, <1>2, AnswerCodeInv DEF ReadCode, At
<1>3. CASE Goto(c, "insert") /\ UNCHANGED given
  <2>1. WikiTypeOK /\ CallInv(c)
    BY DEF WikiInv
  <2>2. Grows /\ OneCode' /\ MembersAsked' /\ Distinct' /\ Owned'
    BY <1>3, TablesKept DEF ReadCode
  <2>3. "insert" \in Place
    BY DEF Place
  <2>4. /\ job' \in [Calls -> Job]
        /\ \A d \in Calls \ {c} : job'[d] = job[d]
        /\ job'[c].at = "insert" /\ job'[c].user = job[c].user
        /\ job'[c].wiki = job[c].wiki /\ job'[c].code = job[c].code
    BY <1>3, <2>1, <2>3, GotoMoves
  <2>5. CallInv(c)'
    BY <2>1, <2>4
    DEF ReadCode, CallInv, Caller, OfWiki, ByOwner, Inserted, Joiner, At
  <2>6. WikiTypeOK'
    BY <1>3, <2>1, <2>4 DEF ReadCode, WikiTypeOK
  <2> QED
    BY <1>1, <2>2, <2>4, <2>5, <2>6, OneMoves DEF WikiInv
<1> QED
  BY <1>2, <1>3 DEF ReadCode

LEMMA RereadCodeInv ==
  ASSUME WikiInv, NEW c \in Calls, RereadCode(c)
  PROVE  WikiInv' /\ UNCHANGED sharingVars
BY AnswerCodeInv DEF RereadCode, At, sharingVars

\* An INSERT finds a code of the wiki, stores one, or fails on a code taken.
LEMMA InsertCodeInv ==
  ASSUME WikiInv, NEW c \in Calls, InsertCode(c)
  PROVE  /\ WikiInv'
         /\ \/ UNCHANGED sharingVars
            \/ \E w \in WikiIds : \E k \in Codes : Publish(w, k)
<1> DEFINE w == job[c].wiki
<1>1. WikiTypeOK /\ CallInv(c)
  BY DEF WikiInv
<1>2. w \in WikiIds /\ job[c].user \in Users /\ owner[w] = job[c].user
  BY <1>1 DEF InsertCode, CallInv, Caller, OfWiki, ByOwner, At
<1>3. "reread" \in Place /\ "failed" \in Place
  BY DEF Place
<1>4. CASE UNCHANGED code /\ Goto(c, "failed")
  <2>1. Grows /\ OneCode' /\ MembersAsked' /\ Distinct' /\ Owned'
    BY <1>4, TablesKept DEF InsertCode
  <2>2. /\ job' \in [Calls -> Job]
        /\ \A d \in Calls \ {c} : job'[d] = job[d]
        /\ job'[c].at = "failed" /\ job'[c].user = job[c].user
    BY <1>1, <1>3, <1>4, GotoMoves
  <2>3. \A d \in Calls : CallInv(d)'
    BY <1>2, <2>1, <2>2, OverInv, OneMoves
  <2>4. WikiTypeOK'
    BY <1>1, <1>4, <2>2 DEF InsertCode, WikiTypeOK
  <2> QED
    BY <1>4, <2>1, <2>3, <2>4 DEF WikiInv, InsertCode, sharingVars
<1>5. CASE code[w] # NoCode /\ Goto(c, "reread") /\ UNCHANGED code
  <2>1. Grows /\ OneCode' /\ MembersAsked' /\ Distinct' /\ Owned'
    BY <1>5, TablesKept DEF InsertCode
  <2>2. /\ job' \in [Calls -> Job]
        /\ \A d \in Calls \ {c} : job'[d] = job[d]
        /\ job'[c].at = "reread" /\ job'[c].user = job[c].user
        /\ job'[c].wiki = w
    BY <1>1, <1>3, <1>5, GotoMoves
  <2>3. CallInv(c)'
    BY <1>2, <1>5, <2>2
    DEF InsertCode, CallInv, Caller, OfWiki, ByOwner, Inserted, Joiner, At
  <2>4. \A d \in Calls : CallInv(d)'
    BY <2>1, <2>2, <2>3, OneMoves
  <2>5. WikiTypeOK'
    BY <1>1, <1>5, <2>2 DEF InsertCode, WikiTypeOK
  <2> QED
    BY <1>5, <2>1, <2>4, <2>5 DEF WikiInv, InsertCode, sharingVars
<1>6. ASSUME code[w] = NoCode, Goto(c, "reread"), NEW k \in Codes,
             \A v \in WikiIds : code[v] # k, code' = [code EXCEPT ![w] = k]
      PROVE  WikiInv' /\ Publish(w, k)
  <2>1. Grows
    BY <1>1, <1>2, <1>6 DEF InsertCode, Grows, WikiTypeOK
  <2>2. /\ job' \in [Calls -> Job]
        /\ \A d \in Calls \ {c} : job'[d] = job[d]
        /\ job'[c].at = "reread" /\ job'[c].user = job[c].user
        /\ job'[c].wiki = w
    BY <1>1, <1>3, <1>6, GotoMoves
  <2>3. code'[w] = k /\ \A v \in WikiIds \ {w} : code'[v] = code[v]
    BY <1>1, <1>2, <1>6 DEF WikiTypeOK
  <2>4. k # NoCode
    BY SharingAssumption
  <2>5. CallInv(c)'
    BY <1>2, <2>2, <2>3, <2>4
    DEF InsertCode, CallInv, Caller, OfWiki, ByOwner, Inserted, Joiner, At
  <2>6. \A d \in Calls : CallInv(d)'
    BY <2>1, <2>2, <2>5, OneMoves
  <2>7. WikiTypeOK'
    BY <1>1, <1>2, <1>6, <2>2 DEF InsertCode, WikiTypeOK
  <2>8. OneCode'
    <3>1. given[w] = {}
      BY <1>1, <1>2, <1>6, SharingAssumption DEF WikiInv, OneCode, WikiTypeOK
    <3> QED
      BY <2>3, <3>1 DEF InsertCode, WikiInv, OneCode
  <2>9. Distinct'
    BY <1>6, <2>3 DEF WikiInv, Distinct
  <2>10. MembersAsked'
    <3>1. \A x \in Users : <<w, x>> \notin members
      <4> SUFFICES ASSUME NEW x \in Users, <<w, x>> \in members PROVE FALSE
        OBVIOUS
      <4>1. <<code[w], x>> \in asked /\ asked \subseteq Codes \X Users
        BY <1>1, <1>2 DEF WikiInv, MembersAsked, WikiTypeOK
      <4>2. code[w] \in Codes
        BY <4>1
      <4> QED
        BY <1>6, <4>2, SharingAssumption
    <3> QED
      BY <1>6, <2>3, <3>1 DEF InsertCode, WikiInv, MembersAsked
  <2>11. Owned'
    BY <1>2, <2>3 DEF InsertCode, WikiInv, Owned
  <2>12. Publish(w, k)
    BY <1>2, <1>6, SharingAssumption DEF InsertCode, Publish
  <2> QED
    BY <2>6, <2>7, <2>8, <2>9, <2>10, <2>11, <2>12 DEF WikiInv
<1>7. InsertCode(c) =>
        \/ code[w] # NoCode /\ Goto(c, "reread") /\ UNCHANGED code
        \/ UNCHANGED code /\ Goto(c, "failed")
        \/ \E k \in Codes : /\ code[w] = NoCode /\ Goto(c, "reread")
                            /\ \A v \in WikiIds : code[v] # k
                            /\ code' = [code EXCEPT ![w] = k]
  BY DEF InsertCode
<1> QED
  BY <1>2, <1>4, <1>5, <1>6, <1>7

LEMMA LookUpInv ==
  ASSUME WikiInv, NEW c \in Calls, LookUp(c)
  PROVE  WikiInv' /\ UNCHANGED sharingVars
<1>1. WikiTypeOK /\ CallInv(c)
  BY DEF WikiInv
<1>2. Grows /\ OneCode' /\ MembersAsked' /\ Distinct' /\ Owned'
  BY TablesKept DEF LookUp
<1>3. job[c].user \in Users /\ <<job[c].code, job[c].user>> \in asked
  BY <1>1 DEF LookUp, CallInv, Caller, Joiner, At
<1>4. job[c].code \in Codes
  BY <1>1, <1>3 DEF WikiTypeOK
<1>5. "enrol" \in Place /\ "failed" \in Place
  BY DEF Place
<1>6. ASSUME NEW w \in WikiIds, code[w] = job[c].code,
             Carry(c, "enrol", w, job[c].code)
      PROVE  job' \in [Calls -> Job] /\ \A d \in Calls : CallInv(d)'
  <2>1. /\ job' \in [Calls -> Job]
        /\ \A d \in Calls \ {c} : job'[d] = job[d]
        /\ job'[c] = [at |-> "enrol", user |-> job[c].user, wiki |-> w,
                      code |-> job[c].code]
    BY <1>1, <1>4, <1>5, <1>6, CarryMoves
  <2>2. CallInv(c)'
    BY <1>3, <1>6, <2>1
    DEF LookUp, CallInv, Caller, OfWiki, ByOwner, Inserted, Joiner, At
  <2> QED
    BY <1>2, <2>1, <2>2, OneMoves
<1>7. ASSUME Goto(c, "failed")
      PROVE  job' \in [Calls -> Job] /\ \A d \in Calls : CallInv(d)'
  <2>1. /\ job' \in [Calls -> Job]
        /\ \A d \in Calls \ {c} : job'[d] = job[d]
        /\ job'[c].at = "failed" /\ job'[c].user = job[c].user
    BY <1>1, <1>5, <1>7, GotoMoves
  <2> QED
    BY <1>2, <1>3, <2>1, OverInv, OneMoves
<1>8. job' \in [Calls -> Job] /\ \A d \in Calls : CallInv(d)'
  BY <1>6, <1>7 DEF LookUp
<1>9. WikiTypeOK'
  BY <1>1, <1>8 DEF LookUp, WikiTypeOK
<1> QED
  BY <1>2, <1>8, <1>9 DEF WikiInv, LookUp, sharingVars

\* The wiki found still has the code that was asked for.
LEMMA EnrolInv ==
  ASSUME WikiInv, NEW c \in Calls, Enrol(c)
  PROVE  WikiInv' /\ \E w \in WikiIds : \E u \in Users : Join(u, w)
<1> DEFINE w == job[c].wiki
           u == job[c].user
<1>1. WikiTypeOK /\ CallInv(c)
  BY DEF WikiInv
<1>2. /\ w \in WikiIds /\ u \in Users
      /\ code[w] = job[c].code /\ <<code[w], u>> \in asked
  BY <1>1 DEF Enrol, CallInv, Caller, Joiner, At
<1>3. code[w] \in Codes /\ code[w] # NoCode
  BY <1>1, <1>2, SharingAssumption DEF WikiTypeOK
<1>4. "get" \in Place
  BY DEF Place
<1>5. /\ job' \in [Calls -> Job]
      /\ \A d \in Calls \ {c} : job'[d] = job[d]
      /\ job'[c].at = "get" /\ job'[c].user = job[c].user
  BY <1>1, <1>4, GotoMoves DEF Enrol
<1>6. Grows
  BY DEF Enrol, Grows
<1>7. \A d \in Calls : CallInv(d)'
  BY <1>2, <1>5, <1>6, OverInv, OneMoves
<1>8. WikiTypeOK'
  BY <1>1, <1>2, <1>5 DEF Enrol, WikiTypeOK
<1>9. OneCode' /\ Distinct' /\ Owned'
  BY DEF Enrol, WikiInv, OneCode, Distinct, Owned
<1>10. MembersAsked'
  <2> SUFFICES ASSUME NEW v \in WikiIds, NEW x \in Users, <<v, x>> \in members'
               PROVE  /\ <<code[v], x>> \in asked
                      /\ \A y \in WikiIds \ {v} : code[y] # code[v]
    BY DEF Enrol, MembersAsked
  <2>1. CASE <<v, x>> \in members
    BY <2>1 DEF WikiInv, MembersAsked
  <2>2. CASE v = w /\ x = u
    BY <1>2, <1>3, <2>2 DEF WikiInv, Distinct
  <2> QED
    BY <2>1, <2>2 DEF Enrol
<1>11. Join(u, w)
  BY <1>3 DEF Enrol, Join
<1> QED
  BY <1>2, <1>7, <1>8, <1>9, <1>10, <1>11 DEF WikiInv

\* GetWiki, a failure, and the answer leave the tables alone.
LEMMA EndInv ==
  ASSUME WikiInv, NEW c \in Calls, GetWiki(c) \/ Fail(c) \/ Return(c)
  PROVE  WikiInv' /\ UNCHANGED sharingVars
<1>1. WikiTypeOK /\ CallInv(c)
  BY DEF WikiInv
<1>2. Grows /\ OneCode' /\ MembersAsked' /\ Distinct' /\ Owned'
  BY TablesKept DEF GetWiki, Fail, Return
<1>3. CASE Return(c)
  <2>1. job' \in [Calls -> Job] /\ \A d \in Calls \ {c} : job'[d] = job[d]
    BY <1>1, <1>3 DEF Return, WikiTypeOK, Idle, Job, Place
  <2>2. job'[c].at = "idle"
    BY <1>1, <1>3 DEF Return, WikiTypeOK, Idle
  <2>3. \A d \in Calls : CallInv(d)'
    BY <1>2, <2>1, <2>2, OverInv, OneMoves
  <2>4. WikiTypeOK'
    BY <1>1, <1>3, <2>1 DEF Return, WikiTypeOK
  <2> QED
    BY <1>2, <1>3, <2>3, <2>4 DEF WikiInv, Return, sharingVars
<1>4. ASSUME NEW p \in {"done", "failed"}, Goto(c, p), ~At(c, "idle"),
             UNCHANGED <<owner, members, code, given, asked>>
      PROVE  WikiInv' /\ UNCHANGED sharingVars
  <2>1. p \in Place
    BY DEF Place
  <2>2. /\ job' \in [Calls -> Job]
        /\ \A d \in Calls \ {c} : job'[d] = job[d]
        /\ job'[c].at = p /\ job'[c].user = job[c].user
    BY <1>1, <1>4, <2>1, GotoMoves
  <2>3. job[c].user \in Users
    BY <1>1, <1>4 DEF CallInv, Caller
  <2>4. \A d \in Calls : CallInv(d)'
    BY <1>2, <2>2, <2>3, OverInv, OneMoves
  <2>5. WikiTypeOK'
    BY <1>1, <1>4, <2>2 DEF WikiTypeOK
  <2> QED
    BY <1>2, <1>4, <2>4, <2>5 DEF WikiInv, sharingVars
<1> QED
  BY <1>3, <1>4 DEF GetWiki, Fail, At

--------------------------------------------------------------------------------
\* Every step keeps the invariant and is a step of Sharing or none.
LEMMA Step ==
  ASSUME WikiInv, [WikiNext]_wikiVars
  PROVE  WikiInv' /\ [SharingNext]_sharingVars
<1>1. CASE UNCHANGED wikiVars
  <2>1. /\ UNCHANGED <<owner, members, code, given, asked>> /\ UNCHANGED job
    BY <1>1 DEF wikiVars, sharingVars
  <2>2. Grows /\ OneCode' /\ MembersAsked' /\ Distinct' /\ Owned'
    BY <2>1, TablesKept
  <2>3. \A c \in Calls : CallInv(c)'
    BY <2>1, <2>2, Frame
  <2>4. WikiTypeOK'
    BY <2>1 DEF WikiInv, WikiTypeOK
  <2> QED
    BY <2>1, <2>2, <2>3, <2>4 DEF WikiInv, sharingVars
<1>2. ASSUME NEW c \in Calls, NEW u \in Users,
             \/ Ask(c, "create", u, NoWiki, NoCode)
             \/ \E w \in WikiIds : Ask(c, "own", u, w, NoCode)
             \/ \E k \in Codes : Ask(c, "lookup", u, NoWiki, k)
      PROVE  WikiInv' /\ UNCHANGED sharingVars
  <2>1. CASE Ask(c, "create", u, NoWiki, NoCode)
    BY <2>1, AskInv DEF Ask, sharingVars
  <2>2. ASSUME NEW w \in WikiIds, Ask(c, "own", u, w, NoCode)
        PROVE  WikiInv' /\ UNCHANGED sharingVars
    BY <2>2, AskInv DEF Ask, sharingVars
  <2>3. ASSUME NEW k \in Codes, Ask(c, "lookup", u, NoWiki, k)
        PROVE  WikiInv' /\ UNCHANGED sharingVars
    BY <2>3, AskInv DEF Ask, sharingVars
  <2> QED
    BY <1>2, <2>1, <2>2, <2>3
<1>3. ASSUME NEW c \in Calls, Serve(c) \/ Return(c)
      PROVE  WikiInv' /\ [SharingNext]_sharingVars
  BY <1>3, CreateInv, AssertOwnerInv, ReadCodeInv, InsertCodeInv,
     RereadCodeInv, LookUpInv, EnrolInv, EndInv
  DEF Serve, SharingNext
<1> QED
  BY <1>1, <1>2, <1>3 DEF WikiNext

(****************************************************************************)
(* The tables and calls stay well-formed: WikiTypeOK.                       *)
(****************************************************************************)
THEOREM WikiTypes == WikiSpec => []WikiTypeOK
<1>1. WikiInv => WikiTypeOK
  BY DEF WikiInv
<1> QED
  BY <1>1, InitInv, Step, PTL DEF WikiSpec

(****************************************************************************)
(* Whatever requests race, a wiki has one code: OneCode.                    *)
(****************************************************************************)
THEOREM Permanent == WikiSpec => []OneCode
<1>1. WikiInv => OneCode
  BY DEF WikiInv
<1> QED
  BY <1>1, InitInv, Step, PTL DEF WikiSpec

(****************************************************************************)
(* Members asked with the code their wiki has, and no other wiki has it.    *)
(****************************************************************************)
THEOREM Invited == WikiSpec => []MembersAsked
<1>1. WikiInv => MembersAsked
  BY DEF WikiInv
<1> QED
  BY <1>1, InitInv, Step, PTL DEF WikiSpec

(****************************************************************************)
(* The inductive invariant that the others follow from.                     *)
(****************************************************************************)
THEOREM WikiInvariance == WikiSpec => []WikiInv
BY InitInv, Step, PTL DEF WikiSpec

(****************************************************************************)
(* The calls, statement by statement, implement the atomic Sharing.         *)
(****************************************************************************)
THEOREM WikisShare == WikiSpec => SharingSpec
<1>1. WikiInit => SharingInit
  BY DEF WikiInit
<1> QED
  BY <1>1, InitInv, Step, PTL DEF WikiSpec, SharingSpec
================================================================================
