---------------------------------- MODULE Wikis ---------------------------------
(****************************************************************************)
(* Wikis, invite codes and membership: backend/services/wiki.go over the    *)
(* tables of Sharing, which it implements: the property SharingSpec.        *)
(*                                                                          *)
(* A call c is one request in a goroutine of its own.  CreateWiki,          *)
(* GenerateShareCode and JoinByCode are cut at every statement; none of     *)
(* them runs in a transaction, so each statement is a step that others see. *)
(* A wiki has the name of its id, and a random code is any code.            *)
(****************************************************************************)
EXTENDS Sharing

CONSTANT Calls

VARIABLES
  job,      \* job[c]: where call c is, and what it works on
  given,    \* given[w]: codes answered to the owner of w (history)
  asked     \* asked: pairs of a code and a user who asked to join (history)

wikiVars == <<sharingVars, job, given, asked>>

Place ==
  { "idle",
    "create",   \* CreateWiki
    "own",      \* GenerateShareCode before AssertOwner
    "read",     \* ... before it looks for a code
    "insert",   \* ... before INSERT
    "reread",   \* ... after INSERT
    "lookup",   \* JoinByCode before it looks for the wiki
    "enrol",    \* ... before INSERT
    "get",      \* ... before GetWiki
    "done", "failed" }

Job ==
  [at : Place, user : Users \union {Nobody}, wiki : WikiIds \union {NoWiki},
   code : Codes \union {NoCode}]

Idle == [at |-> "idle", user |-> Nobody, wiki |-> NoWiki, code |-> NoCode]

WikiTypeOK ==
  /\ owner \in [WikiIds -> Users \union {Nobody}]
  /\ members \subseteq WikiIds \X Users
  /\ code \in [WikiIds -> Codes \union {NoCode}]
  /\ job \in [Calls -> Job]
  /\ given \in [WikiIds -> SUBSET Codes]
  /\ asked \subseteq Codes \X Users

WikiInit ==
  /\ SharingInit
  /\ job = [c \in Calls |-> Idle]
  /\ given = [w \in WikiIds |-> {}]
  /\ asked = {}

--------------------------------------------------------------------------------
At(c, p) == job[c].at = p

\* The call goes on at p with wiki w and code k ...
Carry(c, p, w, k) ==
  job' = [job EXCEPT ![c] = [at |-> p, user |-> @.user, wiki |-> w, code |-> k]]

\* ... with what it has ...
Goto(c, p) == Carry(c, p, job[c].wiki, job[c].code)

\* ... or ends with them as its answer.
Answer(c, w, k) == Carry(c, "done", w, k)

\* A request comes in; p is "create", "own" or "lookup".
Ask(c, p, u, w, k) ==
  /\ At(c, "idle")
  /\ job' = [job EXCEPT ![c] = [at |-> p, user |-> u, wiki |-> w, code |-> k]]
  /\ asked' = IF p = "lookup" THEN asked \union {<<k, u>>} ELSE asked
  /\ UNCHANGED <<owner, members, code, given>>

CreateWiki(c) ==
  /\ At(c, "create")
  /\ \E w \in WikiIds :
       /\ owner[w] = Nobody
       /\ owner' = [owner EXCEPT ![w] = job[c].user]
       /\ Answer(c, w, NoCode)
  /\ UNCHANGED <<members, code, given, asked>>

AssertOwner(c) ==
  /\ At(c, "own")
  /\ Goto(c, IF owner[job[c].wiki] = job[c].user THEN "read" ELSE "failed")
  /\ UNCHANGED <<owner, members, code, given, asked>>

\* The code of the wiki is the answer.
AnswerCode(c) ==
  LET w == job[c].wiki IN
  /\ code[w] # NoCode
  /\ Answer(c, w, code[w])
  /\ given' = [given EXCEPT ![w] = @ \union {code[w]}]

ReadCode(c) ==
  /\ At(c, "read")
  /\ \/ AnswerCode(c)
     \/ code[job[c].wiki] = NoCode /\ Goto(c, "insert") /\ UNCHANGED given
  /\ UNCHANGED <<owner, members, code, asked>>

\* Mutant: ON CONFLICT (wiki_id) DO UPDATE.
InsertCode_Update(c) ==
  /\ At(c, "insert")
  /\ \E k \in Codes : code' = [code EXCEPT ![job[c].wiki] = k]
  /\ Goto(c, "reread")
  /\ UNCHANGED <<owner, members, given, asked>>

\* ON CONFLICT (wiki_id) DO NOTHING; a code that another wiki has is an error.
InsertCode(c) ==
  LET w == job[c].wiki IN
  /\ At(c, "insert")
  /\ \/ code[w] # NoCode /\ Goto(c, "reread") /\ UNCHANGED code
     \/ /\ code[w] = NoCode
        /\ \E k \in Codes :
             \/ /\ \A v \in WikiIds : code[v] # k
                /\ code' = [code EXCEPT ![w] = k]
                /\ Goto(c, "reread")
             \/ /\ \E v \in WikiIds : code[v] = k
                /\ Goto(c, "failed")
                /\ UNCHANGED code
  /\ UNCHANGED <<owner, members, given, asked>>

\* Mutant: the code just drawn is answered, without reading it again.
RereadCode_Drawn(c) ==
  /\ At(c, "reread")
  /\ \E k \in Codes :
       /\ Answer(c, job[c].wiki, k)
       /\ given' = [given EXCEPT ![job[c].wiki] = @ \union {k}]
  /\ UNCHANGED <<owner, members, code, asked>>

RereadCode(c) ==
  /\ At(c, "reread")
  /\ AnswerCode(c)
  /\ UNCHANGED <<owner, members, code, asked>>

\* Mutant: the wiki of any code will do.
LookUp_Any(c) ==
  /\ At(c, "lookup")
  /\ \E w \in WikiIds :
       code[w] # NoCode /\ Carry(c, "enrol", w, job[c].code)
  /\ UNCHANGED <<owner, members, code, given, asked>>

\* Mutant: an unknown code is not told apart from a known one.
LookUp_Unchecked(c) ==
  /\ At(c, "lookup")
  /\ \/ \E w \in WikiIds :
          code[w] = job[c].code /\ Carry(c, "enrol", w, job[c].code)
     \/ (\A w \in WikiIds : code[w] # job[c].code) /\ Goto(c, "enrol")
  /\ UNCHANGED <<owner, members, code, given, asked>>

LookUp(c) ==
  /\ At(c, "lookup")
  /\ \/ \E w \in WikiIds :
          /\ code[w] = job[c].code
          /\ Carry(c, "enrol", w, job[c].code)
     \/ (\A w \in WikiIds : code[w] # job[c].code) /\ Goto(c, "failed")
  /\ UNCHANGED <<owner, members, code, given, asked>>

Enrol(c) ==
  /\ At(c, "enrol")
  /\ members' = members \union {<<job[c].wiki, job[c].user>>}
  /\ Goto(c, "get")
  /\ UNCHANGED <<owner, code, given, asked>>

GetWiki(c) ==
  /\ At(c, "get")
  /\ Goto(c, "done")
  /\ UNCHANGED <<owner, members, code, given, asked>>

\* A statement fails, the input is not valid, or the answer is lost.  The
\* statements that succeeded before stay in place.
Fail(c) ==
  /\ job[c].at \notin {"idle", "failed"}
  /\ Goto(c, "failed")
  /\ UNCHANGED <<owner, members, code, given, asked>>

Return(c) ==
  /\ job[c].at \in {"done", "failed"}
  /\ job' = [job EXCEPT ![c] = Idle]
  /\ UNCHANGED <<owner, members, code, given, asked>>

Serve(c) ==
  \/ CreateWiki(c) \/ AssertOwner(c) \/ ReadCode(c) \/ InsertCode(c)
  \/ RereadCode(c) \/ LookUp(c) \/ Enrol(c) \/ GetWiki(c) \/ Fail(c)

WikiNext ==
  \E c \in Calls :
    \/ Serve(c) \/ Return(c)
    \/ \E u \in Users :
         \/ Ask(c, "create", u, NoWiki, NoCode)
         \/ \E w \in WikiIds : Ask(c, "own", u, w, NoCode)
         \/ \E k \in Codes : Ask(c, "lookup", u, NoWiki, k)

WikiSpec == WikiInit /\ [][WikiNext]_wikiVars

--------------------------------------------------------------------------------
(****************************************************************************)
(* "one permanent invite code per wiki" (002_sharing.sql:12): every code    *)
(* ever answered to an owner is the wiki's code, although two requests may  *)
(* both find no code and both insert one.                                   *)
(****************************************************************************)
OneCode == \A w \in WikiIds : given[w] \subseteq {code[w]}

(****************************************************************************)
(* A member of a wiki asked to join with the code that the wiki has now,    *)
(* and no other wiki has that code: JoinByCode finds the wiki in one        *)
(* statement and enrols in another (wiki.go:186-206).                       *)
(****************************************************************************)
MembersAsked ==
  \A w \in WikiIds : \A u \in Users :
    <<w, u>> \in members =>
      /\ <<code[w], u>> \in asked
      /\ \A v \in WikiIds \ {w} : code[v] # code[w]

(****************************************************************************)
(* The inductive invariant: what calls rely on between their statements     *)
(* (wiki.go:141-208).                                                       *)
(****************************************************************************)
Caller(c) == At(c, "idle") \/ job[c].user \in Users

OfWiki(c) ==
  job[c].at \in {"own", "read", "insert", "reread"} => job[c].wiki \in WikiIds

ByOwner(c) ==
  job[c].at \in {"read", "insert", "reread"} =>
    owner[job[c].wiki] = job[c].user

Inserted(c) == At(c, "reread") => code[job[c].wiki] # NoCode

Joiner(c) ==
  /\ job[c].at \in {"lookup", "enrol"} =>
       <<job[c].code, job[c].user>> \in asked
  /\ At(c, "enrol") =>
       job[c].wiki \in WikiIds /\ code[job[c].wiki] = job[c].code

CallInv(c) == Caller(c) /\ OfWiki(c) /\ ByOwner(c) /\ Inserted(c) /\ Joiner(c)

Distinct ==
  \A v, w \in WikiIds : code[v] = code[w] => v = w \/ code[v] = NoCode

\* Only wikis that exist have codes.
Owned == \A w \in WikiIds : code[w] # NoCode => owner[w] \in Users

WikiInv ==
  /\ WikiTypeOK
  /\ OneCode /\ MembersAsked /\ Distinct /\ Owned
  /\ \A c \in Calls : CallInv(c)
================================================================================
