------------------------------- MODULE PageStore -------------------------------
(****************************************************************************)
(* PageService.CreatePage and UpdatePage (backend/services/page.go), one    *)
(* step per call to the database, over one row of pages and its rows in     *)
(* revisions.                                                               *)
(*                                                                          *)
(* A call w is a goroutine (a REST or a WebSocket handler) and, while it is *)
(* in a transaction, a connection of the pool.  What a transaction wrote is *)
(* its own until it commits; reads see committed rows; FOR UPDATE and       *)
(* UPDATE take the lock on the row, which the transaction keeps to its end. *)
(* Page ids are made by the database, so a CreatePage call makes a page of  *)
(* its own: the page here is the first that is committed.                   *)
(*                                                                          *)
(* Faults:                                                                  *)
(*   "db"       a statement fails, or the answer to COMMIT is lost; a REST  *)
(*              client that hangs up cancels r.Context(), to the same end;  *)
(*   "restart"  the server process dies.  PostgreSQL ends its transactions  *)
(*              later, and a COMMIT that was sent may still be carried out. *)
(****************************************************************************)
EXTENDS Naturals, Sequences, FiniteSets

CONSTANTS
  Calls,       \* calls in progress at the same time
  Texts,       \* page contents
  Blank,       \* a title or content that validatePage rejects
  NoText,      \* no content: there is no such row
  NoCall,
  MaxVersion,  \* largest value of the column pages.version (2^31 - 1)
  PoolSize,    \* SetMaxOpenConns (25)
  Faults

ASSUME PageStoreAssumption ==
  /\ NoText \notin Texts
  /\ Blank \notin Texts
  /\ NoCall \notin Calls
  /\ MaxVersion \in Nat \ {0}
  /\ PoolSize \in Nat \ {0}
  /\ Faults \subseteq {"db", "restart"}

VARIABLES
  row,      \* the committed row of pages
  revs,     \* the committed rows of revisions, in the order of their commits
  holder,   \* the transaction that has the lock on the row
  wrote,    \* wrote[w]: the rows w's transaction wrote
  call,     \* call[w]: where w is, ExpectedVersion (0 for CreatePage), Content,
            \* and currentVersion once it is read
  answer    \* answer[w]: what the call returned, or is about to

vars == <<row, revs, holder, wrote, call, answer>>

Row == [version : 0..MaxVersion, text : Texts \union {NoText}]
Revision == [version : 1..MaxVersion, text : Texts, by : Calls]

NoRow == [version |-> 0, text |-> NoText]
NoRevision == [version |-> 0, text |-> NoText, by |-> NoCall]
NoRequest == [at |-> "idle", base |-> 0, seen |-> 0, text |-> NoText]
Nothing == [row |-> NoRow, revision |-> NoRevision]

Answer == {"none", "ok", "conflict", "missing", "invalid", "error"}

Place ==
  { "idle",       \* no call
    "begin",      \* BeginTx
    "lock",       \* SELECT version ... FOR UPDATE
    "insert",     \* INSERT INTO pages
    "update",     \* UPDATE pages
    "revision",   \* INSERT INTO revisions
    "commit",     \* tx.Commit
    "committed",  \* PostgreSQL has committed, the answer is on its way
    "rollback",   \* the deferred tx.Rollback
    "orphan" }    \* a transaction cut off from its client

\* The calls that hold a connection of the pool, and the open transactions.
Connected == {w \in Calls : call[w].at \notin {"idle", "begin", "orphan"}}
InTx(w) == call[w].at \notin {"idle", "begin", "committed"}

PageTypeOK ==
  /\ row \in Row
  /\ revs \in Seq(Revision)
  /\ holder \in Calls \union {NoCall}
  /\ wrote \in [Calls -> [row : Row, revision : Revision \union {NoRevision}]]
  /\ call \in [Calls -> [at : Place, base : Nat, seen : 0..MaxVersion,
                         text : Texts \union {Blank, NoText}]]
  /\ answer \in [Calls -> Answer]

Init ==
  /\ row = NoRow
  /\ revs = <<>>
  /\ holder = NoCall
  /\ wrote = [w \in Calls |-> Nothing]
  /\ call = [w \in Calls |-> NoRequest]
  /\ answer = [w \in Calls |-> "none"]

--------------------------------------------------------------------------------
Goto(w, p) == call' = [call EXCEPT ![w].at = p]

Read(w, p) == call' = [call EXCEPT ![w].at = p, ![w].seen = row.version]

\* The frames of w end.
Done(w) == call' = [call EXCEPT ![w] = NoRequest]

\* The call is going to return a; the transaction is still open.
Fail(w, a) ==
  /\ Goto(w, "rollback")
  /\ answer' = [answer EXCEPT ![w] = a]

\* The transaction of w is over and its lock free.
EndTx(w) ==
  /\ holder' = IF holder = w THEN NoCall ELSE holder
  /\ wrote' = [wrote EXCEPT ![w] = Nothing]

--------------------------------------------------------------------------------
(* The call and its validation. *)

Call(w, v, x) ==
  /\ call[w].at = "idle"
  /\ call' = [call EXCEPT ![w] =
                [at |-> "begin", base |-> v, seen |-> 0, text |-> x]]
  /\ answer' = [answer EXCEPT ![w] = "none"]
  /\ UNCHANGED <<row, revs, holder, wrote>>

CreatePage(w, x) ==
  /\ row = NoRow
  /\ \A u \in Calls : call[u].at # "idle" => call[u].base # 0
  /\ Call(w, 0, x)

UpdatePage(w, v, x) == v > 0 /\ Call(w, v, x)

Invalid(w) ==
  /\ call[w].at = "begin"
  /\ call[w].text = Blank
  /\ Done(w)
  /\ answer' = [answer EXCEPT ![w] = "invalid"]
  /\ UNCHANGED <<row, revs, holder, wrote>>

BeginTx(w) ==
  /\ call[w].at = "begin"
  /\ call[w].text # Blank
  /\ Cardinality(Connected) < PoolSize
  /\ Goto(w, IF call[w].base = 0 THEN "insert" ELSE "lock")
  /\ UNCHANGED <<row, revs, holder, wrote, answer>>

--------------------------------------------------------------------------------
(* The statements. *)

\* Mutant: SELECT version without FOR UPDATE.
LockRow_NotLocked(w) ==
  /\ call[w].at = "lock"
  /\ IF row = NoRow THEN Fail(w, "missing")
     ELSE IF row.version # call[w].base THEN Fail(w, "conflict")
     ELSE Read(w, "update") /\ UNCHANGED answer
  /\ UNCHANGED <<row, revs, holder, wrote>>

\* Mutant: no comparison with ExpectedVersion.
LockRow_AnyVersion(w) ==
  /\ call[w].at = "lock"
  /\ holder = NoCall
  /\ IF row = NoRow THEN Fail(w, "missing") /\ UNCHANGED holder
     ELSE holder' = w /\ Read(w, "update") /\ UNCHANGED answer
  /\ UNCHANGED <<row, revs, wrote>>

\* Waits for the lock, then reads the committed row; no row, no lock.
LockRow(w) ==
  /\ call[w].at = "lock"
  /\ holder = NoCall
  /\ \/ /\ row = NoRow
        /\ Fail(w, "missing")
        /\ UNCHANGED holder
     \/ /\ row # NoRow
        /\ row.version # call[w].base
        /\ holder' = w
        /\ Fail(w, "conflict")
     \/ /\ row # NoRow
        /\ row.version = call[w].base
        /\ holder' = w
        /\ Read(w, "update")
        /\ UNCHANGED answer
  /\ UNCHANGED <<row, revs, wrote>>

InsertPage(w) ==
  /\ call[w].at = "insert"
  /\ wrote' = [wrote EXCEPT ![w].row = [version |-> 1, text |-> call[w].text]]
  /\ Goto(w, "revision")
  /\ UNCHANGED <<row, revs, holder, answer>>

\* Mutant: the version is counted past the width of the column.
UpdateRow_Unbounded(w) ==
  /\ call[w].at = "update"
  /\ wrote' = [wrote EXCEPT ![w].row =
                 [version |-> call[w].seen + 1, text |-> call[w].text]]
  /\ Goto(w, "revision")
  /\ UNCHANGED <<row, revs, holder, answer>>

UpdateRow(w) ==
  /\ call[w].at = "update"
  /\ holder \in {w, NoCall}
  /\ holder' = w
  /\ \/ /\ call[w].seen < MaxVersion
        /\ wrote' = [wrote EXCEPT ![w].row =
                       [version |-> call[w].seen + 1, text |-> call[w].text]]
        /\ Goto(w, "revision")
        /\ UNCHANGED answer
     \/ /\ call[w].seen = MaxVersion      \* integer out of range
        /\ Fail(w, "error")
        /\ UNCHANGED wrote
  /\ UNCHANGED <<row, revs>>

\* Mutant: the revision is inserted through s.db, on a second connection.
InsertRevision_OtherConn(w) ==
  /\ call[w].at = "revision"
  /\ Cardinality(Connected) < PoolSize
  /\ wrote' = [wrote EXCEPT ![w].revision =
       [version |-> wrote[w].row.version, text |-> call[w].text, by |-> w]]
  /\ Goto(w, "commit")
  /\ UNCHANGED <<row, revs, holder, answer>>

InsertRevision(w) ==
  /\ call[w].at = "revision"
  /\ wrote' = [wrote EXCEPT ![w].revision =
       [version |-> wrote[w].row.version, text |-> call[w].text, by |-> w]]
  /\ Goto(w, "commit")
  /\ UNCHANGED <<row, revs, holder, answer>>

--------------------------------------------------------------------------------
(* The end of a transaction. *)

Apply(w) ==
  /\ row' = wrote[w].row
  /\ revs' = Append(revs, wrote[w].revision)
  /\ EndTx(w)

Commit(w) ==
  /\ call[w].at = "commit"
  /\ Apply(w)
  /\ Goto(w, "committed")
  /\ answer' = [answer EXCEPT ![w] = "ok"]

Return(w) ==
  /\ call[w].at = "committed"
  /\ Done(w)
  /\ UNCHANGED <<row, revs, holder, wrote, answer>>

Rollback(w) ==
  /\ call[w].at = "rollback"
  /\ EndTx(w)
  /\ Done(w)
  /\ UNCHANGED <<row, revs, answer>>

--------------------------------------------------------------------------------
(* Faults *)

BeginFails(w) ==
  /\ "db" \in Faults
  /\ call[w].at = "begin"
  /\ call[w].text # Blank
  /\ Done(w)
  /\ answer' = [answer EXCEPT ![w] = "error"]
  /\ UNCHANGED <<row, revs, holder, wrote>>

StatementFails(w) ==
  /\ "db" \in Faults
  /\ call[w].at \in {"lock", "insert", "update", "revision", "commit"}
  /\ Fail(w, "error")
  /\ UNCHANGED <<row, revs, holder, wrote>>

\* Mutant: the error of tx.Commit is ignored.
CommitLost_Ignored(w) ==
  /\ "db" \in Faults
  /\ \/ call[w].at = "committed" /\ Done(w)
     \/ call[w].at = "commit" /\ Goto(w, "orphan")
  /\ answer' = [answer EXCEPT ![w] = "ok"]
  /\ UNCHANGED <<row, revs, holder, wrote>>

\* The connection breaks after COMMIT was sent: PostgreSQL has carried it out,
\* or will, or will not.
CommitLost(w) ==
  /\ "db" \in Faults
  /\ \/ call[w].at = "committed" /\ Done(w)
     \/ call[w].at = "commit" /\ Goto(w, "orphan")
  /\ answer' = [answer EXCEPT ![w] = "error"]
  /\ UNCHANGED <<row, revs, holder, wrote>>

\* A transaction whose COMMIT was not sent cannot commit any more.
Restart ==
  /\ "restart" \in Faults
  /\ call' = [w \in Calls |->
       IF InTx(w) THEN [call[w] EXCEPT !.at = "orphan"] ELSE NoRequest]
  /\ wrote' = [w \in Calls |->
       IF call[w].at \in {"commit", "orphan"} THEN wrote[w] ELSE Nothing]
  /\ answer' = [w \in Calls |->
       IF call[w].at \in {"idle", "orphan"} THEN answer[w] ELSE "none"]
  /\ UNCHANGED <<row, revs, holder>>

EndOrphan(w) ==
  /\ call[w].at = "orphan"
  /\ \/ wrote[w].revision # NoRevision /\ Apply(w)
     \/ EndTx(w) /\ UNCHANGED <<row, revs>>
  /\ Done(w)
  /\ UNCHANGED answer

--------------------------------------------------------------------------------
Progress(w) ==
  \/ Invalid(w) \/ InsertPage(w) \/ UpdateRow(w) \/ InsertRevision(w)
  \/ Commit(w) \/ Return(w) \/ Rollback(w) \/ EndOrphan(w)

Next ==
  \/ Restart
  \/ \E w \in Calls :
       \/ Progress(w) \/ BeginTx(w) \/ LockRow(w)
       \/ BeginFails(w) \/ StatementFails(w) \/ CommitLost(w)
       \/ \E x \in Texts \union {Blank} :
            CreatePage(w, x) \/ \E v \in 1..MaxVersion : UpdatePage(w, v, x)

Spec == Init /\ [][Next]_vars

(****************************************************************************)
(* PostgreSQL answers every statement in the end, ends the transactions of  *)
(* a dead client, and grants a row lock in the order of the requests; the   *)
(* pool hands every connection that comes back to one of those who wait.    *)
(* Hence SF for the two steps that wait.  When a call is made, and whether  *)
(* anything fails, is left open.                                            *)
(****************************************************************************)
Fairness ==
  \A w \in Calls :
    WF_vars(Progress(w)) /\ SF_vars(BeginTx(w)) /\ SF_vars(LockRow(w))

FairSpec == Spec /\ Fairness

--------------------------------------------------------------------------------
(****************************************************************************)
(* The revisions of a page are its versions, one each and in order, and the *)
(* row is the newest of them, whatever fails and however calls overlap: no  *)
(* version is lost, recorded twice, or left without its revision.           *)
(****************************************************************************)
RevisionsMatch ==
  /\ Len(revs) = row.version
  /\ \A i \in DOMAIN revs : revs[i].version = i
  /\ row # NoRow => revs[Len(revs)].text = row.text

(****************************************************************************)
(* Why it holds.  A transaction that may still change the row (Live) works  *)
(* on the version the row has now.  It has the lock on the row, or it is    *)
(* the only CreatePage and there is no row yet (Isolated), so no two are    *)
(* ever live; and what it has written follows from its request alone        *)
(* (Written).                                                               *)
(****************************************************************************)
Live(w) ==
  \/ call[w].at \in {"insert", "update", "revision", "commit"}
  \/ call[w].at = "orphan" /\ wrote[w].revision # NoRevision

NewRow(w) == [version |-> call[w].base + 1, text |-> call[w].text]
NewRevision(w) == [version |-> call[w].base + 1, text |-> call[w].text, by |-> w]

Requested(w) ==
  /\ call[w].at = "idle" => call[w] = NoRequest
  /\ call[w].at \notin {"idle", "begin"} => call[w].text \in Texts
  /\ call[w].at = "begin" => call[w].text \in Texts \union {Blank}
  /\ call[w].at = "insert" => call[w].base = 0
  /\ call[w].at \in {"lock", "update"} => call[w].base > 0
  /\ call[w].at = "update" => call[w].seen = call[w].base

Written(w) ==
  /\ call[w].at \in {"idle", "begin", "lock", "insert", "update", "committed"} =>
       wrote[w] = Nothing
  /\ call[w].at = "revision" =>
       wrote[w] = [row |-> NewRow(w), revision |-> NoRevision]
  /\ Live(w) /\ call[w].at \in {"commit", "orphan"} =>
       wrote[w] = [row |-> NewRow(w), revision |-> NewRevision(w)]

Isolated(w) ==
  /\ Live(w) => row.version = call[w].base
  /\ Live(w) /\ call[w].base > 0 => holder = w
  /\ call[w].at = "begin" /\ call[w].base = 0 => row = NoRow

Answered(w) ==
  /\ call[w].at \in {"begin", "lock", "insert", "update", "revision", "commit"} =>
       answer[w] = "none"
  /\ call[w].at = "committed" => answer[w] = "ok"
  /\ call[w].at = "rollback" => answer[w] \in {"conflict", "missing", "error"}
  /\ call[w].at = "orphan" => answer[w] \in {"none", "error"}

Creating(w) == call[w].at # "idle" /\ call[w].base = 0

PageInv ==
  /\ row.version = 0 => row = NoRow
  /\ \A w \in Calls : Requested(w) /\ Written(w) /\ Isolated(w) /\ Answered(w)
  /\ \A u, w \in Calls : Creating(u) /\ Creating(w) => u = w
  /\ RevisionsMatch

(****************************************************************************)
(* The promise of VersionedPage: every call takes effect at one moment or   *)
(* not at all, on the version it was made on only, and "ok" and "conflict"  *)
(* say which.                                                               *)
(****************************************************************************)
StageOf(w) ==
  CASE call[w].at \in {"begin", "lock", "insert", "update", "revision", "commit"} ->
         "asked"
    [] call[w].at = "committed" -> "stored"
    [] call[w].at = "rollback" ->
         IF answer[w] \in {"conflict", "missing"} THEN "refused" ELSE "asked"
    [] call[w].at = "orphan" ->
         IF wrote[w].revision # NoRevision THEN "asked" ELSE "idle"
    [] OTHER -> "idle"

RequestOf(w) ==
  IF StageOf(w) = "idle" THEN [stage |-> "idle", base |-> 0, text |-> NoText]
  ELSE [stage |-> StageOf(w), base |-> call[w].base, text |-> call[w].text]

AnswerOf(w) == IF call[w].at \in {"idle", "orphan"} THEN answer[w] ELSE "none"

History == [i \in DOMAIN revs |-> [text |-> revs[i].text, by |-> revs[i].by]]

Page == INSTANCE VersionedPage WITH
  Callers <- Calls,
  Texts <- Texts \union {Blank},
  history <- History,
  call <- [w \in Calls |-> RequestOf(w)],
  answer <- [w \in Calls |-> AnswerOf(w)]

PageSpec == Page!PageSpec

(****************************************************************************)
(* Every call returns: with all connections of the pool taken and everybody *)
(* after the same row, nobody waits for ever.                               *)
(****************************************************************************)
CallsReturn == \A w \in Calls : call[w].at # "idle" ~> call[w].at = "idle"
================================================================================
