--------------------------- MODULE PageStoreProofs ---------------------------
(****************************************************************************)
(* Theorems about PageStore, for every number of calls, every size of the   *)
(* pool, every width of the version column and every choice of faults: the  *)
(* revisions of a page are its versions, and the transactions implement the *)
(* compare-and-set register of VersionedPage.                               *)
(****************************************************************************)
EXTENDS PageStore, TLAPS

IInv == PageTypeOK /\ PageInv

CallType == [at : Place, base : Nat, seen : 0..MaxVersion,
             text : Texts \union {Blank, NoText}]
WroteType == [row : Row, revision : Revision \union {NoRevision}]

--------------------------------------------------------------------------------
(* The helpers on call and answer. *)

\* Goto moves w and leaves its request alone.
LEMMA GotoFacts ==
  ASSUME call \in [Calls -> CallType], NEW w \in Calls, NEW p \in Place, Goto(w, p)
  PROVE  /\ call' \in [Calls -> CallType]
         /\ call'[w] = [call[w] EXCEPT !.at = p]
         /\ \A u \in Calls \ {w} : call'[u] = call[u]
  BY DEF Goto, CallType

\* Read also notes the version.
LEMMA ReadFacts ==
  ASSUME call \in [Calls -> CallType], NEW w \in Calls, NEW p \in Place,
         row \in Row, Read(w, p)
  PROVE  /\ call' \in [Calls -> CallType]
         /\ call'[w] = [call[w] EXCEPT !.at = p, !.seen = row.version]
         /\ \A u \in Calls \ {w} : call'[u] = call[u]
  BY DEF Read, CallType, Row

\* Done leaves nothing of w.
LEMMA DoneFacts ==
  ASSUME call \in [Calls -> CallType], NEW w \in Calls, Done(w), PageStoreAssumption
  PROVE  /\ call' \in [Calls -> CallType]
         /\ call'[w] = NoRequest
         /\ \A u \in Calls \ {w} : call'[u] = call[u]
  BY DEF Done, CallType, NoRequest, Place, PageStoreAssumption

\* EndTx ends w's transaction and nobody else's.
LEMMA EndTxFacts ==
  ASSUME wrote \in [Calls -> WroteType], holder \in Calls \union {NoCall},
         NEW w \in Calls, EndTx(w), PageStoreAssumption
  PROVE  /\ wrote' \in [Calls -> WroteType]
         /\ holder' \in Calls \union {NoCall}
         /\ wrote'[w] = Nothing
         /\ \A u \in Calls \ {w} : wrote'[u] = wrote[u]
         /\ \A u \in Calls \ {w} : holder = u => holder' = u
  BY DEF EndTx, WroteType, Nothing, Row, NoRow, PageStoreAssumption


--------------------------------------------------------------------------------
(* A call that a step leaves alone keeps its part of the invariant. *)

CallInv(u) == Requested(u) /\ Written(u) /\ Isolated(u) /\ Answered(u)

LEMMA Frame ==
  ASSUME NEW u \in Calls, CallInv(u),
         call'[u] = call[u], wrote'[u] = wrote[u], answer'[u] = answer[u],
         row' = row, holder = u => holder' = u
  PROVE  CallInv(u)'
  BY
    DEF CallInv, Requested, Written, Isolated, Answered, Live, NewRow,
        NewRevision

\* A step of w that leaves the committed rows alone keeps the invariant if it
\* keeps w's part of it.
LEMMA OneCall ==
  ASSUME IInv, NEW w \in Calls, PageTypeOK', CallInv(w)',
         UNCHANGED <<row, revs>>,
         \A u \in Calls \ {w} :
           /\ call'[u] = call[u] /\ wrote'[u] = wrote[u] /\ answer'[u] = answer[u]
           /\ holder = u => holder' = u,
         Creating(w)' => Creating(w)
  PROVE  IInv'
  <1>1. \A u \in Calls : CallInv(u)'
    BY Frame DEF IInv, PageInv, CallInv
  <1>2. \A u, v \in Calls : Creating(u)' /\ Creating(v)' => u = v
    BY DEF IInv, PageInv, Creating
  <1>3. RevisionsMatch' /\ (row.version = 0 => row = NoRow)'
    BY DEF IInv, PageInv, RevisionsMatch
  <1> QED
    BY <1>1, <1>2, <1>3 DEF IInv, PageInv, CallInv

\* Answers are set at w only.
LEMMA AnswerFacts ==
  ASSUME answer \in [Calls -> Answer], NEW w \in Calls, NEW a \in Answer,
         answer' = [answer EXCEPT ![w] = a]
  PROVE  /\ answer' \in [Calls -> Answer]
         /\ answer'[w] = a
         /\ \A u \in Calls \ {w} : answer'[u] = answer[u]
  OBVIOUS

--------------------------------------------------------------------------------
(* One lemma per action. *)

\* A call that fails its validation has done nothing.
LEMMA InvalidKeeps ==
  ASSUME IInv, PageStoreAssumption, NEW w \in Calls, Invalid(w)
  PROVE  IInv'
  <1>0. PageTypeOK /\ CallInv(w)
    BY DEF IInv, PageInv, CallInv
  <1>1. /\ call' \in [Calls -> CallType]
        /\ call'[w] = NoRequest
        /\ \A u \in Calls \ {w} : call'[u] = call[u]
    BY <1>0, DoneFacts DEF PageTypeOK, Invalid, CallType
  <1>2. /\ answer' \in [Calls -> Answer]
        /\ answer'[w] = "invalid"
        /\ \A u \in Calls \ {w} : answer'[u] = answer[u]
    BY <1>0, AnswerFacts DEF PageTypeOK, Invalid, Answer
  <1>3. PageTypeOK'
    BY <1>0, <1>1, <1>2 DEF PageTypeOK, Invalid, CallType
  <1>4. CallInv(w)'
    BY <1>0, <1>1, <1>2
      DEF Invalid, NoRequest, CallInv, Requested, Written, Isolated, Answered,
          Live
  <1>5. Creating(w)' => Creating(w)
    BY <1>0, <1>1 DEF Invalid, Creating, NoRequest, PageTypeOK, CallType
  <1> QED
    BY <1>1, <1>3, <1>4, <1>5, OneCall, <1>2 DEF Invalid

\* A transaction that begins has written nothing.
LEMMA BeginTxKeeps ==
  ASSUME IInv, PageStoreAssumption, NEW w \in Calls, BeginTx(w)
  PROVE  IInv'
  <1>0. PageTypeOK /\ CallInv(w)
    BY DEF IInv, PageInv, CallInv
  <1>1. /\ call' \in [Calls -> CallType]
        /\ call'[w] = [call[w] EXCEPT !.at = IF call[w].base = 0 THEN "insert" ELSE "lock"]
        /\ \A u \in Calls \ {w} : call'[u] = call[u]
    BY <1>0, GotoFacts DEF PageTypeOK, BeginTx, CallType, Place
  <1>2. PageTypeOK'
    BY <1>0, <1>1 DEF PageTypeOK, BeginTx, CallType
  <1>3. CallInv(w)'
    BY <1>0, <1>1
      DEF BeginTx, NoRow, PageTypeOK, CallType, CallInv, Requested, Written,
          Isolated, Answered, Live
  <1>4. Creating(w)' => Creating(w)
    BY <1>0, <1>1 DEF BeginTx, Creating, NoRequest, PageTypeOK, CallType
  <1> QED
    BY <1>1, <1>2, <1>3, <1>4, OneCall DEF BeginTx

\* The new row is the requested one.
LEMMA InsertPageKeeps ==
  ASSUME IInv, PageStoreAssumption, NEW w \in Calls, InsertPage(w)
  PROVE  IInv'
  <1>0. PageTypeOK /\ CallInv(w)
    BY DEF IInv, PageInv, CallInv
  <1>1. /\ call' \in [Calls -> CallType]
        /\ call'[w] = [call[w] EXCEPT !.at = "revision"]
        /\ \A u \in Calls \ {w} : call'[u] = call[u]
    BY <1>0, GotoFacts DEF PageTypeOK, InsertPage, CallType, Place
  <1>2. /\ wrote' \in [Calls -> WroteType]
        /\ wrote'[w] = [row |-> NewRow(w)', revision |-> NoRevision]
        /\ \A u \in Calls \ {w} : wrote'[u] = wrote[u]
    BY <1>0, <1>1
      DEF PageTypeOK, InsertPage, CallType, WroteType, Row, NewRow, Nothing,
       CallInv, Requested, Written, PageStoreAssumption
  <1>3. PageTypeOK'
    BY <1>0, <1>1, <1>2 DEF PageTypeOK, InsertPage, CallType, WroteType
  <1>4. CallInv(w)'
    BY <1>0, <1>1, <1>2
      DEF InsertPage, PageTypeOK, CallType, CallInv, Requested, Written, Isolated,
          Answered, Live
  <1>5. Creating(w)' => Creating(w)
    BY <1>0, <1>1 DEF InsertPage, Creating, NoRequest, PageTypeOK, CallType
  <1> QED
    BY <1>1, <1>3, <1>4, <1>5, OneCall, <1>2 DEF InsertPage

\* The answer is delivered.
LEMMA ReturnKeeps ==
  ASSUME IInv, PageStoreAssumption, NEW w \in Calls, Return(w)
  PROVE  IInv'
  <1>0. PageTypeOK /\ CallInv(w)
    BY DEF IInv, PageInv, CallInv
  <1>1. /\ call' \in [Calls -> CallType]
        /\ call'[w] = NoRequest
        /\ \A u \in Calls \ {w} : call'[u] = call[u]
    BY <1>0, DoneFacts DEF PageTypeOK, Return, CallType
  <1>2. PageTypeOK'
    BY <1>0, <1>1 DEF PageTypeOK, Return, CallType
  <1>3. CallInv(w)'
    BY <1>0, <1>1
      DEF Return, NoRequest, CallInv, Requested, Written, Isolated, Answered,
          Live
  <1>4. Creating(w)' => Creating(w)
    BY <1>0, <1>1 DEF Return, Creating, NoRequest, PageTypeOK, CallType
  <1> QED
    BY <1>1, <1>2, <1>3, <1>4, OneCall DEF Return

\* A transaction that does not begin leaves nothing.
LEMMA BeginFailsKeeps ==
  ASSUME IInv, PageStoreAssumption, NEW w \in Calls, BeginFails(w)
  PROVE  IInv'
  <1>0. PageTypeOK /\ CallInv(w)
    BY DEF IInv, PageInv, CallInv
  <1>1. /\ call' \in [Calls -> CallType]
        /\ call'[w] = NoRequest
        /\ \A u \in Calls \ {w} : call'[u] = call[u]
    BY <1>0, DoneFacts DEF PageTypeOK, BeginFails, CallType
  <1>2. /\ answer' \in [Calls -> Answer]
        /\ answer'[w] = "error"
        /\ \A u \in Calls \ {w} : answer'[u] = answer[u]
    BY <1>0, AnswerFacts DEF PageTypeOK, BeginFails, Answer
  <1>3. PageTypeOK'
    BY <1>0, <1>1, <1>2 DEF PageTypeOK, BeginFails, CallType
  <1>4. CallInv(w)'
    BY <1>0, <1>1, <1>2
      DEF BeginFails, NoRequest, CallInv, Requested, Written, Isolated,
          Answered, Live
  <1>5. Creating(w)' => Creating(w)
    BY <1>0, <1>1 DEF BeginFails, Creating, NoRequest, PageTypeOK, CallType
  <1> QED
    BY <1>1, <1>3, <1>4, <1>5, OneCall, <1>2 DEF BeginFails

\* A failed statement changes nothing that is committed.
LEMMA StatementFailsKeeps ==
  ASSUME IInv, PageStoreAssumption, NEW w \in Calls, StatementFails(w)
  PROVE  IInv'
  <1>0. PageTypeOK /\ CallInv(w)
    BY DEF IInv, PageInv, CallInv
  <1>1. /\ call' \in [Calls -> CallType]
        /\ call'[w] = [call[w] EXCEPT !.at = "rollback"]
        /\ \A u \in Calls \ {w} : call'[u] = call[u]
    BY <1>0, GotoFacts DEF PageTypeOK, StatementFails, CallType, Place, Fail
  <1>2. /\ answer' \in [Calls -> Answer]
        /\ answer'[w] = "error"
        /\ \A u \in Calls \ {w} : answer'[u] = answer[u]
    BY <1>0, AnswerFacts DEF PageTypeOK, StatementFails, Answer, Fail
  <1>3. PageTypeOK'
    BY <1>0, <1>1, <1>2 DEF PageTypeOK, StatementFails, CallType
  <1>4. CallInv(w)'
    BY <1>0, <1>1, <1>2
      DEF StatementFails, PageTypeOK, CallType, CallInv, Requested, Written,
          Isolated, Answered, Live
  <1>5. Creating(w)' => Creating(w)
    BY <1>0, <1>1 DEF StatementFails, Creating, NoRequest, PageTypeOK, CallType
  <1> QED
    BY <1>1, <1>3, <1>4, <1>5, OneCall, <1>2 DEF StatementFails

\* A rollback undoes w's writes and frees w's lock.
LEMMA RollbackKeeps ==
  ASSUME IInv, PageStoreAssumption, NEW w \in Calls, Rollback(w)
  PROVE  IInv'
  <1>0. PageTypeOK /\ CallInv(w)
    BY DEF IInv, PageInv, CallInv
  <1>1. /\ call' \in [Calls -> CallType]
        /\ call'[w] = NoRequest
        /\ \A u \in Calls \ {w} : call'[u] = call[u]
    BY <1>0, DoneFacts DEF PageTypeOK, Rollback, CallType
  <1>2. /\ wrote' \in [Calls -> WroteType]
        /\ holder' \in Calls \union {NoCall}
        /\ wrote'[w] = Nothing
        /\ \A u \in Calls \ {w} : wrote'[u] = wrote[u]
        /\ \A u \in Calls \ {w} : holder = u => holder' = u
    BY <1>0, EndTxFacts DEF PageTypeOK, Rollback, WroteType
  <1>3. PageTypeOK'
    BY <1>0, <1>1, <1>2 DEF PageTypeOK, Rollback, CallType, WroteType
  <1>4. CallInv(w)'
    BY <1>0, <1>1, <1>2
      DEF Rollback, NoRequest, CallInv, Requested, Written, Isolated, Answered,
          Live
  <1>5. Creating(w)' => Creating(w)
    BY <1>0, <1>1 DEF Rollback, Creating, NoRequest, PageTypeOK, CallType
  <1> QED
    BY <1>1, <1>3, <1>4, <1>5, OneCall, <1>2 DEF Rollback

\* The new revision is the requested one.
LEMMA InsertRevisionKeeps ==
  ASSUME IInv, PageStoreAssumption, NEW w \in Calls, InsertRevision(w)
  PROVE  IInv'
  <1>0. PageTypeOK /\ CallInv(w)
    BY DEF IInv, PageInv, CallInv
  <1>1. /\ call' \in [Calls -> CallType]
        /\ call'[w] = [call[w] EXCEPT !.at = "commit"]
        /\ \A u \in Calls \ {w} : call'[u] = call[u]
    BY <1>0, GotoFacts DEF PageTypeOK, InsertRevision, CallType, Place
  <1>2. /\ NewRow(w) \in Row /\ NewRevision(w) \in Revision
        /\ wrote[w] = [row |-> NewRow(w), revision |-> NoRevision]
    BY <1>0
      DEF PageTypeOK, InsertRevision, CallType, WroteType, Row, Revision, NewRow,
       NewRevision, CallInv, Requested, Written
  <1>3. /\ wrote' \in [Calls -> WroteType]
        /\ wrote'[w] = [row |-> NewRow(w)', revision |-> NewRevision(w)']
        /\ \A u \in Calls \ {w} : wrote'[u] = wrote[u]
    BY <1>0, <1>1, <1>2
      DEF PageTypeOK, InsertRevision, CallType, WroteType, NewRow, NewRevision
  <1>4. PageTypeOK'
    BY <1>0, <1>1, <1>3 DEF PageTypeOK, InsertRevision, CallType, WroteType
  <1>5. CallInv(w)'
    BY <1>0, <1>1, <1>3
      DEF InsertRevision, PageTypeOK, CallType, CallInv, Requested, Written,
          Isolated, Answered, Live
  <1>6. Creating(w)' => Creating(w)
    BY <1>0, <1>1 DEF InsertRevision, Creating, NoRequest, PageTypeOK, CallType
  <1> QED
    BY <1>1, <1>4, <1>5, <1>6, OneCall, <1>3 DEF InsertRevision

\* A transaction cut off at COMMIT is live for as long as it is open.
LEMMA CommitLostKeeps ==
  ASSUME IInv, PageStoreAssumption, NEW w \in Calls, CommitLost(w)
  PROVE  IInv'
  <1>0. PageTypeOK /\ CallInv(w)
    BY DEF IInv, PageInv, CallInv
  <1>1. /\ call' \in [Calls -> CallType]
        /\ \/ call[w].at = "committed" /\ call'[w] = NoRequest
           \/ call[w].at = "commit" /\ call'[w] = [call[w] EXCEPT !.at = "orphan"]
        /\ \A u \in Calls \ {w} : call'[u] = call[u]
    BY <1>0, GotoFacts, DoneFacts DEF PageTypeOK, CommitLost, CallType, Place
  <1>2. /\ answer' \in [Calls -> Answer]
        /\ answer'[w] = "error"
        /\ \A u \in Calls \ {w} : answer'[u] = answer[u]
    BY <1>0, AnswerFacts DEF PageTypeOK, CommitLost, Answer
  <1>3. PageTypeOK'
    BY <1>0, <1>1, <1>2 DEF PageTypeOK, CommitLost, CallType
  <1>4. CallInv(w)'
    BY <1>0, <1>1, <1>2
      DEF CommitLost, NoRequest, PageTypeOK, CallType, NewRow, NewRevision, CallInv,
          Requested, Written, Isolated, Answered, Live
  <1>5. Creating(w)' => Creating(w)
    BY <1>0, <1>1 DEF CommitLost, Creating, NoRequest, PageTypeOK, CallType
  <1> QED
    BY <1>1, <1>3, <1>4, <1>5, OneCall, <1>2 DEF CommitLost

\* A new call starts with a clean record.
LEMMA UpdatePageKeeps ==
  ASSUME IInv, PageStoreAssumption, NEW w \in Calls, NEW v \in 1..MaxVersion,
         NEW x \in Texts \union {Blank}, UpdatePage(w, v, x)
  PROVE  IInv'
  <1>0. PageTypeOK /\ CallInv(w)
    BY DEF IInv, PageInv, CallInv
  <1>1. /\ call' \in [Calls -> CallType]
        /\ call'[w] = [at |-> "begin", base |-> v, seen |-> 0, text |-> x]
        /\ \A u \in Calls \ {w} : call'[u] = call[u]
    BY <1>0 DEF PageTypeOK, UpdatePage, Call, CallType, Place, PageStoreAssumption
  <1>2. /\ answer' \in [Calls -> Answer]
        /\ answer'[w] = "none"
        /\ \A u \in Calls \ {w} : answer'[u] = answer[u]
    BY <1>0, AnswerFacts DEF PageTypeOK, UpdatePage, Answer, Call
  <1>3. PageTypeOK'
    BY <1>0, <1>1, <1>2 DEF PageTypeOK, UpdatePage, Call, CallType
  <1>4. CallInv(w)'
    BY <1>0, <1>1, <1>2
      DEF UpdatePage, Call, NoRequest, CallInv, Requested, Written, Isolated,
          Answered, Live
  <1>5. Creating(w)' => Creating(w)
    BY <1>0, <1>1 DEF UpdatePage, Creating, NoRequest, PageTypeOK, CallType
  <1> QED
    BY <1>1, <1>3, <1>4, <1>5, OneCall, <1>2 DEF UpdatePage, Call

\* Without the lock no transaction gets past the version check.
LEMMA LockRowKeeps ==
  ASSUME IInv, PageStoreAssumption, NEW w \in Calls, LockRow(w)
  PROVE  IInv'
  <1>0. PageTypeOK /\ CallInv(w)
    BY DEF IInv, PageInv, CallInv
  <1>1. CASE row = NoRow \/ row.version # call[w].base
    <2>1. \E a \in {"missing", "conflict"} : Fail(w, a)
      BY <1>1 DEF LockRow
    <2>2. PICK a \in {"missing", "conflict"} : Fail(w, a)
      BY <2>1
    <2>3. /\ call' \in [Calls -> CallType]
          /\ call'[w] = [call[w] EXCEPT !.at = "rollback"]
          /\ \A u \in Calls \ {w} : call'[u] = call[u]
      BY <1>0, <2>2, GotoFacts DEF PageTypeOK, Fail, CallType, Place
    <2>4. /\ answer' \in [Calls -> Answer]
          /\ answer'[w] = a
          /\ \A u \in Calls \ {w} : answer'[u] = answer[u]
      BY <1>0, <2>2, AnswerFacts DEF PageTypeOK, Fail, Answer
    <2>5. /\ UNCHANGED <<row, revs, wrote>>
          /\ holder = NoCall
          /\ holder' \in {w, NoCall}
      BY DEF LockRow
    <2>6. PageTypeOK'
      BY <1>0, <2>3, <2>4, <2>5 DEF PageTypeOK, CallType
    <2>7. CallInv(w)'
      BY <1>0, <2>3, <2>4, <2>5
        DEF PageTypeOK, LockRow, CallType, CallInv, Requested,
         Written, Isolated, Answered, Live
    <2>8. Creating(w)' => Creating(w)
      BY <1>0, <2>3 DEF LockRow, Creating, PageTypeOK, CallType
    <2> QED
      BY <2>3, <2>4, <2>5, <2>6, <2>7, <2>8, OneCall DEF PageStoreAssumption
  <1>2. CASE row # NoRow /\ row.version = call[w].base
    <2>1. /\ UNCHANGED <<row, revs, wrote, answer>>
          /\ holder = NoCall
          /\ holder' = w
          /\ Read(w, "update")
      BY <1>2 DEF LockRow
    <2>2. /\ call' \in [Calls -> CallType]
          /\ call'[w] = [call[w] EXCEPT !.at = "update", !.seen = row.version]
          /\ \A u \in Calls \ {w} : call'[u] = call[u]
      BY <1>0, <2>1, ReadFacts DEF PageTypeOK, CallType, Place
    <2>3. PageTypeOK'
      BY <1>0, <2>1, <2>2 DEF PageTypeOK, CallType
    <2>4. CallInv(w)'
      BY <1>0, <1>2, <2>1, <2>2
        DEF PageTypeOK, LockRow, CallType, CallInv, Requested,
         Written, Isolated, Answered, Live
    <2>5. Creating(w)' => Creating(w)
      BY <1>0, <2>2 DEF LockRow, Creating, PageTypeOK, CallType
    <2> QED
      BY <2>1, <2>2, <2>3, <2>4, <2>5, OneCall DEF PageStoreAssumption
  <1> QED
    BY <1>1, <1>2

\* The transaction that updates the row holds its lock.
LEMMA UpdateRowKeeps ==
  ASSUME IInv, PageStoreAssumption, NEW w \in Calls, UpdateRow(w)
  PROVE  IInv'
  <1>0. PageTypeOK /\ CallInv(w)
    BY DEF IInv, PageInv, CallInv
  <1>1. /\ holder = w
        /\ holder' = w
        /\ call[w].at = "update"
        /\ call[w].base > 0
        /\ call[w].seen = call[w].base
        /\ wrote[w] = Nothing
        /\ UNCHANGED <<row, revs>>
    BY <1>0 DEF UpdateRow, CallInv, Requested, Isolated, Written, Live
  <1>2. CASE call[w].seen < MaxVersion
    <2>1. /\ UNCHANGED answer
          /\ Goto(w, "revision")
          /\ wrote' = [wrote EXCEPT ![w].row = NewRow(w)]
      BY <1>0, <1>1, <1>2 DEF UpdateRow, NewRow
    <2>2. /\ call' \in [Calls -> CallType]
          /\ call'[w] = [call[w] EXCEPT !.at = "revision"]
          /\ \A u \in Calls \ {w} : call'[u] = call[u]
      BY <1>0, <2>1, GotoFacts DEF PageTypeOK, CallType, Place
    <2>3. NewRow(w) \in Row
      BY <1>0, <1>1, <1>2
        DEF PageTypeOK, NewRow, Row, CallInv, Requested, PageStoreAssumption
    <2>4. /\ wrote' \in [Calls -> WroteType]
          /\ wrote'[w] = [row |-> NewRow(w)', revision |-> NoRevision]
          /\ \A u \in Calls \ {w} : wrote'[u] = wrote[u]
      BY <1>0, <1>1, <2>1, <2>2, <2>3
        DEF PageTypeOK, CallType, WroteType, NewRow, Nothing
    <2>5. PageTypeOK'
      BY <1>0, <1>1, <2>1, <2>2, <2>4 DEF PageTypeOK, CallType, WroteType
    <2>6. CallInv(w)'
      BY <1>0, <1>1, <2>1, <2>2, <2>4 DEF PageTypeOK, CallType, CallInv, Requested,
         Written, Isolated, Answered, Live
    <2>7. Creating(w)' => Creating(w)
      BY <1>1, <2>2, <1>0 DEF Creating, PageTypeOK, CallType
    <2> QED
      BY <1>1, <2>1, <2>2, <2>4, <2>5, <2>6, <2>7, OneCall
  <1>3. CASE call[w].seen = MaxVersion
    <2>1. UNCHANGED wrote /\ Fail(w, "error")
      BY <1>0, <1>3 DEF UpdateRow, PageStoreAssumption, PageTypeOK
    <2>2. /\ call' \in [Calls -> CallType]
          /\ call'[w] = [call[w] EXCEPT !.at = "rollback"]
          /\ \A u \in Calls \ {w} : call'[u] = call[u]
      BY <1>0, <2>1, GotoFacts DEF PageTypeOK, Fail, CallType, Place
    <2>3. /\ answer' \in [Calls -> Answer]
          /\ answer'[w] = "error"
          /\ \A u \in Calls \ {w} : answer'[u] = answer[u]
      BY <1>0, <2>1, AnswerFacts DEF PageTypeOK, Fail, Answer
    <2>4. PageTypeOK'
      BY <1>0, <1>1, <2>1, <2>2, <2>3 DEF PageTypeOK, CallType
    <2>5. CallInv(w)'
      BY <1>0, <1>1, <2>1, <2>2, <2>3 DEF PageTypeOK, CallType, CallInv, Requested,
         Written, Isolated, Answered, Live
    <2>6. Creating(w)' => Creating(w)
      BY <1>1, <2>2, <1>0 DEF Creating, PageTypeOK, CallType
    <2> QED
      BY <1>1, <2>1, <2>2, <2>3, <2>4, <2>5, <2>6, OneCall
  <1> QED
    BY <1>2, <1>3 DEF UpdateRow

\* No two transactions are live, and none is while a CreatePage is about to begin.
LEMMA OneLive ==
  ASSUME IInv, PageStoreAssumption, NEW w \in Calls, Live(w), NEW u \in Calls \ {w}
  PROVE  ~Live(u) /\ ~(call[u].at = "begin" /\ call[u].base = 0)
  <1>0. /\ CallInv(w) /\ CallInv(u)
        /\ call \in [Calls -> CallType] /\ row \in Row
        /\ Creating(u) /\ Creating(w) => u = w
    BY DEF IInv, PageInv, CallInv, PageTypeOK, CallType
  <1>1. row.version = call[w].base /\ call[w].at # "idle"
    BY <1>0 DEF CallInv, Isolated, Live
  <1>2. CASE call[w].base = 0
    BY <1>0, <1>1, <1>2 DEF CallInv, Isolated, Live, Creating, CallType
  <1>3. CASE call[w].base > 0
    BY <1>0, <1>1, <1>3 DEF CallInv, Isolated, Live, NoRow, CallType
  <1> QED
    BY <1>0, <1>2, <1>3 DEF CallType

\* What a transaction that commits makes of the committed rows.
LEMMA ApplyFacts ==
  ASSUME IInv, PageStoreAssumption, NEW w \in Calls, Live(w),
         call[w].at \in {"commit", "orphan"}, Apply(w)
  PROVE  /\ row' = NewRow(w) /\ NewRow(w) \in Row
         /\ revs' = Append(revs, NewRevision(w)) /\ NewRevision(w) \in Revision
         /\ revs' \in Seq(Revision)
         /\ row' # NoRow /\ row'.version # 0
         /\ RevisionsMatch'
  <1>1. /\ PageTypeOK /\ CallInv(w) /\ RevisionsMatch
        /\ wrote[w] = [row |-> NewRow(w), revision |-> NewRevision(w)]
    BY DEF IInv, PageInv, CallInv, Written
  <1>2. row' = NewRow(w) /\ revs' = Append(revs, NewRevision(w))
    BY <1>1 DEF Apply
  <1>3. NewRow(w) \in Row
    BY <1>1 DEF PageTypeOK
  <1>4. call[w].text \in Texts /\ call[w].base \in Nat
    BY <1>1 DEF CallInv, Requested, PageTypeOK
  <1>5. NewRevision(w) \in Revision
    BY <1>3, <1>4 DEF NewRow, NewRevision, Row, Revision, PageStoreAssumption
  <1>6. revs \in Seq(Revision)
    BY <1>1 DEF PageTypeOK
  <1>7. revs' \in Seq(Revision)
    BY <1>2, <1>5, <1>6
  <1>8. row'.version = call[w].base + 1 /\ row'.text = call[w].text
    BY <1>2 DEF NewRow
  <1>9. row.version = call[w].base
    BY <1>1 DEF CallInv, Isolated
  <1>10. Len(revs) = row.version
    BY <1>1 DEF RevisionsMatch
  <1>11. RevisionsMatch'
    <2>1. Len(revs') = Len(revs) + 1
      BY <1>2, <1>6
    <2>2. \A i \in DOMAIN revs : revs'[i] = revs[i]
      BY <1>2, <1>6
    <2>3. revs'[Len(revs) + 1] = NewRevision(w)
      BY <1>2, <1>6
    <2>4. DOMAIN revs' = 1..Len(revs) + 1 /\ DOMAIN revs = 1..Len(revs)
      BY <1>6, <1>7, <2>1
    <2>5. Len(revs) \in Nat
      BY <1>6
    <2>6. \A i \in DOMAIN revs' : i \in DOMAIN revs \/ i = Len(revs) + 1
      BY <2>4, <2>5
    <2>7. \A i \in DOMAIN revs' : revs'[i].version = i
      BY <1>1, <1>9, <1>10, <2>2, <2>3, <2>6 DEF RevisionsMatch, NewRevision
    <2> QED
      BY <1>2, <1>8, <1>9, <1>10, <2>1, <2>3, <2>7
        DEF RevisionsMatch, NewRevision, NewRow
  <1> QED
    BY <1>2, <1>3, <1>4, <1>5, <1>7, <1>8, <1>11 DEF NoRow

\* The step in which a live transaction commits keeps the invariant.
LEMMA ApplyKeeps ==
  ASSUME IInv, PageStoreAssumption, NEW w \in Calls, Live(w),
         call[w].at \in {"commit", "orphan"}, Apply(w),
         call' \in [Calls -> CallType], answer' \in [Calls -> Answer],
         \A u \in Calls \ {w} : call'[u] = call[u] /\ answer'[u] = answer[u],
         \/ call'[w] = [call[w] EXCEPT !.at = "committed"] /\ answer'[w] = "ok"
         \/ call'[w] = NoRequest
  PROVE  IInv'
  <1>0. PageTypeOK /\ CallInv(w)
    BY DEF IInv, PageInv, CallInv
  <1>1. /\ row' \in Row /\ row' # NoRow /\ row'.version # 0
        /\ revs' \in Seq(Revision)
        /\ RevisionsMatch'
    BY ApplyFacts
  <1>2. /\ wrote' \in [Calls -> WroteType]
        /\ holder' \in Calls \union {NoCall}
        /\ wrote'[w] = Nothing
        /\ \A u \in Calls \ {w} : wrote'[u] = wrote[u]
    BY <1>0, EndTxFacts DEF PageTypeOK, Apply, WroteType
  <1>3. PageTypeOK'
    BY <1>0, <1>1, <1>2 DEF PageTypeOK, CallType, WroteType
  <1>4. CallInv(w)'
    BY <1>0, <1>2
      DEF CallInv, Requested, Written, Isolated, Answered, Live, NoRequest,
       PageTypeOK, CallType
  <1>5. ASSUME NEW u \in Calls \ {w} PROVE CallInv(u)'
    <2>1. ~Live(u) /\ ~(call[u].at = "begin" /\ call[u].base = 0)
      BY OneLive
    <2>2. CallInv(u)
      BY DEF IInv, PageInv, CallInv
    <2>3. call'[u] = call[u] /\ wrote'[u] = wrote[u] /\ answer'[u] = answer[u]
      BY <1>2
    <2> QED
      BY <2>1, <2>2, <2>3
        DEF CallInv, Requested, Written, Isolated, Answered, Live,
         NewRow, NewRevision
  <1>6. \A u \in Calls : Creating(u)' => Creating(u)
    BY <1>0 DEF Creating, NoRequest, PageTypeOK, CallType
  <1>7. \A u, v \in Calls : Creating(u)' /\ Creating(v)' => u = v
    BY <1>6 DEF IInv, PageInv
  <1> QED
    BY <1>1, <1>3, <1>4, <1>5, <1>7 DEF IInv, PageInv, CallInv

\* A commit adds the one revision and changes the row to match it.
LEMMA CommitKeeps ==
  ASSUME IInv, PageStoreAssumption, NEW w \in Calls, Commit(w)
  PROVE  IInv'
  <1>0. PageTypeOK /\ CallInv(w)
    BY DEF IInv, PageInv, CallInv
  <1>1. /\ call' \in [Calls -> CallType]
        /\ call'[w] = [call[w] EXCEPT !.at = "committed"]
        /\ \A u \in Calls \ {w} : call'[u] = call[u]
    BY <1>0, GotoFacts DEF PageTypeOK, Commit, CallType, Place
  <1>2. /\ answer' \in [Calls -> Answer]
        /\ answer'[w] = "ok"
        /\ \A u \in Calls \ {w} : answer'[u] = answer[u]
    BY <1>0, AnswerFacts DEF PageTypeOK, Commit, Answer
  <1>3. Live(w) /\ call[w].at = "commit" /\ Apply(w)
    BY DEF Commit, Live
  <1> QED
    BY <1>1, <1>2, <1>3, ApplyKeeps

\* A transaction that was cut off ends either way.
LEMMA EndOrphanKeeps ==
  ASSUME IInv, PageStoreAssumption, NEW w \in Calls, EndOrphan(w)
  PROVE  IInv'
  <1>0. PageTypeOK /\ CallInv(w)
    BY DEF IInv, PageInv, CallInv
  <1>1. /\ call' \in [Calls -> CallType]
        /\ call'[w] = NoRequest
        /\ \A u \in Calls \ {w} : call'[u] = call[u]
    BY <1>0, DoneFacts DEF PageTypeOK, EndOrphan, CallType
  <1>2. call[w].at = "orphan" /\ UNCHANGED answer
    BY DEF EndOrphan
  <1>3. CASE wrote[w].revision # NoRevision /\ Apply(w)
    BY <1>0, <1>1, <1>2, <1>3, ApplyKeeps DEF Live, PageTypeOK
  <1>4. CASE EndTx(w) /\ UNCHANGED <<row, revs>>
    <2>1. /\ wrote' \in [Calls -> WroteType]
          /\ holder' \in Calls \union {NoCall}
          /\ wrote'[w] = Nothing
          /\ \A u \in Calls \ {w} : wrote'[u] = wrote[u]
          /\ \A u \in Calls \ {w} : holder = u => holder' = u
      BY <1>0, <1>4, EndTxFacts DEF PageTypeOK, WroteType
    <2>2. PageTypeOK'
      BY <1>0, <1>1, <1>2, <1>4, <2>1 DEF PageTypeOK, CallType, WroteType
    <2>3. CallInv(w)'
      BY <1>1, <1>2, <2>1
        DEF CallInv, Requested, Written, Isolated, Answered, Live,
         NoRequest
    <2>4. ~Creating(w)'
      BY <1>1 DEF Creating, NoRequest
    <2> QED
      BY <1>1, <1>2, <1>4, <2>1, <2>2, <2>3, <2>4, OneCall
  <1> QED
    BY <1>3, <1>4 DEF EndOrphan

\* A CreatePage is the only one.
LEMMA CreatePageKeeps ==
  ASSUME IInv, PageStoreAssumption, NEW w \in Calls, NEW x \in Texts \union {Blank},
         CreatePage(w, x)
  PROVE  IInv'
  <1>0. PageTypeOK /\ CallInv(w)
    BY DEF IInv, PageInv, CallInv
  <1>1. /\ call' \in [Calls -> CallType]
        /\ call'[w] = [at |-> "begin", base |-> 0, seen |-> 0, text |-> x]
        /\ \A u \in Calls \ {w} : call'[u] = call[u]
    BY <1>0 DEF PageTypeOK, CreatePage, Call, CallType, Place, PageStoreAssumption
  <1>2. /\ answer' \in [Calls -> Answer]
        /\ answer'[w] = "none"
        /\ \A u \in Calls \ {w} : answer'[u] = answer[u]
    BY <1>0, AnswerFacts DEF PageTypeOK, CreatePage, Answer, Call
  <1>3. PageTypeOK'
    BY <1>0, <1>1, <1>2 DEF PageTypeOK, CreatePage, Call, CallType
  <1>4. CallInv(w)'
    BY <1>0, <1>1, <1>2
      DEF CreatePage, Call, NoRequest, CallInv, Requested, Written,
       Isolated, Answered, Live
  <1>5. ASSUME NEW u \in Calls \ {w} PROVE CallInv(u)'
    <2>1. CallInv(u) /\ UNCHANGED <<row, holder, wrote>>
      BY DEF IInv, PageInv, CallInv, CreatePage, Call
    <2> QED
      BY <1>1, <1>2, <2>1, Frame
  <1>6. \A u \in Calls : Creating(u)' => u = w
    BY <1>1 DEF CreatePage, Creating
  <1>7. RevisionsMatch' /\ (row.version = 0 => row = NoRow)'
    BY DEF IInv, PageInv, RevisionsMatch, CreatePage, Call
  <1> QED
    BY <1>3, <1>4, <1>5, <1>6, <1>7 DEF IInv, PageInv, CallInv

\* A restart makes orphans of the open transactions; only those that had sent
\* their COMMIT stay live.
LEMMA RestartKeeps ==
  ASSUME IInv, PageStoreAssumption, Restart
  PROVE  IInv'
  <1>0. PageTypeOK
    BY DEF IInv
  <1>1. ASSUME NEW u \in Calls
        PROVE  /\ call'[u] = IF InTx(u) THEN [call[u] EXCEPT !.at = "orphan"] ELSE NoRequest
               /\ wrote'[u] = IF call[u].at \in {"commit", "orphan"} THEN wrote[u] ELSE Nothing
               /\ answer'[u] = IF call[u].at \in {"idle", "orphan"} THEN answer[u] ELSE "none"
    BY DEF Restart
  <1>2. UNCHANGED <<row, revs, holder>>
    BY DEF Restart
  <1>3. PageTypeOK'
    <2>1. call' \in [Calls -> CallType]
      <3>1. NoRequest \in CallType
        BY PageStoreAssumption
          DEF CallType, Place, NoRequest, PageStoreAssumption
      <3>2. ASSUME NEW u \in Calls PROVE [call[u] EXCEPT !.at = "orphan"] \in CallType
        BY <1>0 DEF PageTypeOK, CallType, Place
      <3> QED
        BY <3>1, <3>2 DEF Restart
    <2>2. wrote' \in [Calls -> WroteType]
      <3>1. Nothing \in WroteType
        BY DEF WroteType, Nothing, Row, NoRow, PageStoreAssumption
      <3>2. \A u \in Calls : wrote[u] \in WroteType
        BY <1>0 DEF PageTypeOK, WroteType
      <3> QED
        BY <3>1, <3>2 DEF Restart
    <2>3. answer' \in [Calls -> Answer]
      <3>1. \A u \in Calls : answer'[u] \in Answer
        BY <1>0, <1>1 DEF PageTypeOK, Answer
      <3> QED
        BY <3>1 DEF Restart
    <2> QED
      BY <1>0, <1>2, <2>1, <2>2, <2>3 DEF PageTypeOK, CallType, WroteType
  <1>4. ASSUME NEW u \in Calls PROVE CallInv(u)'
    <2>1. CallInv(u)
      BY DEF IInv, PageInv, CallInv
    <2>2. CASE call[u].at \in {"commit", "orphan"}
      <3>1. /\ call'[u] = [call[u] EXCEPT !.at = "orphan"]
            /\ wrote'[u] = wrote[u]
            /\ answer'[u] \in {"none", "error"}
        BY <1>1, <2>1, <2>2 DEF InTx, CallInv, Answered
      <3> QED
        BY <1>0, <1>2, <2>1, <2>2, <3>1
          DEF CallInv, Requested, Written, Isolated, Answered,
           Live, NewRow, NewRevision, PageTypeOK, CallType
    <2>3. CASE call[u].at \notin {"commit", "orphan"} /\ InTx(u)
      <3>1. /\ call'[u] = [call[u] EXCEPT !.at = "orphan"]
            /\ wrote'[u] = Nothing
            /\ answer'[u] = "none"
        BY <1>1, <2>3 DEF InTx
      <3> QED
        BY <1>0, <1>2, <2>1, <2>3, <3>1
          DEF CallInv, Requested, Written, Isolated, Answered,
           Live, InTx, Nothing, PageTypeOK, CallType
    <2>4. CASE ~InTx(u)
      <3>1. call'[u] = NoRequest /\ wrote'[u] = Nothing
        BY <1>1, <2>4 DEF InTx
      <3> QED
        BY <3>1
          DEF CallInv, Requested, Written, Isolated, Answered, Live, NoRequest
    <2> QED
      BY <2>2, <2>3, <2>4
  <1>5. ASSUME NEW u \in Calls, Creating(u)' PROVE Creating(u)
    <2>1. InTx(u) /\ call'[u] = [call[u] EXCEPT !.at = "orphan"]
      BY <1>1, <1>5 DEF Creating, NoRequest
    <2> QED
      BY <1>0, <1>5, <2>1 DEF Creating, InTx, PageTypeOK, CallType
  <1>6. \A u, v \in Calls : Creating(u)' /\ Creating(v)' => u = v
    BY <1>5 DEF IInv, PageInv
  <1>7. RevisionsMatch' /\ (row.version = 0 => row = NoRow)'
    BY <1>2 DEF IInv, PageInv, RevisionsMatch
  <1> QED
    BY <1>3, <1>4, <1>6, <1>7 DEF IInv, PageInv, CallInv

--------------------------------------------------------------------------------
(* The theorems. *)

LEMMA InitHolds ==
  ASSUME Init, PageStoreAssumption
  PROVE  IInv
  <1>1. <<>> \in Seq(Revision)
    OBVIOUS
  <1>2. PageTypeOK
    BY <1>1 DEF Init, PageTypeOK, Row, NoRow, NoRequest, Nothing, Place, Answer,
       PageStoreAssumption
  <1>3. RevisionsMatch
    BY DEF Init, RevisionsMatch, NoRow
  <1>4. \A w \in Calls : CallInv(w) /\ ~Creating(w)
    BY
      DEF Init, CallInv, Requested, Written, Isolated, Answered, Live, Creating,
          NoRequest
  <1> QED
    BY <1>2, <1>3, <1>4 DEF Init, IInv, PageInv, CallInv

LEMMA NextKeeps ==
  ASSUME IInv, PageStoreAssumption, [Next]_vars
  PROVE  IInv'
  <1>1. CASE Restart
    BY <1>1, RestartKeeps
  <1>2. ASSUME NEW w \in Calls, Progress(w) PROVE IInv'
    BY <1>2, InvalidKeeps, InsertPageKeeps, UpdateRowKeeps, InsertRevisionKeeps, CommitKeeps,
       ReturnKeeps, RollbackKeeps, EndOrphanKeeps DEF Progress
  <1>3. ASSUME NEW w \in Calls, BeginTx(w) \/ LockRow(w) PROVE IInv'
    BY <1>3, BeginTxKeeps, LockRowKeeps
  <1>4. ASSUME NEW w \in Calls, BeginFails(w) \/ StatementFails(w) \/ CommitLost(w)
        PROVE  IInv'
    BY <1>4, BeginFailsKeeps, StatementFailsKeeps, CommitLostKeeps
  <1>5. ASSUME NEW w \in Calls, NEW x \in Texts \union {Blank},
               CreatePage(w, x) \/ \E v \in 1..MaxVersion : UpdatePage(w, v, x)
        PROVE  IInv'
    BY <1>5, CreatePageKeeps, UpdatePageKeeps
  <1>6. CASE UNCHANGED vars
    <2>1. \A w \in Calls : CallInv(w)'
      BY <1>6, Frame DEF vars, IInv, PageInv, CallInv
    <2> QED
      BY <1>6, <2>1
        DEF vars, IInv, PageTypeOK, PageInv, CallInv, Creating, RevisionsMatch
  <1> QED
    BY <1>1, <1>2, <1>3, <1>4, <1>5, <1>6 DEF Next

\* The inductive invariant: no two transactions are ever live, and what a live one
\* has written fits the committed row.
THEOREM PageInvariant == Spec => [](PageTypeOK /\ PageInv)
  <1>1. Init => IInv
    BY InitHolds, PageStoreAssumption
  <1>2. IInv /\ [Next]_vars => IInv'
    BY NextKeeps, PageStoreAssumption
  <1> QED
    BY <1>1, <1>2, PTL DEF Spec, IInv

\* The variables keep their types: in particular no version leaves the column.
THEOREM StoreTypes == Spec => []PageTypeOK
  BY PageInvariant, PTL

\* Every version of the page has exactly one revision, and the row is the newest.
THEOREM RevisionsAreVersions == Spec => []RevisionsMatch
  <1>1. PageInv => RevisionsMatch
    BY DEF PageInv
  <1> QED
    BY <1>1, PageInvariant, PTL

--------------------------------------------------------------------------------
(* The refinement. *)

Idle == [stage |-> "idle", base |-> 0, text |-> NoText]

RequestsOf == [w \in Calls |-> RequestOf(w)]
AnswersOf == [w \in Calls |-> AnswerOf(w)]

\* What the callers of VersionedPage see changes at w only.
LEMMA BarFrame ==
  ASSUME NEW w \in Calls,
         \A u \in Calls \ {w} :
           call'[u] = call[u] /\ wrote'[u] = wrote[u] /\ answer'[u] = answer[u]
  PROVE  /\ RequestsOf' = [RequestsOf EXCEPT ![w] = RequestOf(w)']
         /\ AnswersOf' = [AnswersOf EXCEPT ![w] = AnswerOf(w)']
  <1>1. \A u \in Calls \ {w} : RequestOf(u)' = RequestOf(u) /\ AnswerOf(u)' = AnswerOf(u)
    BY DEF RequestOf, AnswerOf, StageOf
  <1> QED
    BY <1>1 DEF RequestsOf, AnswersOf

\* A step that moves no caller, and no row, is no step of VersionedPage.
LEMMA Stutter ==
  ASSUME NEW w \in Calls, UNCHANGED revs,
         \A u \in Calls \ {w} :
           call'[u] = call[u] /\ wrote'[u] = wrote[u] /\ answer'[u] = answer[u],
         RequestOf(w)' = RequestOf(w), AnswerOf(w)' = AnswerOf(w)
  PROVE  UNCHANGED Page!pageVars
  <1>1. RequestsOf' = RequestsOf /\ AnswersOf' = AnswersOf
    BY BarFrame DEF RequestsOf, AnswersOf
  <1> QED
    BY <1>1 DEF Page!pageVars, RequestsOf, AnswersOf, History

\* A step in which w gets its answer.
LEMMA Returns ==
  ASSUME NEW w \in Calls, NEW a, UNCHANGED revs,
         \A u \in Calls \ {w} :
           call'[u] = call[u] /\ wrote'[u] = wrote[u] /\ answer'[u] = answer[u],
         RequestOf(w)' = Idle, AnswerOf(w)' = a,
         RequestOf(w).stage # "idle", AnswerOf(w) = "none",
         \/ RequestOf(w).stage = "stored" /\ a = "ok"
         \/ RequestOf(w).stage = "refused" /\ a \in {"conflict", "missing"}
         \/ RequestOf(w).stage = "asked" /\ a = "invalid"
         \/ a = "error"
  PROVE  Page!Return(w)
  <1>1. /\ RequestsOf' = [RequestsOf EXCEPT ![w] = Idle]
        /\ AnswersOf' = [AnswersOf EXCEPT ![w] = a]
    BY BarFrame
  <1>2. RequestsOf[w] = RequestOf(w) /\ AnswersOf[w] = AnswerOf(w)
    BY DEF RequestsOf, AnswersOf
  <1>3. UNCHANGED History
    BY DEF History
  <1> QED
    BY <1>1, <1>2, <1>3
      DEF Page!Return, RequestsOf, AnswersOf, Idle, Page!NoRequest

\* The steps of w that only move it on through its transaction.
LEMMA InnerSteps ==
  ASSUME IInv, PageStoreAssumption, NEW w \in Calls,
         \/ BeginTx(w) \/ InsertPage(w) \/ UpdateRow(w) \/ InsertRevision(w)
         \/ StatementFails(w)
  PROVE  UNCHANGED Page!pageVars
  <1>0. PageTypeOK /\ CallInv(w)
    BY DEF IInv, PageInv, CallInv
  <1>1. \E p \in {"insert", "lock", "revision", "commit", "rollback"} :
          /\ Goto(w, p)
          /\ \/ p = "rollback" /\ answer' = [answer EXCEPT ![w] = "error"]
             \/ p # "rollback" /\ UNCHANGED answer
    BY DEF BeginTx, InsertPage, UpdateRow, InsertRevision, StatementFails, Fail
  <1>2. PICK p \in {"insert", "lock", "revision", "commit", "rollback"} :
          /\ Goto(w, p)
          /\ \/ p = "rollback" /\ answer' = [answer EXCEPT ![w] = "error"]
             \/ p # "rollback" /\ UNCHANGED answer
    BY <1>1
  <1>3. /\ call'[w] = [call[w] EXCEPT !.at = p]
        /\ \A u \in Calls \ {w} : call'[u] = call[u]
    BY <1>0, <1>2, GotoFacts DEF PageTypeOK, CallType, Place
  <1>4. /\ \A u \in Calls \ {w} : answer'[u] = answer[u]
        /\ p = "rollback" => answer'[w] = "error"
    BY <1>0, <1>2 DEF PageTypeOK
  <1>5. UNCHANGED revs /\ \A u \in Calls \ {w} : wrote'[u] = wrote[u]
    BY <1>0
      DEF BeginTx, InsertPage, UpdateRow, InsertRevision, StatementFails,
          PageTypeOK
  <1>6. call[w].at \in {"begin", "lock", "insert", "update", "revision", "commit"}
    BY DEF BeginTx, InsertPage, UpdateRow, InsertRevision, StatementFails
  <1>7. call'[w].at = p /\ call'[w].base = call[w].base /\ call'[w].text = call[w].text
    BY <1>0, <1>3 DEF PageTypeOK
  <1>8. StageOf(w)' = "asked" /\ StageOf(w) = "asked"
    BY <1>4, <1>6, <1>7 DEF StageOf
  <1>9. RequestOf(w)' = RequestOf(w) /\ AnswerOf(w)' = AnswerOf(w)
    BY <1>6, <1>7, <1>8 DEF RequestOf, AnswerOf
  <1> QED
    BY <1>3, <1>4, <1>5, <1>9, Stutter

\* The steps in which w gets its answer.
LEMMA ReturnSteps ==
  ASSUME IInv, PageStoreAssumption, NEW w \in Calls,
         Invalid(w) \/ Return(w) \/ Rollback(w) \/ BeginFails(w)
  PROVE  Page!Return(w)
  <1>0. PageTypeOK /\ CallInv(w)
    BY DEF IInv, PageInv, CallInv
  <1>1. Done(w) /\ UNCHANGED revs
    BY DEF Invalid, Return, Rollback, BeginFails
  <1>2. /\ call'[w] = NoRequest
        /\ \A u \in Calls \ {w} : call'[u] = call[u]
    BY <1>0, <1>1, DoneFacts DEF PageTypeOK, CallType
  <1>3. \A u \in Calls \ {w} : wrote'[u] = wrote[u] /\ answer'[u] = answer[u]
    BY <1>0, EndTxFacts
      DEF Invalid, Return, Rollback, BeginFails, PageTypeOK, WroteType
  <1>4. RequestOf(w)' = Idle /\ AnswerOf(w)' = answer'[w]
    BY <1>2 DEF RequestOf, AnswerOf, StageOf, NoRequest, Idle
  <1>5. call[w].at \in {"begin", "committed", "rollback"}
    BY DEF Invalid, Return, Rollback, BeginFails
  <1>6. AnswerOf(w) = "none" /\ RequestOf(w).stage # "idle"
    BY <1>5 DEF AnswerOf, RequestOf, StageOf
  <1>7. \/ RequestOf(w).stage = "stored" /\ answer'[w] = "ok"
        \/ RequestOf(w).stage = "refused" /\ answer'[w] \in {"conflict", "missing"}
        \/ RequestOf(w).stage = "asked" /\ answer'[w] = "invalid"
        \/ answer'[w] = "error"
    <2>1. CASE Invalid(w) \/ BeginFails(w)
      BY <1>0, <2>1 DEF Invalid, BeginFails, RequestOf, StageOf, PageTypeOK
    <2>2. CASE Return(w) \/ Rollback(w)
      BY <1>0, <2>2 DEF Return, Rollback, RequestOf, StageOf, CallInv, Answered
    <2> QED
      BY <2>1, <2>2
  <1> QED
    BY ONLY <1>1, <1>2, <1>3, <1>4, <1>6, <1>7, Returns

\* The version check is the moment a call is refused.
LEMMA LockRowStep ==
  ASSUME IInv, PageStoreAssumption, NEW w \in Calls, LockRow(w)
  PROVE  Page!Refuse(w) \/ UNCHANGED Page!pageVars
  <1>0. PageTypeOK /\ CallInv(w) /\ RevisionsMatch
    BY DEF IInv, PageInv, CallInv
  <1>1. UNCHANGED <<row, revs, wrote>> /\ call[w].at = "lock"
    BY DEF LockRow
  <1>2. CASE row = NoRow \/ row.version # call[w].base
    <2>1. PICK a \in {"missing", "conflict"} : Fail(w, a)
      BY <1>2 DEF LockRow
    <2>2. /\ call'[w] = [call[w] EXCEPT !.at = "rollback"]
          /\ \A u \in Calls \ {w} : call'[u] = call[u]
      BY <1>0, <2>1, GotoFacts DEF PageTypeOK, Fail, CallType, Place
    <2>3. answer'[w] = a /\ \A u \in Calls \ {w} : answer'[u] = answer[u]
      BY <1>0, <2>1 DEF PageTypeOK, Fail
    <2>4. /\ call'[w].at = "rollback"
          /\ call'[w].base = call[w].base /\ call'[w].text = call[w].text
      BY <1>0, <2>2 DEF PageTypeOK
    <2>5. /\ RequestOf(w) = [stage |-> "asked", base |-> call[w].base, text |-> call[w].text]
          /\ RequestOf(w)' = [RequestOf(w) EXCEPT !.stage = "refused"]
          /\ AnswerOf(w) = "none" /\ AnswerOf(w)' = "none"
      BY <1>1, <2>3, <2>4 DEF RequestOf, AnswerOf, StageOf
    <2>6. /\ RequestsOf' = [RequestsOf EXCEPT ![w] = RequestOf(w)']
          /\ AnswersOf' = [AnswersOf EXCEPT ![w] = AnswerOf(w)']
      BY <1>1, <2>2, <2>3, BarFrame
    <2>7. RequestsOf[w] = RequestOf(w) /\ AnswersOf[w] = AnswerOf(w)
      BY DEF RequestsOf, AnswersOf
    <2>8. /\ AnswersOf' = AnswersOf
          /\ RequestsOf' = [RequestsOf EXCEPT ![w].stage = "refused"]
          /\ RequestsOf[w].stage = "asked" /\ AnswersOf[w] = "none"
          /\ RequestsOf[w].base = call[w].base
      <3>1. AnswerOf(w)' = AnswersOf[w] /\ AnswersOf[w] = "none"
        BY <2>5, <2>7
      <3>2. RequestsOf[w].stage = "asked" /\ RequestsOf[w].base = call[w].base
        BY <2>5, <2>7
      <3>3. RequestOf(w)' = [RequestsOf[w] EXCEPT !.stage = "refused"]
        BY <2>5, <2>7
      <3>4. AnswersOf' = AnswersOf
        BY <2>6, <3>1 DEF AnswersOf
      <3>5. RequestsOf' = [RequestsOf EXCEPT ![w].stage = "refused"]
        BY <2>6, <3>3 DEF RequestsOf
      <3> QED
        BY <3>1, <3>2, <3>4, <3>5
    <2>9. Len(History) # call[w].base
      <3>1. call[w].base > 0 /\ call[w].base \in Nat
        BY <1>0, <1>1 DEF CallInv, Requested, PageTypeOK
      <3>2. Len(History) = row.version
        BY <1>0 DEF History, RevisionsMatch, PageTypeOK
      <3> QED
        BY <1>2, <3>1, <3>2 DEF NoRow
    <2>10. UNCHANGED History
      BY <1>1 DEF History
    <2> QED
      BY <2>8, <2>9, <2>10 DEF Page!Refuse, RequestsOf, AnswersOf
  <1>3. CASE row # NoRow /\ row.version = call[w].base
    <2>1. UNCHANGED answer /\ Read(w, "update")
      BY <1>3 DEF LockRow
    <2>2. /\ call'[w] = [call[w] EXCEPT !.at = "update", !.seen = row.version]
          /\ \A u \in Calls \ {w} : call'[u] = call[u]
      BY <1>0, <2>1, ReadFacts DEF PageTypeOK, CallType, Place
    <2>3. /\ call'[w].at = "update"
          /\ call'[w].base = call[w].base /\ call'[w].text = call[w].text
      BY <1>0, <2>2 DEF PageTypeOK
    <2>4. RequestOf(w)' = RequestOf(w) /\ AnswerOf(w)' = AnswerOf(w)
      BY <1>1, <2>3 DEF RequestOf, AnswerOf, StageOf
    <2> QED
      BY <1>1, <2>1, <2>2, <2>4, Stutter
  <1> QED
    BY <1>2, <1>3

\* The commit is the moment a call takes effect.
LEMMA ApplyStep ==
  ASSUME IInv, PageStoreAssumption, NEW w \in Calls, Live(w),
         call[w].at \in {"commit", "orphan"}, Apply(w),
         \A u \in Calls \ {w} : call'[u] = call[u] /\ answer'[u] = answer[u],
         \/ /\ call[w].at = "commit" /\ call'[w] = [call[w] EXCEPT !.at = "committed"]
         \/ /\ call[w].at = "orphan" /\ call'[w] = NoRequest /\ answer'[w] = answer[w]
  PROVE  Page!Store(w)
  <1>0. PageTypeOK /\ CallInv(w) /\ RevisionsMatch
    BY DEF IInv, PageInv, CallInv
  <1>1. revs' = Append(revs, NewRevision(w)) /\ revs \in Seq(Revision)
    BY <1>0, ApplyFacts DEF PageTypeOK
  <1>2. History' = Append(History, [text |-> call[w].text, by |-> w])
    BY <1>1 DEF History, NewRevision
  <1>3. \A u \in Calls \ {w} : wrote'[u] = wrote[u]
    BY <1>0, EndTxFacts DEF Apply, PageTypeOK, WroteType
  <1>4. /\ RequestsOf' = [RequestsOf EXCEPT ![w] = RequestOf(w)']
        /\ AnswersOf' = [AnswersOf EXCEPT ![w] = AnswerOf(w)']
    BY <1>3, BarFrame
  <1>5. RequestsOf[w] = RequestOf(w) /\ AnswersOf[w] = AnswerOf(w)
    BY DEF RequestsOf, AnswersOf
  <1>6. RequestOf(w) = [stage |-> "asked", base |-> call[w].base, text |-> call[w].text]
    BY DEF RequestOf, StageOf, Live
  <1>7. /\ call[w].at = "commit" =>
             /\ AnswerOf(w) = "none" /\ AnswerOf(w)' = "none"
             /\ RequestOf(w)' = [RequestOf(w) EXCEPT !.stage = "stored"]
        /\ call[w].at = "orphan" =>
             AnswerOf(w)' = AnswerOf(w) /\ RequestOf(w)' = Idle
    <2>1. CASE call[w].at = "commit"
      <3>1. /\ call'[w].at = "committed"
            /\ call'[w].base = call[w].base /\ call'[w].text = call[w].text
        BY <1>0, <2>1 DEF PageTypeOK, NoRequest
      <3> QED
        BY <1>6, <2>1, <3>1 DEF RequestOf, AnswerOf, StageOf
    <2>2. CASE call[w].at = "orphan"
      BY <2>2 DEF RequestOf, AnswerOf, StageOf, NoRequest, Idle
    <2> QED
      BY <2>1, <2>2
  <1>8. AnswersOf' = AnswersOf
    BY <1>4, <1>7 DEF AnswersOf
  <1>9. Len(History) = call[w].base
    BY <1>0 DEF History, RevisionsMatch, PageTypeOK, CallInv, Isolated
  <1>10. RequestsOf[w].stage = "asked" /\ RequestsOf[w].base = Len(History)
    BY <1>5, <1>6, <1>9
  <1>11. History' = Append(History, [text |-> RequestsOf[w].text, by |-> w])
    BY <1>2, <1>5, <1>6
  <1>12. \/ AnswersOf[w] = "none"
            /\ RequestsOf' = [RequestsOf EXCEPT ![w].stage = "stored"]
         \/ RequestsOf' = [RequestsOf EXCEPT ![w] = Idle]
    BY <1>4, <1>5, <1>7 DEF RequestsOf
  <1> QED
    BY <1>8, <1>10, <1>11, <1>12
      DEF Page!Store, RequestsOf, AnswersOf, Idle, Page!NoRequest

\* A call starts.
LEMMA AskStep ==
  ASSUME IInv, PageStoreAssumption, NEW w \in Calls, NEW v \in Nat,
         NEW x \in Texts \union {Blank}, Call(w, v, x)
  PROVE  Page!Ask(w)
  <1>0. PageTypeOK /\ CallInv(w)
    BY DEF IInv, PageInv, CallInv
  <1>1. /\ call'[w] = [at |-> "begin", base |-> v, seen |-> 0, text |-> x]
        /\ answer'[w] = "none"
        /\ \A u \in Calls \ {w} :
             call'[u] = call[u] /\ wrote'[u] = wrote[u] /\ answer'[u] = answer[u]
    BY <1>0 DEF Call, PageTypeOK
  <1>2. /\ RequestOf(w)' = [stage |-> "asked", base |-> v, text |-> x]
        /\ AnswerOf(w)' = "none"
        /\ RequestOf(w) = Idle
    BY <1>1 DEF RequestOf, AnswerOf, StageOf, Idle, Call
  <1>3. /\ RequestsOf' = [RequestsOf EXCEPT ![w] = RequestOf(w)']
        /\ AnswersOf' = [AnswersOf EXCEPT ![w] = AnswerOf(w)']
    BY <1>1, BarFrame
  <1>4. RequestsOf[w] = Idle /\ RequestsOf'[w] = [stage |-> "asked", base |-> v, text |-> x]
    BY <1>2, <1>3 DEF RequestsOf
  <1>5. RequestsOf' = [RequestsOf EXCEPT ![w] = RequestsOf'[w]]
    BY <1>2, <1>3, <1>4
  <1>6. UNCHANGED History
    BY DEF Call, History
  <1> QED
    BY <1>2, <1>3, <1>4, <1>5, <1>6 DEF Page!Ask, RequestsOf, AnswersOf, Idle

\* The connection breaks at COMMIT: an answer, or a doubt.
LEMMA CommitLostStep ==
  ASSUME IInv, PageStoreAssumption, NEW w \in Calls, CommitLost(w)
  PROVE  Page!Return(w) \/ Page!Doubt(w)
  <1>0. PageTypeOK /\ CallInv(w)
    BY DEF IInv, PageInv, CallInv
  <1>1. /\ UNCHANGED <<revs, wrote>>
        /\ answer'[w] = "error"
        /\ \A u \in Calls \ {w} : answer'[u] = answer[u]
    BY <1>0 DEF CommitLost, PageTypeOK
  <1>2. CASE call[w].at = "committed" /\ Done(w)
    <2>1. /\ call'[w] = NoRequest
          /\ \A u \in Calls \ {w} : call'[u] = call[u]
      BY <1>0, <1>2, DoneFacts DEF PageTypeOK, CallType
    <2>2. RequestOf(w)' = Idle /\ AnswerOf(w)' = "error"
      BY <1>1, <2>1 DEF RequestOf, AnswerOf, StageOf, NoRequest, Idle
    <2>3. AnswerOf(w) = "none" /\ RequestOf(w).stage # "idle"
      BY <1>2 DEF AnswerOf, RequestOf, StageOf
    <2> QED
      BY <1>1, <2>1, <2>2, <2>3, Returns
  <1>3. CASE call[w].at = "commit" /\ Goto(w, "orphan")
    <2>1. /\ call'[w] = [call[w] EXCEPT !.at = "orphan"]
          /\ \A u \in Calls \ {w} : call'[u] = call[u]
      BY <1>0, <1>3, GotoFacts DEF PageTypeOK, CallType, Place
    <2>2. /\ call'[w].at = "orphan"
          /\ call'[w].base = call[w].base /\ call'[w].text = call[w].text
      BY <1>0, <2>1 DEF PageTypeOK
    <2>3. wrote'[w].revision # NoRevision
      <3>1. wrote'[w].revision = NewRevision(w)
        BY <1>0, <1>1, <1>3 DEF CallInv, Written, Live
      <3>2. call[w].base + 1 # 0
        BY <1>0 DEF PageTypeOK
      <3> QED
        BY <3>1, <3>2 DEF NewRevision, NoRevision
    <2>4. /\ RequestOf(w)' = RequestOf(w) /\ RequestOf(w).stage = "asked"
          /\ AnswerOf(w) = "none" /\ AnswerOf(w)' = "error"
      BY <1>1, <1>3, <2>2, <2>3 DEF RequestOf, AnswerOf, StageOf
    <2>5. /\ RequestsOf' = [RequestsOf EXCEPT ![w] = RequestOf(w)']
          /\ AnswersOf' = [AnswersOf EXCEPT ![w] = AnswerOf(w)']
      BY <1>1, <2>1, BarFrame
    <2>6. /\ RequestsOf' = RequestsOf
          /\ AnswersOf' = [AnswersOf EXCEPT ![w] = "error"]
          /\ RequestsOf[w].stage = "asked" /\ AnswersOf[w] = "none"
      BY <2>4, <2>5 DEF RequestsOf, AnswersOf
    <2>7. UNCHANGED History
      BY <1>1 DEF History
    <2> QED
      BY <2>6, <2>7 DEF Page!Doubt, RequestsOf, AnswersOf
  <1> QED
    BY <1>2, <1>3 DEF CommitLost

\* A transaction that was cut off commits unseen, or is gone.
LEMMA EndOrphanStep ==
  ASSUME IInv, PageStoreAssumption, NEW w \in Calls, EndOrphan(w)
  PROVE  Page!Store(w) \/ Page!Abandon({w})
  <1>0. PageTypeOK /\ CallInv(w)
    BY DEF IInv, PageInv, CallInv
  <1>1. /\ call[w].at = "orphan" /\ UNCHANGED answer
        /\ call'[w] = NoRequest
        /\ \A u \in Calls \ {w} : call'[u] = call[u]
    BY <1>0, DoneFacts DEF EndOrphan, PageTypeOK, CallType
  <1>2. CASE wrote[w].revision # NoRevision /\ Apply(w)
    BY <1>1, <1>2, ApplyStep DEF Live
  <1>3. CASE EndTx(w) /\ UNCHANGED <<row, revs>>
    <2>1. \A u \in Calls \ {w} : wrote'[u] = wrote[u]
      BY <1>0, <1>3, EndTxFacts DEF PageTypeOK, WroteType
    <2>2. RequestOf(w)' = Idle /\ AnswerOf(w)' = AnswerOf(w)
      BY <1>1 DEF RequestOf, AnswerOf, StageOf, NoRequest, Idle
    <2>3. /\ RequestsOf' = [RequestsOf EXCEPT ![w] = RequestOf(w)']
          /\ AnswersOf' = [AnswersOf EXCEPT ![w] = AnswerOf(w)']
      BY <1>1, <2>1, BarFrame
    <2>4. /\ RequestsOf' = [u \in Calls |-> IF u \in {w} THEN Idle ELSE RequestsOf[u]]
          /\ AnswersOf' = AnswersOf
      BY <2>2, <2>3 DEF RequestsOf, AnswersOf
    <2>5. UNCHANGED History
      BY <1>3 DEF History
    <2> QED
      BY <2>4, <2>5
        DEF Page!Abandon, RequestsOf, AnswersOf, Idle, Page!NoRequest
  <1> QED
    BY <1>2, <1>3 DEF EndOrphan

\* A restart abandons every call but those that had sent their COMMIT.
LEMMA RestartStep ==
  ASSUME IInv, PageStoreAssumption, Restart
  PROVE  \E S \in SUBSET Calls : Page!Abandon(S)
  <1> DEFINE S == {u \in Calls : ~(Live(u) /\ call[u].at \in {"commit", "orphan"})}
  <1>0. PageTypeOK /\ \A u \in Calls : CallInv(u)
    BY DEF IInv, PageInv, CallInv
  <1>1. ASSUME NEW u \in Calls
        PROVE  AnswerOf(u)' = AnswerOf(u) /\ RequestOf(u)' = IF u \in S THEN Idle ELSE RequestOf(u)
    <2>1. /\ call'[u] = IF InTx(u) THEN [call[u] EXCEPT !.at = "orphan"] ELSE NoRequest
          /\ wrote'[u] = IF call[u].at \in {"commit", "orphan"} THEN wrote[u] ELSE Nothing
          /\ answer'[u] = IF call[u].at \in {"idle", "orphan"} THEN answer[u] ELSE "none"
      BY DEF Restart
    <2>2. call'[u].at \in {"idle", "orphan"}
      BY <1>0, <2>1 DEF NoRequest, PageTypeOK
    <2>3. AnswerOf(u)' = AnswerOf(u)
      BY <2>1, <2>2 DEF AnswerOf
    <2>4. CASE u \in S
      <3>1. ~(call'[u].at = "orphan" /\ wrote'[u].revision # NoRevision)
        BY <1>0, <2>1, <2>4 DEF InTx, Live, NoRequest, Nothing, PageTypeOK
      <3> QED
        BY <2>2, <2>3, <2>4, <3>1 DEF RequestOf, StageOf, Idle
    <2>5. CASE u \notin S
      <3>1. /\ call'[u].at = "orphan" /\ call'[u].base = call[u].base
            /\ call'[u].text = call[u].text
            /\ wrote'[u] = wrote[u]
        BY <1>0, <2>1, <2>5 DEF InTx, PageTypeOK
      <3>2. wrote[u].revision = NewRevision(u)
        <4>1. CallInv(u) /\ Live(u) /\ call[u].at \in {"commit", "orphan"}
          BY <1>0, <2>5
        <4> QED
          BY <4>1 DEF CallInv, Written
      <3>3. NewRevision(u) # NoRevision
        <4>1. call[u].base + 1 # 0
          BY <1>0 DEF PageTypeOK
        <4> QED
          BY <4>1 DEF NewRevision, NoRevision
      <3> QED
        BY <2>3, <2>5, <3>1, <3>2, <3>3 DEF RequestOf, StageOf, Live
    <2> QED
      BY <2>4, <2>5
  <1>2. /\ RequestsOf' = [u \in Calls |-> IF u \in S THEN Idle ELSE RequestsOf[u]]
        /\ AnswersOf' = AnswersOf
    BY <1>1 DEF RequestsOf, AnswersOf
  <1>3. UNCHANGED History
    BY DEF Restart, History
  <1>4. Page!Abandon(S)
    BY <1>2, <1>3 DEF Page!Abandon, RequestsOf, AnswersOf, Idle, Page!NoRequest
  <1> QED
    BY <1>4

LEMMA NextStep ==
  ASSUME IInv, PageStoreAssumption, [Next]_vars
  PROVE  [Page!PageNext]_(Page!pageVars)
  <1>1. CASE Restart
    BY <1>1, RestartStep DEF Page!PageNext
  <1>2. ASSUME NEW w \in Calls,
               \/ BeginTx(w) \/ InsertPage(w) \/ UpdateRow(w) \/ InsertRevision(w)
               \/ StatementFails(w)
        PROVE  UNCHANGED Page!pageVars
    BY <1>2, InnerSteps
  <1>3. ASSUME NEW w \in Calls, Invalid(w) \/ Return(w) \/ Rollback(w) \/ BeginFails(w)
        PROVE  Page!PageNext
    BY <1>3, ReturnSteps DEF Page!PageNext
  <1>4. ASSUME NEW w \in Calls, LockRow(w)
        PROVE  Page!PageNext \/ UNCHANGED Page!pageVars
    BY <1>4, LockRowStep DEF Page!PageNext
  <1>5. ASSUME NEW w \in Calls, Commit(w) PROVE Page!PageNext
    <2>1. PageTypeOK
      BY DEF IInv
    <2>2. /\ call'[w] = [call[w] EXCEPT !.at = "committed"]
          /\ \A u \in Calls \ {w} : call'[u] = call[u] /\ answer'[u] = answer[u]
      BY <1>5, <2>1, GotoFacts DEF Commit, PageTypeOK, CallType, Place
    <2>3. Page!Store(w)
      BY <1>5, <2>2, ApplyStep DEF Commit, Live
    <2> QED
      BY <2>3 DEF Page!PageNext
  <1>6. ASSUME NEW w \in Calls, CommitLost(w) \/ EndOrphan(w) PROVE Page!PageNext
    BY <1>6, CommitLostStep, EndOrphanStep DEF Page!PageNext
  <1>7. ASSUME NEW w \in Calls, NEW x \in Texts \union {Blank},
               CreatePage(w, x) \/ \E v \in 1..MaxVersion : UpdatePage(w, v, x)
        PROVE  Page!PageNext
    <2>1. PICK v \in Nat : Call(w, v, x)
      BY <1>7, PageStoreAssumption
        DEF CreatePage, UpdatePage, PageStoreAssumption
    <2>2. Page!Ask(w)
      BY <2>1, AskStep
    <2> QED
      BY <2>2 DEF Page!PageNext
  <1>8. CASE UNCHANGED vars
    <2>1. RequestsOf' = RequestsOf /\ AnswersOf' = AnswersOf /\ UNCHANGED History
      BY <1>8
        DEF vars, RequestsOf, AnswersOf, RequestOf, AnswerOf, StageOf, History
    <2> QED
      BY <2>1 DEF Page!pageVars, RequestsOf, AnswersOf
  <1> QED
    BY <1>1, <1>2, <1>3, <1>4, <1>5, <1>6, <1>7, <1>8 DEF Next, Progress

\* The transactions implement the compare-and-set register: every call takes effect
\* at one moment or not at all, on the version it was made on.
THEOREM Implements == Spec => PageSpec
  <1>1. Init => Page!PageInit
    BY PageStoreAssumption
      DEF Init, Page!PageInit, History, RequestOf, AnswerOf, StageOf,
       NoRequest, Page!NoRequest
  <1>2. IInv /\ [Next]_vars => [Page!PageNext]_(Page!pageVars)
    BY NextStep, PageStoreAssumption
  <1> QED
    BY <1>1, <1>2, PageInvariant, PTL DEF Spec, PageSpec, Page!PageSpec, IInv

================================================================================
