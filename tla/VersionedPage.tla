----------------------------- MODULE VersionedPage -----------------------------
(****************************************************************************)
(* What PageService promises the callers of CreatePage and UpdatePage about *)
(* one page: a register that is changed by compare-and-set on its version,  *)
(* keeps every text it ever had, and whose calls take effect at one moment  *)
(* or not at all: before the answer, unless that is "error".                *)
(****************************************************************************)
EXTENDS Naturals, Sequences

CONSTANTS
  Callers,  \* calls in progress at the same time
  Texts,    \* page contents
  NoText    \* no call is made

VARIABLES
  history,  \* history[v]: the text of version v, and who wrote it
  call,     \* call[w]: the version w's call is made on, its text, its effect
  answer    \* answer[w]: how w's last call returned

pageVars == <<history, call, answer>>

NoRequest == [stage |-> "idle", base |-> 0, text |-> NoText]

PageInit ==
  /\ history = <<>>
  /\ call = [w \in Callers |-> NoRequest]
  /\ answer = [w \in Callers |-> "none"]

\* A call on some version; CreatePage is a call on version 0.
Ask(w) ==
  /\ call[w].stage = "idle"
  /\ call'[w].stage = "asked"
  /\ call'[w].base \in Nat
  /\ call'[w].text \in Texts
  /\ call' = [call EXCEPT ![w] = call'[w]]
  /\ answer' = [answer EXCEPT ![w] = "none"]
  /\ UNCHANGED history

\* The call takes effect: nobody else has changed the page since its version.
Store(w) ==
  /\ call[w].stage = "asked"
  /\ Len(history) = call[w].base
  /\ history' = Append(history, [text |-> call[w].text, by |-> w])
  /\ \/ answer[w] = "none" /\ call' = [call EXCEPT ![w].stage = "stored"]
     \/ call' = [call EXCEPT ![w] = NoRequest]      \* nobody waits for the answer
  /\ UNCHANGED answer

Refuse(w) ==
  /\ call[w].stage = "asked"
  /\ answer[w] = "none"
  /\ Len(history) # call[w].base
  /\ call' = [call EXCEPT ![w].stage = "refused"]
  /\ UNCHANGED <<history, answer>>

\* "ok" and "conflict" are the truth.
Return(w) ==
  /\ call[w].stage # "idle"
  /\ answer[w] = "none"
  /\ \/ call[w].stage = "stored" /\ answer' = [answer EXCEPT ![w] = "ok"]
     \/ call[w].stage = "refused" /\ answer' = [answer EXCEPT ![w] = "conflict"]
     \/ call[w].stage = "refused" /\ answer' = [answer EXCEPT ![w] = "missing"]
     \/ call[w].stage = "asked" /\ answer' = [answer EXCEPT ![w] = "invalid"]
     \/ answer' = [answer EXCEPT ![w] = "error"]
  /\ call' = [call EXCEPT ![w] = NoRequest]
  /\ UNCHANGED history

\* The answer is "error", and the call may still take effect.
Doubt(w) ==
  /\ call[w].stage = "asked"
  /\ answer[w] = "none"
  /\ answer' = [answer EXCEPT ![w] = "error"]
  /\ UNCHANGED <<history, call>>

\* The callers in S are gone, and their calls with them.
Abandon(S) ==
  /\ call' = [w \in Callers |-> IF w \in S THEN NoRequest ELSE call[w]]
  /\ UNCHANGED <<history, answer>>

PageNext ==
  \/ \E w \in Callers : Ask(w) \/ Store(w) \/ Refuse(w) \/ Return(w) \/ Doubt(w)
  \/ \E S \in SUBSET Callers : Abandon(S)

PageSpec == PageInit /\ [][PageNext]_pageVars
================================================================================
