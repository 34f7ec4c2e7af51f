---------------------------------- MODULE Sharing --------------------------------
(****************************************************************************)
(* What wikis, invite codes and membership promise: the tables wikis,       *)
(* share_codes and wiki_members as the calls leave them.  A code, once      *)
(* there, is the code of that wiki alone and for good; a wiki keeps its     *)
(* owner; who becomes a member joins a wiki that has been shared.           *)
(****************************************************************************)
CONSTANTS
  Users, WikiIds, Codes,
  Nobody, NoWiki, NoCode

ASSUME SharingAssumption ==
  Nobody \notin Users /\ NoWiki \notin WikiIds /\ NoCode \notin Codes

VARIABLES
  owner,    \* owner[w]: wikis.owner_id, Nobody if there is no such wiki
  members,  \* wiki_members: pairs of a wiki and a user
  code      \* code[w]: share_codes.code of w, NoCode if it has none

sharingVars == <<owner, members, code>>

SharingInit ==
  /\ owner = [w \in WikiIds |-> Nobody]
  /\ members = {}
  /\ code = [w \in WikiIds |-> NoCode]

\* User u creates wiki w.
Found(u, w) ==
  /\ owner[w] = Nobody
  /\ owner' = [owner EXCEPT ![w] = u]
  /\ UNCHANGED <<members, code>>

\* Wiki w gets code k.
Publish(w, k) ==
  /\ owner[w] # Nobody
  /\ code[w] = NoCode
  /\ \A v \in WikiIds : code[v] # k
  /\ code' = [code EXCEPT ![w] = k]
  /\ UNCHANGED <<owner, members>>

\* User u becomes a member of w, or is one already.
Join(u, w) ==
  /\ code[w] # NoCode
  /\ members' = members \union {<<w, u>>}
  /\ UNCHANGED <<owner, code>>

SharingNext ==
  \E w \in WikiIds :
    \/ \E u \in Users : Found(u, w) \/ Join(u, w)
    \/ \E k \in Codes : Publish(w, k)

(****************************************************************************)
(* Whatever statements of other calls run between those of one call, a code *)
(* or an owner is never replaced, no two wikis get one code, and only a     *)
(* wiki that has been shared is joined.                                     *)
(****************************************************************************)
SharingSpec == SharingInit /\ [][SharingNext]_sharingVars
================================================================================
