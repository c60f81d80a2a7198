----------------------------- MODULE Employment -----------------------------
(***************************************************************************)
(* What the city promises about employment: a manager holds a post at one  *)
(* workplace at most, signs contracts for it, and takes all of them along  *)
(* when leaving.  No salaries, no lists, no order of scanning.             *)
(***************************************************************************)
CONSTANTS Ids, Workplaces

VARIABLES
  posts,      \* the pairs <<workplace, manager>>
  contracts,  \* the triples <<workplace, manager, employee>>
  reply       \* what the last call came to: "done", "refused", "yes" or "no"

vars == <<posts, contracts, reply>>

Init == posts = {} /\ contracts = {} /\ reply = "done"

Appoint(w, m) ==
  /\ \A v \in Workplaces : <<v, m>> \notin posts
  /\ posts' = posts \cup {<<w, m>>}
  /\ reply' = "done"
  /\ UNCHANGED contracts

Dismiss(w, m) ==
  /\ <<w, m>> \in posts
  /\ posts' = posts \ {<<w, m>>}
  /\ contracts' = {k \in contracts : k[2] # m}
  /\ reply' = "done"

Hire(w, m, e) ==
  /\ <<w, m>> \in posts
  /\ <<w, m, e>> \notin contracts
  /\ contracts' = contracts \cup {<<w, m, e>>}
  /\ reply' = "done"
  /\ UNCHANGED posts

Fire(w, m, e) ==
  /\ <<w, m, e>> \in contracts
  /\ contracts' = contracts \ {<<w, m, e>>}
  /\ reply' = "done"
  /\ UNCHANGED posts

Colleagues(e, f) ==
  \E w \in Workplaces, m, n \in Ids : <<w, m, e>> \in contracts /\ <<w, n, f>> \in contracts

AskColleagues(e, f) ==
  /\ reply' = IF Colleagues(e, f) THEN "yes" ELSE "no"
  /\ UNCHANGED <<posts, contracts>>

\* A call that is refused, or that is about something else, leaves it all alone.
Other ==
  /\ reply' \in {"done", "refused"}
  /\ UNCHANGED <<posts, contracts>>

Next ==
  \/ \E w \in Workplaces, m \in Ids : Appoint(w, m) \/ Dismiss(w, m)
  \/ \E w \in Workplaces, m, e \in Ids : Hire(w, m, e) \/ Fire(w, m, e)
  \/ \E e, f \in Ids : AskColleagues(e, f)
  \/ Other

Spec == Init /\ [][Next]_vars
=============================================================================
