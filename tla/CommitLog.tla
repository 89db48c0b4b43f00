----------------------------- MODULE CommitLog ------------------------------
(***************************************************************************)
(* What a swap module promises about commits (bp02-module-swap): they form *)
(* one chain that only grows at its head, every accepted commit continues  *)
(* the head, and the pools of the module change in no other way than by    *)
(* accepting a commit.                                                     *)
(***************************************************************************)
CONSTANTS Ids,         \* inscription ids of commits
          Root,        \* the head of an empty chain
          NoPools      \* the pools of a new module

VARIABLES head,        \* the last accepted commit
          settled,     \* the accepted commits before it
          pools        \* the pools: reserves and LP
vars == <<head, settled, pools>>

Init == head = Root /\ settled = {} /\ pools = NoPools

Accept(id) ==
  /\ id \notin settled \cup {head}
  /\ settled' = settled \cup ({head} \ {Root})
  /\ head' = id                \* pools' is whatever the commit makes of it

Next == \E id \in Ids : Accept(id)

Spec == Init /\ [][Next]_vars
=============================================================================
