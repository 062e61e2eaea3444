----------------------------- MODULE EntityTree -----------------------------
(***************************************************************************)
(* What the REST interfaces of EMCO promise about the documents of one     *)
(* name space: they form a forest.  A document is created at once, under   *)
(* ancestors that are there, and removed when nothing is under it.         *)
(* Once the promise is void, anything may happen.                          *)
(***************************************************************************)
CONSTANTS Kind,        \* the kinds of documents
          Above        \* the kinds a document of a kind is kept under

VARIABLES live,        \* the documents that are there
          void         \* the promise no longer holds

TreeInit ==
    /\ \E top \in SUBSET Kind : live = top /\ \A k \in top : Above[k] \subseteq top
    /\ void = FALSE

Create(k) == /\ Above[k] \subseteq live
             /\ live' = live \cup {k}

Delete(k) == /\ \A j \in live : k \notin Above[j]
             /\ live' = live \ {k}

TreeNext ==
    \/ ~void /\ (\E k \in Kind : Create(k) \/ Delete(k)) /\ UNCHANGED void
    \/ void' = TRUE /\ live' \in SUBSET Kind

TreeSpec == TreeInit /\ [][TreeNext]_<<live, void>>

=============================================================================
