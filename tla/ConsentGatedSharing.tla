------------------------ MODULE ConsentGatedSharing ------------------------
(***************************************************************************)
(* What the platform promises a family about its story: relatives can read *)
(* it only between a grant of the sharing consent and its withdrawal, and  *)
(* never again once the project is erased.  Sharing may also end for other *)
(* reasons (links revoked, a new draft replacing the page).                *)
(***************************************************************************)
VARIABLES
  granted,  \* the sharing consent is in force
  shared,   \* relatives can read the story
  erased    \* the family asked for deletion

vars == <<granted, shared, erased>>

Init == granted = FALSE /\ shared = FALSE /\ erased = FALSE

Grant == ~erased /\ granted' = TRUE /\ UNCHANGED <<shared, erased>>

Withdraw == ~erased /\ granted' = FALSE /\ shared' = FALSE /\ UNCHANGED erased

Share == ~erased /\ granted /\ shared' = TRUE /\ UNCHANGED <<granted, erased>>

Unshare == ~erased /\ shared' = FALSE /\ UNCHANGED <<granted, erased>>

Erase == ~erased /\ erased' = TRUE /\ shared' = FALSE /\ UNCHANGED granted

Next == Grant \/ Withdraw \/ Share \/ Unshare \/ Erase

Spec == Init /\ [][Next]_vars
=============================================================================
