--------------------------- MODULE AdmissionMutex ---------------------------
(***************************************************************************)
(* What the install admission lock promises: at any time at most one        *)
(* attempt owns the app, only a free app can be taken, and only the owner    *)
(* gives it back.                                                           *)
(***************************************************************************)
CONSTANTS Attempts, Free

VARIABLE owner

Init == owner = Free

Take(a) == owner = Free /\ owner' = a

GiveBack(a) == owner = a /\ owner' = Free

Next == \E a \in Attempts : Take(a) \/ GiveBack(a)

Spec == Init /\ [][Next]_owner

=============================================================================
