------------------------------ MODULE SlotPool ------------------------------
(***************************************************************************)
(* What the processing leases promise: each user has MaxPerUser slots, a   *)
(* document takes at most one of its owner's, and gives it back.           *)
(***************************************************************************)
EXTENDS Naturals, FiniteSets

CONSTANTS Doc, User, Owner, MaxPerUser

VARIABLE held  \* the documents that hold a slot

HeldBy(u) == {d \in held : Owner[d] = u}

Init == held = {}

Take(d) ==
    /\ d \notin held
    /\ Cardinality(HeldBy(Owner[d])) < MaxPerUser
    /\ held' = held \cup {d}

GiveBack(d) ==
    /\ d \in held
    /\ held' = held \ {d}

Next == \E d \in Doc : Take(d) \/ GiveBack(d)

Spec == Init /\ [][Next]_held
=============================================================================
