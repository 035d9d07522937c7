------------------------------ MODULE BatchLife ------------------------------
(***************************************************************************)
(* What uploads and deletions promise about the documents of a knowledge   *)
(* base, whoever carries them out: a batch appears with its request, and   *)
(* in one step is queued but for what a DELETE has taken, or fails as a    *)
(* whole; and a document that is being deleted can only become a tombstone,*)
(* unless its deletion had to interrupt a running stage: such a deletion   *)
(* may be lost to the failure of that stage.                               *)
(***************************************************************************)
CONSTANTS Doc, Batch, NoBatch, DocsOf, Keyed, Present

VARIABLES
    life,       \* documents: "unsent" has failed to upload, "interrupted" is being deleted
                \* but still runs
    doomed,     \* documents a DELETE has in hand
    asked,      \* the batch of the key's request
    answer      \* what the request is answered

vars == <<life, doomed, asked, answer>>

Become(D, s) == life' = [d \in Doc |-> IF d \in D THEN s ELSE life[d]]
Pending(b) == {d \in DocsOf[b] : life[d] = "pending"}
Live == {d \in Doc : life[d] \notin {"absent", "deleted"}}

Init ==
    /\ life = [d \in Doc |-> IF d \in Present THEN "completed" ELSE "absent"]
    /\ doomed = {}
    /\ asked = NoBatch
    /\ answer = "none"

\* The request of the key stands for the batch until its verdict.
Verdict(b, s) ==
    /\ asked = b => answer = "coordinating"
    /\ answer' = IF asked = b THEN s ELSE answer
    /\ UNCHANGED <<asked, doomed>>

Arrive(b) ==
    /\ \A d \in DocsOf[b] : life[d] = "absent"
    /\ Become(DocsOf[b], "pending")
    /\ \/ b \in Keyed /\ answer = "none" /\ answer' = "coordinating" /\ asked' = b
       \/ b \notin Keyed /\ UNCHANGED <<asked, answer>>
    /\ UNCHANGED doomed

Accept(b) == Become(Pending(b) \ doomed, "queued") /\ Verdict(b, "accepted")

Refuse(b) ==
    /\ Pending(b) = DocsOf[b] /\ DocsOf[b] \cap doomed = {}
    /\ Become(DocsOf[b], "unsent")
    /\ Verdict(b, "failed")

Process(d) ==
    /\ d \notin doomed
    /\ \/ life[d] = "queued" /\ Become({d}, "processing")
       \/ life[d] = "processing" /\ (Become({d}, "completed") \/ Become({d}, "failed"))
    /\ UNCHANGED <<doomed, asked, answer>>

Going(s) == IF s \in {"processing", "interrupted"} THEN "interrupted" ELSE "deleting"
Go(D) == life' = [d \in Doc |-> IF d \in D THEN Going(life[d]) ELSE life[d]]

Doom(d) ==
    /\ d \in Live \ doomed
    /\ doomed' = doomed \cup {d}
    /\ UNCHANGED <<life, asked, answer>>

Delete(d) ==
    /\ d \in doomed
    /\ Go({d})
    /\ doomed' = doomed \ {d}
    /\ UNCHANGED <<asked, answer>>

DeleteAll ==
    /\ doomed = {}
    /\ Go(Live)
    /\ UNCHANGED <<doomed, asked, answer>>

\* The running stage makes way for the deletion, or fails over it.
Yield(d) ==
    /\ life[d] = "interrupted" /\ d \notin doomed
    /\ Become({d}, "deleting") \/ Become({d}, "failed")
    /\ UNCHANGED <<doomed, asked, answer>>

Clean(d) ==
    /\ life[d] = "deleting" /\ d \notin doomed
    /\ Become({d}, "deleted")
    /\ UNCHANGED <<doomed, asked, answer>>

Forget ==
    /\ asked' = NoBatch /\ answer' = "none"
    /\ UNCHANGED <<life, doomed>>

Remove ==
    /\ Live = {} /\ doomed = {}
    /\ Become(Doc, "absent")
    /\ asked' = NoBatch /\ answer' = "none"
    /\ UNCHANGED doomed

Next ==
    \/ \E b \in Batch : Arrive(b) \/ Accept(b) \/ Refuse(b)
    \/ \E d \in Doc : Process(d) \/ Doom(d) \/ Delete(d) \/ Yield(d) \/ Clean(d)
    \/ DeleteAll \/ Forget \/ Remove

Spec == Init /\ [][Next]_vars
=============================================================================
