--------------------------- MODULE MCKnowledgeBase ---------------------------
(***************************************************************************)
(* Instances of KnowledgeBase: an upload of two documents and a second     *)
(* one, with one document, under the same key.                             *)
(***************************************************************************)
EXTENDS KnowledgeBase

CONSTANTS d0, d1, d2, b1, b2

MCDoc == {d0, d1, d2}
MCDocsOf == [b \in {b1, b2} |-> IF b = b1 THEN {d0, d1} ELSE {d2}]

\* Of crashes, faults, DELETEs of one document and retries at most two meet.
TwoTroubles ==
    OneTrouble /\ used.crashes + used.faults + used.deletes + used.retries <= 2
=============================================================================
