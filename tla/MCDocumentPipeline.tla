------------------------- MODULE MCDocumentPipeline -------------------------
EXTENDS DocumentPipeline, TLC

\* Worker processes run the same code and no variable orders them.  Not used in
\* the runs that check liveness.
WorkerSymmetry == Permutations(Worker)

Overlap == \E v, w \in Worker : v # w /\ "idle" \notin {worker[v].pc, worker[w].pc}

\* Two workers overlap around a DELETE with a lost or repeated message; or one
\* worker at a time meets a crash with an I/O error and a DELETE, or the I/O
\* errors that end a deletion with 20015, and its retry.
OneConcern ==
    \/ /\ used.faults = 0 /\ used.crashes = 0 /\ used.expirations = 0
       /\ doc.cycle <= 1
    \/ /\ ~Overlap /\ used.mishaps = 0
       /\ used.crashes + used.expirations > 0 => doc.cycle <= 1 /\ used.faults <= 1
=============================================================================
