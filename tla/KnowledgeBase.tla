---------------------------- MODULE KnowledgeBase ----------------------------
(***************************************************************************)
(* A knowledge base with its documents: uploads (UploadBatch), DELETE of a *)
(* document, DELETE of the knowledge base and the scanner that ends it.    *)
(* What the pipeline does to one document (DocumentPipeline) is abstracted *)
(* to one task with its attempt: it runs and completes or fails, and       *)
(* running, under a deletion, it hands over to the cleanup or fails over   *)
(* the deletion.  Error 20012 stands for every failure of a stage; the     *)
(* retries, takeovers and worker deaths of a task are part of "running".   *)
(* Left out here is that parse may write `processing` over a deletion      *)
(* (DocumentPipeline, run parse_unhides).                                  *)
(***************************************************************************)
EXTENDS UploadBatch

CONSTANTS
    MaxDeletes,     \* DELETEs of single documents
    MaxEarly,       \* DELETEs that meet a document whose upload has not converged
    MaxRetries      \* repeated DELETEs of the knowledge base

ASSUME DeletionAssumption == MaxDeletes \in Nat /\ MaxEarly \in Nat /\ MaxRetries \in Nat

CleanupFailed(d) == doc[d].status = "failed" /\ doc[d].error = 20015

\* stage_document_delete: the retry of a failed deletion leaves `failed`, and where
\* an attempt is running the cleanup has to wait for its end.
Staged(r) ==
    IF r.status = "deleting" THEN r
    ELSE [status |-> IF r.status = "failed" /\ r.error = 20015 THEN "failed" ELSE "deleting",
          error |-> 0, cleanup |-> r.task # "running",
          task |-> IF r.task \in {"pending", "queued"} THEN "cancelled" ELSE r.task]

\* A document whose batch is still being coordinated, or was left half way.
Unconverged(d) ==
    \/ doc[d].status = "pending"
    \/ \E p \in Proc : proc[p].batch # NoBatch /\ d \in DocsOf[proc[p].batch]

\* How often a DELETE meets such a document is bounded by itself.
EarlyBy(docs) == IF \E d \in docs : Unconverged(d) THEN 1 ELSE 0

-----------------------------------------------------------------------------
(***************************************************************************)
(* DELETE of one document: row lock, then commit.                          *)
(***************************************************************************)
DeleteLock(d) ==
    /\ doc[d].status \notin {"absent", "deleted"}
    /\ d \notin Locked
    /\ used.deletes < MaxDeletes /\ used.early + EarlyBy({d}) <= MaxEarly
    /\ used' = [used EXCEPT !.deletes = @ + 1, !.early = @ + EarlyBy({d})]
    /\ held' = held \cup {d}
    /\ UNCHANGED <<dbVars, tmp, obj, proc>>

DeleteCommit(d) ==
    /\ d \in held
    /\ doc' = [doc EXCEPT ![d] = Staged(@)]
    /\ held' = held \ {d}
    /\ UNCHANGED <<kb, request, tmp, obj, proc, used>>

\* delete_cleanup removes the object at the document's final key.
CleanUp(d) ==
    /\ doc[d].cleanup /\ d \notin Locked
    /\ doc' = [doc EXCEPT ![d].status = "deleted", ![d].error = 0, ![d].cleanup = FALSE]
    /\ obj' = obj \ {d}
    /\ UNCHANGED <<kb, request, tmp, proc, held, used>>

CleanUpFails(d) ==
    /\ doc[d].cleanup /\ d \notin Locked
    /\ Spend("faults", MaxFaults)
    /\ \E removed \in SUBSET {d} : obj' = obj \ removed
    /\ doc' = [doc EXCEPT ![d].status = "failed", ![d].error = 20015, ![d].cleanup = FALSE]
    /\ UNCHANGED <<kb, request, tmp, proc, held>>

-----------------------------------------------------------------------------
(***************************************************************************)
(* The pipeline.                                                           *)
(***************************************************************************)
Write(d, status, error, task, cleanup) ==
    doc' = [doc EXCEPT ![d] = [status |-> status, error |-> error,
                               task |-> task, cleanup |-> cleanup]]

Start(d) ==
    /\ doc[d].status = "queued" /\ doc[d].task = "queued" /\ d \notin Locked
    /\ Write(d, "processing", doc[d].error, "running", doc[d].cleanup)
    /\ UNCHANGED <<kb, request, tmp, obj, proc, held, used>>

StageFails(d) == Write(d, "failed", 20012, "failed", doc[d].cleanup)

\* Without its object a document does not get through parse.
Finish(d) ==
    /\ doc[d].status = "processing" /\ doc[d].task = "running" /\ d \notin Locked
    /\ \/ d \in obj /\ Write(d, "completed", doc[d].error, "done", doc[d].cleanup)
       \/ StageFails(d)
    /\ UNCHANGED <<kb, request, tmp, obj, proc, held, used>>

\* A deletion has found the attempt running.
Interrupted(d) == doc[d].status = "deleting" /\ doc[d].task = "running" /\ d \notin Locked

\* The worker stops at its next fence, or the scanner ends the attempt when its
\* lease expires: the cleanup is queued.
HandOver(d) ==
    /\ Interrupted(d)
    /\ Write(d, "deleting", doc[d].error, "cancelled", TRUE)
    /\ UNCHANGED <<kb, request, tmp, obj, proc, held, used>>

\* fail_stage does not look at the status: `failed` overwrites `deleting`, and the
\* waiting cleanup is never queued.
FailOver(d) ==
    /\ Interrupted(d)
    /\ StageFails(d)
    /\ UNCHANGED <<kb, request, tmp, obj, proc, held, used>>

Process(d) == Start(d) \/ Finish(d) \/ HandOver(d) \/ FailOver(d)

-----------------------------------------------------------------------------
(***************************************************************************)
(* DELETE of the knowledge base.  It locks the knowledge base, which keeps *)
(* out inserts, and then its documents, for which it waits.                *)
(***************************************************************************)
Deletable == {d \in Doc : doc[d].status \notin {"absent", "deleted"}}

RemoveAll ==
    /\ kb' = "gone"
    /\ doc' = [d \in Doc |-> NoRow]
    /\ request' = NoRequest

KbDeleteEmpty ==
    /\ kb = "active" /\ Deletable = {} /\ {d \in Doc : Exists(d)} \cap Locked = {}
    /\ RemoveAll
    /\ UNCHANGED <<tmp, obj, proc, held, used>>

KbDelete ==
    /\ kb = "active" /\ Deletable # {} /\ Deletable \cap Locked = {}
    /\ used.early + EarlyBy(Deletable) <= MaxEarly
    /\ used' = [used EXCEPT !.early = @ + EarlyBy(Deletable)]
    /\ kb' = "deleting"
    /\ doc' = [d \in Doc |-> IF d \in Deletable THEN Staged(doc[d]) ELSE doc[d]]
    /\ UNCHANGED <<request, tmp, obj, proc, held>>

\* From delete_failed only the documents that failed get a new cycle.
KbRetry ==
    /\ kb = "delete_failed" /\ Deletable \cap Locked = {}
    /\ Spend("retries", MaxRetries)
    /\ kb' = "deleting"
    /\ doc' = [d \in Doc |-> IF CleanupFailed(d) THEN Staged(doc[d]) ELSE doc[d]]
    /\ UNCHANGED <<request, tmp, obj, proc, held>>

KbConvergeFailsLate ==  \* mutant
    /\ kb = "deleting" /\ {d \in Doc : Exists(d)} \cap Locked = {}
    /\ \A d \in Doc : Exists(d) => CleanupFailed(d)
    /\ \E d \in Doc : CleanupFailed(d)
    /\ kb' = "delete_failed"
    /\ UNCHANGED <<doc, request, tmp, obj, proc, held, used>>

KbConvergeFails ==
    /\ kb = "deleting" /\ {d \in Doc : Exists(d)} \cap Locked = {}
    /\ \E d \in Doc : CleanupFailed(d)
    /\ kb' = "delete_failed"
    /\ UNCHANGED <<doc, request, tmp, obj, proc, held, used>>

KbConverge ==
    /\ kb = "deleting" /\ {d \in Doc : Exists(d)} \cap Locked = {}
    /\ \A d \in Doc : doc[d].status \in {"absent", "deleted"}
    /\ RemoveAll
    /\ UNCHANGED <<tmp, obj, proc, held, used>>

-----------------------------------------------------------------------------
Next ==
    \/ \E b \in Batch : Check(b) \/ UploadStep(b) \/ Scan(b)
    \/ \E p \in Proc : CoordinatorStep(p) \/ Crash(p)
    \/ RequestExpires \/ RemoveExpired
    \/ \E d \in Doc : \/ DeleteLock(d) \/ DeleteCommit(d)
                      \/ CleanUp(d) \/ CleanUpFails(d) \/ Process(d)
    \/ KbDeleteEmpty \/ KbDelete \/ KbRetry \/ KbConvergeFails \/ KbConverge

Spec == Init /\ [][Next]_vars

(***************************************************************************)
(* A request that is served goes on, the database finishes transactions,   *)
(* queued work is done, a running attempt ends, and the beat runs its      *)
(* scans for ever.  Users, faults, crashes and failures of a stage under a *)
(* deletion are not fair.                                                  *)
(***************************************************************************)
Work(d) == CleanUp(d) \/ Start(d) \/ Finish(d) \/ HandOver(d)

Fairness ==
    /\ WF_vars(\E b \in Batch : UploadStep(b))
    /\ WF_vars(\E d \in Doc : DeleteCommit(d))
    /\ \A p \in Proc : WF_vars(CoordinatorStep(p))
    /\ SF_vars(\E b \in Batch : Scan(b))
    /\ SF_vars(\E d \in Doc : Work(d))
    /\ SF_vars(KbConvergeFails \/ KbConverge)

FairSpec == Spec /\ Fairness

-----------------------------------------------------------------------------
\* A DELETE that meets an upload half way, or a death or an I/O error: not both.
OneTrouble == used.early = 0 \/ used.crashes + used.faults = 0

TypeOK ==
    /\ kb \in {"active", "deleting", "delete_failed", "gone"}
    /\ doc \in [Doc -> Row]
    /\ request \in Request
    /\ tmp \subseteq Doc /\ obj \subseteq Doc /\ held \subseteq Doc
    /\ \A p \in Proc :
         /\ proc[p].todo \subseteq proc[p].docs
         /\ proc[p].docs # {} => proc[p].docs \subseteq DocsOf[proc[p].batch]

\* No document is offered to the pipeline without its file, nor loses it while it
\* is processed: promotion, takeover, compensation and deletion by several
\* processes never cross so that a queued or running document has no object.
Offered(r) == r.status \in {"queued", "processing"}
QueuedHasObject == \A d \in Doc : Offered(doc[d]) => d \in obj

\* A request that was answered "accepted" stands for the whole batch: no
\* document of it is left pending or failed to upload, except one that a DELETE
\* holds at that moment.
AcceptedAsWhole ==
    request.status = "accepted" =>
        \A d \in DocsOf[request.batch] :
            /\ doc[d].error # 20011
            /\ doc[d].status = "pending" => d \in held

\* However often and concurrently an upload is repeated, its key creates one
\* batch, as long as the request is remembered.
OneBatchPerKey ==
    used.removed = 0 =>
        \A b, c \in Keyed : \A d \in DocsOf[b], e \in DocsOf[c] :
            Exists(d) /\ Exists(e) => b = c

\* What has become of a document.  A deletion that has failed or is tried again is
\* not over; one that waits for a running attempt is not safe.
Fate(r) ==
    IF r.status = "deleting" /\ r.task = "running" THEN "interrupted"
    ELSE IF r.status # "failed" THEN r.status
    ELSE IF r.cleanup \/ r.error = 20015 THEN "deleting"
    ELSE IF r.error = 20011 THEN "unsent" ELSE "failed"

Fates == [d \in Doc |-> Fate(doc[d])]

\* Coordinators, scanner, DELETEs and the pipeline implement the life of a batch:
\* each commit is one step of it, whatever came before it on the way.
Life == INSTANCE BatchLife WITH life <- Fates, doomed <- held,
                                asked <- request.batch, answer <- request.status
LifeSpec == Life!Spec

\* A tombstone is for ever: no coordinator that comes late brings a deleted
\* document back.
TombstoneFinal ==
    [][\A d \in Doc : doc[d].status = "deleted" => doc'[d].status \in {"deleted", "absent"}]_vars

\* No row outlives the knowledge base, and no file as long as no DELETE met an
\* upload half way: no stored object, whoever dies on the way; and no temporary
\* one, but for an upload still on its way to its refusal, unless a process died
\* between its files and its rows or an I/O error kept a cleanup from its end.
NoOrphans ==
    kb = "gone" =>
        /\ \A d \in Doc : ~Exists(d)
        /\ used.early = 0 =>
             /\ used.strays = 0 =>
                  tmp \subseteq UNION {DocsOf[b] : b \in {c \in Batch : proc[c].pc = "persist"}}
             /\ obj = {}

\* An upload that was accepted into the database does not hang, whoever dies:
\* its documents leave `pending`, and none stays behind.
PendingSettles ==
    (\E d \in Doc : doc[d].status = "pending") ~> (\A d \in Doc : doc[d].status # "pending")

\* The deletion of a knowledge base ends, in its removal or in delete_failed, unless
\* a document blocks it: one that an upload has added behind its back (completed,
\* 20011), or one whose stage failed, over its deletion or added late (20012).
KbDeletionEndsUnlessBlocked ==
    kb = "deleting" ~> \/ kb # "deleting"
                       \/ \E d \in Doc : doc[d].status = "completed" \/ doc[d].error \in {20011, 20012}
=============================================================================
