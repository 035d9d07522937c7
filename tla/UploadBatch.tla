----------------------------- MODULE UploadBatch -----------------------------
(***************************************************************************)
(* The upload of a batch of documents into one knowledge base: temporary   *)
(* objects, one transaction for the rows, promotion of the objects under   *)
(* row locks, then `queued` for the whole batch or its compensation.  The  *)
(* request itself, a repeated request with the same Idempotency-Key and    *)
(* the recovery scanner all run the same coordinator.                      *)
(*                                                                         *)
(* Failures covered: a coordinator that dies at any point (its row locks   *)
(* go, its files stay), I/O errors of the volume, also while a failed      *)
(* upload is cleaned up, rows of the batch locked by somebody else (SKIP   *)
(* LOCKED), requests that expire and are removed.                          *)
(***************************************************************************)
EXTENDS Naturals, FiniteSets

CONSTANTS
    Doc,            \* documents, uploaded before or by one of the batches
    Batch,          \* uploads; each is also the process that serves the request
    NoBatch,
    DocsOf,         \* [Batch -> SUBSET Doc], upload_batch_id
    Keyed,          \* uploads with the (one) Idempotency-Key of this model
    Present,        \* documents that were completed before
    Scanner,        \* the recovery scanner, a coordinator too
    MaxCrashes, MaxFaults,
    Prompt          \* coordinators are quicker than the takeover timeouts

ASSUME UploadAssumption ==
    /\ DocsOf \in [Batch -> SUBSET Doc] /\ Keyed \subseteq Batch /\ Present \subseteq Doc
    /\ \A b \in Batch : DocsOf[b] \cap Present = {}
    /\ \A b, c \in Batch : b # c => DocsOf[b] \cap DocsOf[c] = {}
    /\ Scanner \notin Batch /\ NoBatch \notin Batch /\ MaxCrashes \in Nat /\ MaxFaults \in Nat
    /\ Prompt \in BOOLEAN

VARIABLES
    kb,         \* knowledge_bases.status, "gone" once the row is deleted
    doc,        \* documents: status, error_code, the task in hand, whether a cleanup is queued
    request,    \* document_upload_requests of the key
    tmp, obj,   \* documents with a temporary, with a final object
    proc,       \* the coordinators
    held,       \* documents whose row a DELETE has locked
    used        \* how much of each bound is spent

dbVars == <<kb, doc, request>>
vars == <<kb, doc, request, tmp, obj, proc, held, used>>

-----------------------------------------------------------------------------
Proc == Batch \cup {Scanner}

Row == [status : {"absent", "pending", "queued", "processing", "completed", "failed",
                  "deleting", "deleted"},
        error : {0, 20011, 20012, 20015},
        task : {"none", "pending", "queued", "running", "done", "failed", "cancelled"},
        cleanup : BOOLEAN]

NoRow == [status |-> "absent", error |-> 0, task |-> "none", cleanup |-> FALSE]
Exists(d) == doc[d].status # "absent"

Request == [status : {"none", "coordinating", "accepted", "failed"},
            batch : Batch \cup {NoBatch}, expired : BOOLEAN]
NoRequest == [status |-> "none", batch |-> NoBatch, expired |-> FALSE]

Idle == [pc |-> "idle", batch |-> NoBatch, docs |-> {}, todo |-> {}, req |-> FALSE]
Go(p, pc) == proc' = [proc EXCEPT ![p].pc = pc]
End(p) == proc' = [proc EXCEPT ![p] = IF p = Scanner THEN Idle ELSE [Idle EXCEPT !.pc = "done"]]

\* The rows a coordinator holds FOR UPDATE, from lock_batch_for_coordination to
\* its commit or rollback.
LockedBy(p) == IF proc[p].pc = "promote" THEN proc[p].docs ELSE {}
Locked == held \cup UNION {LockedBy(p) : p \in Proc}

\* Somebody serves the batch or deletes one of its documents: with Prompt no
\* timeout of a takeover passes meanwhile.
Served(b) == (\E p \in Proc : proc[p].batch = b) \/ (b \in Batch /\ DocsOf[b] \cap held # {})
MayTakeOver(b) == Prompt => ~Served(b)

\* The request a coordinator has loaded is still the row of its batch.
RequestLives(p) == request.batch = proc[p].batch

Spend(b, max) == used[b] < max /\ used' = [used EXCEPT ![b] = @ + 1]

\* cleanup_batch ignores I/O errors: what it has left behind nothing removes later.
Leave(left, fault) ==
    /\ left # {} => fault = 1
    /\ used.faults + fault <= MaxFaults
    /\ used' = [used EXCEPT !.faults = @ + fault, !.strays = @ + IF left = {} THEN 0 ELSE 1]

Init ==
    /\ kb = "active"
    /\ doc = [d \in Doc |-> IF d \in Present
                            THEN [NoRow EXCEPT !.status = "completed", !.task = "done"]
                            ELSE NoRow]
    /\ request = NoRequest
    /\ tmp = {}
    /\ obj = Present
    /\ proc = [p \in Proc |-> Idle]
    /\ held = {}
    /\ used = [b \in {"crashes", "faults", "deletes", "early", "retries", "removed", "strays"} |-> 0]

-----------------------------------------------------------------------------
(***************************************************************************)
(* The request: the knowledge base is tested without a lock, the key is    *)
(* looked up, the files are written, the rows are committed.               *)
(***************************************************************************)
Check(b) ==
    /\ proc[b].pc = "idle"
    /\ kb = "active"
    /\ proc' = [proc EXCEPT ![b].pc = IF b \in Keyed THEN "find" ELSE "store"]
    /\ UNCHANGED <<dbVars, tmp, obj, held, used>>

\* Nothing known of the key: a new batch.  A request that has converged, or is
\* still being coordinated, is answered as it is.
FindRequest(b) ==
    /\ proc[b].pc = "find"
    /\ \/ request.status = "none" /\ Go(b, "store")
       \/ /\ request.status \in {"accepted", "failed"}
             \/ (request.status = "coordinating" /\ ~request.expired)
          /\ End(b)
    /\ UNCHANGED <<dbVars, tmp, obj, held, used>>

\* An expired request is taken over.
TakeOver(b) ==
    /\ proc[b].pc = "find"
    /\ request.status = "coordinating" /\ request.expired
    /\ MayTakeOver(request.batch)
    /\ proc' = [proc EXCEPT ![b] = [Idle EXCEPT !.pc = "coordinate",
                                                !.batch = request.batch, !.req = TRUE]]
    /\ UNCHANGED <<dbVars, tmp, obj, held, used>>

Store(b) ==
    /\ proc[b].pc = "store"
    /\ tmp' = tmp \cup DocsOf[b]
    /\ proc' = [proc EXCEPT ![b].pc = "persist", ![b].batch = b]
    /\ UNCHANGED <<dbVars, obj, held, used>>

StoreFails(b) ==
    /\ proc[b].pc = "store"
    /\ \E left \in SUBSET DocsOf[b] : Leave(left, 1) /\ tmp' = tmp \cup left
    /\ End(b)
    /\ UNCHANGED <<dbVars, obj, held>>

PersistAnyway(b) ==  \* mutant
    /\ proc[b].pc = "persist"
    /\ kb # "gone"
    /\ doc' = [d \in Doc |-> IF d \in DocsOf[b]
                             THEN [NoRow EXCEPT !.status = "pending", !.task = "pending"]
                             ELSE doc[d]]
    /\ request' = IF b \in Keyed
                  THEN [status |-> "coordinating", batch |-> b, expired |-> FALSE]
                  ELSE request
    /\ proc' = [proc EXCEPT ![b].pc = "coordinate", ![b].req = b \in Keyed]
    /\ UNCHANGED <<kb, tmp, obj, held, used>>

\* One transaction: the documents, their parse tasks and the request.  The
\* foreign key refuses a knowledge base that is gone, the unique constraint a
\* second request with the key.
Persist(b) ==
    /\ proc[b].pc = "persist"
    /\ kb # "gone"
    /\ b \in Keyed => request.status = "none"
    /\ doc' = [d \in Doc |-> IF d \in DocsOf[b]
                             THEN [NoRow EXCEPT !.status = "pending", !.task = "pending"]
                             ELSE doc[d]]
    /\ request' = IF b \in Keyed
                  THEN [status |-> "coordinating", batch |-> b, expired |-> FALSE]
                  ELSE request
    /\ proc' = [proc EXCEPT ![b].pc = "coordinate", ![b].req = b \in Keyed]
    /\ UNCHANGED <<kb, tmp, obj, held, used>>

Refused(b) == kb = "gone" \/ (b \in Keyed /\ request.status # "none")

PersistFailsDirty(b) ==  \* mutant
    /\ proc[b].pc = "persist"
    /\ \E fault \in {0, 1} : (Refused(b) \/ fault = 1) /\ Leave({}, fault)
    /\ End(b)
    /\ UNCHANGED <<dbVars, tmp, obj, held>>

PersistFails(b) ==
    /\ proc[b].pc = "persist"
    /\ \E fault \in {0, 1}, left \in SUBSET DocsOf[b] :
         /\ Refused(b) \/ fault = 1
         /\ Leave(left, fault)
         /\ tmp' = tmp \ (DocsOf[b] \ left)
         /\ obj' = obj \ (DocsOf[b] \ left)
    /\ End(b)
    /\ UNCHANGED <<dbVars, held>>

-----------------------------------------------------------------------------
(***************************************************************************)
(* The coordinator.                                                        *)
(***************************************************************************)
\* FOR UPDATE SKIP LOCKED: what others hold is left out.
Coordinate(p) ==
    LET docs == {d \in DocsOf[proc[p].batch] : Exists(d)} \ Locked
    IN  /\ proc[p].pc = "coordinate"
        /\ IF docs = {} THEN End(p)
           ELSE proc' = [proc EXCEPT ![p].pc = "promote", ![p].docs = docs, ![p].todo = docs]
        /\ UNCHANGED <<dbVars, tmp, obj, held, used>>

Promote(p, d) ==
    /\ proc[p].pc = "promote"
    /\ d \in proc[p].todo \cap (tmp \cup obj)
    /\ proc' = [proc EXCEPT ![p].todo = @ \ {d}]
    /\ tmp' = IF d \in obj THEN tmp ELSE tmp \ {d}
    /\ obj' = obj \cup {d}
    /\ UNCHANGED <<dbVars, held, used>>

\* Neither object exists, or the rename fails: the rollback gives up the locks.
PromoteFails(p) ==
    /\ proc[p].pc = "promote" /\ proc[p].todo # {}
    /\ \/ (\E d \in proc[p].todo : d \notin tmp \cup obj) /\ UNCHANGED used
       \/ Spend("faults", MaxFaults)
    /\ Go(p, "compensate")
    /\ UNCHANGED <<dbVars, tmp, obj, held>>

MarkQueuedEarly(p) ==  \* mutant
    /\ proc[p].pc = "promote"
    /\ proc[p].req => RequestLives(p)
    /\ doc' = [d \in Doc |-> IF d \in proc[p].docs /\ doc[d].status = "pending"
                             THEN [doc[d] EXCEPT !.status = "queued", !.task = "queued"]
                             ELSE doc[d]]
    /\ request' = IF proc[p].req THEN [request EXCEPT !.status = "accepted"] ELSE request
    /\ End(p)
    /\ UNCHANGED <<kb, tmp, obj, held, used>>

MarkQueuedAll(p) ==  \* mutant
    /\ proc[p].pc = "promote" /\ proc[p].todo = {}
    /\ proc[p].req => RequestLives(p)
    /\ doc' = [d \in Doc |-> IF d \in proc[p].docs
                             THEN [doc[d] EXCEPT !.status = "queued", !.task = "queued"]
                             ELSE doc[d]]
    /\ request' = IF proc[p].req THEN [request EXCEPT !.status = "accepted"] ELSE request
    /\ End(p)
    /\ UNCHANGED <<kb, tmp, obj, held, used>>

MarkQueuedPartly(p) ==  \* mutant
    /\ proc[p].pc = "promote"
    /\ proc[p].req => RequestLives(p)
    /\ doc' = [d \in Doc |-> IF d \in proc[p].docs \ proc[p].todo /\ doc[d].status = "pending"
                             THEN [doc[d] EXCEPT !.status = "queued", !.task = "queued"]
                             ELSE doc[d]]
    /\ request' = IF proc[p].req THEN [request EXCEPT !.status = "accepted"] ELSE request
    /\ End(p)
    /\ UNCHANGED <<kb, tmp, obj, held, used>>

\* One transaction for what is still pending, and for the request.
MarkQueued(p) ==
    /\ proc[p].pc = "promote" /\ proc[p].todo = {}
    /\ proc[p].req => RequestLives(p)
    /\ doc' = [d \in Doc |-> IF d \in proc[p].docs /\ doc[d].status = "pending"
                             THEN [doc[d] EXCEPT !.status = "queued", !.task = "queued"]
                             ELSE doc[d]]
    /\ request' = IF proc[p].req THEN [request EXCEPT !.status = "accepted"] ELSE request
    /\ End(p)
    /\ UNCHANGED <<kb, tmp, obj, held, used>>

CompensateFiles(p) ==
    /\ proc[p].pc = "compensate"
    /\ \E fault \in {0, 1}, left \in SUBSET DocsOf[proc[p].batch] :
         /\ Leave(left, fault)
         /\ tmp' = tmp \ (DocsOf[proc[p].batch] \ left)
         /\ obj' = obj \ (DocsOf[proc[p].batch] \ left)
    /\ Go(p, "fail")
    /\ UNCHANGED <<dbVars, held>>

CompensateTasksOnly(p) ==  \* mutant
    /\ proc[p].pc = "fail"
    /\ proc[p].docs \cap Locked = {}
    /\ proc[p].req => RequestLives(p)
    /\ doc' = [d \in Doc |-> IF d \in proc[p].docs
                             THEN [doc[d] EXCEPT !.task = "failed"]
                             ELSE doc[d]]
    /\ request' = IF proc[p].req THEN [request EXCEPT !.status = "failed"] ELSE request
    /\ End(p)
    /\ UNCHANGED <<kb, tmp, obj, held, used>>

\* Whatever has become of the documents since the rollback.
CompensateRows(p) ==
    /\ proc[p].pc = "fail"
    /\ proc[p].docs \cap Locked = {}
    /\ proc[p].req => RequestLives(p)
    /\ doc' = [d \in Doc |-> IF d \in proc[p].docs /\ Exists(d)
                             THEN [status |-> "failed", error |-> 20011, task |-> "failed",
                                   cleanup |-> doc[d].cleanup]
                             ELSE doc[d]]
    /\ request' = IF proc[p].req THEN [request EXCEPT !.status = "failed"] ELSE request
    /\ End(p)
    /\ UNCHANGED <<kb, tmp, obj, held, used>>

\* The request was removed meanwhile: the update of its row hits nothing and
\* the transaction is rolled back.
RequestIsStale(p) ==
    /\ (proc[p].pc = "promote" /\ proc[p].todo = {}) \/ proc[p].pc = "fail"
    /\ proc[p].req /\ ~RequestLives(p)
    /\ End(p)
    /\ UNCHANGED <<dbVars, tmp, obj, held, used>>

\* The process dies: its locks go, what it has written stays, for ever where no
\* row tells of it yet.
Crash(p) ==
    /\ proc[p].pc \notin {"idle", "done"}
    /\ used.crashes < MaxCrashes
    /\ used' = [used EXCEPT !.crashes = @ + 1,
                            !.strays = @ + IF proc[p].pc = "persist" THEN 1 ELSE 0]
    /\ End(p)
    /\ UNCHANGED <<dbVars, tmp, obj, held>>

-----------------------------------------------------------------------------
(***************************************************************************)
(* The scanner: batches with a document that is pending for too long, and  *)
(* requests past their time to live.                                       *)
(***************************************************************************)
Scan(b) ==
    /\ proc[Scanner].pc = "idle"
    /\ \E d \in DocsOf[b] : doc[d].status = "pending"
    /\ MayTakeOver(b)
    /\ proc' = [proc EXCEPT ![Scanner] =
                  [Idle EXCEPT !.pc = "coordinate", !.batch = b, !.req = request.batch = b]]
    /\ UNCHANGED <<dbVars, tmp, obj, held, used>>

RequestExpires ==
    /\ request.status # "none" /\ ~request.expired
    /\ MayTakeOver(request.batch)
    /\ request' = [request EXCEPT !.expired = TRUE]
    /\ UNCHANGED <<kb, doc, tmp, obj, proc, held, used>>

RemoveExpired ==
    /\ request.status # "none" /\ request.expired
    /\ request' = NoRequest
    /\ used' = [used EXCEPT !.removed = 1]
    /\ UNCHANGED <<kb, doc, tmp, obj, proc, held>>

CoordinatorStep(p) ==
    \/ Coordinate(p) \/ PromoteFails(p) \/ MarkQueued(p)
    \/ CompensateFiles(p) \/ CompensateRows(p) \/ RequestIsStale(p)
    \/ \E d \in Doc : Promote(p, d)

UploadStep(b) ==
    \/ FindRequest(b) \/ TakeOver(b) \/ Store(b) \/ StoreFails(b)
    \/ Persist(b) \/ PersistFails(b)
=============================================================================
