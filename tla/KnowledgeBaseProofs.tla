-------------------------- MODULE KnowledgeBaseProofs --------------------------
(***************************************************************************)
(* Proofs about uploads and the knowledge base, for any documents, batches,*)
(* keys, crashes, I/O errors and deletions.                                *)
(*                                                                         *)
(* One batch per key holds in any case: documents of a key exist only with *)
(* its request (KeyOwned).  That queued documents have their files rests   *)
(* on a batch having one coordinator at a time (Alone), which only the     *)
(* timeouts of the takeovers provide (Prompt): a batch that has queued a   *)
(* document is served and taken over by nobody (Converged), so that no     *)
(* compensation removes its files.                                         *)
(*                                                                         *)
(* That a batch is accepted or failed as a whole, leaves no file behind    *)
(* and no tombstone comes back holds as long as no DELETE meets an upload  *)
(* half way (WholeInv): then documents leave `pending` together, and a     *)
(* coordinator finds and writes all of its batch.  Where DELETEs do meet   *)
(* uploads half way, batches and tombstones stay as they should as long as *)
(* nobody dies and no I/O fails (SmoothInv): then who has uploaded a batch *)
(* serves it to its end, finds its files and compensates nothing.          *)
(* In both cases every commit is a step of the life of a batch (BatchLife).*)
(***************************************************************************)
EXTENDS KnowledgeBase, TLAPS

(* The inductive invariant: what is known of the rows and the key, whoever   *)
(* runs, and what is known of the coordinators when no timeout passes while  *)
(* one of them works.                                                        *)
Early == {"idle", "find", "store", "persist"}
Serving == {"coordinate", "promote", "compensate", "fail"}

ProcType == [pc : Early \cup Serving \cup {"done"}, batch : Batch \cup {NoBatch},
             docs : SUBSET Doc, todo : SUBSET Doc, req : BOOLEAN]

Types ==
    /\ doc \in [Doc -> Row]
    /\ request \in Request
    /\ proc \in [Proc -> ProcType]
    /\ held \subseteq Doc
    /\ used \in [{"crashes", "faults", "deletes", "early", "retries", "removed", "strays"} -> Nat]

\* Cleanups and locks are about rows that exist.
RowsExist ==
    /\ \A d \in Doc : doc[d].cleanup => Exists(d)
    /\ \A d \in held : Exists(d)

\* A request belongs to an upload with the key.
RequestOwned ==
    /\ request.status = "none" <=> request.batch = NoBatch
    /\ request.batch # NoBatch => request.batch \in Keyed

\* While no request was removed, documents of the key are those of its request.
KeyOwned ==
    used.removed = 0 =>
        \A b \in Keyed : \A d \in DocsOf[b] : Exists(d) => request.batch = b

\* Who serves a batch knows it.
ProcsKnow ==
    \A p \in Proc :
        /\ proc[p].pc \in Serving \cup {"persist"} => proc[p].batch \in Batch
        /\ proc[p].pc \in {"idle", "find", "store", "done"} => proc[p].batch = NoBatch
        /\ proc[p].pc \in {"find", "store", "persist"} => p \in Batch
        /\ proc[p].pc = "persist" => proc[p].batch = p

RowInv == Types /\ RowsExist /\ RequestOwned /\ KeyOwned /\ ProcsKnow

\* An upload that has not committed is unknown.
Uncommitted ==
    \A b \in Batch : proc[b].pc \in Early =>
        /\ \A d \in DocsOf[b] : ~Exists(d)
        /\ request.batch # b
        /\ \A p \in Proc \ {b} : proc[p].batch # b

\* A batch has one coordinator at a time.
Alone ==
    \A p, q \in Proc : proc[p].batch = proc[q].batch /\ proc[p].batch # NoBatch => p = q

\* Who has not loaded the request of its batch has none to load.
RequestLoaded ==
    \A p \in Proc : proc[p].pc \in Serving /\ ~proc[p].req => request.batch # proc[p].batch

\* Half way through a promotion.
Promoting ==
    \A p \in Proc : proc[p].pc = "promote" =>
        /\ proc[p].docs \subseteq DocsOf[proc[p].batch]
        /\ proc[p].docs \ proc[p].todo \subseteq obj
        /\ \A d \in DocsOf[proc[p].batch] \ proc[p].docs : doc[d].status = "pending" => d \in held

\* A batch with a queued or running document is nobody's to coordinate any more.
Converged ==
    \A b \in Batch : (\E d \in DocsOf[b] : Offered(doc[d])) =>
        /\ \A p \in Proc : proc[p].batch # b
        /\ \A d \in DocsOf[b] : doc[d].status = "pending" => d \in held
        /\ request.batch = b => request.status # "coordinating"

CoordInv ==
    /\ Uncommitted /\ Alone /\ RequestLoaded
    /\ Promoting /\ Converged /\ QueuedHasObject

IInv == RowInv /\ CoordInv

-----------------------------------------------------------------------------
USE UploadAssumption, DeletionAssumption DEF Proc

\* What the creation of a row writes.
LEMMA StagedIsRow ==
    ASSUME NEW r \in Row
    PROVE  /\ Staged(r) \in Row
           /\ Staged(r).status \notin {"pending", "queued", "processing", "absent"} \/ r.status = "absent"
           /\ r.status # "absent" => Staged(r).status # "absent"
BY DEF Staged, Row

\* A row that does not exist is a row of the table's type.
LEMMA NoRowIsRow == NoRow \in Row /\ NoRow.status = "absent" /\ ~NoRow.cleanup /\ NoRow.error = 0
BY DEF NoRow, Row

\* A change of a row's status alone.
LEMMA StatusOfRow ==
    ASSUME NEW r \in Row, NEW s \in {"pending", "queued"}
    PROVE  /\ [r EXCEPT !.status = s] \in Row
           /\ [r EXCEPT !.status = s].status = s
           /\ [r EXCEPT !.status = s].cleanup = r.cleanup
           /\ [r EXCEPT !.status = s].error = r.error
BY DEF Row

\* A change of the status of its task alone.
LEMMA TaskOfRow ==
    ASSUME NEW r \in Row, NEW s \in {"pending", "queued"}
    PROVE  /\ [r EXCEPT !.task = s] \in Row
           /\ [r EXCEPT !.task = s].status = r.status
           /\ [r EXCEPT !.task = s].task = s
           /\ [r EXCEPT !.task = s].cleanup = r.cleanup
           /\ [r EXCEPT !.task = s].error = r.error
BY DEF Row

\* A change of a row's status and of its task's together.
LEMMA MovedRow ==
    ASSUME NEW r \in Row, NEW s \in {"pending", "queued"}
    PROVE  /\ [r EXCEPT !.status = s, !.task = s] \in Row
           /\ [r EXCEPT !.status = s, !.task = s].status = s
           /\ [r EXCEPT !.status = s, !.task = s].task = s
           /\ [r EXCEPT !.status = s, !.task = s].cleanup = r.cleanup
           /\ [r EXCEPT !.status = s, !.task = s].error = r.error
<1>1. [r EXCEPT !.status = s, !.task = s] = [[r EXCEPT !.status = s] EXCEPT !.task = s]
  BY Zenon
<1> DEFINE x == [r EXCEPT !.status = s]
<1>2. x \in Row /\ x.status = s /\ x.cleanup = r.cleanup /\ x.error = r.error
  BY StatusOfRow
<1> HIDE DEF x
<1>3. [x EXCEPT !.task = s] \in Row /\ [x EXCEPT !.task = s].status = s
      /\ [x EXCEPT !.task = s].task = s
      /\ [x EXCEPT !.task = s].cleanup = r.cleanup /\ [x EXCEPT !.task = s].error = r.error
  <2>1. ASSUME NEW y \in Row
        PROVE  /\ [y EXCEPT !.task = s] \in Row /\ [y EXCEPT !.task = s].status = y.status
               /\ [y EXCEPT !.task = s].task = s
               /\ [y EXCEPT !.task = s].cleanup = y.cleanup /\ [y EXCEPT !.task = s].error = y.error
    BY TaskOfRow
  <2> QED BY <1>2, <2>1
<1> QED BY <1>1, <1>3 DEF x

\* Nothing is uploaded at first.
LEMMA InitEstablishes == Init => IInv
<1> SUFFICES ASSUME Init PROVE IInv
  OBVIOUS
<1>1. Types
  <2>1. doc \in [Doc -> Row]
    <3>1. ASSUME NEW r \in Row
          PROVE  [r EXCEPT !.status = "completed", !.task = "done"] \in Row
      <4>1. [r EXCEPT !.status = "completed"] \in Row
        BY <3>1 DEF Row
      <4>2. ASSUME NEW x \in Row PROVE [x EXCEPT !.task = "done"] \in Row
        BY DEF Row
      <4>3. [r EXCEPT !.status = "completed", !.task = "done"]
              = [[r EXCEPT !.status = "completed"] EXCEPT !.task = "done"]
        BY Zenon
      <4> QED BY <4>1, <4>2, <4>3
    <3> QED BY <3>1, NoRowIsRow DEF Init
  <2>2. request \in Request
    BY DEF Init, Request, NoRequest
  <2>3. proc \in [Proc -> ProcType]
    <3>1. Idle \in ProcType
      BY DEF Idle, ProcType, Early
    <3> QED BY <3>1 DEF Init
  <2>4. held \subseteq Doc
    BY DEF Init
  <2>5. used \in [{"crashes", "faults", "deletes", "early", "retries", "removed", "strays"} -> Nat]
    BY DEF Init
  <2> QED BY <2>1, <2>2, <2>3, <2>4, <2>5 DEF Types
<1>2. \A d \in Doc : doc[d].status \in {"absent", "completed"} /\ ~doc[d].cleanup
  BY DEF Init, NoRow
<1>3. \A b \in Batch : \A d \in DocsOf[b] : d \in Doc /\ doc[d].status = "absent"
  BY DEF Init, NoRow
<1>4. /\ request.status = "none" /\ request.batch = NoBatch /\ held = {}
      /\ \A p \in Proc : proc[p].pc = "idle" /\ proc[p].batch = NoBatch
  BY DEF Init, NoRequest, Idle
<1>5. RowInv
  BY <1>1, <1>2, <1>3, <1>4 DEF RowInv, RowsExist, RequestOwned, KeyOwned, Exists, ProcsKnow, Serving
<1>6. Uncommitted /\ Alone /\ RequestLoaded /\ Promoting
  BY <1>3, <1>4 DEF Uncommitted, Alone, RequestLoaded, Promoting, Serving, Early, Exists
<1>7. Converged /\ QueuedHasObject
  BY <1>2, <1>3 DEF Converged, QueuedHasObject, Offered
<1> QED BY <1>5, <1>6, <1>7 DEF IInv, CoordInv

-----------------------------------------------------------------------------
(* A step of the users, the pipeline or the scanner that only changes rows:  *)
(* no document comes or goes, none becomes pending or is offered, and files  *)
(* only go of documents that are not offered and that no coordinator locks.  *)
RowsStep ==
    /\ Types'
    /\ UNCHANGED <<proc, request>>
    /\ used'.removed = used.removed
    /\ \A d \in Doc :
         /\ Exists(d)' <=> Exists(d)
         /\ doc'[d].status = "pending" => doc[d].status = "pending"
         /\ Offered(doc'[d]) => Offered(doc[d])
         /\ doc'[d].cleanup => Exists(d)
         /\ doc'[d].status = "pending" /\ d \in held => d \in held'
         /\ d \in held' => Exists(d)
         /\ d \in obj /\ d \notin obj' => ~Offered(doc'[d]) /\ d \notin Locked

\* The steps that only move rows forward keep what is known of rows.
LEMMA RowsStepKeepsRows ==
    ASSUME RowInv, RowsStep
    PROVE  RowInv'
<1>1. RowsExist'
  BY DEF RowsStep, RowsExist, Types
<1>2. RequestOwned' /\ KeyOwned' /\ ProcsKnow'
  BY DEF RowsStep, RowInv, RequestOwned, KeyOwned, ProcsKnow
<1> QED BY <1>1, <1>2 DEF RowsStep, RowInv

\* They keep what is known of coordinators too: no row becomes pending or
\* queued.
LEMMA RowsStepKeeps ==
    ASSUME IInv, RowsStep
    PROVE  CoordInv'
<1>1. Alone' /\ RequestLoaded' /\ Uncommitted'
  BY DEF RowsStep, IInv, CoordInv, Alone, RequestLoaded, Uncommitted
<1>2. Promoting'
  BY DEF RowsStep, IInv, CoordInv, RowInv, Types, ProcType, Promoting, Locked, LockedBy, ProcsKnow, Serving
<1>3. Converged'
  BY DEF RowsStep, IInv, CoordInv, Converged
<1>4. QueuedHasObject'
  BY DEF RowsStep, IInv, CoordInv, QueuedHasObject
<1> QED BY <1>1, <1>2, <1>3, <1>4 DEF CoordInv

\* DELETE of a document is such a step.
LEMMA DeleteChangesRows ==
    ASSUME RowInv, NEW d \in Doc, DeleteLock(d) \/ DeleteCommit(d)
    PROVE  RowsStep
<1>1. CASE DeleteLock(d)
  <2>1. EarlyBy({d}) \in Nat
    BY DEF EarlyBy
  <2>2. /\ used' \in [{"crashes", "faults", "deletes", "early", "retries", "removed", "strays"} -> Nat]
        /\ used'.removed = used.removed
    <3>1. PICK m \in Nat, n \in Nat : used' = [[used EXCEPT !.deletes = m] EXCEPT !.early = n]
      <4>1. used.deletes + 1 \in Nat /\ used.early + EarlyBy({d}) \in Nat
        BY <2>1 DEF RowInv, Types
      <4>2. used' = [used EXCEPT !.deletes = used.deletes + 1, !.early = used.early + EarlyBy({d})]
        BY <1>1 DEF DeleteLock, RowInv, Types
      <4> QED BY <4>1, <4>2
    <3> QED BY <3>1 DEF RowInv, Types
  <2>3. Types'
    BY <1>1, <2>2 DEF RowInv, Types, DeleteLock, dbVars
  <2> QED BY <1>1, <2>2, <2>3
        DEF DeleteLock, RowsStep, RowInv, RowsExist, Types, Exists, dbVars
<1>2. CASE DeleteCommit(d)
  <2>1. doc' = [doc EXCEPT ![d] = Staged(doc[d])] /\ Staged(doc[d]) \in Row
    BY <1>2, StagedIsRow DEF DeleteCommit, RowInv, Types
  <2>2. Types'
    BY <1>2, <2>1 DEF RowInv, Types, DeleteCommit
  <2>3. doc[d].status # "absent" /\ Staged(doc[d]).status \notin {"absent", "pending", "queued", "processing"}
    BY <1>2, StagedIsRow DEF DeleteCommit, RowInv, RowsExist, Exists, Types
  <2> QED BY <1>2, <2>1, <2>2, <2>3
        DEF DeleteCommit, RowsStep, RowInv, RowsExist, Types, Exists, Offered
<1> QED BY <1>1, <1>2

\* What the pipeline writes: a queued document runs, a running one completes or
\* fails, and an interrupted one hands over to its cleanup or fails.
Worked(r, s) ==
    \/ /\ r.status = "queued" /\ s.status = "processing" /\ s.task = "running"
       /\ s.error = r.error /\ s.cleanup = r.cleanup
    \/ /\ r.status = "processing" /\ s.task # "running" /\ s.cleanup = r.cleanup
       /\ (s.status = "completed" /\ s.error = r.error) \/ (s.status = "failed" /\ s.error = 20012)
    \/ /\ r.status = "deleting" /\ r.task = "running" /\ s.task # "running"
       /\ \/ s.status = "deleting" /\ s.error = r.error /\ s.cleanup
          \/ s.status = "failed" /\ s.error = 20012 /\ s.cleanup = r.cleanup

LEMMA ProcessWorks ==
    ASSUME RowInv, NEW d \in Doc, Process(d)
    PROVE  /\ doc' \in [Doc -> Row] /\ Worked(doc[d], doc'[d])
           /\ \A e \in Doc \ {d} : doc'[e] = doc[e]
           /\ d \notin Locked
           /\ UNCHANGED <<kb, request, tmp, obj, proc, held, used>>
<1>1. doc \in [Doc -> Row] /\ doc[d] \in Row
  BY DEF RowInv, Types
<1>2. d \notin Locked /\ UNCHANGED <<kb, request, tmp, obj, proc, held, used>>
  BY DEF Process, Start, Finish, HandOver, FailOver, Interrupted
<1>3. PICK s \in Row : Worked(doc[d], s) /\ doc' = [doc EXCEPT ![d] = s]
  <2>1. CASE Start(d)
    <3> DEFINE s == [status |-> "processing", error |-> doc[d].error,
                     task |-> "running", cleanup |-> doc[d].cleanup]
    <3>1. doc' = [doc EXCEPT ![d] = s] /\ doc[d].status = "queued"
      BY <2>1 DEF Start, Write
    <3>2. s \in Row /\ Worked(doc[d], s)
      BY <1>1, <3>1 DEF Row, Worked
    <3> QED BY <3>1, <3>2
  <2>2. CASE Finish(d) /\ ~StageFails(d)
    <3> DEFINE s == [status |-> "completed", error |-> doc[d].error,
                     task |-> "done", cleanup |-> doc[d].cleanup]
    <3>1. doc' = [doc EXCEPT ![d] = s] /\ doc[d].status = "processing"
      BY <2>2 DEF Finish, Write
    <3>2. s \in Row /\ Worked(doc[d], s)
      BY <1>1, <3>1 DEF Row, Worked
    <3> QED BY <3>1, <3>2
  <2>3. CASE FailOver(d) \/ (Finish(d) /\ StageFails(d))
    <3> DEFINE s == [status |-> "failed", error |-> 20012,
                     task |-> "failed", cleanup |-> doc[d].cleanup]
    <3>1. /\ doc' = [doc EXCEPT ![d] = s]
          /\ doc[d].status = "processing" \/ (doc[d].status = "deleting" /\ doc[d].task = "running")
      BY <2>3 DEF Finish, FailOver, StageFails, Interrupted, Write
    <3>2. s \in Row /\ s.status = "failed" /\ s.error = 20012
          /\ s.task = "failed" /\ s.cleanup = doc[d].cleanup
      BY <1>1 DEF Row
    <3> HIDE DEF s
    <3>3. Worked(doc[d], s)
      <4>1. CASE doc[d].status = "processing"
        BY <3>2, <4>1 DEF Worked
      <4>2. CASE doc[d].status = "deleting" /\ doc[d].task = "running"
        BY <3>2, <4>2 DEF Worked
      <4> QED BY <3>1, <4>1, <4>2
    <3>4. s \in Row /\ Worked(doc[d], s) /\ doc' = [doc EXCEPT ![d] = s]
      BY <3>1, <3>2, <3>3
    <3> QED BY <3>4, Zenon
  <2>4. CASE HandOver(d)
    <3> DEFINE s == [status |-> "deleting", error |-> doc[d].error,
                     task |-> "cancelled", cleanup |-> TRUE]
    <3>1. doc' = [doc EXCEPT ![d] = s] /\ doc[d].status = "deleting" /\ doc[d].task = "running"
      BY <2>4 DEF HandOver, Interrupted, Write
    <3>2. s \in Row /\ Worked(doc[d], s)
      BY <1>1, <3>1 DEF Row, Worked
    <3> QED BY <3>1, <3>2
  <2> QED BY <2>1, <2>2, <2>3, <2>4 DEF Process
<1> QED BY <1>1, <1>2, <1>3

\* Whatever is written, the pipeline leaves all but the row alone.
LEMMA ProcessLeaves ==
    ASSUME NEW d \in Doc, Process(d)
    PROVE  d \notin Locked /\ UNCHANGED <<kb, request, tmp, obj, proc, held, used>>
BY DEF Process, Start, Finish, HandOver, FailOver, Interrupted

\* What is written in a document's own time, by its cleanup or the pipeline.
LEMMA WorkWrites ==
    ASSUME RowInv, NEW d \in Doc, CleanUp(d) \/ CleanUpFails(d) \/ Process(d)
    PROVE  /\ doc' \in [Doc -> Row] /\ \A e \in Doc \ {d} : doc'[e] = doc[e]
           /\ doc[d].cleanup \/ doc[d].status \in {"queued", "processing", "deleting"}
           /\ doc'[d].status \in {"processing", "completed", "failed", "deleting", "deleted"}
           /\ doc'[d].status = "deleted" => ~doc'[d].cleanup /\ d \notin obj'
           /\ doc'[d].error = 20011 => doc[d].error = 20011
           /\ d \notin Locked /\ obj' \subseteq obj
           /\ UNCHANGED <<kb, request, tmp, proc, held>>
<1>1. CASE Process(d)
  <2>1. /\ doc[d].status \in {"queued", "processing", "deleting"}
        /\ doc'[d].status \in {"processing", "completed", "failed", "deleting"}
        /\ doc'[d].error = 20011 => doc[d].error = 20011
    BY <1>1, ProcessWorks DEF Worked
  <2> QED BY <1>1, <2>1, ProcessWorks
<1>2. CASE CleanUp(d) \/ CleanUpFails(d)
  <2>1. /\ doc' \in [Doc -> Row] /\ doc'[d].status \in {"failed", "deleted"}
        /\ doc'[d].error # 20011 /\ ~doc'[d].cleanup
        /\ \A e \in Doc \ {d} : doc'[e] = doc[e]
    BY <1>2 DEF CleanUp, CleanUpFails, RowInv, Types, Row
  <2>2. doc'[d].status = "deleted" => d \notin obj'
    BY <1>2 DEF CleanUp, CleanUpFails, RowInv, Types, Row
  <2>3. /\ doc[d].cleanup /\ d \notin Locked /\ obj' \subseteq obj
        /\ UNCHANGED <<kb, request, tmp, proc, held>>
    BY <1>2 DEF CleanUp, CleanUpFails
  <2> QED BY <2>1, <2>2, <2>3
<1> QED BY <1>1, <1>2

\* So are the cleanup and the processing of a document.
LEMMA WorkChangesRows ==
    ASSUME RowInv, NEW d \in Doc, CleanUp(d) \/ CleanUpFails(d) \/ Process(d)
    PROVE  RowsStep
<1>1. CASE Process(d)
  <2>1. doc[d] \in Row /\ doc'[d] \in Row
    BY <1>1, ProcessWorks DEF RowInv, Types
  <2>2. /\ Exists(d) /\ doc'[d].status \notin {"absent", "pending"}
        /\ Offered(doc'[d]) => Offered(doc[d])
    BY <1>1, <2>1, ProcessWorks DEF Worked, Offered, Exists, Row
  <2>3. Types'
    BY <1>1, ProcessWorks DEF RowInv, Types
  <2> QED BY <1>1, <2>2, <2>3, ProcessWorks DEF RowsStep, RowInv, RowsExist, Exists
<1>2. CASE CleanUp(d) \/ CleanUpFails(d)
  <2>1. /\ doc' \in [Doc -> Row] /\ doc'[d].status \in {"failed", "deleted"}
        /\ ~doc'[d].cleanup
        /\ \A e \in Doc \ {d} : doc'[e] = doc[e]
    BY <1>2 DEF CleanUp, CleanUpFails, RowInv, Types, Row
  <2>2. Exists(d) /\ d \notin Locked
    BY <1>2 DEF CleanUp, CleanUpFails, RowInv, RowsExist, Exists
  <2>3. /\ UNCHANGED <<proc, request, held>> /\ used'.removed = used.removed
        /\ used' \in [{"crashes", "faults", "deletes", "early", "retries", "removed", "strays"} -> Nat]
        /\ \A e \in obj : e \in obj' \/ e = d
    BY <1>2 DEF CleanUp, CleanUpFails, RowInv, Types, Spend
  <2>4. Types'
    BY <2>1, <2>3 DEF RowInv, Types
  <2> QED BY <2>1, <2>2, <2>3, <2>4
        DEF RowsStep, RowInv, RowsExist, Exists, Offered
<1> QED BY <1>1, <1>2

\* The early deletions are counted in naturals.
LEMMA EarlyIsNat == ASSUME NEW docs PROVE EarlyBy(docs) \in Nat
BY DEF EarlyBy

(* DELETE of a knowledge base with documents, and its retry. *)
LEMMA KbDeleteChangesRows ==
    ASSUME RowInv, KbDelete \/ KbRetry \/ KbConvergeFails
    PROVE  RowsStep
<1>1. CASE KbConvergeFails
  <2>1. Types'
    BY <1>1 DEF KbConvergeFails, RowInv, Types
  <2> QED BY <1>1, <2>1 DEF KbConvergeFails, RowsStep, RowInv, RowsExist, Exists
<1>2. CASE KbDelete \/ KbRetry
  <2>1. PICK S \in SUBSET {d \in Doc : Exists(d)} :
            doc' = [d \in Doc |-> IF d \in S THEN Staged(doc[d]) ELSE doc[d]]
    <3>1. CASE KbDelete
      BY <3>1 DEF KbDelete, Deletable, Exists
    <3>2. CASE KbRetry
      <4> DEFINE S == {d \in Doc : CleanupFailed(d)}
      <4>1. doc' = [d \in Doc |-> IF d \in S THEN Staged(doc[d]) ELSE doc[d]]
        BY <3>2 DEF KbRetry
      <4>2. S \in SUBSET {d \in Doc : Exists(d)}
        BY DEF CleanupFailed, Exists
      <4> QED BY <4>1, <4>2
    <3> QED BY <1>2, <3>1, <3>2
  <2>2. \A d \in Doc : doc[d] \in Row /\ Staged(doc[d]) \in Row
    BY StagedIsRow DEF RowInv, Types
  <2>3. \A d \in S : Staged(doc[d]).status \notin {"absent", "pending", "queued", "processing"}
    BY <2>1, <2>2, StagedIsRow DEF Exists
  <2>4. /\ used' \in [{"crashes", "faults", "deletes", "early", "retries", "removed", "strays"} -> Nat]
        /\ used'.removed = used.removed
    BY <1>2, EarlyIsNat DEF KbDelete, KbRetry, RowInv, Types, Spend
  <2>5. UNCHANGED <<request, obj, proc, held>>
    BY <1>2 DEF KbDelete, KbRetry
  <2>6. Types'
    BY <2>1, <2>2, <2>4, <2>5 DEF RowInv, Types
  <2> QED BY <2>1, <2>3, <2>4, <2>5, <2>6
        DEF RowsStep, RowInv, RowsExist, Exists, Types, Offered
<1> QED BY <1>1, <1>2

(* The rows go; coordinators keep what they hold. *)
LEMMA RemoveKeepsRows ==
    ASSUME RowInv, RemoveAll, UNCHANGED <<proc, held, used>>,
           {d \in Doc : Exists(d)} \cap Locked = {}
    PROVE  RowInv'
<1>1. held = {}
  BY DEF RowInv, RowsExist, Types, Locked
<1>2. \A d \in Doc : doc'[d].status = "absent" /\ ~doc'[d].cleanup
  BY NoRowIsRow DEF RemoveAll
<1>3. request'.batch = NoBatch /\ request'.status = "none" /\ request' \in Request
  BY DEF NoRequest, Request, RemoveAll
<1>4. Types'
  BY <1>3, NoRowIsRow DEF RowInv, Types, RemoveAll
<1>5. \A b \in Keyed : \A d \in DocsOf[b] : d \in Doc
  OBVIOUS
<1>6. ProcsKnow'
  BY DEF RowInv, ProcsKnow
<1> QED BY <1>1, <1>2, <1>3, <1>4, <1>5, <1>6 DEF RowInv, RowsExist, RequestOwned, KeyOwned, Exists

\* The removal of the knowledge base's rows keeps what is known of
\* coordinators.
LEMMA RemoveKeeps ==
    ASSUME IInv, RemoveAll, UNCHANGED <<tmp, obj, proc, held, used>>
    PROVE  CoordInv'
<1>2. \A d \in Doc : doc'[d].status = "absent" /\ ~doc'[d].cleanup
  BY NoRowIsRow DEF RemoveAll
<1>3. request'.batch = NoBatch
  BY DEF NoRequest, RemoveAll
<1>4. \A b \in Batch : DocsOf[b] \subseteq Doc
  OBVIOUS
<1>5. Alone'
  BY DEF IInv, CoordInv, Alone
<1>6. Uncommitted'
  BY <1>2, <1>3, <1>4 DEF IInv, CoordInv, Uncommitted, Exists
<1>7. RequestLoaded'
  BY <1>3 DEF IInv, RowInv, CoordInv, RequestLoaded, ProcsKnow
<1>8. \A p \in Proc : proc[p].pc = "promote" => DocsOf[proc[p].batch] \subseteq Doc
  BY DEF IInv, RowInv, CoordInv, ProcsKnow, Serving
<1>9. Promoting'
  BY <1>2, <1>8 DEF IInv, CoordInv, Promoting
<1>10. Converged' /\ QueuedHasObject'
  BY <1>2 DEF Converged, QueuedHasObject, Offered, Exists
<1> QED BY <1>5, <1>6, <1>7, <1>9, <1>10 DEF CoordInv

-----------------------------------------------------------------------------
(* A step of one coordinator that leaves the rows alone. *)
ProcStep(p) ==
    /\ UNCHANGED <<doc, request, held>>
    /\ used' \in [{"crashes", "faults", "deletes", "early", "retries", "removed", "strays"} -> Nat]
    /\ used'.removed = used.removed
    /\ proc' \in [Proc -> ProcType]
    /\ \A q \in Proc \ {p} : proc'[q] = proc[q]
    /\ proc'[p].pc \in Serving \cup {"persist"} => proc'[p].batch \in Batch
    /\ proc'[p].pc \in {"idle", "find", "store", "done"} => proc'[p].batch = NoBatch
    /\ proc'[p].pc \in {"find", "store", "persist"} => p \in Batch
    /\ proc'[p].pc = "persist" => proc'[p].batch = p

\* The steps of an upload or the scanner that write no row keep what is known
\* of rows.
LEMMA ProcStepKeepsRows ==
    ASSUME RowInv, NEW p \in Proc, ProcStep(p)
    PROVE  RowInv'
<1>1. Types'
  BY DEF ProcStep, RowInv, Types
<1>2. RowsExist' /\ RequestOwned' /\ KeyOwned'
  BY DEF ProcStep, RowInv, RowsExist, RequestOwned, KeyOwned, Exists
<1>3. ProcsKnow'
  BY DEF ProcStep, RowInv, ProcsKnow
<1> QED BY <1>1, <1>2, <1>3 DEF RowInv

\* A batch that nobody serves, committed or one's own, without a queued document.
Takeable(p, b) ==
    /\ b \in Batch
    /\ \A q \in Proc : proc[q].batch # b
    /\ b # p => proc[b].pc \notin Early
    /\ \A d \in DocsOf[b] : ~Offered(doc[d])

\* What the step of p has to see to.
StepKeeps(p) ==
    /\ p \in Batch /\ proc'[p].pc \in Early => proc[p].pc \in Early
    /\ proc'[p].batch \in {proc[p].batch, NoBatch} \/ Takeable(p, proc'[p].batch)
    /\ proc'[p].pc \in Serving /\ ~proc'[p].req => request.batch # proc'[p].batch
    /\ proc'[p].pc = "promote" =>
         /\ proc'[p].docs \subseteq DocsOf[proc'[p].batch]
         /\ proc'[p].docs \ proc'[p].todo \subseteq obj'
         /\ \A d \in DocsOf[proc'[p].batch] \ proc'[p].docs : doc[d].status = "pending" => d \in held
    /\ \A d \in obj \ obj' :
         /\ ~Offered(doc[d])
         /\ \A q \in Proc \ {p} : proc[q].pc = "promote" => d \notin proc[q].docs

\* They keep what is known of coordinators when the process that steps does.
LEMMA ProcStepKeeps ==
    ASSUME IInv, NEW p \in Proc, ProcStep(p), StepKeeps(p)
    PROVE  CoordInv'
<1>2. Uncommitted'
  BY DEF ProcStep, StepKeeps, IInv, CoordInv, Uncommitted, Takeable, Exists
<1>3. Alone'
  BY DEF ProcStep, StepKeeps, IInv, CoordInv, Alone, Takeable
<1>4. RequestLoaded'
  BY DEF ProcStep, StepKeeps, IInv, CoordInv, RequestLoaded
<1>5. Promoting'
  BY DEF ProcStep, StepKeeps, IInv, CoordInv, Promoting
<1>6. Converged'
  BY DEF ProcStep, StepKeeps, IInv, CoordInv, Converged, Takeable
<1>7. QueuedHasObject'
  BY DEF ProcStep, StepKeeps, IInv, CoordInv, QueuedHasObject
<1> QED BY <1>2, <1>3, <1>4, <1>5, <1>6, <1>7 DEF CoordInv

\* A bounded event is counted in its own field.
LEMMA SpendTyped ==
    ASSUME RowInv, NEW b \in {"crashes", "faults", "deletes", "early", "retries"},
           NEW max, Spend(b, max)
    PROVE  /\ used' \in [{"crashes", "faults", "deletes", "early", "retries", "removed", "strays"} -> Nat]
           /\ used'.removed = used.removed
BY DEF Spend, RowInv, Types

\* Files left behind are counted with the fault that left them.
LEMMA LeaveTyped ==
    ASSUME Types, NEW left, NEW fault \in {0, 1}, Leave(left, fault)
    PROVE  /\ used' \in [{"crashes", "faults", "deletes", "early", "retries", "removed", "strays"} -> Nat]
           /\ used'.removed = used.removed /\ used'.early = used.early
           /\ used'.crashes = used.crashes /\ used'.faults = used.faults + fault
           /\ used'.strays = 0 => left = {} /\ used.strays = 0
           /\ left # {} => fault = 1
<1>1. used.faults + fault \in Nat /\ used.strays + (IF left = {} THEN 0 ELSE 1) \in Nat
  BY DEF Types
<1>2. /\ used' = [used EXCEPT !.faults = used.faults + fault,
                             !.strays = used.strays + IF left = {} THEN 0 ELSE 1]
      /\ left # {} => fault = 1
  BY DEF Leave, Types
<1>3. PICK m \in Nat, n \in Nat :
        /\ m = used.faults + fault /\ n = used.strays + (IF left = {} THEN 0 ELSE 1)
        /\ used' = [used EXCEPT !.faults = m, !.strays = n]
  BY <1>1, <1>2
<1>4. used'.strays = n /\ used'.faults = m
  BY <1>3 DEF Types
<1>5. n = 0 => left = {} /\ used.strays = 0
  BY <1>3 DEF Types
<1>6. /\ used' \in [{"crashes", "faults", "deletes", "early", "retries", "removed", "strays"} -> Nat]
      /\ used'.removed = used.removed /\ used'.early = used.early /\ used'.crashes = used.crashes
  BY <1>3 DEF Types
<1> QED BY <1>2, <1>3, <1>4, <1>5, <1>6

\* So is a death, and what it leaves behind.
LEMMA CrashTyped ==
    ASSUME Types, NEW p \in Proc, Crash(p)
    PROVE  /\ used' \in [{"crashes", "faults", "deletes", "early", "retries", "removed", "strays"} -> Nat]
           /\ used'.removed = used.removed /\ used'.early = used.early
           /\ used'.crashes # 0
           /\ used'.strays = 0 => proc[p].pc # "persist" /\ used.strays = 0
<1> DEFINE s == IF proc[p].pc = "persist" THEN 1 ELSE 0
<1>1. used.crashes + 1 \in Nat /\ used.strays + s \in Nat
  BY DEF Types
<1>2. used' = [used EXCEPT !.crashes = used.crashes + 1, !.strays = used.strays + s]
  BY DEF Crash, Types
<1>3. PICK m \in Nat, n \in Nat :
        /\ m = used.crashes + 1 /\ n = used.strays + s
        /\ used' = [used EXCEPT !.crashes = m, !.strays = n]
  BY <1>1, <1>2
<1>4. used'.strays = n /\ used'.crashes = m
  BY <1>3 DEF Types
<1>5. m # 0 /\ (n = 0 => proc[p].pc # "persist" /\ used.strays = 0)
  BY <1>3 DEF Types
<1>6. /\ used' \in [{"crashes", "faults", "deletes", "early", "retries", "removed", "strays"} -> Nat]
      /\ used'.removed = used.removed /\ used'.early = used.early
  BY <1>3 DEF Types
<1> QED BY <1>3, <1>4, <1>5, <1>6

\* A process that ends serves no batch.
LEMMA EndTyped ==
    ASSUME RowInv, NEW p \in Proc, End(p)
    PROVE  /\ proc' \in [Proc -> ProcType]
           /\ \A q \in Proc \ {p} : proc'[q] = proc[q]
           /\ proc'[p].pc = (IF p = Scanner THEN "idle" ELSE "done")
           /\ proc'[p].batch = NoBatch
BY DEF End, Idle, ProcType, Early, RowInv, Types

\* A process that moves on keeps its batch.
LEMMA GoTyped ==
    ASSUME RowInv, NEW p \in Proc, NEW pc \in Early \cup Serving, Go(p, pc)
    PROVE  /\ proc' \in [Proc -> ProcType]
           /\ \A q \in Proc \ {p} : proc'[q] = proc[q]
           /\ proc'[p] = [proc[p] EXCEPT !.pc = pc]
           /\ proc'[p].pc = pc /\ proc'[p].batch = proc[p].batch
BY DEF Go, ProcType, RowInv, Types

(* The end of a coordinator, with whatever files it removes before. *)
LEMMA EndKeeps ==
    ASSUME IInv, NEW p \in Proc, ProcStep(p), End(p),
           proc[p].pc # "idle" \/ p \notin Batch,
           \A d \in obj \ obj' :
             /\ ~Offered(doc[d])
             /\ \A q \in Proc \ {p} : proc[q].pc = "promote" => d \notin proc[q].docs
    PROVE  CoordInv'
<1>1. proc'[p].pc = (IF p = Scanner THEN "idle" ELSE "done") /\ proc'[p].batch = NoBatch
  BY EndTyped DEF IInv
<1>2. StepKeeps(p)
  BY <1>1 DEF StepKeeps, Serving, Early
<1> QED BY <1>2, ProcStepKeeps

-----------------------------------------------------------------------------
(* The request, up to its commit. *)
LEMMA UploadTyped ==
    ASSUME RowInv, NEW b \in Batch,
           Check(b) \/ FindRequest(b) \/ TakeOver(b) \/ Store(b) \/ StoreFails(b) \/ PersistFails(b)
    PROVE  ProcStep(b)
<1>1. CASE Check(b)
  BY <1>1 DEF Check, ProcStep, ProcType, Early, Serving, RowInv, Types, ProcsKnow, dbVars
<1>2. CASE FindRequest(b)
  <2>1. CASE Go(b, "store")
    <3>1. proc[b].pc = "find" /\ proc[b].batch = NoBatch /\ proc[b] \in ProcType
      BY <1>2 DEF FindRequest, RowInv, Types, ProcsKnow
    <3>2. /\ proc' \in [Proc -> ProcType] /\ \A q \in Proc \ {b} : proc'[q] = proc[q]
          /\ proc'[b].pc = "store" /\ proc'[b].batch = NoBatch
      BY <2>1, <3>1, GoTyped DEF Early
    <3> QED BY <1>2, <3>2 DEF FindRequest, ProcStep, Serving, RowInv, Types, dbVars
  <2>2. CASE End(b)
    BY <1>2, <2>2, EndTyped DEF FindRequest, ProcStep, Serving, RowInv, Types, dbVars
  <2> QED BY <1>2, <2>1, <2>2 DEF FindRequest
<1>3. CASE TakeOver(b)
  <2>1. [Idle EXCEPT !.pc = "coordinate", !.batch = request.batch, !.req = TRUE] \in ProcType
    <3>1. /\ request.batch \in Batch \cup {NoBatch}
      BY DEF RowInv, Types, Request
    <3> QED BY <3>1 DEF Idle, ProcType, Serving
  <2>2. request.batch \in Batch
    BY <1>3 DEF TakeOver, RowInv, RequestOwned
  <2> QED BY <1>3, <2>1, <2>2 DEF TakeOver, ProcStep, Idle, RowInv, Types, dbVars
<1>4. CASE Store(b)
  <2>1. proc' = [proc EXCEPT ![b] = [[proc[b] EXCEPT !.pc = "persist"] EXCEPT !.batch = b]]
    BY <1>4 DEF Store, RowInv, Types
  <2>2. [proc[b] EXCEPT !.pc = "persist"] \in ProcType
    BY DEF RowInv, Types, ProcType, Early
  <2>3. ASSUME NEW x \in ProcType PROVE [x EXCEPT !.batch = b] \in ProcType
    BY DEF ProcType
  <2>4. proc'[b] \in ProcType /\ proc' \in [Proc -> ProcType]
    BY <2>1, <2>2, <2>3 DEF RowInv, Types
  <2>5. proc'[b].pc = "persist" /\ proc'[b].batch = b
    BY <2>1, <2>2 DEF RowInv, Types, ProcType
  <2> QED BY <1>4, <2>1, <2>4, <2>5 DEF Store, ProcStep, Serving, RowInv, Types, dbVars
<1>5. CASE StoreFails(b)
  <2>1. PICK left \in SUBSET DocsOf[b] : Leave(left, 1)
    BY <1>5 DEF StoreFails
  <2>2. /\ used' \in [{"crashes", "faults", "deletes", "early", "retries", "removed", "strays"} -> Nat]
        /\ used'.removed = used.removed
    BY <2>1, LeaveTyped DEF RowInv
  <2> QED BY <1>5, <2>2, EndTyped DEF StoreFails, ProcStep, Serving, dbVars
<1>6. CASE PersistFails(b)
  <2>1. PICK fault \in {0, 1}, left \in SUBSET DocsOf[b] : Leave(left, fault)
    BY <1>6 DEF PersistFails
  <2>2. /\ used' \in [{"crashes", "faults", "deletes", "early", "retries", "removed", "strays"} -> Nat]
        /\ used'.removed = used.removed
    BY <2>1, LeaveTyped DEF RowInv
  <2> QED BY <1>6, <2>2, EndTyped DEF PersistFails, ProcStep, Serving, dbVars
<1> QED BY <1>1, <1>2, <1>3, <1>4, <1>5, <1>6

\* The steps of an upload before its rows are committed.
LEMMA UploadKeeps ==
    ASSUME IInv, Prompt, NEW b \in Batch,
           Check(b) \/ FindRequest(b) \/ TakeOver(b) \/ Store(b) \/ StoreFails(b) \/ PersistFails(b)
    PROVE  CoordInv'
<1>1. ProcStep(b) /\ b \in Proc
  BY UploadTyped DEF IInv
<1>2. proc[b] \in ProcType /\ b # NoBatch
  BY DEF IInv, RowInv, Types
<1>3. CASE Check(b)
  <2>1. StepKeeps(b)
    BY <1>2, <1>3 DEF Check, StepKeeps, IInv, CoordInv, ProcsKnow, RowInv, Types, ProcType, Serving, Early
  <2> QED BY <1>1, <2>1, ProcStepKeeps
<1>4. CASE FindRequest(b)
  <2>1. CASE Go(b, "store")
    <3>1. StepKeeps(b)
      BY <1>2, <1>4, <2>1 DEF FindRequest, Go, StepKeeps, IInv, CoordInv, ProcsKnow, RowInv, Types,
         ProcType, Serving, Early
    <3> QED BY <1>1, <3>1, ProcStepKeeps
  <2>2. CASE End(b)
    BY <1>1, <1>4, <2>2, EndKeeps DEF FindRequest
  <2> QED BY <1>4, <2>1, <2>2 DEF FindRequest
<1>5. CASE TakeOver(b)
  <2>1. /\ proc'[b].pc = "coordinate" /\ proc'[b].batch = request.batch /\ proc'[b].req
        /\ obj' = obj
    BY <1>5 DEF TakeOver, Idle, IInv, RowInv, Types
  <2>2. /\ request.status = "coordinating" /\ ~Served(request.batch) /\ proc[b].pc = "find"
    BY <1>5 DEF TakeOver, MayTakeOver
  <2>3. request.batch \in Batch
    BY <2>2 DEF IInv, RowInv, RequestOwned
  <2>4. Takeable(b, request.batch)
    <3>1. \A q \in Proc : proc[q].batch # request.batch
      BY <2>2 DEF Served
    <3>2. proc[request.batch].pc \notin Early
      BY <2>3 DEF IInv, CoordInv, Uncommitted
    <3>3. \A d \in DocsOf[request.batch] : ~Offered(doc[d])
      BY <2>2, <2>3 DEF IInv, CoordInv, Converged
    <3> QED BY <2>3, <3>1, <3>2, <3>3 DEF Takeable
  <2>5. StepKeeps(b)
    BY <2>1, <2>3, <2>4 DEF StepKeeps, Serving, Early
  <2> QED BY <1>1, <2>5, ProcStepKeeps
<1>6. CASE Store(b)
  <2>1. /\ proc'[b].pc = "persist" /\ proc'[b].batch = b /\ obj' = obj /\ proc[b].pc = "store"
        /\ proc[b].batch = NoBatch
    BY <1>6 DEF Store, IInv, RowInv, Types, CoordInv, ProcsKnow
  <2>2. Takeable(b, b)
    BY <1>2, <2>1 DEF Takeable, IInv, CoordInv, Uncommitted, Early, Exists, Offered
  <2>3. StepKeeps(b)
    BY <2>1, <2>2 DEF StepKeeps, Serving, Early
  <2> QED BY <1>1, <2>3, ProcStepKeeps
<1>7. CASE StoreFails(b)
  BY <1>1, <1>7, EndKeeps DEF StoreFails
<1>8. CASE PersistFails(b)
  <2>1. proc[b].pc = "persist" /\ obj \ obj' \subseteq DocsOf[b] /\ End(b)
    BY <1>8 DEF PersistFails
  <2>2. \A d \in DocsOf[b] : ~Offered(doc[d])
    BY <2>1 DEF IInv, CoordInv, Uncommitted, Early, Exists, Offered
  <2>3. ASSUME NEW q \in Proc \ {b}, proc[q].pc = "promote", NEW d \in DocsOf[b]
        PROVE  d \notin proc[q].docs
    <3>1. proc[q].batch \in Batch /\ proc[q].batch # b /\ proc[q].docs \subseteq DocsOf[proc[q].batch]
      BY <2>1, <2>3 DEF IInv, RowInv, CoordInv, ProcsKnow, Promoting, Uncommitted, Serving, Early
    <3> QED BY <3>1
  <2> QED BY <1>1, <2>1, <2>2, <2>3, EndKeeps
<1> QED BY <1>3, <1>4, <1>5, <1>6, <1>7, <1>8

-----------------------------------------------------------------------------
(* The coordinator. *)
LEMMA CoordinatorTyped ==
    ASSUME RowInv, NEW p \in Proc,
           \/ Coordinate(p) \/ PromoteFails(p) \/ CompensateFiles(p) \/ RequestIsStale(p) \/ Crash(p)
           \/ \E d \in Doc : Promote(p, d)
    PROVE  ProcStep(p)
<1>1. CASE Coordinate(p)
  <2> DEFINE D == {d \in DocsOf[proc[p].batch] : Exists(d)} \ Locked
  <2>1. CASE D = {}
    BY <1>1, <2>1, EndTyped DEF Coordinate, ProcStep, Serving, RowInv, Types, dbVars
  <2>2. CASE D # {}
    <3>1. proc[p].pc = "coordinate" /\ proc[p].batch \in Batch /\ proc[p] \in ProcType
      BY <1>1 DEF Coordinate, RowInv, Types, ProcsKnow, Serving
    <3>2. D \subseteq Doc
      BY <3>1
    <3>3. proc' = [proc EXCEPT ![p] =
                     [[[proc[p] EXCEPT !.pc = "promote"] EXCEPT !.docs = D] EXCEPT !.todo = D]]
      BY <1>1, <2>2 DEF Coordinate, RowInv, Types
    <3> HIDE DEF D
    <3>4. [proc[p] EXCEPT !.pc = "promote"] \in ProcType
      BY <3>1 DEF ProcType, Serving
    <3>5. ASSUME NEW x \in ProcType
          PROVE  [x EXCEPT !.docs = D] \in ProcType /\ [x EXCEPT !.todo = D] \in ProcType
      BY <3>2 DEF ProcType
    <3>6. proc'[p] \in ProcType /\ proc' \in [Proc -> ProcType]
      BY <3>3, <3>4, <3>5 DEF RowInv, Types
    <3>7. proc'[p].pc = "promote" /\ proc'[p].batch = proc[p].batch
      BY <3>1, <3>3, <3>4 DEF RowInv, Types, ProcType
    <3> QED BY <1>1, <3>1, <3>3, <3>6, <3>7 DEF Coordinate, ProcStep, RowInv, Types, dbVars
  <2> QED BY <2>1, <2>2
<1>2. CASE PromoteFails(p)
  <2>1. proc[p].pc = "promote" /\ proc[p].batch \in Batch /\ proc[p] \in ProcType
    BY <1>2 DEF PromoteFails, RowInv, Types, ProcsKnow, Serving
  <2>2. /\ proc' \in [Proc -> ProcType] /\ \A q \in Proc \ {p} : proc'[q] = proc[q]
        /\ proc'[p].pc = "compensate" /\ proc'[p].batch = proc[p].batch
    <3>1. Go(p, "compensate")
      BY <1>2 DEF PromoteFails
    <3> QED BY <3>1, GoTyped DEF Serving
  <2>3. /\ used' \in [{"crashes", "faults", "deletes", "early", "retries", "removed", "strays"} -> Nat]
        /\ used'.removed = used.removed
    BY <1>2, SpendTyped DEF PromoteFails, RowInv, Types
  <2> QED BY <1>2, <2>1, <2>2, <2>3 DEF PromoteFails, ProcStep, dbVars
<1>3. CASE CompensateFiles(p)
  <2>1. proc[p].pc = "compensate" /\ proc[p].batch \in Batch /\ proc[p] \in ProcType
    BY <1>3 DEF CompensateFiles, RowInv, Types, ProcsKnow, Serving
  <2>2. /\ proc' \in [Proc -> ProcType] /\ \A q \in Proc \ {p} : proc'[q] = proc[q]
        /\ proc'[p].pc = "fail" /\ proc'[p].batch = proc[p].batch
    <3>1. Go(p, "fail")
      BY <1>3 DEF CompensateFiles
    <3> QED BY <3>1, GoTyped DEF Serving
  <2>3. PICK fault \in {0, 1}, left \in SUBSET DocsOf[proc[p].batch] : Leave(left, fault)
    BY <1>3 DEF CompensateFiles
  <2>4. /\ used' \in [{"crashes", "faults", "deletes", "early", "retries", "removed", "strays"} -> Nat]
        /\ used'.removed = used.removed
    BY <2>3, LeaveTyped DEF RowInv
  <2> QED BY <1>3, <2>1, <2>2, <2>4 DEF CompensateFiles, ProcStep, dbVars
<1>4. CASE RequestIsStale(p)
  BY <1>4, EndTyped DEF RequestIsStale, ProcStep, Serving, RowInv, Types, dbVars
<1>5. CASE Crash(p)
  <2>1. /\ used' \in [{"crashes", "faults", "deletes", "early", "retries", "removed", "strays"} -> Nat]
        /\ used'.removed = used.removed
    BY <1>5, CrashTyped DEF RowInv
  <2> QED BY <1>5, <2>1, EndTyped DEF Crash, ProcStep, Serving, dbVars
<1>6. ASSUME NEW d \in Doc, Promote(p, d)
      PROVE  ProcStep(p)
  BY <1>6 DEF Promote, ProcStep, ProcType, Serving, RowInv, Types, ProcsKnow, dbVars
<1> QED BY <1>1, <1>2, <1>3, <1>4, <1>5, <1>6

\* The steps of a coordinator that commit nothing, and its death.
LEMMA CoordinatorKeeps ==
    ASSUME IInv, NEW p \in Proc,
           \/ Coordinate(p) \/ PromoteFails(p) \/ CompensateFiles(p) \/ RequestIsStale(p) \/ Crash(p)
           \/ \E d \in Doc : Promote(p, d)
    PROVE  CoordInv'
<1>1. ProcStep(p)
  BY CoordinatorTyped DEF IInv
<1>2. proc[p] \in ProcType
  BY DEF IInv, RowInv, Types
<1>3. CASE Coordinate(p)
  <2> DEFINE D == {d \in DocsOf[proc[p].batch] : Exists(d)} \ Locked
  <2>1. CASE D = {}
    BY <1>1, <1>3, <2>1, EndKeeps DEF Coordinate
  <2>2. CASE D # {}
    <3>1. /\ proc[p].pc = "coordinate" /\ obj' = obj
          /\ proc' = [proc EXCEPT ![p].pc = "promote", ![p].docs = D, ![p].todo = D]
      BY <1>3, <2>2 DEF Coordinate
    <3>2. /\ proc'[p].pc = "promote" /\ proc'[p].docs = D /\ proc'[p].todo = D
          /\ proc'[p].batch = proc[p].batch /\ proc'[p].req = proc[p].req
      BY <3>1, <1>2 DEF IInv, RowInv, Types, ProcType
    <3>3. proc[p].batch \in Batch
      BY <3>1 DEF IInv, RowInv, CoordInv, ProcsKnow, Serving
    <3>4. ASSUME NEW d \in DocsOf[proc[p].batch] \ D, doc[d].status = "pending"
          PROVE  d \in held
      <4>1. d \in Locked
        BY <3>4 DEF Exists
      <4>2. SUFFICES ASSUME NEW q \in Proc, d \in LockedBy(q)
                     PROVE  FALSE
        BY <4>1 DEF Locked
      <4>3. proc[q].pc = "promote" /\ d \in proc[q].docs
        BY <4>2 DEF LockedBy
      <4>4. proc[q].batch \in Batch /\ d \in DocsOf[proc[q].batch]
        BY <4>3 DEF IInv, RowInv, CoordInv, Promoting, ProcsKnow, Serving
      <4>5. proc[q].batch = proc[p].batch
        BY <3>3, <3>4, <4>4
      <4>6. q = p
        BY <4>5, <3>3 DEF IInv, CoordInv, Alone
      <4> QED BY <4>3, <4>6, <3>1
    <3>5. StepKeeps(p)
      BY <3>1, <3>2, <3>3, <3>4 DEF StepKeeps, IInv, CoordInv, RequestLoaded, Serving, Early
    <3> QED BY <1>1, <3>5, ProcStepKeeps
  <2> QED BY <2>1, <2>2
<1>4. CASE PromoteFails(p)
  <2>1. proc[p].pc = "promote" /\ obj' = obj /\ proc'[p] = [proc[p] EXCEPT !.pc = "compensate"]
    BY <1>4, GoTyped DEF PromoteFails, IInv, Serving
  <2>2. StepKeeps(p)
    BY <2>1, <1>2 DEF StepKeeps, IInv, CoordInv, RequestLoaded, ProcsKnow, ProcType, Serving, Early
  <2> QED BY <1>1, <2>2, ProcStepKeeps
<1>5. CASE CompensateFiles(p)
  <2>1. /\ proc[p].pc = "compensate" /\ proc'[p] = [proc[p] EXCEPT !.pc = "fail"]
        /\ obj \ obj' \subseteq DocsOf[proc[p].batch]
    BY <1>5, GoTyped DEF CompensateFiles, IInv, Serving
  <2>2. proc[p].batch \in Batch
    BY <2>1 DEF IInv, RowInv, CoordInv, ProcsKnow, Serving
  <2>3. \A d \in DocsOf[proc[p].batch] : ~Offered(doc[d])
    BY <2>2 DEF IInv, CoordInv, Converged
  <2>4. ASSUME NEW q \in Proc \ {p}, proc[q].pc = "promote", NEW d \in DocsOf[proc[p].batch]
        PROVE  d \notin proc[q].docs
    <3>1. proc[q].batch \in Batch /\ proc[q].docs \subseteq DocsOf[proc[q].batch]
      BY <2>4 DEF IInv, RowInv, CoordInv, ProcsKnow, Promoting, Serving
    <3>2. proc[q].batch # proc[p].batch
      BY <2>2 DEF IInv, CoordInv, Alone
    <3> QED BY <2>2, <3>1, <3>2
  <2>5. StepKeeps(p)
    BY <2>1, <2>2, <2>3, <2>4, <1>2
       DEF StepKeeps, IInv, CoordInv, RequestLoaded, ProcType, Serving, Early
  <2> QED BY <1>1, <2>5, ProcStepKeeps
<1>6. CASE RequestIsStale(p)
  BY <1>1, <1>6, EndKeeps DEF RequestIsStale
<1>7. CASE Crash(p)
  BY <1>1, <1>7, EndKeeps DEF Crash
<1>8. ASSUME NEW d \in Doc, Promote(p, d)
      PROVE  CoordInv'
  <2>1. /\ proc[p].pc = "promote" /\ obj' = obj \cup {d}
        /\ proc'[p] = [proc[p] EXCEPT !.todo = proc[p].todo \ {d}]
    BY <1>8 DEF Promote, IInv, RowInv, Types
  <2>2. /\ proc[p].batch \in Batch /\ proc[p].docs \subseteq DocsOf[proc[p].batch]
        /\ proc[p].docs \ proc[p].todo \subseteq obj
        /\ \A e \in DocsOf[proc[p].batch] \ proc[p].docs : doc[e].status = "pending" => e \in held
    BY <2>1 DEF IInv, RowInv, CoordInv, ProcsKnow, Promoting, Serving
  <2>3. StepKeeps(p)
    BY <2>1, <2>2, <1>2 DEF StepKeeps, IInv, CoordInv, RequestLoaded, ProcType, Serving, Early
  <2> QED BY <1>1, <2>3, ProcStepKeeps
<1> QED BY <1>3, <1>4, <1>5, <1>6, <1>7, <1>8

(* The scanner takes over a batch with a pending document. *)
LEMMA ScanKeepsRows ==
    ASSUME RowInv, NEW b \in Batch, Scan(b)
    PROVE  /\ ProcStep(Scanner)
           /\ proc'[Scanner].pc = "coordinate" /\ proc'[Scanner].batch = b
           /\ proc'[Scanner].req = (request.batch = b)
<1>1. [Idle EXCEPT !.pc = "coordinate", !.batch = b, !.req = (request.batch = b)] \in ProcType
  BY DEF Idle, ProcType, Serving
<1> QED BY <1>1 DEF Scan, ProcStep, Idle, RowInv, Types, dbVars

\* The scanner takes a batch only when nobody serves it.
LEMMA ScanKeeps ==
    ASSUME IInv, Prompt, NEW b \in Batch, Scan(b)
    PROVE  CoordInv'
<1>1. PICK d \in DocsOf[b] : doc[d].status = "pending"
  BY DEF Scan
<1>2. ~Served(b) /\ obj' = obj
  BY DEF Scan, MayTakeOver
<1>3. Takeable(Scanner, b)
  <2>1. \A q \in Proc : proc[q].batch # b
    BY <1>2 DEF Served
  <2>2. proc[b].pc \notin Early
    BY <1>1 DEF IInv, CoordInv, Uncommitted, Exists
  <2>3. DocsOf[b] \cap held = {}
    BY <1>2 DEF Served
  <2>4. \A e \in DocsOf[b] : ~Offered(doc[e])
    BY <1>1, <2>3 DEF IInv, CoordInv, Converged
  <2> QED BY <2>1, <2>2, <2>4 DEF Takeable
<1>4. StepKeeps(Scanner)
  BY <1>2, <1>3, ScanKeepsRows DEF StepKeeps, IInv, Serving, Early
<1> QED BY <1>4, ScanKeepsRows, ProcStepKeeps DEF IInv

-----------------------------------------------------------------------------
(* The commit of an upload. *)
LEMMA PersistChanges ==
    ASSUME RowInv, NEW b \in Batch, Persist(b)
    PROVE  /\ proc' \in [Proc -> ProcType]
           /\ \A q \in Proc \ {b} : proc'[q] = proc[q]
           /\ proc[b].pc = "persist" /\ proc[b].batch = b
           /\ proc'[b].pc = "coordinate" /\ proc'[b].batch = b /\ proc'[b].req = (b \in Keyed)
           /\ doc' \in [Doc -> Row]
           /\ \A d \in DocsOf[b] : doc'[d].status = "pending" /\ ~doc'[d].cleanup /\ doc'[d].error = 0
           /\ \A d \in Doc \ DocsOf[b] : doc'[d] = doc[d]
<1>1. proc[b].pc = "persist" /\ proc[b].batch = b /\ proc[b] \in ProcType
  BY DEF Persist, RowInv, Types, ProcsKnow
<1>2. proc' = [proc EXCEPT ![b] = [[proc[b] EXCEPT !.pc = "coordinate"] EXCEPT !.req = (b \in Keyed)]]
  BY DEF Persist, RowInv, Types
<1>3. [proc[b] EXCEPT !.pc = "coordinate"] \in ProcType
  BY <1>1 DEF ProcType, Serving
<1>4. ASSUME NEW x \in ProcType PROVE [x EXCEPT !.req = (b \in Keyed)] \in ProcType
  <2>1. ASSUME NEW y \in BOOLEAN PROVE [x EXCEPT !.req = y] \in ProcType
    BY DEF ProcType
  <2>2. (b \in Keyed) \in BOOLEAN
    OBVIOUS
  <2> QED BY <2>1, <2>2, Zenon
<1>5. proc'[b] \in ProcType /\ proc' \in [Proc -> ProcType] /\ \A q \in Proc \ {b} : proc'[q] = proc[q]
  BY <1>2, <1>3, <1>4 DEF RowInv, Types
<1>6. proc'[b].pc = "coordinate" /\ proc'[b].batch = b /\ proc'[b].req = (b \in Keyed)
  BY <1>1, <1>2, <1>3 DEF RowInv, Types, ProcType
<1> DEFINE new == [NoRow EXCEPT !.status = "pending", !.task = "pending"]
<1>7. new \in Row /\ new.status = "pending" /\ ~new.cleanup /\ new.error = 0
  BY NoRowIsRow, MovedRow
<1>8. doc' = [d \in Doc |-> IF d \in DocsOf[b] THEN new ELSE doc[d]]
  BY DEF Persist
<1> HIDE DEF new
<1>9. /\ doc' \in [Doc -> Row]
      /\ \A d \in DocsOf[b] : doc'[d].status = "pending" /\ ~doc'[d].cleanup /\ doc'[d].error = 0
      /\ \A d \in Doc \ DocsOf[b] : doc'[d] = doc[d]
  BY <1>7, <1>8 DEF RowInv, Types
<1> QED BY <1>1, <1>5, <1>6, <1>9

\* The commit of the rows gives the key to its batch.
LEMMA PersistKeepsRows ==
    ASSUME RowInv, NEW b \in Batch, Persist(b)
    PROVE  RowInv'
<1>1. UNCHANGED <<held, used>> /\ (b \in Keyed => request.status = "none")
  BY DEF Persist
<1>2. IF b \in Keyed THEN request'.status = "coordinating" /\ request'.batch = b ELSE request' = request
  BY DEF Persist
<1>3. request' \in Request
  BY DEF Persist, Request, RowInv, Types
<1>4. Types'
  BY <1>1, <1>3, PersistChanges DEF RowInv, Types
<1>5. RowsExist'
  BY <1>1, PersistChanges DEF RowInv, RowsExist, Exists, Types
<1>6. RequestOwned'
  BY <1>2 DEF RowInv, RequestOwned
<1>7. KeyOwned'
  <2> SUFFICES ASSUME used.removed = 0, NEW c \in Keyed, NEW d \in DocsOf[c], doc'[d].status # "absent"
               PROVE  request'.batch = c
    BY <1>1 DEF KeyOwned, Exists
  <2>1. CASE c = b
    BY <1>2, <2>1
  <2>2. CASE c # b
    <3>1. d \in Doc \ DocsOf[b]
      BY <2>2
    <3>2. request.batch = c
      BY <3>1, PersistChanges DEF RowInv, KeyOwned, Exists
    <3> QED BY <1>1, <1>2, <3>2 DEF RowInv, RequestOwned
  <2> QED BY <2>1, <2>2
<1>8. ProcsKnow'
  BY PersistChanges DEF RowInv, ProcsKnow, Serving
<1> QED BY <1>4, <1>5, <1>6, <1>7, <1>8 DEF RowInv

\* Who commits a batch is its only coordinator.
LEMMA PersistKeeps ==
    ASSUME IInv, NEW b \in Batch, Persist(b)
    PROVE  CoordInv'
<1> USE PersistChanges DEF IInv, CoordInv
<1>1. /\ \A d \in DocsOf[b] : ~Exists(d)
      /\ request.batch # b
      /\ \A p \in Proc \ {b} : proc[p].batch # b
  BY DEF Uncommitted, Early
<1>2. UNCHANGED <<held, obj>> /\ request'.batch \in {request.batch, b}
      /\ (request'.batch # b => request' = request)
      /\ (request'.batch = b => b \in Keyed)
  BY <1>1 DEF Persist
<1>3. \A c \in Batch \ {b} : \A d \in DocsOf[c] : d \in Doc /\ doc'[d] = doc[d]
  <2> SUFFICES ASSUME NEW c \in Batch \ {b}, NEW d \in DocsOf[c]
               PROVE  d \in Doc \ DocsOf[b]
    OBVIOUS
  <2> QED OBVIOUS
<1>4. \A p \in Proc : proc'[p].batch = proc[p].batch
  OBVIOUS
<1>5. Uncommitted'
  BY <1>2, <1>3, <1>4 DEF Uncommitted, Exists, Early
<1>6. Alone'
  BY <1>4 DEF Alone
<1>7. RequestLoaded'
  <2> SUFFICES ASSUME NEW p \in Proc, proc'[p].pc \in Serving, ~proc'[p].req
               PROVE  request'.batch # proc'[p].batch
    BY DEF RequestLoaded
  <2>1. CASE p = b
    <3>1. b \notin Keyed /\ proc'[p].batch = b
      BY <2>1
    <3> QED BY <1>2, <3>1
  <2>2. CASE p # b
    <3>1. proc'[p] = proc[p]
      BY <2>2
    <3>2. proc[p].batch # b /\ request.batch # proc[p].batch
      BY <1>1, <2>2, <3>1 DEF RequestLoaded
    <3> QED BY <1>2, <3>1, <3>2
  <2> QED BY <2>1, <2>2
<1>8. Promoting'
  <2> SUFFICES ASSUME NEW p \in Proc, proc'[p].pc = "promote"
               PROVE  /\ proc'[p].docs \subseteq DocsOf[proc'[p].batch]
                      /\ proc'[p].docs \ proc'[p].todo \subseteq obj
                      /\ \A d \in DocsOf[proc'[p].batch] \ proc'[p].docs :
                            doc'[d].status = "pending" => d \in held
    BY <1>2 DEF Promoting
  <2>1. p # b /\ proc'[p] = proc[p]
    OBVIOUS
  <2>2. proc[p].batch \in Batch \ {b}
    BY <1>1, <2>1 DEF RowInv, ProcsKnow, Serving
  <2> QED BY <1>3, <2>1, <2>2 DEF Promoting
<1>9. Converged'
  <2> SUFFICES ASSUME NEW c \in Batch, NEW d \in DocsOf[c], Offered(doc'[d])
               PROVE  /\ \A p \in Proc : proc'[p].batch # c
                      /\ \A e \in DocsOf[c] : doc'[e].status = "pending" => e \in held
                      /\ request'.batch = c => request'.status # "coordinating"
    BY <1>2 DEF Converged
  <2>1. c # b
    BY <1>2 DEF Offered
  <2>2. Offered(doc[d])
    BY <1>3, <2>1 DEF Offered
  <2> QED BY <1>2, <1>3, <1>4, <2>1, <2>2 DEF Converged
<1>10. QueuedHasObject'
  BY <1>2 DEF QueuedHasObject, Offered
<1> QED BY <1>5, <1>6, <1>7, <1>8, <1>9, <1>10

-----------------------------------------------------------------------------
(* A coordinator ends its batch, one way or the other: its rows get another  *)
(* status, and so does the request it has loaded.                            *)
Ended(p, status) ==
    /\ End(p) /\ UNCHANGED <<held, used>>
    /\ doc' \in [Doc -> Row]
    /\ \A d \in Doc : (Exists(d)' <=> Exists(d)) /\ doc'[d].cleanup = doc[d].cleanup
    /\ IF proc[p].req
       THEN RequestLives(p) /\ request' = [request EXCEPT !.status = status]
       ELSE request' = request

\* The last commit of a coordinator keeps what is known of rows.
LEMMA EndedKeepsRows ==
    ASSUME RowInv, NEW p \in Proc, proc[p].pc \in Serving,
           NEW status \in {"accepted", "failed"}, Ended(p, status)
    PROVE  RowInv'
<1>1. proc[p].batch \in Batch
  BY DEF RowInv, ProcsKnow
<1>2. /\ request' \in Request /\ request'.batch = request.batch
      /\ request'.status = "none" <=> request.status = "none"
  BY <1>1 DEF Ended, RequestLives, RowInv, Types, Request, RequestOwned
<1>3. Types'
  BY <1>2, EndTyped DEF Ended, RowInv, Types
<1>4. RowsExist'
  BY DEF Ended, RowInv, Types, RowsExist
<1>5. RequestOwned'
  BY <1>2 DEF RowInv, RequestOwned
<1>6. KeyOwned'
  BY <1>2 DEF Ended, RowInv, KeyOwned
<1>7. ProcsKnow'
  BY EndTyped DEF Ended, RowInv, ProcsKnow, Serving
<1> QED BY <1>3, <1>4, <1>5, <1>6, <1>7 DEF RowInv

\* The commit that queues the documents, in the terms of Ended.
LEMMA MarkQueuedEnds ==
    ASSUME RowInv, NEW p \in Proc, MarkQueued(p)
    PROVE  /\ Ended(p, "accepted")
           /\ \A d \in Doc : doc'[d].status =
                  IF d \in proc[p].docs /\ doc[d].status = "pending" THEN "queued" ELSE doc[d].status
<1> DEFINE Q(r) == [r EXCEPT !.status = "queued", !.task = "queued"]
<1>1. ASSUME NEW r \in Row
      PROVE  Q(r) \in Row /\ Q(r).status = "queued" /\ Q(r).cleanup = r.cleanup
  BY <1>1, MovedRow
<1>2. /\ doc' = [d \in Doc |-> IF d \in proc[p].docs /\ doc[d].status = "pending"
                              THEN Q(doc[d]) ELSE doc[d]]
      /\ proc[p].req => RequestLives(p)
      /\ request' = IF proc[p].req THEN [request EXCEPT !.status = "accepted"] ELSE request
      /\ End(p) /\ UNCHANGED <<held, used>>
  BY Zenon DEF MarkQueued
<1> HIDE DEF Q
<1>3. doc' \in [Doc -> Row]
  BY <1>1, <1>2 DEF RowInv, Types
<1>4. \A d \in Doc : /\ doc'[d].cleanup = doc[d].cleanup
                     /\ doc'[d].status =
                         IF d \in proc[p].docs /\ doc[d].status = "pending" THEN "queued"
                         ELSE doc[d].status
  BY <1>1, <1>2 DEF RowInv, Types
<1> QED BY <1>2, <1>3, <1>4 DEF Ended, Exists

\* The commit that fails the batch, in the terms of Ended.
LEMMA CompensateRowsEnds ==
    ASSUME RowInv, NEW p \in Proc, CompensateRows(p)
    PROVE  /\ Ended(p, "failed")
           /\ \A d \in Doc : doc'[d].status \in {doc[d].status, "failed"}
           /\ proc[p].pc = "fail" /\ obj' = obj
<1> DEFINE F(r) == [status |-> "failed", error |-> 20011, task |-> "failed", cleanup |-> r.cleanup]
<1>1. ASSUME NEW r \in Row
      PROVE  F(r) \in Row /\ F(r).status = "failed" /\ F(r).cleanup = r.cleanup
  BY <1>1 DEF Row
<1>2. /\ doc' = [d \in Doc |-> IF d \in proc[p].docs /\ Exists(d) THEN F(doc[d]) ELSE doc[d]]
      /\ proc[p].req => RequestLives(p)
      /\ request' = IF proc[p].req THEN [request EXCEPT !.status = "failed"] ELSE request
      /\ End(p) /\ UNCHANGED <<held, used, obj>> /\ proc[p].pc = "fail"
  BY DEF CompensateRows
<1> HIDE DEF F
<1>3. doc' \in [Doc -> Row]
  BY <1>1, <1>2 DEF RowInv, Types
<1>4. \A d \in Doc : /\ doc'[d].cleanup = doc[d].cleanup
                     /\ doc'[d].status \in {doc[d].status, "failed"}
                     /\ Exists(d)' <=> Exists(d)
  BY <1>1, <1>2 DEF RowInv, Types, Exists
<1> QED BY <1>2, <1>3, <1>4 DEF Ended

\* Documents are queued only with their files promoted.
LEMMA MarkQueuedKeeps ==
    ASSUME IInv, NEW p \in Proc, MarkQueued(p)
    PROVE  CoordInv'
<1> DEFINE b == proc[p].batch
<1>1. /\ proc[p].pc = "promote" /\ proc[p].todo = {} /\ obj' = obj
      /\ b \in Batch /\ proc[p] \in ProcType
  BY DEF MarkQueued, IInv, RowInv, Types, ProcsKnow, Serving
<1>2. /\ proc[p].docs \subseteq DocsOf[b] /\ proc[p].docs \subseteq obj
      /\ \A d \in DocsOf[b] \ proc[p].docs : doc[d].status = "pending" => d \in held
  BY <1>1 DEF IInv, CoordInv, Promoting
<1>3. /\ Ended(p, "accepted")
      /\ \A d \in Doc : doc'[d].status =
            IF d \in proc[p].docs /\ doc[d].status = "pending" THEN "queued" ELSE doc[d].status
  BY MarkQueuedEnds DEF IInv
<1>4. /\ \A q \in Proc \ {p} : proc'[q] = proc[q] /\ proc[q].batch # b
      /\ proc'[p].batch = NoBatch /\ proc'[p].pc = (IF p = Scanner THEN "idle" ELSE "done")
  BY <1>1, <1>3, EndTyped DEF Ended, IInv, CoordInv, Alone
<1>5. \A c \in Batch \ {b} : \A d \in DocsOf[c] : d \in Doc /\ doc'[d].status = doc[d].status
  <2> SUFFICES ASSUME NEW c \in Batch \ {b}, NEW d \in DocsOf[c]
               PROVE  d \in Doc /\ d \notin DocsOf[b]
    BY <1>2, <1>3
  <2> QED BY <1>1
<1>6. /\ request'.batch = request.batch
      /\ request.batch = b => request'.status = "accepted"
      /\ request.batch # b => request' = request
  <2>1. CASE proc[p].req
    BY <1>3, <2>1 DEF Ended, RequestLives, IInv, RowInv, Types, Request
  <2>2. CASE ~proc[p].req
    BY <1>1, <1>3, <2>2 DEF Ended, IInv, CoordInv, RequestLoaded, Serving
  <2> QED BY <2>1, <2>2
<1>7. held' = held /\ \A d \in Doc : Exists(d)' <=> Exists(d)
  BY <1>3 DEF Ended
<1> HIDE DEF b
<1>8. Uncommitted'
  BY <1>4, <1>6, <1>7 DEF IInv, CoordInv, Uncommitted, Early
<1>9. Alone' /\ RequestLoaded'
  BY <1>4, <1>6 DEF IInv, CoordInv, Alone, RequestLoaded, Serving
<1>10. Promoting'
  <2> SUFFICES ASSUME NEW q \in Proc, proc'[q].pc = "promote"
               PROVE  /\ proc'[q].docs \subseteq DocsOf[proc'[q].batch]
                      /\ proc'[q].docs \ proc'[q].todo \subseteq obj
                      /\ \A d \in DocsOf[proc'[q].batch] \ proc'[q].docs :
                            doc'[d].status = "pending" => d \in held
    BY <1>1, <1>7 DEF Promoting
  <2>1. q # p /\ proc'[q] = proc[q]
    BY <1>4
  <2>2. proc[q].batch \in Batch \ {b}
    BY <1>4, <2>1 DEF IInv, RowInv, ProcsKnow, Serving
  <2> QED BY <1>5, <2>1, <2>2 DEF IInv, CoordInv, Promoting
<1>11. Converged'
  <2> SUFFICES ASSUME NEW c \in Batch, NEW d \in DocsOf[c], Offered(doc'[d])
               PROVE  /\ \A q \in Proc : proc'[q].batch # c
                      /\ \A e \in DocsOf[c] : doc'[e].status = "pending" => e \in held
                      /\ request'.batch = c => request'.status # "coordinating"
    BY <1>7 DEF Converged
  <2>1. CASE c = b
    <3>1. \A e \in DocsOf[b] : doc'[e].status = "pending" => e \in held
      BY <1>1, <1>2, <1>3
    <3>2. NoBatch # b
      BY <1>1
    <3> QED BY <1>4, <1>6, <2>1, <3>1, <3>2
  <2>2. CASE c # b
    <3>1. Offered(doc[d])
      BY <1>5, <2>2 DEF Offered
    <3> QED BY <1>4, <1>5, <1>6, <2>2, <3>1 DEF IInv, CoordInv, Converged
  <2> QED BY <2>1, <2>2
<1>12. QueuedHasObject'
  BY <1>1, <1>2, <1>3 DEF IInv, CoordInv, QueuedHasObject, Offered
<1> QED BY <1>8, <1>9, <1>10, <1>11, <1>12 DEF CoordInv

\* A batch that is failed leaves no queued document behind.
LEMMA CompensateRowsKeeps ==
    ASSUME IInv, NEW p \in Proc, CompensateRows(p)
    PROVE  CoordInv'
<1>1. proc[p].pc = "fail" /\ obj' = obj
  BY CompensateRowsEnds DEF IInv
<1>2. Ended(p, "failed") /\ \A d \in Doc : doc'[d].status \in {doc[d].status, "failed"}
  BY CompensateRowsEnds DEF IInv
<1>3. /\ \A q \in Proc \ {p} : proc'[q] = proc[q]
      /\ proc'[p].batch = NoBatch /\ proc'[p].pc = (IF p = Scanner THEN "idle" ELSE "done")
  BY <1>2, EndTyped DEF Ended, IInv
<1>4. request'.batch = request.batch /\ request'.status \in {request.status, "failed"}
  BY <1>2 DEF Ended, IInv, RowInv, Types, Request
<1>5. held' = held /\ \A d \in Doc : Exists(d)' <=> Exists(d)
  BY <1>2 DEF Ended
<1>6. Uncommitted'
  BY <1>3, <1>4, <1>5 DEF IInv, CoordInv, Uncommitted, Early
<1>7. Alone' /\ RequestLoaded'
  BY <1>3, <1>4 DEF IInv, CoordInv, Alone, RequestLoaded, Serving
<1>8. Promoting'
  <2> SUFFICES ASSUME NEW q \in Proc, proc'[q].pc = "promote"
               PROVE  /\ proc'[q].docs \subseteq DocsOf[proc'[q].batch]
                      /\ proc'[q].docs \ proc'[q].todo \subseteq obj
                      /\ \A d \in DocsOf[proc'[q].batch] \ proc'[q].docs :
                            doc'[d].status = "pending" => d \in held
    BY <1>1, <1>5 DEF Promoting
  <2>1. q # p /\ proc'[q] = proc[q]
    BY <1>3
  <2>2. proc[q].batch \in Batch
    BY <2>1 DEF IInv, RowInv, ProcsKnow, Serving
  <2> QED BY <1>2, <2>1, <2>2 DEF IInv, CoordInv, Promoting
<1>9. Converged'
  BY <1>2, <1>3, <1>4, <1>5 DEF IInv, CoordInv, Converged, Offered
<1>10. QueuedHasObject'
  BY <1>1, <1>2 DEF IInv, CoordInv, QueuedHasObject, Offered
<1> QED BY <1>6, <1>7, <1>8, <1>9, <1>10 DEF CoordInv

-----------------------------------------------------------------------------
(* The request grows old and is removed. *)
LEMMA ExpiryKeepsRows ==
    ASSUME RowInv, RequestExpires \/ RemoveExpired
    PROVE  /\ RowInv'
           /\ UNCHANGED <<doc, obj, proc, held>>
           /\ request'.batch = NoBatch \/ (request'.batch = request.batch /\ request'.status = request.status)
<1>1. UNCHANGED <<doc, obj, proc, held>>
  BY DEF RequestExpires, RemoveExpired
<1>2. CASE RequestExpires
  <2>1. request' \in Request /\ request'.batch = request.batch /\ request'.status = request.status
    BY <1>2 DEF RequestExpires, RowInv, Types, Request
  <2>2. used' = used
    BY <1>2 DEF RequestExpires
  <2> QED BY <1>1, <2>1, <2>2
          DEF RowInv, Types, RowsExist, RequestOwned, KeyOwned, ProcsKnow, Exists
<1>3. CASE RemoveExpired
  <2>1. request' \in Request /\ request'.batch = NoBatch /\ request'.status = "none"
    BY <1>3 DEF RemoveExpired, NoRequest, Request
  <2>2. /\ used' \in [{"crashes", "faults", "deletes", "early", "retries", "removed", "strays"} -> Nat]
        /\ used'.removed = 1
    BY <1>3 DEF RemoveExpired, RowInv, Types
  <2> QED BY <1>1, <2>1, <2>2
          DEF RowInv, Types, RowsExist, RequestOwned, KeyOwned, ProcsKnow, Exists
<1> QED BY <1>1, <1>2, <1>3

\* The expiry and the removal of the request.
LEMMA ExpiryKeeps ==
    ASSUME IInv, RequestExpires \/ RemoveExpired
    PROVE  CoordInv'
<1>1. /\ UNCHANGED <<doc, obj, proc, held>>
      /\ request'.batch = NoBatch \/ (request'.batch = request.batch /\ request'.status = request.status)
  BY ExpiryKeepsRows DEF IInv
<1>2. Uncommitted' /\ Alone' /\ Promoting' /\ QueuedHasObject'
  BY <1>1 DEF IInv, CoordInv, Uncommitted, Alone, Promoting, QueuedHasObject, Exists
<1>3. RequestLoaded' /\ Converged'
  BY <1>1 DEF IInv, CoordInv, RequestLoaded, Converged, RowInv, ProcsKnow
<1> QED BY <1>2, <1>3 DEF CoordInv

-----------------------------------------------------------------------------
\* What is known of rows is inductive by itself, with or without Prompt.
LEMMA NextKeepsRows == RowInv /\ [Next]_vars => RowInv'
<1> SUFFICES ASSUME RowInv, [Next]_vars PROVE RowInv'
  OBVIOUS
<1>1. ASSUME NEW b \in Batch, Check(b) \/ UploadStep(b)
      PROVE  RowInv'
  BY <1>1, UploadTyped, ProcStepKeepsRows, PersistKeepsRows DEF UploadStep
<1>2. ASSUME NEW b \in Batch, Scan(b)
      PROVE  RowInv'
  BY <1>2, ScanKeepsRows, ProcStepKeepsRows
<1>3. ASSUME NEW p \in Proc, CoordinatorStep(p) \/ Crash(p)
      PROVE  RowInv'
  <2>1. CASE MarkQueued(p)
    <3>1. proc[p].pc \in Serving
      BY <2>1 DEF MarkQueued, Serving
    <3> QED BY <2>1, <3>1, MarkQueuedEnds, EndedKeepsRows
  <2>2. CASE CompensateRows(p)
    <3>1. proc[p].pc \in Serving
      BY <2>2, CompensateRowsEnds DEF Serving
    <3> QED BY <2>2, <3>1, CompensateRowsEnds, EndedKeepsRows
  <2> QED BY <1>3, <2>1, <2>2, CoordinatorTyped, ProcStepKeepsRows DEF CoordinatorStep
<1>4. CASE RequestExpires \/ RemoveExpired
  BY <1>4, ExpiryKeepsRows
<1>5. ASSUME NEW d \in Doc, \/ DeleteLock(d) \/ DeleteCommit(d)
                            \/ CleanUp(d) \/ CleanUpFails(d) \/ Process(d)
      PROVE  RowInv'
  BY <1>5, DeleteChangesRows, WorkChangesRows, RowsStepKeepsRows
<1>6. CASE KbDelete \/ KbRetry \/ KbConvergeFails
  BY <1>6, KbDeleteChangesRows, RowsStepKeepsRows
<1>7. CASE KbDeleteEmpty \/ KbConverge
  BY <1>7, RemoveKeepsRows DEF KbDeleteEmpty, KbConverge
<1>8. CASE UNCHANGED vars
  BY <1>8 DEF vars, RowInv, Types, RowsExist, RequestOwned, KeyOwned, ProcsKnow, Exists
<1> QED BY <1>1, <1>2, <1>3, <1>4, <1>5, <1>6, <1>7, <1>8 DEF Next

\* The whole invariant is inductive when no timeout passes while a coordinator
\* works.
LEMMA NextKeeps == Prompt /\ IInv /\ [Next]_vars => IInv'
<1> SUFFICES ASSUME Prompt, IInv, [Next]_vars PROVE CoordInv'
  BY NextKeepsRows DEF IInv
<1>1. ASSUME NEW b \in Batch, Check(b) \/ UploadStep(b)
      PROVE  CoordInv'
  BY <1>1, UploadKeeps, PersistKeeps DEF UploadStep
<1>2. ASSUME NEW b \in Batch, Scan(b)
      PROVE  CoordInv'
  BY <1>2, ScanKeeps
<1>3. ASSUME NEW p \in Proc, CoordinatorStep(p) \/ Crash(p)
      PROVE  CoordInv'
  BY <1>3, CoordinatorKeeps, MarkQueuedKeeps, CompensateRowsKeeps DEF CoordinatorStep
<1>4. CASE RequestExpires \/ RemoveExpired
  BY <1>4, ExpiryKeeps
<1>5. ASSUME NEW d \in Doc, \/ DeleteLock(d) \/ DeleteCommit(d)
                            \/ CleanUp(d) \/ CleanUpFails(d) \/ Process(d)
      PROVE  CoordInv'
  BY <1>5, DeleteChangesRows, WorkChangesRows, RowsStepKeeps DEF IInv
<1>6. CASE KbDelete \/ KbRetry \/ KbConvergeFails
  BY <1>6, KbDeleteChangesRows, RowsStepKeeps DEF IInv
<1>7. CASE KbDeleteEmpty \/ KbConverge
  BY <1>7, RemoveKeeps DEF KbDeleteEmpty, KbConverge
<1>8. CASE UNCHANGED vars
  BY <1>8 DEF vars, IInv, CoordInv, Uncommitted, Alone, RequestLoaded, Promoting, Converged,
              QueuedHasObject, Exists
<1> QED BY <1>1, <1>2, <1>3, <1>4, <1>5, <1>6, <1>7, <1>8 DEF Next

-----------------------------------------------------------------------------
(***************************************************************************)
(* A batch as a whole.  As long as no DELETE has met an upload half way    *)
(* (used.early = 0), the documents of a batch leave `pending` together: a  *)
(* coordinator finds all of them, none is locked by a DELETE, and nobody   *)
(* deletes one between the rollback of a promotion and its compensation.   *)
(***************************************************************************)
AllPending(b) == \A d \in DocsOf[b] : doc[d].status = "pending"

\* One document pending, all pending, and so the request of the batch.
AllOrNone ==
    \A b \in Batch : (\E d \in DocsOf[b] : doc[d].status = "pending") =>
        /\ AllPending(b)
        /\ request.batch = b => request.status = "coordinating"

\* A pending document is nobody's to clean up, nor is a tombstone.
RowsFresh ==
    \A d \in Doc :
        /\ doc[d].status = "pending" => doc[d].error = 0
        /\ doc[d].cleanup => doc[d].status \notin {"pending", "deleted"}

\* A coordinator finds its batch pending and takes it as a whole.
ServedWhole ==
    \A p \in Proc : proc[p].pc \in Serving =>
        /\ AllPending(proc[p].batch)
        /\ request.batch = proc[p].batch => request.status = "coordinating"
        /\ proc[p].pc # "coordinate" => /\ proc[p].docs = DocsOf[proc[p].batch]
                                        /\ proc[p].todo \subseteq proc[p].docs

\* The request tells what has become of its batch.
RequestTells ==
    /\ request.status = "coordinating" => AllPending(request.batch)
    /\ request.status = "accepted" => \A d \in DocsOf[request.batch] : doc[d].error # 20011

\* A DELETE holds a document that its upload has let go.
HeldConverged ==
    \A d \in held : doc[d].status \notin {"pending", "absent", "deleted"}

\* A file in its final place has a row.
FilesHaveRows ==
    \A d \in obj : d \in Doc /\ doc[d].status \notin {"absent", "deleted"}

WholeInv ==
    /\ AllOrNone /\ RowsFresh /\ ServedWhole
    /\ RequestTells /\ HeldConverged /\ FilesHaveRows

\* At first there are only documents that were completed before.
LEMMA InitIsWhole == Init => WholeInv
<1> SUFFICES ASSUME Init PROVE WholeInv
  OBVIOUS
<1>1. \A d \in Doc : doc[d].status \in {"absent", "completed"} /\ ~doc[d].cleanup
  BY DEF Init, NoRow
<1>2. \A b \in Batch : \A d \in DocsOf[b] : d \in Doc
  OBVIOUS
<1>3. /\ request.status = "none" /\ held = {} /\ \A p \in Proc : proc[p].pc = "idle"
  BY DEF Init, NoRequest, Idle
<1>4. \A d \in obj : d \in Doc /\ doc[d].status = "completed"
  BY DEF Init, NoRow
<1> QED BY <1>1, <1>2, <1>3, <1>4
      DEF WholeInv, AllOrNone, RowsFresh, ServedWhole, RequestTells, HeldConverged, FilesHaveRows, Serving

\* What an early DELETE is stays counted.
LEMMA EarlyStays == Types /\ [Next]_vars => (used'.early = 0 => used.early = 0)
<1> SUFFICES ASSUME Types, [Next]_vars, used'.early = 0 PROVE used.early = 0
  OBVIOUS
<1> DEFINE Same == used'.early = used.early
<1>1. ASSUME NEW b \in {"crashes", "faults", "retries"}, NEW max, Spend(b, max)
      PROVE  Same
  BY <1>1 DEF Spend, Types
<1>2. ASSUME NEW b \in Batch, Check(b) \/ UploadStep(b) \/ Scan(b)
      PROVE  Same
  <2>1. CASE StoreFails(b)
    <3>1. PICK left \in SUBSET DocsOf[b] : Leave(left, 1)
      BY <2>1 DEF StoreFails
    <3> QED BY <3>1, LeaveTyped
  <2>2. CASE PersistFails(b)
    <3>1. PICK fault \in {0, 1}, left \in SUBSET DocsOf[b] : Leave(left, fault)
      BY <2>2 DEF PersistFails
    <3> QED BY <3>1, LeaveTyped
  <2> QED BY <1>2, <2>1, <2>2 DEF Check, UploadStep, FindRequest, TakeOver, Store, Persist, Scan
<1>3. ASSUME NEW p \in Proc, CoordinatorStep(p) \/ Crash(p)
      PROVE  Same
  <2>1. CASE Coordinate(p)
    BY <2>1, Zenon DEF Coordinate
  <2>2. CASE PromoteFails(p)
    BY <1>1, <2>2 DEF PromoteFails
  <2>3. CASE Crash(p)
    BY <2>3, CrashTyped
  <2>4. CASE MarkQueued(p)
    <3>1. UNCHANGED <<kb, tmp, obj, held, used>>
      BY <2>4, Zenon DEF MarkQueued
    <3> QED BY <3>1
  <2>5. CASE CompensateRows(p)
    BY <2>5 DEF CompensateRows
  <2>6. CASE RequestIsStale(p) \/ \E d \in Doc : Promote(p, d)
    BY <2>6, Zenon DEF RequestIsStale, Promote
  <2>7. CASE CompensateFiles(p)
    <3>1. PICK fault \in {0, 1}, left \in SUBSET DocsOf[proc[p].batch] : Leave(left, fault)
      BY <2>7 DEF CompensateFiles
    <3> QED BY <3>1, LeaveTyped
  <2> QED BY <1>3, <2>1, <2>2, <2>3, <2>4, <2>5, <2>6, <2>7 DEF CoordinatorStep
<1>4. CASE RequestExpires \/ RemoveExpired
  BY <1>4 DEF RequestExpires, RemoveExpired, Types
<1>5. ASSUME NEW d \in Doc, DeleteLock(d)
      PROVE  used.early = 0
  <2>1. used'.early = used.early + EarlyBy({d})
    BY <1>5 DEF DeleteLock, Types
  <2> QED BY <2>1, EarlyIsNat DEF Types
<1>6. ASSUME NEW d \in Doc, DeleteCommit(d) \/ CleanUp(d) \/ CleanUpFails(d) \/ Process(d)
      PROVE  Same
  <2>1. CASE DeleteCommit(d) \/ CleanUp(d) \/ CleanUpFails(d)
    BY <1>1, <2>1 DEF DeleteCommit, CleanUp, CleanUpFails
  <2>2. CASE Process(d)
    BY <2>2, ProcessLeaves
  <2> QED BY <1>6, <2>1, <2>2
<1>7. CASE KbDelete
  <2>1. used'.early = used.early + EarlyBy(Deletable)
    BY <1>7 DEF KbDelete, Types
  <2> QED BY <2>1, EarlyIsNat DEF Types
<1>8. CASE KbDeleteEmpty \/ KbRetry \/ KbConvergeFails \/ KbConverge \/ UNCHANGED vars
  BY <1>1, <1>8 DEF KbDeleteEmpty, KbRetry, KbConvergeFails, KbConverge, vars
<1> QED BY <1>2, <1>3, <1>4, <1>5, <1>6, <1>7, <1>8 DEF Next

-----------------------------------------------------------------------------
(* A step that leaves pending documents, coordinators and the request alone. *)
WholeRows ==
    /\ UNCHANGED <<proc, request>>
    /\ obj' \subseteq obj
    /\ \A d \in Doc :
         /\ doc[d].status = "pending" => doc'[d] = doc[d]
         /\ doc[d].status # "pending" => doc'[d].status # "pending"
         /\ doc'[d].status = "absent" => doc[d].status = "absent"
         /\ doc'[d].status = "deleted" => ~doc'[d].cleanup /\ d \notin obj'
         /\ doc'[d].error = 20011 => doc[d].error = 20011
    /\ \A d \in held' : doc'[d].status \notin {"pending", "absent", "deleted"}

\* Such a step keeps batches whole.
LEMMA WholeRowsKeep ==
    ASSUME RowInv, WholeInv, WholeRows
    PROVE  WholeInv'
<1>1. \A b \in Batch : \A d \in DocsOf[b] : d \in Doc
  OBVIOUS
<1>2. \A b \in Batch : AllPending(b) => AllPending(b)'
  BY <1>1 DEF AllPending, WholeRows
<1>3. AllOrNone'
  BY <1>1, <1>2 DEF WholeRows, WholeInv, AllOrNone
<1>4. RowsFresh'
  <2> SUFFICES ASSUME NEW d \in Doc
               PROVE  /\ doc'[d].status = "pending" => doc'[d].error = 0
                      /\ doc'[d].cleanup => doc'[d].status \notin {"pending", "deleted"}
    BY DEF RowsFresh
  <2> QED BY DEF WholeRows, WholeInv, RowsFresh
<1>5. ServedWhole'
  <2> SUFFICES ASSUME NEW p \in Proc, proc[p].pc \in Serving
               PROVE  AllPending(proc[p].batch)'
    BY DEF WholeRows, WholeInv, ServedWhole
  <2>1. proc[p].batch \in Batch /\ AllPending(proc[p].batch)
    BY DEF RowInv, ProcsKnow, WholeInv, ServedWhole
  <2> QED BY <1>1, <2>1 DEF AllPending, WholeRows
<1>6. RequestTells'
  <2>1. request.status # "none" => request.batch \in Batch
    BY DEF RowInv, RequestOwned
  <2> QED BY <1>1, <2>1 DEF AllPending, WholeRows, WholeInv, RequestTells
<1>7. HeldConverged' /\ FilesHaveRows'
  BY DEF WholeRows, WholeInv, HeldConverged, FilesHaveRows
<1> QED BY <1>3, <1>4, <1>5, <1>6, <1>7 DEF WholeInv

\* A deletion writes over a document that its upload has let go.
LEMMA StagedIsOld ==
    ASSUME NEW r \in Row, r.status \notin {"pending", "absent", "deleted"}
    PROVE  /\ Staged(r).status \in {"failed", "deleting"}
           /\ Staged(r).error = 20011 => r.error = 20011
BY DEF Staged, Row

\* The documents a deletion stages were not pending.
LEMMA StagingIsWhole ==
    ASSUME RowInv, WholeInv, NEW S \in SUBSET Doc,
           \A d \in S : doc[d].status \notin {"pending", "absent", "deleted"},
           doc' = [d \in Doc |-> IF d \in S THEN Staged(doc[d]) ELSE doc[d]],
           held' \subseteq held, UNCHANGED <<proc, request, obj>>
    PROVE  WholeInv'
<1>1. ASSUME NEW d \in S
      PROVE  /\ doc'[d].status \in {"failed", "deleting"}
             /\ doc'[d].error = 20011 => doc[d].error = 20011
  <2>1. doc[d] \in Row /\ doc'[d] = Staged(doc[d])
    BY DEF RowInv, Types
  <2> QED BY <2>1, StagedIsOld
<1>2. \A d \in Doc \ S : doc'[d] = doc[d]
  OBVIOUS
<1>3. \A d \in Doc :
         /\ doc[d].status = "pending" => doc'[d] = doc[d]
         /\ doc[d].status # "pending" => doc'[d].status # "pending"
         /\ doc'[d].status = "absent" => doc[d].status = "absent"
         /\ doc'[d].error = 20011 => doc[d].error = 20011
  BY <1>1, <1>2
<1>4. \A d \in Doc : doc'[d].status = "deleted" => ~doc'[d].cleanup /\ d \notin obj'
  BY <1>1, <1>2 DEF WholeInv, RowsFresh, FilesHaveRows
<1>5. ASSUME NEW d \in held'
      PROVE  doc'[d].status \notin {"pending", "absent", "deleted"}
  <2>1. d \in Doc /\ doc[d].status \notin {"pending", "absent", "deleted"}
    BY DEF WholeInv, HeldConverged, RowInv, Types
  <2>2. CASE d \in S
    BY <2>2, <1>1
  <2>3. CASE d \notin S
    <3>1. doc'[d] = doc[d]
      BY <2>1, <2>3, <1>2
    <3> QED BY <2>1, <3>1
  <2> QED BY <2>2, <2>3
<1> QED BY <1>3, <1>4, <1>5, WholeRowsKeep DEF WholeRows

\* DELETE of a document keeps batches whole, unless it meets an upload half way.
LEMMA DeleteKeepsWhole ==
    ASSUME RowInv, WholeInv, used'.early = 0, NEW d \in Doc, DeleteLock(d) \/ DeleteCommit(d)
    PROVE  WholeInv'
<1>1. CASE DeleteLock(d)
  <2>1. EarlyBy({d}) = 0
    <3>1. used'.early = used.early + EarlyBy({d})
      BY <1>1 DEF DeleteLock, RowInv, Types
    <3>2. used.early \in Nat
      BY DEF RowInv, Types
    <3> QED BY <3>1, <3>2, EarlyIsNat
  <2>2. doc[d].status # "pending"
    BY <2>1 DEF EarlyBy, Unconverged
  <2>3. \A e \in held' : doc'[e].status \notin {"pending", "absent", "deleted"}
    BY <1>1, <2>2 DEF DeleteLock, dbVars, WholeInv, HeldConverged
  <2>4. \A e \in Doc : doc[e].status = "deleted" => ~doc[e].cleanup /\ e \notin obj
    BY DEF WholeInv, RowsFresh, FilesHaveRows
  <2>5. WholeRows
    BY <1>1, <2>3, <2>4 DEF DeleteLock, dbVars, WholeRows
  <2> QED BY <2>5, WholeRowsKeep
<1>2. CASE DeleteCommit(d)
  <2> DEFINE S == {d}
  <2>1. doc' = [e \in Doc |-> IF e \in S THEN Staged(doc[e]) ELSE doc[e]]
    BY <1>2 DEF DeleteCommit, RowInv, Types
  <2>2. S \in SUBSET Doc /\ \A e \in S : doc[e].status \notin {"pending", "absent", "deleted"}
    BY <1>2 DEF DeleteCommit, WholeInv, HeldConverged
  <2>3. held' \subseteq held /\ UNCHANGED <<proc, request, obj>>
    BY <1>2 DEF DeleteCommit
  <2> HIDE DEF S
  <2> QED BY <2>1, <2>2, <2>3, StagingIsWhole
<1> QED BY <1>1, <1>2

\* The cleanup and the processing of a document.
LEMMA WorkKeepsWhole ==
    ASSUME RowInv, WholeInv, NEW d \in Doc, CleanUp(d) \/ CleanUpFails(d) \/ Process(d)
    PROVE  WholeInv'
<1>1. /\ doc[d].status \notin {"pending", "deleted"}
      /\ doc'[d].status \in {"processing", "completed", "failed", "deleting", "deleted"}
      /\ doc'[d].status = "deleted" => ~doc'[d].cleanup /\ d \notin obj'
      /\ doc'[d].error = 20011 => doc[d].error = 20011
      /\ \A e \in Doc \ {d} : doc'[e] = doc[e]
  BY WorkWrites DEF WholeInv, RowsFresh
<1>2. UNCHANGED <<proc, request, held>> /\ obj' \subseteq obj /\ d \notin held
  BY WorkWrites DEF Locked
<1>3. \A e \in Doc : doc'[e].status = "deleted" => ~doc'[e].cleanup /\ e \notin obj'
  BY <1>1, <1>2 DEF WholeInv, RowsFresh, FilesHaveRows
<1>4. \A e \in held' : doc'[e].status \notin {"pending", "absent", "deleted"}
  BY <1>1, <1>2 DEF WholeInv, HeldConverged, RowInv, Types
<1>5. WholeRows
  BY <1>1, <1>2, <1>3, <1>4 DEF WholeRows
<1> QED BY <1>5, WholeRowsKeep

\* DELETE of the knowledge base, unless it meets an upload half way, its retry,
\* and its convergence with an error.
LEMMA KbDeleteKeepsWhole ==
    ASSUME RowInv, WholeInv, used'.early = 0, KbDelete \/ KbRetry \/ KbConvergeFails
    PROVE  WholeInv'
<1>1. CASE KbDelete
  <2>1. EarlyBy(Deletable) = 0
    <3>1. used'.early = used.early + EarlyBy(Deletable)
      BY <1>1 DEF KbDelete, RowInv, Types
    <3>2. used.early \in Nat
      BY DEF RowInv, Types
    <3> QED BY <3>1, <3>2, EarlyIsNat
  <2>2. \A d \in Deletable : doc[d].status \notin {"pending", "absent", "deleted"}
    BY <2>1 DEF EarlyBy, Unconverged, Deletable
  <2>3. Deletable \in SUBSET Doc
    BY DEF Deletable
  <2>4. /\ doc' = [d \in Doc |-> IF d \in Deletable THEN Staged(doc[d]) ELSE doc[d]]
        /\ UNCHANGED <<proc, request, obj, held>>
    BY <1>1 DEF KbDelete
  <2> QED BY <2>2, <2>3, <2>4, StagingIsWhole
<1>2. CASE KbRetry
  <2> DEFINE S == {d \in Doc : CleanupFailed(d)}
  <2>1. \A d \in S : doc[d].status \notin {"pending", "absent", "deleted"}
    BY DEF CleanupFailed
  <2>2. /\ doc' = [d \in Doc |-> IF d \in S THEN Staged(doc[d]) ELSE doc[d]]
        /\ UNCHANGED <<proc, request, obj, held>>
    BY <1>2 DEF KbRetry
  <2>3. S \in SUBSET Doc
    OBVIOUS
  <2> HIDE DEF S
  <2> QED BY <2>1, <2>2, <2>3, StagingIsWhole
<1>3. CASE KbConvergeFails
  <2>1. UNCHANGED <<doc, request, obj, proc, held>>
    BY <1>3 DEF KbConvergeFails
  <2> QED BY <2>1 DEF WholeInv, AllOrNone, AllPending, RowsFresh, ServedWhole, RequestTells,
                      HeldConverged, FilesHaveRows
<1> QED BY <1>1, <1>2, <1>3

\* The rows go when nobody serves a batch, or one without documents.
LEMMA RemoveKeepsWhole ==
    ASSUME IInv, WholeInv, KbDeleteEmpty \/ KbConverge
    PROVE  WholeInv'
<1>1. \A d \in Doc : doc[d].status \in {"absent", "deleted"}
  BY DEF KbDeleteEmpty, KbConverge, Deletable
<1>2. held = {} /\ obj = {}
  BY <1>1 DEF WholeInv, HeldConverged, FilesHaveRows, IInv, RowInv, Types
<1>3. UNCHANGED <<proc, held, obj>> /\ RemoveAll
  BY DEF KbDeleteEmpty, KbConverge
<1>4. \A d \in Doc : doc'[d].status = "absent" /\ ~doc'[d].cleanup
  BY <1>3, NoRowIsRow DEF RemoveAll
<1>5. request'.status = "none" /\ request'.batch = NoBatch
  BY <1>3 DEF RemoveAll, NoRequest
<1>6. \A b \in Batch : \A d \in DocsOf[b] : d \in Doc
  OBVIOUS
<1>7. ServedWhole'
  <2> SUFFICES ASSUME NEW p \in Proc, proc[p].pc \in Serving
               PROVE  /\ \A d \in DocsOf[proc[p].batch] : doc'[d].status = "pending"
                      /\ NoBatch # proc[p].batch
                      /\ proc[p].pc # "coordinate" => /\ proc[p].docs = DocsOf[proc[p].batch]
                                                      /\ proc[p].todo \subseteq proc[p].docs
    BY <1>3, <1>5 DEF ServedWhole, AllPending
  <2>1. proc[p].batch \in Batch /\ \A d \in DocsOf[proc[p].batch] : doc[d].status = "pending"
    BY DEF IInv, RowInv, ProcsKnow, WholeInv, ServedWhole, AllPending
  <2>2. DocsOf[proc[p].batch] = {}
    BY <1>1, <1>6, <2>1
  <2> QED BY <2>1, <2>2 DEF WholeInv, ServedWhole
<1>8. AllOrNone' /\ RowsFresh' /\ RequestTells'
  BY <1>4, <1>5, <1>6 DEF AllOrNone, RowsFresh, RequestTells
<1>9. HeldConverged' /\ FilesHaveRows'
  BY <1>2, <1>3 DEF HeldConverged, FilesHaveRows
<1> QED BY <1>7, <1>8, <1>9 DEF WholeInv

-----------------------------------------------------------------------------
\* A step of one process keeps batches whole when that process finds its batch
\* pending, takes all of it and promotes no other file.
LEMMA ProcStepKeepsWhole ==
    ASSUME RowInv, WholeInv, NEW p \in Proc, ProcStep(p),
           proc'[p].pc \in Serving =>
             /\ AllPending(proc'[p].batch)
             /\ request.batch = proc'[p].batch => request.status = "coordinating"
             /\ proc'[p].pc # "coordinate" => /\ proc'[p].docs = DocsOf[proc'[p].batch]
                                              /\ proc'[p].todo \subseteq proc'[p].docs,
           \A d \in obj' \ obj : d \in Doc /\ doc[d].status = "pending"
    PROVE  WholeInv'
<1>1. UNCHANGED <<doc, request, held>> /\ \A q \in Proc \ {p} : proc'[q] = proc[q]
  BY DEF ProcStep
<1>2. AllOrNone' /\ RowsFresh' /\ RequestTells' /\ HeldConverged'
  BY <1>1 DEF WholeInv, AllOrNone, AllPending, RowsFresh, RequestTells, HeldConverged
<1>3. ServedWhole'
  BY <1>1 DEF WholeInv, ServedWhole, AllPending
<1>4. FilesHaveRows'
  BY <1>1 DEF WholeInv, FilesHaveRows
<1> QED BY <1>2, <1>3, <1>4 DEF WholeInv

\* A process that ends serves nothing.
LEMMA EndKeepsWhole ==
    ASSUME RowInv, WholeInv, NEW p \in Proc, ProcStep(p), End(p), obj' \subseteq obj
    PROVE  WholeInv'
<1>1. proc'[p].pc \notin Serving
  BY EndTyped DEF Serving
<1> QED BY <1>1, ProcStepKeepsWhole

\* An upload up to its commit, and the takeover of one.
LEMMA UploadKeepsWhole ==
    ASSUME RowInv, WholeInv, NEW b \in Batch,
           Check(b) \/ FindRequest(b) \/ TakeOver(b) \/ Store(b) \/ StoreFails(b) \/ PersistFails(b)
    PROVE  WholeInv'
<1>1. ProcStep(b) /\ b \in Proc /\ proc[b] \in ProcType
  BY UploadTyped DEF RowInv, Types
<1>2. CASE Check(b)
  <2>1. proc'[b].pc \notin Serving /\ obj' = obj
    BY <1>1, <1>2 DEF Check, RowInv, Types, Serving
  <2> QED BY <1>1, <2>1, ProcStepKeepsWhole
<1>3. CASE FindRequest(b)
  <2>1. obj' = obj
    BY <1>3 DEF FindRequest
  <2>2. CASE Go(b, "store")
    <3>1. proc'[b].pc \notin Serving
      BY <1>1, <2>2, GoTyped DEF Early, Serving
    <3> QED BY <1>1, <2>1, <3>1, ProcStepKeepsWhole
  <2>3. CASE End(b)
    BY <1>1, <2>1, <2>3, EndKeepsWhole
  <2> QED BY <1>3, <2>2, <2>3 DEF FindRequest
<1>4. CASE TakeOver(b)
  <2>1. /\ proc'[b].pc = "coordinate" /\ proc'[b].batch = request.batch
        /\ obj' = obj /\ request.status = "coordinating"
    BY <1>4 DEF TakeOver, Idle, RowInv, Types
  <2>2. AllPending(request.batch)
    BY <2>1 DEF WholeInv, RequestTells
  <2> QED BY <1>1, <2>1, <2>2, ProcStepKeepsWhole
<1>5. CASE Store(b)
  <2>1. proc'[b].pc = "persist" /\ obj' = obj
    BY <1>1, <1>5 DEF Store, RowInv, Types, ProcType
  <2> QED BY <1>1, <2>1, ProcStepKeepsWhole DEF Serving
<1>6. CASE StoreFails(b)
  BY <1>1, <1>6, EndKeepsWhole DEF StoreFails
<1>7. CASE PersistFails(b)
  BY <1>1, <1>7, EndKeepsWhole DEF PersistFails
<1> QED BY <1>2, <1>3, <1>4, <1>5, <1>6, <1>7

\* The scanner takes over a batch that is pending as a whole.
LEMMA ScanKeepsWhole ==
    ASSUME RowInv, WholeInv, NEW b \in Batch, Scan(b)
    PROVE  WholeInv'
<1>1. AllPending(b) /\ (request.batch = b => request.status = "coordinating") /\ obj' = obj
  BY DEF Scan, WholeInv, AllOrNone
<1> QED BY <1>1, ScanKeepsRows, ProcStepKeepsWhole

\* Nobody else has locked a document of a batch that is pending and served.
LEMMA NothingSkipped ==
    ASSUME IInv, WholeInv, NEW p \in Proc, proc[p].pc = "coordinate"
    PROVE  {d \in DocsOf[proc[p].batch] : Exists(d)} \ Locked = DocsOf[proc[p].batch]
<1>1. proc[p].batch \in Batch /\ AllPending(proc[p].batch)
  BY DEF IInv, RowInv, ProcsKnow, WholeInv, ServedWhole, Serving
<1> SUFFICES ASSUME NEW d \in DocsOf[proc[p].batch] PROVE Exists(d) /\ d \notin Locked
  OBVIOUS
<1>2. doc[d].status = "pending"
  BY <1>1 DEF AllPending
<1>3. d \notin held
  BY <1>2 DEF WholeInv, HeldConverged
<1>4. ASSUME NEW q \in Proc, d \in LockedBy(q) PROVE FALSE
  <2>1. proc[q].pc = "promote" /\ d \in proc[q].docs
    BY <1>4 DEF LockedBy
  <2>2. proc[q].batch \in Batch /\ d \in DocsOf[proc[q].batch]
    BY <2>1 DEF IInv, RowInv, CoordInv, Promoting, ProcsKnow, Serving
  <2>3. proc[q].batch = proc[p].batch
    BY <1>1, <2>2
  <2> QED BY <1>1, <2>1, <2>3 DEF IInv, CoordInv, Alone
<1> QED BY <1>2, <1>3, <1>4 DEF Exists, Locked

\* The coordinator up to its commit, and its death.
LEMMA CoordinatorKeepsWhole ==
    ASSUME IInv, WholeInv, NEW p \in Proc,
           \/ Coordinate(p) \/ PromoteFails(p) \/ CompensateFiles(p) \/ RequestIsStale(p) \/ Crash(p)
           \/ \E d \in Doc : Promote(p, d)
    PROVE  WholeInv'
<1>1. ProcStep(p) /\ RowInv
  BY CoordinatorTyped DEF IInv
<1>2. proc[p] \in ProcType
  BY DEF IInv, RowInv, Types
<1>3. proc[p].pc \in Serving =>
        /\ AllPending(proc[p].batch) /\ proc[p].batch \in Batch
        /\ request.batch = proc[p].batch => request.status = "coordinating"
        /\ proc[p].pc # "coordinate" => /\ proc[p].docs = DocsOf[proc[p].batch]
                                        /\ proc[p].todo \subseteq proc[p].docs
  BY <1>1 DEF WholeInv, ServedWhole, RowInv, ProcsKnow
<1>4. CASE Coordinate(p)
  <2> DEFINE D == {d \in DocsOf[proc[p].batch] : Exists(d)} \ Locked
  <2>1. proc[p].pc = "coordinate" /\ obj' = obj
    BY <1>4 DEF Coordinate
  <2>2. D = DocsOf[proc[p].batch]
    BY <2>1, NothingSkipped
  <2>3. CASE D = {}
    BY <1>1, <1>4, <2>1, <2>3, EndKeepsWhole DEF Coordinate
  <2>4. CASE D # {}
    <3>1. proc' = [proc EXCEPT ![p].pc = "promote", ![p].docs = D, ![p].todo = D]
      BY <1>4, <2>4 DEF Coordinate
    <3> HIDE DEF D
    <3>2. /\ proc'[p].pc = "promote" /\ proc'[p].docs = D /\ proc'[p].todo = D
          /\ proc'[p].batch = proc[p].batch
      BY <3>1, <1>2 DEF IInv, RowInv, Types, ProcType
    <3> QED BY <1>1, <1>3, <2>1, <2>2, <3>2, ProcStepKeepsWhole DEF Serving
  <2> QED BY <2>3, <2>4
<1>5. CASE PromoteFails(p)
  <2>1. proc[p].pc = "promote" /\ obj' = obj /\ proc'[p] = [proc[p] EXCEPT !.pc = "compensate"]
    BY <1>1, <1>5, GoTyped DEF PromoteFails, Serving
  <2>2. /\ proc'[p].pc = "compensate" /\ proc'[p].batch = proc[p].batch
        /\ proc'[p].docs = proc[p].docs /\ proc'[p].todo = proc[p].todo
    BY <1>2, <2>1 DEF ProcType
  <2> QED BY <1>1, <1>3, <2>1, <2>2, ProcStepKeepsWhole DEF Serving
<1>6. CASE CompensateFiles(p)
  <2>1. /\ proc[p].pc = "compensate" /\ proc'[p] = [proc[p] EXCEPT !.pc = "fail"]
        /\ obj' \subseteq obj
    BY <1>1, <1>6, GoTyped DEF CompensateFiles, Serving
  <2>2. /\ proc'[p].pc = "fail" /\ proc'[p].batch = proc[p].batch
        /\ proc'[p].docs = proc[p].docs /\ proc'[p].todo = proc[p].todo
    BY <1>2, <2>1 DEF ProcType
  <2> QED BY <1>1, <1>3, <2>1, <2>2, ProcStepKeepsWhole DEF Serving
<1>7. CASE RequestIsStale(p)
  BY <1>1, <1>7, EndKeepsWhole DEF RequestIsStale
<1>8. CASE Crash(p)
  BY <1>1, <1>8, EndKeepsWhole DEF Crash
<1>9. ASSUME NEW d \in Doc, Promote(p, d)
      PROVE  WholeInv'
  <2>1. /\ proc[p].pc = "promote" /\ obj' = obj \cup {d} /\ d \in proc[p].todo
        /\ proc'[p] = [proc[p] EXCEPT !.todo = proc[p].todo \ {d}]
    BY <1>1, <1>9 DEF Promote, RowInv, Types
  <2>2. /\ proc'[p].pc = "promote" /\ proc'[p].batch = proc[p].batch
        /\ proc'[p].docs = proc[p].docs /\ proc'[p].todo \subseteq proc[p].todo
    BY <1>2, <2>1 DEF ProcType
  <2>3. doc[d].status = "pending"
    BY <1>3, <2>1 DEF AllPending, Serving
  <2> QED BY <1>1, <1>3, <2>1, <2>2, <2>3, ProcStepKeepsWhole DEF Serving
<1> QED BY <1>4, <1>5, <1>6, <1>7, <1>8, <1>9

\* The commit of an upload: the whole batch is pending, and so is its request.
LEMMA PersistKeepsWhole ==
    ASSUME IInv, WholeInv, NEW b \in Batch, Persist(b)
    PROVE  WholeInv'
<1>1. /\ \A d \in DocsOf[b] : ~Exists(d)
      /\ request.batch # b
      /\ \A p \in Proc \ {b} : proc[p].batch # b
  BY PersistChanges DEF IInv, CoordInv, Uncommitted, Early
<1>2. UNCHANGED <<held, obj>>
      /\ \/ request' = request
         \/ request'.batch = b /\ request'.status = "coordinating"
  BY DEF Persist
<1>3. \A c \in Batch \ {b} : \A d \in DocsOf[c] : d \in Doc /\ doc'[d] = doc[d]
  <2> SUFFICES ASSUME NEW c \in Batch \ {b}, NEW d \in DocsOf[c]
               PROVE  d \in Doc \ DocsOf[b]
    BY PersistChanges DEF IInv
  <2> QED OBVIOUS
<1>4. AllPending(b)' /\ \A c \in Batch \ {b} : AllPending(c)' <=> AllPending(c)
  BY <1>3, PersistChanges DEF AllPending, IInv
<1>5. AllOrNone'
  BY <1>1, <1>2, <1>3, <1>4 DEF WholeInv, AllOrNone
<1>6. RowsFresh'
  <2> SUFFICES ASSUME NEW d \in Doc
               PROVE  /\ doc'[d].status = "pending" => doc'[d].error = 0
                      /\ doc'[d].cleanup => doc'[d].status \notin {"pending", "deleted"}
    BY DEF RowsFresh
  <2>1. CASE d \in DocsOf[b]
    BY <2>1, PersistChanges DEF IInv
  <2>2. CASE d \notin DocsOf[b]
    <3>1. doc'[d] = doc[d]
      BY <2>2, PersistChanges DEF IInv
    <3> QED BY <3>1 DEF WholeInv, RowsFresh
  <2> QED BY <2>1, <2>2
<1>7. ServedWhole'
  <2> SUFFICES ASSUME NEW p \in Proc, proc'[p].pc \in Serving
               PROVE  /\ \A d \in DocsOf[proc'[p].batch] : doc'[d].status = "pending"
                      /\ request'.batch = proc'[p].batch => request'.status = "coordinating"
                      /\ proc'[p].pc # "coordinate" => /\ proc'[p].docs = DocsOf[proc'[p].batch]
                                                       /\ proc'[p].todo \subseteq proc'[p].docs
    BY DEF ServedWhole, AllPending
  <2>1. CASE p = b
    <3>1. proc'[p].pc = "coordinate" /\ proc'[p].batch = b
      BY <2>1, PersistChanges DEF IInv
    <3>2. \A d \in DocsOf[b] : doc'[d].status = "pending"
      BY PersistChanges DEF IInv
    <3> QED BY <1>1, <1>2, <3>1, <3>2
  <2>2. CASE p # b
    <3>1. proc'[p] = proc[p]
      BY <2>2, PersistChanges DEF IInv
    <3>2. proc[p].batch \in Batch \ {b}
      BY <1>1, <2>2, <3>1 DEF IInv, RowInv, ProcsKnow
    <3> QED BY <1>2, <1>3, <3>1, <3>2 DEF WholeInv, ServedWhole, AllPending
  <2> QED BY <2>1, <2>2
<1>8. RequestTells'
  <2>1. CASE request' = request
    <3>1. request.status # "none" => request.batch \in Batch \ {b}
      BY <1>1 DEF IInv, RowInv, RequestOwned
    <3> QED BY <1>3, <1>4, <2>1, <3>1 DEF WholeInv, RequestTells
  <2>2. CASE request'.batch = b /\ request'.status = "coordinating"
    BY <1>4, <2>2 DEF RequestTells
  <2> QED BY <1>2, <2>1, <2>2
<1>9. HeldConverged' /\ FilesHaveRows'
  <2>1. ASSUME NEW d \in Doc, Exists(d) PROVE doc'[d] = doc[d]
    BY <1>1, <2>1, PersistChanges DEF IInv
  <2> QED BY <1>2, <2>1 DEF WholeInv, HeldConverged, FilesHaveRows, Exists, IInv, RowInv, Types
<1> QED BY <1>5, <1>6, <1>7, <1>8, <1>9 DEF WholeInv

\* A coordinator that ends its batch lets go of all of it.
LEMMA EndedKeepsWhole ==
    ASSUME IInv, WholeInv, NEW p \in Proc, proc[p].pc \in Serving,
           NEW status \in {"accepted", "failed"}, Ended(p, status), obj' = obj,
           \A d \in DocsOf[proc[p].batch] :
             /\ doc'[d].status \in {"queued", "failed"}
             /\ status = "accepted" => doc'[d].error # 20011,
           \A d \in Doc \ DocsOf[proc[p].batch] : doc'[d] = doc[d]
    PROVE  WholeInv'
<1> DEFINE b == proc[p].batch
<1>1. /\ b \in Batch /\ \A d \in DocsOf[b] : doc[d].status = "pending"
      /\ request.batch = b => request.status = "coordinating"
  BY DEF IInv, RowInv, ProcsKnow, WholeInv, ServedWhole, AllPending
<1>2. /\ \A q \in Proc \ {p} : proc'[q] = proc[q] /\ proc[q].batch # b
      /\ proc'[p].pc \notin Serving
  BY <1>1, EndTyped DEF Ended, IInv, CoordInv, Alone, Serving
<1>3. \A c \in Batch \ {b} : \A d \in DocsOf[c] : d \in Doc /\ doc'[d] = doc[d]
  <2> SUFFICES ASSUME NEW c \in Batch \ {b}, NEW d \in DocsOf[c]
               PROVE  d \in Doc \ DocsOf[b]
    OBVIOUS
  <2> QED BY <1>1
<1>4. /\ request'.batch = request.batch
      /\ request.batch = b => request'.status = status
      /\ request.batch # b => request' = request
  <2>1. CASE proc[p].req
    BY <2>1 DEF Ended, RequestLives, IInv, RowInv, Types, Request
  <2>2. CASE ~proc[p].req
    BY <2>2 DEF Ended, IInv, CoordInv, RequestLoaded
  <2> QED BY <2>1, <2>2
<1>5. /\ \A d \in DocsOf[b] : doc'[d].status \in {"queued", "failed"}
      /\ status = "accepted" => \A d \in DocsOf[b] : doc'[d].error # 20011
      /\ \A d \in Doc \ DocsOf[b] : doc'[d] = doc[d]
      /\ UNCHANGED <<held, obj>>
  BY DEF Ended
<1> HIDE DEF b
<1>6. \A c \in Batch \ {b} : AllPending(c)' <=> AllPending(c)
  BY <1>3 DEF AllPending
<1>7. AllOrNone'
  <2> SUFFICES ASSUME NEW c \in Batch, NEW d \in DocsOf[c], doc'[d].status = "pending"
               PROVE  AllPending(c)' /\ (request'.batch = c => request'.status = "coordinating")
    BY DEF AllOrNone
  <2>1. c # b
    BY <1>5
  <2> QED BY <1>3, <1>4, <1>6, <2>1 DEF WholeInv, AllOrNone
<1>8. RowsFresh'
  <2> SUFFICES ASSUME NEW d \in Doc
               PROVE  /\ doc'[d].status = "pending" => doc'[d].error = 0
                      /\ doc'[d].cleanup => doc'[d].status \notin {"pending", "deleted"}
    BY DEF RowsFresh
  <2>1. CASE d \in DocsOf[b]
    BY <1>5, <2>1
  <2>2. CASE d \notin DocsOf[b]
    <3>1. doc'[d] = doc[d]
      BY <1>5, <2>2
    <3> QED BY <3>1 DEF WholeInv, RowsFresh
  <2> QED BY <2>1, <2>2
<1>9. ServedWhole'
  <2> SUFFICES ASSUME NEW q \in Proc, proc'[q].pc \in Serving
               PROVE  /\ \A d \in DocsOf[proc'[q].batch] : doc'[d].status = "pending"
                      /\ request'.batch = proc'[q].batch => request'.status = "coordinating"
                      /\ proc'[q].pc # "coordinate" => /\ proc'[q].docs = DocsOf[proc'[q].batch]
                                                       /\ proc'[q].todo \subseteq proc'[q].docs
    BY DEF ServedWhole, AllPending
  <2>1. q # p /\ proc'[q] = proc[q]
    BY <1>2
  <2>2. proc[q].batch \in Batch \ {b}
    BY <1>2, <2>1 DEF IInv, RowInv, ProcsKnow
  <2> QED BY <1>3, <1>4, <2>1, <2>2 DEF WholeInv, ServedWhole, AllPending
<1>10. RequestTells'
  <2>1. CASE request.batch = b
    BY <1>4, <1>5, <2>1 DEF RequestTells
  <2>2. CASE request.batch # b
    <3>1. request.status # "none" => request.batch \in Batch \ {b}
      BY <2>2 DEF IInv, RowInv, RequestOwned
    <3> QED BY <1>3, <1>4, <1>6, <2>2, <3>1 DEF WholeInv, RequestTells
  <2> QED BY <2>1, <2>2
<1>11. HeldConverged' /\ FilesHaveRows'
  <2>1. ASSUME NEW d \in Doc
        PROVE  doc'[d] = doc[d] \/ (doc[d].status = "pending" /\ doc'[d].status \in {"queued", "failed"})
    BY <1>1, <1>5
  <2> QED BY <1>5, <2>1 DEF WholeInv, HeldConverged, FilesHaveRows, IInv, RowInv, Types
<1> QED BY <1>7, <1>8, <1>9, <1>10, <1>11 DEF WholeInv

\* The whole batch is queued.
LEMMA MarkQueuedKeepsWhole ==
    ASSUME IInv, WholeInv, NEW p \in Proc, MarkQueued(p)
    PROVE  WholeInv'
<1> DEFINE Q(r) == [r EXCEPT !.status = "queued", !.task = "queued"]
<1>1. /\ proc[p].pc = "promote" /\ obj' = obj
      /\ doc' = [d \in Doc |-> IF d \in proc[p].docs /\ doc[d].status = "pending"
                               THEN Q(doc[d]) ELSE doc[d]]
  BY Zenon DEF MarkQueued
<1>2. /\ proc[p].batch \in Batch /\ proc[p].docs = DocsOf[proc[p].batch]
      /\ \A d \in DocsOf[proc[p].batch] : d \in Doc /\ doc[d].status = "pending"
  BY <1>1 DEF IInv, RowInv, ProcsKnow, WholeInv, ServedWhole, AllPending, Serving
<1>3. ASSUME NEW r \in Row PROVE Q(r).status = "queued" /\ Q(r).error = r.error
  BY <1>3, MovedRow
<1> HIDE DEF Q
<1>4. \A d \in DocsOf[proc[p].batch] : doc'[d].status = "queued" /\ doc'[d].error # 20011
  <2> SUFFICES ASSUME NEW d \in DocsOf[proc[p].batch]
               PROVE  doc'[d].status = "queued" /\ doc'[d].error # 20011
    OBVIOUS
  <2>1. doc'[d] = Q(doc[d]) /\ doc[d] \in Row /\ doc[d].error = 0
    BY <1>1, <1>2 DEF IInv, RowInv, Types, WholeInv, RowsFresh
  <2> QED BY <1>3, <2>1
<1>5. \A d \in Doc \ DocsOf[proc[p].batch] : doc'[d] = doc[d]
  BY <1>1, <1>2
<1>6. Ended(p, "accepted") /\ proc[p].pc \in Serving
  BY <1>1, MarkQueuedEnds DEF IInv, Serving
<1> QED BY <1>1, <1>4, <1>5, <1>6, EndedKeepsWhole

\* The whole batch is failed.
LEMMA CompensateRowsKeepsWhole ==
    ASSUME IInv, WholeInv, NEW p \in Proc, CompensateRows(p)
    PROVE  WholeInv'
<1>1. /\ proc[p].pc = "fail" /\ obj' = obj
      /\ doc' = [d \in Doc |-> IF d \in proc[p].docs /\ Exists(d)
                               THEN [status |-> "failed", error |-> 20011, task |-> "failed",
                                     cleanup |-> doc[d].cleanup]
                               ELSE doc[d]]
  BY DEF CompensateRows
<1>2. /\ proc[p].batch \in Batch /\ proc[p].docs = DocsOf[proc[p].batch]
      /\ \A d \in DocsOf[proc[p].batch] : d \in Doc /\ Exists(d)
  BY <1>1 DEF IInv, RowInv, ProcsKnow, WholeInv, ServedWhole, AllPending, Serving, Exists
<1>3. /\ \A d \in DocsOf[proc[p].batch] : doc'[d].status = "failed"
      /\ \A d \in Doc \ DocsOf[proc[p].batch] : doc'[d] = doc[d]
  BY <1>1, <1>2
<1>4. Ended(p, "failed") /\ proc[p].pc \in Serving
  BY <1>1, CompensateRowsEnds DEF IInv, Serving
<1> QED BY <1>1, <1>3, <1>4, EndedKeepsWhole

\* The request grows old and is removed.
LEMMA ExpiryKeepsWhole ==
    ASSUME RowInv, WholeInv, RequestExpires \/ RemoveExpired
    PROVE  WholeInv'
<1>1. /\ RowInv' /\ UNCHANGED <<doc, obj, proc, held>>
      /\ request'.batch = NoBatch \/ (request'.batch = request.batch /\ request'.status = request.status)
  BY ExpiryKeepsRows
<1>2. request'.batch = NoBatch => request'.status = "none"
  BY <1>1 DEF RowInv, RequestOwned
<1>3. \A p \in Proc : proc[p].pc \in Serving => proc[p].batch # NoBatch
  BY DEF RowInv, ProcsKnow
<1>4. AllOrNone' /\ RowsFresh' /\ RequestTells' /\ HeldConverged' /\ FilesHaveRows'
  BY <1>1, <1>2 DEF WholeInv, AllOrNone, AllPending, RowsFresh, RequestTells, HeldConverged, FilesHaveRows
<1>5. ServedWhole'
  BY <1>1, <1>3 DEF WholeInv, ServedWhole, AllPending
<1> QED BY <1>4, <1>5 DEF WholeInv

\* Batches stay whole as long as no DELETE meets one half way.
WholeUnlessEarly == used.early = 0 => WholeInv

LEMMA NextKeepsWhole == Prompt /\ IInv /\ WholeUnlessEarly /\ [Next]_vars => WholeUnlessEarly'
<1> SUFFICES ASSUME Prompt, IInv, WholeUnlessEarly, [Next]_vars, used'.early = 0
             PROVE  WholeInv'
  BY DEF WholeUnlessEarly
<1>1. WholeInv /\ RowInv
  BY EarlyStays DEF WholeUnlessEarly, IInv, RowInv
<1>2. ASSUME NEW b \in Batch, Check(b) \/ UploadStep(b)
      PROVE  WholeInv'
  BY <1>1, <1>2, UploadKeepsWhole, PersistKeepsWhole DEF UploadStep
<1>3. ASSUME NEW b \in Batch, Scan(b)
      PROVE  WholeInv'
  BY <1>1, <1>3, ScanKeepsWhole
<1>4. ASSUME NEW p \in Proc, CoordinatorStep(p) \/ Crash(p)
      PROVE  WholeInv'
  BY <1>1, <1>4, CoordinatorKeepsWhole, MarkQueuedKeepsWhole, CompensateRowsKeepsWhole
     DEF CoordinatorStep
<1>5. CASE RequestExpires \/ RemoveExpired
  BY <1>1, <1>5, ExpiryKeepsWhole
<1>6. ASSUME NEW d \in Doc, \/ DeleteLock(d) \/ DeleteCommit(d)
                            \/ CleanUp(d) \/ CleanUpFails(d) \/ Process(d)
      PROVE  WholeInv'
  BY <1>1, <1>6, DeleteKeepsWhole, WorkKeepsWhole
<1>7. CASE KbDelete \/ KbRetry \/ KbConvergeFails
  BY <1>1, <1>7, KbDeleteKeepsWhole
<1>8. CASE KbDeleteEmpty \/ KbConverge
  BY <1>1, <1>8, RemoveKeepsWhole
<1>9. CASE UNCHANGED vars
  BY <1>1, <1>9 DEF vars, WholeInv, AllOrNone, AllPending, RowsFresh, ServedWhole, RequestTells,
                    HeldConverged, FilesHaveRows
<1> QED BY <1>2, <1>3, <1>4, <1>5, <1>6, <1>7, <1>8, <1>9 DEF Next

-----------------------------------------------------------------------------
(* The other kind of run: DELETEs meet uploads half way, but nobody dies and *)
(* no I/O fails.  Then a batch is tended by the request that uploaded it     *)
(* until the batch converges, which finds every file it looks for.           *)
Quiet == used.crashes + used.faults = 0

\* The uploader serves its own batch and will find its request.
Tends(b) ==
    /\ proc[b].batch = b /\ proc[b].pc \in {"coordinate", "promote"}
    /\ proc[b].req => request.batch = b /\ ~request.expired

\* Somebody promotes the files of the batch, or will.
Coordinated(b) ==
    \/ \E p \in Proc : proc[p].batch = b /\ proc[p].pc \in {"coordinate", "promote"}
    \/ request.batch = b /\ request.status = "coordinating"

\* Nothing is compensated.
NothingFails ==
    /\ \A p \in Proc : proc[p].pc \notin {"compensate", "fail"}
    /\ \A d \in Doc : doc[d].error # 20011
    /\ request.status # "failed"

\* A DELETE holds a row it may stage.
HeldLive == \A d \in held : doc[d].status \notin {"absent", "deleted"}

\* What is pending is about to be queued or deleted: the scanner finds nothing.
Tended ==
    \A b \in Batch : \A d \in DocsOf[b] : doc[d].status = "pending" => d \in held \/ Tends(b)

\* A coordinator promotes the files of rows that are there.
Taken ==
    \A p \in Proc : proc[p].pc = "promote" =>
        proc[p].todo \subseteq proc[p].docs /\ \A d \in proc[p].docs : Exists(d)

\* A coordinator has promoted the file and not committed yet.
Promoted(d) == \E p \in Proc : proc[p].pc = "promote" /\ d \in proc[p].docs \ proc[p].todo

\* The files of an upload wait in tmp for the promotion.
FilesKept ==
    /\ \A b \in Batch : proc[b].pc = "persist" => DocsOf[b] \subseteq tmp
    /\ \A b \in Batch : Coordinated(b) =>
          \A d \in DocsOf[b] : Exists(d) => d \in tmp \/ Promoted(d)

\* A request is accepted by the last one who serves its batch.
AcceptedDone == request.status = "accepted" => \A p \in Proc : proc[p].batch # request.batch

SmoothInv == NothingFails /\ HeldLive /\ Tended /\ Taken /\ FilesKept /\ AcceptedDone

\* Nobody serves anything at first.
LEMMA InitIsSmooth == Init => SmoothInv
<1> SUFFICES ASSUME Init PROVE SmoothInv
  OBVIOUS
<1>1. \A d \in Doc : doc[d].status # "pending" /\ doc[d].error = 0
  BY DEF Init, NoRow
<1>2. /\ request.status = "none" /\ request.batch = NoBatch /\ held = {}
      /\ \A p \in Proc : proc[p].pc = "idle"
  BY DEF Init, NoRequest, Idle
<1>3. \A b \in Batch : b \in Proc /\ b # NoBatch /\ \A d \in DocsOf[b] : d \in Doc
  OBVIOUS
<1>4. \A b \in Batch : ~Coordinated(b)
  BY <1>2, <1>3 DEF Coordinated
<1>5. NothingFails /\ HeldLive /\ Taken /\ AcceptedDone
  BY <1>1, <1>2 DEF NothingFails, HeldLive, Taken, AcceptedDone
<1>6. Tended /\ FilesKept
  BY <1>1, <1>2, <1>3, <1>4 DEF Tended, FilesKept
<1> QED BY <1>5, <1>6 DEF SmoothInv

\* Deaths and I/O errors are counted.
LEMMA TroubleIsCounted ==
    ASSUME Types, NEW b \in {"crashes", "faults"}, NEW max, Spend(b, max)
    PROVE  ~Quiet'
<1>1. used.crashes \in Nat /\ used.faults \in Nat
  BY DEF Types
<1>2. CASE b = "crashes"
  BY <1>1, <1>2 DEF Spend, Quiet, Types
<1>3. CASE b = "faults"
  BY <1>1, <1>3 DEF Spend, Quiet, Types
<1> QED BY <1>2, <1>3

\* Also those that leave files behind.
LEMMA FaultIsCounted ==
    ASSUME Types, NEW left, Leave(left, 1)
    PROVE  ~Quiet'
<1>1. used.crashes \in Nat /\ used.faults \in Nat
  BY DEF Types
<1>2. used'.crashes = used.crashes /\ used'.faults = used.faults + 1
  BY LeaveTyped
<1> QED BY <1>1, <1>2 DEF Quiet

\* They are not taken back.
LEMMA QuietBefore == Types /\ [Next]_vars => (Quiet' => Quiet)
<1> DEFINE Same == used'.crashes = used.crashes /\ used'.faults = used.faults
<1> SUFFICES ASSUME Types, [Next]_vars, Quiet' PROVE Same
  BY DEF Quiet
<1>1. ASSUME NEW b \in {"crashes", "faults"}, NEW max, Spend(b, max)
      PROVE  FALSE
  BY <1>1, TroubleIsCounted
<1>L. ASSUME NEW left, NEW fault \in {0, 1}, Leave(left, fault)
      PROVE  Same
  BY <1>L, LeaveTyped DEF Quiet, Types
<1>2. ASSUME NEW b \in Batch, Check(b) \/ UploadStep(b) \/ Scan(b)
      PROVE  Same
  <2>1. CASE StoreFails(b) \/ PersistFails(b)
    <3>1. PICK left \in SUBSET DocsOf[b], fault \in {0, 1} : Leave(left, fault)
      BY <2>1 DEF StoreFails, PersistFails
    <3> QED BY <1>L, <3>1
  <2>2. CASE ~(StoreFails(b) \/ PersistFails(b))
    BY <1>2, <2>2 DEF Check, UploadStep, FindRequest, TakeOver, Store, Persist, Scan
  <2> QED BY <2>1, <2>2
<1>3. ASSUME NEW p \in Proc, CoordinatorStep(p) \/ Crash(p)
      PROVE  Same
  <2>1. CASE Coordinate(p)
    BY <2>1, Zenon DEF Coordinate
  <2>2. CASE PromoteFails(p)
    BY <1>1, <2>2 DEF PromoteFails
  <2>3. CASE Crash(p)
    BY <2>3, CrashTyped DEF Quiet, Types
  <2>4. CASE MarkQueued(p)
    <3>1. UNCHANGED <<kb, tmp, obj, held, used>>
      BY <2>4, Zenon DEF MarkQueued
    <3> QED BY <3>1
  <2>5. CASE CompensateRows(p)
    BY <2>5 DEF CompensateRows
  <2>6. CASE RequestIsStale(p) \/ \E d \in Doc : Promote(p, d)
    BY <2>6, Zenon DEF RequestIsStale, Promote
  <2>7. CASE CompensateFiles(p)
    <3>1. PICK left \in SUBSET DocsOf[proc[p].batch], fault \in {0, 1} : Leave(left, fault)
      BY <2>7 DEF CompensateFiles
    <3> QED BY <1>L, <3>1
  <2> QED BY <1>3, <2>1, <2>2, <2>3, <2>4, <2>5, <2>6, <2>7 DEF CoordinatorStep
<1>4. CASE RequestExpires \/ RemoveExpired
  BY <1>4 DEF RequestExpires, RemoveExpired, Types
<1>5. ASSUME NEW d \in Doc, \/ DeleteLock(d) \/ DeleteCommit(d)
                            \/ CleanUp(d) \/ CleanUpFails(d) \/ Process(d)
      PROVE  Same
  <2>1. CASE DeleteLock(d)
    BY <2>1 DEF DeleteLock, Types
  <2>2. CASE CleanUpFails(d)
    BY <1>1, <2>2 DEF CleanUpFails
  <2>3. CASE DeleteCommit(d) \/ CleanUp(d)
    BY <2>3 DEF DeleteCommit, CleanUp
  <2>4. CASE Process(d)
    BY <2>4, ProcessLeaves
  <2> QED BY <1>5, <2>1, <2>2, <2>3, <2>4
<1>6. CASE KbDelete \/ KbRetry
  BY <1>6 DEF KbDelete, KbRetry, Spend, Types
<1>7. CASE KbDeleteEmpty \/ KbConvergeFails \/ KbConverge \/ UNCHANGED vars
  BY <1>7 DEF KbDeleteEmpty, KbConvergeFails, KbConverge, vars
<1> QED BY <1>2, <1>3, <1>4, <1>5, <1>6, <1>7 DEF Next

-----------------------------------------------------------------------------
(* A step of the users, the pipeline or the scanner that fails nothing. *)
SmoothRows ==
    /\ RowsStep /\ tmp' = tmp
    /\ \A d \in Doc : doc'[d].error = 20011 => doc[d].error = 20011
    /\ \A d \in held' : doc'[d].status \notin {"absent", "deleted"}

\* Such a step makes nothing pending and leaves the coordinators to their work.
LEMMA SmoothRowsKeep ==
    ASSUME IInv, SmoothInv, SmoothRows
    PROVE  SmoothInv'
<1>1. /\ UNCHANGED <<proc, request, tmp>>
      /\ \A d \in Doc : Exists(d)' <=> Exists(d)
      /\ \A d \in Doc : doc'[d].status = "pending" =>
            doc[d].status = "pending" /\ (d \in held => d \in held')
  BY DEF SmoothRows, RowsStep
<1>2. \A b \in Batch : \A d \in DocsOf[b] : d \in Doc
  OBVIOUS
<1>3. NothingFails' /\ HeldLive'
  BY <1>1 DEF SmoothRows, SmoothInv, NothingFails, HeldLive
<1>4. Tended'
  BY <1>1, <1>2 DEF SmoothInv, Tended, Tends
<1>5. Taken'
  <2>1. \A p \in Proc : proc[p].docs \subseteq Doc
    BY DEF IInv, RowInv, Types, ProcType
  <2> QED BY <1>1, <2>1 DEF SmoothInv, Taken
<1>6. FilesKept'
  BY <1>1, <1>2 DEF SmoothInv, FilesKept, Coordinated, Promoted
<1>7. AcceptedDone'
  BY <1>1 DEF SmoothInv, AcceptedDone
<1> QED BY <1>3, <1>4, <1>5, <1>6, <1>7 DEF SmoothInv

\* What a deletion writes is no failed upload.
LEMMA StagedIsLive ==
    ASSUME NEW r \in Row
    PROVE  /\ Staged(r).status \in {"failed", "deleting"}
           /\ Staged(r).error = 20011 => r.error = 20011
BY DEF Staged, Row

\* DELETE of a document is such a step, early or not.
LEMMA DeleteKeepsSmooth ==
    ASSUME IInv, SmoothInv, NEW d \in Doc, DeleteLock(d) \/ DeleteCommit(d)
    PROVE  SmoothInv'
<1>1. RowsStep
  BY DeleteChangesRows DEF IInv
<1>2. CASE DeleteLock(d)
  <2>1. doc' = doc /\ tmp' = tmp /\ held' = held \cup {d} /\ doc[d].status \notin {"absent", "deleted"}
    BY <1>2 DEF DeleteLock, dbVars
  <2>2. SmoothRows
    BY <1>1, <2>1 DEF SmoothRows, SmoothInv, HeldLive
  <2> QED BY <2>2, SmoothRowsKeep
<1>3. CASE DeleteCommit(d)
  <2>1. doc' = [doc EXCEPT ![d] = Staged(doc[d])] /\ tmp' = tmp /\ held' = held \ {d}
    BY <1>3 DEF DeleteCommit
  <2>2. doc \in [Doc -> Row] /\ held \subseteq Doc
    BY DEF IInv, RowInv, Types
  <2>3. doc'[d].error = 20011 => doc[d].error = 20011
    BY <2>1, <2>2, StagedIsLive
  <2>4. \A e \in Doc \ {d} : doc'[e] = doc[e]
    BY <2>1, <2>2
  <2>5. SmoothRows
    BY <1>1, <2>1, <2>2, <2>3, <2>4 DEF SmoothRows, SmoothInv, HeldLive
  <2> QED BY <2>5, SmoothRowsKeep
<1> QED BY <1>2, <1>3

\* So are the cleanup of a document nobody holds, and its processing.
LEMMA WorkKeepsSmooth ==
    ASSUME IInv, SmoothInv, NEW d \in Doc, CleanUp(d) \/ Process(d)
    PROVE  SmoothInv'
<1>1. RowsStep
  BY WorkChangesRows DEF IInv
<1>2. /\ doc'[d].error # 20011 \/ doc'[d].error = doc[d].error
      /\ \A e \in Doc \ {d} : doc'[e] = doc[e]
  BY WorkWrites DEF IInv
<1>3. tmp' = tmp /\ held' = held /\ d \notin held /\ held \subseteq Doc
  BY WorkWrites DEF Locked, IInv, RowInv, Types
<1>4. SmoothRows
  BY <1>1, <1>2, <1>3 DEF SmoothRows, SmoothInv, HeldLive
<1> QED BY <1>4, SmoothRowsKeep

\* So are the steps of the deletion of the knowledge base that keep its rows.
LEMMA KbDeleteKeepsSmooth ==
    ASSUME IInv, SmoothInv, KbDelete \/ KbRetry \/ KbConvergeFails
    PROVE  SmoothInv'
<1>1. RowsStep
  BY KbDeleteChangesRows DEF IInv
<1>2. /\ tmp' = tmp /\ held' = held
      /\ \A d \in Doc : doc'[d] \in {doc[d], Staged(doc[d])}
  BY DEF KbDelete, KbRetry, KbConvergeFails
<1>3. doc \in [Doc -> Row] /\ held \subseteq Doc
  BY DEF IInv, RowInv, Types
<1>4. ASSUME NEW d \in Doc
      PROVE  /\ doc'[d].error = 20011 => doc[d].error = 20011
             /\ doc'[d].status = doc[d].status \/ doc'[d].status \in {"failed", "deleting"}
  BY <1>2, <1>3, StagedIsLive
<1>5. \A d \in held' : doc'[d].status \notin {"absent", "deleted"}
  BY <1>2, <1>3, <1>4 DEF SmoothInv, HeldLive
<1>6. SmoothRows
  BY <1>1, <1>2, <1>4, <1>5 DEF SmoothRows
<1> QED BY <1>6, SmoothRowsKeep

\* The rows go when no coordinator holds one.
LEMMA RemoveKeepsSmooth ==
    ASSUME IInv, SmoothInv, KbDeleteEmpty \/ KbConverge
    PROVE  SmoothInv'
<1>1. /\ RemoveAll /\ UNCHANGED <<tmp, obj, proc, held, used>>
      /\ {d \in Doc : Exists(d)} \cap Locked = {}
  BY DEF KbDeleteEmpty, KbConverge
<1>2. \A d \in Doc : doc'[d].status = "absent" /\ doc'[d].error = 0 /\ ~Exists(d)'
  BY <1>1, NoRowIsRow DEF RemoveAll, Exists
<1>3. request'.batch = NoBatch /\ request'.status = "none"
  BY <1>1 DEF RemoveAll, NoRequest
<1>4. \A b \in Batch : b # NoBatch /\ \A d \in DocsOf[b] : d \in Doc
  OBVIOUS
<1>5. held = {}
  BY <1>1 DEF IInv, RowInv, RowsExist, Types, Locked
<1>6. ASSUME NEW p \in Proc, proc[p].pc = "promote" PROVE proc[p].docs = {}
  <2>1. proc[p].docs \subseteq Doc /\ proc[p].docs \subseteq Locked
    BY <1>6 DEF Locked, LockedBy, IInv, RowInv, Types, ProcType
  <2>2. \A d \in proc[p].docs : Exists(d)
    BY <1>6 DEF SmoothInv, Taken
  <2> QED BY <1>1, <2>1, <2>2
<1>7. NothingFails' /\ HeldLive' /\ AcceptedDone'
  BY <1>1, <1>2, <1>3, <1>5 DEF SmoothInv, NothingFails, HeldLive, AcceptedDone
<1>8. Taken'
  BY <1>1, <1>6 DEF SmoothInv, Taken
<1>9. Tended' /\ FilesKept'
  BY <1>1, <1>2, <1>4 DEF SmoothInv, Tended, FilesKept
<1> QED BY <1>7, <1>8, <1>9 DEF SmoothInv

-----------------------------------------------------------------------------
\* A step of p that touches no file: no batch gets a coordinator it did not
\* have, and p does not leave a promotion half way.
LEMMA FilesStay ==
    ASSUME IInv, FilesKept, NEW p \in Proc, ProcStep(p), tmp' = tmp, proc'[p].pc # "persist",
           \A b \in Batch : Coordinated(b)' => Coordinated(b),
           proc[p].pc = "promote" => \A b \in Batch : Coordinated(b)' => proc[p].batch # b
    PROVE  FilesKept'
<1>1. \A b \in Batch : b \in Proc
  OBVIOUS
<1>2. \A b \in Batch : proc'[b].pc = "persist" => DocsOf[b] \subseteq tmp'
  BY <1>1 DEF FilesKept, ProcStep
<1>3. ASSUME NEW b \in Batch, Coordinated(b)', NEW d \in DocsOf[b], Exists(d)'
      PROVE  d \in tmp' \/ Promoted(d)'
  <2>1. Coordinated(b) /\ Exists(d)
    BY <1>3 DEF ProcStep, Exists
  <2>2. CASE d \in tmp
    BY <2>2
  <2>3. CASE d \notin tmp
    <3>1. PICK q \in Proc : proc[q].pc = "promote" /\ d \in proc[q].docs \ proc[q].todo
      BY <2>1, <2>3 DEF FilesKept, Promoted
    <3>2. CASE q = p
      <4>1. proc[p].batch \in Batch /\ proc[p].docs \subseteq DocsOf[proc[p].batch]
        BY <3>1, <3>2 DEF IInv, RowInv, CoordInv, Promoting, ProcsKnow, Serving
      <4>2. proc[p].batch = b
        BY <3>1, <3>2, <4>1
      <4> QED BY <1>3, <3>1, <3>2, <4>2
    <3>3. CASE q # p
      BY <3>1, <3>3 DEF Promoted, ProcStep
    <3> QED BY <3>2, <3>3
  <2> QED BY <2>2, <2>3
<1> QED BY <1>2, <1>3 DEF FilesKept

\* What the step of p has to see to.
SmoothStep(p) ==
    /\ proc'[p].pc \notin {"compensate", "fail"}
    /\ p \in Batch /\ Tends(p) =>
         Tends(p)' \/ \A d \in DocsOf[p] : doc[d].status = "pending" => d \in held
    /\ proc'[p].pc = "promote" =>
         proc'[p].todo \subseteq proc'[p].docs /\ \A d \in proc'[p].docs : Exists(d)
    /\ request.status = "accepted" => proc'[p].batch # request.batch

\* The step of a coordinator keeps its promises when its files are kept.
LEMMA ProcStepKeepsSmooth ==
    ASSUME IInv, SmoothInv, NEW p \in Proc, ProcStep(p), SmoothStep(p), FilesKept'
    PROVE  SmoothInv'
<1>1. UNCHANGED <<doc, request, held>> /\ \A q \in Proc \ {p} : proc'[q] = proc[q]
  BY DEF ProcStep
<1>2. NothingFails' /\ HeldLive'
  BY <1>1 DEF SmoothInv, NothingFails, HeldLive, SmoothStep
<1>3. Tended'
  <2> SUFFICES ASSUME NEW b \in Batch, NEW d \in DocsOf[b], doc[d].status = "pending", d \notin held
               PROVE  Tends(b)'
    BY <1>1 DEF Tended
  <2>1. Tends(b)
    BY DEF SmoothInv, Tended
  <2>2. CASE b = p
    BY <2>1, <2>2 DEF SmoothStep
  <2>3. CASE b # p
    BY <1>1, <2>1, <2>3 DEF Tends
  <2> QED BY <2>2, <2>3
<1>4. Taken'
  BY <1>1 DEF SmoothInv, Taken, SmoothStep, Exists
<1>5. AcceptedDone'
  BY <1>1 DEF SmoothInv, AcceptedDone, SmoothStep
<1> QED BY <1>2, <1>3, <1>4, <1>5 DEF SmoothInv

\* A process that ends leaves no pending document of its own behind.
LEMMA EndKeepsSmooth ==
    ASSUME IInv, SmoothInv, NEW p \in Proc, ProcStep(p), End(p), FilesKept',
           p \in Batch => ~Tends(p) \/ \A d \in DocsOf[p] : doc[d].status = "pending" => d \in held
    PROVE  SmoothInv'
<1>1. proc'[p].pc \in {"idle", "done"} /\ proc'[p].batch = NoBatch
  BY EndTyped DEF IInv
<1>2. request.status = "accepted" => request.batch # NoBatch
  BY DEF IInv, RowInv, RequestOwned
<1>3. SmoothStep(p)
  BY <1>1, <1>2 DEF SmoothStep
<1> QED BY <1>3, ProcStepKeepsSmooth

\* The steps of an upload before its rows are committed.
LEMMA UploadKeepsSmooth ==
    ASSUME IInv, SmoothInv, Quiet', NEW b \in Batch,
           Check(b) \/ FindRequest(b) \/ TakeOver(b) \/ Store(b) \/ StoreFails(b) \/ PersistFails(b)
    PROVE  SmoothInv'
<1>1. ProcStep(b) /\ b \in Proc /\ FilesKept
  BY UploadTyped DEF IInv, SmoothInv
<1>2. /\ UNCHANGED <<doc, request, held>> /\ \A q \in Proc \ {b} : proc'[q] = proc[q]
      /\ proc[b] \in ProcType
  BY <1>1 DEF ProcStep, IInv, RowInv, Types
<1>3. proc[b].pc \in {"idle", "find", "store", "persist"} /\ ~Tends(b)
  BY DEF Check, FindRequest, TakeOver, Store, StoreFails, PersistFails, Tends
<1>4. ASSUME proc'[b].pc \in {"find", "store", "done"}, tmp' = tmp
      PROVE  FilesKept'
  <2>1. \A c \in Batch : Coordinated(c)' => Coordinated(c)
    BY <1>2, <1>4 DEF Coordinated
  <2> QED BY <1>1, <1>3, <1>4, <2>1, FilesStay
<1>5. ASSUME proc'[b].pc \in {"find", "store"}, proc'[b].batch = NoBatch, tmp' = tmp
      PROVE  SmoothInv'
  <2>1. request.status = "accepted" => request.batch # NoBatch
    BY DEF IInv, RowInv, RequestOwned
  <2>2. SmoothStep(b)
    BY <1>3, <1>5, <2>1 DEF SmoothStep
  <2> QED BY <1>1, <1>4, <1>5, <2>2, ProcStepKeepsSmooth
<1>6. ASSUME End(b), tmp' = tmp
      PROVE  SmoothInv'
  <2>1. proc'[b].pc = "done"
    BY <1>1, <1>6, EndTyped DEF IInv
  <2> QED BY <1>1, <1>3, <1>4, <1>6, <2>1, EndKeepsSmooth
<1>7. CASE Check(b)
  <2>1. proc'[b].pc \in {"find", "store"} /\ tmp' = tmp
    BY <1>7 DEF Check, IInv, RowInv, Types, ProcType
  <2>2. proc'[b].batch = NoBatch
    BY <1>1, <2>1 DEF ProcStep
  <2> QED BY <1>5, <2>1, <2>2
<1>8. CASE FindRequest(b)
  <2>1. tmp' = tmp
    BY <1>8 DEF FindRequest
  <2>2. CASE Go(b, "store")
    <3>1. proc'[b].pc = "store"
      BY <1>1, <2>2, GoTyped DEF IInv, Early
    <3>2. proc'[b].batch = NoBatch
      BY <1>1, <3>1 DEF ProcStep
    <3> QED BY <1>5, <2>1, <3>1, <3>2
  <2>3. CASE End(b)
    BY <1>6, <2>1, <2>3
  <2> QED BY <1>8, <2>2, <2>3 DEF FindRequest
<1>9. CASE TakeOver(b)
  <2>1. /\ proc'[b].pc = "coordinate" /\ proc'[b].batch = request.batch
        /\ request.status = "coordinating" /\ tmp' = tmp
    BY <1>9 DEF TakeOver, Idle, IInv, RowInv, Types
  <2>2. \A c \in Batch : Coordinated(c)' => Coordinated(c)
    BY <1>2, <2>1 DEF Coordinated
  <2>3. FilesKept'
    BY <1>1, <1>3, <2>1, <2>2, FilesStay
  <2>4. SmoothStep(b)
    BY <1>3, <2>1 DEF SmoothStep
  <2> QED BY <1>1, <2>3, <2>4, ProcStepKeepsSmooth
<1>10. CASE Store(b)
  <2>1. /\ proc'[b].pc = "persist" /\ proc'[b].batch = b /\ proc[b].pc = "store"
        /\ tmp' = tmp \cup DocsOf[b]
    BY <1>10 DEF Store, IInv, RowInv, Types, ProcType
  <2>2. request.batch # b
    BY <2>1 DEF IInv, CoordInv, Uncommitted, Early
  <2>3. \A c \in Batch : Coordinated(c)' => Coordinated(c)
    BY <1>2, <2>1 DEF Coordinated
  <2>4. \A d \in Doc : Promoted(d) => Promoted(d)'
    BY <1>2, <2>1 DEF Promoted
  <2>5. \A c \in Batch : \A d \in DocsOf[c] : d \in Doc
    OBVIOUS
  <2>6. FilesKept'
    BY <1>1, <1>2, <2>1, <2>3, <2>4, <2>5 DEF FilesKept, Exists
  <2>7. SmoothStep(b)
    BY <1>3, <2>1, <2>2 DEF SmoothStep
  <2> QED BY <1>1, <2>6, <2>7, ProcStepKeepsSmooth
<1>11. CASE StoreFails(b)
  BY <1>11, FaultIsCounted DEF StoreFails, IInv, RowInv
<1>12. CASE PersistFails(b)
  <2>1. proc[b].pc = "persist" /\ tmp' = tmp \ DocsOf[b] /\ End(b)
    <3>1. PICK fault \in {0, 1}, left \in SUBSET DocsOf[b] :
              Leave(left, fault) /\ tmp' = tmp \ (DocsOf[b] \ left)
      BY <1>12 DEF PersistFails
    <3>2. left = {}
      BY <3>1, FaultIsCounted, LeaveTyped DEF IInv, RowInv
    <3>3. DocsOf[b] \ left = DocsOf[b]
      BY <3>2
    <3> QED BY <1>12, <3>1, <3>3 DEF PersistFails
  <2>2. proc'[b].pc = "done"
    BY <1>1, <2>1, EndTyped DEF IInv
  <2>3. \A d \in DocsOf[b] : ~Exists(d)
    BY <2>1 DEF IInv, CoordInv, Uncommitted, Early
  <2>4. \A c \in Batch : Coordinated(c)' => Coordinated(c)
    BY <1>2, <2>2 DEF Coordinated
  <2>5. \A d \in Doc : Promoted(d) => Promoted(d)'
    BY <1>2, <2>1 DEF Promoted
  <2>6. ASSUME NEW c \in Batch, proc'[c].pc = "persist"
        PROVE  DocsOf[c] \subseteq tmp'
    <3>1. c # b /\ proc[c].pc = "persist"
      BY <1>2, <2>2, <2>6
    <3>2. DocsOf[c] \cap DocsOf[b] = {}
      BY <3>1
    <3> QED BY <1>1, <2>1, <3>1, <3>2 DEF FilesKept
  <2>7. ASSUME NEW c \in Batch, Coordinated(c)', NEW d \in DocsOf[c], Exists(d)'
        PROVE  d \in tmp' \/ Promoted(d)'
    <3>1. Exists(d) /\ d \notin DocsOf[b] /\ d \in Doc
      BY <1>2, <2>3, <2>7 DEF Exists
    <3>2. d \in tmp \/ Promoted(d)
      BY <1>1, <2>4, <2>7, <3>1 DEF FilesKept
    <3> QED BY <2>1, <2>5, <3>1, <3>2
  <2>8. FilesKept'
    BY <2>6, <2>7 DEF FilesKept
  <2> QED BY <1>1, <1>3, <2>1, <2>8, EndKeepsSmooth
<1> QED BY <1>7, <1>8, <1>9, <1>10, <1>11, <1>12

\* A promotion finds its files: only an I/O error stops it.
LEMMA FilesFound ==
    ASSUME IInv, SmoothInv, NEW p \in Proc, proc[p].pc = "promote"
    PROVE  proc[p].todo \subseteq tmp \cup obj
<1>1. /\ proc[p].batch \in Batch /\ proc[p].docs \subseteq DocsOf[proc[p].batch]
      /\ proc[p].todo \subseteq proc[p].docs /\ \A d \in proc[p].docs : Exists(d)
  BY DEF IInv, RowInv, CoordInv, Promoting, ProcsKnow, Serving, SmoothInv, Taken
<1>2. Coordinated(proc[p].batch)
  BY DEF Coordinated
<1>3. SUFFICES ASSUME NEW d \in proc[p].todo, d \notin tmp
               PROVE  FALSE
  OBVIOUS
<1>4. PICK q \in Proc : proc[q].pc = "promote" /\ d \in proc[q].docs \ proc[q].todo
  BY <1>1, <1>2, <1>3 DEF SmoothInv, FilesKept, Promoted
<1>5. proc[q].batch \in Batch /\ d \in DocsOf[proc[q].batch]
  BY <1>4 DEF IInv, RowInv, CoordInv, Promoting, ProcsKnow, Serving
<1>6. proc[q].batch = proc[p].batch
  BY <1>1, <1>3, <1>5
<1>7. q = p
  BY <1>1, <1>6 DEF IInv, CoordInv, Alone
<1> QED BY <1>3, <1>4, <1>7

\* The steps of a coordinator that commit nothing.
LEMMA CoordinatorKeepsSmooth ==
    ASSUME IInv, SmoothInv, Quiet', NEW p \in Proc,
           \/ Coordinate(p) \/ PromoteFails(p) \/ CompensateFiles(p) \/ RequestIsStale(p) \/ Crash(p)
           \/ \E d \in Doc : Promote(p, d)
    PROVE  SmoothInv'
<1>1. ProcStep(p) /\ FilesKept
  BY CoordinatorTyped DEF IInv, SmoothInv
<1>2. /\ UNCHANGED <<doc, request, held>> /\ \A q \in Proc \ {p} : proc'[q] = proc[q]
      /\ proc[p] \in ProcType
  BY <1>1 DEF ProcStep, IInv, RowInv, Types
<1>3. proc[p].pc \in Serving => proc[p].batch \in Batch
  BY DEF IInv, RowInv, ProcsKnow
<1>4. CASE Coordinate(p)
  <2> DEFINE D == {d \in DocsOf[proc[p].batch] : Exists(d)} \ Locked
  <2>1. proc[p].pc = "coordinate" /\ tmp' = tmp /\ proc[p].batch \in Batch
    BY <1>3, <1>4 DEF Coordinate, Serving
  <2>2. CASE D = {}
    <3>1. End(p)
      BY <1>4, <2>2 DEF Coordinate
    <3>2. proc'[p].pc \in {"idle", "done"}
      BY <3>1, EndTyped DEF IInv
    <3>3. \A b \in Batch : Coordinated(b)' => Coordinated(b)
      BY <1>2, <3>2 DEF Coordinated
    <3>4. FilesKept'
      BY <1>1, <2>1, <3>2, <3>3, FilesStay
    <3>5. ASSUME p \in Batch, Tends(p), NEW d \in DocsOf[p], doc[d].status = "pending"
          PROVE  d \in held
      <4>1. proc[p].batch = p
        BY <3>5 DEF Tends
      <4>2. d \in Locked
        BY <2>2, <3>5, <4>1 DEF Exists
      <4>3. SUFFICES ASSUME NEW q \in Proc, d \in LockedBy(q)
                     PROVE  FALSE
        BY <4>2 DEF Locked
      <4>4. proc[q].pc = "promote" /\ d \in proc[q].docs
        BY <4>3 DEF LockedBy
      <4>5. proc[q].batch \in Batch /\ d \in DocsOf[proc[q].batch]
        BY <4>4 DEF IInv, RowInv, CoordInv, Promoting, ProcsKnow, Serving
      <4>6. proc[q].batch = proc[p].batch
        BY <3>5, <4>1, <4>5
      <4>7. q = p
        BY <2>1, <4>6 DEF IInv, CoordInv, Alone
      <4> QED BY <2>1, <4>4, <4>7
    <3> QED BY <1>1, <3>1, <3>4, <3>5, EndKeepsSmooth
  <2>3. CASE D # {}
    <3>1. proc' = [proc EXCEPT ![p].pc = "promote", ![p].docs = D, ![p].todo = D]
      BY <1>4, <2>3 DEF Coordinate
    <3>2. /\ proc'[p].pc = "promote" /\ proc'[p].docs = D /\ proc'[p].todo = D
          /\ proc'[p].batch = proc[p].batch /\ proc'[p].req = proc[p].req
      BY <1>2, <3>1 DEF IInv, RowInv, Types, ProcType
    <3>3. \A b \in Batch : Coordinated(b)' => Coordinated(b)
      BY <1>2, <2>1, <3>2 DEF Coordinated
    <3>4. FilesKept'
      BY <1>1, <2>1, <3>2, <3>3, FilesStay
    <3>5. \A d \in D : Exists(d)
      OBVIOUS
    <3>6. request.status = "accepted" => proc[p].batch # request.batch
      BY DEF SmoothInv, AcceptedDone
    <3>7. Tends(p) => Tends(p)'
      BY <1>2, <3>2 DEF Tends
    <3> HIDE DEF D
    <3>8. SmoothStep(p)
      BY <3>2, <3>5, <3>6, <3>7 DEF SmoothStep
    <3> QED BY <1>1, <3>4, <3>8, ProcStepKeepsSmooth
  <2> QED BY <2>2, <2>3
<1>5. CASE PromoteFails(p)
  <2>1. proc[p].pc = "promote" /\ proc[p].todo \subseteq tmp \cup obj
    BY <1>5, FilesFound DEF PromoteFails
  <2>2. Spend("faults", MaxFaults)
    BY <1>5, <2>1 DEF PromoteFails
  <2> QED BY <2>2, TroubleIsCounted DEF IInv, RowInv
<1>6. CASE CompensateFiles(p)
  BY <1>6 DEF CompensateFiles, SmoothInv, NothingFails
<1>7. CASE RequestIsStale(p)
  <2>1. /\ proc[p].pc = "promote" /\ proc[p].req /\ request.batch # proc[p].batch
        /\ End(p) /\ tmp' = tmp
    BY <1>7 DEF RequestIsStale, RequestLives, SmoothInv, NothingFails
  <2>2. proc'[p].pc \in {"idle", "done"}
    BY <2>1, EndTyped DEF IInv
  <2>3. \A b \in Batch : Coordinated(b)' => Coordinated(b)
    BY <1>2, <2>2 DEF Coordinated
  <2>4. ASSUME NEW b \in Batch, Coordinated(b)'
        PROVE  proc[p].batch # b
    <3>1. \A q \in Proc \ {p} : proc[q].batch # proc[p].batch
      BY <1>3, <2>1 DEF IInv, CoordInv, Alone, Serving
    <3> QED BY <1>2, <2>1, <2>2, <2>4, <3>1 DEF Coordinated
  <2>5. FilesKept'
    BY <1>1, <2>1, <2>2, <2>3, <2>4, FilesStay
  <2>6. ~Tends(p)
    BY <2>1 DEF Tends
  <2> QED BY <1>1, <2>1, <2>5, <2>6, EndKeepsSmooth
<1>8. CASE Crash(p)
  <2>1. used'.crashes # 0 /\ used'.crashes \in Nat /\ used'.faults \in Nat
    BY <1>8, CrashTyped DEF IInv, RowInv
  <2> QED BY <2>1 DEF Quiet
<1>9. ASSUME NEW d \in Doc, Promote(p, d)
      PROVE  SmoothInv'
  <2>1. /\ proc[p].pc = "promote" /\ d \in proc[p].todo /\ tmp' \in {tmp, tmp \ {d}}
        /\ proc'[p] = [proc[p] EXCEPT !.todo = proc[p].todo \ {d}]
    BY <1>9 DEF Promote, IInv, RowInv, Types
  <2>2. /\ proc'[p].pc = "promote" /\ proc'[p].batch = proc[p].batch /\ proc'[p].req = proc[p].req
        /\ proc'[p].docs = proc[p].docs /\ proc'[p].todo = proc[p].todo \ {d}
    BY <1>2, <2>1 DEF ProcType
  <2>3. /\ proc[p].batch \in Batch /\ proc[p].docs \subseteq DocsOf[proc[p].batch]
        /\ proc[p].todo \subseteq proc[p].docs /\ \A e \in proc[p].docs : Exists(e)
    BY <2>1 DEF IInv, RowInv, CoordInv, Promoting, ProcsKnow, Serving, SmoothInv, Taken
  <2>4. \A e \in Doc : Promoted(e) => Promoted(e)'
    BY <1>2, <2>1, <2>2 DEF Promoted
  <2>5. Promoted(d)'
    BY <2>1, <2>2, <2>3 DEF Promoted
  <2>6. \A c \in Batch : Coordinated(c)' => Coordinated(c)
    BY <1>2, <2>1, <2>2 DEF Coordinated
  <2>7. ASSUME NEW c \in Batch, proc'[c].pc = "persist"
        PROVE  DocsOf[c] \subseteq tmp'
    <3>1. c # p /\ proc[c].pc = "persist"
      BY <1>2, <2>2, <2>7
    <3>2. proc[p].batch # c
      BY <3>1 DEF IInv, CoordInv, Uncommitted, Early
    <3>3. d \notin DocsOf[c]
      BY <2>1, <2>3, <3>2
    <3> QED BY <1>1, <2>1, <3>1, <3>3 DEF FilesKept
  <2>8. ASSUME NEW c \in Batch, Coordinated(c)', NEW e \in DocsOf[c], Exists(e)'
        PROVE  e \in tmp' \/ Promoted(e)'
    <3>1. e \in tmp \/ Promoted(e)
      BY <1>1, <1>2, <2>6, <2>8 DEF FilesKept, Exists
    <3>2. e \in Doc
      OBVIOUS
    <3> QED BY <2>1, <2>4, <2>5, <3>1, <3>2
  <2>9. FilesKept'
    BY <2>7, <2>8 DEF FilesKept
  <2>10. Tends(p) => Tends(p)'
    BY <1>2, <2>1, <2>2 DEF Tends
  <2>11. SmoothStep(p)
    BY <2>2, <2>3, <2>10 DEF SmoothStep, SmoothInv, AcceptedDone
  <2> QED BY <1>1, <2>9, <2>11, ProcStepKeepsSmooth
<1> QED BY <1>4, <1>5, <1>6, <1>7, <1>8, <1>9

\* The scanner has nothing to do.
LEMMA NothingToScan ==
    ASSUME SmoothInv, Prompt, NEW b \in Batch
    PROVE  ~Scan(b)
<1> SUFFICES ASSUME Scan(b) PROVE FALSE
  OBVIOUS
<1>1. PICK d \in DocsOf[b] : doc[d].status = "pending"
  BY DEF Scan
<1>2. ~Served(b)
  BY DEF Scan, MayTakeOver
<1>3. d \notin held /\ ~Tends(b)
  BY <1>2 DEF Served, Tends
<1> QED BY <1>1, <1>3 DEF SmoothInv, Tended

\* Who commits a batch tends it.
LEMMA PersistKeepsSmooth ==
    ASSUME IInv, SmoothInv, NEW b \in Batch, Persist(b)
    PROVE  SmoothInv'
<1>1. /\ \A q \in Proc \ {b} : proc'[q] = proc[q]
      /\ proc[b].pc = "persist" /\ proc[b].batch = b
      /\ proc'[b].pc = "coordinate" /\ proc'[b].batch = b /\ proc'[b].req = (b \in Keyed)
      /\ \A d \in DocsOf[b] : doc'[d].status = "pending" /\ doc'[d].error = 0
      /\ \A d \in Doc \ DocsOf[b] : doc'[d] = doc[d]
  BY PersistChanges DEF IInv
<1>2. /\ UNCHANGED <<tmp, held>>
      /\ b \in Keyed => request.status = "none" /\ request'.status = "coordinating"
                        /\ request'.batch = b /\ ~request'.expired
      /\ b \notin Keyed => request' = request
  BY DEF Persist
<1>3. /\ \A d \in DocsOf[b] : ~Exists(d)
      /\ request.batch # b
      /\ \A q \in Proc \ {b} : proc[q].batch # b
  BY <1>1 DEF IInv, CoordInv, Uncommitted, Early
<1>4. \A c \in Batch : c \in Proc /\ c # NoBatch /\ \A d \in DocsOf[c] : d \in Doc
  OBVIOUS
<1>5. \A c \in Batch \ {b} : \A d \in DocsOf[c] : d \in Doc \ DocsOf[b] /\ doc'[d] = doc[d]
  BY <1>1, <1>4
<1>6. NothingFails' /\ HeldLive'
  <2>1. held \subseteq Doc
    BY DEF IInv, RowInv, Types
  <2>2. \A p \in Proc : proc'[p].pc \notin {"compensate", "fail"}
    BY <1>1 DEF SmoothInv, NothingFails
  <2>3. ASSUME NEW d \in Doc
        PROVE  /\ doc'[d].error # 20011
               /\ d \in held => doc'[d].status \notin {"absent", "deleted"}
    BY <1>1 DEF SmoothInv, NothingFails, HeldLive
  <2>4. request'.status # "failed"
    BY <1>2 DEF SmoothInv, NothingFails
  <2> QED BY <1>2, <2>1, <2>2, <2>3, <2>4 DEF NothingFails, HeldLive
<1>7. Tends(b)'
  BY <1>1, <1>2 DEF Tends
<1>8. ASSUME NEW c \in Batch \ {b}, Tends(c) PROVE Tends(c)'
  <2>1. proc'[c] = proc[c]
    BY <1>1, <1>4
  <2>2. proc[c].req => request' = request
    BY <1>2, <1>4, <1>8 DEF Tends, IInv, RowInv, RequestOwned
  <2> QED BY <1>8, <2>1, <2>2 DEF Tends
<1>9. Tended'
  BY <1>2, <1>5, <1>7, <1>8 DEF SmoothInv, Tended
<1>10. \A d \in Doc : Exists(d) => Exists(d)'
  BY <1>1, <1>3 DEF Exists
<1>11. Taken'
  <2>1. \A p \in Proc : proc[p].docs \subseteq Doc
    BY DEF IInv, RowInv, Types, ProcType
  <2>2. ASSUME NEW p \in Proc, proc'[p].pc = "promote"
        PROVE  proc'[p] = proc[p]
    BY <1>1, <2>2
  <2> QED BY <1>10, <2>1, <2>2 DEF SmoothInv, Taken
<1>12. FilesKept'
  <2>1. \A c \in Batch \ {b} : Coordinated(c)' => Coordinated(c)
    BY <1>1, <1>2 DEF Coordinated
  <2>2. \A d \in Doc : Promoted(d) => Promoted(d)'
    BY <1>1 DEF Promoted
  <2>3. DocsOf[b] \subseteq tmp
    BY <1>1 DEF SmoothInv, FilesKept
  <2>4. \A c \in Batch : proc'[c].pc = "persist" => DocsOf[c] \subseteq tmp'
    BY <1>1, <1>2, <1>4 DEF SmoothInv, FilesKept
  <2>5. ASSUME NEW c \in Batch, Coordinated(c)', NEW d \in DocsOf[c], Exists(d)'
        PROVE  d \in tmp' \/ Promoted(d)'
    <3>1. CASE c = b
      BY <1>2, <2>3, <2>5, <3>1
    <3>2. CASE c # b
      <4>1. Coordinated(c) /\ Exists(d) /\ d \in Doc
        BY <1>5, <2>1, <2>5, <3>2 DEF Exists
      <4>2. d \in tmp \/ Promoted(d)
        BY <2>5, <4>1 DEF SmoothInv, FilesKept
      <4> QED BY <1>2, <2>2, <4>1, <4>2
    <3> QED BY <3>1, <3>2
  <2> QED BY <2>4, <2>5 DEF FilesKept
<1>13. AcceptedDone'
  <2>1. \A p \in Proc : proc'[p].batch = proc[p].batch
    BY <1>1
  <2> QED BY <1>2, <2>1 DEF SmoothInv, AcceptedDone
<1> QED BY <1>6, <1>9, <1>11, <1>12, <1>13 DEF SmoothInv

\* What is pending after the commit of a batch is held.
LEMMA MarkQueuedKeepsSmooth ==
    ASSUME IInv, SmoothInv, NEW p \in Proc, MarkQueued(p)
    PROVE  SmoothInv'
<1> DEFINE b == proc[p].batch
<1>1. /\ proc[p].pc = "promote" /\ tmp' = tmp
      /\ b \in Batch /\ b # NoBatch /\ proc[p] \in ProcType
  BY DEF MarkQueued, IInv, RowInv, Types, ProcsKnow, Serving
<1>2. /\ proc[p].docs \subseteq DocsOf[b]
      /\ \A d \in DocsOf[b] \ proc[p].docs : doc[d].status = "pending" => d \in held
  BY <1>1 DEF IInv, CoordInv, Promoting
<1>3. /\ Ended(p, "accepted")
      /\ \A d \in Doc : doc'[d].status =
            IF d \in proc[p].docs /\ doc[d].status = "pending" THEN "queued" ELSE doc[d].status
  BY MarkQueuedEnds DEF IInv
<1>4. \A d \in Doc : doc'[d].error = doc[d].error
  <2>1. ASSUME NEW r \in Row
        PROVE  [r EXCEPT !.status = "queued", !.task = "queued"].error = r.error
    BY MovedRow
  <2> DEFINE Q(r) == [r EXCEPT !.status = "queued", !.task = "queued"]
  <2>2. doc' = [d \in Doc |-> IF d \in proc[p].docs /\ doc[d].status = "pending"
                              THEN Q(doc[d]) ELSE doc[d]]
    BY Zenon DEF MarkQueued
  <2>3. \A r \in Row : Q(r).error = r.error
    BY <2>1
  <2> HIDE DEF Q
  <2> QED BY <2>2, <2>3 DEF IInv, RowInv, Types
<1>5. /\ \A q \in Proc \ {p} : proc'[q] = proc[q] /\ proc[q].batch # b
      /\ proc'[p].batch = NoBatch /\ proc'[p].pc \in {"idle", "done"}
  BY <1>1, <1>3, EndTyped DEF Ended, IInv, CoordInv, Alone
<1>6. /\ request'.batch = request.batch /\ request'.expired = request.expired
      /\ request.batch = b => request'.status = "accepted"
      /\ request.batch # b => request' = request
  <2>1. CASE proc[p].req
    BY <1>3, <2>1 DEF Ended, RequestLives, IInv, RowInv, Types, Request
  <2>2. CASE ~proc[p].req
    BY <1>1, <1>3, <2>2 DEF Ended, IInv, CoordInv, RequestLoaded, Serving
  <2> QED BY <2>1, <2>2
<1>7. held' = held /\ \A d \in Doc : Exists(d)' <=> Exists(d)
  BY <1>3 DEF Ended
<1>8. \A c \in Batch : c \in Proc /\ \A d \in DocsOf[c] : d \in Doc
  OBVIOUS
<1> HIDE DEF b
<1>9. NothingFails'
  BY <1>4, <1>5, <1>6 DEF SmoothInv, NothingFails
<1>10. HeldLive'
  <2>1. held \subseteq Doc
    BY DEF IInv, RowInv, Types
  <2> QED BY <1>3, <1>7, <2>1 DEF SmoothInv, HeldLive
<1>11. Tended'
  <2> SUFFICES ASSUME NEW c \in Batch, NEW d \in DocsOf[c], doc'[d].status = "pending", d \notin held
               PROVE  Tends(c)'
    BY <1>7 DEF Tended
  <2>1. doc[d].status = "pending" /\ d \notin proc[p].docs
    BY <1>3, <1>8
  <2>2. Tends(c) /\ c # b
    BY <1>2, <2>1 DEF SmoothInv, Tended
  <2>3. c # p
    BY <2>2 DEF Tends, b
  <2> QED BY <1>5, <1>6, <1>8, <2>2, <2>3 DEF Tends
<1>12. Taken'
  <2>1. \A q \in Proc : proc[q].docs \subseteq Doc
    BY DEF IInv, RowInv, Types, ProcType
  <2>2. ASSUME NEW q \in Proc, proc'[q].pc = "promote"
        PROVE  proc'[q] = proc[q]
    BY <1>5, <2>2
  <2> QED BY <1>7, <2>1, <2>2 DEF SmoothInv, Taken
<1>13. FilesKept'
  <2>1. \A c \in Batch : Coordinated(c)' => Coordinated(c) /\ c # b
    BY <1>5, <1>6 DEF Coordinated
  <2>2. ASSUME NEW c \in Batch, c # b, NEW d \in DocsOf[c], Promoted(d)
        PROVE  Promoted(d)'
    <3>1. PICK q \in Proc : proc[q].pc = "promote" /\ d \in proc[q].docs \ proc[q].todo
      BY <2>2 DEF Promoted
    <3>2. q # p
      BY <1>1, <1>2, <2>2, <3>1
    <3> QED BY <1>5, <3>1, <3>2 DEF Promoted
  <2>3. \A c \in Batch : proc'[c].pc = "persist" => DocsOf[c] \subseteq tmp'
    BY <1>1, <1>5, <1>8 DEF SmoothInv, FilesKept
  <2>4. ASSUME NEW c \in Batch, Coordinated(c)', NEW d \in DocsOf[c], Exists(d)'
        PROVE  d \in tmp' \/ Promoted(d)'
    <3>1. Coordinated(c) /\ c # b /\ Exists(d)
      BY <1>7, <1>8, <2>1, <2>4
    <3>2. d \in tmp \/ Promoted(d)
      BY <2>4, <3>1 DEF SmoothInv, FilesKept
    <3> QED BY <1>1, <2>2, <2>4, <3>1, <3>2
  <2> QED BY <2>3, <2>4 DEF FilesKept
<1>14. AcceptedDone'
  <2> SUFFICES ASSUME request'.status = "accepted", NEW q \in Proc
               PROVE  proc'[q].batch # request.batch
    BY <1>6 DEF AcceptedDone
  <2>1. CASE request.batch = b
    BY <1>1, <1>5, <2>1
  <2>2. CASE request.batch # b
    <3>1. request.status = "accepted" /\ request.batch # NoBatch
      BY <1>6, <2>2 DEF IInv, RowInv, RequestOwned
    <3> QED BY <1>5, <3>1 DEF SmoothInv, AcceptedDone
  <2> QED BY <2>1, <2>2
<1> QED BY <1>9, <1>10, <1>11, <1>12, <1>13, <1>14 DEF SmoothInv

\* A request does not expire under the one who serves its batch.
LEMMA ExpiryKeepsSmooth ==
    ASSUME IInv, SmoothInv, Prompt, RequestExpires \/ RemoveExpired
    PROVE  SmoothInv'
<1>1. UNCHANGED <<doc, tmp, proc, held>>
  BY DEF RequestExpires, RemoveExpired
<1>2. ASSUME NEW b \in Batch, Tends(b) PROVE Tends(b)'
  <2>1. ~proc[b].req
    BY <1>2 DEF Tends, RequestExpires, RemoveExpired, MayTakeOver, Served
  <2> QED BY <1>1, <1>2, <2>1 DEF Tends
<1>3. request'.status \in {"none", request.status}
      /\ (request'.status # "none" => request'.batch = request.batch)
  <2>1. CASE RequestExpires
    BY <2>1 DEF RequestExpires, IInv, RowInv, Types, Request
  <2>2. CASE RemoveExpired
    BY <2>2 DEF RemoveExpired, NoRequest
  <2> QED BY <2>1, <2>2
<1>4. \A b \in Batch : Coordinated(b)' => Coordinated(b)
  BY <1>1, <1>3 DEF Coordinated
<1>5. NothingFails' /\ HeldLive' /\ Taken'
  BY <1>1, <1>3 DEF SmoothInv, NothingFails, HeldLive, Taken, Exists
<1>6. Tended'
  BY <1>1, <1>2 DEF SmoothInv, Tended
<1>7. FilesKept'
  BY <1>1, <1>4 DEF SmoothInv, FilesKept, Promoted, Exists
<1>8. AcceptedDone'
  BY <1>1, <1>3 DEF SmoothInv, AcceptedDone
<1> QED BY <1>5, <1>6, <1>7, <1>8 DEF SmoothInv

\* Without deaths and I/O errors batches are tended.
SmoothUnlessTroubled == Quiet => SmoothInv

LEMMA NextKeepsSmooth == Prompt /\ IInv /\ SmoothUnlessTroubled /\ [Next]_vars => SmoothUnlessTroubled'
<1> SUFFICES ASSUME Prompt, IInv, SmoothUnlessTroubled, [Next]_vars, Quiet'
             PROVE  SmoothInv'
  BY DEF SmoothUnlessTroubled
<1>1. SmoothInv /\ Types
  BY QuietBefore DEF SmoothUnlessTroubled, IInv, RowInv
<1>2. ASSUME NEW b \in Batch, Check(b) \/ UploadStep(b)
      PROVE  SmoothInv'
  BY <1>1, <1>2, UploadKeepsSmooth, PersistKeepsSmooth DEF UploadStep
<1>3. ASSUME NEW b \in Batch, Scan(b)
      PROVE  SmoothInv'
  BY <1>1, <1>3, NothingToScan
<1>4. ASSUME NEW p \in Proc, CoordinatorStep(p) \/ Crash(p)
      PROVE  SmoothInv'
  <2>1. CASE CompensateRows(p)
    BY <1>1, <2>1 DEF CompensateRows, SmoothInv, NothingFails
  <2>2. CASE ~CompensateRows(p)
    BY <1>1, <1>4, <2>2, CoordinatorKeepsSmooth, MarkQueuedKeepsSmooth DEF CoordinatorStep
  <2> QED BY <2>1, <2>2
<1>5. CASE RequestExpires \/ RemoveExpired
  BY <1>1, <1>5, ExpiryKeepsSmooth
<1>6. ASSUME NEW d \in Doc, \/ DeleteLock(d) \/ DeleteCommit(d)
                            \/ CleanUp(d) \/ CleanUpFails(d) \/ Process(d)
      PROVE  SmoothInv'
  <2>1. CASE CleanUpFails(d)
    BY <1>1, <2>1, TroubleIsCounted DEF CleanUpFails
  <2>2. CASE ~CleanUpFails(d)
    BY <1>1, <1>6, <2>2, DeleteKeepsSmooth, WorkKeepsSmooth
  <2> QED BY <2>1, <2>2
<1>7. CASE KbDelete \/ KbRetry \/ KbConvergeFails
  BY <1>1, <1>7, KbDeleteKeepsSmooth
<1>8. CASE KbDeleteEmpty \/ KbConverge
  BY <1>1, <1>8, RemoveKeepsSmooth
<1>9. CASE UNCHANGED vars
  BY <1>1, <1>9 DEF vars, SmoothInv, NothingFails, HeldLive, Tended, Tends, Taken, FilesKept,
                    Coordinated, Promoted, AcceptedDone, Exists
<1> QED BY <1>2, <1>3, <1>4, <1>5, <1>6, <1>7, <1>8, <1>9 DEF Next

-----------------------------------------------------------------------------
\* A knowledge base that is gone has no documents.
Gone == kb = "gone" => \A d \in Doc : ~Exists(d)

\* The foreign key keeps out the rows of an upload that comes late, whoever runs.
LEMMA NextKeepsGone == RowInv /\ Gone /\ [Next]_vars => Gone'
<1> SUFFICES ASSUME RowInv, Gone, [Next]_vars, kb' = "gone"
             PROVE  \A d \in Doc : ~Exists(d)'
  BY DEF Gone
<1>1. ASSUME UNCHANGED kb, \A d \in Doc : Exists(d)' <=> Exists(d)
      PROVE  \A d \in Doc : ~Exists(d)'
  BY <1>1 DEF Gone
<1>2. ASSUME NEW b \in Batch, Check(b) \/ UploadStep(b) \/ Scan(b)
      PROVE  \A d \in Doc : ~Exists(d)'
  <2>1. ~Persist(b)
    BY DEF Persist
  <2>2. UNCHANGED <<kb, doc>>
    BY <1>2, <2>1 DEF Check, UploadStep, FindRequest, TakeOver, Store, StoreFails, PersistFails, Scan, dbVars
  <2> QED BY <1>1, <2>2 DEF Exists
<1>3. ASSUME NEW p \in Proc, CoordinatorStep(p) \/ Crash(p)
      PROVE  \A d \in Doc : ~Exists(d)'
  <2>1. CASE MarkQueued(p)
    <3>1. kb' = kb
      BY <2>1, Zenon DEF MarkQueued
    <3> QED BY <1>1, <2>1, <3>1, MarkQueuedEnds DEF Ended
  <2>2. CASE CompensateRows(p)
    <3>1. kb' = kb
      BY <2>2 DEF CompensateRows
    <3> QED BY <1>1, <2>2, <3>1, CompensateRowsEnds DEF Ended
  <2>3. CASE Coordinate(p)
    <3>1. UNCHANGED <<dbVars, tmp, obj, held, used>>
      BY <2>3, Zenon DEF Coordinate
    <3> QED BY <1>1, <3>1 DEF dbVars, Exists
  <2>4. CASE PromoteFails(p) \/ CompensateFiles(p) \/ RequestIsStale(p) \/ Crash(p)
    BY <1>1, <2>4 DEF PromoteFails, CompensateFiles, RequestIsStale, Crash, dbVars, Exists
  <2>5. ASSUME NEW d \in Doc, Promote(p, d)
        PROVE  UNCHANGED <<kb, doc>>
    BY <2>5 DEF Promote, dbVars
  <2> QED BY <1>1, <1>3, <2>1, <2>2, <2>3, <2>4, <2>5 DEF CoordinatorStep, Exists
<1>4. CASE RequestExpires \/ RemoveExpired
  BY <1>1, <1>4 DEF RequestExpires, RemoveExpired, Exists
<1>5. ASSUME NEW d \in Doc, \/ DeleteLock(d) \/ DeleteCommit(d)
                            \/ CleanUp(d) \/ CleanUpFails(d) \/ Process(d)
      PROVE  \A e \in Doc : ~Exists(e)'
  <2>1. kb' = kb
    BY <1>5, ProcessLeaves DEF DeleteLock, DeleteCommit, CleanUp, CleanUpFails, dbVars
  <2>2. \A e \in Doc : Exists(e)' <=> Exists(e)
    BY <1>5, DeleteChangesRows, WorkChangesRows DEF RowsStep
  <2> QED BY <1>1, <2>1, <2>2
<1>6. CASE KbDeleteEmpty \/ KbConverge
  BY <1>6 DEF KbDeleteEmpty, KbConverge, RemoveAll, NoRow, Exists
<1>7. CASE KbDelete \/ KbRetry \/ KbConvergeFails
  BY <1>7 DEF KbDelete, KbRetry, KbConvergeFails
<1>8. CASE UNCHANGED vars
  BY <1>1, <1>8 DEF vars, Exists
<1> QED BY <1>2, <1>3, <1>4, <1>5, <1>6, <1>7, <1>8 DEF Next

-----------------------------------------------------------------------------
(* A temporary file belongs to an upload that is about to commit its rows or *)
(* has left its batch pending, as long as no DELETE meets an upload half way *)
(* and no file was left behind where nothing tells of it.                    *)
TempsOwned ==
    /\ tmp \cap obj = {}
    /\ \A d \in tmp : \E b \in Batch : d \in DocsOf[b] /\ (proc[b].pc = "persist" \/ AllPending(b))
    /\ \A p \in Proc : proc[p].pc = "promote" => (proc[p].docs \ proc[p].todo) \cap tmp = {}
    /\ \A p \in Proc : proc[p].pc = "fail" => DocsOf[proc[p].batch] \cap tmp = {}

\* A step of the users, the pipeline or the scanner.
LEMMA RowsOwnTemps ==
    ASSUME TempsOwned, UNCHANGED <<proc, tmp>>, obj' \subseteq obj,
           \A d \in Doc : doc[d].status = "pending" => doc'[d].status = "pending"
    PROVE  TempsOwned'
<1>1. \A b \in Batch : AllPending(b) => AllPending(b)'
  BY DEF AllPending
<1> QED BY <1>1 DEF TempsOwned

\* A step of one process that writes no temporary file and no row.
LEMMA ProcStepOwnsTemps ==
    ASSUME TempsOwned, NEW p \in Proc, ProcStep(p), tmp' \subseteq tmp, tmp' \cap obj' = {},
           proc[p].pc = "persist" => p \in Batch /\ DocsOf[p] \cap tmp' = {},
           proc'[p].pc = "promote" => (proc'[p].docs \ proc'[p].todo) \cap tmp' = {},
           proc'[p].pc = "fail" => DocsOf[proc'[p].batch] \cap tmp' = {}
    PROVE  TempsOwned'
<1>1. doc' = doc /\ \A q \in Proc \ {p} : proc'[q] = proc[q]
  BY DEF ProcStep
<1>2. \A b \in Batch : b \in Proc /\ (AllPending(b) => AllPending(b)')
  BY <1>1 DEF AllPending
<1>3. ASSUME NEW d \in tmp'
      PROVE  \E b \in Batch : d \in DocsOf[b] /\ (proc'[b].pc = "persist" \/ AllPending(b)')
  <2>1. PICK b \in Batch : d \in DocsOf[b] /\ (proc[b].pc = "persist" \/ AllPending(b))
    BY <1>3 DEF TempsOwned
  <2>2. CASE AllPending(b)
    BY <1>2, <2>1, <2>2
  <2>3. CASE proc[b].pc = "persist"
    <3>1. b # p
      BY <1>3, <2>1, <2>3
    <3> QED BY <1>1, <1>2, <2>1, <2>3, <3>1
  <2> QED BY <2>1, <2>2, <2>3
<1>4. \A q \in Proc : proc'[q].pc = "promote" => (proc'[q].docs \ proc'[q].todo) \cap tmp' = {}
  BY <1>1 DEF TempsOwned
<1>5. \A q \in Proc : proc'[q].pc = "fail" => DocsOf[proc'[q].batch] \cap tmp' = {}
  BY <1>1 DEF TempsOwned
<1> QED BY <1>3, <1>4, <1>5 DEF TempsOwned

\* The last commit of a coordinator leaves no temporary file of its batch.
LEMMA EndOwnsTemps ==
    ASSUME RowInv, TempsOwned, NEW p \in Proc, End(p), UNCHANGED <<tmp, obj>>,
           proc[p].pc \in {"promote", "fail"}, DocsOf[proc[p].batch] \cap tmp = {},
           \A d \in Doc \ DocsOf[proc[p].batch] : doc'[d] = doc[d]
    PROVE  TempsOwned'
<1>1. /\ \A q \in Proc \ {p} : proc'[q] = proc[q]
      /\ proc'[p].pc \in {"idle", "done"}
  BY EndTyped
<1>2. ASSUME NEW d \in tmp
      PROVE  \E b \in Batch : d \in DocsOf[b] /\ (proc'[b].pc = "persist" \/ AllPending(b)')
  <2>1. PICK b \in Batch : d \in DocsOf[b] /\ (proc[b].pc = "persist" \/ AllPending(b))
    BY DEF TempsOwned
  <2>2. proc[p].batch \in Batch /\ b # proc[p].batch
    BY <2>1 DEF RowInv, ProcsKnow, Serving
  <2>3. \A e \in DocsOf[b] : e \in Doc \ DocsOf[proc[p].batch]
    BY <2>2
  <2>4. AllPending(b) => AllPending(b)'
    BY <2>3 DEF AllPending
  <2>5. proc[b].pc = "persist" => proc'[b].pc = "persist"
    BY <1>1
  <2> QED BY <2>1, <2>4, <2>5
<1>3. \A q \in Proc : proc'[q].pc = "promote" => (proc'[q].docs \ proc'[q].todo) \cap tmp = {}
  BY <1>1 DEF TempsOwned
<1>4. \A q \in Proc : proc'[q].pc = "fail" => DocsOf[proc'[q].batch] \cap tmp = {}
  BY <1>1 DEF TempsOwned
<1> QED BY <1>2, <1>3, <1>4 DEF TempsOwned

\* No request begins with a lock, nor half way through a compensation.
LEMMA StartsUnlocked ==
    ASSUME RowInv, NEW p \in Batch, Check(p) \/ TakeOver(p) \/ Store(p)
    PROVE  proc'[p].pc \notin {"promote", "fail"}
<1>1. proc \in [Proc -> ProcType] /\ p \in Proc
  BY DEF RowInv, Types, Proc
<1>2. CASE Check(p)
  BY <1>1, <1>2 DEF Check, ProcType
<1>3. CASE TakeOver(p)
  <2>1. proc'[p] = [Idle EXCEPT !.pc = "coordinate", !.batch = request.batch, !.req = TRUE]
    BY <1>1, <1>3 DEF TakeOver
  <2> QED BY <2>1 DEF Idle
<1>4. CASE Store(p)
  <2>1. proc' = [proc EXCEPT ![p] = [[proc[p] EXCEPT !.pc = "persist"] EXCEPT !.batch = p]]
    BY <1>1, <1>4 DEF Store
  <2>2. ASSUME NEW x \in ProcType PROVE [[x EXCEPT !.pc = "persist"] EXCEPT !.batch = p].pc = "persist"
    BY DEF ProcType
  <2> QED BY <1>1, <2>1, <2>2
<1> QED BY <1>2, <1>3, <1>4

\* What an upload does.
LEMMA UploadOwnsTemps ==
    ASSUME IInv, WholeInv, TempsOwned, used'.strays = 0, NEW b \in Batch, Check(b) \/ UploadStep(b)
    PROVE  TempsOwned'
<1>1. RowInv /\ Types /\ b \in Proc /\ tmp \cap obj = {} /\ proc[b] \in ProcType
  BY DEF IInv, RowInv, Types, TempsOwned
<1>2. ASSUME ProcStep(b), tmp' \subseteq tmp, obj' \subseteq obj, proc'[b].pc \notin {"promote", "fail"},
             proc[b].pc = "persist" => DocsOf[b] \cap tmp' = {}
      PROVE  TempsOwned'
  BY <1>1, <1>2, ProcStepOwnsTemps
<1>3. CASE Check(b)
  <2>1. proc[b].pc = "idle" /\ UNCHANGED <<tmp, obj>>
    BY <1>3 DEF Check
  <2> QED BY <1>1, <1>2, <1>3, <2>1, UploadTyped, StartsUnlocked
<1>4. CASE TakeOver(b)
  <2>1. proc[b].pc = "find" /\ UNCHANGED <<tmp, obj>>
    BY <1>4 DEF TakeOver
  <2> QED BY <1>1, <1>2, <1>4, <2>1, UploadTyped, StartsUnlocked
<1>5. CASE FindRequest(b)
  <2>1. proc[b].pc = "find" /\ UNCHANGED <<tmp, obj>>
    BY <1>5 DEF FindRequest
  <2>2. "store" \in Early \cup Serving
    BY DEF Early
  <2>3. proc'[b].pc \in {"store", "idle", "done"}
    BY <1>1, <1>5, <2>2, GoTyped, EndTyped DEF FindRequest
  <2> QED BY <1>1, <1>2, <1>5, <2>1, <2>3, UploadTyped
<1>6. CASE Store(b)
  <2>1. /\ proc[b].pc = "store" /\ tmp' = tmp \cup DocsOf[b] /\ UNCHANGED <<doc, obj>>
        /\ \A q \in Proc \ {b} : proc'[q] = proc[q]
        /\ proc'[b].pc = "persist"
    BY <1>1, <1>6 DEF Store, dbVars, Types, ProcType
  <2>2. /\ \A d \in DocsOf[b] : d \in Doc /\ doc[d].status = "absent"
        /\ \A q \in Proc \ {b} : proc[q].batch # b
    BY <2>1 DEF IInv, CoordInv, Uncommitted, Early, Exists
  <2>3. tmp' \cap obj' = {}
    BY <1>1, <2>1, <2>2 DEF WholeInv, FilesHaveRows
  <2>4. \A c \in Batch : AllPending(c) => AllPending(c)'
    BY <2>1 DEF AllPending
  <2>5. \A d \in tmp' : \E c \in Batch : d \in DocsOf[c] /\ (proc'[c].pc = "persist" \/ AllPending(c)')
    <3> SUFFICES ASSUME NEW d \in tmp'
                 PROVE  \E c \in Batch : d \in DocsOf[c] /\ (proc'[c].pc = "persist" \/ AllPending(c)')
      OBVIOUS
    <3>1. CASE d \in DocsOf[b]
      BY <2>1, <3>1
    <3>2. CASE d \in tmp
      <4>1. PICK c \in Batch : d \in DocsOf[c] /\ (proc[c].pc = "persist" \/ AllPending(c))
        BY <3>2 DEF TempsOwned
      <4>2. c \in Proc /\ (proc[c].pc = "persist" => proc'[c].pc = "persist")
        BY <2>1
      <4> QED BY <2>4, <4>1, <4>2
    <3> QED BY <2>1, <3>1, <3>2
  <2>6. ASSUME NEW q \in Proc, proc'[q].pc \in {"promote", "fail"}
        PROVE  /\ proc'[q] = proc[q] /\ proc[q].pc \in {"promote", "fail"}
               /\ DocsOf[proc[q].batch] \cap DocsOf[b] = {}
    <3>1. proc'[q] = proc[q] /\ q # b
      BY <2>1, <2>6
    <3>2. proc[q].batch \in Batch /\ proc[q].batch # b
      BY <1>1, <2>2, <2>6, <3>1 DEF RowInv, ProcsKnow, Serving
    <3> QED BY <2>6, <3>1, <3>2
  <2>7. \A q \in Proc : proc'[q].pc = "promote" => (proc'[q].docs \ proc'[q].todo) \cap tmp' = {}
    <3>1. \A q \in Proc : proc[q].pc = "promote" => proc[q].docs \subseteq DocsOf[proc[q].batch]
      BY DEF IInv, CoordInv, Promoting
    <3> QED BY <2>1, <2>6, <3>1 DEF TempsOwned
  <2>8. \A q \in Proc : proc'[q].pc = "fail" => DocsOf[proc'[q].batch] \cap tmp' = {}
    BY <2>1, <2>6 DEF TempsOwned
  <2> QED BY <2>3, <2>5, <2>7, <2>8 DEF TempsOwned
<1>7. CASE StoreFails(b)
  <2>1. PICK left \in SUBSET DocsOf[b] : Leave(left, 1) /\ tmp' = tmp \cup left
    BY <1>7 DEF StoreFails
  <2>2. left = {}
    BY <1>1, <2>1, LeaveTyped
  <2>3. proc[b].pc = "store" /\ tmp' = tmp /\ obj' = obj /\ End(b)
    BY <1>7, <2>1, <2>2 DEF StoreFails
  <2> QED BY <1>1, <1>2, <1>7, <2>3, UploadTyped, EndTyped
<1>8. CASE PersistFails(b)
  <2>1. PICK fault \in {0, 1}, left \in SUBSET DocsOf[b] :
            /\ Leave(left, fault) /\ tmp' = tmp \ (DocsOf[b] \ left)
            /\ obj' = obj \ (DocsOf[b] \ left)
    BY <1>8 DEF PersistFails
  <2>2. left = {}
    BY <1>1, <2>1, LeaveTyped
  <2>3. tmp' = tmp \ DocsOf[b] /\ obj' \subseteq obj /\ End(b)
    BY <1>8, <2>1, <2>2 DEF PersistFails
  <2> QED BY <1>1, <1>2, <1>8, <2>3, UploadTyped, EndTyped
<1>9. CASE Persist(b)
  <2>1. UNCHANGED <<tmp, obj>>
    BY <1>9 DEF Persist
  <2>2. /\ \A q \in Proc \ {b} : proc'[q] = proc[q]
        /\ proc'[b].pc = "coordinate"
        /\ \A d \in DocsOf[b] : doc'[d].status = "pending"
        /\ \A d \in Doc \ DocsOf[b] : doc'[d] = doc[d]
    BY <1>1, <1>9, PersistChanges
  <2>3. ASSUME NEW d \in tmp
        PROVE  \E c \in Batch : d \in DocsOf[c] /\ (proc'[c].pc = "persist" \/ AllPending(c)')
    <3>1. PICK c \in Batch : d \in DocsOf[c] /\ (proc[c].pc = "persist" \/ AllPending(c))
      BY DEF TempsOwned
    <3>2. CASE c = b
      BY <2>2, <3>1, <3>2 DEF AllPending
    <3>3. CASE c # b
      <4>1. \A e \in DocsOf[c] : e \in Doc \ DocsOf[b]
        BY <3>3
      <4>2. AllPending(c) => AllPending(c)'
        BY <2>2, <4>1 DEF AllPending
      <4> QED BY <2>2, <3>1, <3>3, <4>2
    <3> QED BY <3>2, <3>3
  <2>4. \A q \in Proc : proc'[q].pc = "promote" => (proc'[q].docs \ proc'[q].todo) \cap tmp = {}
    BY <2>2 DEF TempsOwned
  <2>5. \A q \in Proc : proc'[q].pc = "fail" => DocsOf[proc'[q].batch] \cap tmp = {}
    BY <2>2 DEF TempsOwned
  <2> QED BY <1>1, <2>1, <2>3, <2>4, <2>5 DEF TempsOwned
<1> QED BY <1>3, <1>4, <1>5, <1>6, <1>7, <1>8, <1>9 DEF UploadStep

\* What a coordinator does.
LEMMA CoordinatorOwnsTemps ==
    ASSUME IInv, WholeInv, TempsOwned, used'.strays = 0, NEW p \in Proc, CoordinatorStep(p) \/ Crash(p)
    PROVE  TempsOwned'
<1>1. RowInv /\ Types /\ tmp \cap obj = {} /\ proc \in [Proc -> ProcType] /\ proc[p] \in ProcType
  BY DEF IInv, RowInv, Types, TempsOwned
<1>2. ASSUME ProcStep(p), UNCHANGED <<tmp, obj>>, proc'[p].pc \notin {"promote", "fail"},
             proc[p].pc # "persist"
      PROVE  TempsOwned'
  BY <1>1, <1>2, ProcStepOwnsTemps
<1>3. CASE Coordinate(p)
  <2> DEFINE D == {d \in DocsOf[proc[p].batch] : Exists(d)} \ Locked
  <2>1. proc[p].pc = "coordinate" /\ UNCHANGED <<tmp, obj>> /\ ProcStep(p)
    BY <1>1, <1>3, CoordinatorTyped DEF Coordinate
  <2>2. CASE End(p)
    BY <1>1, <1>2, <2>1, <2>2, EndTyped
  <2>3. CASE ~End(p)
    <3>1. proc' = [proc EXCEPT ![p].pc = "promote", ![p].docs = D, ![p].todo = D]
      BY <1>3, <2>3 DEF Coordinate
    <3> HIDE DEF D
    <3>2. proc'[p].pc = "promote" /\ proc'[p].docs = D /\ proc'[p].todo = D
      BY <1>1, <3>1 DEF ProcType
    <3> QED BY <1>1, <2>1, <3>2, ProcStepOwnsTemps
  <2> QED BY <2>2, <2>3
<1>4. CASE PromoteFails(p)
  <2>1. "compensate" \in Early \cup Serving
    BY DEF Serving
  <2>2. proc[p].pc = "promote" /\ UNCHANGED <<tmp, obj>> /\ Go(p, "compensate")
    BY <1>4 DEF PromoteFails
  <2>3. proc'[p].pc = "compensate"
    BY <1>1, <2>1, <2>2, GoTyped
  <2> QED BY <1>1, <1>2, <1>4, <2>2, <2>3, CoordinatorTyped
<1>5. CASE RequestIsStale(p)
  <2>1. proc[p].pc \in {"promote", "fail"} /\ UNCHANGED <<tmp, obj>> /\ End(p)
    BY <1>5 DEF RequestIsStale
  <2> QED BY <1>1, <1>2, <1>5, <2>1, EndTyped, CoordinatorTyped
<1>6. CASE Crash(p)
  <2>1. proc[p].pc # "persist" /\ UNCHANGED <<tmp, obj>> /\ End(p)
    BY <1>1, <1>6, CrashTyped DEF Crash
  <2> QED BY <1>1, <1>2, <1>6, <2>1, EndTyped, CoordinatorTyped
<1>7. ASSUME NEW d \in Doc, Promote(p, d)
      PROVE  TempsOwned'
  <2>1. /\ proc[p].pc = "promote" /\ ProcStep(p) /\ obj' = obj \cup {d}
        /\ tmp' = IF d \in obj THEN tmp ELSE tmp \ {d}
        /\ proc'[p] = [proc[p] EXCEPT !.todo = proc[p].todo \ {d}]
    BY <1>1, <1>7, CoordinatorTyped DEF Promote
  <2>2. tmp' = tmp \ {d}
    BY <1>1, <2>1
  <2>3. /\ proc'[p].pc = "promote" /\ proc'[p].docs = proc[p].docs
        /\ proc'[p].todo = proc[p].todo \ {d}
    BY <1>1, <2>1 DEF ProcType
  <2>4. (proc'[p].docs \ proc'[p].todo) \cap tmp' = {}
    BY <2>1, <2>2, <2>3 DEF TempsOwned
  <2>5. tmp' \cap obj' = {}
    BY <1>1, <2>1, <2>2
  <2> QED BY <2>1, <2>2, <2>3, <2>4, <2>5, ProcStepOwnsTemps
<1>8. CASE CompensateFiles(p)
  <2>1. PICK fault \in {0, 1}, left \in SUBSET DocsOf[proc[p].batch] :
            /\ Leave(left, fault) /\ tmp' = tmp \ (DocsOf[proc[p].batch] \ left)
            /\ obj' = obj \ (DocsOf[proc[p].batch] \ left)
    BY <1>8 DEF CompensateFiles
  <2>2. left = {}
    BY <1>1, <2>1, LeaveTyped
  <2>3. tmp' = tmp \ DocsOf[proc[p].batch] /\ obj' \subseteq obj
    BY <2>1, <2>2
  <2>4. "fail" \in Early \cup Serving
    BY DEF Serving
  <2>5. proc[p].pc = "compensate" /\ proc'[p].pc = "fail" /\ proc'[p].batch = proc[p].batch
    BY <1>1, <1>8, <2>4, GoTyped DEF CompensateFiles
  <2>6. ProcStep(p)
    BY <1>1, <1>8, CoordinatorTyped
  <2> QED BY <1>1, <2>3, <2>5, <2>6, ProcStepOwnsTemps
<1>9. CASE MarkQueued(p) \/ CompensateRows(p)
  <2>1. proc[p].pc \in {"promote", "fail"} /\ End(p) /\ UNCHANGED <<tmp, obj>>
    <3>1. CASE MarkQueued(p)
      BY <1>1, <3>1, MarkQueuedEnds DEF MarkQueued, Ended
    <3>2. CASE CompensateRows(p)
      BY <1>1, <3>2, CompensateRowsEnds DEF CompensateRows, Ended
    <3> QED BY <1>9, <3>1, <3>2
  <2>2. proc[p].docs = DocsOf[proc[p].batch]
    BY <2>1 DEF WholeInv, ServedWhole, Serving
  <2>3. DocsOf[proc[p].batch] \cap tmp = {}
    <3>1. CASE MarkQueued(p)
      <4>1. proc[p].pc = "promote" /\ proc[p].todo = {}
        BY <3>1 DEF MarkQueued
      <4>2. (proc[p].docs \ proc[p].todo) \cap tmp = {}
        BY <4>1 DEF TempsOwned
      <4> QED BY <2>2, <4>1, <4>2
    <3>2. CASE CompensateRows(p)
      BY <3>2 DEF CompensateRows, TempsOwned
    <3> QED BY <1>9, <3>1, <3>2
  <2>4. \A d \in Doc \ proc[p].docs : doc'[d] = doc[d]
    <3>1. CASE MarkQueued(p)
      BY <3>1 DEF MarkQueued
    <3>2. CASE CompensateRows(p)
      BY <3>2 DEF CompensateRows
    <3> QED BY <1>9, <3>1, <3>2
  <2> QED BY <1>1, <2>1, <2>2, <2>3, <2>4, EndOwnsTemps
<1> QED BY <1>3, <1>4, <1>5, <1>6, <1>7, <1>8, <1>9 DEF CoordinatorStep

\* What users, pipeline and scanner do to documents.
LEMMA DeletionOwnsTemps ==
    ASSUME IInv, WholeInv, TempsOwned, used'.early = 0,
           \/ \E d \in Doc : \/ DeleteLock(d) \/ DeleteCommit(d)
                             \/ CleanUp(d) \/ CleanUpFails(d) \/ Process(d)
           \/ KbDeleteEmpty \/ KbDelete \/ KbRetry \/ KbConvergeFails \/ KbConverge
    PROVE  TempsOwned'
<1>1. RowInv
  BY DEF IInv
<1>2. ASSUME NEW d \in Doc, DeleteLock(d)
      PROVE  TempsOwned'
  BY <1>2, RowsOwnTemps DEF DeleteLock, dbVars
<1>3. ASSUME NEW d \in Doc, DeleteCommit(d)
      PROVE  TempsOwned'
  <2>1. doc[d].status # "pending" /\ UNCHANGED <<proc, tmp, obj>>
    BY <1>3 DEF DeleteCommit, WholeInv, HeldConverged
  <2>2. \A e \in Doc \ {d} : doc'[e] = doc[e]
    BY <1>1, <1>3 DEF DeleteCommit, RowInv, Types
  <2> QED BY <2>1, <2>2, RowsOwnTemps
<1>4. ASSUME NEW d \in Doc, CleanUp(d) \/ CleanUpFails(d) \/ Process(d)
      PROVE  TempsOwned'
  <2>1. /\ UNCHANGED <<proc, tmp>> /\ obj' \subseteq obj
        /\ doc[d].status # "pending" /\ \A e \in Doc \ {d} : doc'[e] = doc[e]
    BY <1>1, <1>4, WorkWrites DEF WholeInv, RowsFresh
  <2> QED BY <2>1, RowsOwnTemps
<1>5. CASE KbDeleteEmpty \/ KbConverge
  <2>1. \A d \in Doc : doc[d].status \in {"absent", "deleted"}
    BY <1>5 DEF KbDeleteEmpty, KbConverge, Deletable
  <2>2. UNCHANGED <<proc, tmp, obj>>
    BY <1>5 DEF KbDeleteEmpty, KbConverge
  <2> QED BY <2>1, <2>2, RowsOwnTemps
<1>6. CASE KbDelete
  <2>1. EarlyBy(Deletable) = 0
    <3>1. used'.early = used.early + EarlyBy(Deletable)
      BY <1>1, <1>6 DEF KbDelete, RowInv, Types
    <3>2. used.early \in Nat
      BY <1>1 DEF RowInv, Types
    <3> QED BY <3>1, <3>2, EarlyIsNat
  <2>2. \A d \in Deletable : doc[d].status # "pending"
    BY <2>1 DEF EarlyBy, Unconverged, Deletable
  <2>3. /\ doc' = [d \in Doc |-> IF d \in Deletable THEN Staged(doc[d]) ELSE doc[d]]
        /\ UNCHANGED <<proc, tmp, obj>>
    BY <1>6 DEF KbDelete
  <2>4. \A d \in Doc : doc[d].status = "pending" => doc'[d] = doc[d]
    BY <2>2, <2>3
  <2> QED BY <2>3, <2>4, RowsOwnTemps
<1>7. CASE KbRetry
  <2>1. \A d \in Doc : doc[d].status = "pending" => doc'[d] = doc[d]
    BY <1>7 DEF KbRetry, CleanupFailed
  <2>2. UNCHANGED <<proc, tmp, obj>>
    BY <1>7 DEF KbRetry
  <2> QED BY <2>1, <2>2, RowsOwnTemps
<1>8. CASE KbConvergeFails
  BY <1>8, RowsOwnTemps DEF KbConvergeFails
<1> QED BY <1>2, <1>3, <1>4, <1>5, <1>6, <1>7, <1>8

\* What was left behind is not forgotten.
LEMMA StraysStay == Types /\ [Next]_vars => (used'.strays = 0 => used.strays = 0)
<1> SUFFICES ASSUME Types, [Next]_vars, used'.strays = 0 PROVE used.strays = 0
  OBVIOUS
<1> DEFINE Same == used'.strays = used.strays
<1>1. ASSUME NEW b \in {"crashes", "faults", "deletes", "early", "retries", "removed"},
             NEW max, Spend(b, max)
      PROVE  Same
  BY <1>1 DEF Spend, Types
<1>2. ASSUME NEW b \in Batch, Check(b) \/ UploadStep(b) \/ Scan(b)
      PROVE  used.strays = 0
  <2>1. CASE StoreFails(b) \/ PersistFails(b)
    <3>1. PICK left \in SUBSET DocsOf[b], fault \in {0, 1} : Leave(left, fault)
      BY <2>1 DEF StoreFails, PersistFails
    <3> QED BY <3>1, LeaveTyped
  <2>2. CASE ~(StoreFails(b) \/ PersistFails(b))
    BY <1>2, <2>2 DEF Check, UploadStep, FindRequest, TakeOver, Store, Persist, Scan
  <2> QED BY <2>1, <2>2
<1>3. ASSUME NEW p \in Proc, CoordinatorStep(p) \/ Crash(p)
      PROVE  used.strays = 0
  <2>1. CASE Coordinate(p)
    BY <2>1, Zenon DEF Coordinate
  <2>2. CASE PromoteFails(p)
    BY <1>1, <2>2 DEF PromoteFails
  <2>3. CASE Crash(p)
    BY <2>3, CrashTyped
  <2>4. CASE MarkQueued(p)
    <3>1. UNCHANGED <<kb, tmp, obj, held, used>>
      BY <2>4, Zenon DEF MarkQueued
    <3> QED BY <3>1
  <2>5. CASE CompensateRows(p)
    BY <2>5 DEF CompensateRows
  <2>6. CASE RequestIsStale(p) \/ \E d \in Doc : Promote(p, d)
    BY <2>6, Zenon DEF RequestIsStale, Promote
  <2>7. CASE CompensateFiles(p)
    <3>1. PICK fault \in {0, 1}, left \in SUBSET DocsOf[proc[p].batch] : Leave(left, fault)
      BY <2>7 DEF CompensateFiles
    <3> QED BY <3>1, LeaveTyped
  <2> QED BY <1>3, <2>1, <2>2, <2>3, <2>4, <2>5, <2>6, <2>7 DEF CoordinatorStep
<1>4. CASE RequestExpires \/ RemoveExpired
  BY <1>4 DEF RequestExpires, RemoveExpired, Types
<1>5. ASSUME NEW d \in Doc, DeleteLock(d)
      PROVE  Same
  BY <1>5 DEF DeleteLock, Types
<1>6. ASSUME NEW d \in Doc, DeleteCommit(d) \/ CleanUp(d) \/ CleanUpFails(d) \/ Process(d)
      PROVE  Same
  <2>1. CASE DeleteCommit(d) \/ CleanUp(d) \/ CleanUpFails(d)
    BY <1>1, <2>1 DEF DeleteCommit, CleanUp, CleanUpFails
  <2>2. CASE Process(d)
    BY <2>2, ProcessLeaves
  <2> QED BY <1>6, <2>1, <2>2
<1>7. CASE KbDelete
  BY <1>7 DEF KbDelete, Types
<1>8. CASE KbDeleteEmpty \/ KbRetry \/ KbConvergeFails \/ KbConverge \/ UNCHANGED vars
  BY <1>1, <1>8 DEF KbDeleteEmpty, KbRetry, KbConvergeFails, KbConverge, vars
<1> QED BY <1>2, <1>3, <1>4, <1>5, <1>6, <1>7, <1>8 DEF Next

TempsUnlessStrays == used.early = 0 /\ used.strays = 0 => TempsOwned

LEMMA InitOwnsTemps == Init => TempsUnlessStrays
<1> SUFFICES ASSUME Init PROVE TempsOwned
  BY DEF TempsUnlessStrays
<1>1. tmp = {}
  BY DEF Init
<1> QED BY <1>1 DEF TempsOwned

LEMMA NextOwnsTemps == IInv /\ WholeUnlessEarly /\ TempsUnlessStrays /\ [Next]_vars => TempsUnlessStrays'
<1> SUFFICES ASSUME IInv, WholeUnlessEarly, TempsUnlessStrays, [Next]_vars,
                    used'.early = 0, used'.strays = 0
             PROVE  TempsOwned'
  BY DEF TempsUnlessStrays
<1>1. WholeInv /\ TempsOwned /\ RowInv
  BY EarlyStays, StraysStay DEF WholeUnlessEarly, TempsUnlessStrays, IInv, RowInv
<1>2. ASSUME NEW b \in Batch, Check(b) \/ UploadStep(b)
      PROVE  TempsOwned'
  BY <1>1, <1>2, UploadOwnsTemps
<1>3. ASSUME NEW b \in Batch, Scan(b)
      PROVE  TempsOwned'
  <2>1. /\ ProcStep(Scanner) /\ proc'[Scanner].pc = "coordinate" /\ proc[Scanner].pc = "idle"
        /\ UNCHANGED <<tmp, obj>>
    BY <1>1, <1>3, ScanKeepsRows DEF Scan
  <2>2. Scanner \in Proc /\ tmp \cap obj = {}
    BY <1>1 DEF TempsOwned
  <2> QED BY <1>1, <2>1, <2>2, ProcStepOwnsTemps
<1>4. ASSUME NEW p \in Proc, CoordinatorStep(p) \/ Crash(p)
      PROVE  TempsOwned'
  BY <1>1, <1>4, CoordinatorOwnsTemps
<1>5. CASE RequestExpires \/ RemoveExpired
  BY <1>1, <1>5, RowsOwnTemps DEF RequestExpires, RemoveExpired
<1>6. CASE UNCHANGED vars
  BY <1>1, <1>6, RowsOwnTemps DEF vars
<1> QED BY <1>1, <1>2, <1>3, <1>4, <1>5, <1>6, DeletionOwnsTemps DEF Next

-----------------------------------------------------------------------------
\* A deletion, its cleanup and the pipeline write one row at a time.
LEMMA OneRowChanges ==
    ASSUME RowInv, NEW d \in Doc, DeleteCommit(d) \/ CleanUp(d) \/ CleanUpFails(d) \/ Process(d)
    PROVE  \A e \in Doc \ {d} : doc'[e] = doc[e]
BY WorkWrites DEF DeleteCommit, RowInv, Types

\* No step brings a tombstone back, if no DELETE holds one, no cleanup of one
\* fails and no compensation covers one.
LEMMA NextKeepsTombstones ==
    ASSUME IInv, [Next]_vars,
           \A d \in held : doc[d].status # "deleted",
           \A d \in Doc : CleanUpFails(d) => doc[d].status # "deleted",
           \A p \in Proc : CompensateRows(p) => \A d \in proc[p].docs : doc[d].status # "deleted"
    PROVE  \A d \in Doc : doc[d].status = "deleted" => doc'[d].status \in {"deleted", "absent"}
<1> DEFINE Stays == \A d \in Doc : doc[d].status = "deleted" => doc'[d].status \in {"deleted", "absent"}
<1>1. ASSUME \A d \in Doc : doc[d].status = "deleted" => doc'[d] = doc[d] PROVE Stays
  BY <1>1
<1>2. RowInv
  BY DEF IInv
<1>3. ASSUME NEW b \in Batch, Check(b) \/ UploadStep(b) \/ Scan(b)
      PROVE  Stays
  <2>1. CASE Persist(b)
    <3>1. \A d \in DocsOf[b] : doc[d].status = "absent"
      BY <1>2, <2>1, PersistChanges DEF IInv, CoordInv, Uncommitted, Early, Exists
    <3> QED BY <1>1, <1>2, <2>1, <3>1, PersistChanges
  <2>2. CASE ~Persist(b)
    <3>1. doc' = doc
      BY <1>2, <1>3, <2>2, UploadTyped, ScanKeepsRows DEF UploadStep, ProcStep
    <3> QED BY <1>1, <3>1
  <2> QED BY <2>1, <2>2
<1>4. ASSUME NEW p \in Proc, CoordinatorStep(p) \/ Crash(p)
      PROVE  Stays
  <2>1. CASE MarkQueued(p)
    BY <1>2, <2>1, MarkQueuedEnds
  <2>2. CASE CompensateRows(p)
    <3>1. \A d \in Doc \ proc[p].docs : doc'[d] = doc[d]
      BY <2>2 DEF CompensateRows
    <3>2. \A d \in proc[p].docs : doc[d].status # "deleted"
      BY <2>2
    <3> QED BY <1>1, <3>1, <3>2
  <2>3. CASE ~MarkQueued(p) /\ ~CompensateRows(p)
    <3>1. doc' = doc
      BY <1>2, <1>4, <2>3, CoordinatorTyped DEF CoordinatorStep, ProcStep
    <3> QED BY <1>1, <3>1
  <2> QED BY <2>1, <2>2, <2>3
<1>5. CASE RequestExpires \/ RemoveExpired
  BY <1>1, <1>5 DEF RequestExpires, RemoveExpired
<1>6. ASSUME NEW d \in Doc, DeleteLock(d)
      PROVE  Stays
  BY <1>1, <1>6 DEF DeleteLock, dbVars
<1>7. ASSUME NEW d \in Doc, DeleteCommit(d) \/ CleanUp(d) \/ CleanUpFails(d) \/ Process(d)
      PROVE  Stays
  <2>1. doc[d].status # "deleted" \/ doc'[d].status = "deleted"
    <3>1. CASE CleanUp(d)
      BY <1>2, <3>1 DEF CleanUp, RowInv, Types, Row
    <3>2. CASE DeleteCommit(d) \/ CleanUpFails(d)
      BY <3>2 DEF DeleteCommit
    <3>3. CASE Process(d)
      BY <1>2, <3>3, ProcessWorks DEF Worked
    <3> QED BY <1>7, <3>1, <3>2, <3>3
  <2>2. \A e \in Doc \ {d} : doc'[e] = doc[e]
    BY <1>2, <1>7, OneRowChanges
  <2> QED BY <1>1, <2>1, <2>2
<1>8. CASE KbDelete
  BY <1>1, <1>8 DEF KbDelete, Deletable
<1>9. CASE KbRetry
  BY <1>1, <1>9 DEF KbRetry, CleanupFailed
<1>10. CASE KbDeleteEmpty \/ KbConverge
  BY <1>10 DEF KbDeleteEmpty, KbConverge, RemoveAll, NoRow
<1>11. CASE KbConvergeFails \/ UNCHANGED vars
  BY <1>1, <1>11 DEF KbConvergeFails, vars
<1> QED BY <1>3, <1>4, <1>5, <1>6, <1>7, <1>8, <1>9, <1>10, <1>11 DEF Next

\* While batches are whole there is none of these.
LEMMA WholeKeepsTombstones ==
    ASSUME IInv, WholeInv, [Next]_vars
    PROVE  \A d \in Doc : doc[d].status = "deleted" => doc'[d].status \in {"deleted", "absent"}
<1>1. \A d \in held : doc[d].status # "deleted"
  BY DEF WholeInv, HeldConverged
<1>2. \A d \in Doc : CleanUpFails(d) => doc[d].status # "deleted"
  BY DEF CleanUpFails, WholeInv, RowsFresh
<1>3. ASSUME NEW p \in Proc, CompensateRows(p), NEW d \in proc[p].docs
      PROVE  doc[d].status # "deleted"
  <2>1. proc[p].pc = "fail"
    BY <1>3 DEF CompensateRows
  <2>2. doc[d].status = "pending"
    BY <1>3, <2>1 DEF WholeInv, ServedWhole, AllPending, Serving
  <2> QED BY <2>2
<1> QED BY <1>1, <1>2, <1>3, NextKeepsTombstones

\* Nor is there when nobody dies and no I/O fails.
LEMMA SmoothKeepsTombstones ==
    ASSUME IInv, SmoothInv, Quiet', [Next]_vars
    PROVE  \A d \in Doc : doc[d].status = "deleted" => doc'[d].status \in {"deleted", "absent"}
<1>1. \A d \in held : doc[d].status # "deleted"
  BY DEF SmoothInv, HeldLive
<1>2. \A d \in Doc : ~CleanUpFails(d)
  BY TroubleIsCounted DEF CleanUpFails, IInv, RowInv
<1>3. \A p \in Proc : ~CompensateRows(p)
  BY DEF CompensateRows, SmoothInv, NothingFails
<1> QED BY <1>1, <1>2, <1>3, NextKeepsTombstones

-----------------------------------------------------------------------------
(* The refinement of BatchLife.  Cleanups are due for deletions only and not *)
(* while a stage runs, a document is processed as long as its stage runs, and*)
(* it is not locked by a coordinator and a DELETE at once.                   *)
Orderly(r) ==
    /\ r.cleanup => r.status \in {"deleting", "failed"} /\ r.task # "running"
    /\ r.task = "running" => r.status \in {"processing", "deleting"}
    /\ r.status = "processing" => r.task = "running"

RowsOrderly == \A d \in Doc : Orderly(doc[d])
LocksApart == \A p \in Proc : proc[p].pc = "promote" => proc[p].docs \cap held = {}

DeletionInv == RowsOrderly /\ LocksApart

\* A deletion leaves a row in order.
LEMMA StagedIsOrderly == ASSUME NEW r \in Row, Orderly(r) PROVE Orderly(Staged(r))
<1>1. CASE r.status = "deleting"
  BY <1>1 DEF Staged
<1>2. CASE r.status # "deleting"
  <2>1. /\ Staged(r).status \in {"deleting", "failed"} /\ Staged(r).cleanup = (r.task # "running")
        /\ Staged(r).status = "failed" => r.status = "failed"
        /\ Staged(r).task = "running" <=> r.task = "running"
    BY <1>2 DEF Staged, Row
  <2> QED BY <2>1 DEF Orderly
<1> QED BY <1>1, <1>2

\* A step of one coordinator that locks no row that a DELETE holds.
LEMMA ProcStepKeepsDeletions ==
    ASSUME DeletionInv, NEW p \in Proc, ProcStep(p),
           proc'[p].pc = "promote" => proc'[p].docs \cap held = {}
    PROVE  DeletionInv'
BY DEF DeletionInv, RowsOrderly, LocksApart, ProcStep

\* The steps of coordinators and requests keep locks apart.
LEMMA ServiceKeepsDeletions ==
    ASSUME RowInv, DeletionInv, NEW p \in Proc,
           \/ p \in Batch /\ (Check(p) \/ UploadStep(p) \/ Scan(p))
           \/ CoordinatorStep(p) \/ Crash(p)
    PROVE  DeletionInv'
<1>1. ASSUME p \in Batch, Check(p) \/ FindRequest(p) \/ TakeOver(p) \/ Store(p) \/ StoreFails(p) \/ PersistFails(p)
      PROVE  DeletionInv'
  <2>1. ProcStep(p)
    BY <1>1, UploadTyped
  <2>2. proc'[p].pc # "promote"
    <3>1. CASE Check(p)
      BY <1>1, <3>1, StartsUnlocked
    <3>2. CASE TakeOver(p)
      BY <1>1, <3>2, StartsUnlocked
    <3>3. CASE Store(p)
      BY <1>1, <3>3, StartsUnlocked
    <3>4. CASE Go(p, "store")
      <4>1. "store" \in Early \cup Serving
        BY DEF Early
      <4>2. proc'[p].pc = "store"
        BY <3>4, <4>1, GoTyped
      <4> QED BY <4>2
    <3>5. CASE End(p)
      BY <3>5, EndTyped
    <3> QED BY <1>1, <3>1, <3>2, <3>3, <3>4, <3>5 DEF FindRequest, StoreFails, PersistFails
  <2> QED BY <2>1, <2>2, ProcStepKeepsDeletions
<1>2. ASSUME p \in Batch, Persist(p)
      PROVE  DeletionInv'
  <2>1. RowsOrderly'
    <3>1. \A d \in Doc : doc'[d] = doc[d] \/ doc'[d] = [NoRow EXCEPT !.status = "pending", !.task = "pending"]
      BY <1>2 DEF Persist
    <3>2. Orderly([NoRow EXCEPT !.status = "pending", !.task = "pending"])
      BY DEF NoRow, Orderly
    <3> QED BY <3>1, <3>2 DEF DeletionInv, RowsOrderly
  <2>2. held' = held /\ proc'[p].pc # "promote" /\ \A q \in Proc \ {p} : proc'[q] = proc[q]
    BY <1>2, PersistChanges DEF Persist
  <2> QED BY <2>1, <2>2 DEF DeletionInv, LocksApart
<1>3. ASSUME p \in Batch, Scan(p)
      PROVE  DeletionInv'
  BY <1>3, ScanKeepsRows, ProcStepKeepsDeletions
<1>4. ASSUME \/ Coordinate(p) \/ PromoteFails(p) \/ CompensateFiles(p) \/ RequestIsStale(p) \/ Crash(p)
             \/ \E d \in Doc : Promote(p, d)
      PROVE  DeletionInv'
  <2>1. ProcStep(p) /\ proc[p] \in ProcType
    BY <1>4, CoordinatorTyped DEF RowInv, Types
  <2>2. CASE Coordinate(p) /\ ~End(p)
    <3> DEFINE D == {d \in DocsOf[proc[p].batch] : Exists(d)} \ Locked
    <3>1. proc' = [proc EXCEPT ![p].pc = "promote", ![p].docs = D, ![p].todo = D]
      BY <2>2 DEF Coordinate
    <3>2. D \cap held = {}
      BY DEF Locked
    <3> HIDE DEF D
    <3>3. proc'[p].docs = D
      BY <2>1, <3>1 DEF RowInv, Types, ProcType
    <3> QED BY <2>1, <3>2, <3>3, ProcStepKeepsDeletions
  <2>3. CASE End(p)
    BY <2>1, <2>3, EndTyped, ProcStepKeepsDeletions
  <2>4. CASE Go(p, "compensate") \/ Go(p, "fail")
    <3>1. "compensate" \in Early \cup Serving /\ "fail" \in Early \cup Serving
      BY DEF Serving
    <3>2. proc'[p].pc # "promote"
      <4>1. CASE Go(p, "compensate")
        BY <3>1, <4>1, GoTyped
      <4>2. CASE Go(p, "fail")
        BY <3>1, <4>2, GoTyped
      <4> QED BY <2>4, <4>1, <4>2
    <3> QED BY <2>1, <3>2, ProcStepKeepsDeletions
  <2>5. ASSUME NEW d \in Doc, Promote(p, d)
        PROVE  DeletionInv'
    <3>1. proc[p].pc = "promote" /\ proc'[p].docs = proc[p].docs
      BY <2>1, <2>5 DEF Promote, RowInv, Types, ProcType
    <3> QED BY <2>1, <3>1, ProcStepKeepsDeletions DEF DeletionInv, LocksApart
  <2> QED BY <1>4, <2>2, <2>3, <2>4, <2>5 DEF PromoteFails, CompensateFiles, RequestIsStale, Crash
<1>5. ASSUME MarkQueued(p)
      PROVE  DeletionInv'
  <2>1. RowsOrderly'
    <3>1. ASSUME NEW r \in Row, r.status = "pending", Orderly(r)
          PROVE  Orderly([r EXCEPT !.status = "queued", !.task = "queued"])
      <4> DEFINE s == [r EXCEPT !.status = "queued", !.task = "queued"]
      <4>1. s.status = "queued" /\ s.task = "queued" /\ s.cleanup = r.cleanup
        BY MovedRow
      <4> HIDE DEF s
      <4> QED BY <3>1, <4>1 DEF Orderly
    <3>2. \A d \in Doc : \/ doc'[d] = doc[d]
                          \/ /\ doc[d].status = "pending"
                             /\ doc'[d] = [doc[d] EXCEPT !.status = "queued", !.task = "queued"]
      BY <1>5 DEF MarkQueued
    <3>3. ASSUME NEW d \in Doc PROVE Orderly(doc'[d])
      <4>1. doc[d] \in Row /\ Orderly(doc[d])
        BY DEF DeletionInv, RowsOrderly, RowInv, Types
      <4> QED BY <3>1, <3>2, <4>1, Zenon
    <3> QED BY <3>3 DEF RowsOrderly
  <2>2. held' = held /\ End(p)
    BY <1>5, MarkQueuedEnds DEF Ended
  <2>3. LocksApart'
    BY <2>2, EndTyped DEF DeletionInv, LocksApart
  <2> QED BY <2>1, <2>3 DEF DeletionInv
<1>6. ASSUME CompensateRows(p)
      PROVE  DeletionInv'
  <2>1. RowsOrderly'
    <3>1. ASSUME NEW d \in Doc
          PROVE  doc'[d] = doc[d] \/ (doc'[d].status = "failed" /\ doc'[d].task = "failed")
      <4>1. CASE d \in proc[p].docs /\ Exists(d)
        BY <1>6, <4>1 DEF CompensateRows
      <4>2. CASE ~(d \in proc[p].docs /\ Exists(d))
        BY <1>6, <4>2 DEF CompensateRows
      <4> QED BY <4>1, <4>2
    <3>2. ASSUME NEW d \in Doc PROVE Orderly(doc'[d])
      <4>1. CASE doc'[d] = doc[d]
        BY <4>1 DEF DeletionInv, RowsOrderly
      <4>2. CASE doc'[d].status = "failed" /\ doc'[d].task = "failed"
        BY <4>2 DEF Orderly
      <4> QED BY <3>1, <4>1, <4>2
    <3> QED BY <3>2 DEF RowsOrderly
  <2>2. held' = held /\ End(p)
    BY <1>6, CompensateRowsEnds DEF Ended
  <2>3. LocksApart'
    BY <2>2, EndTyped DEF DeletionInv, LocksApart
  <2> QED BY <2>1, <2>3 DEF DeletionInv
<1> QED BY <1>1, <1>2, <1>3, <1>4, <1>5, <1>6 DEF UploadStep, CoordinatorStep

\* The work on one document takes no locks, and leaves its row in order.
LEMMA WorkLeavesLocks ==
    ASSUME NEW d \in Doc, DeleteCommit(d) \/ CleanUp(d) \/ CleanUpFails(d) \/ Process(d)
    PROVE  UNCHANGED proc /\ held' \subseteq held
BY ProcessLeaves DEF DeleteCommit, CleanUp, CleanUpFails

LEMMA WorkIsOrderly ==
    ASSUME RowInv, RowsOrderly, NEW d \in Doc, CleanUp(d) \/ CleanUpFails(d) \/ Process(d)
    PROVE  Orderly(doc'[d])
<1>1. doc \in [Doc -> Row] /\ Orderly(doc[d])
  BY DEF RowInv, Types, RowsOrderly
<1>2. CASE CleanUp(d) \/ CleanUpFails(d)
  <2>1. /\ doc[d].cleanup /\ ~doc'[d].cleanup /\ doc'[d].task = doc[d].task
        /\ doc'[d].status \in {"failed", "deleted"}
    BY <1>1, <1>2 DEF CleanUp, CleanUpFails, Row
  <2> QED BY <1>1, <2>1 DEF Orderly
<1>3. CASE Process(d)
  BY <1>1, <1>3, ProcessWorks DEF Worked, Orderly
<1> QED BY <1>2, <1>3

\* The steps of the users, the pipeline and the scanner keep cleanups to deletions.
LEMMA DeletionsAreKept ==
    ASSUME RowInv, DeletionInv,
           \/ \E d \in Doc : \/ DeleteLock(d) \/ DeleteCommit(d)
                             \/ CleanUp(d) \/ CleanUpFails(d) \/ Process(d)
           \/ KbDeleteEmpty \/ KbDelete \/ KbRetry \/ KbConvergeFails \/ KbConverge
    PROVE  DeletionInv'
<1>1. doc \in [Doc -> Row]
  BY DEF RowInv, Types
<1>2. ASSUME UNCHANGED proc, held' \subseteq held PROVE LocksApart'
  BY <1>2 DEF DeletionInv, LocksApart
<1>3. ASSUME NEW S \in SUBSET Doc, doc' = [d \in Doc |-> IF d \in S THEN Staged(doc[d]) ELSE doc[d]]
      PROVE  RowsOrderly'
  BY <1>1, <1>3, StagedIsOrderly DEF DeletionInv, RowsOrderly
<1>4. ASSUME NEW d \in Doc, DeleteLock(d)
      PROVE  DeletionInv'
  <2>1. UNCHANGED <<doc, proc>> /\ held' = held \cup {d} /\ d \notin Locked
    BY <1>4 DEF DeleteLock, dbVars
  <2>2. \A p \in Proc : proc[p].pc = "promote" => d \notin proc[p].docs
    BY <2>1 DEF Locked, LockedBy
  <2> QED BY <2>1, <2>2 DEF DeletionInv, RowsOrderly, LocksApart
<1>5. ASSUME NEW d \in Doc, DeleteCommit(d)
      PROVE  DeletionInv'
  <2>1. doc' = [e \in Doc |-> IF e \in {d} THEN Staged(doc[e]) ELSE doc[e]]
    BY <1>1, <1>5 DEF DeleteCommit
  <2>2. UNCHANGED proc /\ held' \subseteq held
    BY <1>5, WorkLeavesLocks
  <2>3. {d} \in SUBSET Doc
    OBVIOUS
  <2>4. RowsOrderly'
    BY <1>3, <2>1, <2>3
  <2> QED BY <1>2, <2>2, <2>4 DEF DeletionInv
<1>6. ASSUME NEW d \in Doc, CleanUp(d) \/ CleanUpFails(d) \/ Process(d)
      PROVE  DeletionInv'
  <2>1. Orderly(doc'[d])
    BY <1>6, WorkIsOrderly DEF DeletionInv
  <2>2. \A e \in Doc \ {d} : doc'[e] = doc[e]
    BY <1>6, OneRowChanges
  <2>3. RowsOrderly'
    BY <2>1, <2>2 DEF DeletionInv, RowsOrderly
  <2>4. UNCHANGED proc /\ held' \subseteq held
    BY <1>6, WorkLeavesLocks
  <2> QED BY <1>2, <2>3, <2>4 DEF DeletionInv
<1>7. CASE KbDelete \/ KbRetry
  <2>1. PICK S \in SUBSET Doc : doc' = [d \in Doc |-> IF d \in S THEN Staged(doc[d]) ELSE doc[d]]
    <3>1. CASE KbDelete
      BY <3>1 DEF KbDelete, Deletable
    <3>2. CASE KbRetry
      <4> DEFINE S == {d \in Doc : CleanupFailed(d)}
      <4>1. doc' = [d \in Doc |-> IF d \in S THEN Staged(doc[d]) ELSE doc[d]]
        BY <3>2 DEF KbRetry
      <4>2. S \in SUBSET Doc
        OBVIOUS
      <4> QED BY <4>1, <4>2
    <3> QED BY <1>7, <3>1, <3>2
  <2>2. UNCHANGED proc /\ held' = held
    BY <1>7 DEF KbDelete, KbRetry
  <2> QED BY <1>2, <1>3, <2>1, <2>2 DEF DeletionInv
<1>8. CASE KbDeleteEmpty \/ KbConverge
  <2>1. RemoveAll /\ UNCHANGED <<proc, held>>
    BY <1>8 DEF KbDeleteEmpty, KbConverge
  <2>2. RowsOrderly'
    <3>1. Orderly(NoRow)
      BY DEF NoRow, Orderly
    <3> QED BY <2>1, <3>1 DEF RemoveAll, RowsOrderly
  <2> QED BY <1>2, <2>1, <2>2 DEF DeletionInv
<1>9. CASE KbConvergeFails
  BY <1>9 DEF KbConvergeFails, DeletionInv, RowsOrderly, LocksApart
<1> QED BY <1>4, <1>5, <1>6, <1>7, <1>8, <1>9

LEMMA NextKeepsDeletions == RowInv /\ DeletionInv /\ [Next]_vars => DeletionInv'
<1> SUFFICES ASSUME RowInv, DeletionInv, [Next]_vars PROVE DeletionInv'
  OBVIOUS
<1>1. ASSUME NEW b \in Batch, Check(b) \/ UploadStep(b) \/ Scan(b)
      PROVE  DeletionInv'
  <2>1. b \in Proc
    OBVIOUS
  <2> QED BY <1>1, <2>1, ServiceKeepsDeletions
<1>2. ASSUME NEW p \in Proc, CoordinatorStep(p) \/ Crash(p)
      PROVE  DeletionInv'
  BY <1>2, ServiceKeepsDeletions
<1>3. CASE RequestExpires \/ RemoveExpired
  BY <1>3, ExpiryKeepsRows DEF DeletionInv, RowsOrderly, LocksApart
<1>4. CASE UNCHANGED vars
  BY <1>4 DEF vars, DeletionInv, RowsOrderly, LocksApart
<1> QED BY <1>1, <1>2, <1>3, <1>4, DeletionsAreKept DEF Next

\* What the request and the documents of a batch are when its coordinator decides.
Decides ==
    \A p \in Proc : proc[p].pc \in {"promote", "fail"} =>
        /\ request.batch = proc[p].batch => request.status = "coordinating"
        /\ proc[p].pc = "fail" => AllPending(proc[p].batch) /\ proc[p].docs = DocsOf[proc[p].batch]

LifeInv == HeldLive /\ Decides

\* It is so while batches are whole, and while nobody dies and no I/O fails.
LEMMA WholeDecides == WholeInv => LifeInv
<1> SUFFICES ASSUME WholeInv PROVE LifeInv
  OBVIOUS
<1>1. HeldLive
  BY DEF WholeInv, HeldConverged, HeldLive
<1>2. Decides
  BY DEF WholeInv, ServedWhole, Decides, Serving
<1> QED BY <1>1, <1>2 DEF LifeInv

LEMMA SmoothDecides == IInv /\ SmoothInv => LifeInv
<1> SUFFICES ASSUME IInv, SmoothInv PROVE LifeInv
  OBVIOUS
<1>1. HeldLive
  BY DEF SmoothInv
<1>2. ASSUME NEW p \in Proc, proc[p].pc \in {"promote", "fail"}, request.batch = proc[p].batch
      PROVE  request.status = "coordinating"
  <2>1. request.batch \in Batch
    BY <1>2 DEF IInv, RowInv, ProcsKnow, Serving
  <2>2. request.status # "none"
    BY <2>1 DEF IInv, RowInv, RequestOwned
  <2>3. request.status # "accepted"
    BY <1>2 DEF SmoothInv, AcceptedDone
  <2>4. request.status # "failed"
    BY DEF SmoothInv, NothingFails
  <2>5. request.status \in {"none", "coordinating", "accepted", "failed"}
    BY DEF IInv, RowInv, Types, Request
  <2> QED BY <2>2, <2>3, <2>4, <2>5
<1>3. \A p \in Proc : proc[p].pc # "fail"
  BY DEF SmoothInv, NothingFails
<1> QED BY <1>1, <1>2, <1>3 DEF LifeInv, Decides

\* The fate of a row tells apart what the abstract steps tell apart.
LEMMA FateOfRow ==
    ASSUME NEW r \in Row
    PROVE  /\ \A s \in {"absent", "pending", "queued", "processing", "deleted"} :
                Fate(r) = s <=> r.status = s
           /\ Fate(r) = "interrupted" <=> r.status = "deleting" /\ r.task = "running"
           /\ r.status = "deleting" /\ r.task # "running" => Fate(r) = "deleting"
           /\ r.status = "completed" => Fate(r) = "completed"
           /\ r.status = "failed" /\ (r.cleanup \/ r.error = 20015) => Fate(r) = "deleting"
           /\ r.status = "failed" /\ ~r.cleanup /\ r.error = 20011 => Fate(r) = "unsent"
           /\ r.status = "failed" /\ ~r.cleanup /\ r.error = 20012 => Fate(r) = "failed"
BY DEF Fate, Row

LEMMA FateOfStaged ==
    ASSUME NEW r \in Row, Orderly(r)
    PROVE  Fate(Staged(r)) = Life!Going(Fate(r))
<1>1. CASE r.status = "deleting"
  BY <1>1, FateOfRow DEF Staged, Life!Going
<1>2. CASE r.status = "processing"
  <2>1. Staged(r) \in Row /\ Staged(r).status = "deleting" /\ Staged(r).task = "running"
    BY <1>2, StagedIsRow DEF Staged, Orderly
  <2> QED BY <1>2, <2>1, FateOfRow DEF Life!Going
<1>3. CASE r.status \notin {"deleting", "processing"}
  <2>1. r.task # "running" /\ Fate(r) \notin {"processing", "interrupted"}
    BY <1>3, FateOfRow DEF Orderly
  <2>2. /\ Staged(r).status \in {"deleting", "failed"} /\ Staged(r).cleanup = (r.task # "running")
        /\ Staged(r).task = "running" <=> r.task = "running"
    BY <1>3 DEF Staged, Row
  <2>3. Staged(r) \in Row
    BY StagedIsRow
  <2>4. Fate(Staged(r)) = "deleting"
    <3>1. Staged(r).cleanup /\ Staged(r).task # "running"
      BY <2>1, <2>2
    <3> DEFINE s == Staged(r)
    <3>2. s \in Row /\ s.cleanup /\ s.task # "running" /\ s.status \in {"deleting", "failed"}
      BY <2>2, <2>3, <3>1
    <3> HIDE DEF s
    <3>3. Fate(s) = "deleting"
      BY <3>2, FateOfRow
    <3> QED BY <3>3 DEF s
  <2> QED BY <2>1, <2>4 DEF Life!Going
<1> QED BY <1>1, <1>2, <1>3

\* The documents of D become s, all others keep their fate.
LEMMA Becomes ==
    ASSUME NEW D, NEW s,
           \A d \in Doc : Fate(doc'[d]) = IF d \in D THEN s ELSE Fate(doc[d])
    PROVE  Life!Become(D, s)
BY DEF Life!Become, Fates

\* The documents of D are being deleted.
LEMMA Goes ==
    ASSUME NEW D,
           \A d \in Doc : Fate(doc'[d]) = IF d \in D THEN Life!Going(Fate(doc[d])) ELSE Fate(doc[d])
    PROVE  Life!Go(D)
BY DEF Life!Go, Fates

LEMMA FatesStay ==
    ASSUME \A d \in Doc : Fate(doc'[d]) = Fate(doc[d])
    PROVE  Fates' = Fates
BY DEF Fates

\* The live documents, and the pending ones of a batch.
LEMMA LiveIsDeletable == RowInv => Life!Live = Deletable
<1> SUFFICES ASSUME RowInv PROVE Life!Live = Deletable
  OBVIOUS
<1>1. \A d \in Doc : Fate(doc[d]) \notin {"absent", "deleted"} <=> doc[d].status \notin {"absent", "deleted"}
  BY FateOfRow DEF RowInv, Types
<1> QED BY <1>1 DEF Life!Live, Deletable, Fates

LEMMA PendingByFate ==
    ASSUME RowInv, NEW b \in Batch
    PROVE  Life!Pending(b) = {d \in DocsOf[b] : doc[d].status = "pending"}
<1>1. \A d \in DocsOf[b] : d \in Doc /\ doc[d] \in Row
  BY UploadAssumption DEF RowInv, Types
<1>2. \A d \in DocsOf[b] : Fates[d] = "pending" <=> doc[d].status = "pending"
  BY <1>1, FateOfRow DEF Fates
<1> QED BY <1>2 DEF Life!Pending

-----------------------------------------------------------------------------
(* Each commit is a step of the life of a batch. *)
LEMMA PersistIsArrive ==
    ASSUME IInv, NEW b \in Batch, Persist(b)
    PROVE  Life!Arrive(b)
<1>1. /\ proc[b].pc = "persist" /\ UNCHANGED held /\ (b \in Keyed => request.status = "none")
      /\ request' = (IF b \in Keyed THEN [status |-> "coordinating", batch |-> b, expired |-> FALSE]
                     ELSE request)
  BY DEF Persist
<1>2. \A d \in DocsOf[b] : d \in Doc /\ doc[d].status = "absent"
  BY <1>1, UploadAssumption DEF IInv, CoordInv, Uncommitted, Early, Exists
<1>3. /\ doc' \in [Doc -> Row]
      /\ \A d \in DocsOf[b] : doc'[d].status = "pending"
      /\ \A d \in Doc \ DocsOf[b] : doc'[d] = doc[d]
  BY PersistChanges DEF IInv
<1>4. Life!Become(DocsOf[b], "pending")
  <2>1. \A d \in DocsOf[b] : Fate(doc'[d]) = "pending"
    BY <1>2, <1>3, FateOfRow
  <2> QED BY <1>3, <2>1, Becomes
<1>5. \A d \in DocsOf[b] : Fates[d] = "absent"
  <2>1. doc \in [Doc -> Row]
    BY DEF IInv, RowInv, Types
  <2> QED BY <1>2, <2>1, FateOfRow DEF Fates
<1>6. \/ b \in Keyed /\ request.status = "none" /\ request'.status = "coordinating" /\ request'.batch = b
      \/ b \notin Keyed /\ UNCHANGED request
  BY <1>1
<1> QED BY <1>1, <1>4, <1>5, <1>6 DEF Life!Arrive

\* The verdict of the coordinator p, in the request it has loaded.
LEMMA VerdictIsGiven ==
    ASSUME IInv, LifeInv, NEW p \in Proc, proc[p].pc \in {"promote", "fail"},
           NEW s \in {"accepted", "failed"}, Ended(p, s)
    PROVE  Life!Verdict(proc[p].batch, s)
<1>1. request.batch = proc[p].batch => request.status = "coordinating"
  BY DEF LifeInv, Decides
<1>2. request \in Request /\ UNCHANGED held
  BY DEF Ended, IInv, RowInv, Types
<1>3. CASE proc[p].req
  <2>1. request.batch = proc[p].batch /\ request' = [request EXCEPT !.status = s]
    BY <1>3 DEF Ended, RequestLives
  <2>2. request'.status = s /\ request'.batch = request.batch
    BY <1>2, <2>1 DEF Request
  <2> QED BY <1>1, <1>2, <2>1, <2>2 DEF Life!Verdict
<1>4. CASE ~proc[p].req
  <2>1. request.batch # proc[p].batch /\ request' = request
    BY <1>4 DEF Ended, IInv, CoordInv, RequestLoaded, Serving
  <2> QED BY <1>2, <2>1 DEF Life!Verdict
<1> QED BY <1>3, <1>4

LEMMA MarkQueuedIsAccept ==
    ASSUME IInv, DeletionInv, LifeInv, NEW p \in Proc, MarkQueued(p)
    PROVE  proc[p].batch \in Batch /\ Life!Accept(proc[p].batch)
<1> DEFINE b == proc[p].batch
<1>1. proc[p].pc = "promote"
  BY DEF MarkQueued
<1>2. b \in Batch
  BY <1>1 DEF IInv, RowInv, ProcsKnow, Serving
<1>3. /\ proc[p].docs \subseteq DocsOf[b]
      /\ \A d \in DocsOf[b] \ proc[p].docs : doc[d].status = "pending" => d \in held
  BY <1>1 DEF IInv, CoordInv, Promoting
<1>4. proc[p].docs \cap held = {}
  BY <1>1 DEF DeletionInv, LocksApart
<1>5. Life!Pending(b) \ held = {d \in proc[p].docs : doc[d].status = "pending"}
  <2>1. Life!Pending(b) = {d \in DocsOf[b] : doc[d].status = "pending"}
    BY <1>2, PendingByFate DEF IInv
  <2> QED BY <1>3, <1>4, <2>1
<1>6. Ended(p, "accepted")
  BY MarkQueuedEnds DEF IInv
<1>7. \A d \in Doc : IF d \in proc[p].docs /\ doc[d].status = "pending"
                     THEN doc'[d].status = "queued" ELSE doc'[d] = doc[d]
  <2>1. \A d \in Doc : doc'[d].status = IF d \in proc[p].docs /\ doc[d].status = "pending"
                                        THEN "queued" ELSE doc[d].status
    BY MarkQueuedEnds DEF IInv
  <2>2. \A d \in Doc : ~(d \in proc[p].docs /\ doc[d].status = "pending") => doc'[d] = doc[d]
    BY DEF MarkQueued
  <2> QED BY <2>1, <2>2
<1>8. Life!Become(Life!Pending(b) \ held, "queued")
  <2> DEFINE D == {d \in proc[p].docs : doc[d].status = "pending"}
  <2>1. doc' \in [Doc -> Row]
    BY <1>6 DEF Ended
  <2>2. \A d \in Doc : Fate(doc'[d]) = IF d \in D THEN "queued" ELSE Fate(doc[d])
    BY <1>7, <2>1, FateOfRow
  <2>3. Life!Become(D, "queued")
    BY <2>2, Becomes
  <2> QED BY <1>5, <2>3
<1>9. Life!Verdict(b, "accepted")
  BY <1>1, <1>6, VerdictIsGiven
<1> QED BY <1>2, <1>8, <1>9 DEF Life!Accept

LEMMA CompensateRowsIsRefuse ==
    ASSUME IInv, DeletionInv, LifeInv, NEW p \in Proc, CompensateRows(p)
    PROVE  proc[p].batch \in Batch /\ Life!Refuse(proc[p].batch)
<1> DEFINE b == proc[p].batch
<1>1. proc[p].pc = "fail" /\ proc[p].docs \cap Locked = {}
  BY DEF CompensateRows
<1>2. b \in Batch
  BY <1>1 DEF IInv, RowInv, ProcsKnow, Serving
<1>3. AllPending(b) /\ proc[p].docs = DocsOf[b]
  BY <1>1 DEF LifeInv, Decides
<1>4. DocsOf[b] \cap held = {}
  BY <1>1, <1>3 DEF Locked
<1>5. Life!Pending(b) = DocsOf[b]
  <2>1. Life!Pending(b) = {d \in DocsOf[b] : doc[d].status = "pending"}
    BY <1>2, PendingByFate DEF IInv
  <2> QED BY <1>3, <2>1 DEF AllPending
<1>6. Ended(p, "failed")
  BY CompensateRowsEnds DEF IInv
<1>7. \A d \in Doc : d \in DocsOf[b] => ~doc[d].cleanup /\ Exists(d)
  BY <1>3 DEF AllPending, DeletionInv, RowsOrderly, Orderly, Exists
<1>8. \A d \in Doc : IF d \in DocsOf[b]
                     THEN doc'[d].status = "failed" /\ doc'[d].error = 20011 /\ ~doc'[d].cleanup
                     ELSE doc'[d] = doc[d]
  BY <1>3, <1>7 DEF CompensateRows
<1>9. Life!Become(DocsOf[b], "unsent")
  <2>1. doc' \in [Doc -> Row]
    BY <1>6 DEF Ended
  <2>2. \A d \in Doc : Fate(doc'[d]) = IF d \in DocsOf[b] THEN "unsent" ELSE Fate(doc[d])
    BY <1>8, <2>1, FateOfRow
  <2> QED BY <2>2, Becomes
<1>10. Life!Verdict(b, "failed")
  BY <1>1, <1>6, VerdictIsGiven
<1> QED BY <1>2, <1>4, <1>5, <1>9, <1>10 DEF Life!Refuse

\* A step of one document that writes its row.
LEMMA OneBecomes ==
    ASSUME RowInv, NEW d \in Doc, DeleteCommit(d) \/ CleanUp(d) \/ CleanUpFails(d) \/ Process(d),
           NEW s, Fate(doc'[d]) = s
    PROVE  Life!Become({d}, s)
<1>1. \A e \in Doc \ {d} : doc'[e] = doc[e]
  BY OneRowChanges
<1>2. \A e \in Doc : Fate(doc'[e]) = IF e \in {d} THEN s ELSE Fate(doc[e])
  BY <1>1
<1> QED BY <1>2, Becomes

LEMMA ProcessIsProcess ==
    ASSUME RowInv, DeletionInv, NEW d \in Doc, Process(d)
    PROVE  Life!Process(d) \/ Life!Yield(d)
<1>1. /\ doc[d] \in Row /\ doc'[d] \in Row /\ Orderly(doc[d])
      /\ Fates[d] = Fate(doc[d]) /\ Worked(doc[d], doc'[d])
  BY ProcessWorks DEF RowInv, Types, DeletionInv, RowsOrderly, Fates
<1>2. d \notin held /\ UNCHANGED <<request, held>>
  BY ProcessLeaves DEF Locked
<1>3. ASSUME NEW s, Fate(doc'[d]) = s PROVE Life!Become({d}, s)
  BY <1>3, OneBecomes
<1>4. CASE doc[d].status = "queued"
  <2>1. Fates[d] = "queued" /\ Fate(doc'[d]) = "processing"
    BY <1>1, <1>4, FateOfRow DEF Worked
  <2> QED BY <1>2, <1>3, <2>1 DEF Life!Process
<1>5. CASE doc[d].status = "processing"
  <2>1. Fates[d] = "processing" /\ ~doc'[d].cleanup
    BY <1>1, <1>5, FateOfRow DEF Worked, Orderly
  <2>2. Fate(doc'[d]) \in {"completed", "failed"}
    BY <1>1, <1>5, <2>1, FateOfRow DEF Worked
  <2> QED BY <1>2, <1>3, <2>1, <2>2 DEF Life!Process
<1>6. CASE doc[d].status = "deleting"
  <2>1. Fates[d] = "interrupted" /\ ~doc[d].cleanup
    BY <1>1, <1>6, FateOfRow DEF Worked, Orderly
  <2>2. Fate(doc'[d]) \in {"deleting", "failed"}
    BY <1>1, <1>6, <2>1, FateOfRow DEF Worked
  <2> QED BY <1>2, <1>3, <2>1, <2>2 DEF Life!Yield
<1> QED BY <1>1, <1>4, <1>5, <1>6 DEF Worked

LEMMA DeleteLockIsDoom ==
    ASSUME RowInv, NEW d \in Doc, DeleteLock(d)
    PROVE  Life!Doom(d)
<1>1. d \in Deletable /\ d \notin held /\ held' = held \cup {d} /\ UNCHANGED <<doc, request>>
  BY DEF DeleteLock, Deletable, Locked, dbVars
<1>2. d \in Life!Live \ held
  BY <1>1, LiveIsDeletable
<1>3. Fates' = Fates
  BY <1>1, FatesStay
<1> QED BY <1>1, <1>2, <1>3 DEF Life!Doom

LEMMA DeleteCommitIsDelete ==
    ASSUME RowInv, DeletionInv, NEW d \in Doc, DeleteCommit(d)
    PROVE  Life!Delete(d)
<1>1. d \in held /\ held' = held \ {d} /\ UNCHANGED request /\ doc' = [doc EXCEPT ![d] = Staged(@)]
  BY DEF DeleteCommit
<1>2. Fate(doc'[d]) = Life!Going(Fate(doc[d])) /\ \A e \in Doc \ {d} : doc'[e] = doc[e]
  BY <1>1, FateOfStaged DEF RowInv, Types, DeletionInv, RowsOrderly
<1>3. Life!Go({d})
  <2>1. \A e \in Doc : Fate(doc'[e]) = IF e \in {d} THEN Life!Going(Fate(doc[e])) ELSE Fate(doc[e])
    BY <1>2
  <2> QED BY <2>1, Goes
<1> QED BY <1>1, <1>3 DEF Life!Delete

LEMMA CleanUpIsClean ==
    ASSUME RowInv, DeletionInv, NEW d \in Doc, CleanUp(d)
    PROVE  Life!Clean(d)
<1>1. doc \in [Doc -> Row] /\ doc[d] \in Row
  BY DEF RowInv, Types
<1>2. doc[d].cleanup /\ d \notin held /\ UNCHANGED <<request, held>>
  BY DEF CleanUp, Locked
<1>3. Fates[d] = "deleting"
  BY <1>1, <1>2, FateOfRow DEF DeletionInv, RowsOrderly, Orderly, Fates
<1>4. doc'[d].status = "deleted"
  BY <1>1 DEF CleanUp, Row
<1>5. Fate(doc'[d]) = "deleted"
  BY <1>4 DEF Fate
<1>6. Life!Become({d}, "deleted")
  BY <1>5, OneBecomes
<1> QED BY <1>2, <1>3, <1>6 DEF Life!Clean

\* A cleanup that fails, and a retry, change nothing of what becomes of a document.
LEMMA CleanUpFailsIsUnseen ==
    ASSUME RowInv, DeletionInv, NEW d \in Doc, CleanUpFails(d)
    PROVE  UNCHANGED Life!vars
<1>1. doc \in [Doc -> Row] /\ doc[d] \in Row
  BY DEF RowInv, Types
<1>2. doc[d].cleanup /\ UNCHANGED <<request, held>>
  BY DEF CleanUpFails
<1>3. Fate(doc[d]) = "deleting"
  BY <1>1, <1>2, FateOfRow DEF DeletionInv, RowsOrderly, Orderly
<1>4. doc'[d].status = "failed" /\ doc'[d].error = 20015
  BY <1>1 DEF CleanUpFails, Row
<1>5. Fate(doc'[d]) = "deleting"
  BY <1>4 DEF Fate
<1>6. \A e \in Doc \ {d} : doc'[e] = doc[e]
  BY OneRowChanges
<1>7. Fates' = Fates
  BY <1>3, <1>5, <1>6, FatesStay
<1> QED BY <1>2, <1>7 DEF Life!vars

LEMMA KbRetryIsUnseen ==
    ASSUME RowInv, DeletionInv, KbRetry
    PROVE  UNCHANGED Life!vars
<1>1. doc \in [Doc -> Row]
  BY DEF RowInv, Types
<1>2. /\ UNCHANGED <<request, held>>
      /\ doc' = [d \in Doc |-> IF CleanupFailed(d) THEN Staged(doc[d]) ELSE doc[d]]
  BY DEF KbRetry
<1>3. \A d \in Doc : CleanupFailed(d) => Fate(doc[d]) = "deleting"
  BY <1>1, FateOfRow DEF CleanupFailed
<1>4. \A d \in Doc : CleanupFailed(d) => Fate(Staged(doc[d])) = "deleting"
  BY <1>1, <1>3, FateOfStaged DEF DeletionInv, RowsOrderly, Life!Going
<1>5. Fates' = Fates
  BY <1>2, <1>3, <1>4, FatesStay
<1> QED BY <1>2, <1>5 DEF Life!vars

LEMMA KbDeleteIsDeleteAll ==
    ASSUME RowInv, DeletionInv, LifeInv, KbDelete
    PROVE  Life!DeleteAll
<1>1. /\ UNCHANGED <<request, held>> /\ Deletable \cap Locked = {}
      /\ doc' = [d \in Doc |-> IF d \in Deletable THEN Staged(doc[d]) ELSE doc[d]]
  BY DEF KbDelete
<1>2. held = {}
  BY <1>1 DEF Locked, Deletable, LifeInv, HeldLive, RowInv, Types
<1>3. \A d \in Doc : Fate(Staged(doc[d])) = Life!Going(Fate(doc[d]))
  BY FateOfStaged DEF RowInv, Types, DeletionInv, RowsOrderly
<1>4. Life!Go(Deletable)
  BY <1>1, <1>3, Goes
<1> QED BY <1>1, <1>2, <1>4, LiveIsDeletable DEF Life!DeleteAll

LEMMA RemoveAllIsRemove ==
    ASSUME RowInv, LifeInv, KbDeleteEmpty \/ KbConverge
    PROVE  Life!Remove
<1>1. RemoveAll /\ UNCHANGED held /\ Deletable = {}
  BY DEF KbDeleteEmpty, KbConverge, Deletable
<1>2. held = {}
  BY <1>1 DEF Deletable, LifeInv, HeldLive, RowInv, Types
<1>3. request'.batch = NoBatch /\ request'.status = "none"
  BY <1>1 DEF RemoveAll, NoRequest
<1>4. Life!Become(Doc, "absent")
  <2>1. \A d \in Doc : Fate(doc'[d]) = "absent"
    <3>1. Fate(NoRow) = "absent"
      BY NoRowIsRow DEF Fate
    <3> QED BY <1>1, <3>1 DEF RemoveAll
  <2> QED BY <2>1, Becomes
<1> QED BY <1>1, <1>2, <1>3, <1>4, LiveIsDeletable DEF Life!Remove

\* Everything else, done before or between the commits, is not seen.
LEMMA ServiceIsUnseen ==
    ASSUME UNCHANGED <<doc, request, held>>
    PROVE  UNCHANGED Life!vars
<1>1. Fates' = Fates
  BY FatesStay
<1> QED BY <1>1 DEF Life!vars

LEMMA ExpiryIsForget ==
    ASSUME RowInv, RequestExpires \/ RemoveExpired
    PROVE  Life!Forget \/ UNCHANGED Life!vars
<1>1. UNCHANGED <<doc, held>>
  BY DEF RequestExpires, RemoveExpired
<1>2. Fates' = Fates
  BY <1>1, FatesStay
<1>3. CASE RequestExpires
  <2>1. request'.status = request.status /\ request'.batch = request.batch
    BY <1>3 DEF RequestExpires, RowInv, Types, Request
  <2> QED BY <1>1, <1>2, <2>1 DEF Life!vars
<1>4. CASE RemoveExpired
  <2>1. request'.batch = NoBatch /\ request'.status = "none"
    BY <1>4 DEF RemoveExpired, NoRequest
  <2> QED BY <1>1, <1>2, <2>1 DEF Life!Forget
<1> QED BY <1>3, <1>4

LEMMA NextIsLife ==
    IInv /\ DeletionInv /\ LifeInv /\ [Next]_vars => [Life!Next]_Life!vars
<1> SUFFICES ASSUME IInv, DeletionInv, LifeInv, [Next]_vars PROVE Life!Next \/ UNCHANGED Life!vars
  OBVIOUS
<1>1. RowInv
  BY DEF IInv
<1>2. ASSUME NEW b \in Batch, Check(b) \/ UploadStep(b) \/ Scan(b)
      PROVE  Life!Next \/ UNCHANGED Life!vars
  <2>1. CASE Persist(b)
    BY <2>1, PersistIsArrive DEF Life!Next
  <2>2. CASE ~Persist(b)
    <3>1. ProcStep(b) \/ ProcStep(Scanner)
      BY <1>1, <1>2, <2>2, UploadTyped, ScanKeepsRows DEF UploadStep
    <3>2. UNCHANGED <<doc, request, held>>
      BY <3>1 DEF ProcStep
    <3> QED BY <3>2, ServiceIsUnseen
  <2> QED BY <2>1, <2>2
<1>3. ASSUME NEW p \in Proc, CoordinatorStep(p) \/ Crash(p)
      PROVE  Life!Next \/ UNCHANGED Life!vars
  <2>1. CASE MarkQueued(p)
    BY <2>1, MarkQueuedIsAccept DEF Life!Next
  <2>2. CASE CompensateRows(p)
    BY <2>2, CompensateRowsIsRefuse DEF Life!Next
  <2>3. CASE ~MarkQueued(p) /\ ~CompensateRows(p)
    <3>1. ProcStep(p)
      BY <1>1, <1>3, <2>3, CoordinatorTyped DEF CoordinatorStep
    <3>2. UNCHANGED <<doc, request, held>>
      BY <3>1 DEF ProcStep
    <3> QED BY <3>2, ServiceIsUnseen
  <2> QED BY <2>1, <2>2, <2>3
<1>4. CASE RequestExpires \/ RemoveExpired
  BY <1>1, <1>4, ExpiryIsForget DEF Life!Next
<1>5. ASSUME NEW d \in Doc, DeleteLock(d) \/ DeleteCommit(d) \/ CleanUp(d) \/ Process(d)
      PROVE  Life!Next
  <2>1. Life!Doom(d) \/ Life!Delete(d) \/ Life!Clean(d) \/ Life!Process(d) \/ Life!Yield(d)
    BY <1>1, <1>5, DeleteLockIsDoom, DeleteCommitIsDelete, CleanUpIsClean, ProcessIsProcess
  <2> QED BY <2>1 DEF Life!Next
<1>6. ASSUME NEW d \in Doc, CleanUpFails(d)
      PROVE  UNCHANGED Life!vars
  BY <1>1, <1>6, CleanUpFailsIsUnseen
<1>7. CASE KbDelete
  BY <1>1, <1>7, KbDeleteIsDeleteAll DEF Life!Next
<1>8. CASE KbRetry
  BY <1>1, <1>8, KbRetryIsUnseen
<1>9. CASE KbDeleteEmpty \/ KbConverge
  BY <1>1, <1>9, RemoveAllIsRemove DEF Life!Next
<1>10. CASE KbConvergeFails \/ UNCHANGED vars
  BY <1>10, ServiceIsUnseen DEF KbConvergeFails, vars
<1> QED BY <1>2, <1>3, <1>4, <1>5, <1>6, <1>7, <1>8, <1>9, <1>10 DEF Next

LEMMA InitIsLife == Init => Life!Init
<1> SUFFICES ASSUME Init PROVE Life!Init
  OBVIOUS
<1>1. \A d \in Doc : Fate(doc[d]) = IF d \in Present THEN "completed" ELSE "absent"
  <2>1. \A d \in Doc : doc[d].status = IF d \in Present THEN "completed" ELSE "absent"
    BY DEF Init, NoRow
  <2> QED BY <2>1 DEF Fate
<1>2. Fates = [d \in Doc |-> IF d \in Present THEN "completed" ELSE "absent"]
  BY <1>1 DEF Fates
<1>3. held = {} /\ request.batch = NoBatch /\ request.status = "none"
  BY DEF Init, NoRequest
<1> QED BY <1>2, <1>3 DEF Life!Init
-----------------------------------------------------------------------------
(* An upload that is repeated with its key creates one batch, however the    *)
(* repetitions interleave, whoever dies or takes over, and whatever a DELETE *)
(* does meanwhile, as long as the request is remembered                      *)
(* (document_service.py:132, upload_requests.py).                            *)
THEOREM OneBatchPerKeyHolds == Spec => []OneBatchPerKey
<1>1. Init => RowInv
  BY InitEstablishes DEF IInv
<1>2. RowInv => OneBatchPerKey
  BY DEF RowInv, KeyOwned, OneBatchPerKey
<1> QED BY <1>1, <1>2, NextKeepsRows, PTL DEF Spec

(* No document is queued without its file, as long as no takeover timeout    *)
(* passes while a coordinator works, whoever dies and whatever I/O fails     *)
(* (document_service.py:243, :290).                                          *)
THEOREM QueuedHasObjectHolds == Prompt => (Spec => []QueuedHasObject)
<1> SUFFICES ASSUME Prompt PROVE Spec => []QueuedHasObject
  OBVIOUS
<1>1. IInv /\ [Next]_vars => IInv'
  BY NextKeeps
<1>2. IInv => QueuedHasObject
  BY DEF IInv, CoordInv
<1> QED BY <1>1, <1>2, InitEstablishes, PTL DEF Spec

\* Prompt coordinators, in one invariant.
LEMMA WholeAlways == Prompt => (Spec => [](IInv /\ WholeUnlessEarly))
<1> SUFFICES ASSUME Prompt PROVE Spec => [](IInv /\ WholeUnlessEarly)
  OBVIOUS
<1>1. Init => IInv /\ WholeUnlessEarly
  BY InitEstablishes, InitIsWhole DEF WholeUnlessEarly
<1>2. IInv /\ WholeUnlessEarly /\ [Next]_vars => (IInv /\ WholeUnlessEarly)'
  BY NextKeeps, NextKeepsWhole
<1> QED BY <1>1, <1>2, PTL DEF Spec

\* And what holds when nobody dies and no I/O fails.
LEMMA SmoothAlways == Prompt => (Spec => []SmoothUnlessTroubled)
<1> SUFFICES ASSUME Prompt PROVE Spec => []SmoothUnlessTroubled
  OBVIOUS
<1>1. Init => SmoothUnlessTroubled
  BY InitIsSmooth DEF SmoothUnlessTroubled
<1>2. IInv /\ SmoothUnlessTroubled /\ [Next]_vars => SmoothUnlessTroubled'
  BY NextKeepsSmooth
<1> QED BY <1>1, <1>2, WholeAlways, PTL DEF Spec

(* A request that was answered "accepted" stands for its whole batch: no     *)
(* document of it has failed to upload, and none is left pending but one     *)
(* that a DELETE holds at that moment.  It holds however often coordinators  *)
(* die, the volume fails and the scanner or a repeated request takes the     *)
(* batch over, as long as no DELETE has met an upload half way; and however  *)
(* often DELETEs meet uploads half way, as long as nobody has died and no    *)
(* I/O has failed (document_service.py:229, :290).                           *)
THEOREM AcceptedAsWholeInOneTrouble == Prompt => (Spec => [](OneTrouble => AcceptedAsWhole))
<1> SUFFICES ASSUME Prompt PROVE Spec => [](OneTrouble => AcceptedAsWhole)
  OBVIOUS
<1>1. IInv /\ WholeUnlessEarly /\ used.early = 0 => AcceptedAsWhole
  <2> SUFFICES ASSUME IInv, WholeInv, request.status = "accepted", NEW d \in DocsOf[request.batch]
               PROVE  doc[d].error # 20011 /\ doc[d].status # "pending"
    BY DEF WholeUnlessEarly, AcceptedAsWhole
  <2>1. request.batch \in Batch
    BY DEF IInv, RowInv, RequestOwned
  <2> QED BY <2>1 DEF WholeInv, RequestTells, AllOrNone
<1>2. IInv /\ SmoothUnlessTroubled /\ Quiet => AcceptedAsWhole
  <2> SUFFICES ASSUME IInv, SmoothInv, request.status = "accepted", NEW d \in DocsOf[request.batch]
               PROVE  doc[d].error # 20011 /\ (doc[d].status = "pending" => d \in held)
    BY DEF SmoothUnlessTroubled, AcceptedAsWhole
  <2>1. request.batch \in Batch /\ d \in Doc
    BY DEF IInv, RowInv, RequestOwned
  <2>2. ~Tends(request.batch)
    BY <2>1 DEF SmoothInv, AcceptedDone, Tends
  <2> QED BY <2>1, <2>2 DEF SmoothInv, NothingFails, Tended
<1>3. IInv /\ WholeUnlessEarly /\ SmoothUnlessTroubled => (OneTrouble => AcceptedAsWhole)
  BY <1>1, <1>2 DEF OneTrouble, Quiet
<1> QED BY <1>3, WholeAlways, SmoothAlways, PTL

(* The rows of a knowledge base go with it, and so do their files unless a   *)
(* DELETE met an upload half way: no stored object, whoever dies on the way, *)
(* and no temporary file but those of an upload still on its way to its      *)
(* refusal, unless a process died between its files and its rows or an I/O   *)
(* error kept a cleanup from its end                                         *)
(* (knowledge_base_service.py, task_recovery.py:482, file_storage.py:27).    *)
THEOREM NoOrphansHolds == Prompt => (Spec => []NoOrphans)
<1> SUFFICES ASSUME Prompt PROVE Spec => []NoOrphans
  OBVIOUS
<1>1. Init => RowInv /\ Gone /\ TempsUnlessStrays
  BY InitEstablishes, InitOwnsTemps DEF IInv, Init, Gone
<1>2. /\ IInv /\ WholeUnlessEarly /\ RowInv /\ Gone /\ TempsUnlessStrays /\ [Next]_vars
      => (RowInv /\ Gone /\ TempsUnlessStrays)'
  BY NextKeepsRows, NextKeepsGone, NextOwnsTemps
<1>3. Gone /\ IInv /\ WholeUnlessEarly /\ TempsUnlessStrays => NoOrphans
  <2> SUFFICES ASSUME Gone, IInv, WholeUnlessEarly, TempsUnlessStrays, kb = "gone" PROVE NoOrphans
    BY DEF NoOrphans
  <2>1. \A d \in Doc : ~Exists(d)
    BY DEF Gone
  <2>2. used.early = 0 => obj = {}
    BY <2>1 DEF WholeUnlessEarly, WholeInv, FilesHaveRows, Exists
  <2>3. ASSUME used.early = 0, used.strays = 0, NEW d \in tmp
        PROVE  \E b \in Batch : d \in DocsOf[b] /\ proc[b].pc = "persist"
    <3>1. PICK b \in Batch : d \in DocsOf[b] /\ (proc[b].pc = "persist" \/ AllPending(b))
      BY <2>3 DEF TempsUnlessStrays, TempsOwned
    <3>2. ~AllPending(b)
      BY <2>1, <3>1 DEF AllPending, Exists
    <3> QED BY <3>1, <3>2
  <2>4. ASSUME used.early = 0, used.strays = 0
        PROVE  tmp \subseteq UNION {DocsOf[b] : b \in {c \in Batch : proc[c].pc = "persist"}}
    BY <2>3, <2>4
  <2> QED BY <2>1, <2>2, <2>4 DEF NoOrphans
<1> QED BY <1>1, <1>2, <1>3, WholeAlways, PTL DEF Spec

(* A deleted document stays deleted until its row goes: no coordinator that  *)
(* comes late, no failed cleanup and no retry brings it back, unless DELETEs *)
(* have met uploads half way and somebody has died or I/O has failed as well *)
(* (document_service.py:229, :290).                                          *)
THEOREM TombstoneFinalInOneTrouble == Prompt => (Spec /\ []OneTrouble => TombstoneFinal)
<1> SUFFICES ASSUME Prompt PROVE Spec /\ []OneTrouble => TombstoneFinal
  OBVIOUS
<1>1. OneTrouble' /\ IInv /\ WholeUnlessEarly /\ SmoothUnlessTroubled /\ [Next]_vars
      => [\A d \in Doc : doc[d].status = "deleted" => doc'[d].status \in {"deleted", "absent"}]_vars
  <2> SUFFICES ASSUME OneTrouble', IInv, WholeUnlessEarly, SmoothUnlessTroubled, [Next]_vars
               PROVE  \A d \in Doc : doc[d].status = "deleted" => doc'[d].status \in {"deleted", "absent"}
    OBVIOUS
  <2>1. CASE used'.early = 0
    <3>1. WholeInv
      BY <2>1, EarlyStays DEF WholeUnlessEarly, IInv, RowInv
    <3> QED BY <3>1, WholeKeepsTombstones
  <2>2. CASE Quiet'
    <3>1. SmoothInv
      BY <2>2, QuietBefore DEF SmoothUnlessTroubled, IInv, RowInv
    <3> QED BY <2>2, <3>1, SmoothKeepsTombstones
  <2> QED BY <2>1, <2>2 DEF OneTrouble, Quiet
<1> QED BY <1>1, WholeAlways, SmoothAlways, PTL DEF Spec, TombstoneFinal

(* Coordinators, scanner, DELETEs and the pipeline implement the life of a   *)
(* batch: what a commit makes of its documents and of the request is one     *)
(* step that BatchLife allows, whoever made it and whoever died before.  A   *)
(* batch is queued or refused in one step, but for what a DELETE has in hand;*)
(* a deletion ends in the tombstone, except that one which had to interrupt  *)
(* a running stage may be lost to its failure; and a tombstone is final      *)
(* (document_service.py:229, :290, document_pipeline.py:171,                 *)
(* task_recovery.py:521).  That parse may write `processing` over a deletion *)
(* is not in KnowledgeBase.                                                  *)
THEOREM BatchesImplementLife == Prompt => (Spec /\ []OneTrouble => LifeSpec)
<1> SUFFICES ASSUME Prompt PROVE Spec /\ []OneTrouble => LifeSpec
  OBVIOUS
<1>1. Init => RowInv /\ DeletionInv
  <2> SUFFICES ASSUME Init PROVE RowInv /\ DeletionInv
    OBVIOUS
  <2>1. RowsOrderly
    <3>1. Orderly(NoRow) /\ Orderly([NoRow EXCEPT !.status = "completed", !.task = "done"])
      BY DEF NoRow, Orderly
    <3> QED BY <3>1 DEF Init, RowsOrderly
  <2>2. \A p \in Proc : proc[p].pc = "idle"
    BY DEF Init, Idle
  <2> QED BY <2>1, <2>2, InitEstablishes DEF IInv, DeletionInv, LocksApart
<1>2. RowInv /\ DeletionInv /\ [Next]_vars => (RowInv /\ DeletionInv)'
  BY NextKeepsRows, NextKeepsDeletions
<1>3. /\ OneTrouble' /\ IInv /\ WholeUnlessEarly /\ SmoothUnlessTroubled
      /\ DeletionInv /\ [Next]_vars
      => [Life!Next]_Life!vars
  <2> SUFFICES ASSUME OneTrouble', IInv, WholeUnlessEarly, SmoothUnlessTroubled,
                      DeletionInv, [Next]_vars
               PROVE  [Life!Next]_Life!vars
    OBVIOUS
  <2>1. CASE used'.early = 0
    <3>1. LifeInv
      BY <2>1, EarlyStays, WholeDecides DEF WholeUnlessEarly, IInv, RowInv
    <3> QED BY <3>1, NextIsLife
  <2>2. CASE Quiet'
    <3>1. SmoothInv
      BY <2>2, QuietBefore DEF SmoothUnlessTroubled, IInv, RowInv
    <3> QED BY <3>1, SmoothDecides, NextIsLife
  <2> QED BY <2>1, <2>2 DEF OneTrouble, Quiet
<1> QED BY <1>1, <1>2, <1>3, InitIsLife, WholeAlways, SmoothAlways, PTL DEF Spec, LifeSpec, Life!Spec
=============================================================================
