-------------------------- MODULE DocumentPipeline --------------------------
EXTENDS StageWorkers, TaskRecovery

(***************************************************************************)
(* The broker: a post-commit dispatch may be lost, a message delivered     *)
(* again (acks_late); the scanner resends every task that is still queued. *)
(***************************************************************************)
Lose(t) ==
    /\ t \in msgs
    /\ Spend("mishaps", MaxMishaps)
    /\ msgs' = msgs \ {t}
    /\ UNCHANGED <<dbVars, objects, worker, scan>>

Redeliver(w) ==
    /\ worker[w].pc # "idle"
    /\ Spend("mishaps", MaxMishaps)
    /\ msgs' = msgs \cup {worker[w].task}
    /\ UNCHANGED <<dbVars, objects, worker, scan>>

RedispatchParseOnly(t) ==  \* mutant
    /\ t = Stage("parse")
    /\ task[t].status = "queued"
    /\ t \notin msgs
    /\ msgs' = msgs \cup {t}
    /\ UNCHANGED <<dbVars, objects, worker, scan, used>>

Redispatch(t) ==
    /\ task[t].status = "queued"
    /\ t \notin msgs
    /\ msgs' = msgs \cup {t}
    /\ UNCHANGED <<dbVars, objects, worker, scan, used>>

(***************************************************************************)
(* A worker process dies; acks_late may put its message back on the queue. *)
(***************************************************************************)
Crash(w) ==
    /\ worker[w].pc # "idle"
    /\ Spend("crashes", MaxCrashes)
    /\ \E back \in SUBSET {worker[w].task} : msgs' = msgs \cup back
    /\ Return(w)
    /\ UNCHANGED <<dbVars, objects, scan>>

-----------------------------------------------------------------------------
WorkerStep(w) ==
    \/ ParseFindOpen(w) \/ ParseAcquire(w) \/ ParseDenied(w) \/ ParseBegin(w)
    \/ ParseRejected(w) \/ ParseBreaks(w) \/ ParseStore(w) \/ ParseStoreFails(w)
    \/ ParseSave(w) \/ ParseFenced(w) \/ ParseSaveFails(w)
    \/ ChunkLoad(w) \/ ChunkSave(w) \/ ChunkFenced(w)
    \/ EmbedLoad(w) \/ EmbedNoDrafts(w) \/ EmbedHeartbeat(w) \/ EmbedCall(w)
    \/ EmbedSave(w) \/ EmbedComplete(w) \/ EmbedAborted(w)
    \/ FinalizePublish(w) \/ FinalizeMismatch(w) \/ FinalizeFenced(w)
    \/ StageBreaks(w) \/ Reload(w) \/ FailAfterRollback(w) \/ ConvergeCancelled(w)
    \/ HandlerDies(w)
    \/ CleanupLoad(w) \/ CleanupPurge(w) \/ CleanupCommit(w)
    \/ CleanupBreaks(w) \/ CleanupFails(w)

Next ==
    \/ \E w \in Worker :
         \/ ParseDeliver(w) \/ WorkerStep(w) \/ Crash(w) \/ Redeliver(w)
         \/ \E t \in TaskId : Deliver(w, t)
    \/ \E t \in TaskId : Lose(t) \/ Redispatch(t)
    \/ Delete
    \/ Expire \/ ScanExpired \/ RefreshScan \/ RecoverLease
    \/ ScanOrphans \/ \E a \in scan.orphans : RecoverOrphan(a)

Spec == Init /\ [][Next]_vars

Fairness ==
    /\ \A w \in Worker : WF_vars(WorkerStep(w))
    /\ \A t \in TaskId : WF_vars(Redispatch(t))
    /\ \A t \in TaskId : SF_vars(\E w \in Worker : Deliver(w, t))
    /\ SF_vars(\E w \in Worker : ParseDeliver(w))
    /\ \A w \in Worker : SF_vars(ParseAcquire(w))
    /\ WF_vars(Expire)
    /\ WF_vars(ScanExpired) /\ WF_vars(RecoverLease)
    /\ WF_vars(ScanOrphans)
    /\ WF_vars(\E a \in scan.orphans : RecoverOrphan(a))

FairSpec == Spec /\ Fairness

-----------------------------------------------------------------------------
AttemptId == TaskId \X (Nat \ {0})

(***************************************************************************)
(* Every row holds a value its column can hold, in particular the retry    *)
(* counter of a task never passes max_retries.                             *)
(***************************************************************************)
TypeOK ==
    /\ doc \in Doc
    /\ task \in [TaskId -> [status : TaskStatus, retry : 0..MaxRetries]]
    /\ attempts \in [TaskId -> Seq(AttemptStatus)]
    /\ checkpoint \in BOOLEAN
    /\ lease \in [id : Nat, open : BOOLEAN, task : TaskId \cup {NoTask},
                  expired : BOOLEAN, cycle : 0..MaxDeletes]
    /\ rows \subseteq {"parse_result", "draft", "chunk"} \X Nat
    /\ objects \subseteq {"upload", "parsed"}
    /\ msgs \subseteq TaskId
    /\ scan.orphans \subseteq AttemptId

\* A worker that executes a stage holds a processing slot of its user:
\* the skipped acquire of process_parse and the hand-over of lease.task_id by
\* complete_stage never leave a stage running outside the slot limit.
SlotWhileRunning ==
    \A t \in Stages : task[t].status = "running" => lease.open

\* Duplicate messages, retries and redispatches never put two stages of the
\* document in flight, nor two attempts.
OneStageAtATime ==
    /\ \A s, t \in Stages :
         {task[s].status, task[t].status} \subseteq {"queued", "running"} => s = t
    /\ Cardinality(OpenAttempts) <= 1

\* A stage exists only once the stage before it has succeeded.
StageOrder ==
    \A t \in Stages \ {Stage("finalize")} :
        task[NextStage(t)].status # "absent" => task[t].status = "succeeded"

\* Until a DELETE, the row that points at the parse result object has its
\* object, and the checkpoint of embed has its chunks: compensations remove
\* nothing that a committed row relies on.
DerivedDataKept ==
    doc.cycle = 0 => /\ HasParseRow(rows) => "parsed" \in objects
                     /\ checkpoint => Chunk \in rows

\* An attempt that ended, and a task that ended, keep their status for ever.
HistoryFinal ==
    [][\A t \in TaskId :
         /\ task[t].status \in {"succeeded", "failed", "cancelled"} => task'[t] = task[t]
         /\ \A n \in DOMAIN attempts[t] :
              attempts[t][n] # "running" => attempts'[t][n] = attempts[t][n]]_vars

\* A document is published only with the chunks its embed stage counted,
\* whatever was recovered, retried or crashed on the way.
PublishedHasChunks ==
    doc.status = "completed" => Chunk \in rows /\ checkpoint

\* Whatever was recovered, retried, deleted or sent twice: a stage exists only if
\* an attempt of the stage before it has succeeded, and a document is published
\* only if one of finalize has.  (StageOrder says more of a document that nobody
\* recovers: then the earlier stage has not been started again either.)
Achieved(t) == \E n \in DOMAIN attempts[t] : attempts[t][n] = "succeeded"

StagesEarned ==
    /\ \A t \in Stages \ {Stage("finalize")} :
         task[NextStage(t)].status # "absent" => Achieved(t)
    /\ doc.status = "completed" => Achieved(Stage("finalize"))

\* Two workers requeue a task with a counter they read before: embed, whose
\* drafts a DELETE has removed, and a cleanup after an I/O error; an attempt
\* that was recovered meanwhile is then not counted.
Counted(t) ==
    /\ t = Stage("embed") => doc.cycle = 0
    /\ t \in Cleanups => used.faults = 0

\* But for those, every attempt beyond the first is paid for by a retry: no
\* path of recovery, duplicate message or race starts one for free.
AttemptsCounted ==
    \A t \in TaskId : Counted(t) => Len(attempts[t]) <= task[t].retry + 1

\* A document being deleted always has somebody left to finish it: the cleanup
\* of its cycle is queued or runs, or waits for a lease that will expire.
DeletingProgress ==
    doc.status = "deleting" =>
        LET cleanup == task[Cleanup(doc.cycle)].status
        IN  cleanup \in {"queued", "running"} \/ (cleanup = "pending" /\ lease.open)

\* The tombstone is clean: no derived row outlives the document, and no file,
\* unless a worker has died (between writing a file and its row) or parse has
\* left its object behind: a write that failed half way, or a removal that
\* failed, neither of which any code repeats.  Two kinds of lease let a stage
\* write beside the cleanup: one that expired before the DELETE, under which a
\* worker starts, and one that a parse took after it, with a document read
\* before: when that expires, the scanner may resume the parse.
DeletedLeavesNothing ==
    doc.status = "deleted" /\ used.expirations = 0 /\ lease.cycle = 0 =>
        /\ rows = {}
        /\ \/ objects = {}
           \/ used.crashes > 0
           \/ used.strays > 0 /\ objects \subseteq {"parsed"}

\* A document in "processing" occupies a slot; when the slot goes, so does
\* the status.
ProcessingHoldsSlot ==
    doc.status = "processing" => lease.open

\* The pipeline comes to an end, unless the user deletes the document.
Settles ==
    <>[](doc.status \in {"completed", "failed"} \/ doc.cycle > 0)

\* A stage that ran at the DELETE has failed over it (fail_stage tests no status
\* of the document): the cleanup waits for a lease that is free by now, and only
\* another DELETE of the document, which is visible again, goes on.
FailedOver ==
    /\ doc.status = "failed" /\ ~CleanupFailed(doc) /\ doc.cycle > 0
    /\ task[Cleanup(doc.cycle)].status = "pending"
    /\ \E t \in Stages : task[t].status = "failed"

\* A deletion ends, with the tombstone or with a visible failure (20015); or it
\* is lost, in one way only: to a stage that was running when it began.
DeleteEnds ==
    doc.status = "deleting" ~>
        doc.status = "deleted" \/ CleanupFailed(doc) \/ FailedOver

-----------------------------------------------------------------------------
(***************************************************************************)
(* What documents and comments of the repository say and the code does not *)
(* do (like Settles with crashes): refuted by a run of its own.            *)
(***************************************************************************)
\* A document whose deletion has begun never becomes visible again, unless its
\* cleanup has failed (20015).
HiddenStaysHidden ==
    [][doc.status \in Hidden => doc'.status \in Hidden \/ CleanupFailed(doc')]_vars
=============================================================================
