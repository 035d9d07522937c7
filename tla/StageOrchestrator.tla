------------------------- MODULE StageOrchestrator -------------------------
EXTENDS PipelineState

(***************************************************************************)
(* begin_attempt                                                           *)
(***************************************************************************)
BeginAttempt(w, t) ==
    /\ Runnable(t)
    /\ task' = [task EXCEPT ![t].status = "running"]
    /\ attempts' = [attempts EXCEPT ![t] = Append(@, "running")]
    /\ worker' = [worker EXCEPT ![w].pc = "work", ![w].task = t,
                                ![w].att = Len(attempts[t]) + 1,
                                ![w].retry = task[t].retry]

\* Every stage but parse begins its attempt as soon as it is delivered.
Deliver(w, t) ==
    /\ worker[w].pc = "idle"
    /\ t \in msgs \ {Stage("parse")}
    /\ msgs' = msgs \ {t}
    /\ \/ BeginAttempt(w, t)
       \/ ~Runnable(t) /\ UNCHANGED <<task, attempts, worker>>
    /\ UNCHANGED <<doc, checkpoint, lease, rows, objects, scan, used>>

(***************************************************************************)
(* complete_stage for parse, chunk and embed: close the attempt and its    *)
(* task, create or keep the next task, move current_task_type and          *)
(* lease.task_id along.                                                    *)
(***************************************************************************)
CanAdvance(t) ==
    /\ task[NextStage(t)].status \in {"absent", "pending", "queued"}
    /\ lease.open

AdvanceLeavesOpen(w, loaded) ==  \* mutant
    LET t == worker[w].task
        n == NextStage(t)
    IN  /\ CanAdvance(t)
        /\ task' = [task EXCEPT ![t].status = "succeeded",
                               ![n] = [status |-> "queued", retry |-> 0]]
        /\ doc' = Flush(doc, loaded, [loaded EXCEPT !.type = n[1]])
        /\ lease' = [lease EXCEPT !.task = n]
        /\ msgs' = msgs \cup {n}
        /\ Return(w)
        /\ UNCHANGED attempts

Advance(w, loaded) ==
    LET t == worker[w].task
        n == NextStage(t)
    IN  /\ CanAdvance(t)
        /\ attempts' = [attempts EXCEPT ![t][worker[w].att] = "succeeded"]
        /\ task' = [task EXCEPT
                      ![t].status = "succeeded",
                      ![n] = IF @.status = "absent"
                             THEN [status |-> "queued", retry |-> 0] ELSE @]
        /\ doc' = Flush(doc, loaded, [loaded EXCEPT !.type = n[1]])
        /\ lease' = [lease EXCEPT !.task = n]
        /\ msgs' = msgs \cup {n}
        /\ Return(w)

(***************************************************************************)
(* fail_stage: a classified error fails the document and frees the slot,   *)
(* an unclassified one is retried while the budget lasts.                  *)
(***************************************************************************)
FailFor(w, loaded, code) ==
    LET t == worker[w].task
    IN  /\ attempts' = [attempts EXCEPT ![t][worker[w].att] = "failed"]
        /\ task' = [task EXCEPT ![t].status = "failed"]
        /\ doc' = Flush(doc, loaded, [loaded EXCEPT !.status = "failed",
                                                    !.error = code])
        /\ lease' = Released(lease)
        /\ Return(w)
        /\ UNCHANGED msgs

Retry(w, loaded, retry) ==
    LET t == worker[w].task
    IN  /\ CanRetry(retry)
        /\ attempts' = [attempts EXCEPT ![t][worker[w].att] = "failed"]
        /\ task' = [task EXCEPT ![t] = Requeued(retry)]
        /\ doc' = Flush(doc, loaded, [loaded EXCEPT !.error = 0])
        /\ msgs' = msgs \cup {t}
        /\ Return(w)
        /\ UNCHANGED lease

FailStage(w, loaded, retry, code) ==
    \/ code # 0 /\ FailFor(w, loaded, code)
    \/ code = 0 /\ Retry(w, loaded, retry)
    \/ code = 0 /\ ~CanRetry(retry) /\ FailFor(w, loaded, 20014)

\* Once rolled back, the attempt id is read again, without a lock; nothing more
\* is done for an attempt that is no longer running (a cleanup does not look).
Reload(w) ==
    /\ worker[w].pc \in {"fail", "cancel"}
    /\ LET t == worker[w].task
           dropped == t \in Stages /\ attempts[t][worker[w].att] # "running"
       IN  \/ dropped /\ Return(w)
           \/ /\ ~dropped
              /\ worker' = [worker EXCEPT ![w].pc = IF @ = "fail" THEN "failing" ELSE "cancelling",
                                          ![w].retry = task[t].retry]
    /\ UNCHANGED <<dbVars, objects, msgs, scan, used>>

FailAfterRollback(w) ==
    /\ worker[w].pc = "failing"
    /\ worker[w].task \in Stages
    /\ FailStage(w, doc, task[worker[w].task].retry, worker[w].code)
    /\ UNCHANGED <<checkpoint, rows, objects, scan, used>>

ConvergeCancelledFreesSlot(w) ==  \* mutant
    /\ worker[w].pc = "cancelling"
    /\ attempts' = [attempts EXCEPT ![worker[w].task][worker[w].att] = "cancelled"]
    /\ lease' = Released(lease)
    /\ Return(w)
    /\ UNCHANGED <<doc, task, checkpoint, rows, objects, msgs, scan, used>>

\* converge_cancelled, always after a rollback.
ConvergeCancelled(w) ==
    /\ worker[w].pc = "cancelling"
    /\ LET t == worker[w].task
       IN  /\ attempts' = [attempts EXCEPT ![t][worker[w].att] = "cancelled"]
           /\ task' = [task EXCEPT ![t].status = IF @ = "running" THEN "cancelled" ELSE @]
    /\ Return(w)
    /\ UNCHANGED <<doc, checkpoint, lease, rows, objects, msgs, scan, used>>

\* A database error, or the failed removal of a fenced parse object, where no
\* handler catches it: whatever is open stays open.
HandlerDies(w) ==
    /\ \/ worker[w].pc \in {"find", "begin", "fail", "failing", "cancel", "cancelling"}
       \/ At(w, "embed", "work") \/ At(w, "embed", "complete")
       \/ At(w, "parse", "save") /\ ~CanAdvance(Stage("parse"))
       \/ At(w, "delete_cleanup", "work")
    /\ Spend("crashes", MaxCrashes)
    /\ Return(w)
    /\ UNCHANGED <<dbVars, objects, msgs, scan>>
=============================================================================
