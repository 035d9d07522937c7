---------------------------- MODULE TaskRecovery ----------------------------
EXTENDS DocumentDeletion

(***************************************************************************)
(* The maintenance scanner                                                 *)
(***************************************************************************)
\* queue_delete_cleanup: refused (20008) once the cleanup of this cycle runs.
CleanupQueueable == task[Cleanup(doc.cycle)].status \notin {"running", "succeeded"}
QueueCleanupForgotten(T) == T  \* mutant
QueueCleanup(T) == [T EXCEPT ![Cleanup(doc.cycle)].status = "queued"]

\* The clock passes expires_at of the open lease.
Expire ==
    /\ lease.open /\ ~lease.expired
    /\ Prompt => \A w \in Worker : worker[w].task \notin Stages
    /\ IF doc.status \in Hidden THEN UNCHANGED used ELSE Spend("expirations", MaxExpirations)
    /\ lease' = [lease EXCEPT !.expired = TRUE]
    /\ UNCHANGED <<doc, task, attempts, checkpoint, rows, objects, msgs, worker, scan>>

ScanExpiredUndeleted ==  \* mutant
    /\ scan.lease.id = 0
    /\ lease.open /\ lease.expired
    /\ doc.status # "deleting"
    /\ scan' = [scan EXCEPT !.lease = [id |-> lease.id, task |-> lease.task]]
    /\ UNCHANGED <<dbVars, objects, msgs, worker, used>>

\* The listed lease stays in the scanner's session: id and task_id are kept.
ScanExpired ==
    /\ scan.lease.id = 0
    /\ lease.open /\ lease.expired
    /\ scan' = [scan EXCEPT !.lease = [id |-> lease.id, task |-> lease.task]]
    /\ UNCHANGED <<dbVars, objects, msgs, worker, used>>

\* The recovery of an earlier lease of the list failed: its rollback makes the
\* session read this one again, and drop it when it is released by now.
RefreshScan ==
    /\ scan.lease.id # 0
    /\ Fault
    /\ scan' = [scan EXCEPT !.lease =
                  IF lease.id = scan.lease.id /\ lease.open
                  THEN [id |-> lease.id, task |-> lease.task] ELSE NoScan.lease]
    /\ UNCHANGED <<dbVars, objects, msgs, worker>>

\* Requeue or fail task t of a document that is not being deleted.
RecoverTask(t) ==
    \/ /\ CanRetry(task[t].retry)
       /\ task' = [task EXCEPT ![t] = Requeued(@.retry)]
       /\ doc' = [doc EXCEPT !.status = "queued", !.error = 0]
       /\ msgs' = msgs \cup {t}
    \/ /\ ~CanRetry(task[t].retry)
       /\ task' = [task EXCEPT ![t].status = "failed"]
       /\ doc' = [doc EXCEPT !.status = "failed", !.error = 20014]
       /\ UNCHANGED msgs

RecoverLease ==
    /\ scan.lease.id # 0
    /\ scan' = [scan EXCEPT !.lease = NoScan.lease]
    /\ LET t == scan.lease.task
           closed == [n \in DOMAIN attempts[t] |->
                        IF attempts[t][n] = "running" THEN "cancelled" ELSE attempts[t][n]]
       IN  \/ /\ doc.status = "deleting" /\ CleanupQueueable
              /\ attempts' = [attempts EXCEPT ![t] = closed]
              /\ task' = QueueCleanup(Cancel(<<t, 0>>, task))
              /\ doc' = [doc EXCEPT !.type = "delete_cleanup"]
              /\ msgs' = msgs \cup {Cleanup(doc.cycle)}
              /\ lease' = IF lease.id = scan.lease.id THEN Released(lease) ELSE lease
           \/ /\ doc.status = "deleting" /\ ~CleanupQueueable
              /\ UNCHANGED <<doc, task, attempts, lease, msgs>>
           \/ /\ doc.status # "deleting"
              /\ attempts' = [attempts EXCEPT ![t] = closed]
              /\ RecoverTask(t)
              /\ lease' = IF lease.id = scan.lease.id THEN Released(lease) ELSE lease
    /\ UNCHANGED <<checkpoint, rows, objects, worker, used>>

\* Only attempt ids are listed, at whatever age; the lease is not looked at again.
ScanOrphans ==
    /\ scan.orphans = {}
    /\ ~lease.open
    /\ LET found == {a \in OpenAttempts : task[a[1]].status = "running"}
       IN  /\ found # {}
           /\ scan' = [scan EXCEPT !.orphans = found]
    /\ UNCHANGED <<dbVars, objects, msgs, worker, used>>

RecoverCleanup(t) ==
    \/ /\ CanRetry(task[t].retry)
       /\ task' = [task EXCEPT ![t] = Requeued(@.retry)]
       /\ msgs' = msgs \cup {t}
       /\ UNCHANGED doc
    \/ /\ ~CanRetry(task[t].retry)
       /\ task' = [task EXCEPT ![t].status = "failed"]
       /\ doc' = [doc EXCEPT !.status = "failed", !.type = "delete_cleanup",
                             !.error = 20015]
       /\ UNCHANGED msgs

RecoverOrphan(a) ==
    LET t == a[1]
        live == attempts[t][a[2]] = "running" /\ task[t].status = "running"
        conflict == doc.status = "deleting" /\ t \in Stages /\ ~CleanupQueueable
    IN  /\ a \in scan.orphans
        /\ scan' = [scan EXCEPT !.orphans = @ \ {a}]
        /\ \/ /\ ~live \/ conflict
              /\ UNCHANGED <<doc, task, attempts, msgs>>
           \/ /\ live /\ ~conflict
              /\ attempts' = [attempts EXCEPT ![t][a[2]] = "cancelled"]
              /\ \/ /\ doc.status = "deleting" /\ t \in Cleanups
                    /\ RecoverCleanup(t)
                 \/ /\ doc.status = "deleting" /\ t \in Stages
                    /\ task' = QueueCleanup(Cancel(a, task))
                    /\ doc' = [doc EXCEPT !.type = "delete_cleanup"]
                    /\ msgs' = msgs \cup {Cleanup(doc.cycle)}
                 \/ /\ doc.status # "deleting"
                    /\ RecoverTask(t)
        /\ UNCHANGED <<checkpoint, lease, rows, objects, worker, used>>
=============================================================================
