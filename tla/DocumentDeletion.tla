-------------------------- MODULE DocumentDeletion --------------------------
EXTENDS StageOrchestrator

(***************************************************************************)
(* DELETE of the document (first delete, or retry of a failed cleanup);    *)
(* repeated while "deleting" it changes nothing, once "deleted" it is 404. *)
(***************************************************************************)
\* The task rows T after attempt a is closed as cancelled.
Cancel(a, T) ==
    [T EXCEPT ![a[1]].status = IF @ = "running" THEN "cancelled" ELSE @]

Delete ==
    /\ doc.status \notin Hidden
    /\ doc.cycle < MaxDeletes
    /\ doc' = [status |-> IF CleanupFailed(doc) THEN doc.status ELSE "deleting",
               type |-> "delete_cleanup", error |-> 0, cycle |-> doc.cycle + 1]
    /\ LET dc == Cleanup(doc.cycle + 1)
           kept == [t \in TaskId |->
                      IF t \in Stages /\ task[t].status \in {"pending", "queued"}
                      THEN [task[t] EXCEPT !.status = "cancelled"] ELSE task[t]]
           With(T, status) == [T EXCEPT ![dc] = [status |-> status, retry |-> 0]]
       IN  \/ /\ OpenAttempts = {}
              /\ task' = With(kept, "queued")
              /\ lease' = Released(lease)
              /\ msgs' = msgs \cup {dc}
              /\ UNCHANGED attempts
           \/ \E a \in OpenAttempts :
              /\ ~lease.open
              /\ attempts' = [attempts EXCEPT ![a[1]][a[2]] = "cancelled"]
              /\ task' = With(Cancel(a, kept), "queued")
              /\ msgs' = msgs \cup {dc}
              /\ UNCHANGED lease
           \/ /\ OpenAttempts # {} /\ lease.open
              /\ task' = With(kept, "pending")
              /\ UNCHANGED <<attempts, lease, msgs>>
    /\ UNCHANGED <<checkpoint, rows, objects, worker, scan, used>>

(***************************************************************************)
(* delete_cleanup                                                          *)
(***************************************************************************)
CleanupLoad(w) ==
    /\ At(w, "delete_cleanup", "work")
    /\ \/ /\ doc.status = "deleted"
          /\ attempts' = [attempts EXCEPT ![worker[w].task][worker[w].att] = "succeeded"]
          /\ task' = [task EXCEPT ![worker[w].task].status = "succeeded"]
          /\ Return(w)
       \/ /\ doc.status # "deleted"
          /\ worker' = [worker EXCEPT ![w].pc = "purge", ![w].seen = doc]
          /\ UNCHANGED <<attempts, task>>
    /\ UNCHANGED <<doc, checkpoint, lease, rows, objects, msgs, scan, used>>

CleanupPurgeKeepsDrafts(w) ==  \* mutant
    /\ At(w, "delete_cleanup", "purge")
    /\ objects' = {}
    /\ worker' = [worker EXCEPT ![w].pc = "commit", ![w].found = rows \ {Draft}]
    /\ UNCHANGED <<dbVars, msgs, scan, used>>

\* Files go first; the rows found now are the ones the transaction deletes.
CleanupPurge(w) ==
    /\ At(w, "delete_cleanup", "purge")
    /\ objects' = objects \ ({"upload"} \cup
                              IF HasParseRow(rows) THEN {"parsed"} ELSE {})
    /\ worker' = [worker EXCEPT ![w].pc = "commit", ![w].found = rows]
    /\ UNCHANGED <<dbVars, msgs, scan, used>>

CleanupCommit(w) ==
    /\ At(w, "delete_cleanup", "commit")
    /\ LET t == worker[w].task
           loaded == worker[w].seen
       IN  /\ rows' = rows \ worker[w].found
           /\ doc' = Flush(doc, loaded, [loaded EXCEPT !.status = "deleted",
                                                       !.type = "none", !.error = 0])
           /\ lease' = Released(lease)
           /\ attempts' = [attempts EXCEPT ![t][worker[w].att] = "succeeded"]
           /\ task' = [task EXCEPT ![t].status = "succeeded"]
    /\ Return(w)
    /\ UNCHANGED <<checkpoint, objects, msgs, scan, used>>

CleanupBreaks(w) ==
    /\ At(w, "delete_cleanup", "purge") \/ At(w, "delete_cleanup", "commit")
    /\ Fault
    /\ worker' = [worker EXCEPT ![w].pc = "fail", ![w].seen = NoDoc, ![w].found = {}]
    /\ UNCHANGED <<dbVars, objects, msgs, scan>>

\* _fail_cleanup locks nothing and tests no status; retry is the value reloaded.
CleanupFails(w) ==
    /\ At(w, "delete_cleanup", "failing")
    /\ LET t == worker[w].task
       IN  /\ attempts' = [attempts EXCEPT ![t][worker[w].att] = "failed"]
           /\ \/ /\ CanRetry(worker[w].retry)
                 /\ task' = [task EXCEPT ![t] = Requeued(worker[w].retry)]
                 /\ msgs' = msgs \cup {t}
                 /\ UNCHANGED doc
              \/ /\ ~CanRetry(worker[w].retry)
                 /\ task' = [task EXCEPT ![t].status = "failed"]
                 /\ doc' = [doc EXCEPT !.status = "failed", !.type = "delete_cleanup",
                                       !.error = 20015]
                 /\ UNCHANGED msgs
    /\ Return(w)
    /\ UNCHANGED <<checkpoint, lease, rows, objects, scan, used>>
=============================================================================
