--------------------------- MODULE PipelineState ---------------------------
(***************************************************************************)
(* The processing pipeline of ONE document of OrionaMesh: the Celery       *)
(* workers (parse, chunk, embed, finalize, delete_cleanup), the stage      *)
(* orchestrator, the DELETE command and the maintenance scanner, around    *)
(* the PostgreSQL rows, the file store and the broker they share.          *)
(*                                                                         *)
(* One action is one database transaction, or one effect outside of it     *)
(* (a file operation, a broker message).  Transactions that lock the rows  *)
(* they test are atomic; a value that is read without a lock, or kept in   *)
(* the SQLAlchemy session across a commit, is copied into the state of the *)
(* worker or scanner that holds it and used from there:                    *)
(*   - sessions are opened with expire_on_commit=False and no query asks   *)
(*     for populate_existing, so SELECT ... FOR UPDATE locks a row but     *)
(*     returns the attributes loaded before for every object the handler   *)
(*     still refers to (its attempt and task; in parse the document too);  *)
(*   - a flush writes only the columns whose value differs from the loaded *)
(*     one (operator Flush);                                               *)
(*   - rollback expires everything, so what follows a rollback reads rows. *)
(***************************************************************************)
EXTENDS Naturals, Sequences, FiniteSets

CONSTANTS
    Worker,          \* Celery worker processes
    MaxRetries,      \* document_tasks.max_retries (3 in the code)
    MaxDeletes,      \* bound: delete cycles a user starts
    MaxExpirations,  \* bound: leases that expire before a DELETE
    MaxCrashes,      \* bound: handlers that die without converging
    MaxFaults,       \* bound: I/O errors and aborted transactions
    MaxMishaps,      \* bound: messages the broker loses or delivers twice
    Prompt           \* no live worker outlives its lease

ASSUME PipelineAssumption ==
    /\ Worker # {}
    /\ {MaxRetries, MaxDeletes, MaxExpirations, MaxCrashes, MaxFaults, MaxMishaps}
         \subseteq Nat
    /\ Prompt \in BOOLEAN

VARIABLES
    doc,         \* the documents row
    task,        \* document_tasks rows, by idempotency key
    attempts,    \* document_task_attempts rows of each task, by attempt_no
    checkpoint,  \* processed_items of the embed task is set
    lease,       \* the youngest document_processing_leases row; cycle tells
                 \* how many DELETEs were before its acquired_at
    rows,        \* derived rows: parse results, drafts, chunks
    objects,     \* files: the upload and the parse result object
    msgs,        \* messages on the broker
    worker,      \* what each worker process executes
    scan,        \* what the maintenance scanner has listed
    used         \* how much of each bound is spent; strays: faults that left a file

dbVars == <<doc, task, attempts, checkpoint, lease, rows>>
vars == <<doc, task, attempts, checkpoint, lease, rows, objects, msgs,
          worker, scan, used>>

(***************************************************************************)
(* Values                                                                  *)
(***************************************************************************)
Stage(s) == <<s, 0>>
Cleanup(c) == <<"delete_cleanup", c>>
NoTask == <<"none", 0>>
Stages == {Stage(s) : s \in {"parse", "chunk", "embed", "finalize"}}
Cleanups == {Cleanup(c) : c \in 1..MaxDeletes}
TaskId == Stages \cup Cleanups

NextStageSkipsChunk(t) ==  \* mutant
    Stage([parse |-> "embed", chunk |-> "embed", embed |-> "finalize"][t[1]])
NextStage(t) ==
    Stage([parse |-> "chunk", chunk |-> "embed", embed |-> "finalize"][t[1]])

DocStatus == {"queued", "processing", "completed", "failed", "deleting", "deleted"}
DocType == {"parse", "chunk", "embed", "finalize", "delete_cleanup", "none"}
TaskStatus == {"absent", "pending", "queued", "running", "succeeded", "failed",
               "cancelled"}
AttemptStatus == {"running", "succeeded", "failed", "cancelled"}
ErrorCode == {0, 20001, 20011, 20012, 20013, 20014, 20015}  \* 0: NULL

Doc == [status : DocStatus, type : DocType, error : ErrorCode, cycle : 0..MaxDeletes]
NoDoc == [status |-> "unread", type |-> "none", error |-> 0, cycle |-> 0]

\* A parse result row is named by the attempt that wrote it.
ParseRow(n) == <<"parse_result", n>>
Draft == <<"draft", 0>>
Chunk == <<"chunk", 0>>
HasParseRow(R) == \E r \in R : r[1] = "parse_result"

Idle == [pc |-> "idle", task |-> NoTask, att |-> 0, retry |-> 0, code |-> 0,
         seen |-> NoDoc, found |-> {}]
NoScan == [lease |-> [id |-> 0, task |-> NoTask], orphans |-> {}]

Hidden == {"deleting", "deleted"}
CleanupFailed(d) ==
    d.status = "failed" /\ d.type = "delete_cleanup" /\ d.error = 20015

\* What an ORM flush leaves in a row: only the columns the session changed.
Flush(row, loaded, new) ==
    [f \in DOMAIN row |-> IF new[f] # loaded[f] THEN new[f] ELSE row[f]]

Open(t) == \E n \in DOMAIN attempts[t] : attempts[t][n] = "running"
OpenAttempts ==
    {a \in UNION {{<<t, n>> : n \in DOMAIN attempts[t]} : t \in TaskId} :
        attempts[a[1]][a[2]] = "running"}

RunnableTwice(t) == task[t].status # "absent" /\ ~Open(t)  \* mutant
\* uq_document_task_attempts_open and the status test of begin_attempt.
Runnable(t) ==
    task[t].status = "queued" /\ task[t].retry <= MaxRetries /\ ~Open(t)

\* The retry budget: a task runs at most MaxRetries + 1 times.
CanRetryOffByOne(retry) == retry <= MaxRetries  \* mutant
CanRetry(retry) == retry < MaxRetries

RequeuedUncounted(retry) == [status |-> "queued", retry |-> retry]  \* mutant
Requeued(retry) == [status |-> "queued", retry |-> retry + 1]

Released(l) == [l EXCEPT !.open = FALSE, !.task = NoTask, !.expired = FALSE]
Goto(w, pc) == worker' = [worker EXCEPT ![w].pc = pc]
Return(w) == worker' = [worker EXCEPT ![w] = Idle]
At(w, name, pc) == worker[w].task[1] = name /\ worker[w].pc = pc

\* except branches: rollback first, so the cached rows are gone.
ToCancel(w) ==
    worker' = [worker EXCEPT ![w].pc = "cancel", ![w].seen = NoDoc]
ToFail(w, code) ==
    worker' = [worker EXCEPT ![w].pc = "fail", ![w].code = code, ![w].seen = NoDoc]

Spend(b, max) == used[b] < max /\ used' = [used EXCEPT ![b] = @ + 1]
Fault == Spend("faults", MaxFaults)
\* An I/O error of parse that leaves the result object behind, without a row.
Stray == /\ used.faults < MaxFaults
         /\ used' = [used EXCEPT !.faults = @ + 1, !.strays = @ + 1]

(***************************************************************************)
(* Initial state: an upload batch has just been coordinated, the document  *)
(* and its parse task are queued and the parse message has been sent.      *)
(***************************************************************************)
Init ==
    /\ doc = [status |-> "queued", type |-> "parse", error |-> 0, cycle |-> 0]
    /\ task = [t \in TaskId |->
                 [status |-> IF t = Stage("parse") THEN "queued" ELSE "absent",
                  retry |-> 0]]
    /\ attempts = [t \in TaskId |-> <<>>]
    /\ checkpoint = FALSE
    /\ lease = [id |-> 0, open |-> FALSE, task |-> NoTask, expired |-> FALSE,
                cycle |-> 0]
    /\ rows = {}
    /\ objects = {"upload"}
    /\ msgs = {Stage("parse")}
    /\ worker = [w \in Worker |-> Idle]
    /\ scan = NoScan
    /\ used = [b \in {"expirations", "crashes", "faults", "mishaps", "strays"} |-> 0]
=============================================================================
