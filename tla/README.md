# OrionaMesh in TLA+

OrionaMesh is a retrieval-augmented question answering service: users upload
documents into knowledge bases, Celery workers parse, chunk and embed them, and
answers are streamed with citations to the chunks they rest on. This directory
holds TLA+ models of the backend (`src/backend/app`) and of the session handling
of the browser client (`src/frontend/src/lib/api`), the TLC configurations that
check them on small instances, and theorems that TLAPS proves for every
instance. Paths below are relative to `src/backend/app` unless they start with
`src/`.

## Inventory

| Component | State | Operations | Status |
|---|---|---|---|
| Stage orchestrator (`services/document_pipeline.py`, `workers/base.py`) | `documents`, `document_tasks`, `document_task_attempts` | `begin_attempt`, `complete_stage`, `fail_stage`, `converge_cancelled` | partly: all but `_replay_after_terminal` |
| Stage workers (`workers/document_{parse,chunk,embed,finalize}.py`) | derived rows, parse result object, what the session has loaded | one handler per stage | modelled |
| Document deletion (`services/document_deletion_service.py`, `workers/document_delete_cleanup.py`) | `delete_cycle`, cleanup tasks | DELETE, retry after 20015, cleanup | modelled |
| Maintenance scanner (`workers/task_recovery.py`) | what it has listed | expired leases, orphaned attempts, redispatch; batches, requests, knowledge bases, stale messages | modelled, in the module of what it recovers |
| Broker (`workers/celery_app.py`) | messages | deliver, lose, redeliver, crash | modelled |
| Processing slots (`repositories/processing_leases.py`) | `document_processing_leases`, advisory locks | `acquire`, `release`, `heartbeat` | partly: in two halves |
| Upload coordination (`services/document_service.py`) | batches, idempotency keys, temporary and final objects | upload, replay, takeover, compensation | modelled |
| Knowledge base deletion (`services/knowledge_base_service.py`) | `knowledge_bases.status` | delete, retry, converge | partly: without creation and renaming |
| Answers and streams (`services/answer_service.py`, `api/v1/sse/message_stream.py`) | message status, citations, SSE queue, stop event, threads | ask, stream, fail, cancel, sweep | partly: without titles, history and paging |
| Model gateway (`infrastructure/model_gateway/service.py`) | attempts, pull threads, relay thread and queue, audit | `call_stream` | partly: without the sequential `call` |
| Rate limiting (`infrastructure/rate_limit`, `api/middleware/rate_limit.py`) | sorted sets in Redis, their expiry | the script, the rules of a policy, fail open or closed | partly: without subject digests and the 413 |
| Accounts and sessions (`services/auth_service.py`) | `auth_sessions` | login, refresh, logout | partly: without registration and hashing |
| Retrieval and citations (`services/retrieval_service.py`) | none | two searches, fusion, reranking, packing | partly: without reading citations back |
| Frontend client (`src/frontend/src/lib/api/{client,session}.ts`) | session of a tab, `localStorage`, refresh in flight | request, upload, logout, refresh | partly: without `streamEvents`, which keeps no state |
| Parsers, upload validation, routes, settings, logging, version cleanup | none shared | | not modelled, see below |

### How they interact

An upload tests its knowledge base and its Idempotency-Key, writes temporary
objects, commits documents, `parse` tasks and the request in one transaction,
and then *coordinates* the batch: it locks the rows, renames the objects, and
marks the whole batch `queued`, or removes the files and fails the batch. A
repeated request and the scanner run the same coordinator over a batch that was
left half way. Each stage worker begins an *attempt* of its task, does its work,
and hands over through the orchestrator, which closes the attempt and the task,
queues the next one and moves the *lease* (the processing slot of the document)
along, in one transaction; the message for the next stage goes out after the
commit and may be lost. A DELETE may come at any time; it cancels what is queued
and either queues a `delete_cleanup` or leaves it pending until the running
attempt's lease expires. The DELETE of a knowledge base stages the DELETE of
all its documents; the scanner removes it when they are tombstones. Every 30
seconds the scanner also recovers tasks whose lease has expired, attempts that
run without a lease, messages that were lost, and answers that stay `streaming`.

A question passes the limiter, creates its messages, retrieves evidence and
streams: the gateway pulls the provider's chunks in threads of its own under two
timeouts, a producer thread pulls the gateway, and the SSE coroutine pulls the
producer's queue from a pool thread. Every call of the browser carries an
access token; one that is rejected waits for the one refresh of its tab and is
replayed.

### What is hard

* Rows are locked, but the ORM session hands back the attributes it loaded
  *before* the lock for every object the handler still refers to
  (`expire_on_commit=False`, no `populate_existing`). A test "under the lock" may
  test old values, and a flush writes the columns that differ from them.
* Messages are delivered at least once: two workers may execute the same stage.
* Work is done between transactions: files are written before the row that
  names them and renamed before it says so, `embed` commits twice, an answer is
  completed before its citations are saved.
* Several coordinators may serve one batch; SKIP LOCKED hides part of it.
* The scanner lists rows first and recovers them one by one later. A worker may
  be slower than its lease, and go on after it was given up for dead.
* A stream ends in five threads at once, two of which may be blocked.
* Redis may fail after it has counted; readings of the clock arrive out of order.
* Tabs share `localStorage` and nothing else; replies arrive after a logout.

`hazards` in `PROJECT.json` lists each at its line, with the properties that
cover it. What makes each component correct:

* *pipeline*: stages in order, one at a time, under a slot, with a retry budget;
  derived data complete when published; a history that never changes; an end.
* *deletion*: a document in `deleting` stays hidden and always has somebody left to
  finish its deletion, which leaves nothing behind.
* *slots*: a user never holds more than the limit, a document never two.
* *uploads*: a batch is accepted or failed as a whole, a key makes one batch, no
  object is lost, nobody waits for ever.
* *knowledge bases*: removed only when every document is, and then completely.
* *messages*: one terminal state, the one the client was told; citations with
  every completed answer that was announced; everything released at the end.
* *gateway*: one stream, whatever was retried; one audit record.
* *rate limiting*: never more than the limit in any window, no write uncounted.
* *accounts*: one live session per login; a logout ends it; every call ends.
* *retrieval*: ranked by evidence; what the context leaves out is accounted for.

## Modules

| Module | Models |
|---|---|
| `PipelineState` | the rows, files, messages and worker processes around one document, and the helpers on them |
| `StageOrchestrator` | `begin_attempt`, `complete_stage` (`Advance`), `fail_stage`, what follows a rollback (`Reload`, `FailAfterRollback`, `ConvergeCancelled`) |
| `StageWorkers` | the handlers of parse, chunk, embed and finalize, one action per transaction or file operation |
| `DocumentDeletion` | DELETE and `delete_cleanup` |
| `TaskRecovery` | the scanner: list (`ScanExpired`, `ScanOrphans`), then recover (`RecoverLease`, `RecoverOrphan`) |
| `DocumentPipeline` | the composition, the broker, crashes, fairness and the properties |
| `SlotPool` | abstract: a set of documents that hold slots, at most `MaxPerUser` for each user |
| `ProcessingLeases` | `acquire` and `release` of all users, one action per SQL statement |
| `UploadBatch` | uploads, the coordinator that request, replay and scanner share, expiry of requests |
| `BatchLife` | abstract: what a batch, its documents and its request become, one step for each verdict, whoever gives it |
| `KnowledgeBase` | extends `UploadBatch` by the deletion of documents and of the knowledge base, the scanner's convergence, fairness and the properties |
| `ModelGateway` | `call_stream`: attempts, pull threads, relay thread, timeouts |
| `AnswerStream` | extends `ModelGateway` by `prepare`, the SSE stream, the producer thread, citations and the sweep |
| `RateLimit` | the sliding window script and the middleware that asks it |
| `Sessions` | rows of `auth_sessions`, tabs, calls and their shared refresh |
| `RankFusion` | the score of reciprocal rank fusion, as fractions |
| `Retrieval` | the two searches, fusion, reranking, and the loop that packs the context |
| `MC*` | constants, symmetry and constraints for TLC, one module for each instance |
| `ProcessingLeasesProofs`, `DocumentPipelineProofs`, `StageFlowProofs`, `KnowledgeBaseProofs`, `AnswerStreamProofs`, `RateLimitProofs`, `SessionsProofs`, `RetrievalProofs` | theorems |

### State and code

In `DocumentPipeline`, `doc`, `task`, `attempts`, `lease`, `checkpoint` and
`rows` are the database; `objects` the file store; `msgs` the broker. A task is
named by its idempotency key: `<<"parse", 0>>`, or `<<"delete_cleanup", c>>` for
delete cycle `c`. `worker[w]` is what a process executes: the program counter
`pc`, the task and attempt number it holds, `seen`, the document its session
has loaded, and `retry`, the counter its session has loaded. `Flush` is the ORM
flush: only columns that differ from the loaded ones are written. Where the code
rolls back first, `seen` is dropped and the following action reads rows.

What a transaction locks before it tests is one atomic action. Where the code
reads without a lock, or keeps what it read, reading and using are two actions.
Lock waits that PostgreSQL breaks as a deadlock appear as aborted transactions
(`StageBreaks`, `ParseSaveFails`).

In `ProcessingLeases` one action is one statement at READ COMMITTED: a `SELECT
... FOR UPDATE` takes its snapshot (`Select`), waits for the rows others hold,
and counts those that are still open (`Count`); the insert waits for an
uncommitted row of the same document (`Insert`), and the advisory lock lives to
the end of the transaction (`EndTx`). Users may hash to the same key.

In `UploadBatch`, `doc` and `request` are rows, `tmp` and `obj` say which
documents have a temporary and a final object. `proc` are the coordinators: the
request of each batch and the scanner. A process in `promote` holds the rows in
`docs` (`LockedBy`) until its commit or rollback; `Coordinate` takes the rows
nobody holds (SKIP LOCKED), `Promote` renames one object, `MarkQueued` is the
commit. After a failed rename the locks are gone and compensation removes the
files (`CompensateFiles`) and rewrites the rows (`CompensateRows`) in two steps.
`request.expired` is the passing of `expires_at`. In `KnowledgeBase`, `held` are
the rows that a DELETE has locked and not yet committed. DELETE of the knowledge
base locks, tests and stages in one transaction, hence in one action. The pipeline
of a document is one task: `Start` takes it to `processing`, `Finish` ends it; where
a DELETE found it running the cleanup waits, until the attempt makes way (`HandOver`,
the worker at its fence or the scanner) or fails over the deletion (`FailOver`).

In `AnswerStream`, `req` is the coroutine, `sse` the producer thread, `getter`
the pool thread blocked in `queue.get`, `sq` and `sstop` their queue and stop
event; `gw`, `pull`, `relay`, `gq` are the gateway's frame, threads and queue.
The gateway is a generator: its frame only moves while the producer is in
`next()` (`Calling`), and closing it acts on the place where it is suspended
(`CloseGenerator`). A put that waits for room is a loop of test and put, as in
the code. A pull thread tests its stop event (`PullTests`) and ends (`PullEnds`) in
two steps; `Refuse` is the error of a call that gets no attempt. `client` is what was
sent.

In `RateLimit`, `zset[k]` is the sorted set, as indices of `log`, everything
ever admitted; `merged[k]` are the events whose member a later one of the same tick
has taken over (`SameMember`), and `expiry[k]` is the PEXPIRE. `Ask` reads the clock, `Admit` or
`Deny` is the script with that reading, later and perhaps after younger ones.

In `Sessions`, a session stands for the refresh token and the access token
issued together; `root` is the login it descends from, `by` the tab it was
issued to. `refresh[t]` is `refreshInFlight` of a tab; `locked` means that the
server's transaction holds the row. JavaScript runs a tab in one thread, so what
follows a settled promise is one action (`RefreshSucceeded`).

`Retrieval` runs the stages of one question in order; a search returns the
first `TopN` of any set of chunks under any similarities. A sort is any list of
the same members without an inversion (`Fusions`, `Rerankings`): which of two
equal keys comes first is left open. `pack_context` is a loop, one turn per
action: `next` is its position, `pack`, `budget` and `last` are its `parts`,
`budget` and `last_kept_seq`.

### Abstractions

* One document, one version in the pipeline. Other users' slots appear as
  `ParseDenied`; `ProcessingLeases` models them.
* `embed` has one batch; its loop repeats the same three steps.
* `heartbeat`'s `find_open` and lock are one step: nothing between them depends on the order.
* `documents.retry_count` mirrors the task's counter and is left out, as are
  names, hashes, messages and timestamps.
* Thresholds of time (60 s before a redispatch, 300 s leases, 30 s scans) are
  arbitrary delays; `Expire` may happen whenever the lease is open. `Prompt` says
  whether a live worker, coordinator or answer may be slower than the timeout of
  whoever would take it for dead; each such guard names it.
* `_replay_after_terminal` is left out: no worker calls `complete_stage` twice
  for the same attempt.
* `RefreshScan` is the scanner's rollback after the recovery of another lease
  failed: it makes the session read the listed lease again.
* `KnowledgeBase` knows the stages of a document as one attempt, with its start and
  its outcome (`Process`), and a cleanup by its outcome (`CleanUp`, `CleanUpFails`);
  that parse may write `processing` over a deletion (`parse_unhides`) is left out.
* All uploads of a run share one key, or have none; contents are alike (a
  repeated request with other contents is answered 409 and changes nothing).
* Expired rows of a rate limit are removed by the script; a key that expires is
  `Visible` no more. Subjects are given with the request.
* A replayed call after `MaxSessions` sessions finds no successor (`NoneLeft`).

## Runs

Bounds: `MaxRetries` is 1 where the code has 3: first try, one retry, exhaustion
are all there is to tell apart. One event of each kind of fault is enough for
every single-fault scenario, at every point; two where a property needs a budget
to run out. Two workers are enough for any pair of handlers to overlap; the
database serialises the rest. Each bound is a constant that guards one kind of
action, or a constraint of the `MC` module.

| Run | Question, and its bounds |
|---|---|
| `processing` | two workers, lost and repeated messages, I/O errors: types, slot, one stage at a time, order, derived data, history |
| `recovery` | a DELETE at any point with two workers and a lost or repeated message; or a crash, an expired lease, an I/O error and a DELETE; or a cleanup that exhausts its budget (20015) and a second DELETE: attempts are paid for, published documents have their chunks, `processing` holds a slot, a document in `deleting` always has somebody to finish it (`DeletingProgress`) and its tombstone is clean (`DeletedLeavesNothing`), no stage exists unless the one before it has succeeded once (`StagesEarned`). `OneConcern` keeps the three families apart |
| `termination` | liveness of processing and of deletion, one worker, one I/O error, one lost message, and a DELETE: a deletion ends in the tombstone or in 20015, or is lost to a stage that ran when it began (`FailedOver`) |
| `leases` | three workers, four documents of two users on one lock key, two slots: the limit, one slot per document, refinement of `SlotPool`, and that every request is answered |
| `uploads` | an upload of two documents and one of one document under the same key, the scanner, the DELETE of a document and of the knowledge base with its retry; stages that fail over a deletion; a crash and an I/O error, or a DELETE of a document still uploading (`OneTrouble`), of crashes, I/O errors, DELETEs of one document and retries at most two (`TwoTroubles`): accepted as a whole, one batch per key, files where rows are, refinement of `BatchLife` (in which tombstones are final), uploads end, and deletions unless a document blocks them |
| `answers` | one question, two attempts of two chunks, queues of one, a crash, and a disconnect or a deletion: the client is told the truth, gets one stream, is audited once; messages end once; all threads and streams are released |
| `limits` | three requests under two policies (one of two rules), windows of three and two ticks, limits of two and one, clock readings one tick late, four ticks, events of one tick that share a member or do not: the window bound, Retry-After, no write uncounted |
| `sessions` | two tabs, a logout, an upload and a request, three sessions, one fault, tokens that expire at any time: one live session per login, a shared refresh, a logout whose answer finds the login ended (unless a refresh of its own tab was under way when it was sent, or began before the answer), calls that end |
| `retrieval` | four chunks of two documents, two rows per search, two similarities, any reranker answer, room for three tokens: the order by evidence, and why each chunk is left out |

Deadlock is checked in `leases`. The others stop when there is nothing left to
do: a document that is completed, failed or deleted, an answer that has ended,
requests that have been served, a knowledge base that is gone.

Queues of one slot are the worst case of the eight of the code: every put
may find them full. The window run needs three requests because the property
speaks of `Limit + 1` events under a limit of two.

### Fairness

`FairSpec` of `DocumentPipeline` asks that a worker that executes a handler goes
on (WF), that the beat goes on scanning (WF on listing, recovering and
redispatching; `maintenance_scan_task` runs every 30 seconds), that the broker
delivers a task that is sent over and over (SF: a message may be taken by a
handler that returns at once), and that a parse that is sent over and over
finds a free slot in the end (SF on `ParseAcquire`: the slots of the user's
other documents are released). `FairSpec` of `ProcessingLeases` asks that
PostgreSQL executes statements and serves the waiters of an advisory lock in
order (SF on `Lock`).

`FairSpec` of `KnowledgeBase` asks that requests and coordinators go on (WF),
that DELETEs that hold a row commit (WF), that the scanner takes a batch it
may take again and again (SF: another batch may occupy it), and that the workers'
`Work` (starting, ending and handing over a task, cleaning up) and the convergence,
which wait for row locks that come and go, get their turn (SF). That the steps of
several documents share one condition asks for less than one each: each step is
taken a bounded number of times, so all of them are taken in the end. A stage that
fails over a deletion is never asked for. `FairSpec` of `AnswerStream` asks that the event loop, the pool
thread, the producer, the relay, the pull threads (the HTTP timeout ends a read
of the provider) and the sweep go on (WF). `FairSpec` of `Sessions` asks that a
call that was sent is served or rejected, that a row lock is granted and that a
refresh is answered (WF). Faults, crashes, users, time and mishaps are never
fair.

### Where the code and its documents differ

These runs are expected to fail; each checks one property that a document or a
comment of the repository states, and the counterexample is a behaviour of the
code (`findings` in `PROJECT.json` quotes the lines).

| Run | Property | What happens |
|---|---|---|
| `crash_strands` | `Settles` | a chunk or embed task is requeued without its lease; its next execution finds none and cancels itself, and nobody resumes the document |
| `parse_unhides` | `HiddenStaysHidden` | parse writes `processing` from a copy of the document older than the DELETE |
| `logout_revives` | `LogoutEndsLogin` | a second refresh between the replay of a logout and its service leaves a successor alive, and stores it after the logout has cleared the session |

Other differences are in the models and bound what the passing runs claim. They
have no run of their own; the text says which guard or exception stands for each.

* A crash between the write of the parse result file and its row
  (`workers/document_parse.py:136`) leaves a file that no cleanup finds, against
  `data-model.md:184`. So does a single I/O error: a write that fails half way leaves
  what it has written (`infrastructure/storage/local.py:68-71`; the branch at
  `workers/document_parse.py:137` removes nothing), and a compensation whose
  `delete_object` fails is logged and goes on (`workers/document_parse.py:180-187`).
  `DeletedLeavesNothing` makes an exception of both (`used.strays`).
* `fail_stage` (`services/document_pipeline.py:171-196`) does not look at the status of
  the document. A stage that ran when the DELETE came and then fails writes `failed`
  over `deleting` and releases the lease for whose expiry the cleanup waits
  (`services/document_deletion_service.py:185-187`); nothing queues the cleanup any
  more, and the document is visible again, against `data-model.md:184`: `FailedOver` in
  `DeleteEnds`. A knowledge base that is being deleted then stays so, for the
  convergence counts neither a tombstone nor a 20015 (`workers/task_recovery.py:476-485`,
  against `data-model.md:185`): one of the blocks of `KbDeletionEndsUnlessBlocked`.
* A crash between the temporary files of an upload (`services/file_storage.py:27-32`)
  and the commit of its rows leaves them for ever: no row names them and no sweep looks
  for them; and `cleanup_batch` ignores what it cannot remove
  (`infrastructure/storage/local.py:55-58`). `NoOrphans` excepts both (`used.strays`).
* Two kinds of lease let a stage write beside the cleanup, so that rows outlive the
  tombstone (`data-model.md:184` again); `DeletedLeavesNothing` excepts them. A lease
  that expired before the DELETE hides that a worker starts under it: the scanner,
  which listed it, closes the attempt and queues the cleanup
  (`workers/task_recovery.py:131`). And a parse that read the document before the
  DELETE (`workers/document_parse.py:60`) takes a lease after it, for the acquire
  looks at no status (`repositories/processing_leases.py:46`): when that lease
  expires once the deletion has failed (20015), the scanner requeues the parse, which
  writes while the cleanup of the next DELETE runs. `lease.cycle` tells a lease from before the
  DELETE (`acquired_at`) from one taken after it. The bounds of `recovery` are too
  small to meet either; TLC found both with more, before the proof was tried.
* The orphan scan takes the attempt of a live cleanup; both requeue it and one
  retry is not counted (`workers/document_delete_cleanup.py:151`, against the
  budget of `data-model.md:108`), and embed does the same with the counter it has
  cached once a DELETE has removed its drafts: `Counted`, the exceptions of
  `AttemptsCounted`.
* A logout clears what its tab has stored, but a refresh of another tab that is
  under way stores its successor afterwards, and the tab that logged out loads it:
  `LogoutEndsLoginUnlessOverlapped` speaks of the moment the logout is answered. Nor
  does a logout join a refresh of its own tab that is under way when it is sent with
  a valid access token (only a 10001 does, `client.ts:259-261`): the refresh may rotate
  the token the logout carries before it is served. The property excepts a logout that
  was sent during a refresh of its tab.
  (Two more calls and a session more than in `sessions` are needed to see it; TLC
  refuted the state invariant there, before the proof was tried.)
* The fence of parse tests the attempt cached in its session
  (`repositories/fencing.py:35`, against `data-model.md:183`): with `Prompt =
  FALSE` a late worker still commits. The recovery requeues the task of the lease
  whatever its status (`workers/task_recovery.py:379`): one that finished after the
  listing, under an expired lease that did not keep it from starting, or a
  parse that was over when a repeated message took a lease for it
  (`workers/document_parse.py:63`), so that two stages are in flight. After an expiry
  none of `SlotWhileRunning`, `OneStageAtATime`, `StageOrder`, `DerivedDataKept` and
  `HistoryFinal` holds, not even with `Prompt`: TLC refutes each with a crash or a
  repeated message and two expiries, so they are checked without any. What an
  expiry leaves of the order is `StagesEarned`: what has succeeded once is in the
  history, even when the stage is started again.
* The stale sweep converges objects it has listed
  (`workers/task_recovery.py:521`): without `Prompt` it overwrites a terminal
  message, against `services/message_terminal_state.py:6-9`. Whether `Prompt`
  holds is a matter of configuration: `attempt_budget_sum`
  (`infrastructure/model_gateway/config.py:84`) adds numbers of attempts where
  `quickstart.md:363` speaks of time, so the start-up test of the limit bounds nothing.
* A call that no model is configured for, or whose content cannot be sanitized, fails
  before its first attempt (`infrastructure/model_gateway/service.py:122-133`, `369-374`)
  and outside of the `try` that audits: the client gets an error and there is no record
  of the call. `AuditMatches` asks for a record from the first attempt on (`refused`).
* A thread whose first chunk is late closes its stream if it finds the stop event set
  (`infrastructure/model_gateway/service.py:343-346`, as the docstring at `326-327` says). The caller may
  find it alive and set the event (`355-357`) when it has already tested it: then
  nobody closes the stream, and the connection is left to the garbage collector. These
  are the `missed` threads of `Released`.
* The script makes the member of an event with `tostring` of a number of 16 digits
  (`infrastructure/rate_limit/scripts/sliding_window.lua:35`), of which Redis' Lua prints 14: two
  events of one key within the same 100 microseconds share a member, `ZADD` moves the
  older one instead of adding one, and a request more than the limit passes, against
  the comments at lines 2 and 33. `WindowLimit` counts such events once.
* An upload that has passed its test of the knowledge base
  (`services/document_service.py:99`) adds documents to one that is being
  deleted; nobody deletes these and the deletion never ends (`data-model.md:185`):
  the other block of `KbDeletionEndsUnlessBlocked`.
* The scanner does not repeat its test of `pending` under the lock
  (`workers/task_recovery.py:109`, against `data-model.md:175`), a coordinator
  that skips a locked row takes the rest for the whole batch
  (`repositories/documents.py:79`), and the compensation writes over a document
  that a DELETE has taken since the rollback
  (`services/document_service.py:290`): `Prompt` and `OneTrouble` of `uploads`.
  With a crash and an early DELETE together (`OneTrouble` lifted) TLC finds
  `TombstoneFinal` violated: the coordinator skips the row the DELETE holds, and
  the compensation writes `failed` with 20011 over the tombstone (`data-model.md:91`).
* The header of `services/retrieval_service.py` (line 8) speaks of adjacent
  chunks of which one is kept; the code drops a chunk only when it follows the
  one of its document that was packed last. `PackExplained` says what the code does.

## Proofs

`ProcessingLeasesProofs` proves, for every set of users, documents, workers and
lease ids, every limit and every hash of users to keys:

| Theorem | States |
|---|---|
| `Invariance` | `Spec => []Inv`, the inductive invariant |
| `TypeCorrect` | `Spec => []TypeOK` (proved only: no run spends itself on it) |
| `SlotLimitHolds` | `Spec => []SlotLimit` |
| `OneSlotHolds` | `Spec => []OneSlotPerDocument` |
| `LeasesImplementPool` | `Spec => PoolSpec`: the transactions implement `SlotPool` |

The only assumption is `LeaseAssumption` (owners and keys are functions, the
limit is positive). `SlotLimit` is not inductive: a transaction that is about to
insert must know that what it has counted is still an upper bound. `Inv` adds
that a worker past `Lock` holds the key of its document's owner (`LockHeld`);
hence nobody else commits a lease of that owner; that every open lease of the
owner is therefore among those it has seen (`SeenAll`); that it counted fewer
than the limit (`HasRoom`); and that no row of its document is committed once
its insert succeeded (`NotYet`). Rows that are released meanwhile only lower the
count. The refinement maps `Commit` to `Take` (there is room, the document holds
nothing) and `Release` to `GiveBack` (the document had no second lease), every
other statement to a stutter.

`DocumentPipelineProofs` proves, for any number of workers, retries, delete
cycles, expirations, crashes, faults and mishaps, and for any value of `Prompt`:

| Theorem | States |
|---|---|
| `Invariance` | `Spec => []Inv`, the inductive invariant |
| `TypeCorrectness` | `Spec => []TypeOK` |
| `ProcessingIsCounted` | `Spec => []ProcessingHoldsSlot` |
| `PublicationIsComplete` | `Spec => []PublishedHasChunks` |
| `DeletionInHand` | `Spec => []DeletingProgress` |
| `AttemptsArePaid` | `Spec => []AttemptsCounted` |
| `AttemptsArePaidUntilDelete` | the same for every task, while there was no DELETE |
| `StagesAreEarned` | `Spec => []StagesEarned` |

The only assumption is `PipelineAssumption` (the bounds are naturals).
`ProcessingHoldsSlot` and `PublishedHasChunks` are about rows, but the steps that could break them write from copies,
so `Inv` says what the copies may hold: a parse that goes on has loaded a document
that was `queued` or `processing`, a cleanup that goes on one that was not
`deleted` (`ProcessOK`), so that the column a flush writes is known whatever the
row has become. A document is `deleting` only in a delete cycle (`DocOK`), so a
cleanup task exists for it. Finalize publishes without looking at the
checkpoint; `FinalizeAfterEmbed` says that whoever knows of the finalize
stage (a task row, a lease, the scanner's listing, a process, or an embed about
to complete) comes after the checkpoint, and the only step that removes chunks
also leaves the document `deleted`. One lemma for each handler reduces its
actions to a few transactions (`FailForKeeps`, `RetryKeeps`, `AdvanceKeeps`,
`ProcessStep`, `RecoveryStep`, ...).

`DeletingProgress` needs one fact more (`CancelsStages`): only a stage is ever
converged to `cancelled`, for a cleanup is not fenced; so a cleanup leaves
`queued` and `running` only together with the status `deleting`, or by being
requeued.

`AttemptsCounted` holds through deletions and recoveries, where a stale
worker may do anything. `CountInv` counts: a task that waits has at most as many
attempts as retries, one that runs one more (`Paid`). Every step either leaves a
task alone, ends it, charges it or begins the attempt it has paid for
(`Charged`). A requeue charges the counter of the row, or of a copy; the copy of
embed is harmless while its drafts exist, that of a cleanup until an I/O error
(`DraftsStay`, `FaultFree`). A cleanup does not exist before its delete cycle
(`Future`), and whatever leases, listings and workers name exists (`Known`).

`StagesEarned` is about the history, which a worker may rewrite long after its
attempt was recovered: `fail_stage` and `converge_cancelled` write to it by id, and
a complete_stage whose attempt the scanner has cancelled turns it into `succeeded`.
`EarnInv` says why no success is lost: an attempt has one worker at most
(`OneHolder`), which has not succeeded in it as long as it is there (`Held`), since
whoever writes `succeeded` leaves in the same transaction; all others write only to
attempts that are running (`OnlyCancels`).

`StageFlowProofs` builds on it, from the same assumption; what it states holds
under a condition:

| Theorem | States |
|---|---|
| `StagesHoldTheSlot` | `Spec => [](Undisturbed => SlotWhileRunning)` |
| `StagesComeOneAtATime` | `Spec => [](Undisturbed => OneStageAtATime)` |
| `StagesComeInOrder` | `Spec => [](Undisturbed => StageOrder)` |
| `DerivedDataIsKept` | `Spec => [](Undisturbed => DerivedDataKept)` |
| `HistoryIsFinal` | `Spec /\ []Undisturbed => HistoryFinal` |
| `TombstoneIsClean` | `Spec => [](Prompt => DeletedLeavesNothing)` |

`Undisturbed` says that nobody has deleted the document and no lease of it has
expired; crashes, I/O errors, aborted transactions, lost and repeated messages and
any number of workers are allowed, so the theorems say more than the run
`processing`, which has no crash. The condition is needed: after an expiry the
recovery requeues what is over (see above), and a DELETE takes the slot
and the drafts from a stage that still runs. `FlowInv` ties the copies to the rows: only
the last attempt of a task is open, and only while the task runs (`LastOpen`);
the worker that holds it is the only one that does (`Executing`); the
retry counter it has cached is the one of the row, for a stage that is queued has
as many attempts as retries (`Budget`); the stages exist in order, and only the last
of them is queued or running (`InOrder`); what runs, or is about to begin, holds the slot (`Slots`).
Then a fenced worker cannot exist (`NothingFences`), the scanner has listed nothing
(`Unlisted`), and a crash leaves a stage that runs for ever, but with its slot.

`TombstoneIsClean` is for any number of workers, crashes, faults, mishaps and
DELETEs (the run has two workers, and one concern at a time).
Deletion takes no lock that would keep a stage from writing: what makes the
tombstone clean is the order of things. `TombInv` tells three times apart.
Before the DELETE, `FlowInv` holds. After it, nobody takes a lease any more
(`SameLease`, from `lease.cycle = 0`), and while the old one is open the document
is `Waiting`: one stage goes on alone, and its end puts the next one in its place
(`StageLeft`), while no cleanup has begun (`Untouched`); the lease expires, by
`Prompt`, only when no worker writes under it (`Expiring`). The step that closes
it, an end of the stage or the recovery, leaves the document `Closed`: no worker
is at a parse or at the write of chunks, and whoever still looks for one finds
that parse is over (`ParseOver`), whatever the scanner requeues. Then rows and files
only go (`Emptying`), and the rows a cleanup has found are all there are (`Calm`).
That it finds the parse result file needs a row, since the purge asks for one:
`ParsedOwned` says that the file has its row, or a worker that is about to
write it, unless somebody died or parse has left it behind (`used.strays`).

`KnowledgeBaseProofs` proves, for any documents, batches, keys, crashes, I/O
errors and deletions, from `UploadAssumption` and `DeletionAssumption` (types of
the constants; batches have no document in common):

| Theorem | States |
|---|---|
| `OneBatchPerKeyHolds` | `Spec => []OneBatchPerKey`, for any value of `Prompt` |
| `QueuedHasObjectHolds` | `Prompt => (Spec => []QueuedHasObject)` |
| `AcceptedAsWholeInOneTrouble` | `Prompt => (Spec => [](OneTrouble => AcceptedAsWhole))` |
| `NoOrphansHolds` | `Prompt => (Spec => []NoOrphans)` |
| `TombstoneFinalInOneTrouble` | `Prompt => (Spec /\ []OneTrouble => TombstoneFinal)`; no run checks it, `LifeSpec` implies it |
| `BatchesImplementLife` | `Prompt => (Spec /\ []OneTrouble => LifeSpec)`: uploads, coordinators, scanner, DELETEs and the pipeline implement `BatchLife` |

The first rests on `KeyOwned`: as long as no request was removed, documents of a
key exist only in the batch its request names, since both are committed together
and the request is removed only when it has expired. The second needs that no two coordinators work on one
batch, which only the timeouts of the takeovers provide; hence `Prompt`, and
`Alone` in the invariant. A batch that has not committed is unknown
(`Uncommitted`), a coordinator that knows of no request has none to end
(`RequestLoaded`), what it has promoted so far has its file (`Promoting`), and a
batch that has queued a document is nobody's to coordinate any more (`Converged`):
no compensation can remove its files.

The other four add `WholeInv`, which holds as long as no DELETE has met an upload
half way (`used.early = 0`): the documents of a batch are all pending or none is,
and as long as they are, so is their request (`AllOrNone`, `RequestTells`); a
coordinator finds all of its batch pending and takes all of it, since a DELETE
holds only documents their upload has let go (`ServedWhole`, `HeldConverged`); no
cleanup is due for a pending document or a tombstone (`RowsFresh`), and a promoted
file has a live row (`FilesHaveRows`). `TempsOwned` says the same of temporary files,
which an upload has before its rows, as long as none was left behind. Crashes, I/O
errors and takeovers need no bound, where the run keeps them to one each.

`OneTrouble` allows one thing more: early DELETEs, any number of them, when nobody
dies and no I/O fails (`used.crashes + used.faults = 0`). Batches are not whole
then, for a document of one may be deleted, held or promoted without the others,
and `WholeInv` is of no use; what holds instead is `SmoothInv`. A document is
pending only while a DELETE holds it or the request that uploaded it is about to
queue it (`Tended`), with its own request unexpired before it (`Tends`). So the
scanner never finds work, and a request expires under nobody. The files of
existing rows are in the temporary place, or promoted by the one coordinator the
batch has (`FilesKept`, with `Alone`), so that a promotion misses none
(`FilesFound`) and nothing is ever compensated (`NothingFails`). A batch whose
request is accepted has nobody left to serve it (`AcceptedDone`), and a DELETE
never holds a tombstone (`HeldLive`). That one trouble at a time is needed is the
known difference above: with an early DELETE and a crash, `TombstoneFinal` fails.

`BatchesImplementLife` maps a row to its `Fate`: the parse task and the cleanup are
forgotten, and a deletion that has failed with 20015, or is tried again, still
counts as one. Coordinators, files, crashes, takeovers and the knowledge
base itself are not seen at all; what `BatchLife` sees of them is that a batch
arrives with its request (`Arrive`), that what is pending and in no DELETE's hand
is queued in one step with the answer of the request (`Accept`), or fails as a
whole (`Refuse`), and that `deleting` leads to `deleted` only, while a deletion that
has interrupted a stage goes on to `deleting` or is lost to it (`Yield`). Each kind of commit
has a lemma of its own (`MarkQueuedIsAccept`, `CompensateRowsIsRefuse`, ...); the
rest is not seen (`ServiceIsUnseen`). Two facts are needed beside the invariants
above. `DeletionInv`: a cleanup is due for a deletion only and a task runs only under
`processing` or a deletion (`RowsOrderly`), and no row is
locked by a coordinator and a DELETE at once, so that what a coordinator queues is
just what no DELETE holds; it holds for any value of `Prompt`. `LifeInv`: a request
is still `coordinating` when the coordinator of its batch gives the verdict, and one
that compensates has all of a batch that is still pending; it follows from `WholeInv`
(`WholeDecides`) and from `SmoothInv` (`SmoothDecides`), so that the refinement holds in
either trouble.
That no row outlives the knowledge base (`Gone`) holds
for any value of `Prompt`, by the foreign key.

`AnswerStreamProofs` proves, for any number of retries and chunks, any sizes of
the queues, and any crashes, disconnects and deletions, from
`GatewayAssumption` and `AnswerAssumption` (types of the constants, queues hold
something):

| Theorem | States |
|---|---|
| `AnswerIsOneStreamHolds` | `Spec => []AnswerIsOneStream`, for any value of `Prompt` |
| `AuditMatchesHolds` | `Spec => []AuditMatches`, for any value of `Prompt` |
| `ClientSawTruthHolds` | `Prompt => (Spec => []ClientSawTruth)` |
| `TerminalStateFinalHolds` | `Prompt => (Spec => TerminalStateFinal)` |

The stream's invariant `StreamInv` numbers the chunks along their way. There is
an `e` such that the client, the request, the SSE queue and the producer hold
the chunks 1 to `e` of the current attempt in this order (`Downstream`), and the
provider, the first pull, the relay thread and its queue hold what follows `e`
(`Upstream`). A thread moves a chunk within its half; only the generator's frame
moves one across (`Emits`), and it leaves an attempt only while `e = 0`. So when
the end of the stream arrives, nothing is under way (`Whole`). What is no chunk is
announced behind all chunks, and only when the generator is there (`Told`), which
with `Audited` (the audit record as a function of the generator's place) gives
`AuditMatches`; a call that was refused has asked no provider, and no record is
promised for it. Once the request is over, the threads may do what they like: the
invariant then speaks of the client's record only. The message needs no chunk:
`MsgInv` gives its status at each place of the request, and says that what the
sweep has listed belongs to a request that is over.

`RateLimitProofs` proves `WindowLimitHolds` and `WritesAreCountedHolds`, for
any requests, policies, limits, windows and delays, from `RateLimitAssumption`
(types of the constants; limits and windows are positive). `WindowLimit` speaks
of the times of admission, the script of scores that may be older. `IInv` ties
the two: a score is at most `MaxDelay` older than its event (`Times`); an event
that is neither in the sorted set nor `merged` happened at least
`Window - MaxDelay` ago (`Gone`), by its score or because the whole key has
expired, which is never earlier than its last event plus the window (`Outlives`).
So the younger events that are not merged are all in the set, and that never has
more than `Limit` (`Fits`, `OneMoreFits`). `WritesAreCounted` rests on `Asked`:
every rule with a subject is counted or still among those to be asked.

`RetryAfterHolds` proves `RetryAfterSuffices`: who waits the seconds that a 429
names finds room, unless somebody else was admitted meanwhile. By `Fits` a denied
script saw a full window, and it names the time when the oldest of its events has
left; until somebody is admitted the set only shrinks (`Promised`).

`SessionsProofs` proves `OneLivePerLoginHolds`, for any tabs, calls, sessions
and faults, from `SessionsAssumption` (types of the constants). A rotation
revokes one row and issues another with the same root; that the login does not
fork needs that the row is still live when it is rotated, although a logout or
another tab may want it: `Locks` says that a locked row is live and has one
holder, since `Revoke` and `LockSession` wait for it. `Roots` says that a root is
a session that exists, so that a new login starts one that nobody shares.
`SingleFlightHolds` adds `FlightInv`, an account of where a token can still be
found: what is kept, sent or rotated was issued (`Issued`); the token of a reply
that has not arrived is neither stored, cached, sent nor rotated (`OnItsWay`), so
that the tab that takes it when the promise settles cannot have rotated it; and
what a tab may send next, or has sent, it has not rotated (`OwnUnrotated`).
`LogoutEndsLoginHolds` is about a step, the answer of a logout. `Held` says that a
tab has no other live session of a login than the one it has stored or
cached, but for one whose reply it waits for or has missed. So a logout that was
sent, and that no refresh of its tab has overlapped (none was under way at the
sending, none began since), carries the only session
the tab has left in this login (`Aimed`), and revoking that one ends the login
for the tab. That the rotated token of another tab is none of these needs
`Carried`: a session whose reply is under way is live and no call has it.

`RetrievalProofs` proves, for any chunks, documents, token counts, similarities,
rerankers and budgets, from `RankFusionAssumption` (`K` is positive) and
`RetrievalAssumption` (types of the constants; a search returns at most `K + 1`
rows, in the code 20 with `K = 60`):

| Theorem | States |
|---|---|
| `BothPathsWin` | a chunk that both searches found within the first `K + 1` ranks scores more than any that one of them found |
| `BetterRankWins` | with the same evidence otherwise the better rank scores more |
| `RankedByEvidenceHolds` | `Spec => []RankedByEvidence` |
| `PackExplainedHolds` | `Spec => []PackExplained` |

Better evidence has the greater score (`BetterScoresMore`, by the first two and
`BothRanksBetter`); a list of all hits without repetitions or inversions then
has it first (`FusionRanks`). That a list of as many members as a finite set has
contains them all is the pigeonhole principle (`OrdersOfSet`). `PackExplained`
speaks of the end of a loop; `PackedSoFar` says the same of each turn: what is
kept lies before the position and in order, the rooms left add up, a candidate
that was left had its reason, and keeping another only lowers the room.
`LastIsPacked` is what makes `Follows` a reason: `last_kept_seq` only names
chunks that are packed.

All these proofs hold with a fifth of the time the provers are given.

Model-checked only: liveness (`EveryRequestAnswered`, `Settles`, `DeleteEnds`,
`PendingSettles`, `KbDeletionEndsUnlessBlocked`, `Released`, `MessageSettles`,
`CallsEnd`), for the prover treats neither fairness nor ENABLED.
Every invariant and every action property of the runs that pass has a theorem.

## Not modelled

* Parsers, upload validation and the HTTP layer convert data and keep no state;
  the models take their outcome as a choice. Settings, logging and readiness are
  I/O.
* `workers/document_cleanup.py` (cleanup of old versions) has no caller that
  creates its task.
* Of the limiter: the 413 for large bodies, the digests of subjects, the proxies
  that `source_ip` trusts, and the second of events that Redis may lose when it
  dies (its append-only file is flushed every second).
* Of accounts: registration, and the format of tokens.
* Of the gateway: the sequential `call`; its retries have no concurrency.
* Of retrieval: citations read back as live or snapshot.
* Of the frontend: `streamEvents` sends the access token it finds and never refreshes
  it (`client.ts:543-576`); the rest renders server state.
* Unique names (20006, 20016), titles and the paging of messages: single
  statements under a database constraint.

## Plan

What would come next, most useful first:

1. `LockOrder`: which rows each transaction locks and in which order, deadlock
   as a reachable state, and who is aborted.
2. The gateway's `call`, with its sequential retries.
3. In `KnowledgeBase`, the write of `processing` over a deletion (`parse_unhides`).
