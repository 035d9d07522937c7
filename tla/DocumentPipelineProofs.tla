------------------------ MODULE DocumentPipelineProofs ------------------------
(***************************************************************************)
(* Theorems about DocumentPipeline that hold of all its behaviours, for    *)
(* any number of workers and any bounds: its rows keep their types, a      *)
(* document in "processing" holds a slot, nothing is published without its *)
(* chunks, a deletion always has somebody left to finish it, and attempts  *)
(* are paid for.                                                           *)
(***************************************************************************)
EXTENDS DocumentPipeline, SequenceTheorems, FiniteSetTheorems, TLAPS

(***************************************************************************)
(* The inductive invariant                                                 *)
(***************************************************************************)
Parse == Stage("parse")
ChunkStage == Stage("chunk")
Embed == Stage("embed")
Finalize == Stage("finalize")

Row == {"parse_result", "draft", "chunk"} \X Nat
TaskRow == [status : TaskStatus, retry : 0..MaxRetries]
LeaseRow == [id : Nat, open : BOOLEAN, task : TaskId \cup {NoTask},
             expired : BOOLEAN, cycle : 0..MaxDeletes]
Pc == {"idle", "find", "acquire", "begin", "work", "save", "beat", "call",
       "complete", "purge", "commit", "fail", "failing", "cancel", "cancelling"}
Process == [pc : Pc, task : TaskId \cup {NoTask}, att : Nat, retry : 0..MaxRetries,
            code : ErrorCode, seen : Doc \cup {NoDoc}, found : SUBSET Row]
Listing == [lease : [id : Nat, task : TaskId \cup {NoTask}],
            orphans : SUBSET AttemptId]

\* The rows of the tasks and the messages that name them.
TasksOK ==
    /\ task \in [TaskId -> TaskRow]
    /\ attempts \in [TaskId -> Seq(AttemptStatus)]
    /\ msgs \subseteq TaskId

\* A document is only "deleting" in a delete cycle.
DocOK == doc \in Doc /\ (doc.status = "deleting" => doc.cycle > 0)

\* An open lease names its task.
LeaseOK == lease \in LeaseRow /\ (lease.open => lease.task \in TaskId)

DataOK ==
    /\ checkpoint \in BOOLEAN
    /\ rows \subseteq Row
    /\ objects \subseteq {"upload", "parsed"}

ScanOK ==
    /\ scan \in Listing
    /\ scan.lease.id # 0 => scan.lease.task \in TaskId

\* A busy process has a task; only a parse looks for a lease before it begins.
\* What a process has loaded: a parse goes on only with a document that was queued
\* or processing, a cleanup only with one that was not deleted.
ProcessOK(p) ==
    /\ p \in Process
    /\ p.pc # "idle" => p.task \in TaskId
    /\ p.pc \in {"find", "acquire", "begin"} => p.task = Parse
    /\ \/ p.pc \in {"find", "acquire", "begin"}
       \/ p.task = Parse /\ p.pc \in {"work", "save"}
       => p.seen.status \in {"queued", "processing"}
    /\ p.pc \in {"purge", "commit"} => p.seen \in Doc /\ p.seen.status # "deleted"

WorkersOK ==
    /\ worker \in [Worker -> Process]
    /\ \A w \in Worker : ProcessOK(worker[w])

\* Whoever knows of the finalize stage, or is about to create it, comes after
\* the checkpoint of embed.
FinalizeKnown ==
    \/ task[Finalize].status # "absent"
    \/ lease.task = Finalize
    \/ scan.lease.task = Finalize
    \/ \E w \in Worker : worker[w].task = Finalize \/ worker[w].pc = "complete"

FinalizeAfterEmbed == FinalizeKnown => checkpoint

Inv ==
    /\ TasksOK /\ DocOK /\ LeaseOK /\ DataOK /\ ScanOK /\ WorkersOK
    /\ FinalizeAfterEmbed
    /\ ProcessingHoldsSlot
    /\ PublishedHasChunks

(***************************************************************************)
(* Names of tasks, values of rows                                          *)
(***************************************************************************)
\* The bounds are natural numbers.
LEMMA Bounds ==
    /\ MaxRetries \in Nat /\ MaxDeletes \in Nat /\ MaxExpirations \in Nat
    /\ MaxCrashes \in Nat /\ MaxFaults \in Nat /\ MaxMishaps \in Nat
    /\ 0 \in 0..MaxRetries
  BY PipelineAssumption

\* The four stages are tasks, different ones, and a task is known by its type.
LEMMA TaskNames ==
    /\ Parse \in TaskId /\ ChunkStage \in TaskId /\ Embed \in TaskId
    /\ Finalize \in TaskId
    /\ Stages = {Parse, ChunkStage, Embed, Finalize}
    /\ Finalize # Parse /\ Finalize # ChunkStage /\ Finalize # Embed
    /\ Parse # ChunkStage /\ Parse # Embed /\ ChunkStage # Embed
    /\ NoTask \notin TaskId
    /\ NextStage(Parse) = ChunkStage
    /\ NextStage(ChunkStage) = Embed
    /\ NextStage(Embed) = Finalize
  BY DEF Parse, ChunkStage, Embed, Finalize, Stages, TaskId, Stage, Cleanups,
         Cleanup, NoTask, NextStage

\* The type of a task tells which stage it is.
LEMMA TaskTypes ==
    ASSUME NEW t \in TaskId \cup {NoTask}
    PROVE  /\ t[1] = "parse" <=> t = Parse
           /\ t[1] = "chunk" <=> t = ChunkStage
           /\ t[1] = "embed" <=> t = Embed
           /\ t[1] = "finalize" <=> t = Finalize
           /\ t[1] = "delete_cleanup" <=> t \in Cleanups
           /\ t[1] \in DocType
  BY DEF Parse, ChunkStage, Embed, Finalize, Stages, TaskId, Stage, Cleanups,
         Cleanup, NoTask, DocType

\* The cleanup tasks are the ones of the cycles a document may have.
LEMMA CleanupNames ==
    ASSUME NEW c \in 1..MaxDeletes
    PROVE  Cleanup(c) \in Cleanups /\ Cleanup(c) \in TaskId /\ Cleanup(c) # Finalize
  BY DEF Cleanups, Cleanup, TaskId, Finalize, Stage

\* A flush of rows that are documents leaves a document.
LEMMA FlushDoc ==
    ASSUME NEW row \in Doc, NEW loaded \in Doc, NEW new \in Doc
    PROVE  /\ Flush(row, loaded, new) \in Doc
           /\ Flush(row, loaded, new).status =
                IF new.status # loaded.status THEN new.status ELSE row.status
           /\ Flush(row, loaded, new).type =
                IF new.type # loaded.type THEN new.type ELSE row.type
           /\ Flush(row, loaded, new).cycle =
                IF new.cycle # loaded.cycle THEN new.cycle ELSE row.cycle
  BY DEF Doc, Flush

\* Values of the columns of a document.
LEMMA DocColumns ==
    /\ "queued" \in DocStatus /\ "failed" \in DocStatus /\ "deleted" \in DocStatus
    /\ "deleting" \in DocStatus
    /\ "none" \in DocType /\ "delete_cleanup" \in DocType
  BY DEF DocStatus, DocType

\* Error codes of a document.
LEMMA DocErrors == 0 \in ErrorCode /\ 20014 \in ErrorCode /\ 20015 \in ErrorCode
  BY DEF ErrorCode

\* A new status and error leave a document.
LEMMA DocChange ==
    ASSUME NEW d \in Doc, NEW s \in DocStatus, NEW e \in ErrorCode
    PROVE  /\ [d EXCEPT !.status = s, !.error = e] \in Doc
           /\ [d EXCEPT !.status = s, !.error = e].status = s
  BY DEF Doc

\* A process that has nothing to do.
LEMMA IdleOK == ProcessOK(Idle)
  BY Bounds, TaskNames DEF ProcessOK, Process, Idle, Pc, ErrorCode, NoDoc

(***************************************************************************)
(* The steps of a process, in terms of what it is left with                *)
(***************************************************************************)
\* The upload batch leaves a document that satisfies the invariant.
LEMMA InitInv == Init => Inv
  <1> SUFFICES ASSUME Init PROVE Inv
    OBVIOUS
  <1>1. TasksOK
    <2>1. <<>> \in Seq(AttemptStatus)
      OBVIOUS
    <2> QED BY <2>1, Bounds, TaskNames
        DEF Init, TasksOK, TaskRow, TaskStatus, Parse
  <1>2. DocOK /\ LeaseOK /\ DataOK
    <2>1. doc = [status |-> "queued", type |-> "parse", error |-> 0, cycle |-> 0]
      BY DEF Init
    <2>2. 0 \in 0..MaxDeletes
      BY Bounds
    <2>3. DocOK
      BY <2>1, <2>2 DEF DocOK, Doc, DocStatus, DocType, ErrorCode
    <2>4. LeaseOK /\ DataOK
      BY <2>2 DEF Init, LeaseOK, LeaseRow, DataOK
    <2> QED BY <2>3, <2>4
  <1>3. ScanOK
    BY DEF Init, ScanOK, Listing, NoScan
  <1>4. WorkersOK
    BY IdleOK DEF Init, WorkersOK, ProcessOK
  <1>5. ~FinalizeKnown
    BY TaskNames DEF Init, FinalizeKnown, NoScan, Idle, NoTask, Finalize, Stage, Parse
  <1>6. ProcessingHoldsSlot /\ PublishedHasChunks
    BY DEF Init, ProcessingHoldsSlot, PublishedHasChunks
  <1> QED BY <1>1, <1>2, <1>3, <1>4, <1>5, <1>6 DEF Inv, FinalizeAfterEmbed

\* A step of process w that leaves it in state p.
LEMMA ProcessStep ==
    ASSUME Inv, NEW w \in Worker, NEW p, ProcessOK(p),
           worker' = [worker EXCEPT ![w] = p],
           scan' = scan,
           checkpoint => checkpoint',
           \/ p.task = Finalize
           \/ p.pc = "complete"
           \/ task'[Finalize].status # "absent"
           \/ lease'.task = Finalize
           => checkpoint',
           TasksOK', DocOK', LeaseOK', DataOK',
           ProcessingHoldsSlot', PublishedHasChunks'
    PROVE  Inv'
  <1>1. WorkersOK'
    <2>1. worker' \in [Worker -> Process]
      BY DEF Inv, WorkersOK, ProcessOK
    <2>2. \A v \in Worker : worker'[v] = IF v = w THEN p ELSE worker[v]
      BY DEF Inv, WorkersOK
    <2> QED BY <2>1, <2>2 DEF Inv, WorkersOK, ProcessOK
  <1>2. ScanOK'
    BY DEF Inv, ScanOK
  <1>3. FinalizeAfterEmbed'
    <2>1. \A v \in Worker : worker'[v] = IF v = w THEN p ELSE worker[v]
      BY DEF Inv, WorkersOK
    <2> QED BY <2>1 DEF Inv, FinalizeAfterEmbed, FinalizeKnown
  <1> QED BY <1>1, <1>2, <1>3 DEF Inv

\* A step that touches no row.
LEMMA ProcessMoves ==
    ASSUME Inv, NEW w \in Worker, NEW p, ProcessOK(p),
           worker' = [worker EXCEPT ![w] = p],
           p.task = worker[w].task \/ p.task # Finalize,
           p.pc = "complete" => worker[w].pc = "complete" \/ checkpoint,
           UNCHANGED <<dbVars, scan>>,
           msgs' \subseteq TaskId, objects' \subseteq {"upload", "parsed"}
    PROVE  Inv'
  <1>1. \/ p.task = Finalize
        \/ p.pc = "complete"
        \/ task[Finalize].status # "absent"
        \/ lease.task = Finalize
        => checkpoint
    BY DEF Inv, FinalizeAfterEmbed, FinalizeKnown
  <1>2. /\ TasksOK' /\ DocOK' /\ LeaseOK' /\ DataOK'
        /\ ProcessingHoldsSlot' /\ PublishedHasChunks'
    BY DEF Inv, TasksOK, DocOK, LeaseOK, DataOK, ProcessingHoldsSlot,
           PublishedHasChunks, dbVars
  <1> QED BY <1>1, <1>2, ProcessStep DEF dbVars

(***************************************************************************)
(* The transactions of the orchestrator                                    *)
(***************************************************************************)
\* Changing the status of one task and of one attempt keeps their types.
LEMMA TaskUpdate ==
    ASSUME TasksOK, NEW t \in TaskId \cup {NoTask}, NEW n \in Nat,
           NEW s \in AttemptStatus
    PROVE  [attempts EXCEPT ![t][n] = s] \in [TaskId -> Seq(AttemptStatus)]
  <1> DEFINE A == [attempts[t] EXCEPT ![n] = s]
  <1>1. CASE t \in TaskId
    <2>1. attempts[t] \in Seq(AttemptStatus)
      BY <1>1 DEF TasksOK
    <2>2. A \in Seq(AttemptStatus)
      <3>1. CASE n \in 1..Len(attempts[t])
        BY <2>1, <3>1, ExceptSeq
      <3>2. CASE n \notin 1..Len(attempts[t])
        <4>1. attempts[t] \in [1..Len(attempts[t]) -> AttemptStatus]
          BY <2>1
        <4>2. A = attempts[t]
          BY <4>1, <3>2
        <4> QED BY <2>1, <4>2
      <3> QED BY <3>1, <3>2
    <2> QED BY <1>1, <2>2 DEF TasksOK
  <1>2. CASE t \notin TaskId
    BY <1>2 DEF TasksOK
  <1> QED BY <1>1, <1>2

\* A terminal failure: task and document failed, the slot freed.
LEMMA FailForKeeps ==
    ASSUME Inv, NEW w \in Worker, NEW loaded \in Doc, NEW code \in ErrorCode,
           loaded = doc \/ loaded.status # "failed",
           FailFor(w, loaded, code),
           UNCHANGED <<checkpoint, rows, objects, scan>>
    PROVE  Inv'
  <1> DEFINE t == worker[w].task
             new == [loaded EXCEPT !.status = "failed", !.error = code]
  <1>0. t \in TaskId \cup {NoTask} /\ worker[w].att \in Nat
    BY DEF Inv, WorkersOK, Process
  <1>1. TasksOK'
    <2>1. attempts' \in [TaskId -> Seq(AttemptStatus)]
      BY <1>0, TaskUpdate DEF Inv, FailFor, AttemptStatus
    <2>2. task' \in [TaskId -> TaskRow]
      BY DEF Inv, TasksOK, FailFor, TaskRow, TaskStatus
    <2> QED BY <2>1, <2>2 DEF Inv, TasksOK, FailFor
  <1>2. doc' \in Doc /\ doc'.status = "failed"
    <2>1. new \in Doc /\ new.status = "failed"
      BY DEF Doc, DocStatus
    <2>2. doc' = Flush(doc, loaded, new) /\ doc \in Doc
      BY DEF Inv, DocOK, FailFor
    <2> HIDE DEF new
    <2>3. /\ doc' \in Doc
          /\ doc'.status = IF new.status # loaded.status THEN new.status ELSE doc.status
      BY <2>1, <2>2, FlushDoc
    <2> QED BY <2>1, <2>3
  <1>3. LeaseOK' /\ lease'.task = NoTask
    BY DEF Inv, LeaseOK, LeaseRow, FailFor, Released
  <1>4. task'[Finalize].status # "absent" => checkpoint
    BY <1>0, TaskNames
    DEF FailFor, Inv, TasksOK, TaskRow, FinalizeAfterEmbed, FinalizeKnown
  <1>5. worker' = [worker EXCEPT ![w] = Idle]
    BY DEF FailFor, Return
  <1>6. DocOK' /\ DataOK' /\ ProcessingHoldsSlot' /\ PublishedHasChunks'
    BY <1>2 DEF DocOK, Inv, DataOK, ProcessingHoldsSlot, PublishedHasChunks
  <1>7. Idle.task # Finalize /\ Idle.pc # "complete" /\ NoTask # Finalize
    BY TaskNames DEF Idle
  <1> QED BY <1>1, <1>3, <1>4, <1>5, <1>6, <1>7, IdleOK, ProcessStep

\* A retry leaves status and slot of the document as they are.
LEMMA RetryKeeps ==
    ASSUME Inv, NEW w \in Worker, NEW loaded \in Doc, NEW retry \in 0..MaxRetries,
           worker[w].task \in TaskId,
           Retry(w, loaded, retry),
           UNCHANGED <<checkpoint, rows, objects, scan>>
    PROVE  Inv'
  <1> DEFINE t == worker[w].task
             new == [loaded EXCEPT !.error = 0]
  <1>0. worker[w].att \in Nat
    BY DEF Inv, WorkersOK, Process
  <1>1. TasksOK'
    <2>1. attempts' \in [TaskId -> Seq(AttemptStatus)]
      BY <1>0, TaskUpdate DEF Inv, Retry, AttemptStatus
    <2>2. Requeued(retry) \in TaskRow
      BY Bounds DEF Retry, CanRetry, Requeued, TaskRow, TaskStatus
    <2>3. task' \in [TaskId -> TaskRow]
      BY <2>2 DEF Inv, TasksOK, Retry
    <2> QED BY <2>1, <2>3 DEF Inv, TasksOK, Retry
  <1>2. doc' \in Doc /\ doc'.status = doc.status /\ doc'.cycle = doc.cycle
    <2>1. new \in Doc /\ new.status = loaded.status /\ new.cycle = loaded.cycle
      BY DEF Doc, ErrorCode
    <2>2. doc' = Flush(doc, loaded, new) /\ doc \in Doc
      BY DEF Inv, DocOK, Retry
    <2> QED BY <2>1, <2>2, FlushDoc
  <1>3. lease' = lease
    BY DEF Retry
  <1>4. \/ task'[Finalize].status # "absent"
        \/ lease.task = Finalize
        => checkpoint
    BY TaskNames
    DEF Retry, Inv, TasksOK, FinalizeAfterEmbed, FinalizeKnown
  <1>5. worker' = [worker EXCEPT ![w] = Idle]
    BY DEF Retry, Return
  <1>6. LeaseOK' /\ DocOK' /\ DataOK' /\ ProcessingHoldsSlot' /\ PublishedHasChunks'
    BY <1>2, <1>3
    DEF LeaseOK, DocOK, Inv, DataOK, ProcessingHoldsSlot, PublishedHasChunks
  <1>7. Idle.task # Finalize /\ Idle.pc # "complete"
    BY TaskNames DEF Idle
  <1> QED BY <1>1, <1>3, <1>4, <1>5, <1>6, <1>7, IdleOK, ProcessStep

\* FailStage is one of these two.
LEMMA FailStageKeeps ==
    ASSUME Inv, NEW w \in Worker, NEW retry \in 0..MaxRetries,
           NEW code \in ErrorCode, worker[w].task \in TaskId,
           FailStage(w, doc, retry, code),
           UNCHANGED <<checkpoint, rows, objects, scan>>
    PROVE  Inv'
  <1>1. doc \in Doc /\ 20014 \in ErrorCode
    BY DEF Inv, DocOK, ErrorCode
  <1>2. CASE FailFor(w, doc, code)
    BY <1>1, <1>2, FailForKeeps
  <1>3. CASE Retry(w, doc, retry)
    BY <1>1, <1>3, RetryKeeps
  <1>4. CASE FailFor(w, doc, 20014)
    BY <1>1, <1>4, FailForKeeps
  <1> QED BY <1>2, <1>3, <1>4 DEF FailStage

\* complete_stage hands the lease on to the next stage; finalize is created
\* by embed only, after its checkpoint.
LEMMA AdvanceKeeps ==
    ASSUME Inv, NEW w \in Worker, NEW loaded \in Doc,
           worker[w].task \in {Parse, ChunkStage, Embed},
           worker[w].task = Embed => checkpoint,
           Advance(w, loaded),
           rows \subseteq rows', rows' \subseteq Row,
           UNCHANGED <<checkpoint, objects, scan>>
    PROVE  Inv'
  <1> DEFINE t == worker[w].task
             n == NextStage(t)
             new == [loaded EXCEPT !.type = n[1]]
  <1>0. /\ t \in TaskId /\ n \in TaskId /\ (n = Finalize => t = Embed)
        /\ n[1] \in DocType /\ worker[w].att \in Nat
    BY TaskNames, TaskTypes DEF Inv, WorkersOK, Process
  <1>1. TasksOK'
    <2>1. attempts' \in [TaskId -> Seq(AttemptStatus)]
      BY <1>0, TaskUpdate DEF Inv, Advance, AttemptStatus
    <2>2. [status |-> "queued", retry |-> 0] \in TaskRow
      BY Bounds DEF TaskRow, TaskStatus
    <2>3. task' \in [TaskId -> TaskRow]
      BY <2>2, <1>0 DEF Inv, TasksOK, Advance, TaskRow, TaskStatus
    <2> QED BY <1>0, <2>1, <2>3 DEF Inv, TasksOK, Advance
  <1>2. doc' \in Doc /\ doc'.status = doc.status /\ doc'.cycle = doc.cycle
    <2>1. new \in Doc /\ new.status = loaded.status /\ new.cycle = loaded.cycle
      BY <1>0 DEF Doc
    <2>2. doc' = Flush(doc, loaded, new) /\ doc \in Doc
      BY DEF Inv, DocOK, Advance
    <2> QED BY <2>1, <2>2, FlushDoc
  <1>3. LeaseOK' /\ lease'.open /\ lease'.task = n
    BY <1>0 DEF Inv, LeaseOK, LeaseRow, Advance, CanAdvance
  <1>4. task'[Finalize].status # "absent" \/ lease'.task = Finalize => checkpoint
    <2>1. CASE n = Finalize
      BY <2>1, <1>0
    <2>2. CASE n # Finalize
      <3>1. task'[Finalize].status # "absent" =>
              task[Finalize].status # "absent" \/ t = Finalize
        BY <2>2, <1>0, TaskNames DEF Advance, Inv, TasksOK
      <3> QED BY <2>2, <3>1, <1>3, TaskNames DEF Inv, FinalizeAfterEmbed, FinalizeKnown
    <2> QED BY <2>1, <2>2
  <1>5. worker' = [worker EXCEPT ![w] = Idle]
    BY DEF Advance, Return
  <1>6. DocOK' /\ DataOK' /\ ProcessingHoldsSlot' /\ PublishedHasChunks'
    BY <1>2, <1>3 DEF DocOK, Inv, DataOK, ProcessingHoldsSlot, PublishedHasChunks
  <1>7. Idle.task # Finalize /\ Idle.pc # "complete"
    BY TaskNames DEF Idle
  <1> QED BY <1>1, <1>3, <1>4, <1>5, <1>6, <1>7, IdleOK, ProcessStep

\* begin_attempt opens an attempt of a task known before.
LEMMA BeginAttemptKeeps ==
    ASSUME Inv, NEW w \in Worker, NEW t \in TaskId, BeginAttempt(w, t),
           t = Parse => worker[w].seen.status \in {"queued", "processing"},
           UNCHANGED <<doc, checkpoint, lease, rows, objects, scan>>,
           msgs' \subseteq TaskId
    PROVE  Inv'
  <1> DEFINE p == [worker[w] EXCEPT !.pc = "work", !.task = t,
                                    !.att = Len(attempts[t]) + 1,
                                    !.retry = task[t].retry]
  <1>1. attempts[t] \in Seq(AttemptStatus) /\ task[t] \in TaskRow
    BY DEF Inv, TasksOK
  <1>2. TasksOK'
    <2>1. Append(attempts[t], "running") \in Seq(AttemptStatus)
      BY <1>1 DEF AttemptStatus
    <2> QED BY <2>1 DEF Inv, TasksOK, BeginAttempt, TaskRow, TaskStatus
  <1>3. ProcessOK(p)
    <2>1. worker[w] \in Process
      BY DEF Inv, WorkersOK
    <2>2. p \in Process
      <3>1. Len(attempts[t]) + 1 \in Nat
        BY <1>1
      <3>2. task[t].retry \in 0..MaxRetries
        BY <1>1 DEF TaskRow
      <3>3. "work" \in Pc
        BY DEF Pc
      <3> HIDE DEF p
      <3>4. \A a \in Nat, r \in 0..MaxRetries :
              [worker[w] EXCEPT !.pc = "work", !.task = t, !.att = a, !.retry = r]
                \in Process
        BY <2>1, <3>3 DEF Process
      <3> QED BY <3>1, <3>2, <3>4 DEF p
    <2>3. p.pc = "work" /\ p.task = t /\ p.seen = worker[w].seen
      BY <2>1 DEF Process
    <2> QED BY <2>2, <2>3 DEF ProcessOK
  <1>4. worker' = [worker EXCEPT ![w] = p]
    BY DEF BeginAttempt, Inv, WorkersOK
  <1>5. t = Finalize \/ task'[Finalize].status # "absent" => task[Finalize].status # "absent"
    BY TaskNames DEF BeginAttempt, Runnable, Inv, TasksOK
  <1>6. p.task = t /\ p.pc = "work"
    BY DEF Inv, WorkersOK, Process
  <1>7. /\ DocOK' /\ LeaseOK' /\ DataOK' /\ ProcessingHoldsSlot' /\ PublishedHasChunks'
    BY DEF Inv, DocOK, LeaseOK, DataOK, ProcessingHoldsSlot, PublishedHasChunks
  <1>8. \/ p.task = Finalize
        \/ p.pc = "complete"
        \/ task'[Finalize].status # "absent"
        \/ lease'.task = Finalize
        => checkpoint
    BY <1>5, <1>6 DEF Inv, FinalizeAfterEmbed, FinalizeKnown
  <1> QED BY <1>2, <1>3, <1>4, <1>7, <1>8, ProcessStep

(***************************************************************************)
(* Moves of a process between its transactions                             *)
(***************************************************************************)
LEMMA NobodyMoves ==
    ASSUME Inv, UNCHANGED <<dbVars, worker, scan>>,
           msgs' \subseteq TaskId, objects' \subseteq {"upload", "parsed"}
    PROVE  Inv'
  BY DEF Inv, TasksOK, DocOK, LeaseOK, DataOK, ScanOK, WorkersOK, FinalizeAfterEmbed,
         FinalizeKnown, ProcessingHoldsSlot, PublishedHasChunks, dbVars

\* A process gives up its task.
LEMMA ReturnKeeps ==
    ASSUME Inv, NEW w \in Worker, Return(w), UNCHANGED <<dbVars, scan>>,
           msgs' \subseteq TaskId, objects' \subseteq {"upload", "parsed"}
    PROVE  Inv'
  <1>1. Idle.task # Finalize /\ Idle.pc # "complete"
    BY TaskNames DEF Idle
  <1> QED BY <1>1, IdleOK, ProcessMoves DEF Return

\* A process goes on to another step of its handler.
LEMMA GotoKeeps ==
    ASSUME Inv, NEW w \in Worker, NEW pc \in Pc \ {"purge", "commit"}, Goto(w, pc),
           worker[w].pc # "idle",
           pc = "complete" => checkpoint,
           pc \in {"find", "acquire", "begin"} => worker[w].task = Parse,
           \/ pc \in {"find", "acquire", "begin"}
           \/ worker[w].task = Parse /\ pc \in {"work", "save"}
           => worker[w].seen.status \in {"queued", "processing"},
           UNCHANGED <<dbVars, scan>>,
           msgs' \subseteq TaskId, objects' \subseteq {"upload", "parsed"}
    PROVE  Inv'
  <1> DEFINE p == [worker[w] EXCEPT !.pc = pc]
  <1>1. worker[w] \in Process
    BY DEF Inv, WorkersOK
  <1>2. p \in Process /\ p.pc = pc /\ p.task = worker[w].task /\ p.seen = worker[w].seen
    BY <1>1 DEF Process
  <1>3. worker' = [worker EXCEPT ![w] = p]
    BY DEF Goto, Inv, WorkersOK
  <1> HIDE DEF p
  <1>4. ProcessOK(p)
    BY <1>2 DEF ProcessOK, Inv, WorkersOK
  <1> QED BY <1>2, <1>3, <1>4, ProcessMoves

\* After a rollback a process goes on with nothing loaded.
LEMMA RollbackKeeps ==
    ASSUME Inv, NEW w \in Worker,
           NEW p \in Process, p.pc \in {"fail", "cancel"}, p.task = worker[w].task,
           worker[w].pc # "idle",
           worker' = [worker EXCEPT ![w] = p],
           UNCHANGED <<dbVars, scan>>,
           msgs' \subseteq TaskId, objects' \subseteq {"upload", "parsed"}
    PROVE  Inv'
  <1>1. ProcessOK(p)
    BY DEF ProcessOK, Inv, WorkersOK
  <1> QED BY <1>1, ProcessMoves

\* A fenced stage rolls back, then converges to cancelled.
LEMMA ToCancelKeeps ==
    ASSUME Inv, NEW w \in Worker, ToCancel(w), worker[w].pc # "idle",
           UNCHANGED <<dbVars, scan>>,
           msgs' \subseteq TaskId, objects' \subseteq {"upload", "parsed"}
    PROVE  Inv'
  <1> DEFINE p == [worker[w] EXCEPT !.pc = "cancel", !.seen = NoDoc]
  <1>1. worker[w] \in Process /\ worker \in [Worker -> Process]
    BY DEF Inv, WorkersOK
  <1>2. p \in Process /\ p.pc = "cancel" /\ p.task = worker[w].task
    BY <1>1 DEF Process, Pc
  <1>3. worker' = [worker EXCEPT ![w] = p]
    BY <1>1 DEF ToCancel
  <1> QED BY <1>2, <1>3, RollbackKeeps

\* A stage that failed rolls back, then records its error.
LEMMA ToFailKeeps ==
    ASSUME Inv, NEW w \in Worker, NEW code \in ErrorCode, ToFail(w, code),
           worker[w].pc # "idle",
           UNCHANGED <<dbVars, scan>>,
           msgs' \subseteq TaskId, objects' \subseteq {"upload", "parsed"}
    PROVE  Inv'
  <1> DEFINE p == [worker[w] EXCEPT !.pc = "fail", !.code = code, !.seen = NoDoc]
  <1>1. worker[w] \in Process /\ worker \in [Worker -> Process]
    BY DEF Inv, WorkersOK
  <1>2. p \in Process /\ p.pc = "fail" /\ p.task = worker[w].task
    BY <1>1 DEF Process, Pc
  <1>3. worker' = [worker EXCEPT ![w] = p]
    BY <1>1 DEF ToFail
  <1> QED BY <1>2, <1>3, RollbackKeeps

(***************************************************************************)
(* parse                                                                   *)
(***************************************************************************)
LEMMA ParseDeliverKeeps ==
    ASSUME Inv, NEW w \in Worker, ParseDeliver(w)
    PROVE  Inv'
  <1>1. msgs' \subseteq TaskId /\ objects' \subseteq {"upload", "parsed"}
    BY DEF ParseDeliver, Inv, TasksOK, DataOK
  <1>2. CASE worker' = worker
    BY <1>1, <1>2, NobodyMoves DEF ParseDeliver
  <1>3. CASE /\ doc.status \in {"queued", "processing"}
             /\ worker' = [worker EXCEPT ![w].pc = "find", ![w].task = Stage("parse"),
                                         ![w].seen = doc]
    <2> DEFINE p == [worker[w] EXCEPT !.pc = "find", !.task = Parse, !.seen = doc]
    <2>1. worker[w] \in Process /\ doc \in Doc
      BY DEF Inv, WorkersOK, DocOK
    <2>2. p \in Process /\ p.pc = "find" /\ p.task = Parse /\ p.seen = doc
      BY <2>1, TaskNames DEF Process, Pc
    <2>3. worker' = [worker EXCEPT ![w] = p]
      BY <1>3 DEF Parse, Inv, WorkersOK
    <2> HIDE DEF p
    <2>4. ProcessOK(p)
      BY <1>3, <2>2, TaskNames DEF ProcessOK
    <2> QED BY <1>1, <2>2, <2>3, <2>4, TaskNames, ProcessMoves DEF ParseDeliver
  <1> QED BY <1>2, <1>3 DEF ParseDeliver

\* A parse that goes on has loaded a document.
LEMMA ParseHasDocument ==
    ASSUME Inv, NEW w \in Worker,
           \/ worker[w].pc \in {"find", "acquire", "begin"}
           \/ worker[w].task = Parse /\ worker[w].pc \in {"work", "save"}
    PROVE  /\ worker[w].seen \in Doc
           /\ worker[w].seen.status \in {"queued", "processing"}
  BY DEF Inv, WorkersOK, ProcessOK, Process, NoDoc

\* Acquire opens the lease in the transaction that sets "processing".
LEMMA ParseAcquireKeeps ==
    ASSUME Inv, NEW w \in Worker, ParseAcquire(w)
    PROVE  Inv'
  <1> DEFINE loaded == worker[w].seen
             new == [loaded EXCEPT !.status = IF @ = "queued" THEN "processing" ELSE @]
             p == [worker[w] EXCEPT !.pc = "begin", !.seen = new]
  <1>1. loaded \in Doc /\ loaded.status \in {"queued", "processing"}
    BY ParseHasDocument DEF ParseAcquire
  <1>2. new \in Doc /\ new.status = "processing" /\ new.cycle = loaded.cycle
    BY <1>1 DEF Doc, DocStatus
  <1>3. doc' = Flush(doc, loaded, new)
    BY DEF ParseAcquire
  <1>4. worker' = [worker EXCEPT ![w] = p]
    BY DEF ParseAcquire, Inv, WorkersOK
  <1>5. worker[w] \in Process
    BY DEF Inv, WorkersOK
  <1> HIDE DEF new, loaded
  <1>6. p \in Process /\ p.pc = "begin" /\ p.task = worker[w].task /\ p.seen = new
    BY <1>2, <1>5 DEF Process, Pc
  <1> HIDE DEF p
  <1>7. ProcessOK(p)
    BY <1>2, <1>6 DEF ProcessOK, ParseAcquire, Inv, WorkersOK
  <1>8. /\ doc' \in Doc
        /\ doc'.status = IF new.status # loaded.status THEN new.status ELSE doc.status
        /\ doc'.cycle = doc.cycle
    BY <1>1, <1>2, <1>3, FlushDoc DEF Inv, DocOK
  <1>9. LeaseOK' /\ lease'.open /\ lease'.task = Parse
    BY TaskNames DEF ParseAcquire, Inv, LeaseOK, LeaseRow, DocOK, Doc, Parse
  <1>10. /\ TasksOK' /\ DocOK' /\ DataOK' /\ ProcessingHoldsSlot' /\ PublishedHasChunks'
    BY <1>2, <1>8, <1>9
    DEF ParseAcquire, Inv, TasksOK, DocOK, DataOK, ProcessingHoldsSlot, PublishedHasChunks
  <1>11. \/ p.task = Finalize
         \/ p.pc = "complete"
         \/ task'[Finalize].status # "absent"
         \/ lease'.task = Finalize
         => checkpoint
    BY <1>6, <1>9, TaskNames DEF ParseAcquire, Inv, FinalizeAfterEmbed, FinalizeKnown
  <1> QED BY <1>4, <1>7, <1>9, <1>10, <1>11, ProcessStep DEF ParseAcquire

\* Parse begins its attempt with the document it loaded.
LEMMA ParseBeginKeeps ==
    ASSUME Inv, NEW w \in Worker, ParseBegin(w)
    PROVE  Inv'
  <1>1. msgs' \subseteq TaskId /\ objects' \subseteq {"upload", "parsed"}
    BY DEF ParseBegin, Inv, TasksOK, DataOK
  <1>2. CASE BeginAttempt(w, Parse)
    <2>1. worker[w].seen.status \in {"queued", "processing"}
      BY ParseHasDocument DEF ParseBegin
    <2> QED BY <1>1, <1>2, <2>1, TaskNames, BeginAttemptKeeps DEF ParseBegin
  <1>3. CASE Return(w) /\ UNCHANGED <<task, attempts>>
    BY <1>1, <1>3, ReturnKeeps DEF ParseBegin, dbVars
  <1> QED BY <1>2, <1>3 DEF ParseBegin, Parse

\* The parse worker before its attempt, and its file operations.
LEMMA ParseMovesKeep ==
    ASSUME Inv, NEW w \in Worker,
           \/ ParseFindOpen(w) \/ ParseDenied(w) \/ ParseBreaks(w) \/ ParseStore(w)
           \/ ParseStoreFails(w) \/ ParseFenced(w) \/ ParseSaveFails(w)
    PROVE  Inv'
  <1>1. msgs \subseteq TaskId /\ objects \subseteq {"upload", "parsed"}
    BY DEF Inv, TasksOK, DataOK
  <1>2. worker[w].task \in TaskId \cup {NoTask}
    BY DEF Inv, WorkersOK, Process
  <1>3. At(w, "parse", "work") => worker[w].task = Parse
    BY <1>2, TaskTypes DEF At
  <1>codes. 0 \in ErrorCode /\ 20011 \in ErrorCode
    BY DEF ErrorCode
  <1>4. CASE ParseFindOpen(w)
    <2>1. worker[w].task = Parse
      BY <1>4 DEF ParseFindOpen, Inv, WorkersOK, ProcessOK
    <2> QED BY <1>1, <1>4, <2>1, ParseHasDocument, GotoKeeps DEF ParseFindOpen, Pc
  <1>5. CASE ParseDenied(w)
    BY <1>1, <1>5, ReturnKeeps DEF ParseDenied
  <1>6. CASE ParseBreaks(w)
    BY <1>1, <1>6, <1>codes, ToFailKeeps DEF ParseBreaks, At
  <1>7. CASE ParseStore(w)
    <2>1. worker[w].seen.status \in {"queued", "processing"}
      BY <1>3, <1>7, ParseHasDocument DEF ParseStore, At
    <2> QED BY <1>1, <1>7, <2>1, GotoKeeps DEF ParseStore, Pc, At
  <1>8. CASE ParseStoreFails(w)
    BY <1>1, <1>8, <1>codes, ToFailKeeps DEF ParseStoreFails, At
  <1>9. CASE ParseFenced(w)
    BY <1>1, <1>9, ToCancelKeeps DEF ParseFenced, At
  <1>10. CASE ParseSaveFails(w)
    <2>1. objects' \subseteq {"upload", "parsed"}
      BY <1>1, <1>10 DEF ParseSaveFails
    <2> QED BY <1>1, <1>10, <2>1, <1>codes, ToFailKeeps DEF ParseSaveFails, At
  <1> QED BY <1>4, <1>5, <1>6, <1>7, <1>8, <1>9, <1>10

\* The transactions of the parse worker that end its attempt.
LEMMA ParseEndsKeep ==
    ASSUME Inv, NEW w \in Worker, ParseRejected(w) \/ ParseSave(w)
    PROVE  Inv'
  <1>1. worker[w].task = Parse
    <2>1. worker[w].task \in TaskId \cup {NoTask}
      BY DEF Inv, WorkersOK, Process
    <2> QED BY <2>1, TaskTypes DEF ParseRejected, ParseSave, At
  <1>2. worker[w].seen \in Doc /\ worker[w].seen.status \in {"queued", "processing"}
    BY <1>1, ParseHasDocument DEF ParseRejected, ParseSave, At
  <1>3. CASE ParseRejected(w)
    <2>1. 20001 \in ErrorCode
      BY DEF ErrorCode
    <2> QED BY <1>2, <1>3, <2>1, FailForKeeps DEF ParseRejected
  <1>4. CASE ParseSave(w)
    <2>1. ParseRow(worker[w].att) \in Row
      BY DEF Inv, WorkersOK, Process, ParseRow, Row
    <2>2. rows \subseteq rows' /\ rows' \subseteq Row
      BY <1>4, <2>1 DEF ParseSave, Inv, DataOK
    <2> QED BY <1>1, <1>2, <1>4, <2>2, TaskNames, AdvanceKeeps DEF ParseSave
  <1> QED BY <1>3, <1>4

(***************************************************************************)
(* Steps that every stage has                                              *)
(***************************************************************************)
LEMMA DeliverKeeps ==
    ASSUME Inv, NEW w \in Worker, NEW t \in TaskId, Deliver(w, t)
    PROVE  Inv'
  <1>1. msgs' \subseteq TaskId /\ objects' \subseteq {"upload", "parsed"}
    BY DEF Deliver, Inv, TasksOK, DataOK
  <1>2. t # Parse
    BY DEF Deliver, Parse
  <1>3. CASE BeginAttempt(w, t)
    BY <1>1, <1>2, <1>3, BeginAttemptKeeps DEF Deliver
  <1>4. CASE UNCHANGED <<task, attempts, worker>>
    BY <1>1, <1>4, NobodyMoves DEF Deliver, dbVars
  <1> QED BY <1>3, <1>4 DEF Deliver

\* Reading the attempt again after a rollback.
LEMMA ReloadKeeps ==
    ASSUME Inv, NEW w \in Worker, Reload(w)
    PROVE  Inv'
  <1> DEFINE t == worker[w].task
             p == [worker[w] EXCEPT
                     !.pc = IF @ = "fail" THEN "failing" ELSE "cancelling",
                     !.retry = task[t].retry]
  <1>1. msgs' \subseteq TaskId /\ objects' \subseteq {"upload", "parsed"}
    BY DEF Reload, Inv, TasksOK, DataOK
  <1>2. CASE Return(w)
    BY <1>1, <1>2, ReturnKeeps DEF Reload
  <1>3. CASE worker' = [worker EXCEPT
                          ![w].pc = IF @ = "fail" THEN "failing" ELSE "cancelling",
                          ![w].retry = task[t].retry]
    <2>1. worker[w] \in Process /\ worker \in [Worker -> Process]
      BY DEF Inv, WorkersOK
    <2>2. t \in TaskId
      BY DEF Reload, Inv, WorkersOK, ProcessOK
    <2>3. task[t].retry \in 0..MaxRetries
      BY <2>2 DEF Inv, TasksOK, TaskRow
    <2>4. p \in Process /\ p.pc \in {"failing", "cancelling"} /\ p.task = t
      BY <2>1, <2>3 DEF Process, Pc
    <2>5. worker' = [worker EXCEPT ![w] = p]
      BY <1>3, <2>1
    <2> HIDE DEF p
    <2>6. ProcessOK(p)
      BY <2>2, <2>4 DEF ProcessOK
    <2> QED BY <1>1, <2>4, <2>5, <2>6, ProcessMoves DEF Reload
  <1> QED BY <1>2, <1>3 DEF Reload

\* converge_cancelled closes the attempt, not the lease.
LEMMA ConvergeCancelledKeeps ==
    ASSUME Inv, NEW w \in Worker, ConvergeCancelled(w)
    PROVE  Inv'
  <1> DEFINE t == worker[w].task
  <1>1. t \in TaskId /\ worker[w].att \in Nat
    BY DEF ConvergeCancelled, Inv, WorkersOK, ProcessOK, Process
  <1>2. TasksOK'
    <2>1. attempts' \in [TaskId -> Seq(AttemptStatus)]
      BY <1>1, TaskUpdate DEF Inv, ConvergeCancelled, AttemptStatus
    <2>2. task' \in [TaskId -> TaskRow]
      BY <1>1 DEF Inv, TasksOK, ConvergeCancelled, TaskRow, TaskStatus
    <2> QED BY <2>1, <2>2 DEF Inv, TasksOK, ConvergeCancelled
  <1>3. task'[Finalize].status # "absent" \/ lease'.task = Finalize => checkpoint
    BY <1>1, TaskNames
    DEF ConvergeCancelled, Inv, TasksOK, TaskRow, FinalizeAfterEmbed, FinalizeKnown
  <1>4. DocOK' /\ LeaseOK' /\ DataOK' /\ ProcessingHoldsSlot' /\ PublishedHasChunks'
    BY DEF ConvergeCancelled, Inv, DocOK, LeaseOK, DataOK, ProcessingHoldsSlot,
           PublishedHasChunks
  <1>5. Idle.task # Finalize /\ Idle.pc # "complete"
    BY TaskNames DEF Idle
  <1> QED BY <1>2, <1>3, <1>4, <1>5, IdleOK, ProcessStep DEF ConvergeCancelled, Return

\* Failures after a rollback, and processes that die.
LEMMA StageStepsKeep ==
    ASSUME Inv, NEW w \in Worker,
           \/ FailAfterRollback(w) \/ HandlerDies(w) \/ StageBreaks(w) \/ Crash(w)
    PROVE  Inv'
  <1>1. msgs \subseteq TaskId /\ objects \subseteq {"upload", "parsed"}
    BY DEF Inv, TasksOK, DataOK
  <1>2. worker[w].pc # "idle" => worker[w].task \in TaskId
    BY DEF Inv, WorkersOK, ProcessOK
  <1>3. CASE FailAfterRollback(w)
    <2>1. worker[w].task \in TaskId
      BY <1>2, <1>3 DEF FailAfterRollback
    <2>2. task[worker[w].task].retry \in 0..MaxRetries /\ worker[w].code \in ErrorCode
      BY <2>1 DEF Inv, TasksOK, TaskRow, WorkersOK, Process
    <2> QED BY <1>3, <2>1, <2>2, FailStageKeeps DEF FailAfterRollback
  <1>4. CASE HandlerDies(w)
    BY <1>1, <1>4, ReturnKeeps DEF HandlerDies
  <1>5. CASE StageBreaks(w)
    <2>1. 0 \in ErrorCode
      BY DEF ErrorCode
    <2>2. worker[w].pc # "idle"
      BY <1>5 DEF StageBreaks, At
    <2> QED BY <1>1, <1>5, <2>1, <2>2, ToFailKeeps DEF StageBreaks
  <1>6. CASE Crash(w)
    <2>1. msgs' \subseteq TaskId
      BY <1>1, <1>2, <1>6 DEF Crash
    <2> QED BY <1>1, <1>6, <2>1, ReturnKeeps DEF Crash
  <1> QED BY <1>3, <1>4, <1>5, <1>6

\* Where a process is tells which stage it executes.
LEMMA AtStage ==
    ASSUME Inv, NEW w \in Worker, NEW pc
    PROVE  /\ At(w, "chunk", pc) => worker[w].task = ChunkStage
           /\ At(w, "embed", pc) => worker[w].task = Embed
           /\ At(w, "finalize", pc) => worker[w].task = Finalize
           /\ At(w, "delete_cleanup", pc) => worker[w].task \in Cleanups
  <1>1. worker[w].task \in TaskId \cup {NoTask}
    BY DEF Inv, WorkersOK, Process
  <1> QED BY <1>1, TaskTypes DEF At

(***************************************************************************)
(* chunk, embed, finalize                                                  *)
(***************************************************************************)
LEMMA ChunkKeeps ==
    ASSUME Inv, NEW w \in Worker, ChunkLoad(w) \/ ChunkSave(w) \/ ChunkFenced(w)
    PROVE  Inv'
  <1>1. msgs \subseteq TaskId /\ objects \subseteq {"upload", "parsed"}
    BY DEF Inv, TasksOK, DataOK
  <1>2. worker[w].task = ChunkStage /\ worker[w].pc # "idle"
    BY AtStage DEF ChunkLoad, ChunkSave, ChunkFenced, At
  <1>3. CASE ChunkLoad(w)
    <2>1. 0 \in ErrorCode /\ "save" \in Pc \ {"purge", "commit"}
      BY DEF ErrorCode, Pc
    <2>2. CASE ToCancel(w)
      BY <1>1, <1>2, <1>3, <2>2, ToCancelKeeps DEF ChunkLoad
    <2>3. CASE Goto(w, "save")
      BY <1>1, <1>2, <1>3, <2>1, <2>3, TaskNames, GotoKeeps DEF ChunkLoad
    <2>4. CASE ToFail(w, 0)
      BY <1>1, <1>2, <1>3, <2>1, <2>4, ToFailKeeps DEF ChunkLoad
    <2> QED BY <1>3, <2>2, <2>3, <2>4 DEF ChunkLoad
  <1>4. CASE ChunkSave(w)
    <2>1. Draft \in Row /\ doc \in Doc
      BY DEF Draft, Row, Inv, DocOK
    <2>2. rows \subseteq rows' /\ rows' \subseteq Row
      BY <1>4, <2>1 DEF ChunkSave, Inv, DataOK
    <2> QED BY <1>2, <1>4, <2>1, <2>2, TaskNames, AdvanceKeeps DEF ChunkSave
  <1>5. CASE ChunkFenced(w)
    BY <1>1, <1>2, <1>5, ToCancelKeeps DEF ChunkFenced
  <1> QED BY <1>3, <1>4, <1>5

\* The heartbeat of embed touches expires_at only.
LEMMA EmbedHeartbeatKeeps ==
    ASSUME Inv, NEW w \in Worker, EmbedHeartbeat(w)
    PROVE  Inv'
  <1>1. msgs' \subseteq TaskId /\ objects' \subseteq {"upload", "parsed"}
    BY DEF EmbedHeartbeat, Inv, TasksOK, DataOK
  <1>2. worker[w].task = Embed /\ worker[w].pc # "idle"
    BY AtStage DEF EmbedHeartbeat, At
  <1>3. CASE ToCancel(w) /\ UNCHANGED lease
    BY <1>1, <1>2, <1>3, ToCancelKeeps DEF EmbedHeartbeat, dbVars
  <1>4. CASE /\ lease' = [lease EXCEPT !.expired = FALSE, !.task = Stage("embed")]
             /\ Goto(w, "call")
    <2> DEFINE p == [worker[w] EXCEPT !.pc = "call"]
    <2>1. worker[w] \in Process /\ worker \in [Worker -> Process]
      BY DEF Inv, WorkersOK
    <2>2. p \in Process /\ p.pc = "call" /\ p.task = Embed
      BY <1>2, <2>1 DEF Process, Pc
    <2>3. worker' = [worker EXCEPT ![w] = p]
      BY <1>4, <2>1 DEF Goto
    <2> HIDE DEF p
    <2>4. ProcessOK(p)
      BY <2>2, TaskNames DEF ProcessOK
    <2>5. LeaseOK' /\ lease'.open = lease.open /\ lease'.task = Embed
      BY <1>4, TaskNames DEF Inv, LeaseOK, LeaseRow, Embed
    <2>6. TasksOK' /\ DocOK' /\ DataOK' /\ ProcessingHoldsSlot' /\ PublishedHasChunks'
      BY <2>5
      DEF EmbedHeartbeat, Inv, TasksOK, DocOK, DataOK, ProcessingHoldsSlot,
          PublishedHasChunks
    <2>7. \/ p.task = Finalize
          \/ p.pc = "complete"
          \/ task'[Finalize].status # "absent"
          \/ lease'.task = Finalize
          => checkpoint
      BY <2>2, <2>5, TaskNames
      DEF EmbedHeartbeat, Inv, FinalizeAfterEmbed, FinalizeKnown
    <2> QED BY <2>3, <2>4, <2>5, <2>6, <2>7, ProcessStep DEF EmbedHeartbeat
  <1> QED BY <1>3, <1>4 DEF EmbedHeartbeat

\* Embed writes chunks and checkpoint together.
LEMMA EmbedSaveKeeps ==
    ASSUME Inv, NEW w \in Worker, EmbedSave(w)
    PROVE  Inv'
  <1>1. msgs' \subseteq TaskId /\ objects' \subseteq {"upload", "parsed"}
    BY DEF EmbedSave, Inv, TasksOK, DataOK
  <1>2. worker[w].task = Embed /\ worker[w].pc # "idle"
    BY AtStage DEF EmbedSave, At
  <1>3. CASE ToCancel(w) /\ UNCHANGED <<rows, checkpoint>>
    BY <1>1, <1>2, <1>3, ToCancelKeeps DEF EmbedSave, dbVars
  <1>4. CASE rows' = rows \cup {Chunk} /\ checkpoint' = TRUE /\ Goto(w, "complete")
    <2> DEFINE p == [worker[w] EXCEPT !.pc = "complete"]
    <2>1. worker[w] \in Process /\ worker \in [Worker -> Process]
      BY DEF Inv, WorkersOK
    <2>2. p \in Process /\ p.pc = "complete" /\ p.task = Embed
      BY <1>2, <2>1 DEF Process, Pc
    <2>3. worker' = [worker EXCEPT ![w] = p]
      BY <1>4, <2>1 DEF Goto
    <2> HIDE DEF p
    <2>4. ProcessOK(p)
      BY <2>2, TaskNames DEF ProcessOK
    <2>5. Chunk \in Row
      BY DEF Chunk, Row
    <2>6. /\ TasksOK' /\ DocOK' /\ LeaseOK' /\ DataOK'
          /\ ProcessingHoldsSlot' /\ PublishedHasChunks'
      BY <1>4, <2>5
      DEF EmbedSave, Inv, TasksOK, DocOK, LeaseOK, DataOK, ProcessingHoldsSlot,
          PublishedHasChunks
    <2> QED BY <1>4, <2>3, <2>4, <2>6, ProcessStep DEF EmbedSave
  <1> QED BY <1>3, <1>4 DEF EmbedSave

\* The other steps of embed.
LEMMA EmbedKeeps ==
    ASSUME Inv, NEW w \in Worker,
           \/ EmbedLoad(w) \/ EmbedNoDrafts(w) \/ EmbedCall(w) \/ EmbedComplete(w)
           \/ EmbedAborted(w)
    PROVE  Inv'
  <1>1. msgs \subseteq TaskId /\ objects \subseteq {"upload", "parsed"}
    BY DEF Inv, TasksOK, DataOK
  <1>2. worker[w].task = Embed /\ worker[w].pc # "idle"
    BY AtStage DEF EmbedLoad, EmbedNoDrafts, EmbedCall, EmbedComplete, EmbedAborted, At
  <1>3. {"beat", "save"} \subseteq Pc \ {"purge", "commit"} /\ {0, 20012} \subseteq ErrorCode
    BY DEF Pc, ErrorCode
  <1>4. CASE EmbedLoad(w)
    BY <1>1, <1>2, <1>3, <1>4, TaskNames, GotoKeeps DEF EmbedLoad
  <1>5. CASE EmbedNoDrafts(w)
    <2>1. worker[w].retry \in 0..MaxRetries
      BY DEF Inv, WorkersOK, Process
    <2> QED BY <1>2, <1>3, <1>5, <2>1, TaskNames, FailStageKeeps DEF EmbedNoDrafts
  <1>6. CASE EmbedCall(w)
    <2>1. CASE Goto(w, "save")
      BY <1>1, <1>2, <1>3, <1>6, <2>1, TaskNames, GotoKeeps DEF EmbedCall
    <2>2. CASE ToFail(w, 20012)
      BY <1>1, <1>2, <1>3, <1>6, <2>2, ToFailKeeps DEF EmbedCall
    <2> QED BY <1>6, <2>1, <2>2 DEF EmbedCall
  <1>7. CASE EmbedComplete(w)
    <2>1. checkpoint /\ doc \in Doc /\ rows \subseteq Row
      BY <1>7
      DEF EmbedComplete, At, Inv, FinalizeAfterEmbed, FinalizeKnown, DocOK, DataOK
    <2> QED BY <1>2, <1>7, <2>1, AdvanceKeeps DEF EmbedComplete
  <1>8. CASE EmbedAborted(w)
    BY <1>1, <1>8, ReturnKeeps DEF EmbedAborted
  <1> QED BY <1>4, <1>5, <1>6, <1>7, <1>8

\* Finalize publishes only after the checkpoint: it is never created before.
LEMMA FinalizeKeeps ==
    ASSUME Inv, NEW w \in Worker,
           FinalizePublish(w) \/ FinalizeMismatch(w) \/ FinalizeFenced(w)
    PROVE  Inv'
  <1>1. msgs \subseteq TaskId /\ objects \subseteq {"upload", "parsed"}
    BY DEF Inv, TasksOK, DataOK
  <1>2. worker[w].task = Finalize /\ worker[w].pc # "idle" /\ worker[w].att \in Nat
    BY AtStage
    DEF FinalizePublish, FinalizeMismatch, FinalizeFenced, At, Inv, WorkersOK, Process
  <1>3. checkpoint
    BY <1>2 DEF Inv, FinalizeAfterEmbed, FinalizeKnown
  <1>4. CASE FinalizePublish(w)
    <2>1. TasksOK'
      <3>1. attempts' \in [TaskId -> Seq(AttemptStatus)]
        BY <1>2, <1>4, TaskNames, TaskUpdate
        DEF Inv, FinalizePublish, AttemptStatus, Finalize
      <3>2. task' \in [TaskId -> TaskRow]
        BY <1>4 DEF Inv, TasksOK, FinalizePublish, TaskRow, TaskStatus
      <3> QED BY <1>4, <3>1, <3>2 DEF Inv, TasksOK, FinalizePublish
    <2>2. DocOK' /\ doc'.status = "completed"
      BY <1>4 DEF FinalizePublish, Inv, DocOK, Doc, DocStatus, DocType
    <2>3. LeaseOK'
      BY <1>4 DEF FinalizePublish, Inv, LeaseOK, LeaseRow, Released
    <2>4. DataOK' /\ ProcessingHoldsSlot' /\ PublishedHasChunks'
      BY <1>3, <1>4, <2>2
      DEF FinalizePublish, Inv, DataOK, ProcessingHoldsSlot, PublishedHasChunks
    <2> QED BY <1>3, <1>4, <2>1, <2>2, <2>3, <2>4, IdleOK, ProcessStep
            DEF FinalizePublish, Return
  <1>5. CASE FinalizeMismatch(w)
    <2>1. doc \in Doc /\ 20013 \in ErrorCode
      BY DEF Inv, DocOK, ErrorCode
    <2> QED BY <1>5, <2>1, FailForKeeps DEF FinalizeMismatch
  <1>6. CASE FinalizeFenced(w)
    BY <1>1, <1>2, <1>6, ToCancelKeeps DEF FinalizeFenced
  <1> QED BY <1>4, <1>5, <1>6

(***************************************************************************)
(* delete_cleanup                                                          *)
(***************************************************************************)
LEMMA CleanupIsNotFinalize == ASSUME NEW t \in Cleanups PROVE t \in TaskId /\ t # Finalize
  BY DEF Cleanups, Cleanup, TaskId, Finalize, Stage

\* A cleanup of a document already deleted succeeds at once.
LEMMA CleanupLoadKeeps ==
    ASSUME Inv, NEW w \in Worker, CleanupLoad(w)
    PROVE  Inv'
  <1> DEFINE t == worker[w].task
  <1>1. msgs' \subseteq TaskId /\ objects' \subseteq {"upload", "parsed"}
    BY DEF CleanupLoad, Inv, TasksOK, DataOK
  <1>2. t \in TaskId /\ t # Finalize /\ worker[w].att \in Nat
    BY AtStage, CleanupIsNotFinalize DEF CleanupLoad, Inv, WorkersOK, Process
  <1>3. CASE /\ attempts' = [attempts EXCEPT ![t][worker[w].att] = "succeeded"]
             /\ task' = [task EXCEPT ![t].status = "succeeded"]
             /\ Return(w)
    <2>1. TasksOK'
      <3>1. attempts' \in [TaskId -> Seq(AttemptStatus)]
        BY <1>2, <1>3, TaskUpdate DEF Inv, AttemptStatus
      <3>2. task' \in [TaskId -> TaskRow]
        BY <1>3 DEF Inv, TasksOK, TaskRow, TaskStatus
      <3> QED BY <1>1, <3>1, <3>2 DEF TasksOK
    <2>2. task'[Finalize].status # "absent" \/ lease'.task = Finalize => checkpoint
      BY <1>2, <1>3, TaskNames
      DEF CleanupLoad, Inv, TasksOK, FinalizeAfterEmbed, FinalizeKnown
    <2>3. DocOK' /\ LeaseOK' /\ DataOK' /\ ProcessingHoldsSlot' /\ PublishedHasChunks'
      BY DEF CleanupLoad, Inv, DocOK, LeaseOK, DataOK, ProcessingHoldsSlot,
             PublishedHasChunks
    <2>4. Idle.task # Finalize /\ Idle.pc # "complete"
      BY TaskNames DEF Idle
    <2> QED BY <1>3, <2>1, <2>2, <2>3, <2>4, IdleOK, ProcessStep DEF CleanupLoad, Return
  <1>4. CASE /\ doc.status # "deleted"
             /\ worker' = [worker EXCEPT ![w].pc = "purge", ![w].seen = doc]
             /\ UNCHANGED <<attempts, task>>
    <2> DEFINE p == [worker[w] EXCEPT !.pc = "purge", !.seen = doc]
    <2>1. worker[w] \in Process /\ worker \in [Worker -> Process] /\ doc \in Doc
      BY DEF Inv, WorkersOK, DocOK
    <2>2. p \in Process /\ p.pc = "purge" /\ p.task = t /\ p.seen = doc
      BY <2>1 DEF Process, Pc
    <2>3. worker' = [worker EXCEPT ![w] = p]
      BY <1>4, <2>1
    <2> HIDE DEF p
    <2>4. ProcessOK(p)
      BY <1>2, <1>4, <2>1, <2>2 DEF ProcessOK
    <2> QED BY <1>1, <1>4, <2>2, <2>3, <2>4, ProcessMoves DEF CleanupLoad, dbVars
  <1> QED BY <1>3, <1>4 DEF CleanupLoad

\* A cleanup that goes on has loaded a document that was not deleted.
LEMMA CleanupHasDocument ==
    ASSUME Inv, NEW w \in Worker, worker[w].pc \in {"purge", "commit"}
    PROVE  worker[w].seen \in Doc /\ worker[w].seen.status # "deleted"
  BY DEF Inv, WorkersOK, ProcessOK

\* A cleanup removes files and lists the rows to delete.
LEMMA CleanupPurgeKeeps ==
    ASSUME Inv, NEW w \in Worker, CleanupPurge(w)
    PROVE  Inv'
  <1> DEFINE p == [worker[w] EXCEPT !.pc = "commit", !.found = rows]
  <1>1. msgs' \subseteq TaskId /\ objects' \subseteq {"upload", "parsed"}
    BY DEF CleanupPurge, Inv, TasksOK, DataOK
  <1>2. worker[w].task \in TaskId /\ worker[w].task # Finalize
    BY AtStage, CleanupIsNotFinalize DEF CleanupPurge
  <1>3. worker[w] \in Process /\ worker \in [Worker -> Process] /\ rows \in SUBSET Row
    BY DEF Inv, WorkersOK, DataOK
  <1>4. /\ p \in Process /\ p.pc = "commit" /\ p.task = worker[w].task
        /\ p.seen = worker[w].seen
    BY <1>3 DEF Process, Pc
  <1>5. worker' = [worker EXCEPT ![w] = p]
    BY <1>3 DEF CleanupPurge
  <1> HIDE DEF p
  <1>6. ProcessOK(p)
    BY <1>2, <1>4, CleanupHasDocument DEF ProcessOK, CleanupPurge, At
  <1> QED BY <1>1, <1>4, <1>5, <1>6, ProcessMoves DEF CleanupPurge

\* The transaction of the cleanup: tombstone, rows and slot together.
LEMMA CleanupCommitKeeps ==
    ASSUME Inv, NEW w \in Worker, CleanupCommit(w)
    PROVE  Inv'
  <1> DEFINE t == worker[w].task
             loaded == worker[w].seen
             new == [loaded EXCEPT !.status = "deleted", !.type = "none", !.error = 0]
  <1>1. t \in TaskId /\ t # Finalize /\ worker[w].att \in Nat
    BY AtStage, CleanupIsNotFinalize DEF CleanupCommit, Inv, WorkersOK, Process
  <1>2. loaded \in Doc /\ loaded.status # "deleted"
    BY CleanupHasDocument DEF CleanupCommit, At
  <1> HIDE DEF loaded
  <1>3. new \in Doc /\ new.status = "deleted" /\ new.cycle = loaded.cycle
    <2>1. PICK e \in ErrorCode : e = 0
      BY DocErrors
    <2>2. new = [loaded EXCEPT !.status = "deleted", !.type = "none", !.error = e]
      BY <2>1
    <2> HIDE DEF new
    <2> QED BY <1>2, <2>2, DocColumns DEF Doc
  <1>4. doc' = Flush(doc, loaded, new)
    BY DEF CleanupCommit, loaded
  <1>5. TasksOK'
    <2>1. attempts' \in [TaskId -> Seq(AttemptStatus)]
      BY <1>1, TaskUpdate DEF CleanupCommit, Inv, AttemptStatus
    <2>2. task' \in [TaskId -> TaskRow]
      BY DEF CleanupCommit, Inv, TasksOK, TaskRow, TaskStatus
    <2> QED BY <2>1, <2>2 DEF CleanupCommit, Inv, TasksOK
  <1>6. LeaseOK' /\ lease'.task = NoTask
    BY DEF CleanupCommit, Inv, LeaseOK, LeaseRow, Released
  <1>7. task'[Finalize].status # "absent" => checkpoint
    BY <1>1, TaskNames DEF CleanupCommit, Inv, TasksOK, FinalizeAfterEmbed, FinalizeKnown
  <1> HIDE DEF new
  <1>8. doc' \in Doc /\ doc'.status = "deleted"
    BY <1>2, <1>3, <1>4, FlushDoc DEF Inv, DocOK
  <1>9. DocOK' /\ DataOK' /\ ProcessingHoldsSlot' /\ PublishedHasChunks'
    BY <1>8
    DEF CleanupCommit, Inv, DocOK, DataOK, ProcessingHoldsSlot, PublishedHasChunks
  <1>10. Idle.task # Finalize /\ Idle.pc # "complete" /\ NoTask # Finalize
    BY TaskNames DEF Idle
  <1> QED BY <1>5, <1>6, <1>7, <1>9, <1>10, IdleOK, ProcessStep DEF CleanupCommit, Return

\* A cleanup that failed is queued again, or fails the document.
LEMMA CleanupFailsKeeps ==
    ASSUME Inv, NEW w \in Worker, CleanupFails(w)
    PROVE  Inv'
  <1> DEFINE t == worker[w].task
  <1>1. /\ t \in TaskId /\ t # Finalize /\ worker[w].att \in Nat
        /\ worker[w].retry \in 0..MaxRetries
    BY AtStage, CleanupIsNotFinalize DEF CleanupFails, Inv, WorkersOK, Process
  <1>2. TasksOK'
    <2>1. attempts' \in [TaskId -> Seq(AttemptStatus)]
      BY <1>1, TaskUpdate DEF CleanupFails, Inv, AttemptStatus
    <2>2. CanRetry(worker[w].retry) => Requeued(worker[w].retry) \in TaskRow
      BY <1>1, Bounds DEF CanRetry, Requeued, TaskRow, TaskStatus
    <2>3. task' \in [TaskId -> TaskRow]
      <3>1. CASE CanRetry(worker[w].retry)
        BY <2>2, <3>1 DEF CleanupFails, Inv, TasksOK
      <3>2. CASE task' = [task EXCEPT ![t].status = "failed"]
        BY <3>2 DEF Inv, TasksOK, TaskRow, TaskStatus
      <3> QED BY <3>1, <3>2 DEF CleanupFails
    <2>4. msgs' \subseteq TaskId
      BY <1>1 DEF CleanupFails, Inv, TasksOK
    <2> QED BY <2>1, <2>3, <2>4 DEF TasksOK
  <1>3. doc' \in Doc /\ (doc'.status = "failed" \/ doc' = doc)
    <2>1. doc \in Doc
      BY DEF Inv, DocOK
    <2>2. CASE doc' = [doc EXCEPT !.status = "failed", !.type = "delete_cleanup",
                                  !.error = 20015]
      <3>1. PICK e \in ErrorCode : e = 20015
        BY DocErrors
      <3>2. doc' = [doc EXCEPT !.status = "failed", !.type = "delete_cleanup", !.error = e]
        BY <2>2, <3>1
      <3> QED BY <2>1, <3>2, DocColumns DEF Doc
    <2>3. CASE doc' = doc
      BY <2>1, <2>3
    <2> QED BY <2>2, <2>3 DEF CleanupFails
  <1>4. task'[Finalize].status # "absent" \/ lease'.task = Finalize => checkpoint
    BY <1>1, TaskNames DEF CleanupFails, Inv, TasksOK, FinalizeAfterEmbed, FinalizeKnown
  <1>5. DocOK' /\ LeaseOK' /\ DataOK' /\ ProcessingHoldsSlot' /\ PublishedHasChunks'
    BY <1>3
    DEF CleanupFails, Inv, DocOK, LeaseOK, DataOK, ProcessingHoldsSlot, PublishedHasChunks
  <1>6. Idle.task # Finalize /\ Idle.pc # "complete"
    BY TaskNames DEF Idle
  <1>7. /\ worker' = [worker EXCEPT ![w] = Idle]
        /\ scan' = scan /\ checkpoint' = checkpoint
    BY DEF CleanupFails, Return
  <1> QED BY <1>2, <1>4, <1>5, <1>6, <1>7, IdleOK, ProcessStep

\* A cleanup that breaks rolls back.
LEMMA CleanupBreaksKeeps ==
    ASSUME Inv, NEW w \in Worker, CleanupBreaks(w)
    PROVE  Inv'
  <1> DEFINE p == [worker[w] EXCEPT !.pc = "fail", !.seen = NoDoc, !.found = {}]
  <1>1. worker[w] \in Process /\ worker \in [Worker -> Process]
    BY DEF Inv, WorkersOK
  <1>2. p \in Process /\ p.pc = "fail" /\ p.task = worker[w].task
    BY <1>1 DEF Process, Pc
  <1>3. worker' = [worker EXCEPT ![w] = p]
    BY <1>1 DEF CleanupBreaks
  <1>4. msgs' \subseteq TaskId /\ objects' \subseteq {"upload", "parsed"}
    BY DEF CleanupBreaks, Inv, TasksOK, DataOK
  <1>5. worker[w].pc # "idle"
    BY DEF CleanupBreaks, At
  <1> QED BY <1>2, <1>3, <1>4, <1>5, RollbackKeeps DEF CleanupBreaks

(***************************************************************************)
(* DELETE, the scanner and the broker                                      *)
(***************************************************************************)
\* A step that moves no process.
LEMMA OtherStep ==
    ASSUME Inv, worker' = worker, checkpoint' = checkpoint,
           \/ task'[Finalize].status # "absent"
           \/ lease'.task = Finalize
           \/ scan'.lease.task = Finalize
           => checkpoint,
           TasksOK', DocOK', LeaseOK', DataOK', ScanOK',
           ProcessingHoldsSlot', PublishedHasChunks'
    PROVE  Inv'
  <1>1. WorkersOK'
    BY DEF Inv, WorkersOK
  <1>2. FinalizeAfterEmbed'
    BY DEF Inv, FinalizeAfterEmbed, FinalizeKnown
  <1> QED BY <1>1, <1>2 DEF Inv

\* Cancelling an attempt creates no task and removes none.
LEMMA CancelTask ==
    ASSUME NEW T \in [TaskId -> TaskRow], NEW a
    PROVE  /\ Cancel(a, T) \in [TaskId -> TaskRow]
           /\ \A t \in TaskId : Cancel(a, T)[t].status = "absent" <=> T[t].status = "absent"
  BY DEF Cancel, TaskRow, TaskStatus

\* A document that is being deleted has a cleanup task to queue.
LEMMA QueueCleanupTask ==
    ASSUME Inv, doc.status = "deleting", NEW T \in [TaskId -> TaskRow]
    PROVE  /\ Cleanup(doc.cycle) \in TaskId
           /\ QueueCleanup(T) \in [TaskId -> TaskRow]
           /\ QueueCleanup(T)[Finalize] = T[Finalize]
  <1>1. doc.cycle \in 1..MaxDeletes
    BY Bounds DEF Inv, DocOK, Doc
  <1>2. Cleanup(doc.cycle) \in TaskId /\ Cleanup(doc.cycle) # Finalize
    BY <1>1, CleanupNames
  <1> QED BY <1>2, TaskNames DEF QueueCleanup, TaskRow, TaskStatus

\* The scanner requeues a task or fails it with its document.
LEMMA RecoveredTask ==
    ASSUME Inv, NEW t \in TaskId, RecoverTask(t)
    PROVE  /\ task' \in [TaskId -> TaskRow]
           /\ \A s \in TaskId \ {t} : task'[s] = task[s]
           /\ msgs' \subseteq TaskId
           /\ doc' \in Doc /\ doc'.status \in {"queued", "failed"}
  <1>1. task[t].retry \in 0..MaxRetries /\ task \in [TaskId -> TaskRow]
    BY DEF Inv, TasksOK, TaskRow
  <1>2. CanRetry(task[t].retry) => Requeued(task[t].retry) \in TaskRow
    BY <1>1, Bounds DEF CanRetry, Requeued, TaskRow, TaskStatus
  <1>3. task' \in [TaskId -> TaskRow]
    BY <1>1, <1>2 DEF RecoverTask, TaskRow, TaskStatus
  <1>4. \A s \in TaskId \ {t} : task'[s] = task[s]
    BY <1>1 DEF RecoverTask
  <1>5. msgs' \subseteq TaskId
    BY DEF RecoverTask, Inv, TasksOK
  <1>6. doc' \in Doc /\ doc'.status \in {"queued", "failed"}
    <2>1. doc \in Doc
      BY DEF Inv, DocOK
    <2>2. CASE doc' = [doc EXCEPT !.status = "queued", !.error = 0]
      <3>1. PICK e \in ErrorCode : e = 0
        BY DocErrors
      <3>2. doc' = [doc EXCEPT !.status = "queued", !.error = e]
        BY <2>2, <3>1
      <3> QED BY <2>1, <3>2, DocColumns, DocChange
    <2>3. CASE doc' = [doc EXCEPT !.status = "failed", !.error = 20014]
      <3>1. PICK e \in ErrorCode : e = 20014
        BY DocErrors
      <3>2. doc' = [doc EXCEPT !.status = "failed", !.error = e]
        BY <2>3, <3>1
      <3> QED BY <2>1, <3>2, DocColumns, DocChange
    <2> QED BY <2>2, <2>3 DEF RecoverTask
  <1> QED BY <1>3, <1>4, <1>5, <1>6

\* An open attempt is named by its task and a number.
LEMMA OpenNames ==
    ASSUME Inv, NEW a \in OpenAttempts
    PROVE  a \in AttemptId /\ a[1] \in TaskId /\ a[2] \in Nat
  <1>1. PICK t \in TaskId : \E n \in DOMAIN attempts[t] : a = <<t, n>>
    BY DEF OpenAttempts
  <1>2. attempts[t] \in Seq(AttemptStatus)
    BY DEF Inv, TasksOK
  <1>3. \E n \in Nat \ {0} : a = <<t, n>>
    BY <1>1, <1>2
  <1> QED BY <1>1, <1>3 DEF AttemptId

\* DELETE hides the document, or leaves the failed one failed.
LEMMA DeleteKeeps ==
    ASSUME Inv, Delete
    PROVE  Inv'
  <1> DEFINE dc == Cleanup(doc.cycle + 1)
             kept == [t \in TaskId |->
                        IF t \in Stages /\ task[t].status \in {"pending", "queued"}
                        THEN [task[t] EXCEPT !.status = "cancelled"] ELSE task[t]]
             With(T, s) == [T EXCEPT ![dc] = [status |-> s, retry |-> 0]]
  <1>1. doc.cycle + 1 \in 1..MaxDeletes /\ doc \in Doc
    BY Bounds DEF Delete, Inv, DocOK, Doc
  <1>2. dc \in TaskId /\ dc # Finalize
    BY <1>1, CleanupNames
  <1> HIDE DEF dc
  <1>3. /\ kept \in [TaskId -> TaskRow]
        /\ kept[Finalize].status # "absent" => task[Finalize].status # "absent"
    BY TaskNames DEF Inv, TasksOK, TaskRow, TaskStatus
  <1> HIDE DEF kept
  <1>4. ASSUME NEW T \in [TaskId -> TaskRow], NEW s \in {"queued", "pending"}
        PROVE  With(T, s) \in [TaskId -> TaskRow] /\ With(T, s)[Finalize] = T[Finalize]
    BY <1>2, Bounds, TaskNames DEF TaskRow, TaskStatus
  <1> HIDE DEF With
  <1>5. /\ doc'.status \in {"failed", "deleting"} /\ doc'.cycle = doc.cycle + 1
        /\ doc' \in Doc
    <2>1. PICK e \in ErrorCode : e = 0
      BY DocErrors
    <2>2. PICK s \in {"failed", "deleting"} :
            doc' = [status |-> s, type |-> "delete_cleanup", error |-> e,
                    cycle |-> doc.cycle + 1]
      BY <2>1 DEF Delete, CleanupFailed
    <2>3. doc.cycle + 1 \in 0..MaxDeletes
      BY <1>1
    <2> QED BY <2>2, <2>3, DocColumns DEF Doc
  <1>6. /\ task' \in [TaskId -> TaskRow]
        /\ task'[Finalize].status # "absent" => task[Finalize].status # "absent"
    <2>1. CASE task' = With(kept, "queued") \/ task' = With(kept, "pending")
      BY <1>3, <1>4, <2>1
    <2>2. CASE \E a \in OpenAttempts : task' = With(Cancel(a, kept), "queued")
      <3>1. PICK a \in OpenAttempts : task' = With(Cancel(a, kept), "queued")
        BY <2>2
      <3>2. /\ Cancel(a, kept) \in [TaskId -> TaskRow]
            /\ Cancel(a, kept)[Finalize].status = "absent"
                 <=> kept[Finalize].status = "absent"
        BY <1>3, CancelTask, TaskNames
      <3> QED BY <1>3, <1>4, <3>1, <3>2
    <2> QED BY <2>1, <2>2 DEF Delete, With, kept, dc
  <1>7. attempts' \in [TaskId -> Seq(AttemptStatus)]
    <2>1. CASE attempts' = attempts
      BY <2>1 DEF Inv, TasksOK
    <2>2. CASE \E a \in OpenAttempts :
                 attempts' = [attempts EXCEPT ![a[1]][a[2]] = "cancelled"]
      BY <2>2, OpenNames, TaskUpdate DEF Inv, AttemptStatus
    <2> QED BY <2>1, <2>2 DEF Delete
  <1>8. msgs' \subseteq TaskId /\ (lease' = Released(lease) \/ lease' = lease)
    BY <1>2 DEF Delete, Inv, TasksOK, dc
  <1>9. TasksOK' /\ DocOK'
    BY <1>1, <1>5, <1>6, <1>7, <1>8 DEF TasksOK, DocOK, Doc
  <1>10. LeaseOK' /\ (lease'.task = Finalize => lease.task = Finalize)
    BY <1>8, TaskNames DEF Inv, LeaseOK, LeaseRow, Released
  <1>11. ScanOK' /\ DataOK' /\ ProcessingHoldsSlot' /\ PublishedHasChunks'
    BY <1>5 DEF Delete, Inv, ScanOK, DataOK, ProcessingHoldsSlot, PublishedHasChunks
  <1> QED BY <1>6, <1>9, <1>10, <1>11, OtherStep
          DEF Delete, Inv, FinalizeAfterEmbed, FinalizeKnown

\* A step that only moves the clock, the scanner or messages.
LEMMA ScannerMoves ==
    ASSUME Inv, UNCHANGED <<doc, task, attempts, checkpoint, rows, worker>>,
           LeaseOK', ScanOK',
           doc.status = "processing" => lease'.open = lease.open,
           lease'.task = lease.task,
           scan'.lease.task \in {scan.lease.task, lease.task, NoTask},
           msgs' \subseteq TaskId, objects' = objects
    PROVE  Inv'
  <1>1. TasksOK' /\ DocOK' /\ DataOK' /\ ProcessingHoldsSlot' /\ PublishedHasChunks'
    BY DEF Inv, TasksOK, DocOK, DataOK, ProcessingHoldsSlot, PublishedHasChunks
  <1>2. \/ task'[Finalize].status # "absent"
        \/ lease'.task = Finalize
        \/ scan'.lease.task = Finalize
        => checkpoint
    BY TaskNames DEF Inv, FinalizeAfterEmbed, FinalizeKnown
  <1> QED BY <1>1, <1>2, OtherStep

\* Leases expire, and the scanner lists what it will recover.
LEMMA ScannerMovesKeep ==
    ASSUME Inv, Expire \/ ScanExpired \/ RefreshScan \/ ScanOrphans
    PROVE  Inv'
  <1>1. msgs \subseteq TaskId /\ LeaseOK /\ ScanOK
    BY DEF Inv, TasksOK
  <1>2. CASE Expire
    <2>1. LeaseOK' /\ lease'.task = lease.task /\ lease'.open = lease.open
      BY <1>1, <1>2 DEF Expire, LeaseOK, LeaseRow
    <2> QED BY <1>1, <1>2, <2>1, ScannerMoves DEF Expire, ScanOK
  <1>3. CASE ScanExpired
    <2>1. ScanOK' /\ scan'.lease.task = lease.task
      BY <1>1, <1>3 DEF ScanExpired, ScanOK, Listing, LeaseOK, LeaseRow
    <2> QED BY <1>1, <1>3, <2>1, ScannerMoves DEF ScanExpired, LeaseOK, dbVars
  <1>4. CASE RefreshScan
    <2>1. ScanOK' /\ scan'.lease.task \in {lease.task, NoTask}
      BY <1>1, <1>4 DEF RefreshScan, ScanOK, Listing, LeaseOK, LeaseRow, NoScan
    <2> QED BY <1>1, <1>4, <2>1, ScannerMoves DEF RefreshScan, LeaseOK, dbVars
  <1>5. CASE ScanOrphans
    <2>1. {a \in OpenAttempts : task[a[1]].status = "running"} \subseteq AttemptId
      BY OpenNames
    <2>2. ScanOK' /\ scan'.lease = scan.lease
      BY <1>1, <1>5, <2>1 DEF ScanOrphans, ScanOK, Listing
    <2> QED BY <1>1, <1>5, <2>2, ScannerMoves DEF ScanOrphans, LeaseOK, dbVars
  <1> QED BY <1>2, <1>3, <1>4, <1>5

\* What a recovery may do to the document: requeue it, fail it, or leave its
\* status and its delete cycle alone.
DocMoves ==
    \/ doc'.status \in {"queued", "failed"}
    \/ doc'.status = doc.status /\ doc'.cycle = doc.cycle

\* What it may do to the lease: release it, when the document is not left in
\* "processing".
LeaseMoves ==
    \/ lease' = lease
    \/ lease' = Released(lease) /\ doc'.status # "processing"

\* A step of the recovery that ends with rows of the right types, and knows
\* of finalize only what was known before.
LEMMA RecoveryStep ==
    ASSUME Inv, UNCHANGED <<checkpoint, rows, objects, worker>>,
           task' \in [TaskId -> TaskRow],
           attempts' \in [TaskId -> Seq(AttemptStatus)],
           msgs' \subseteq TaskId,
           doc' \in Doc,
           DocMoves,
           LeaseMoves,
           ScanOK', scan'.lease.task \in {scan.lease.task, NoTask},
           task'[Finalize].status # "absent" => checkpoint
    PROVE  Inv'
  <1>1. TasksOK' /\ DataOK' /\ ScanOK'
    BY DEF TasksOK, Inv, DataOK
  <1>2. DocOK' /\ ProcessingHoldsSlot' /\ PublishedHasChunks'
    BY DEF Inv, DocMoves, LeaseMoves, DocOK, ProcessingHoldsSlot, PublishedHasChunks
  <1>3. LeaseOK' /\ lease'.task \in {lease.task, NoTask}
    BY DEF LeaseMoves, Inv, LeaseOK, LeaseRow, Released
  <1>4. \/ task'[Finalize].status # "absent"
        \/ lease'.task = Finalize
        \/ scan'.lease.task = Finalize
        => checkpoint
    BY <1>3, TaskNames DEF Inv, FinalizeAfterEmbed, FinalizeKnown
  <1> QED BY <1>1, <1>2, <1>3, <1>4, OtherStep

\* The recovery of a stage of a document being deleted hands over to its cleanup.
LEMMA HandOver ==
    ASSUME Inv, NEW a, doc.status = "deleting",
           task' = QueueCleanup(Cancel(a, task)),
           doc' = [doc EXCEPT !.type = "delete_cleanup"],
           msgs' = msgs \cup {Cleanup(doc.cycle)}
    PROVE  /\ task' \in [TaskId -> TaskRow]
           /\ task'[Finalize].status # "absent" => task[Finalize].status # "absent"
           /\ msgs' \subseteq TaskId
           /\ doc' \in Doc /\ doc'.status = "deleting" /\ doc'.cycle = doc.cycle
  <1>1. task \in [TaskId -> TaskRow] /\ msgs \subseteq TaskId /\ doc \in Doc
    BY DEF Inv, TasksOK, DocOK
  <1>2. /\ Cancel(a, task) \in [TaskId -> TaskRow]
        /\ Cancel(a, task)[Finalize].status = "absent" <=> task[Finalize].status = "absent"
    BY <1>1, CancelTask, TaskNames
  <1>3. Cleanup(doc.cycle) \in TaskId
    BY <1>1, QueueCleanupTask
  <1>4. /\ task' \in [TaskId -> TaskRow]
        /\ task'[Finalize] = Cancel(a, task)[Finalize]
    BY <1>2, QueueCleanupTask
  <1>5. doc' \in Doc /\ doc'.status = "deleting" /\ doc'.cycle = doc.cycle
    BY <1>1, DocColumns DEF Doc
  <1> QED BY <1>1, <1>2, <1>3, <1>4, <1>5

\* The recovery of an expired lease never leaves "processing" without a slot.
LEMMA RecoverLeaseKeeps ==
    ASSUME Inv, RecoverLease
    PROVE  Inv'
  <1> DEFINE t == scan.lease.task
             closed == [n \in DOMAIN attempts[t] |->
                          IF attempts[t][n] = "running" THEN "cancelled"
                          ELSE attempts[t][n]]
  <1>1. /\ t \in TaskId
        /\ task \in [TaskId -> TaskRow] /\ msgs \subseteq TaskId /\ doc \in Doc
        /\ attempts \in [TaskId -> Seq(AttemptStatus)]
    BY DEF RecoverLease, Inv, ScanOK, TasksOK, DocOK
  <1>2. closed \in Seq(AttemptStatus)
    <2>1. attempts[t] \in Seq(AttemptStatus)
      BY <1>1
    <2>2. closed \in [1..Len(attempts[t]) -> AttemptStatus]
      BY <2>1 DEF AttemptStatus
    <2> HIDE DEF closed
    <2> QED BY <2>1, <2>2
  <1> HIDE DEF closed
  <1>3. ScanOK' /\ scan'.lease.task \in {scan.lease.task, NoTask}
    BY DEF RecoverLease, Inv, ScanOK, Listing, NoScan
  <1>4. UNCHANGED <<checkpoint, rows, objects, worker>>
    BY DEF RecoverLease
  <1>5. task[Finalize].status # "absent" \/ t = Finalize => checkpoint
    BY DEF Inv, FinalizeAfterEmbed, FinalizeKnown
  <1>6. CASE /\ doc.status = "deleting"
             /\ attempts' = [attempts EXCEPT ![t] = closed]
             /\ task' = QueueCleanup(Cancel(<<t, 0>>, task))
             /\ doc' = [doc EXCEPT !.type = "delete_cleanup"]
             /\ msgs' = msgs \cup {Cleanup(doc.cycle)}
             /\ lease' = Released(lease) \/ lease' = lease
    <2>1. attempts' \in [TaskId -> Seq(AttemptStatus)]
      BY <1>1, <1>2, <1>6
    <2>2. /\ task' \in [TaskId -> TaskRow] /\ msgs' \subseteq TaskId
          /\ task'[Finalize].status # "absent" => task[Finalize].status # "absent"
          /\ doc' \in Doc /\ doc'.status = "deleting" /\ doc'.cycle = doc.cycle
      BY <1>6, HandOver
    <2>3. DocMoves /\ LeaseMoves
      BY <1>6, <2>2 DEF DocMoves, LeaseMoves
    <2> QED BY <1>3, <1>4, <1>5, <1>6, <2>1, <2>2, <2>3, RecoveryStep
  <1>7. CASE UNCHANGED <<doc, task, attempts, lease, msgs>>
    <2>1. DocMoves /\ LeaseMoves
      BY <1>7 DEF DocMoves, LeaseMoves
    <2>2. /\ task' \in [TaskId -> TaskRow] /\ attempts' \in [TaskId -> Seq(AttemptStatus)]
          /\ msgs' \subseteq TaskId /\ doc' \in Doc
          /\ task'[Finalize].status # "absent" => checkpoint
      BY <1>1, <1>5, <1>7
    <2> QED BY <1>3, <1>4, <2>1, <2>2, RecoveryStep
  <1>8. CASE /\ attempts' = [attempts EXCEPT ![t] = closed]
             /\ RecoverTask(t)
             /\ lease' = Released(lease) \/ lease' = lease
    <2>1. attempts' \in [TaskId -> Seq(AttemptStatus)]
      BY <1>1, <1>2, <1>8
    <2>2. /\ task' \in [TaskId -> TaskRow] /\ msgs' \subseteq TaskId
          /\ \A s \in TaskId \ {t} : task'[s] = task[s]
          /\ doc' \in Doc /\ doc'.status \in {"queued", "failed"}
      BY <1>1, <1>8, RecoveredTask
    <2>3. task'[Finalize].status # "absent" => checkpoint
      BY <1>5, <2>2, TaskNames
    <2>4. DocMoves /\ LeaseMoves
      BY <1>8, <2>2 DEF DocMoves, LeaseMoves
    <2> QED BY <1>3, <1>4, <1>8, <2>1, <2>2, <2>3, <2>4, RecoveryStep
  <1> QED BY <1>6, <1>7, <1>8 DEF RecoverLease, closed

\* The scanner requeues a cleanup or fails the document.
LEMMA RecoveredCleanup ==
    ASSUME Inv, NEW t \in TaskId, RecoverCleanup(t)
    PROVE  /\ task' \in [TaskId -> TaskRow]
           /\ \A s \in TaskId \ {t} : task'[s] = task[s]
           /\ msgs' \subseteq TaskId
           /\ doc' \in Doc /\ (doc' = doc \/ doc'.status = "failed")
  <1>1. /\ task[t].retry \in 0..MaxRetries /\ task \in [TaskId -> TaskRow]
        /\ doc \in Doc
    BY DEF Inv, TasksOK, TaskRow, DocOK
  <1>2. CanRetry(task[t].retry) => Requeued(task[t].retry) \in TaskRow
    BY <1>1, Bounds DEF CanRetry, Requeued, TaskRow, TaskStatus
  <1>3. task' \in [TaskId -> TaskRow] /\ \A s \in TaskId \ {t} : task'[s] = task[s]
    BY <1>1, <1>2 DEF RecoverCleanup, TaskRow, TaskStatus
  <1>4. msgs' \subseteq TaskId
    BY DEF RecoverCleanup, Inv, TasksOK
  <1>5. doc' \in Doc /\ (doc' = doc \/ doc'.status = "failed")
    <2>1. PICK e \in ErrorCode : e = 20015
      BY DocErrors
    <2>2. \/ doc' = doc
          \/ doc' = [doc EXCEPT !.status = "failed", !.type = "delete_cleanup", !.error = e]
      BY <2>1 DEF RecoverCleanup
    <2> QED BY <1>1, <2>2, DocColumns DEF Doc
  <1> QED BY <1>3, <1>4, <1>5

\* The recovery of an orphan attempt leaves the lease alone.
LEMMA RecoverOrphanKeeps ==
    ASSUME Inv, NEW a \in scan.orphans, RecoverOrphan(a)
    PROVE  Inv'
  <1> DEFINE t == a[1]
  <1>1. /\ t \in TaskId /\ a[2] \in Nat
        /\ task \in [TaskId -> TaskRow] /\ msgs \subseteq TaskId /\ doc \in Doc
        /\ attempts \in [TaskId -> Seq(AttemptStatus)]
    BY DEF Inv, ScanOK, Listing, AttemptId, TasksOK, DocOK
  <1>2. ScanOK' /\ scan'.lease.task \in {scan.lease.task, NoTask}
    BY DEF RecoverOrphan, Inv, ScanOK, Listing
  <1>3. UNCHANGED <<checkpoint, lease, rows, objects, worker>>
    BY DEF RecoverOrphan
  <1>4. task[Finalize].status # "absent" => checkpoint
    BY DEF Inv, FinalizeAfterEmbed, FinalizeKnown
  <1>5. CASE UNCHANGED <<doc, task, attempts, msgs>>
    <2>1. DocMoves /\ LeaseMoves
      BY <1>3, <1>5 DEF DocMoves, LeaseMoves
    <2>2. /\ task' \in [TaskId -> TaskRow] /\ attempts' \in [TaskId -> Seq(AttemptStatus)]
          /\ msgs' \subseteq TaskId /\ doc' \in Doc
          /\ task'[Finalize].status # "absent" => checkpoint
      BY <1>1, <1>3, <1>4, <1>5
    <2> QED BY <1>2, <1>3, <2>1, <2>2, RecoveryStep
  <1>6. CASE /\ task[t].status = "running"
             /\ attempts' = [attempts EXCEPT ![t][a[2]] = "cancelled"]
             /\ \/ RecoverCleanup(t)
                \/ RecoverTask(t)
                \/ /\ doc.status = "deleting"
                   /\ task' = QueueCleanup(Cancel(a, task))
                   /\ doc' = [doc EXCEPT !.type = "delete_cleanup"]
                   /\ msgs' = msgs \cup {Cleanup(doc.cycle)}
    <2>1. attempts' \in [TaskId -> Seq(AttemptStatus)]
      BY <1>1, <1>6, TaskUpdate DEF Inv, AttemptStatus
    <2>2. ASSUME RecoverCleanup(t) \/ RecoverTask(t)
          PROVE  /\ task' \in [TaskId -> TaskRow] /\ msgs' \subseteq TaskId
                 /\ \A s \in TaskId \ {t} : task'[s] = task[s]
                 /\ doc' \in Doc /\ (doc' = doc \/ doc'.status \in {"queued", "failed"})
      BY <1>1, <2>2, RecoveredCleanup, RecoveredTask
    <2>3. CASE RecoverCleanup(t) \/ RecoverTask(t)
      <3>1. task'[Finalize].status # "absent" => checkpoint
        BY <1>4, <1>6, <2>2, <2>3, TaskNames
      <3>2. DocMoves /\ LeaseMoves
        BY <1>3, <2>2, <2>3 DEF DocMoves, LeaseMoves
      <3> QED BY <1>2, <1>3, <2>1, <2>2, <2>3, <3>1, <3>2, RecoveryStep
    <2>4. CASE /\ doc.status = "deleting"
               /\ task' = QueueCleanup(Cancel(a, task))
               /\ doc' = [doc EXCEPT !.type = "delete_cleanup"]
               /\ msgs' = msgs \cup {Cleanup(doc.cycle)}
      <3>1. /\ task' \in [TaskId -> TaskRow] /\ msgs' \subseteq TaskId
            /\ task'[Finalize].status # "absent" => task[Finalize].status # "absent"
            /\ doc' \in Doc /\ doc'.status = "deleting" /\ doc'.cycle = doc.cycle
        BY <2>4, HandOver
      <3>2. DocMoves /\ LeaseMoves
        BY <1>3, <2>4, <3>1 DEF DocMoves, LeaseMoves
      <3> QED BY <1>2, <1>3, <1>4, <2>1, <2>4, <3>1, <3>2, RecoveryStep
    <2> QED BY <1>6, <2>3, <2>4
  <1> QED BY <1>5, <1>6 DEF RecoverOrphan

\* Messages lost, delivered twice and sent again touch no row.
LEMMA BrokerKeeps ==
    ASSUME Inv,
           \/ \E t \in TaskId : Lose(t) \/ Redispatch(t)
           \/ \E w \in Worker : Redeliver(w)
    PROVE  Inv'
  <1>1. UNCHANGED <<doc, task, attempts, checkpoint, lease, rows, objects, worker, scan>>
    BY DEF Lose, Redispatch, Redeliver, dbVars
  <1>2. msgs' \subseteq TaskId
    BY DEF Lose, Redispatch, Redeliver, Inv, TasksOK, WorkersOK, ProcessOK
  <1>3. LeaseOK' /\ ScanOK' /\ scan'.lease.task = scan.lease.task
    BY <1>1 DEF Inv, LeaseOK, ScanOK
  <1> QED BY <1>1, <1>2, <1>3, ScannerMoves

(***************************************************************************)
(* The theorems                                                            *)
(***************************************************************************)
\* Every step of every handler keeps the invariant.
LEMMA WorkerStepKeeps ==
    ASSUME Inv, NEW w \in Worker, WorkerStep(w)
    PROVE  Inv'
  <1>1. CASE \/ ParseFindOpen(w) \/ ParseAcquire(w) \/ ParseDenied(w) \/ ParseBegin(w)
             \/ ParseRejected(w) \/ ParseBreaks(w) \/ ParseStore(w) \/ ParseStoreFails(w)
             \/ ParseSave(w) \/ ParseFenced(w) \/ ParseSaveFails(w)
    BY <1>1, ParseMovesKeep, ParseAcquireKeeps, ParseBeginKeeps, ParseEndsKeep
  <1>2. CASE ChunkLoad(w) \/ ChunkSave(w) \/ ChunkFenced(w)
    BY <1>2, ChunkKeeps
  <1>3. CASE \/ EmbedLoad(w) \/ EmbedNoDrafts(w) \/ EmbedHeartbeat(w) \/ EmbedCall(w)
             \/ EmbedSave(w) \/ EmbedComplete(w) \/ EmbedAborted(w)
    BY <1>3, EmbedKeeps, EmbedHeartbeatKeeps, EmbedSaveKeeps
  <1>4. CASE FinalizePublish(w) \/ FinalizeMismatch(w) \/ FinalizeFenced(w)
    BY <1>4, FinalizeKeeps
  <1>5. CASE \/ StageBreaks(w) \/ Reload(w) \/ FailAfterRollback(w)
             \/ ConvergeCancelled(w) \/ HandlerDies(w)
    BY <1>5, StageStepsKeep, ReloadKeeps, ConvergeCancelledKeeps
  <1>6. CASE \/ CleanupLoad(w) \/ CleanupPurge(w) \/ CleanupCommit(w)
             \/ CleanupBreaks(w) \/ CleanupFails(w)
    BY <1>6, CleanupLoadKeeps, CleanupPurgeKeeps, CleanupCommitKeeps,
       CleanupBreaksKeeps, CleanupFailsKeeps
  <1> QED BY <1>1, <1>2, <1>3, <1>4, <1>5, <1>6 DEF WorkerStep

\* Every step keeps the invariant.
LEMMA StepInv == Inv /\ [Next]_vars => Inv'
  <1> SUFFICES ASSUME Inv, [Next]_vars PROVE Inv'
    OBVIOUS
  <1>1. ASSUME NEW w \in Worker,
               \/ ParseDeliver(w) \/ WorkerStep(w) \/ Crash(w) \/ Redeliver(w)
               \/ \E t \in TaskId : Deliver(w, t)
        PROVE  Inv'
    BY <1>1, ParseDeliverKeeps, WorkerStepKeeps, StageStepsKeep, BrokerKeeps, DeliverKeeps
  <1>2. CASE \E t \in TaskId : Lose(t) \/ Redispatch(t)
    BY <1>2, BrokerKeeps
  <1>3. CASE Delete
    BY <1>3, DeleteKeeps
  <1>4. CASE Expire \/ ScanExpired \/ RefreshScan \/ ScanOrphans
    BY <1>4, ScannerMovesKeep
  <1>5. CASE RecoverLease
    BY <1>5, RecoverLeaseKeeps
  <1>6. CASE \E a \in scan.orphans : RecoverOrphan(a)
    BY <1>6, RecoverOrphanKeeps
  <1>7. CASE UNCHANGED vars
    <2>1. UNCHANGED <<dbVars, worker, scan>> /\ msgs' = msgs /\ objects' = objects
      BY <1>7 DEF vars, dbVars
    <2> QED BY <2>1, NobodyMoves DEF Inv, TasksOK, DataOK
  <1> QED BY <1>1, <1>2, <1>3, <1>4, <1>5, <1>6, <1>7 DEF Next

\* The invariant contains the types.
LEMMA InvTypes == Inv => TypeOK
  BY DEF Inv, TasksOK, DocOK, LeaseOK, DataOK, ScanOK, Listing, TaskRow, LeaseRow,
         Row, TypeOK

\* The inductive invariant holds in every reachable state.
THEOREM Invariance == Spec => []Inv
  BY InitInv, StepInv, PTL DEF Spec

\* Whatever workers, scanner, DELETE and broker do, in any number: the rows
\* stay within their columns, retry_count within max_retries.
THEOREM TypeCorrectness == Spec => []TypeOK
  BY Invariance, InvTypes, PTL

\* A document in "processing" has an open lease, so it is counted against its
\* user's slots and the scanner will find it: no path of stages, failures,
\* recoveries or deletes separates the two.
THEOREM ProcessingIsCounted == Spec => []ProcessingHoldsSlot
  <1>1. Inv => ProcessingHoldsSlot
    BY DEF Inv
  <1> QED BY <1>1, Invariance, PTL

\* A document is "completed" only with the chunks its embed stage recorded,
\* however often its stages were retried, delivered twice or recovered.
THEOREM PublicationIsComplete == Spec => []PublishedHasChunks
  <1>1. Inv => PublishedHasChunks
    BY DEF Inv
  <1> QED BY <1>1, Invariance, PTL

(***************************************************************************)
(* A deletion is never forgotten                                           *)
(***************************************************************************)
\* Only stages are converged to "cancelled": a cleanup is not fenced.
CancelsStages ==
    \A w \in Worker :
        worker[w].pc \in {"cancel", "cancelling"} => worker[w].task \in Stages

ProgressInv == CancelsStages /\ DeletingProgress

\* Only worker w moves, and to "cancel" only with a stage.
Moves(w) ==
    /\ \A v \in Worker \ {w} : worker'[v] = worker[v]
    /\ worker'[w].pc \in {"cancel", "cancelling"} => worker'[w].task \in Stages

\* The rows of the cleanups keep what they are, or are in hand.
CleanupsKept ==
    \A t \in Cleanups :
        task'[t] = task[t] \/ task'[t].status \in {"queued", "running"}

\* A step that leaves a document in deletion only where it was, its cleanup in
\* hand and the lease open; no worker starts a delete cycle.
DeletionKept ==
    /\ doc'.cycle = doc.cycle
    /\ doc'.status = "deleting" =>
         /\ doc.status = "deleting"
         /\ CleanupsKept
         /\ lease.open => lease'.open

\* A worker step of that kind keeps the invariant.
LEMMA ProgressKept ==
    ASSUME Inv, ProgressInv, DeletionKept,
           NEW w \in Worker, Moves(w)
    PROVE  ProgressInv'
  <1>1. CancelsStages'
    BY DEF ProgressInv, CancelsStages, Moves
  <1>2. ASSUME doc'.status = "deleting"
        PROVE  \/ task'[Cleanup(doc'.cycle)].status \in {"queued", "running"}
               \/ task'[Cleanup(doc'.cycle)].status = "pending" /\ lease'.open
    <2>1. /\ doc.status = "deleting" /\ doc'.cycle = doc.cycle /\ CleanupsKept
          /\ lease.open => lease'.open
      BY <1>2 DEF DeletionKept
    <2>2. doc.cycle \in 1..MaxDeletes
      BY <2>1, Bounds DEF Inv, DocOK, Doc
    <2>3. Cleanup(doc.cycle) \in Cleanups
      BY <2>2, CleanupNames
    <2> QED BY <2>1, <2>3 DEF CleanupsKept, ProgressInv, DeletingProgress
  <1> QED BY <1>1, <1>2 DEF ProgressInv, DeletingProgress

\* A worker that returns is idle.
LEMMA ReturnMoves ==
    ASSUME Inv, NEW w \in Worker, Return(w)
    PROVE  Moves(w)
  BY DEF Inv, WorkersOK, Return, Moves, Idle

\* A worker that goes on does so in the same task.
LEMMA GotoMoves ==
    ASSUME Inv, NEW w \in Worker, NEW pc \in Pc \ {"cancel", "cancelling"}, Goto(w, pc)
    PROVE  Moves(w)
  <1>1. worker[w] \in Process /\ worker \in [Worker -> Process]
    BY DEF Inv, WorkersOK
  <1> QED BY <1>1 DEF Goto, Moves, Process

\* The same after an error.
LEMMA ToFailMoves ==
    ASSUME Inv, NEW w \in Worker, NEW code, ToFail(w, code)
    PROVE  Moves(w)
  <1>1. worker[w] \in Process /\ worker \in [Worker -> Process]
    BY DEF Inv, WorkersOK
  <1> QED BY <1>1 DEF ToFail, Moves, Process

\* A stage may be fenced.
LEMMA ToCancelMoves ==
    ASSUME Inv, NEW w \in Worker, worker[w].task \in Stages, ToCancel(w)
    PROVE  Moves(w)
  <1>1. worker[w] \in Process /\ worker \in [Worker -> Process]
    BY DEF Inv, WorkersOK
  <1> QED BY <1>1 DEF ToCancel, Moves, Process

\* Nothing in the database changes, or nothing a deletion depends on.
LEMMA NothingDeleted ==
    ASSUME UNCHANGED <<doc, task>>, lease.open => lease'.open
    PROVE  DeletionKept
  BY DEF DeletionKept, CleanupsKept

\* The status and the cycle of the document survive the flush of a session
\* that changed neither.
LEMMA FlushKeepsDeletion ==
    ASSUME Inv, NEW loaded \in Doc, NEW new \in Doc,
           new.status = loaded.status, new.cycle = loaded.cycle,
           doc' = Flush(doc, loaded, new)
    PROVE  doc'.status = doc.status /\ doc'.cycle = doc.cycle
  BY FlushDoc DEF Inv, DocOK

\* No stage is a cleanup.
LEMMA StagesApart ==
    /\ Stages \cap Cleanups = {}
    /\ \A t \in Stages : t \in TaskId
    /\ \A t \in Cleanups : t \in TaskId /\ t \notin Stages
  BY DEF Stages, Cleanups, TaskId, Stage, Cleanup

\* A terminal failure fails the document.
LEMMA FailForProgress ==
    ASSUME Inv, NEW w \in Worker, NEW loaded \in Doc, NEW code \in ErrorCode,
           loaded = doc \/ loaded.status # "failed",
           FailFor(w, loaded, code)
    PROVE  DeletionKept /\ Moves(w)
  <1> DEFINE new == [loaded EXCEPT !.status = "failed", !.error = code]
  <1>1. new \in Doc /\ new.status = "failed" /\ new.cycle = loaded.cycle
    BY DEF Doc, DocStatus
  <1>2. doc' = Flush(doc, loaded, new) /\ doc \in Doc
    BY DEF Inv, DocOK, FailFor
  <1> HIDE DEF new
  <1>3. doc'.status = "failed" /\ doc'.cycle = doc.cycle
    BY <1>1, <1>2, FlushDoc
  <1> QED BY <1>3, ReturnMoves DEF DeletionKept, FailFor

\* The retry of a stage touches neither the document's status nor a cleanup.
LEMMA RetryProgress ==
    ASSUME Inv, NEW w \in Worker, NEW loaded \in Doc, NEW retry \in 0..MaxRetries,
           worker[w].task \in Stages,
           Retry(w, loaded, retry)
    PROVE  DeletionKept /\ Moves(w)
  <1> DEFINE new == [loaded EXCEPT !.error = 0]
  <1>1. new \in Doc /\ new.status = loaded.status /\ new.cycle = loaded.cycle
    BY DEF Doc, ErrorCode
  <1>2. doc' = Flush(doc, loaded, new)
    BY DEF Retry
  <1> HIDE DEF new
  <1>3. doc'.status = doc.status /\ doc'.cycle = doc.cycle
    BY <1>1, <1>2, FlushKeepsDeletion
  <1>4. \A t \in Cleanups : task'[t] = task[t]
    BY StagesApart DEF Retry, Inv, TasksOK
  <1> QED BY <1>3, <1>4, ReturnMoves DEF DeletionKept, CleanupsKept, Retry

\* fail_stage, whichever way it ends.
LEMMA FailStageProgress ==
    ASSUME Inv, NEW w \in Worker, NEW retry \in 0..MaxRetries, NEW code \in ErrorCode,
           worker[w].task \in Stages,
           FailStage(w, doc, retry, code)
    PROVE  DeletionKept /\ Moves(w)
  <1>1. doc \in Doc /\ 20014 \in ErrorCode
    BY DocErrors DEF Inv, DocOK
  <1> QED BY <1>1, FailForProgress, RetryProgress DEF FailStage

\* So does complete_stage.
LEMMA AdvanceProgress ==
    ASSUME Inv, NEW w \in Worker, NEW loaded \in Doc,
           worker[w].task \in {Parse, ChunkStage, Embed},
           Advance(w, loaded)
    PROVE  DeletionKept /\ Moves(w)
  <1> DEFINE n == NextStage(worker[w].task)
             new == [loaded EXCEPT !.type = n[1]]
  <1>1. n \in Stages /\ worker[w].task \in Stages /\ n[1] \in DocType
    BY TaskNames, TaskTypes
  <1>2. new \in Doc /\ new.status = loaded.status /\ new.cycle = loaded.cycle
    BY <1>1 DEF Doc
  <1>3. doc' = Flush(doc, loaded, new)
    BY DEF Advance
  <1>4. \A t \in Cleanups : task'[t] = task[t]
    BY <1>1, StagesApart DEF Advance, Inv, TasksOK
  <1>5. lease'.open = lease.open
    BY DEF Advance, Inv, LeaseOK, LeaseRow
  <1> HIDE DEF new
  <1>6. doc'.status = doc.status /\ doc'.cycle = doc.cycle
    BY <1>2, <1>3, FlushKeepsDeletion
  <1> QED BY <1>4, <1>5, <1>6, ReturnMoves DEF DeletionKept, CleanupsKept, Advance

\* Every step of the parse worker.
LEMMA ParseProgress ==
    ASSUME Inv, NEW w \in Worker,
           \/ ParseDeliver(w)
           \/ ParseFindOpen(w) \/ ParseAcquire(w) \/ ParseDenied(w)
           \/ ParseRejected(w) \/ ParseBreaks(w) \/ ParseStore(w) \/ ParseStoreFails(w)
           \/ ParseSave(w) \/ ParseFenced(w) \/ ParseSaveFails(w)
    PROVE  DeletionKept /\ Moves(w)
  <1>1. /\ worker[w] \in Process /\ worker \in [Worker -> Process]
        /\ worker[w].task \in TaskId \cup {NoTask}
        /\ lease \in LeaseRow /\ task \in [TaskId -> TaskRow]
    BY DEF Inv, WorkersOK, Process, LeaseOK, TasksOK
  <1>2. CASE ParseDeliver(w)
    <2>1. DeletionKept
      BY <1>2, NothingDeleted DEF ParseDeliver, dbVars
    <2>2. Moves(w)
      BY <1>1, <1>2 DEF ParseDeliver, Moves, Process, Inv, WorkersOK, ProcessOK
    <2> QED BY <2>1, <2>2
  <1>3. CASE ParseFindOpen(w)
    BY <1>3, NothingDeleted, GotoMoves DEF ParseFindOpen, dbVars, Pc
  <1>4. CASE ParseAcquire(w)
    <2> DEFINE loaded == worker[w].seen
               new == [loaded EXCEPT !.status = IF @ = "queued" THEN "processing" ELSE @]
    <2>1. loaded \in Doc /\ loaded.status \in {"queued", "processing"}
      BY <1>4, ParseHasDocument DEF ParseAcquire
    <2>2. new \in Doc /\ new.status = "processing" /\ new.cycle = loaded.cycle
      BY <2>1 DEF Doc, DocStatus
    <2>3. doc' = Flush(doc, loaded, new) /\ doc \in Doc
      BY <1>4 DEF ParseAcquire, Inv, DocOK
    <2> HIDE DEF new
    <2>4. doc'.cycle = doc.cycle /\ (doc'.status = "deleting" => doc.status = "deleting")
      BY <2>1, <2>2, <2>3, FlushDoc
    <2>5. DeletionKept
      BY <1>4, <2>4 DEF DeletionKept, CleanupsKept, ParseAcquire
    <2>6. Moves(w)
      BY <1>1, <1>4 DEF ParseAcquire, Moves, Process
    <2> QED BY <2>5, <2>6
  <1>5. CASE ParseDenied(w)
    BY <1>5, NothingDeleted, ReturnMoves DEF ParseDenied, dbVars
  <1>6. CASE ParseRejected(w) \/ ParseSave(w)
    <2>1. worker[w].task = Parse /\ worker[w].pc \in {"work", "save"}
      BY <1>1, <1>6, TaskTypes DEF ParseRejected, ParseSave, At
    <2>2. worker[w].seen \in Doc /\ worker[w].seen.status \in {"queued", "processing"}
      BY <2>1, ParseHasDocument
    <2>3. 20001 \in ErrorCode
      BY DEF ErrorCode
    <2> QED BY <1>6, <2>1, <2>2, <2>3, FailForProgress, AdvanceProgress
            DEF ParseRejected, ParseSave
  <1>7. CASE ParseBreaks(w) \/ ParseStoreFails(w) \/ ParseSaveFails(w)
    BY <1>7, NothingDeleted, ToFailMoves
    DEF ParseBreaks, ParseStoreFails, ParseSaveFails, dbVars
  <1>8. CASE ParseStore(w)
    BY <1>8, NothingDeleted, GotoMoves DEF ParseStore, dbVars, Pc
  <1>9. CASE ParseFenced(w)
    <2>1. worker[w].task \in Stages
      BY <1>1, <1>9, TaskTypes, TaskNames DEF ParseFenced, At
    <2> QED BY <1>9, <2>1, NothingDeleted, ToCancelMoves DEF ParseFenced, dbVars
  <1> QED BY <1>2, <1>3, <1>4, <1>5, <1>6, <1>7, <1>8, <1>9

\* begin_attempt puts a queued task to work.
LEMMA BeginProgress ==
    ASSUME Inv, NEW w \in Worker,
           ParseBegin(w) \/ \E t \in TaskId : Deliver(w, t)
    PROVE  DeletionKept /\ Moves(w)
  <1>1. /\ worker[w] \in Process /\ worker \in [Worker -> Process]
        /\ task \in [TaskId -> TaskRow]
    BY DEF Inv, WorkersOK, TasksOK
  <1>2. UNCHANGED <<doc, lease>>
    BY DEF ParseBegin, Deliver
  <1>3. ASSUME NEW t \in TaskId, BeginAttempt(w, t)
        PROVE  CleanupsKept /\ Moves(w)
    <2>1. CleanupsKept
      BY <1>1, <1>3, StagesApart DEF BeginAttempt, CleanupsKept, TaskRow
    <2>2. Moves(w)
      BY <1>1, <1>3 DEF BeginAttempt, Moves, Process
    <2> QED BY <2>1, <2>2
  <1>4. CASE \E t \in TaskId : BeginAttempt(w, t)
    BY <1>2, <1>3, <1>4 DEF DeletionKept
  <1>5. CASE Return(w) /\ UNCHANGED task
    BY <1>2, <1>5, NothingDeleted, ReturnMoves
  <1>6. CASE worker[w].pc = "idle" /\ UNCHANGED <<task, worker>>
    BY <1>2, <1>6, NothingDeleted DEF Moves
  <1> QED BY <1>4, <1>5, <1>6, TaskNames DEF ParseBegin, Deliver, Parse

\* Where a worker that executes chunk, embed or finalize is.
LEMMA StageAt ==
    ASSUME Inv, NEW w \in Worker,
           \/ ChunkLoad(w) \/ ChunkSave(w) \/ ChunkFenced(w)
           \/ EmbedLoad(w) \/ EmbedNoDrafts(w) \/ EmbedHeartbeat(w) \/ EmbedCall(w)
           \/ EmbedSave(w) \/ EmbedComplete(w) \/ EmbedAborted(w)
           \/ FinalizePublish(w) \/ FinalizeMismatch(w) \/ FinalizeFenced(w)
           \/ StageBreaks(w)
    PROVE  /\ worker[w].task \in {ChunkStage, Embed, Finalize}
           /\ worker[w].task \in Stages /\ worker[w].task # Parse
           /\ worker[w].pc \in {"work", "save", "beat", "call", "complete"}
  <1> DEFINE Pcs == {"work", "save", "beat", "call", "complete"}
  <1>1. CASE ChunkLoad(w) \/ ChunkSave(w) \/ ChunkFenced(w)
    <2>1. At(w, "chunk", "work") \/ At(w, "chunk", "save")
      BY <1>1 DEF ChunkLoad, ChunkSave, ChunkFenced
    <2> QED BY <2>1, AtStage, TaskNames DEF At
  <1>2. CASE EmbedLoad(w) \/ EmbedNoDrafts(w) \/ EmbedHeartbeat(w) \/ EmbedCall(w)
    <2>1. \E pc \in Pcs : At(w, "embed", pc)
      BY <1>2 DEF EmbedLoad, EmbedNoDrafts, EmbedHeartbeat, EmbedCall
    <2> QED BY <2>1, AtStage, TaskNames DEF At
  <1>3. CASE EmbedSave(w) \/ EmbedComplete(w) \/ EmbedAborted(w)
    <2>1. \E pc \in Pcs : At(w, "embed", pc)
      BY <1>3 DEF EmbedSave, EmbedComplete, EmbedAborted
    <2> QED BY <2>1, AtStage, TaskNames DEF At
  <1>4. CASE FinalizePublish(w) \/ FinalizeMismatch(w) \/ FinalizeFenced(w)
    <2>1. At(w, "finalize", "work")
      BY <1>4 DEF FinalizePublish, FinalizeMismatch, FinalizeFenced
    <2> QED BY <2>1, AtStage, TaskNames DEF At
  <1>5. CASE StageBreaks(w)
    <2>1. \E pc \in Pcs : At(w, "chunk", pc) \/ At(w, "embed", pc) \/ At(w, "finalize", pc)
      BY <1>5 DEF StageBreaks
    <2> QED BY <2>1, AtStage, TaskNames DEF At
  <1> QED BY <1>1, <1>2, <1>3, <1>4, <1>5

\* Where a worker that executes a cleanup is.
LEMMA CleanupAt ==
    ASSUME Inv, NEW w \in Worker,
           \/ CleanupLoad(w) \/ CleanupPurge(w) \/ CleanupCommit(w)
           \/ CleanupBreaks(w) \/ CleanupFails(w)
    PROVE  /\ worker[w].task \in Cleanups /\ worker[w].task \in TaskId
           /\ worker[w].pc \in {"work", "purge", "commit", "failing"}
  <1>1. CASE CleanupLoad(w) \/ CleanupPurge(w) \/ CleanupCommit(w)
    <2>1. \E pc \in {"work", "purge", "commit"} : At(w, "delete_cleanup", pc)
      BY <1>1 DEF CleanupLoad, CleanupPurge, CleanupCommit
    <2> QED BY <2>1, AtStage, StagesApart DEF At
  <1>2. CASE CleanupBreaks(w) \/ CleanupFails(w)
    <2>1. \E pc \in {"purge", "commit", "failing"} : At(w, "delete_cleanup", pc)
      BY <1>2 DEF CleanupBreaks, CleanupFails
    <2> QED BY <2>1, AtStage, StagesApart DEF At
  <1> QED BY <1>1, <1>2

\* chunk, embed and finalize.
LEMMA StageProgress ==
    ASSUME Inv, NEW w \in Worker,
           \/ ChunkLoad(w) \/ ChunkSave(w) \/ ChunkFenced(w)
           \/ EmbedLoad(w) \/ EmbedNoDrafts(w) \/ EmbedHeartbeat(w) \/ EmbedCall(w)
           \/ EmbedSave(w) \/ EmbedComplete(w) \/ EmbedAborted(w)
           \/ FinalizePublish(w) \/ FinalizeMismatch(w) \/ FinalizeFenced(w)
    PROVE  DeletionKept /\ Moves(w)
  <1>1. worker[w].task \in {ChunkStage, Embed, Finalize} /\ worker[w].task \in Stages
    BY StageAt
  <1>2. doc \in Doc /\ lease \in LeaseRow /\ {0, 20013} \subseteq ErrorCode
    BY DEF Inv, DocOK, LeaseOK, ErrorCode
  <1>3. CASE \/ ChunkLoad(w) \/ ChunkFenced(w) \/ EmbedLoad(w) \/ EmbedCall(w)
             \/ EmbedHeartbeat(w) \/ EmbedSave(w) \/ FinalizeFenced(w) \/ EmbedAborted(w)
    <2>1. DeletionKept
      <3>1. UNCHANGED <<doc, task>>
        BY <1>3
        DEF ChunkLoad, ChunkFenced, EmbedLoad, EmbedCall, EmbedHeartbeat, EmbedSave,
            FinalizeFenced, EmbedAborted, dbVars
      <3>2. \/ lease' = lease
            \/ lease' = [lease EXCEPT !.expired = FALSE, !.task = Embed]
        BY <1>3
        DEF ChunkLoad, ChunkFenced, EmbedLoad, EmbedCall, EmbedHeartbeat, EmbedSave,
            FinalizeFenced, EmbedAborted, dbVars, Embed
      <3>3. lease.open => lease'.open
        <4>1. CASE lease' = [lease EXCEPT !.expired = FALSE, !.task = Embed]
          BY <1>2, <4>1 DEF LeaseRow
        <4> QED BY <3>2, <4>1
      <3> QED BY <3>1, <3>3, NothingDeleted
    <2>2. \/ Return(w) \/ ToCancel(w)
          \/ \E code \in {0, 20012} : ToFail(w, code)
          \/ \E pc \in {"save", "beat", "call", "complete"} : Goto(w, pc)
      BY <1>3
      DEF ChunkLoad, ChunkFenced, EmbedLoad, EmbedCall, EmbedHeartbeat, EmbedSave,
          FinalizeFenced, EmbedAborted
    <2>3. {"save", "beat", "call", "complete"} \subseteq Pc \ {"cancel", "cancelling"}
      BY DEF Pc
    <2>4. Moves(w)
      BY <1>1, <2>2, <2>3, ReturnMoves, ToCancelMoves, ToFailMoves, GotoMoves
    <2> QED BY <2>1, <2>4
  <1>4. CASE ChunkSave(w) \/ EmbedComplete(w)
    <2>1. worker[w].task \in {Parse, ChunkStage, Embed}
      BY <1>4, AtStage DEF ChunkSave, EmbedComplete
    <2> QED BY <1>2, <1>4, <2>1, AdvanceProgress DEF ChunkSave, EmbedComplete
  <1>5. CASE EmbedNoDrafts(w)
    <2>1. worker[w].retry \in 0..MaxRetries
      BY DEF Inv, WorkersOK, Process
    <2> QED BY <1>1, <1>2, <1>5, <2>1, FailStageProgress DEF EmbedNoDrafts
  <1>6. CASE FinalizePublish(w)
    <2>1. doc'.status = "completed" /\ doc'.cycle = doc.cycle
      BY <1>2, <1>6 DEF FinalizePublish, Doc
    <2> QED BY <1>6, <2>1, ReturnMoves DEF DeletionKept, FinalizePublish
  <1>7. CASE FinalizeMismatch(w)
    BY <1>2, <1>7, FailForProgress DEF FinalizeMismatch
  <1> QED BY <1>3, <1>4, <1>5, <1>6, <1>7

\* The steps that follow an error, and the processes that die.
LEMMA ErrorProgress ==
    ASSUME Inv, ProgressInv, NEW w \in Worker,
           \/ StageBreaks(w) \/ Reload(w) \/ FailAfterRollback(w) \/ ConvergeCancelled(w)
           \/ HandlerDies(w) \/ Crash(w)
    PROVE  DeletionKept /\ Moves(w)
  <1>1. /\ worker[w] \in Process /\ worker \in [Worker -> Process]
        /\ task \in [TaskId -> TaskRow]
    BY DEF Inv, WorkersOK, TasksOK
  <1>2. CASE StageBreaks(w)
    BY <1>2, NothingDeleted, ToFailMoves DEF StageBreaks, dbVars
  <1>3. CASE HandlerDies(w) \/ Crash(w)
    BY <1>3, NothingDeleted, ReturnMoves DEF HandlerDies, Crash, dbVars
  <1>4. CASE Reload(w)
    <2>1. DeletionKept
      BY <1>4, NothingDeleted DEF Reload, dbVars
    <2>2. CASE Return(w)
      BY <2>1, <2>2, ReturnMoves
    <2>3. CASE worker' = [worker EXCEPT
                            ![w].pc = IF @ = "fail" THEN "failing" ELSE "cancelling",
                            ![w].retry = task[worker[w].task].retry]
      <3>1. worker[w].pc = "cancel" => worker[w].task \in Stages
        BY DEF ProgressInv, CancelsStages
      <3>2. worker'[w].task = worker[w].task
        BY <1>1, <2>3 DEF Process
      <3>3. worker'[w].pc \in {"cancel", "cancelling"} => worker[w].pc = "cancel"
        BY <1>1, <1>4, <2>3 DEF Process, Reload
      <3>4. \A v \in Worker \ {w} : worker'[v] = worker[v]
        BY <1>1, <2>3
      <3> QED BY <2>1, <3>1, <3>2, <3>3, <3>4 DEF Moves
    <2> QED BY <1>4, <2>2, <2>3 DEF Reload
  <1>5. CASE FailAfterRollback(w)
    <2>1. worker[w].task \in TaskId /\ worker[w].code \in ErrorCode
      BY <1>1, <1>5, StagesApart DEF FailAfterRollback, Process
    <2>2. task[worker[w].task].retry \in 0..MaxRetries
      BY <1>1, <2>1 DEF TaskRow
    <2> QED BY <1>5, <2>1, <2>2, FailStageProgress DEF FailAfterRollback
  <1>6. CASE ConvergeCancelled(w)
    <2>1. worker[w].task \in Stages
      BY <1>6 DEF ConvergeCancelled, ProgressInv, CancelsStages
    <2>2. CleanupsKept
      BY <1>1, <1>6, <2>1, StagesApart DEF ConvergeCancelled, CleanupsKept
    <2> QED BY <1>6, <2>2, ReturnMoves DEF ConvergeCancelled, DeletionKept
  <1> QED BY <1>2, <1>3, <1>4, <1>5, <1>6

\* A cleanup ends with the tombstone, with a retry, or with a visible failure.
LEMMA CleanupProgress ==
    ASSUME Inv, NEW w \in Worker,
           \/ CleanupLoad(w) \/ CleanupPurge(w) \/ CleanupCommit(w)
           \/ CleanupBreaks(w) \/ CleanupFails(w)
    PROVE  DeletionKept /\ Moves(w)
  <1>1. /\ worker[w] \in Process /\ worker \in [Worker -> Process]
        /\ task \in [TaskId -> TaskRow] /\ doc \in Doc
    BY DEF Inv, WorkersOK, TasksOK, DocOK
  <1>2. worker[w].task \in Cleanups /\ worker[w].task \in TaskId
    BY CleanupAt
  <1>3. CASE CleanupLoad(w)
    <2>1. CASE doc.status = "deleted" /\ Return(w)
      BY <1>3, <2>1, ReturnMoves DEF CleanupLoad, DeletionKept
    <2>2. CASE /\ worker' = [worker EXCEPT ![w].pc = "purge", ![w].seen = doc]
               /\ UNCHANGED <<attempts, task>>
      <3>1. DeletionKept
        BY <1>3, <2>2, NothingDeleted DEF CleanupLoad
      <3>2. Moves(w)
        BY <1>1, <2>2 DEF Moves, Process
      <3> QED BY <3>1, <3>2
    <2> QED BY <1>3, <2>1, <2>2 DEF CleanupLoad
  <1>4. CASE CleanupPurge(w)
    <2>1. DeletionKept
      BY <1>4, NothingDeleted DEF CleanupPurge, dbVars
    <2>2. Moves(w)
      BY <1>1, <1>4 DEF CleanupPurge, Moves, Process
    <2> QED BY <2>1, <2>2
  <1>5. CASE CleanupBreaks(w)
    <2>1. DeletionKept
      BY <1>5, NothingDeleted DEF CleanupBreaks, dbVars
    <2>2. Moves(w)
      BY <1>1, <1>5 DEF CleanupBreaks, Moves, Process
    <2> QED BY <2>1, <2>2
  <1>6. CASE CleanupCommit(w)
    <2> DEFINE loaded == worker[w].seen
               new == [loaded EXCEPT !.status = "deleted", !.type = "none", !.error = 0]
    <2>1. loaded \in Doc /\ loaded.status # "deleted"
      BY <1>6 DEF CleanupCommit, At, Inv, WorkersOK, ProcessOK
    <2>2. PICK e \in ErrorCode : e = 0
      BY DocErrors
    <2>3. new \in Doc /\ new.status = "deleted" /\ new.cycle = loaded.cycle
      BY <2>1, <2>2, DocColumns DEF Doc
    <2>4. doc' = Flush(doc, loaded, new)
      BY <1>6 DEF CleanupCommit
    <2> HIDE DEF new
    <2>5. doc'.status = "deleted" /\ doc'.cycle = doc.cycle
      BY <1>1, <2>1, <2>3, <2>4, FlushDoc
    <2> QED BY <1>6, <2>5, ReturnMoves DEF CleanupCommit, DeletionKept
  <1>7. CASE CleanupFails(w)
    <2> DEFINE t == worker[w].task
    <2>1. CASE /\ task' = [task EXCEPT ![t] = Requeued(worker[w].retry)]
               /\ UNCHANGED doc
      <3>1. CleanupsKept
        BY <1>1, <1>2, <2>1, StagesApart DEF CleanupsKept, Requeued
      <3> QED BY <1>7, <2>1, <3>1, ReturnMoves DEF CleanupFails, DeletionKept
    <2>2. CASE doc' = [doc EXCEPT !.status = "failed", !.type = "delete_cleanup",
                                  !.error = 20015]
      <3>1. doc'.status = "failed" /\ doc'.cycle = doc.cycle
        BY <1>1, <2>2 DEF Doc
      <3> QED BY <1>7, <3>1, ReturnMoves DEF CleanupFails, DeletionKept
    <2> QED BY <1>7, <2>1, <2>2 DEF CleanupFails
  <1> QED BY <1>3, <1>4, <1>5, <1>6, <1>7

\* DELETE queues the cleanup of its cycle, or leaves it pending on a lease.
LEMMA DeleteProgress ==
    ASSUME Inv, ProgressInv, Delete
    PROVE  ProgressInv'
  <1> DEFINE dc == Cleanup(doc.cycle + 1)
             kept == [t \in TaskId |->
                        IF t \in Stages /\ task[t].status \in {"pending", "queued"}
                        THEN [task[t] EXCEPT !.status = "cancelled"] ELSE task[t]]
  <1>1. doc.cycle + 1 \in 1..MaxDeletes /\ doc'.cycle = doc.cycle + 1
    BY Bounds DEF Delete, Inv, DocOK, Doc
  <1>2. dc \in TaskId
    BY <1>1, CleanupNames
  <1>3. DOMAIN kept = TaskId /\ \A a : DOMAIN Cancel(a, kept) = TaskId
    BY DEF Cancel
  <1> HIDE DEF kept
  <1>4. \/ \E T : DOMAIN T = TaskId /\ task' = [T EXCEPT ![dc] = [status |-> "queued", retry |-> 0]]
        \/ /\ \E T : DOMAIN T = TaskId /\ task' = [T EXCEPT ![dc] = [status |-> "pending", retry |-> 0]]
           /\ lease'.open
    BY <1>3 DEF Delete, kept
  <1>5. \/ task'[dc].status = "queued"
        \/ task'[dc].status = "pending" /\ lease'.open
    BY <1>2, <1>4
  <1>6. DeletingProgress'
    BY <1>1, <1>5 DEF DeletingProgress
  <1>7. CancelsStages'
    BY DEF Delete, ProgressInv, CancelsStages
  <1> QED BY <1>6, <1>7 DEF ProgressInv

\* The recoveries leave a document in deletion with its cleanup queued.
LEMMA RecoveryProgress ==
    ASSUME Inv, ProgressInv,
           RecoverLease \/ \E a \in scan.orphans : RecoverOrphan(a)
    PROVE  ProgressInv'
  <1>1. task \in [TaskId -> TaskRow] /\ doc \in Doc
    BY DEF Inv, TasksOK, DocOK
  <1>2. CancelsStages'
    BY DEF RecoverLease, RecoverOrphan, ProgressInv, CancelsStages
  <1>3. CASE UNCHANGED <<doc, task, lease>>
    BY <1>2, <1>3 DEF ProgressInv, DeletingProgress
  <1>4. ASSUME NEW a, doc.status = "deleting",
               task' = QueueCleanup(Cancel(a, task)),
               doc' = [doc EXCEPT !.type = "delete_cleanup"]
        PROVE  DeletingProgress'
    <2>1. doc'.cycle = doc.cycle /\ Cleanup(doc.cycle) \in TaskId
      BY <1>1, <1>4, CleanupNames, Bounds DEF Doc, Inv, DocOK
    <2>2. Cancel(a, task) \in [TaskId -> TaskRow]
      BY <1>1, CancelTask
    <2>3. task'[Cleanup(doc.cycle)].status = "queued"
      BY <1>4, <2>1, <2>2 DEF QueueCleanup, TaskRow
    <2> QED BY <2>1, <2>3 DEF DeletingProgress
  <1>5. ASSUME NEW t, RecoverTask(t)
        PROVE  DeletingProgress'
    <2>1. CASE doc' = [doc EXCEPT !.status = "queued", !.error = 0]
      BY <1>1, <2>1 DEF DeletingProgress, Doc
    <2>2. CASE doc' = [doc EXCEPT !.status = "failed", !.error = 20014]
      BY <1>1, <2>2 DEF DeletingProgress, Doc
    <2> QED BY <1>5, <2>1, <2>2 DEF RecoverTask
  <1>6. ASSUME NEW t \in Cleanups, RecoverCleanup(t), UNCHANGED lease
        PROVE  DeletingProgress'
    <2>1. CASE doc' = [doc EXCEPT !.status = "failed", !.type = "delete_cleanup",
                                  !.error = 20015]
      <3>1. doc'.status # "deleting"
        BY <1>1, <2>1 DEF Doc
      <3> QED BY <3>1 DEF DeletingProgress
    <2>2. CASE UNCHANGED doc /\ task' = [task EXCEPT ![t] = Requeued(@.retry)]
      <3>1. CleanupsKept
        BY <1>1, <2>2, StagesApart DEF CleanupsKept, Requeued
      <3>2. DeletionKept
        BY <1>6, <2>2, <3>1 DEF DeletionKept
      <3>3. doc'.status = "deleting" => doc.cycle \in 1..MaxDeletes
        BY <1>1, <2>2, Bounds DEF Inv, DocOK, Doc
      <3> QED BY <2>2, <3>1, <3>3, CleanupNames, <1>6
              DEF CleanupsKept, ProgressInv, DeletingProgress
    <2> QED BY <1>6, <2>1, <2>2 DEF RecoverCleanup
  <1>7. CASE RecoverLease
    <2>1. \/ UNCHANGED <<doc, task, lease>>
          \/ /\ doc.status = "deleting"
             /\ task' = QueueCleanup(Cancel(<<scan.lease.task, 0>>, task))
             /\ doc' = [doc EXCEPT !.type = "delete_cleanup"]
          \/ RecoverTask(scan.lease.task)
      BY <1>7 DEF RecoverLease
    <2> QED BY <1>2, <1>3, <1>4, <1>5, <2>1 DEF ProgressInv
  <1>8. ASSUME NEW a \in scan.orphans, RecoverOrphan(a)
        PROVE  ProgressInv'
    <2>1. UNCHANGED lease
      BY <1>8 DEF RecoverOrphan
    <2>2. \/ UNCHANGED <<doc, task>>
          \/ a[1] \in Cleanups /\ RecoverCleanup(a[1])
          \/ /\ doc.status = "deleting"
             /\ task' = QueueCleanup(Cancel(a, task))
             /\ doc' = [doc EXCEPT !.type = "delete_cleanup"]
          \/ RecoverTask(a[1])
      BY <1>8 DEF RecoverOrphan
    <2> QED BY <1>2, <1>3, <1>4, <1>5, <1>6, <2>1, <2>2 DEF ProgressInv
  <1> QED BY <1>7, <1>8

\* Everybody else leaves the document, its tasks and its slot alone.
LEMMA OthersProgress ==
    ASSUME Inv, ProgressInv,
           \/ Expire \/ ScanExpired \/ RefreshScan \/ ScanOrphans
           \/ \E t \in TaskId : Lose(t) \/ Redispatch(t)
           \/ \E w \in Worker : Redeliver(w)
           \/ UNCHANGED vars
    PROVE  ProgressInv'
  <1>1. UNCHANGED <<doc, task, worker>>
    BY DEF Expire, ScanExpired, RefreshScan, ScanOrphans, Lose, Redispatch, Redeliver,
           dbVars, vars
  <1>2. lease' = lease \/ lease' = [lease EXCEPT !.expired = TRUE]
    BY DEF Expire, ScanExpired, RefreshScan, ScanOrphans, Lose, Redispatch, Redeliver,
           dbVars, vars
  <1>3. lease'.open = lease.open
    BY <1>2 DEF Inv, LeaseOK, LeaseRow
  <1> QED BY <1>1, <1>3 DEF ProgressInv, CancelsStages, DeletingProgress

\* All the steps of a worker.
LEMMA WorkerProgress ==
    ASSUME Inv, ProgressInv, NEW w \in Worker,
           \/ ParseDeliver(w) \/ WorkerStep(w) \/ Crash(w)
           \/ \E t \in TaskId : Deliver(w, t)
    PROVE  DeletionKept /\ Moves(w)
  <1>1. CASE \/ ParseDeliver(w)
             \/ ParseFindOpen(w) \/ ParseAcquire(w) \/ ParseDenied(w)
             \/ ParseRejected(w) \/ ParseBreaks(w) \/ ParseStore(w)
             \/ ParseStoreFails(w) \/ ParseSave(w) \/ ParseFenced(w)
             \/ ParseSaveFails(w)
    BY <1>1, ParseProgress
  <1>2. CASE ParseBegin(w) \/ \E t \in TaskId : Deliver(w, t)
    BY <1>2, BeginProgress
  <1>3. CASE \/ ChunkLoad(w) \/ ChunkSave(w) \/ ChunkFenced(w)
             \/ EmbedLoad(w) \/ EmbedNoDrafts(w) \/ EmbedHeartbeat(w) \/ EmbedCall(w)
             \/ EmbedSave(w) \/ EmbedComplete(w) \/ EmbedAborted(w)
             \/ FinalizePublish(w) \/ FinalizeMismatch(w) \/ FinalizeFenced(w)
    BY <1>3, StageProgress
  <1>4. CASE \/ StageBreaks(w) \/ Reload(w) \/ FailAfterRollback(w)
             \/ ConvergeCancelled(w) \/ HandlerDies(w) \/ Crash(w)
    BY <1>4, ErrorProgress
  <1>5. CASE \/ CleanupLoad(w) \/ CleanupPurge(w) \/ CleanupCommit(w)
             \/ CleanupBreaks(w) \/ CleanupFails(w)
    BY <1>5, CleanupProgress
  <1> QED BY <1>1, <1>2, <1>3, <1>4, <1>5 DEF WorkerStep

\* Every step keeps a deletion in somebody's hands.
LEMMA ProgressStep ==
    ASSUME Inv, ProgressInv, [Next]_vars
    PROVE  ProgressInv'
  <1>1. ASSUME NEW w \in Worker,
               \/ ParseDeliver(w) \/ WorkerStep(w) \/ Crash(w)
               \/ \E t \in TaskId : Deliver(w, t)
        PROVE  ProgressInv'
    BY <1>1, WorkerProgress, ProgressKept
  <1>2. CASE Delete
    BY <1>2, DeleteProgress
  <1>3. CASE RecoverLease \/ \E a \in scan.orphans : RecoverOrphan(a)
    BY <1>3, RecoveryProgress
  <1>4. CASE \/ Expire \/ ScanExpired \/ RefreshScan \/ ScanOrphans
             \/ \E t \in TaskId : Lose(t) \/ Redispatch(t)
             \/ \E w \in Worker : Redeliver(w)
             \/ UNCHANGED vars
    BY <1>4, OthersProgress
  <1> QED BY <1>1, <1>2, <1>3, <1>4 DEF Next

\* Both parts hold in every reachable state.
LEMMA ProgressInvariance == Spec => []ProgressInv
  <1>1. Init => ProgressInv
    BY DEF Init, ProgressInv, CancelsStages, DeletingProgress, Idle
  <1>2. Inv /\ ProgressInv /\ [Next]_vars => ProgressInv'
    BY ProgressStep
  <1> QED BY <1>1, <1>2, Invariance, PTL DEF Spec

\* Whatever crashes, errors, expiries, recoveries, lost messages and stale
\* sessions do, for any number of workers: a document in "deleting" has a
\* cleanup that is queued or running, or one that waits for an open lease.
\* No order of events drops the deletion.
THEOREM DeletionInHand == Spec => []DeletingProgress
  <1>1. ProgressInv => DeletingProgress
    BY DEF ProgressInv
  <1> QED BY <1>1, ProgressInvariance, PTL

(***************************************************************************)
(* What was spent stays spent, and the delete cycle only grows             *)
(***************************************************************************)
Resource == {"expirations", "crashes", "faults", "mishaps", "strays"}

UsedOK == used \in [Resource -> Nat]

\* A step spends at most one unit of one bound (a fault that leaves a file is
\* counted as a stray as well).
LEMMA SpendsOnce ==
    ASSUME [Next]_vars
    PROVE  used' = used \/ Stray \/ \E b \in Resource : \E max : Spend(b, max)
  <1> DEFINE Goal == used' = used \/ Stray \/ \E b \in Resource : \E max : Spend(b, max)
  <1>1. ASSUME NEW w \in Worker,
               \/ ParseDeliver(w) \/ ParseFindOpen(w) \/ ParseAcquire(w)
               \/ ParseDenied(w) \/ ParseBegin(w) \/ ParseRejected(w) \/ ParseBreaks(w)
               \/ ParseStore(w) \/ ParseStoreFails(w) \/ ParseSave(w) \/ ParseFenced(w)
               \/ ParseSaveFails(w)
        PROVE  Goal
    BY <1>1
    DEF ParseDeliver, ParseFindOpen, ParseAcquire, ParseDenied, ParseBegin,
        ParseRejected, ParseBreaks, ParseStore, ParseStoreFails, ParseSave, ParseFenced,
        ParseSaveFails, Fault, Resource
  <1>2. ASSUME NEW w \in Worker,
               \/ ChunkLoad(w) \/ ChunkSave(w) \/ ChunkFenced(w)
               \/ EmbedLoad(w) \/ EmbedNoDrafts(w) \/ EmbedHeartbeat(w) \/ EmbedCall(w)
               \/ EmbedSave(w) \/ EmbedComplete(w) \/ EmbedAborted(w)
               \/ FinalizePublish(w) \/ FinalizeMismatch(w) \/ FinalizeFenced(w)
        PROVE  used' = used
    BY <1>2
    DEF ChunkLoad, ChunkSave, ChunkFenced, EmbedLoad, EmbedNoDrafts, EmbedHeartbeat,
        EmbedCall, EmbedSave, EmbedComplete, EmbedAborted, FinalizePublish,
        FinalizeMismatch, FinalizeFenced
  <1>3. ASSUME NEW w \in Worker,
               StageBreaks(w) \/ HandlerDies(w) \/ Crash(w) \/ Redeliver(w) \/ CleanupBreaks(w)
        PROVE  Goal
    BY <1>3
    DEF StageBreaks, HandlerDies, Crash, Redeliver, CleanupBreaks, Fault, Resource
  <1>5. ASSUME NEW w \in Worker,
               \/ CleanupLoad(w) \/ CleanupPurge(w) \/ CleanupCommit(w) \/ CleanupFails(w)
        PROVE  used' = used
    <2>1. CASE CleanupLoad(w) \/ CleanupPurge(w)
      BY <2>1 DEF CleanupLoad, CleanupPurge
    <2>2. CASE CleanupCommit(w) \/ CleanupFails(w)
      BY <2>2 DEF CleanupCommit, CleanupFails
    <2> QED BY <1>5, <2>1, <2>2
  <1>6. ASSUME NEW w \in Worker,
               \/ Reload(w) \/ FailAfterRollback(w) \/ ConvergeCancelled(w)
               \/ \E t \in TaskId : Deliver(w, t)
        PROVE  used' = used
    BY <1>6 DEF Reload, FailAfterRollback, ConvergeCancelled, Deliver
  <1>4. ASSUME \/ \E t \in TaskId : Lose(t) \/ Redispatch(t)
               \/ Delete \/ Expire \/ ScanExpired \/ RefreshScan \/ RecoverLease
               \/ ScanOrphans \/ \E a \in scan.orphans : RecoverOrphan(a)
               \/ UNCHANGED vars
        PROVE  Goal
    BY <1>4
    DEF Lose, Redispatch, Delete, Expire, ScanExpired, RefreshScan, RecoverLease,
        ScanOrphans, RecoverOrphan, Fault, Resource, vars
  <1> QED BY <1>1, <1>2, <1>3, <1>4, <1>5, <1>6 DEF Next, WorkerStep

\* What was spent stays spent.
LEMMA UsedStep ==
    ASSUME UsedOK, [Next]_vars
    PROVE  UsedOK' /\ used'.expirations >= used.expirations
  <1>1. CASE used' = used
    BY <1>1 DEF UsedOK, Resource
  <1>2. ASSUME NEW b \in Resource, NEW max, Spend(b, max)
        PROVE  UsedOK' /\ used'.expirations >= used.expirations
    BY <1>2 DEF UsedOK, Resource, Spend
  <1>3. CASE Stray
    <2>1. used' = [used EXCEPT !.faults = used.faults + 1, !.strays = used.strays + 1]
      BY <1>3 DEF Stray
    <2>2. /\ "faults" \in Resource /\ "strays" \in Resource /\ "expirations" \in Resource
          /\ used.faults + 1 \in Nat /\ used.strays + 1 \in Nat
      BY DEF UsedOK, Resource
    <2>3. used' \in [Resource -> Nat]
      BY <2>1, <2>2 DEF UsedOK
    <2>4. used'.expirations = used.expirations /\ used.expirations \in Nat
      BY <2>1, <2>2 DEF UsedOK
    <2> QED BY <2>3, <2>4 DEF UsedOK
  <1> QED BY <1>1, <1>2, <1>3, SpendsOnce

\* The recoveries do not start a delete cycle.
LEMMA RecoveryCycle ==
    ASSUME Inv, RecoverLease \/ \E a \in scan.orphans : RecoverOrphan(a)
    PROVE  doc'.cycle = doc.cycle
  <1>1. doc \in Doc
    BY DEF Inv, DocOK
  <1>2. ASSUME NEW t, RecoverTask(t) \/ RecoverCleanup(t)
        PROVE  doc'.cycle = doc.cycle
    <2>1. CASE doc' = [doc EXCEPT !.status = "queued", !.error = 0]
      BY <1>1, <2>1 DEF Doc
    <2>2. CASE doc' = [doc EXCEPT !.status = "failed", !.error = 20014]
      BY <1>1, <2>2 DEF Doc
    <2>3. CASE doc' = [doc EXCEPT !.status = "failed", !.type = "delete_cleanup",
                                  !.error = 20015]
      BY <1>1, <2>3 DEF Doc
    <2> QED BY <1>2, <2>1, <2>2, <2>3 DEF RecoverTask, RecoverCleanup
  <1>3. ASSUME doc' = doc \/ doc' = [doc EXCEPT !.type = "delete_cleanup"]
        PROVE  doc'.cycle = doc.cycle
    BY <1>1, <1>3 DEF Doc
  <1>4. \/ doc' = doc \/ doc' = [doc EXCEPT !.type = "delete_cleanup"]
        \/ \E t : RecoverTask(t) \/ RecoverCleanup(t)
    BY DEF RecoverLease, RecoverOrphan
  <1> QED BY <1>2, <1>3, <1>4

\* Delete cycles are never taken back.
LEMMA CycleStep ==
    ASSUME Inv, ProgressInv, [Next]_vars
    PROVE  doc'.cycle >= doc.cycle
  <1>1. doc.cycle \in Nat /\ doc \in Doc
    BY Bounds DEF Inv, DocOK, Doc
  <1>2. ASSUME NEW w \in Worker,
               \/ ParseDeliver(w) \/ WorkerStep(w) \/ Crash(w)
               \/ \E t \in TaskId : Deliver(w, t)
        PROVE  doc'.cycle = doc.cycle
    BY <1>2, WorkerProgress DEF DeletionKept
  <1>3. CASE Delete
    BY <1>1, <1>3 DEF Delete
  <1>6. CASE RecoverLease \/ \E a \in scan.orphans : RecoverOrphan(a)
    <2>1. doc'.cycle = doc.cycle
      BY <1>6, RecoveryCycle
    <2> QED BY <1>1, <2>1
  <1>7. CASE \/ Expire \/ ScanExpired \/ RefreshScan \/ ScanOrphans
             \/ \E t \in TaskId : Lose(t) \/ Redispatch(t)
             \/ \E w \in Worker : Redeliver(w)
             \/ UNCHANGED vars
    <2>1. doc' = doc
      BY <1>7
      DEF Expire, ScanExpired, RefreshScan, ScanOrphans, Lose, Redispatch, Redeliver,
          dbVars, vars
    <2> QED BY <1>1, <2>1
  <1> QED BY <1>1, <1>2, <1>3, <1>6, <1>7 DEF Next

\* Once disturbed, a document stays so.
(***************************************************************************)
(* Attempts are paid for                                                   *)
(*                                                                         *)
(* Every requeue of a task raises its retry counter, from the row or from  *)
(* a value that a lock protects, with two exceptions that have to be       *)
(* named: the embed worker that finds no drafts uses the counter it has    *)
(* cached, and so does the cleanup that fails.  The first needs a DELETE   *)
(* that has removed the drafts, the second an I/O error.                   *)
(***************************************************************************)
\* The tasks that leases, the scanner and the workers name exist.
Named(t) == t \in TaskId => task[t].status # "absent"
Known ==
    /\ Named(Parse) /\ Named(lease.task) /\ Named(scan.lease.task)
    /\ \A w \in Worker : Named(worker[w].task)

\* A cleanup exists from its delete cycle on.
Future ==
    \A t \in Cleanups : \A c \in 1..MaxDeletes :
        t = Cleanup(c) /\ c > doc.cycle => task[t].status = "absent"

\* The drafts are there before the stage that reads them, until a DELETE.
DraftsStay == doc.cycle = 0 /\ task[Embed].status # "absent" => Draft \in rows

Failing(w) == worker[w].task \in Cleanups /\ worker[w].pc \in {"fail", "failing"}
FaultFree == used.faults = 0 => \A w \in Worker : ~Failing(w)

\* What the retry counter of a task has paid for.
Paid(t) ==
    /\ Len(attempts[t]) <= task[t].retry + 1
    /\ task[t].status \in {"queued", "pending"} => Len(attempts[t]) <= task[t].retry
PaidFor ==
    \A t \in TaskId : /\ task[t].status = "absent" => Len(attempts[t]) = 0
                      /\ Counted(t) => Paid(t)

CountInv == Known /\ Future /\ DraftsStay /\ FaultFree /\ PaidFor

\* How a step may change a task and the number of its attempts.
Charged(t) ==
    \/ task'[t] = task[t] /\ Len(attempts'[t]) = Len(attempts[t])
    \/ /\ Len(attempts'[t]) = Len(attempts[t])
       /\ task[t].status # "absent"
       /\ \/ task'[t].status \in {"succeeded", "failed", "cancelled"} /\ task'[t].retry = task[t].retry
          \/ task'[t].status = "queued" /\ task'[t].retry = task[t].retry + 1
          \/ /\ task[t].status = "pending" /\ task'[t].status = "queued"
             /\ task'[t].retry = task[t].retry
          \/ task'[t].status # "absent" /\ ~Counted(t)'
    \/ /\ Len(attempts'[t]) = Len(attempts[t])
       /\ task[t].status = "absent" /\ task'[t].status \in {"queued", "pending"}
    \/ /\ task[t].status = "queued" /\ task'[t].status = "running" /\ task'[t].retry = task[t].retry
       /\ Len(attempts'[t]) = Len(attempts[t]) + 1

\* What was spent on faults stays spent.
LEMMA FaultsStep ==
    ASSUME UsedOK, [Next]_vars
    PROVE  used'.faults >= used.faults
  <1>1. CASE used' = used
    BY <1>1 DEF UsedOK, Resource
  <1>2. ASSUME NEW b \in Resource, NEW max, Spend(b, max)
        PROVE  used'.faults >= used.faults
    BY <1>2 DEF UsedOK, Resource, Spend
  <1>3. CASE Stray
    BY <1>3 DEF UsedOK, Resource, Stray
  <1> QED BY <1>1, <1>2, <1>3, SpendsOnce

\* Once it is not counted, a task stays so.
Onward == doc'.cycle >= doc.cycle /\ used'.faults >= used.faults /\ UsedOK /\ UsedOK'
LEMMA CountedBefore ==
    ASSUME Inv, Inv', Onward, NEW t, Counted(t)'
    PROVE  Counted(t)
  <1>1. doc.cycle \in Nat /\ doc'.cycle \in Nat /\ used.faults \in Nat /\ used'.faults \in Nat
    BY Bounds DEF Inv, DocOK, Doc, UsedOK, Onward, Resource
  <1> QED BY <1>1 DEF Counted, Onward

\* A task that is charged for what it does stays paid for.
LEMMA PaidKept ==
    ASSUME Inv, Inv', Onward, PaidFor, \A t \in TaskId : Charged(t)
    PROVE  PaidFor'
  <1> SUFFICES ASSUME NEW t \in TaskId
               PROVE  /\ task'[t].status = "absent" => Len(attempts'[t]) = 0
                      /\ Counted(t)' => Paid(t)'
    BY DEF PaidFor
  <1>1. /\ task[t].retry \in Nat /\ task'[t].retry \in Nat
        /\ Len(attempts[t]) \in Nat /\ Len(attempts'[t]) \in Nat
    BY Bounds DEF Inv, TasksOK, TaskRow
  <1>2. Charged(t) /\ (Counted(t)' => Counted(t))
    BY CountedBefore
  <1>3. /\ task[t].status = "absent" => Len(attempts[t]) = 0
        /\ Counted(t) => Paid(t)
    BY DEF PaidFor
  <1>4. task'[t].status = "absent" => Len(attempts'[t]) = 0
    BY <1>2, <1>3 DEF Charged
  <1>5. ASSUME Counted(t)' PROVE Paid(t)'
    <2>1. Paid(t)
      BY <1>2, <1>3, <1>5
    <2> QED BY <1>1, <1>2, <1>3, <1>5, <2>1 DEF Charged, Paid
  <1> QED BY <1>4, <1>5

\* No task that exists ceases to.
LEMMA NamedStays ==
    ASSUME \A t \in TaskId : Charged(t), NEW t, Named(t)
    PROVE  Named(t)'
  BY DEF Named, Charged

\* A step that makes no cleanup, and keeps or writes the drafts.
Uncreated == \A t \in Cleanups : task[t].status = "absent" => task'[t].status = "absent"
DraftsKept ==
    /\ doc.cycle = 0 => rows \subseteq rows'
    /\ task[Embed].status = "absent" /\ task'[Embed].status # "absent" => Draft \in rows'

\* Leases and listings name what was named, or what exists now.
NamesKept ==
    /\ lease'.task \in {lease.task, NoTask} \/ Named(lease.task)'
    /\ scan'.lease.task \in {scan.lease.task, lease.task, NoTask}
WorkerNames(w) ==
    /\ \A v \in Worker \ {w} : worker'[v] = worker[v]
    /\ worker'[w].task \in {worker[w].task, NoTask, Parse} \/ Named(worker[w].task)'
    /\ Failing(w)' => Failing(w) \/ used'.faults > 0

\* Such a step keeps the invariant.
LEMMA CountKept ==
    ASSUME Inv, Inv', Onward, CountInv, doc'.cycle = doc.cycle,
           \A t \in TaskId : Charged(t), Uncreated, DraftsKept, NamesKept,
           UNCHANGED worker \/ \E w \in Worker : WorkerNames(w)
    PROVE  CountInv'
  <1>1. PaidFor'
    BY PaidKept DEF CountInv
  <1>2. Future'
    BY StagesApart DEF CountInv, Future, Uncreated
  <1>3. DraftsStay'
    BY DEF CountInv, DraftsStay, DraftsKept
  <1>4. FaultFree'
    <2> SUFFICES ASSUME used'.faults = 0, NEW v \in Worker, Failing(v)' PROVE FALSE
      BY DEF FaultFree
    <2>1. used.faults = 0 /\ ~Failing(v)
      BY DEF Onward, UsedOK, Resource, CountInv, FaultFree
    <2>2. worker'[v] # worker[v]
      BY <2>1 DEF Failing
    <2>3. WorkerNames(v)
      BY <2>2 DEF WorkerNames
    <2> QED BY <2>1, <2>3 DEF WorkerNames
  <1>5. Known'
    <2>1. \A t : Named(t) => Named(t)'
      BY NamedStays
    <2>2. Named(NoTask)' /\ Named(Parse)' /\ Named(lease.task) /\ Named(scan.lease.task)
      BY <2>1, TaskNames DEF CountInv, Known, Named
    <2>3. \A t : t \in {lease.task, scan.lease.task, NoTask, Parse} => Named(t)'
      BY <2>1, <2>2
    <2>4. Named(lease.task)'
      <3>1. ASSUME lease'.task \in {lease.task, NoTask} PROVE Named(lease.task)'
        <4>1. PICK t : t = lease'.task
          OBVIOUS
        <4>2. Named(t)'
          BY <2>3, <3>1, <4>1
        <4> QED BY <4>1, <4>2 DEF Named
      <3> QED BY <3>1 DEF NamesKept
    <2>5. Named(scan.lease.task)'
      <3>1. PICK t : t = scan'.lease.task
        OBVIOUS
      <3>2. Named(t)'
        BY <2>3, <3>1 DEF NamesKept
      <3> QED BY <3>1, <3>2 DEF Named
    <2>6. ASSUME NEW v \in Worker PROVE Named(worker[v].task)'
      <3>1. ASSUME worker'[v].task \in {worker[v].task, NoTask, Parse} PROVE Named(worker[v].task)'
        <4>1. PICK t : t = worker'[v].task
          OBVIOUS
        <4>2. Named(worker[v].task)
          BY DEF CountInv, Known
        <4>3. Named(t)'
          BY <2>1, <2>3, <3>1, <4>1, <4>2
        <4> QED BY <4>1, <4>3 DEF Named
      <3> QED BY <3>1 DEF WorkerNames
    <2> QED BY <2>2, <2>4, <2>5, <2>6 DEF Known
  <1> QED BY <1>1, <1>2, <1>3, <1>4, <1>5 DEF CountInv

\* What becomes of a worker that returns, goes on, fails or is fenced.
LEMMA NoTaskNamed == NoTask \notin Cleanups /\ Idle.task = NoTask /\ Idle.pc = "idle"
  BY TaskNames, StagesApart DEF Idle

LEMMA MovesNamed ==
    ASSUME Inv, NEW w \in Worker,
           \/ Return(w)
           \/ \E pc \in Pc \ {"fail", "failing"} : Goto(w, pc)
           \/ ToCancel(w)
           \/ worker[w].task \in Stages /\ \E code : ToFail(w, code)
    PROVE  WorkerNames(w)
  <1>1. worker[w] \in Process /\ worker \in [Worker -> Process]
    BY DEF Inv, WorkersOK
  <1>2. CASE Return(w)
    BY <1>1, <1>2, NoTaskNamed DEF Return, WorkerNames, Failing
  <1>3. CASE \E pc \in Pc \ {"fail", "failing"} : Goto(w, pc)
    BY <1>1, <1>3 DEF Goto, WorkerNames, Failing, Process
  <1>4. CASE ToCancel(w)
    BY <1>1, <1>4 DEF ToCancel, WorkerNames, Failing, Process
  <1>5. CASE worker[w].task \in Stages /\ \E code : ToFail(w, code)
    <2>1. /\ \A v \in Worker \ {w} : worker'[v] = worker[v]
          /\ worker'[w].task = worker[w].task
      <3>1. PICK code : ToFail(w, code)
        BY <1>5
      <3>2. worker'[w] = [[[worker[w] EXCEPT !.pc = "fail"] EXCEPT !.code = code] EXCEPT !.seen = NoDoc]
        BY <1>1, <3>1 DEF ToFail
      <3> QED BY <1>1, <3>1, <3>2 DEF ToFail, Process
    <2>2. worker[w].task \notin Cleanups
      BY <1>5, StagesApart
    <2> QED BY <2>1, <2>2 DEF WorkerNames, Failing
  <1> QED BY <1>2, <1>3, <1>4, <1>5

\* A worker step that writes no task and no attempt.
Unwritten == /\ UNCHANGED <<task, attempts, scan>>
             /\ rows \subseteq rows'
             /\ lease'.task \in {lease.task, NoTask} \/ Named(lease.task)'
LEMMA UnwrittenKept ==
    ASSUME Inv, Inv', Onward, CountInv, doc'.cycle = doc.cycle, Unwritten,
           NEW w \in Worker, WorkerNames(w)
    PROVE  CountInv'
  <1>1. \A t \in TaskId : Charged(t)
    BY DEF Unwritten, Charged
  <1>2. Uncreated /\ DraftsKept /\ NamesKept
    BY DEF Unwritten, Uncreated, DraftsKept, NamesKept
  <1> QED BY <1>1, <1>2, CountKept

\* parse, but for the begin and the end of its attempt.
LEMMA ParseUnwritten ==
    ASSUME Inv, CountInv, NEW w \in Worker,
           \/ ParseDeliver(w) \/ ParseFindOpen(w) \/ ParseAcquire(w) \/ ParseDenied(w)
           \/ ParseBreaks(w) \/ ParseStore(w) \/ ParseStoreFails(w)
           \/ ParseFenced(w) \/ ParseSaveFails(w)
    PROVE  Unwritten /\ WorkerNames(w)
  <1>1. /\ worker[w] \in Process /\ worker \in [Worker -> Process]
        /\ worker[w].task \in TaskId \cup {NoTask} /\ lease \in LeaseRow
    BY DEF Inv, WorkersOK, Process, LeaseOK
  <1>2. CASE ParseDeliver(w)
    <2>1. Unwritten
      BY <1>2 DEF ParseDeliver, Unwritten, dbVars
    <2>2. WorkerNames(w)
      BY <1>1, <1>2, TaskNames, StagesApart DEF ParseDeliver, WorkerNames, Failing, Process, Parse
    <2> QED BY <2>1, <2>2
  <1>3. CASE ParseAcquire(w)
    <2>1. lease'.task = Parse /\ UNCHANGED <<task, attempts, scan, rows>>
      BY <1>3 DEF ParseAcquire, Parse
    <2>2. Unwritten
      BY <2>1 DEF Unwritten, CountInv, Known, Named
    <2>3. WorkerNames(w)
      BY <1>1, <1>3 DEF ParseAcquire, WorkerNames, Failing, Process
    <2> QED BY <2>2, <2>3
  <1>4. CASE ParseFindOpen(w) \/ ParseDenied(w) \/ ParseStore(w)
    <2>1. Unwritten
      BY <1>4 DEF ParseFindOpen, ParseDenied, ParseStore, Unwritten, dbVars
    <2>2. Return(w) \/ \E pc \in Pc \ {"fail", "failing"} : Goto(w, pc)
      BY <1>4 DEF ParseFindOpen, ParseDenied, ParseStore, Pc
    <2> QED BY <2>1, <2>2, MovesNamed
  <1>5. CASE ParseBreaks(w) \/ ParseStoreFails(w) \/ ParseFenced(w) \/ ParseSaveFails(w)
    <2>1. Unwritten
      BY <1>5 DEF ParseBreaks, ParseStoreFails, ParseFenced, ParseSaveFails, Unwritten, dbVars
    <2>2. ToCancel(w) \/ \E code : ToFail(w, code)
      BY <1>5 DEF ParseBreaks, ParseStoreFails, ParseFenced, ParseSaveFails
    <2>3. worker[w].task \in Stages
      BY <1>1, <1>5, TaskTypes, TaskNames
      DEF ParseBreaks, ParseStoreFails, ParseFenced, ParseSaveFails, At
    <2> QED BY <2>1, <2>2, <2>3, MovesNamed
  <1> QED BY <1>2, <1>3, <1>4, <1>5

\* chunk, embed and finalize, but for the end of their attempts.
LEMMA StagesUnwritten ==
    ASSUME Inv, CountInv, NEW w \in Worker,
           \/ ChunkLoad(w) \/ ChunkFenced(w)
           \/ EmbedLoad(w) \/ EmbedHeartbeat(w) \/ EmbedCall(w) \/ EmbedSave(w) \/ EmbedAborted(w)
           \/ FinalizeFenced(w) \/ StageBreaks(w)
    PROVE  Unwritten /\ WorkerNames(w)
  <1>1. worker[w].task \in Stages
    BY StageAt
  <1>2. CASE ChunkLoad(w) \/ ChunkFenced(w) \/ FinalizeFenced(w) \/ StageBreaks(w)
    <2>1. Unwritten
      BY <1>2 DEF ChunkLoad, ChunkFenced, FinalizeFenced, StageBreaks, Unwritten, dbVars
    <2>2. ToCancel(w) \/ (\E code : ToFail(w, code)) \/ Goto(w, "save")
      BY <1>2 DEF ChunkLoad, ChunkFenced, FinalizeFenced, StageBreaks
    <2> QED BY <1>1, <2>1, <2>2, MovesNamed DEF Pc
  <1>3. CASE EmbedLoad(w) \/ EmbedCall(w) \/ EmbedSave(w) \/ EmbedAborted(w)
    <2>1. Unwritten
      BY <1>3 DEF EmbedLoad, EmbedCall, EmbedSave, EmbedAborted, Unwritten, dbVars
    <2>2. \/ Return(w) \/ ToCancel(w) \/ (\E code : ToFail(w, code))
          \/ Goto(w, "save") \/ Goto(w, "beat") \/ Goto(w, "complete")
      BY <1>3 DEF EmbedLoad, EmbedCall, EmbedSave, EmbedAborted
    <2> QED BY <1>1, <2>1, <2>2, MovesNamed DEF Pc
  <1>4. CASE EmbedHeartbeat(w)
    <2>1. worker[w].task = Embed
      BY <1>4, AtStage DEF EmbedHeartbeat
    <2>2. lease'.task \in {lease.task, Embed}
      BY <1>4 DEF EmbedHeartbeat, Inv, LeaseOK, LeaseRow, Embed
    <2>3. UNCHANGED <<task, attempts, scan, rows>>
      BY <1>4 DEF EmbedHeartbeat
    <2>4. Unwritten
      BY <2>1, <2>2, <2>3 DEF Unwritten, CountInv, Known, Named
    <2>5. ToCancel(w) \/ Goto(w, "call")
      BY <1>4 DEF EmbedHeartbeat
    <2> QED BY <2>4, <2>5, MovesNamed DEF Pc
  <1> QED BY <1>2, <1>3, <1>4

\* Errors, deaths, and the cleanup but for the end of its attempt.
LEMMA ErrorsUnwritten ==
    ASSUME Inv, CountInv, UsedOK, NEW w \in Worker,
           \/ Reload(w) \/ HandlerDies(w) \/ Crash(w) \/ Redeliver(w)
           \/ CleanupPurge(w) \/ CleanupBreaks(w)
    PROVE  Unwritten /\ WorkerNames(w)
  <1>1. worker[w] \in Process /\ worker \in [Worker -> Process]
    BY DEF Inv, WorkersOK
  <1>2. Unwritten
    BY DEF Reload, HandlerDies, Crash, Redeliver, CleanupPurge, CleanupBreaks, Unwritten, dbVars
  <1> SUFFICES WorkerNames(w)
    BY <1>2
  <1>3. CASE Reload(w)
    <2>1. CASE Return(w)
      BY <2>1, MovesNamed
    <2>2. CASE worker' = [worker EXCEPT ![w].pc = IF @ = "fail" THEN "failing" ELSE "cancelling",
                                        ![w].retry = task[worker[w].task].retry]
      BY <1>1, <2>2 DEF WorkerNames, Failing, Process
    <2> QED BY <1>3, <2>1, <2>2 DEF Reload
  <1>4. CASE HandlerDies(w) \/ Crash(w)
    BY <1>4, MovesNamed DEF HandlerDies, Crash
  <1>5. CASE Redeliver(w)
    BY <1>5 DEF Redeliver, WorkerNames, Failing
  <1>6. CASE CleanupPurge(w)
    BY <1>1, <1>6 DEF CleanupPurge, WorkerNames, Failing, Process
  <1>7. CASE CleanupBreaks(w)
    <2>1. used'.faults > 0
      BY <1>7 DEF CleanupBreaks, Fault, Spend, UsedOK, Resource
    <2> QED BY <1>1, <1>7, <2>1 DEF CleanupBreaks, WorkerNames, Process
  <1> QED BY <1>3, <1>4, <1>5, <1>6, <1>7

\* Closing an attempt leaves the number of attempts.
LEMMA CloseCounts ==
    ASSUME Inv, Inv', NEW t \in TaskId, NEW n, NEW x,
           attempts' = [attempts EXCEPT ![t][n] = x]
    PROVE  \A s \in TaskId : Len(attempts'[s]) = Len(attempts[s])
  <1> SUFFICES ASSUME NEW s \in TaskId PROVE Len(attempts'[s]) = Len(attempts[s])
    OBVIOUS
  <1>1. /\ attempts \in [TaskId -> Seq(AttemptStatus)]
        /\ attempts[s] \in Seq(AttemptStatus) /\ attempts'[s] \in Seq(AttemptStatus)
    BY DEF Inv, TasksOK
  <1>2. DOMAIN attempts'[s] = DOMAIN attempts[s]
    BY <1>1
  <1>3. /\ DOMAIN attempts[s] = 1..Len(attempts[s]) /\ Len(attempts[s]) \in Nat
        /\ DOMAIN attempts'[s] = 1..Len(attempts'[s]) /\ Len(attempts'[s]) \in Nat
    BY <1>1
  <1> QED BY <1>2, <1>3

\* A worker ends its attempt, and changes nothing but its own task.
Ends(t) ==
    /\ t \in TaskId
    /\ \A s \in TaskId : Len(attempts'[s]) = Len(attempts[s])
    /\ \A s \in TaskId \ {t} : task'[s] = task[s]
    /\ task[t].status # "absent" => Charged(t)
    /\ doc.cycle = 0 => rows \subseteq rows'
    /\ lease'.task \in {lease.task, NoTask} /\ UNCHANGED scan
LEMMA EndsKept ==
    ASSUME Inv, Inv', Onward, CountInv, doc'.cycle = doc.cycle,
           NEW w \in Worker, NEW t, worker[w].task = t, Ends(t), WorkerNames(w)
    PROVE  CountInv'
  <1>1. t \in TaskId /\ task[t].status # "absent" /\ Charged(t)
    BY DEF Ends, CountInv, Known, Named
  <1>2. \A s \in TaskId : Charged(s)
    BY <1>1 DEF Ends, Charged
  <1>3. Uncreated /\ DraftsKept /\ NamesKept
    BY <1>1, StagesApart, TaskNames DEF Ends, Uncreated, DraftsKept, NamesKept
  <1> QED BY <1>2, <1>3, CountKept

\* A terminal failure.
LEMMA FailForEnds ==
    ASSUME Inv, Inv', NEW w \in Worker, NEW t \in TaskId, worker[w].task = t, NEW loaded, NEW code,
           FailFor(w, loaded, code), UNCHANGED <<rows, scan>>
    PROVE  Ends(t) /\ WorkerNames(w)
  <1>1. \A s \in TaskId : Len(attempts'[s]) = Len(attempts[s])
    BY CloseCounts DEF FailFor
  <1>2. task \in [TaskId -> TaskRow] /\ lease \in LeaseRow
    BY DEF Inv, TasksOK, LeaseOK
  <1>3. /\ \A s \in TaskId \ {t} : task'[s] = task[s]
        /\ task'[t].status = "failed" /\ task'[t].retry = task[t].retry
    BY <1>2 DEF FailFor, TaskRow
  <1>4. lease'.task = NoTask
    BY <1>2 DEF FailFor, Released, LeaseRow
  <1>5. WorkerNames(w)
    BY MovesNamed DEF FailFor
  <1> QED BY <1>1, <1>3, <1>4, <1>5 DEF Ends, Charged

\* A retry charges the counter it was given, which is the one of the row.
LEMMA RetryEnds ==
    ASSUME Inv, Inv', NEW w \in Worker, NEW t \in TaskId, worker[w].task = t, NEW loaded, NEW retry,
           retry = task[t].retry \/ ~Counted(t)',
           Retry(w, loaded, retry), UNCHANGED <<rows, scan>>
    PROVE  Ends(t) /\ WorkerNames(w)
  <1>1. \A s \in TaskId : Len(attempts'[s]) = Len(attempts[s])
    BY CloseCounts DEF Retry
  <1>2. task \in [TaskId -> TaskRow]
    BY DEF Inv, TasksOK
  <1>3. /\ \A s \in TaskId \ {t} : task'[s] = task[s]
        /\ task'[t].status = "queued" /\ task'[t].retry = retry + 1
    BY <1>2 DEF Retry, Requeued
  <1>4. WorkerNames(w) /\ lease' = lease
    BY MovesNamed DEF Retry
  <1> QED BY <1>1, <1>3, <1>4 DEF Ends, Charged

\* complete_stage creates the next stage, or finds it.
LEMMA AdvanceCounts ==
    ASSUME Inv, Inv', Onward, CountInv, doc'.cycle = doc.cycle,
           NEW w \in Worker, NEW t \in {Parse, ChunkStage, Embed}, worker[w].task = t,
           NEW loaded, Advance(w, loaded), UNCHANGED scan,
           rows \subseteq rows', t = ChunkStage => Draft \in rows'
    PROVE  CountInv'
  <1>1. PICK n \in TaskId : n = NextStage(t) /\ n # t /\ (n = Embed => t = ChunkStage) /\ n \notin Cleanups
    BY TaskNames, StagesApart
  <1>2. /\ task \in [TaskId -> TaskRow] /\ lease \in LeaseRow /\ t \in TaskId /\ t \notin Cleanups
        /\ task[t].status # "absent"
    BY TaskNames, StagesApart DEF Inv, TasksOK, LeaseOK, CountInv, Known, Named
  <1>3. \A s \in TaskId : Len(attempts'[s]) = Len(attempts[s])
    BY <1>2, CloseCounts DEF Advance
  <1>4. /\ \A s \in TaskId \ {t, n} : task'[s] = task[s]
        /\ task'[t].status = "succeeded" /\ task'[t].retry = task[t].retry
        /\ task'[n] = IF task[n].status = "absent" THEN [status |-> "queued", retry |-> 0] ELSE task[n]
    BY <1>1, <1>2 DEF Advance, TaskRow
  <1>5. task'[n].status # "absent" /\ (task[n].status = "absent" => task'[n].status = "queued")
    BY <1>4
  <1>6. \A s \in TaskId : Charged(s)
    BY <1>2, <1>3, <1>4, <1>5 DEF Charged
  <1>7. Uncreated /\ DraftsKept
    BY <1>1, <1>2, <1>4, <1>5, StagesApart, TaskNames DEF Uncreated, DraftsKept
  <1>8. lease'.task = n
    BY <1>1, <1>2 DEF Advance, LeaseRow
  <1>9. NamesKept
    BY <1>5, <1>8 DEF NamesKept, Named
  <1>10. WorkerNames(w)
    BY MovesNamed DEF Advance
  <1> QED BY <1>6, <1>7, <1>9, <1>10, CountKept

\* begin_attempt needs a task that is queued, and pays with the retry before.
LEMMA BeginCounts ==
    ASSUME Inv, Inv', Onward, CountInv, doc'.cycle = doc.cycle,
           NEW w \in Worker, NEW t \in TaskId, BeginAttempt(w, t),
           UNCHANGED <<lease, scan, rows>>
    PROVE  CountInv'
  <1>1. /\ task \in [TaskId -> TaskRow] /\ worker[w] \in Process /\ worker \in [Worker -> Process]
        /\ attempts \in [TaskId -> Seq(AttemptStatus)]
    BY DEF Inv, TasksOK, WorkersOK
  <1>2. /\ task[t].status = "queued" /\ task'[t].status = "running" /\ task'[t].retry = task[t].retry
        /\ \A s \in TaskId \ {t} : task'[s] = task[s]
    BY <1>1 DEF BeginAttempt, Runnable, TaskRow
  <1>3. /\ \A s \in TaskId \ {t} : attempts'[s] = attempts[s]
        /\ attempts'[t] = Append(attempts[t], "running")
    BY <1>1 DEF BeginAttempt
  <1>4. Len(attempts'[t]) = Len(attempts[t]) + 1
    BY <1>1, <1>3
  <1>5. \A s \in TaskId : Charged(s)
    BY <1>2, <1>3, <1>4 DEF Charged
  <1>6. Uncreated /\ DraftsKept /\ NamesKept
    BY <1>2, StagesApart, TaskNames DEF Uncreated, DraftsKept, NamesKept
  <1>7. /\ \A v \in Worker \ {w} : worker'[v] = worker[v]
        /\ worker'[w].task = t /\ worker'[w].pc = "work"
    BY <1>1 DEF BeginAttempt, Process
  <1>8. WorkerNames(w)
    BY <1>2, <1>7 DEF WorkerNames, Named, Failing
  <1> QED BY <1>5, <1>6, <1>8, CountKept

\* A cleanup that exists belongs to a delete cycle.
LEMMA CleanupHasCycle ==
    ASSUME Inv, CountInv, NEW t \in Cleanups, Named(t)
    PROVE  doc.cycle # 0
  <1>1. PICK c \in 1..MaxDeletes : t = Cleanup(c)
    BY DEF Cleanups
  <1>2. t \in TaskId
    BY StagesApart
  <1> QED BY <1>1, <1>2, Bounds DEF CountInv, Future, Named

\* The steps that end an attempt.
LEMMA StageEnds ==
    ASSUME Inv, Inv', Onward, CountInv, doc'.cycle = doc.cycle, NEW w \in Worker,
           \/ ParseRejected(w) \/ ParseSave(w) \/ ChunkSave(w)
           \/ EmbedNoDrafts(w) \/ EmbedComplete(w)
           \/ FinalizePublish(w) \/ FinalizeMismatch(w)
    PROVE  CountInv'
  <1>1. PICK t \in TaskId \cup {NoTask} : worker[w].task = t
    BY DEF Inv, WorkersOK, Process
  <1>2. /\ task \in [TaskId -> TaskRow] /\ lease \in LeaseRow
    BY DEF Inv, TasksOK, LeaseOK
  <1>3. CASE ParseRejected(w)
    <2>1. t = Parse
      BY <1>1, <1>3, TaskTypes DEF ParseRejected, At
    <2>2. Ends(t) /\ WorkerNames(w)
      BY <1>1, <1>3, <2>1, TaskNames, FailForEnds DEF ParseRejected
    <2> QED BY <1>1, <2>2, EndsKept
  <1>4. CASE ParseSave(w)
    <2>1. t = Parse
      BY <1>1, <1>4, TaskTypes DEF ParseSave, At
    <2>2. UNCHANGED scan /\ rows \subseteq rows' /\ Advance(w, worker[w].seen)
      BY <1>4 DEF ParseSave
    <2> QED BY <1>1, <2>1, <2>2, TaskNames, AdvanceCounts
  <1>5. CASE ChunkSave(w)
    <2>1. t = ChunkStage
      BY <1>1, <1>5, TaskTypes DEF ChunkSave, At
    <2>2. UNCHANGED scan /\ rows \subseteq rows' /\ Advance(w, doc) /\ Draft \in rows'
      BY <1>5 DEF ChunkSave
    <2> QED BY <1>1, <2>1, <2>2, TaskNames, AdvanceCounts
  <1>6. CASE EmbedNoDrafts(w)
    <2>1. t = Embed
      BY <1>1, <1>6, TaskTypes DEF EmbedNoDrafts, At
    <2>2. task[Embed].status # "absent"
      BY <1>1, <2>1, TaskNames DEF CountInv, Known, Named
    <2>3. doc'.cycle # 0
      BY <1>6, <2>2 DEF EmbedNoDrafts, CountInv, DraftsStay
    <2>4. ~Counted(t)'
      BY <2>1, <2>3 DEF Counted, Embed
    <2>5. UNCHANGED <<rows, scan>> /\ FailStage(w, doc, worker[w].retry, 0)
      BY <1>6 DEF EmbedNoDrafts
    <2>6. Ends(t) /\ WorkerNames(w)
      BY <1>1, <2>1, <2>4, <2>5, TaskNames, FailForEnds, RetryEnds DEF FailStage
    <2> QED BY <1>1, <2>6, EndsKept
  <1>7. CASE EmbedComplete(w)
    <2>1. t = Embed
      BY <1>1, <1>7, TaskTypes DEF EmbedComplete, At
    <2>2. UNCHANGED <<scan, rows>> /\ Advance(w, doc)
      BY <1>7 DEF EmbedComplete
    <2> QED BY <1>1, <2>1, <2>2, TaskNames, AdvanceCounts
  <1>8. CASE FinalizePublish(w)
    <2>1. t = Finalize /\ t \in TaskId
      BY <1>1, <1>8, TaskTypes, TaskNames DEF FinalizePublish, At
    <2>2. /\ attempts' = [attempts EXCEPT ![t][worker[w].att] = "succeeded"]
          /\ task' = [task EXCEPT ![t].status = "succeeded"]
          /\ lease' = Released(lease) /\ Return(w) /\ UNCHANGED <<rows, scan>>
      BY <1>8, <2>1 DEF FinalizePublish, Finalize
    <2>3. \A s \in TaskId : Len(attempts'[s]) = Len(attempts[s])
      BY <2>1, <2>2, CloseCounts
    <2>4. /\ \A s \in TaskId \ {t} : task'[s] = task[s]
          /\ task'[t].status = "succeeded" /\ task'[t].retry = task[t].retry
          /\ lease'.task = NoTask
      BY <1>2, <2>1, <2>2 DEF TaskRow, Released, LeaseRow
    <2>5. Ends(t)
      BY <2>1, <2>2, <2>3, <2>4 DEF Ends, Charged
    <2>6. WorkerNames(w)
      BY <2>2, MovesNamed
    <2> QED BY <1>1, <2>5, <2>6, EndsKept
  <1>9. CASE FinalizeMismatch(w)
    <2>1. t = Finalize /\ t \in TaskId
      BY <1>1, <1>9, TaskTypes, TaskNames DEF FinalizeMismatch, At
    <2>2. Ends(t) /\ WorkerNames(w)
      BY <1>1, <1>9, <2>1, FailForEnds DEF FinalizeMismatch
    <2> QED BY <1>1, <2>2, EndsKept
  <1> QED BY <1>3, <1>4, <1>5, <1>6, <1>7, <1>8, <1>9

\* fail_stage and converge_cancelled after a rollback.
LEMMA RollbackEnds ==
    ASSUME Inv, Inv', Onward, CountInv, doc'.cycle = doc.cycle, NEW w \in Worker,
           FailAfterRollback(w) \/ ConvergeCancelled(w)
    PROVE  CountInv'
  <1>1. worker[w].pc # "idle"
    BY DEF FailAfterRollback, ConvergeCancelled
  <1>2. PICK t \in TaskId : worker[w].task = t
    BY <1>1 DEF Inv, WorkersOK, ProcessOK
  <1>3. CASE FailAfterRollback(w)
    <2>1. UNCHANGED <<rows, scan>> /\ FailStage(w, doc, task[t].retry, worker[w].code)
      BY <1>2, <1>3 DEF FailAfterRollback
    <2>2. Ends(t) /\ WorkerNames(w)
      BY <1>2, <2>1, FailForEnds, RetryEnds DEF FailStage
    <2> QED BY <1>2, <2>2, EndsKept
  <1>4. CASE ConvergeCancelled(w)
    <2>1. /\ attempts' = [attempts EXCEPT ![t][worker[w].att] = "cancelled"]
          /\ task' = [task EXCEPT ![t].status = IF @ = "running" THEN "cancelled" ELSE @]
          /\ Return(w) /\ UNCHANGED <<lease, rows, scan>>
      BY <1>2, <1>4 DEF ConvergeCancelled
    <2>2. \A s \in TaskId : Len(attempts'[s]) = Len(attempts[s])
      BY <2>1, CloseCounts
    <2>3. task \in [TaskId -> TaskRow]
      BY DEF Inv, TasksOK
    <2>4. /\ \A s \in TaskId \ {t} : task'[s] = task[s]
          /\ task'[t] = task[t] \/ (task'[t].status = "cancelled" /\ task'[t].retry = task[t].retry)
      BY <2>1, <2>3 DEF TaskRow
    <2>5. Ends(t)
      BY <2>1, <2>2, <2>4 DEF Ends, Charged
    <2>6. WorkerNames(w)
      BY <2>1, MovesNamed
    <2> QED BY <1>2, <2>5, <2>6, EndsKept
  <1> QED BY <1>3, <1>4

\* The cleanup, which charges the retry it has cached only after a fault.
LEMMA CleanupEnds ==
    ASSUME Inv, Inv', Onward, CountInv, doc'.cycle = doc.cycle, NEW w \in Worker,
           CleanupLoad(w) \/ CleanupCommit(w) \/ CleanupFails(w)
    PROVE  CountInv'
  <1>1. PICK t \in TaskId : worker[w].task = t /\ t \in Cleanups
    BY CleanupAt
  <1>2. /\ task \in [TaskId -> TaskRow] /\ lease \in LeaseRow
        /\ worker[w] \in Process /\ worker \in [Worker -> Process]
    BY DEF Inv, TasksOK, LeaseOK, WorkersOK
  <1>3. doc.cycle # 0
    BY <1>1, CleanupHasCycle DEF CountInv, Known, Named
  <1>4. ASSUME attempts' = [attempts EXCEPT ![t][worker[w].att] = "succeeded"],
               task' = [task EXCEPT ![t].status = "succeeded"],
               lease' = lease \/ lease' = Released(lease), UNCHANGED scan, Return(w)
        PROVE  CountInv'
    <2>1. \A s \in TaskId : Len(attempts'[s]) = Len(attempts[s])
      BY <1>4, CloseCounts
    <2>2. /\ \A s \in TaskId \ {t} : task'[s] = task[s]
          /\ task'[t].status = "succeeded" /\ task'[t].retry = task[t].retry
          /\ lease'.task \in {lease.task, NoTask}
      BY <1>2, <1>4 DEF TaskRow, Released, LeaseRow
    <2>3. Ends(t)
      BY <1>3, <1>4, <2>1, <2>2 DEF Ends, Charged
    <2> QED BY <1>1, <1>4, <2>3, MovesNamed, EndsKept
  <1>5. CASE CleanupLoad(w)
    <2>1. CASE worker' = [worker EXCEPT ![w].pc = "purge", ![w].seen = doc]
      <3>1. WorkerNames(w)
        BY <1>2, <2>1 DEF WorkerNames, Failing, Process
      <3>2. CASE UNCHANGED <<attempts, task>>
        <4>1. Unwritten
          BY <1>5, <3>2 DEF CleanupLoad, Unwritten
        <4> QED BY <3>1, <4>1, UnwrittenKept
      <3>3. CASE Return(w)
        BY <1>1, <1>4, <1>5, <3>2, <3>3 DEF CleanupLoad
      <3> QED BY <1>1, <1>4, <1>5, <3>2 DEF CleanupLoad
    <2>2. CASE Return(w) /\ worker' # [worker EXCEPT ![w].pc = "purge", ![w].seen = doc]
      BY <1>1, <1>4, <1>5, <2>2 DEF CleanupLoad
    <2> QED BY <1>5, <2>1, <2>2 DEF CleanupLoad
  <1>6. CASE CleanupCommit(w)
    BY <1>1, <1>4, <1>6 DEF CleanupCommit
  <1>7. CASE CleanupFails(w)
    <2>1. Failing(w) /\ used' = used
      BY <1>1, <1>7 DEF CleanupFails, At, Failing
    <2>2. ~Counted(t)'
      BY <1>1, <2>1 DEF CountInv, FaultFree, Counted
    <2>3. \A s \in TaskId : Len(attempts'[s]) = Len(attempts[s])
      BY <1>1, <1>7, CloseCounts DEF CleanupFails
    <2>4. \/ task' = [task EXCEPT ![t] = Requeued(worker[w].retry)]
          \/ task' = [task EXCEPT ![t].status = "failed"]
      BY <1>1, <1>7 DEF CleanupFails
    <2>5. (\A s \in TaskId \ {t} : task'[s] = task[s]) /\ task'[t].status # "absent"
      BY <1>2, <2>4 DEF Requeued, TaskRow
    <2>6. UNCHANGED <<lease, rows, scan>> /\ Return(w)
      BY <1>7 DEF CleanupFails
    <2>7. Ends(t)
      BY <2>2, <2>3, <2>5, <2>6 DEF Ends, Charged
    <2> QED BY <1>1, <2>6, <2>7, MovesNamed, EndsKept
  <1> QED BY <1>5, <1>6, <1>7

\* The deliveries that begin an attempt, or find that there is nothing to do.
LEMMA DeliveryCounts ==
    ASSUME Inv, Inv', Onward, CountInv, doc'.cycle = doc.cycle, NEW w \in Worker,
           ParseBegin(w) \/ \E t \in TaskId : Deliver(w, t)
    PROVE  CountInv'
  <1>1. UNCHANGED <<lease, scan, rows>>
    BY DEF ParseBegin, Deliver
  <1>2. CASE \E t \in TaskId : BeginAttempt(w, t)
    BY <1>1, <1>2, BeginCounts
  <1>3. CASE UNCHANGED <<task, attempts>> /\ (Return(w) \/ UNCHANGED worker)
    <2>1. Unwritten
      BY <1>1, <1>3 DEF Unwritten
    <2>2. WorkerNames(w)
      BY <1>3, MovesNamed DEF WorkerNames, Failing
    <2> QED BY <2>1, <2>2, UnwrittenKept
  <1> QED BY <1>2, <1>3, TaskNames DEF ParseBegin, Deliver, Parse

\* Nobody but a worker, the scanner's recovery or a DELETE writes a task.
LEMMA OthersCount ==
    ASSUME Inv, Inv', Onward, CountInv,
           \/ Expire \/ ScanExpired \/ RefreshScan \/ ScanOrphans
           \/ \E t \in TaskId : Lose(t) \/ Redispatch(t)
           \/ UNCHANGED vars
    PROVE  CountInv'
  <1>1. /\ UNCHANGED <<doc, task, attempts, rows, worker>>
        /\ lease' = lease \/ lease' = [lease EXCEPT !.expired = TRUE]
    BY DEF Expire, ScanExpired, RefreshScan, ScanOrphans, Lose, Redispatch, dbVars, vars
  <1>2. \/ scan' = scan
        \/ \E i : scan' = [scan EXCEPT !.lease = [id |-> i, task |-> lease.task]]
        \/ scan' = [scan EXCEPT !.lease = NoScan.lease]
        \/ \E found : scan' = [scan EXCEPT !.orphans = found]
    BY DEF Expire, ScanExpired, RefreshScan, ScanOrphans, Lose, Redispatch, dbVars, vars
  <1>3. scan \in Listing /\ lease \in LeaseRow /\ NoScan.lease.task = NoTask
    BY DEF Inv, ScanOK, LeaseOK, NoScan
  <1>4. NamesKept
    BY <1>1, <1>2, <1>3 DEF NamesKept, Listing, LeaseRow
  <1>5. \A t \in TaskId : Charged(t)
    BY <1>1 DEF Charged
  <1>6. Uncreated /\ DraftsKept
    BY <1>1 DEF Uncreated, DraftsKept
  <1> QED BY <1>1, <1>4, <1>5, <1>6, CountKept

\* A recovery requeues or ends tasks that exist, and closes their attempts.
Recovers ==
    \A s \in TaskId :
        /\ Len(attempts'[s]) = Len(attempts[s])
        /\ task'[s] = task[s] \/ (task[s].status # "absent" /\ Charged(s))
LEMMA RecoveryKept ==
    ASSUME Inv, Inv', Onward, CountInv, doc'.cycle = doc.cycle, Recovers,
           UNCHANGED <<rows, worker>>,
           lease'.task \in {lease.task, NoTask}, scan'.lease.task \in {scan.lease.task, NoTask}
    PROVE  CountInv'
  <1>1. \A s \in TaskId : Charged(s)
    BY DEF Recovers, Charged
  <1>2. Uncreated /\ DraftsKept /\ NamesKept
    BY StagesApart, TaskNames DEF Recovers, Uncreated, DraftsKept, NamesKept
  <1> QED BY <1>1, <1>2, CountKept

\* Requeued from the counter in the row, or failed.
LEMMA RequeueRecovers ==
    ASSUME Inv, Inv', NEW t \in TaskId, Named(t),
           \A s \in TaskId : Len(attempts'[s]) = Len(attempts[s]),
           RecoverTask(t) \/ RecoverCleanup(t)
    PROVE  Recovers
  <1>1. task \in [TaskId -> TaskRow] /\ task[t].status # "absent"
    BY DEF Inv, TasksOK, Named
  <1>2. \/ task' = [task EXCEPT ![t] = Requeued(@.retry)]
        \/ task' = [task EXCEPT ![t].status = "failed"]
    BY DEF RecoverTask, RecoverCleanup
  <1>3. /\ \A s \in TaskId \ {t} : task'[s] = task[s]
        /\ \/ task'[t].status = "queued" /\ task'[t].retry = task[t].retry + 1
           \/ task'[t].status = "failed" /\ task'[t].retry = task[t].retry
    BY <1>1, <1>2 DEF Requeued, TaskRow
  <1> QED BY <1>1, <1>3 DEF Recovers, Charged

\* The cleanup of a deletion is queued in its place: it was pending, or queued.
LEMMA HandOverRecovers ==
    ASSUME Inv, Inv', ProgressInv, NEW a,
           \A s \in TaskId : Len(attempts'[s]) = Len(attempts[s]),
           doc.status = "deleting", CleanupQueueable,
           task' = QueueCleanup(Cancel(a, task))
    PROVE  Recovers
  <1>1. PICK c \in TaskId : c = Cleanup(doc.cycle)
    BY CleanupNames, Bounds DEF Inv, DocOK, Doc
  <1>2. task[c].status \in {"queued", "pending"}
    BY <1>1 DEF ProgressInv, DeletingProgress, CleanupQueueable
  <1>3. task \in [TaskId -> TaskRow] /\ Cancel(a, task) \in [TaskId -> TaskRow]
    BY CancelTask DEF Inv, TasksOK
  <1>4. \A s \in TaskId : /\ Cancel(a, task)[s].retry = task[s].retry
                          /\ \/ Cancel(a, task)[s] = task[s]
                             \/ task[s].status = "running" /\ Cancel(a, task)[s].status = "cancelled"
    BY <1>3 DEF Cancel, TaskRow
  <1>5. /\ \A s \in TaskId \ {c} : task'[s] = Cancel(a, task)[s]
        /\ task'[c].status = "queued" /\ task'[c].retry = task[c].retry
    BY <1>1, <1>3, <1>4 DEF QueueCleanup, TaskRow
  <1>6. task'[c] \in TaskRow /\ task[c] \in TaskRow
    BY <1>3 DEF Inv, TasksOK
  <1>7. task[c].status = "queued" => task'[c] = task[c]
    BY <1>5, <1>6 DEF TaskRow
  <1> QED BY <1>2, <1>4, <1>5, <1>7 DEF Recovers, Charged

\* The sweep of expired leases, and the one of attempts without a lease.
LEMMA RecoveryRecovers ==
    ASSUME Inv, Inv', ProgressInv, CountInv,
           RecoverLease \/ \E a \in scan.orphans : RecoverOrphan(a)
    PROVE  Recovers
  <1>1. CASE RecoverLease
    <2>1. PICK t \in TaskId : scan.lease.task = t /\ Named(t)
      BY <1>1 DEF RecoverLease, Inv, ScanOK, CountInv, Known, Named
    <2>2. \A s \in TaskId : Len(attempts'[s]) = Len(attempts[s])
      <3> DEFINE closed == [n \in DOMAIN attempts[t] |->
                              IF attempts[t][n] = "running" THEN "cancelled" ELSE attempts[t][n]]
      <3>1. attempts' = attempts \/ attempts' = [attempts EXCEPT ![t] = closed]
        BY <1>1, <2>1 DEF RecoverLease
      <3>2. DOMAIN closed = DOMAIN attempts[t]
        OBVIOUS
      <3> HIDE DEF closed
      <3> SUFFICES ASSUME NEW s \in TaskId PROVE Len(attempts'[s]) = Len(attempts[s])
        OBVIOUS
      <3>3. /\ attempts \in [TaskId -> Seq(AttemptStatus)]
            /\ attempts[s] \in Seq(AttemptStatus) /\ attempts'[s] \in Seq(AttemptStatus)
        BY DEF Inv, TasksOK
      <3>4. DOMAIN attempts'[s] = DOMAIN attempts[s]
        BY <3>1, <3>2, <3>3
      <3>5. /\ DOMAIN attempts[s] = 1..Len(attempts[s]) /\ Len(attempts[s]) \in Nat
            /\ DOMAIN attempts'[s] = 1..Len(attempts'[s]) /\ Len(attempts'[s]) \in Nat
        BY <3>3
      <3> QED BY <3>4, <3>5
    <2>3. \/ UNCHANGED task
          \/ RecoverTask(t)
          \/ /\ doc.status = "deleting" /\ CleanupQueueable
             /\ task' = QueueCleanup(Cancel(<<t, 0>>, task))
      BY <1>1, <2>1 DEF RecoverLease
    <2>4. ASSUME UNCHANGED task PROVE Recovers
      BY <2>2, <2>4 DEF Recovers
    <2> QED BY <2>1, <2>2, <2>3, <2>4, RequeueRecovers, HandOverRecovers
  <1>2. ASSUME NEW a \in scan.orphans, RecoverOrphan(a)
        PROVE  Recovers
    <2>1. a[1] \in TaskId
      BY DEF Inv, ScanOK, Listing, AttemptId
    <2>2. \A s \in TaskId : Len(attempts'[s]) = Len(attempts[s])
      <3>1. \/ attempts' = attempts
            \/ attempts' = [attempts EXCEPT ![a[1]][a[2]] = "cancelled"]
        BY <1>2 DEF RecoverOrphan
      <3> QED BY <2>1, <3>1, CloseCounts
    <2>3. \/ UNCHANGED task
          \/ task[a[1]].status = "running" /\ (RecoverTask(a[1]) \/ RecoverCleanup(a[1]))
          \/ /\ doc.status = "deleting" /\ CleanupQueueable
             /\ task' = QueueCleanup(Cancel(a, task))
      BY <1>2 DEF RecoverOrphan
    <2>4. ASSUME UNCHANGED task PROVE Recovers
      BY <2>2, <2>4 DEF Recovers
    <2>5. task[a[1]].status = "running" => Named(a[1])
      BY DEF Named
    <2> QED BY <2>1, <2>2, <2>3, <2>4, <2>5, RequeueRecovers, HandOverRecovers
  <1> QED BY <1>1, <1>2

LEMMA RecoveryCounts ==
    ASSUME Inv, Inv', Onward, ProgressInv, CountInv,
           RecoverLease \/ \E a \in scan.orphans : RecoverOrphan(a)
    PROVE  CountInv'
  <1>1. doc'.cycle = doc.cycle /\ Recovers
    BY RecoveryCycle, RecoveryRecovers
  <1>2. scan \in Listing /\ lease \in LeaseRow /\ NoScan.lease.task = NoTask
    BY DEF Inv, ScanOK, LeaseOK, NoScan
  <1>3. /\ UNCHANGED <<rows, worker>>
        /\ lease' = lease \/ lease' = Released(lease)
        /\ \/ scan' = [scan EXCEPT !.lease = NoScan.lease]
           \/ \E left : scan' = [scan EXCEPT !.orphans = left]
    BY DEF RecoverLease, RecoverOrphan
  <1>4. lease'.task \in {lease.task, NoTask} /\ scan'.lease.task \in {scan.lease.task, NoTask}
    BY <1>2, <1>3 DEF Released, LeaseRow, Listing
  <1> QED BY <1>1, <1>3, <1>4, RecoveryKept

\* DELETE creates the cleanup of the next cycle.
LEMMA DeleteWrites ==
    ASSUME Inv, CountInv, Delete, NEW dc, dc = Cleanup(doc.cycle + 1)
    PROVE  /\ dc \in Cleanups /\ dc \in TaskId /\ task[dc].status = "absent"
           /\ task'[dc].status \in {"queued", "pending"}
           /\ \A s \in TaskId \ {dc} :
                \/ task'[s] = task[s]
                \/ /\ task[s].status # "absent" /\ task'[s].status = "cancelled"
                   /\ task'[s].retry = task[s].retry
  <1> DEFINE kept == [t \in TaskId |->
                        IF t \in Stages /\ task[t].status \in {"pending", "queued"}
                        THEN [task[t] EXCEPT !.status = "cancelled"] ELSE task[t]]
  <1>1. doc.cycle + 1 \in 1..MaxDeletes /\ doc.cycle \in Nat
    BY Bounds DEF Delete, Inv, DocOK, Doc
  <1>2. dc \in Cleanups /\ dc \in TaskId /\ task[dc].status = "absent"
    BY <1>1, CleanupNames DEF CountInv, Future
  <1>3. task \in [TaskId -> TaskRow]
    BY DEF Inv, TasksOK
  <1>4. /\ DOMAIN kept = TaskId
        /\ \A s \in TaskId : /\ kept[s].retry = task[s].retry
                             /\ \/ kept[s] = task[s]
                                \/ task[s].status # "absent" /\ kept[s].status = "cancelled"
    BY <1>3 DEF TaskRow
  <1>5. kept \in [TaskId -> TaskRow]
    BY <1>3 DEF TaskRow, TaskStatus
  <1> HIDE DEF kept
  <1>6. ASSUME NEW a
        PROVE  /\ DOMAIN Cancel(a, kept) = TaskId
               /\ \A s \in TaskId :
                     /\ Cancel(a, kept)[s].retry = kept[s].retry
                     /\ \/ Cancel(a, kept)[s] = kept[s]
                        \/ kept[s].status = "running" /\ Cancel(a, kept)[s].status = "cancelled"
    BY <1>5 DEF Cancel, TaskRow
  <1> DEFINE With(T, status) == [T EXCEPT ![dc] = [status |-> status, retry |-> 0]]
  <1>7. PICK T : /\ T = kept \/ \E a : T = Cancel(a, kept)
                 /\ task' = With(T, "queued") \/ task' = With(T, "pending")
    <2>1. \/ task' = With(kept, "queued") \/ task' = With(kept, "pending")
          \/ \E a \in OpenAttempts : task' = With(Cancel(a, kept), "queued")
      BY DEF Delete, kept
    <2> HIDE DEF With
    <2> QED BY <2>1
  <1>8. /\ DOMAIN T = TaskId
        /\ \A s \in TaskId : \/ T[s] = task[s]
                             \/ /\ task[s].status # "absent" /\ T[s].status = "cancelled"
                                /\ T[s].retry = task[s].retry
    BY <1>4, <1>6, <1>7
  <1>9. /\ task'[dc].status \in {"queued", "pending"}
         /\ \A s \in TaskId \ {dc} :
              \/ task'[s] = task[s]
              \/ /\ task[s].status # "absent" /\ task'[s].status = "cancelled"
                 /\ task'[s].retry = task[s].retry
    BY <1>2, <1>7, <1>8
  <1> QED BY <1>2, <1>9

LEMMA DeleteCounts ==
    ASSUME Inv, Inv', Onward, CountInv, Delete
    PROVE  CountInv'
  <1>1. doc.cycle + 1 \in 1..MaxDeletes /\ doc.cycle \in Nat /\ doc'.cycle = doc.cycle + 1
    BY Bounds DEF Delete, Inv, DocOK, Doc
  <1>2. PICK dc : dc = Cleanup(doc.cycle + 1)
    OBVIOUS
  <1>3. lease \in LeaseRow
    BY DEF Inv, LeaseOK
  <1>4. /\ UNCHANGED <<worker, scan, used>> /\ lease' \in {lease, Released(lease)}
        /\ \/ attempts' = attempts
           \/ \E a \in OpenAttempts : attempts' = [attempts EXCEPT ![a[1]][a[2]] = "cancelled"]
    BY DEF Delete
  <1>5. /\ dc \in Cleanups /\ dc \in TaskId /\ task[dc].status = "absent"
        /\ task'[dc].status \in {"queued", "pending"}
        /\ \A s \in TaskId \ {dc} :
              \/ task'[s] = task[s]
              \/ /\ task[s].status # "absent" /\ task'[s].status = "cancelled"
                 /\ task'[s].retry = task[s].retry
    BY <1>2, DeleteWrites
  <1>6. \A s \in TaskId : Len(attempts'[s]) = Len(attempts[s])
    <2>1. ASSUME NEW a \in OpenAttempts, attempts' = [attempts EXCEPT ![a[1]][a[2]] = "cancelled"]
          PROVE  \A s \in TaskId : Len(attempts'[s]) = Len(attempts[s])
      BY <2>1, OpenNames, CloseCounts
    <2> QED BY <1>4, <2>1
  <1>7. \A s \in TaskId : Charged(s)
    BY <1>5, <1>6 DEF Charged
  <1>8. PaidFor'
    BY <1>7, PaidKept DEF CountInv
  <1>9. Future'
    <2> SUFFICES ASSUME NEW t \in Cleanups, NEW c \in 1..MaxDeletes, t = Cleanup(c), c > doc'.cycle
                 PROVE  task'[t].status = "absent"
      BY DEF Future
    <2>1. t # dc /\ t \in TaskId /\ c > doc.cycle
      BY <1>1, <1>2, StagesApart DEF Cleanup
    <2>2. task[t].status = "absent"
      BY <2>1 DEF CountInv, Future
    <2> QED BY <1>5, <2>1, <2>2
  <1>10. DraftsStay' /\ FaultFree'
    BY <1>1, <1>4 DEF DraftsStay, CountInv, FaultFree, Failing
  <1>11. Known'
    <2>1. \A t : Named(t) => Named(t)'
      BY <1>7, NamedStays
    <2>2. lease'.task \in {lease.task, NoTask}
      BY <1>3, <1>4 DEF Released, LeaseRow
    <2>3. \A t : t \in {Parse, lease.task, scan.lease.task, NoTask} => Named(t)'
      BY <2>1, TaskNames DEF CountInv, Known, Named
    <2>4. \A w \in Worker : Named(worker[w].task)'
      <3> SUFFICES ASSUME NEW w \in Worker PROVE Named(worker[w].task)'
        OBVIOUS
      <3>1. PICK t : t = worker[w].task
        OBVIOUS
      <3>2. Named(t)'
        BY <2>1, <3>1 DEF CountInv, Known
      <3> QED BY <1>4, <3>1, <3>2 DEF Named
    <2>5. Named(lease.task)'
      <3>1. PICK t : t = lease'.task
        OBVIOUS
      <3>2. Named(t)'
        BY <2>2, <2>3, <3>1
      <3> QED BY <3>1, <3>2 DEF Named
    <2>6. Named(scan.lease.task)'
      <3>1. PICK t : t = scan.lease.task
        OBVIOUS
      <3>2. Named(t)'
        BY <2>3, <3>1
      <3> QED BY <1>4, <3>1, <3>2 DEF Named
    <2> QED BY <2>3, <2>4, <2>5, <2>6 DEF Known, Named, Parse, Stage
  <1> QED BY <1>8, <1>9, <1>10, <1>11 DEF CountInv

\* Every step keeps what was paid for.
LEMMA CountStep ==
    ASSUME Inv, ProgressInv, UsedOK, CountInv, [Next]_vars
    PROVE  CountInv'
  <1>1. Inv' /\ Onward
    BY StepInv, CycleStep, UsedStep, FaultsStep DEF Onward
  <1>2. ASSUME NEW w \in Worker,
               \/ ParseDeliver(w) \/ WorkerStep(w) \/ Crash(w)
               \/ \E t \in TaskId : Deliver(w, t)
        PROVE  CountInv'
    <2>1. doc'.cycle = doc.cycle
      BY <1>2, WorkerProgress DEF DeletionKept
    <2>2. CASE ParseBegin(w) \/ \E t \in TaskId : Deliver(w, t)
      BY <1>1, <2>1, <2>2, DeliveryCounts
    <2>3. CASE \/ ParseRejected(w) \/ ParseSave(w) \/ ChunkSave(w)
               \/ EmbedNoDrafts(w) \/ EmbedComplete(w)
               \/ FinalizePublish(w) \/ FinalizeMismatch(w)
      BY <1>1, <2>1, <2>3, StageEnds
    <2>4. CASE FailAfterRollback(w) \/ ConvergeCancelled(w)
      BY <1>1, <2>1, <2>4, RollbackEnds
    <2>5. CASE CleanupLoad(w) \/ CleanupCommit(w) \/ CleanupFails(w)
      BY <1>1, <2>1, <2>5, CleanupEnds
    <2>6. CASE \/ ParseDeliver(w) \/ ParseFindOpen(w) \/ ParseAcquire(w) \/ ParseDenied(w)
               \/ ParseBreaks(w) \/ ParseStore(w) \/ ParseStoreFails(w)
               \/ ParseFenced(w) \/ ParseSaveFails(w)
      BY <1>1, <2>1, <2>6, ParseUnwritten, UnwrittenKept
    <2>7. CASE \/ ChunkLoad(w) \/ ChunkFenced(w)
               \/ EmbedLoad(w) \/ EmbedHeartbeat(w) \/ EmbedCall(w) \/ EmbedSave(w)
               \/ EmbedAborted(w) \/ FinalizeFenced(w) \/ StageBreaks(w)
      BY <1>1, <2>1, <2>7, StagesUnwritten, UnwrittenKept
    <2>8. CASE \/ Reload(w) \/ HandlerDies(w) \/ Crash(w)
               \/ CleanupPurge(w) \/ CleanupBreaks(w)
      BY <1>1, <2>1, <2>8, ErrorsUnwritten, UnwrittenKept
    <2> QED BY <1>2, <2>2, <2>3, <2>4, <2>5, <2>6, <2>7, <2>8 DEF WorkerStep
  <1>3. ASSUME NEW w \in Worker, Redeliver(w)
        PROVE  CountInv'
    <2>1. doc'.cycle = doc.cycle
      BY <1>3 DEF Redeliver, dbVars
    <2> QED BY <1>1, <1>3, <2>1, ErrorsUnwritten, UnwrittenKept
  <1>4. CASE Delete
    BY <1>1, <1>4, DeleteCounts
  <1>5. CASE RecoverLease \/ \E a \in scan.orphans : RecoverOrphan(a)
    BY <1>1, <1>5, RecoveryCounts
  <1>6. CASE \/ Expire \/ ScanExpired \/ RefreshScan \/ ScanOrphans
             \/ \E t \in TaskId : Lose(t) \/ Redispatch(t)
             \/ UNCHANGED vars
    BY <1>1, <1>6, OthersCount
  <1> QED BY <1>2, <1>3, <1>4, <1>5, <1>6 DEF Next

\* The invariant and what has been spent.
CountWithUsed == UsedOK /\ CountInv

\* It holds in every reachable state.
LEMMA CountInvariance == Spec => []CountWithUsed
  <1>1. ASSUME Init PROVE CountWithUsed
    <2>1. /\ task = [t \in TaskId |->
                      [status |-> IF t = Parse THEN "queued" ELSE "absent", retry |-> 0]]
          /\ attempts = [t \in TaskId |-> <<>>]
          /\ \A w \in Worker : worker[w].pc = "idle" /\ worker[w].task = NoTask
          /\ lease.task = NoTask /\ scan.lease.task = NoTask
      BY <1>1 DEF Init, Parse, Idle, NoScan
    <2>2. Known
      BY <2>1, TaskNames DEF Known, Named
    <2>3. Future
      <3>1. \A t \in Cleanups : t \in TaskId /\ t # Parse
        BY StagesApart, TaskNames
      <3> QED BY <2>1, <3>1 DEF Future
    <2>4. DraftsStay
      BY <2>1, TaskNames DEF DraftsStay
    <2>5. FaultFree
      BY <2>1 DEF FaultFree, Failing
    <2>6. PaidFor
      BY <2>1 DEF PaidFor, Paid
    <2>7. UsedOK
      BY <1>1 DEF Init, UsedOK, Resource
    <2> QED BY <2>2, <2>3, <2>4, <2>5, <2>6, <2>7 DEF CountWithUsed, CountInv
  <1>2. Inv /\ ProgressInv /\ CountWithUsed /\ [Next]_vars => CountWithUsed'
    BY CountStep, UsedStep DEF CountWithUsed
  <1> QED BY <1>1, <1>2, Invariance, ProgressInvariance, PTL DEF Spec

\* For any number of workers, crashes, errors, expiries, recoveries, deletions
\* and messages sent twice, no path starts a task again for free, but the two
\* that AttemptsCounted names.
THEOREM AttemptsArePaid == Spec => []AttemptsCounted
  <1>1. CountWithUsed => AttemptsCounted
    BY DEF CountWithUsed, CountInv, PaidFor, Paid, AttemptsCounted
  <1> QED BY <1>1, CountInvariance, PTL

\* Until a DELETE there is no exception.
THEOREM AttemptsArePaidUntilDelete ==
    Spec => [](doc.cycle = 0 =>
                 \A t \in TaskId : Len(attempts[t]) <= task[t].retry + 1)
  <1>1. ASSUME Inv, CountWithUsed, doc.cycle = 0, NEW t \in TaskId
        PROVE  Len(attempts[t]) <= task[t].retry + 1
    <2>1. task[t].retry \in Nat
      BY <1>1, Bounds DEF Inv, TasksOK, TaskRow
    <2>2. CASE t \in Cleanups
      <3>1. \E c \in 1..MaxDeletes : t = Cleanup(c) /\ c > doc.cycle
        BY <1>1, <2>2, Bounds DEF Cleanups
      <3>2. task[t].status = "absent"
        BY <1>1, <2>2, <3>1 DEF CountWithUsed, CountInv, Future
      <3> QED BY <1>1, <2>1, <3>2 DEF CountWithUsed, CountInv, PaidFor
    <2>3. CASE t \notin Cleanups
      BY <1>1, <2>3 DEF CountWithUsed, CountInv, PaidFor, Counted, Paid
    <2> QED BY <2>2, <2>3
  <1>2. Inv /\ CountWithUsed =>
          (doc.cycle = 0 => \A t \in TaskId : Len(attempts[t]) <= task[t].retry + 1)
    BY <1>1
  <1> QED BY <1>2, Invariance, CountInvariance, PTL

(***************************************************************************)
(* What was achieved stays achieved                                        *)
(*                                                                         *)
(* An attempt has one worker, which leaves it when it has succeeded; all   *)
(* others write to attempts that are running.                              *)
(***************************************************************************)
\* Worker w executes an attempt.
Working(w) == worker[w].pc \notin {"idle", "find", "acquire", "begin"}

\* Who executes an attempt has not succeeded in it yet, whatever others made of it.
Held ==
    \A w \in Worker : Working(w) =>
        /\ worker[w].task \in TaskId
        /\ worker[w].att \in DOMAIN attempts[worker[w].task]
        /\ attempts[worker[w].task][worker[w].att] # "succeeded"

\* No two workers execute the same attempt.
OneHolder ==
    \A v, w \in Worker :
        /\ Working(v) /\ Working(w)
        /\ worker[v].task = worker[w].task /\ worker[v].att = worker[w].att
        => v = w

EarnInv == Held /\ OneHolder /\ StagesEarned

\* A step that creates no stage and does not publish, but for the reason given.
NoStageNew(earned) ==
    \A s \in Stages \ {Finalize} :
        task[NextStage(s)].status = "absent" =>
            task'[NextStage(s)].status = "absent" \/ s \in earned
NotPublished(earned) ==
    doc'.status = "completed" => doc.status = "completed" \/ Finalize \in earned

\* Nobody takes an attempt.
SameHands ==
    \A v \in Worker : Working(v)' =>
        Working(v) /\ worker'[v].task = worker[v].task /\ worker'[v].att = worker[v].att

\* Attempts are cancelled, if they run.
OnlyCancels ==
    \A t \in TaskId :
        /\ DOMAIN attempts'[t] = DOMAIN attempts[t]
        /\ \A n \in DOMAIN attempts[t] :
             \/ attempts'[t][n] = attempts[t][n]
             \/ attempts[t][n] = "running" /\ attempts'[t][n] = "cancelled"

\* Such a step keeps the invariant.
LEMMA EarnKept ==
    ASSUME EarnInv, OnlyCancels, SameHands, NoStageNew({}), NotPublished({})
    PROVE  EarnInv'
  <1>1. \A t \in TaskId : Achieved(t) => Achieved(t)'
    BY DEF OnlyCancels, Achieved
  <1>2. Held'
    <2> SUFFICES ASSUME NEW w \in Worker, Working(w)'
                 PROVE  /\ worker'[w].task \in TaskId
                        /\ worker'[w].att \in DOMAIN attempts'[worker'[w].task]
                        /\ attempts'[worker'[w].task][worker'[w].att] # "succeeded"
      BY DEF Held
    <2>1. PICK t, n : t = worker[w].task /\ n = worker[w].att
      OBVIOUS
    <2>2. Working(w) /\ worker'[w].task = t /\ worker'[w].att = n
      BY <2>1 DEF SameHands
    <2>3. t \in TaskId /\ n \in DOMAIN attempts[t] /\ attempts[t][n] # "succeeded"
      BY <2>1, <2>2 DEF EarnInv, Held
    <2> QED BY <2>2, <2>3 DEF OnlyCancels
  <1>3. OneHolder'
    BY DEF EarnInv, OneHolder, SameHands
  <1>4. StagesEarned'
    BY <1>1, TaskNames DEF EarnInv, StagesEarned, NoStageNew, NotPublished, Finalize
  <1> QED BY <1>2, <1>3, <1>4 DEF EarnInv

\* A worker ends its attempt and leaves it.
LEMMA EarnEnds ==
    ASSUME Inv, EarnInv, NEW w \in Worker, Working(w), NEW t \in TaskId, worker[w].task = t,
           NEW s \in AttemptStatus, attempts' = [attempts EXCEPT ![t][worker[w].att] = s],
           Return(w), NEW earned \in SUBSET {t}, earned # {} => s = "succeeded",
           NoStageNew(earned), NotPublished(earned)
    PROVE  EarnInv'
  <1>1. /\ attempts \in [TaskId -> Seq(AttemptStatus)] /\ worker \in [Worker -> Process]
    BY DEF Inv, TasksOK, WorkersOK
  <1>2. PICK n : n = worker[w].att
    OBVIOUS
  <1>3. n \in DOMAIN attempts[t] /\ attempts[t][n] # "succeeded"
    BY <1>2 DEF EarnInv, Held
  <1>4. /\ \A x \in TaskId : DOMAIN attempts'[x] = DOMAIN attempts[x]
        /\ \A x \in TaskId : \A m \in DOMAIN attempts[x] :
              attempts'[x][m] = IF x = t /\ m = n THEN s ELSE attempts[x][m]
    BY <1>1, <1>2, <1>3
  <1>5. \A x \in TaskId : Achieved(x) => Achieved(x)'
    BY <1>3, <1>4 DEF Achieved
  <1>6. \A x \in earned : Achieved(x)'
    BY <1>3, <1>4 DEF Achieved
  <1>7. /\ \A v \in Worker \ {w} : worker'[v] = worker[v]
        /\ ~Working(w)'
    BY <1>1 DEF Return, Working, Idle
  <1>8. Held'
    <2> SUFFICES ASSUME NEW v \in Worker, Working(v)'
                 PROVE  /\ worker'[v].task \in TaskId
                        /\ worker'[v].att \in DOMAIN attempts'[worker'[v].task]
                        /\ attempts'[worker'[v].task][worker'[v].att] # "succeeded"
      BY DEF Held
    <2>1. PICK x, m : x = worker[v].task /\ m = worker[v].att
      OBVIOUS
    <2>2. v # w /\ Working(v) /\ worker'[v] = worker[v]
      BY <1>7 DEF Working
    <2>3. x \in TaskId /\ m \in DOMAIN attempts[x] /\ attempts[x][m] # "succeeded"
      BY <2>1, <2>2 DEF EarnInv, Held
    <2>4. ~(x = t /\ m = n)
      BY <1>2, <2>1, <2>2 DEF EarnInv, OneHolder
    <2> QED BY <1>4, <2>1, <2>2, <2>3, <2>4
  <1>9. OneHolder'
    <2>1. \A v \in Worker : Working(v)' => Working(v) /\ worker'[v] = worker[v]
      BY <1>7 DEF Working
    <2> QED BY <2>1 DEF EarnInv, OneHolder
  <1>10. StagesEarned'
    BY <1>5, <1>6, TaskNames DEF EarnInv, StagesEarned, NoStageNew, NotPublished, Finalize
  <1> QED BY <1>8, <1>9, <1>10 DEF EarnInv

\* A worker begins an attempt that nobody has.
LEMMA EarnBegins ==
    ASSUME Inv, EarnInv, NEW w \in Worker, NEW t \in TaskId, BeginAttempt(w, t), doc' = doc
    PROVE  EarnInv'
  <1>1. /\ attempts \in [TaskId -> Seq(AttemptStatus)] /\ worker \in [Worker -> Process]
        /\ worker[w] \in Process /\ task \in [TaskId -> TaskRow]
    BY DEF Inv, TasksOK, WorkersOK
  <1>2. PICK n \in Nat : n = Len(attempts[t])
    BY <1>1
  <1>3. /\ \A v \in Worker \ {w} : worker'[v] = worker[v]
        /\ worker'[w].task = t /\ worker'[w].att = n + 1
    BY <1>1, <1>2 DEF BeginAttempt, Process
  <1>4. /\ DOMAIN attempts[t] = 1..n /\ DOMAIN attempts'[t] = 1..(n + 1)
        /\ attempts'[t][n + 1] = "running"
        /\ \A m \in 1..n : attempts'[t][m] = attempts[t][m]
        /\ \A x \in TaskId \ {t} : attempts'[x] = attempts[x]
    <2>1. /\ attempts'[t] = Append(attempts[t], "running")
          /\ \A x \in TaskId \ {t} : attempts'[x] = attempts[x]
      BY <1>1 DEF BeginAttempt
    <2> QED BY <1>1, <1>2, <2>1
  <1>5. \A x \in TaskId : Achieved(x) => Achieved(x)'
    BY <1>4 DEF Achieved
  <1>6. ASSUME NEW v \in Worker \ {w}, Working(v)'
        PROVE  /\ Working(v) /\ worker'[v] = worker[v]
               /\ worker[v].task \in TaskId
               /\ worker[v].att \in DOMAIN attempts[worker[v].task]
               /\ attempts[worker[v].task][worker[v].att] # "succeeded"
    BY <1>3, <1>6 DEF Working, EarnInv, Held
  <1>7. Held'
    <2> SUFFICES ASSUME NEW v \in Worker, Working(v)'
                 PROVE  /\ worker'[v].task \in TaskId
                        /\ worker'[v].att \in DOMAIN attempts'[worker'[v].task]
                        /\ attempts'[worker'[v].task][worker'[v].att] # "succeeded"
      BY DEF Held
    <2>1. CASE v = w
      BY <1>3, <1>4, <2>1
    <2>2. CASE v # w
      BY <1>2, <1>4, <1>6, <2>2
    <2> QED BY <2>1, <2>2
  <1>8. OneHolder'
    <2> SUFFICES ASSUME NEW v \in Worker, NEW u \in Worker, Working(v)', Working(u)',
                        worker'[v].task = worker'[u].task, worker'[v].att = worker'[u].att,
                        v # u
                 PROVE  FALSE
      BY DEF OneHolder
    <2>1. CASE v # w /\ u # w
      BY <1>6, <2>1 DEF EarnInv, OneHolder
    <2>2. ASSUME NEW x \in {v, u}, x # w PROVE ~(worker'[x].task = t /\ worker'[x].att = n + 1)
      BY <1>2, <1>4, <1>6, <2>2
    <2> QED BY <1>3, <2>1, <2>2
  <1>9. StagesEarned'
    <2>1. \A x \in TaskId : task[x].status = "absent" => task'[x].status = "absent"
      BY <1>1 DEF BeginAttempt, Runnable
    <2> QED BY <1>5, <2>1, TaskNames DEF EarnInv, StagesEarned, Finalize
  <1> QED BY <1>7, <1>8, <1>9 DEF EarnInv

\* Where a worker's step leaves it: at rest, before its attempt, or further on.
LEMMA MovesHands ==
    ASSUME Inv, NEW w \in Worker,
           \/ Return(w)
           \/ \E pc \in {"find", "acquire", "begin"} : Goto(w, pc)
           \/ Working(w) /\ \E pc : Goto(w, pc)
           \/ Working(w) /\ (ToCancel(w) \/ \E code : ToFail(w, code))
    PROVE  SameHands
  <1>1. worker[w] \in Process /\ worker \in [Worker -> Process]
    BY DEF Inv, WorkersOK
  <1>2. CASE Return(w)
    BY <1>1, <1>2 DEF Return, Idle, SameHands, Working
  <1>3. CASE \E pc : Goto(w, pc) /\ (pc \in {"find", "acquire", "begin"} \/ Working(w))
    BY <1>1, <1>3 DEF Goto, SameHands, Working, Process
  <1>4. CASE Working(w) /\ ToCancel(w)
    BY <1>1, <1>4 DEF ToCancel, SameHands, Working, Process
  <1>5. CASE Working(w) /\ \E code : ToFail(w, code)
    <2>1. PICK code : ToFail(w, code)
      BY <1>5
    <2>2. worker'[w] = [[[worker[w] EXCEPT !.pc = "fail"] EXCEPT !.code = code] EXCEPT !.seen = NoDoc]
      BY <1>1, <2>1 DEF ToFail
    <2>3. worker'[w].task = worker[w].task /\ worker'[w].att = worker[w].att
      BY <1>1, <2>2 DEF Process
    <2>4. \A v \in Worker \ {w} : worker'[v] = worker[v]
      BY <1>1, <2>1 DEF ToFail
    <2> QED BY <1>5, <2>3, <2>4 DEF SameHands, Working
  <1> QED BY <1>2, <1>3, <1>4, <1>5

\* A step that writes no task and no attempt.
LEMMA UnwrittenEarns ==
    ASSUME EarnInv, UNCHANGED <<task, attempts>>, SameHands, NotPublished({})
    PROVE  EarnInv'
  <1>1. OnlyCancels /\ NoStageNew({})
    BY DEF OnlyCancels, NoStageNew
  <1> QED BY <1>1, EarnKept

\* parse, but for the begin and the end of its attempt.
LEMMA ParseEarnsNothing ==
    ASSUME Inv, EarnInv, NEW w \in Worker,
           \/ ParseDeliver(w) \/ ParseFindOpen(w) \/ ParseAcquire(w) \/ ParseDenied(w)
           \/ ParseBreaks(w) \/ ParseStore(w) \/ ParseStoreFails(w)
           \/ ParseFenced(w) \/ ParseSaveFails(w)
    PROVE  EarnInv'
  <1>1. /\ worker[w] \in Process /\ worker \in [Worker -> Process] /\ doc \in Doc
    BY DEF Inv, WorkersOK, DocOK
  <1>2. UNCHANGED <<task, attempts>>
    BY DEF ParseDeliver, ParseFindOpen, ParseAcquire, ParseDenied, ParseBreaks, ParseStore,
           ParseStoreFails, ParseFenced, ParseSaveFails, dbVars
  <1>3. CASE ParseDeliver(w)
    <2>1. SameHands
      BY <1>1, <1>3 DEF ParseDeliver, SameHands, Working, Process
    <2>2. NotPublished({})
      BY <1>3 DEF ParseDeliver, dbVars, NotPublished
    <2> QED BY <1>2, <2>1, <2>2, UnwrittenEarns
  <1>4. CASE ParseAcquire(w)
    <2>1. SameHands
      BY <1>1, <1>4 DEF ParseAcquire, SameHands, Working, Process
    <2>2. NotPublished({})
      <3>1. PICK loaded \in Doc : loaded = worker[w].seen
        BY <1>4, ParseHasDocument DEF ParseAcquire
      <3> DEFINE new == [loaded EXCEPT !.status = IF @ = "queued" THEN "processing" ELSE @]
      <3>2. new \in Doc /\ new.status \in {loaded.status, "processing"}
        BY <3>1 DEF Doc, DocStatus
      <3>3. doc' = Flush(doc, loaded, new)
        BY <1>4, <3>1 DEF ParseAcquire
      <3> HIDE DEF new
      <3>4. doc'.status \in {doc.status, "processing"}
        BY <1>1, <3>1, <3>2, <3>3, FlushDoc
      <3> QED BY <3>4 DEF NotPublished
    <2> QED BY <1>2, <2>1, <2>2, UnwrittenEarns
  <1>5. CASE ParseFindOpen(w) \/ ParseDenied(w)
    <2>1. SameHands
      BY <1>5, MovesHands DEF ParseFindOpen, ParseDenied
    <2>2. NotPublished({})
      BY <1>5 DEF ParseFindOpen, ParseDenied, dbVars, NotPublished
    <2> QED BY <1>2, <2>1, <2>2, UnwrittenEarns
  <1>6. CASE \/ ParseBreaks(w) \/ ParseStore(w) \/ ParseStoreFails(w)
             \/ ParseFenced(w) \/ ParseSaveFails(w)
    <2>1. Working(w)
      BY <1>6 DEF ParseBreaks, ParseStore, ParseStoreFails, ParseFenced, ParseSaveFails, At, Working
    <2>2. SameHands
      BY <1>6, <2>1, MovesHands
      DEF ParseBreaks, ParseStore, ParseStoreFails, ParseFenced, ParseSaveFails
    <2>3. NotPublished({})
      BY <1>6
      DEF ParseBreaks, ParseStore, ParseStoreFails, ParseFenced, ParseSaveFails, dbVars, NotPublished
    <2> QED BY <1>2, <2>2, <2>3, UnwrittenEarns
  <1> QED BY <1>3, <1>4, <1>5, <1>6

\* chunk, embed and finalize, but for the end of their attempts.
LEMMA StagesEarnNothing ==
    ASSUME Inv, EarnInv, NEW w \in Worker,
           \/ ChunkLoad(w) \/ ChunkFenced(w)
           \/ EmbedLoad(w) \/ EmbedHeartbeat(w) \/ EmbedCall(w) \/ EmbedSave(w) \/ EmbedAborted(w)
           \/ FinalizeFenced(w) \/ StageBreaks(w)
    PROVE  EarnInv'
  <1>1. UNCHANGED <<task, attempts, doc>>
    BY DEF ChunkLoad, ChunkFenced, EmbedLoad, EmbedHeartbeat, EmbedCall, EmbedSave, EmbedAborted,
           FinalizeFenced, StageBreaks, dbVars
  <1>2. Working(w)
    BY StageAt DEF Working
  <1>3. \/ Return(w) \/ ToCancel(w) \/ (\E code : ToFail(w, code)) \/ \E pc : Goto(w, pc)
    BY DEF ChunkLoad, ChunkFenced, EmbedLoad, EmbedHeartbeat, EmbedCall, EmbedSave, EmbedAborted,
           FinalizeFenced, StageBreaks
  <1>4. SameHands /\ NotPublished({})
    BY <1>1, <1>2, <1>3, MovesHands DEF NotPublished
  <1> QED BY <1>1, <1>4, UnwrittenEarns

\* Errors, deaths, and the cleanup but for the end of its attempt.
LEMMA ErrorsEarnNothing ==
    ASSUME Inv, EarnInv, NEW w \in Worker,
           \/ Reload(w) \/ HandlerDies(w) \/ Crash(w) \/ Redeliver(w)
           \/ CleanupPurge(w) \/ CleanupBreaks(w)
    PROVE  EarnInv'
  <1>1. worker[w] \in Process /\ worker \in [Worker -> Process]
    BY DEF Inv, WorkersOK
  <1>2. UNCHANGED <<task, attempts, doc>>
    BY DEF Reload, HandlerDies, Crash, Redeliver, CleanupPurge, CleanupBreaks, dbVars
  <1>3. SameHands
    <2>1. CASE Reload(w)
      <3>1. Working(w)
        BY <2>1 DEF Reload, Working
      <3>2. CASE Return(w)
        BY <3>2, MovesHands
      <3>3. CASE worker' = [worker EXCEPT ![w].pc = IF @ = "fail" THEN "failing" ELSE "cancelling",
                                          ![w].retry = task[worker[w].task].retry]
        BY <1>1, <3>1, <3>3 DEF SameHands, Working, Process
      <3> QED BY <2>1, <3>2, <3>3 DEF Reload
    <2>2. CASE HandlerDies(w) \/ Crash(w)
      BY <2>2, MovesHands DEF HandlerDies, Crash
    <2>3. CASE Redeliver(w)
      BY <2>3 DEF Redeliver, SameHands, Working
    <2>4. CASE CleanupPurge(w)
      BY <1>1, <2>4 DEF CleanupPurge, At, SameHands, Working, Process
    <2>5. CASE CleanupBreaks(w)
      BY <1>1, <2>5 DEF CleanupBreaks, At, SameHands, Working, Process
    <2> QED BY <2>1, <2>2, <2>3, <2>4, <2>5
  <1> QED BY <1>2, <1>3, UnwrittenEarns DEF NotPublished

\* A step that writes no task but one that exists creates no stage.
LEMMA NothingNew ==
    ASSUME NEW t, Named(t), \A s \in TaskId \ {t} : task'[s] = task[s], NEW earned
    PROVE  NoStageNew(earned)
  BY TaskNames DEF Named, NoStageNew

\* Failures and retries.
LEMMA FailForEarns ==
    ASSUME Inv, EarnInv, CountInv, NEW w \in Worker, Working(w),
           NEW t \in TaskId, worker[w].task = t,
           NEW loaded \in Doc, NEW code \in ErrorCode, FailFor(w, loaded, code)
    PROVE  EarnInv'
  <1>1. task \in [TaskId -> TaskRow] /\ doc \in Doc /\ Named(t)
    BY DEF Inv, TasksOK, DocOK, CountInv, Known
  <1>2. \A s \in TaskId \ {t} : task'[s] = task[s]
    BY <1>1 DEF FailFor
  <1>3. NotPublished({})
    <2>1. PICK new \in Doc : /\ new = [loaded EXCEPT !.status = "failed", !.error = code]
                             /\ new.status = "failed"
      BY DocChange, DocColumns
    <2>2. doc' = Flush(doc, loaded, new)
      BY <2>1 DEF FailFor
    <2>3. Flush(doc, loaded, new).status =
            IF new.status # loaded.status THEN new.status ELSE doc.status
      BY <1>1, FlushDoc
    <2>4. doc'.status \in {doc.status, "failed"}
      BY <2>1, <2>2, <2>3
    <2> QED BY <2>4 DEF NotPublished
  <1>4. attempts' = [attempts EXCEPT ![t][worker[w].att] = "failed"] /\ Return(w)
    BY DEF FailFor
  <1>5. "failed" \in AttemptStatus
    BY DEF AttemptStatus
  <1> QED BY <1>1, <1>2, <1>3, <1>4, <1>5, NothingNew, EarnEnds

LEMMA RetryEarns ==
    ASSUME Inv, EarnInv, CountInv, NEW w \in Worker, Working(w),
           NEW t \in TaskId, worker[w].task = t,
           NEW loaded \in Doc, NEW retry, Retry(w, loaded, retry)
    PROVE  EarnInv'
  <1>1. task \in [TaskId -> TaskRow] /\ doc \in Doc /\ Named(t)
    BY DEF Inv, TasksOK, DocOK, CountInv, Known
  <1>2. \A s \in TaskId \ {t} : task'[s] = task[s]
    BY <1>1 DEF Retry
  <1>3. NotPublished({})
    <2>1. [loaded EXCEPT !.error = 0] \in Doc
      BY DocErrors DEF Doc
    <2>2. doc'.status = doc.status
      BY <2>1, FlushKeepsDeletion DEF Retry, Doc
    <2> QED BY <2>2 DEF NotPublished
  <1>4. attempts' = [attempts EXCEPT ![t][worker[w].att] = "failed"] /\ Return(w)
    BY DEF Retry
  <1>5. "failed" \in AttemptStatus
    BY DEF AttemptStatus
  <1> QED BY <1>1, <1>2, <1>3, <1>4, <1>5, NothingNew, EarnEnds
LEMMA FailStageEarns ==
    ASSUME Inv, EarnInv, CountInv, NEW w \in Worker, Working(w),
           NEW t \in TaskId, worker[w].task = t,
           NEW retry, NEW code \in ErrorCode, FailStage(w, doc, retry, code)
    PROVE  EarnInv'
  <1>1. doc \in Doc
    BY DEF Inv, DocOK
  <1>2. CASE Retry(w, doc, retry)
    BY <1>1, <1>2, RetryEarns
  <1>3. CASE \E c \in {code, 20014} : FailFor(w, doc, c)
    BY <1>1, <1>3, DocErrors, FailForEarns
  <1> QED BY <1>2, <1>3 DEF FailStage

\* A stage that ends well has earned the next one.
LEMMA AdvanceEarns ==
    ASSUME Inv, EarnInv, CountInv, NEW w \in Worker, Working(w),
           NEW t \in {Parse, ChunkStage, Embed}, worker[w].task = t,
           NEW loaded \in Doc, Advance(w, loaded)
    PROVE  EarnInv'
  <1>1. /\ task \in [TaskId -> TaskRow] /\ doc \in Doc
        /\ t \in TaskId /\ task[t].status # "absent"
    BY TaskNames DEF Inv, TasksOK, DocOK, CountInv, Known, Named
  <1>2. PICK n \in {ChunkStage, Embed, Finalize} : n = NextStage(t)
    BY TaskNames
  <1>3. n \in TaskId /\ n[1] \in DocType
    BY TaskNames, TaskTypes
  <1>4. \A s \in TaskId \ {n} : task[s].status = "absent" => task'[s].status = "absent"
    <2>1. task' = [task EXCEPT ![t].status = "succeeded",
                               ![n] = IF @.status = "absent"
                                      THEN [status |-> "queued", retry |-> 0] ELSE @]
      BY <1>2 DEF Advance
    <2> QED BY <1>1, <1>3, <2>1
  <1>5. NoStageNew({t})
    BY <1>2, <1>4, TaskNames DEF NoStageNew
  <1>6. NotPublished({t})
    <2>1. doc' = Flush(doc, loaded, [loaded EXCEPT !.type = n[1]])
      BY <1>2 DEF Advance
    <2>2. [loaded EXCEPT !.type = n[1]] \in Doc
      BY <1>3 DEF Doc
    <2>3. doc'.status = doc.status
      BY <2>1, <2>2, FlushKeepsDeletion DEF Doc
    <2> QED BY <2>3 DEF NotPublished
  <1>7. attempts' = [attempts EXCEPT ![t][worker[w].att] = "succeeded"] /\ Return(w)
    BY DEF Advance
  <1>8. "succeeded" \in AttemptStatus
    BY DEF AttemptStatus
  <1> QED BY <1>1, <1>5, <1>6, <1>7, <1>8, EarnEnds

\* How the attempts of the stages end.
LEMMA StageEarns ==
    ASSUME Inv, EarnInv, CountInv, NEW w \in Worker,
           \/ ParseRejected(w) \/ ParseSave(w) \/ ChunkSave(w)
           \/ EmbedNoDrafts(w) \/ EmbedComplete(w)
           \/ FinalizePublish(w) \/ FinalizeMismatch(w)
    PROVE  EarnInv'
  <1>1. Working(w)
    BY DEF ParseRejected, ParseSave, ChunkSave, EmbedNoDrafts, EmbedComplete,
           FinalizePublish, FinalizeMismatch, At, Working
  <1>2. PICK t \in TaskId : worker[w].task = t
    BY <1>1 DEF EarnInv, Held
  <1>3. doc \in Doc /\ {0, 20001, 20013} \subseteq ErrorCode
    BY DEF Inv, DocOK, ErrorCode
  <1>4. CASE ParseRejected(w) \/ ParseSave(w)
    <2>1. t = Parse
      BY <1>2, <1>4, TaskTypes DEF ParseRejected, ParseSave, At
    <2>2. PICK loaded \in Doc : worker[w].seen = loaded
      BY <1>2, <1>4, <2>1, ParseHasDocument DEF ParseRejected, ParseSave, At
    <2>3. FailFor(w, loaded, 20001) \/ Advance(w, loaded)
      BY <1>4, <2>2 DEF ParseRejected, ParseSave
    <2> QED BY <1>1, <1>2, <1>3, <2>1, <2>3, FailForEarns, AdvanceEarns
  <1>5. CASE ChunkSave(w) \/ EmbedComplete(w)
    <2>1. t \in {ChunkStage, Embed}
      BY <1>2, <1>5, TaskTypes DEF ChunkSave, EmbedComplete, At
    <2>2. Advance(w, doc)
      BY <1>5 DEF ChunkSave, EmbedComplete
    <2> QED BY <1>1, <1>2, <1>3, <2>1, <2>2, AdvanceEarns
  <1>6. CASE EmbedNoDrafts(w)
    BY <1>1, <1>2, <1>3, <1>6, FailStageEarns DEF EmbedNoDrafts
  <1>7. CASE FinalizeMismatch(w)
    BY <1>1, <1>2, <1>3, <1>7, FailForEarns DEF FinalizeMismatch
  <1>8. CASE FinalizePublish(w)
    <2>1. t = Finalize /\ task \in [TaskId -> TaskRow] /\ task[t].status # "absent"
      BY <1>2, <1>8, TaskTypes DEF FinalizePublish, At, Inv, TasksOK, CountInv, Known, Named
    <2>2. /\ attempts' = [attempts EXCEPT ![t][worker[w].att] = "succeeded"]
          /\ task' = [task EXCEPT ![t].status = "succeeded"]
          /\ Return(w)
      BY <1>8, <2>1 DEF FinalizePublish, Finalize
    <2>3. \A s \in TaskId \ {t} : task'[s] = task[s]
      BY <2>1, <2>2
    <2>4. NoStageNew({t})
      BY <2>1, <2>3, NothingNew DEF Named
    <2>5. NotPublished({t}) /\ "succeeded" \in AttemptStatus
      BY <2>1 DEF NotPublished, AttemptStatus
    <2> QED BY <1>1, <1>2, <2>2, <2>4, <2>5, EarnEnds
  <1> QED BY <1>4, <1>5, <1>6, <1>7, <1>8

\* fail_stage and converge_cancelled after a rollback.
LEMMA RollbackEarns ==
    ASSUME Inv, EarnInv, CountInv, NEW w \in Worker, FailAfterRollback(w) \/ ConvergeCancelled(w)
    PROVE  EarnInv'
  <1>1. Working(w)
    BY DEF FailAfterRollback, ConvergeCancelled, Working
  <1>2. PICK t \in TaskId : worker[w].task = t
    BY <1>1 DEF EarnInv, Held
  <1>3. task \in [TaskId -> TaskRow] /\ Named(t) /\ worker[w].code \in ErrorCode
    BY <1>2 DEF Inv, TasksOK, WorkersOK, Process, CountInv, Known
  <1>4. CASE FailAfterRollback(w)
    BY <1>1, <1>2, <1>3, <1>4, FailStageEarns DEF FailAfterRollback
  <1>5. CASE ConvergeCancelled(w)
    <2>1. /\ attempts' = [attempts EXCEPT ![t][worker[w].att] = "cancelled"]
          /\ task' = [task EXCEPT ![t].status = IF @ = "running" THEN "cancelled" ELSE @]
          /\ Return(w) /\ UNCHANGED doc
      BY <1>2, <1>5 DEF ConvergeCancelled
    <2>2. \A s \in TaskId \ {t} : task'[s] = task[s]
      BY <1>3, <2>1
    <2>3. NoStageNew({}) /\ NotPublished({}) /\ "cancelled" \in AttemptStatus
      BY <1>3, <2>1, <2>2, NothingNew DEF NotPublished, AttemptStatus
    <2> QED BY <1>1, <1>2, <2>1, <2>3, EarnEnds
  <1> QED BY <1>4, <1>5

\* How the attempts of the cleanup end.
LEMMA CleanupEarns ==
    ASSUME Inv, EarnInv, CountInv, NEW w \in Worker,
           CleanupLoad(w) \/ CleanupCommit(w) \/ CleanupFails(w)
    PROVE  EarnInv'
  <1>1. Working(w)
    BY DEF CleanupLoad, CleanupCommit, CleanupFails, At, Working
  <1>2. PICK t \in TaskId : worker[w].task = t
    BY <1>1 DEF EarnInv, Held
  <1>3. /\ task \in [TaskId -> TaskRow] /\ Named(t) /\ doc \in Doc
        /\ worker[w] \in Process /\ worker \in [Worker -> Process]
    BY <1>2 DEF Inv, TasksOK, DocOK, WorkersOK, CountInv, Known
  <1>4. NotPublished({})
    <2>1. CASE CleanupLoad(w)
      BY <2>1 DEF CleanupLoad, NotPublished
    <2>2. CASE CleanupCommit(w)
      <3>1. PICK loaded \in Doc : loaded = worker[w].seen
        BY <2>2, CleanupHasDocument DEF CleanupCommit, At
      <3> DEFINE new == [loaded EXCEPT !.status = "deleted", !.type = "none", !.error = 0]
      <3>2. new \in Doc /\ new.status = "deleted"
        <4>1. PICK e \in ErrorCode : e = 0
          BY DocErrors
        <4>2. new = [loaded EXCEPT !.status = "deleted", !.type = "none", !.error = e]
          BY <4>1
        <4> HIDE DEF new
        <4> QED BY <3>1, <4>2, DocColumns DEF Doc
      <3>3. doc' = Flush(doc, loaded, new)
        BY <2>2, <3>1 DEF CleanupCommit
      <3> HIDE DEF new
      <3>4. Flush(doc, loaded, new).status =
              IF new.status # loaded.status THEN new.status ELSE doc.status
        BY <1>3, <3>1, <3>2, FlushDoc
      <3>5. doc'.status \in {doc.status, "deleted"}
        BY <3>2, <3>3, <3>4
      <3> QED BY <3>5 DEF NotPublished
    <2>3. CASE CleanupFails(w)
      <3>1. PICK e : e = 20015
        OBVIOUS
      <3>2. \/ doc' = doc
            \/ doc' = [doc EXCEPT !.status = "failed", !.type = "delete_cleanup", !.error = e]
        BY <2>3, <3>1 DEF CleanupFails
      <3>3. doc'.status \in {doc.status, "failed"}
        BY <1>3, <3>2 DEF Doc
      <3> QED BY <3>3 DEF NotPublished
    <2> QED BY <2>1, <2>2, <2>3
  <1>5. ASSUME NEW s \in AttemptStatus, attempts' = [attempts EXCEPT ![t][worker[w].att] = s],
               \A x \in TaskId \ {t} : task'[x] = task[x], Return(w)
        PROVE  EarnInv'
    <2>1. NoStageNew({})
      BY <1>3, <1>5, NothingNew
    <2> QED BY <1>1, <1>2, <1>4, <1>5, <2>1, EarnEnds
  <1>6. {"succeeded", "failed"} \subseteq AttemptStatus
    BY DEF AttemptStatus
  <1>7. CASE CleanupLoad(w)
    <2>1. CASE /\ worker' = [worker EXCEPT ![w].pc = "purge", ![w].seen = doc]
               /\ UNCHANGED <<attempts, task>>
      <3>1. SameHands
        BY <1>1, <1>3, <2>1 DEF SameHands, Working, Process
      <3> QED BY <1>4, <2>1, <3>1, UnwrittenEarns
    <2>2. CASE /\ attempts' = [attempts EXCEPT ![t][worker[w].att] = "succeeded"]
               /\ task' = [task EXCEPT ![t].status = "succeeded"]
               /\ Return(w)
      BY <1>3, <1>5, <1>6, <2>2
    <2> QED BY <1>2, <1>7, <2>1, <2>2 DEF CleanupLoad
  <1>8. CASE CleanupCommit(w)
    <2>1. /\ attempts' = [attempts EXCEPT ![t][worker[w].att] = "succeeded"]
          /\ task' = [task EXCEPT ![t].status = "succeeded"]
          /\ Return(w)
      BY <1>2, <1>8 DEF CleanupCommit
    <2> QED BY <1>3, <1>5, <1>6, <2>1
  <1>9. CASE CleanupFails(w)
    <2>1. /\ attempts' = [attempts EXCEPT ![t][worker[w].att] = "failed"]
          /\ \/ task' = [task EXCEPT ![t] = Requeued(worker[w].retry)]
             \/ task' = [task EXCEPT ![t].status = "failed"]
          /\ Return(w)
      BY <1>2, <1>9 DEF CleanupFails
    <2>2. \A x \in TaskId \ {t} : task'[x] = task[x]
      BY <1>3, <2>1
    <2> QED BY <1>5, <1>6, <2>1, <2>2
  <1> QED BY <1>7, <1>8, <1>9
\* The deliveries that begin an attempt, or find that there is nothing to do.
LEMMA DeliveryEarns ==
    ASSUME Inv, EarnInv, NEW w \in Worker,
           ParseBegin(w) \/ \E t \in TaskId : Deliver(w, t)
    PROVE  EarnInv'
  <1>1. doc' = doc
    BY DEF ParseBegin, Deliver
  <1>2. CASE \E t \in TaskId : BeginAttempt(w, t)
    BY <1>1, <1>2, EarnBegins
  <1>3. CASE UNCHANGED <<task, attempts>> /\ (Return(w) \/ UNCHANGED worker)
    <2>1. SameHands
      <3>1. CASE UNCHANGED worker
        BY <3>1 DEF SameHands, Working
      <3> QED BY <1>3, <3>1, MovesHands
    <2> QED BY <1>1, <1>3, <2>1, UnwrittenEarns DEF NotPublished
  <1> QED BY <1>2, <1>3, TaskNames DEF ParseBegin, Deliver, Parse

\* What is cancelled was running.
LEMMA OneCancelled ==
    ASSUME Inv, NEW t \in TaskId, NEW n, attempts[t][n] = "running",
           attempts' = [attempts EXCEPT ![t][n] = "cancelled"]
    PROVE  OnlyCancels
  <1>1. attempts \in [TaskId -> Seq(AttemptStatus)]
    BY DEF Inv, TasksOK
  <1> QED BY <1>1 DEF OnlyCancels

\* The scanner's recovery.
LEMMA RecoveryEarns ==
    ASSUME Inv, Inv', ProgressInv, CountInv, EarnInv,
           RecoverLease \/ \E a \in scan.orphans : RecoverOrphan(a)
    PROVE  EarnInv'
  <1>1. Recovers
    BY RecoveryRecovers
  <1>2. NoStageNew({})
    BY <1>1, TaskNames DEF Recovers, NoStageNew
  <1>3. SameHands
    BY DEF RecoverLease, RecoverOrphan, SameHands, Working
  <1>4. doc \in Doc /\ attempts \in [TaskId -> Seq(AttemptStatus)]
    BY DEF Inv, DocOK, TasksOK
  <1>5. ASSUME \/ doc' = doc
               \/ doc' = [doc EXCEPT !.type = "delete_cleanup"]
               \/ \E t \in TaskId : RecoverTask(t) \/ RecoverCleanup(t)
        PROVE  NotPublished({})
    BY <1>4, <1>5, RecoveredTask, RecoveredCleanup DEF NotPublished, Doc
  <1>6. CASE RecoverLease
    <2>1. PICK t \in TaskId : scan.lease.task = t
      BY <1>6 DEF RecoverLease, Inv, ScanOK
    <2>2. NotPublished({})
      BY <1>5, <1>6, <2>1 DEF RecoverLease
    <2>3. OnlyCancels
      <3> DEFINE closed == [n \in DOMAIN attempts[t] |->
                              IF attempts[t][n] = "running" THEN "cancelled" ELSE attempts[t][n]]
      <3>1. attempts' = attempts \/ attempts' = [attempts EXCEPT ![t] = closed]
        BY <1>6, <2>1 DEF RecoverLease
      <3> QED BY <1>4, <3>1 DEF OnlyCancels
    <2> QED BY <1>2, <1>3, <2>2, <2>3, EarnKept
  <1>7. ASSUME NEW a \in scan.orphans, RecoverOrphan(a)
        PROVE  EarnInv'
    <2>1. PICK t \in TaskId : t = a[1]
      BY DEF Inv, ScanOK, Listing, AttemptId
    <2>2. NotPublished({})
      BY <1>5, <1>7, <2>1 DEF RecoverOrphan
    <2>3. OnlyCancels
      <3>1. \/ attempts' = attempts
            \/ /\ attempts[t][a[2]] = "running"
               /\ attempts' = [attempts EXCEPT ![t][a[2]] = "cancelled"]
        BY <1>7, <2>1 DEF RecoverOrphan
      <3>2. CASE attempts' = attempts
        BY <3>2 DEF OnlyCancels
      <3> QED BY <3>1, <3>2, OneCancelled
    <2> QED BY <1>2, <1>3, <2>2, <2>3, EarnKept
  <1> QED BY <1>6, <1>7

\* DELETE cancels, and creates a cleanup.
LEMMA DeleteEarns ==
    ASSUME Inv, CountInv, EarnInv, Delete
    PROVE  EarnInv'
  <1>1. NoStageNew({})
    <2>1. PICK dc : dc = Cleanup(doc.cycle + 1)
      OBVIOUS
    <2>2. /\ dc \in Cleanups
          /\ \A s \in TaskId \ {dc} : task[s].status = "absent" => task'[s].status = "absent"
      BY <2>1, DeleteWrites
    <2> QED BY <2>2, StagesApart, TaskNames DEF NoStageNew
  <1>2. OnlyCancels
    <2>1. CASE attempts' = attempts
      BY <2>1 DEF OnlyCancels
    <2>2. ASSUME NEW a \in OpenAttempts, attempts' = [attempts EXCEPT ![a[1]][a[2]] = "cancelled"]
          PROVE  OnlyCancels
      <3>1. PICK t, n : t = a[1] /\ n = a[2]
        OBVIOUS
      <3>2. t \in TaskId /\ attempts[t][n] = "running"
        BY <3>1, OpenNames DEF OpenAttempts
      <3> QED BY <2>2, <3>1, <3>2, OneCancelled
    <2> QED BY <2>1, <2>2 DEF Delete
  <1>3. SameHands
    BY DEF Delete, SameHands, Working
  <1>4. NotPublished({})
    BY DEF Delete, NotPublished
  <1> QED BY <1>1, <1>2, <1>3, <1>4, EarnKept

\* Every step keeps what was earned.
LEMMA EarnStep ==
    ASSUME Inv, ProgressInv, UsedOK, CountInv, EarnInv, [Next]_vars
    PROVE  EarnInv'
  <1>1. Inv'
    BY StepInv
  <1>2. ASSUME NEW w \in Worker,
               \/ ParseDeliver(w) \/ WorkerStep(w) \/ Crash(w)
               \/ \E t \in TaskId : Deliver(w, t)
        PROVE  EarnInv'
    <2>1. CASE ParseBegin(w) \/ \E t \in TaskId : Deliver(w, t)
      BY <2>1, DeliveryEarns
    <2>2. CASE \/ ParseRejected(w) \/ ParseSave(w) \/ ChunkSave(w)
               \/ EmbedNoDrafts(w) \/ EmbedComplete(w)
               \/ FinalizePublish(w) \/ FinalizeMismatch(w)
      BY <2>2, StageEarns
    <2>3. CASE FailAfterRollback(w) \/ ConvergeCancelled(w)
      BY <2>3, RollbackEarns
    <2>4. CASE CleanupLoad(w) \/ CleanupCommit(w) \/ CleanupFails(w)
      BY <2>4, CleanupEarns
    <2>5. CASE \/ ParseDeliver(w) \/ ParseFindOpen(w) \/ ParseAcquire(w) \/ ParseDenied(w)
               \/ ParseBreaks(w) \/ ParseStore(w) \/ ParseStoreFails(w)
               \/ ParseFenced(w) \/ ParseSaveFails(w)
      BY <2>5, ParseEarnsNothing
    <2>6. CASE \/ ChunkLoad(w) \/ ChunkFenced(w)
               \/ EmbedLoad(w) \/ EmbedHeartbeat(w) \/ EmbedCall(w) \/ EmbedSave(w)
               \/ EmbedAborted(w) \/ FinalizeFenced(w) \/ StageBreaks(w)
      BY <2>6, StagesEarnNothing
    <2>7. CASE \/ Reload(w) \/ HandlerDies(w) \/ Crash(w)
               \/ CleanupPurge(w) \/ CleanupBreaks(w)
      BY <2>7, ErrorsEarnNothing
    <2> QED BY <1>2, <2>1, <2>2, <2>3, <2>4, <2>5, <2>6, <2>7 DEF WorkerStep
  <1>3. ASSUME NEW w \in Worker, Redeliver(w)
        PROVE  EarnInv'
    BY <1>3, ErrorsEarnNothing
  <1>4. CASE Delete
    BY <1>4, DeleteEarns
  <1>5. CASE RecoverLease \/ \E a \in scan.orphans : RecoverOrphan(a)
    BY <1>1, <1>5, RecoveryEarns
  <1>6. CASE \/ Expire \/ ScanExpired \/ RefreshScan \/ ScanOrphans
             \/ \E t \in TaskId : Lose(t) \/ Redispatch(t)
             \/ UNCHANGED vars
    <2>1. UNCHANGED <<doc, task, attempts, worker>>
      BY <1>6 DEF Expire, ScanExpired, RefreshScan, ScanOrphans, Lose, Redispatch, dbVars, vars
    <2> QED BY <2>1, UnwrittenEarns DEF SameHands, Working, NotPublished
  <1> QED BY <1>2, <1>3, <1>4, <1>5, <1>6 DEF Next

\* For any number of workers, expiries, recoveries, retries, crashes, errors,
\* deletions and messages sent twice: no stage exists, and nothing is published,
\* but by an attempt of the stage before that has succeeded.
THEOREM StagesAreEarned == Spec => []StagesEarned
  <1>1. ASSUME Init PROVE EarnInv
    <2>1. /\ \A w \in Worker : ~Working(w)
          /\ doc.status = "queued"
          /\ \A t \in {ChunkStage, Embed, Finalize} : task[t].status = "absent"
      BY <1>1, TaskNames DEF Init, Working, Idle, Parse
    <2>2. StagesEarned
      BY <2>1, TaskNames DEF StagesEarned, Finalize
    <2> QED BY <2>1, <2>2 DEF EarnInv, Held, OneHolder
  <1>2. Inv /\ ProgressInv /\ CountWithUsed /\ EarnInv /\ [Next]_vars => EarnInv'
    BY EarnStep DEF CountWithUsed
  <1>3. EarnInv => StagesEarned
    BY DEF EarnInv
  <1> QED BY <1>1, <1>2, <1>3, Invariance, ProgressInvariance, CountInvariance, PTL DEF Spec
=============================================================================
