---------------------------- MODULE StageWorkers ----------------------------
EXTENDS StageOrchestrator

(***************************************************************************)
(* parse: the document is read first, without a lock, and stays in the     *)
(* session; then the slot is taken, then the attempt begins.               *)
(***************************************************************************)
ParseDeliver(w) ==
    /\ worker[w].pc = "idle"
    /\ Stage("parse") \in msgs
    /\ msgs' = msgs \ {Stage("parse")}
    /\ \/ /\ doc.status \in {"queued", "processing"}
          /\ worker' = [worker EXCEPT ![w].pc = "find", ![w].task = Stage("parse"),
                                      ![w].seen = doc]
       \/ /\ doc.status \notin {"queued", "processing"}
          /\ UNCHANGED worker
    /\ UNCHANGED <<dbVars, objects, scan, used>>

ParseFindOpenUnchecked(w) ==  \* mutant
    /\ worker[w].pc = "find"
    /\ Goto(w, "begin")
    /\ UNCHANGED <<dbVars, objects, msgs, scan, used>>

\* A redelivery, or a retry, of a document that still has its slot skips acquire.
ParseFindOpen(w) ==
    /\ worker[w].pc = "find"
    /\ Goto(w, IF lease.open THEN "begin" ELSE "acquire")
    /\ UNCHANGED <<dbVars, objects, msgs, scan, used>>

ParseAcquire(w) ==
    /\ worker[w].pc = "acquire"
    /\ ~lease.open
    /\ LET loaded == worker[w].seen
           new == [loaded EXCEPT !.status = IF @ = "queued" THEN "processing" ELSE @]
       IN  /\ lease' = [id |-> lease.id + 1, open |-> TRUE,
                        task |-> Stage("parse"), expired |-> FALSE,
                        cycle |-> doc.cycle]
           /\ doc' = Flush(doc, loaded, new)
           /\ worker' = [worker EXCEPT ![w].pc = "begin", ![w].seen = new]
    /\ UNCHANGED <<task, attempts, checkpoint, rows, objects, msgs, scan, used>>

\* The user's slots are all taken, or another worker inserted the lease first.
ParseDenied(w) ==
    /\ worker[w].pc = "acquire"
    /\ Return(w)
    /\ UNCHANGED <<dbVars, objects, msgs, scan, used>>

ParseBegin(w) ==
    /\ worker[w].pc = "begin"
    /\ \/ BeginAttempt(w, Stage("parse"))
       \/ ~Runnable(Stage("parse")) /\ Return(w) /\ UNCHANGED <<task, attempts>>
    /\ UNCHANGED <<doc, checkpoint, lease, rows, objects, msgs, scan, used>>

\* ParseError (20001, 20010): fail_stage with the rows the session holds.
ParseRejected(w) ==
    /\ At(w, "parse", "work")
    /\ "upload" \in objects
    /\ FailFor(w, worker[w].seen, 20001)
    /\ UNCHANGED <<checkpoint, rows, objects, scan, used>>

\* read_object or the wrapper raises something else than ParseError.
ParseBreaks(w) ==
    /\ At(w, "parse", "work")
    /\ \/ "upload" \notin objects /\ UNCHANGED used
       \/ Fault
    /\ ToFail(w, 0)
    /\ UNCHANGED <<dbVars, objects, msgs, scan>>

ParseStore(w) ==
    /\ At(w, "parse", "work")
    /\ "upload" \in objects
    /\ objects' = objects \cup {"parsed"}
    /\ Goto(w, "save")
    /\ UNCHANGED <<dbVars, msgs, scan, used>>

\* write_bytes writes in place: a write that fails half way leaves a file, and
\* no except branch removes it.
ParseStoreFails(w) ==
    /\ At(w, "parse", "work")
    /\ "upload" \in objects
    /\ \/ Fault /\ UNCHANGED objects
       \/ Stray /\ objects' = objects \cup {"parsed"}
    /\ ToFail(w, 20011)
    /\ UNCHANGED <<dbVars, msgs, scan>>

\* The result row and complete_stage share one transaction; attempt, task and
\* document come from the session, so only SQL-level tests can refuse it.
ParseSave(w) ==
    /\ At(w, "parse", "save")
    /\ Advance(w, worker[w].seen)
    /\ rows' = rows \cup {ParseRow(worker[w].att)}
    /\ UNCHANGED <<checkpoint, objects, scan, used>>

\* The object is removed before the rollback frees the row locks (when that
\* raises, nobody catches it: HandlerDies).
ParseFenced(w) ==
    /\ At(w, "parse", "save")
    /\ ~CanAdvance(Stage("parse"))
    /\ objects' = objects \ {"parsed"}
    /\ ToCancel(w)
    /\ UNCHANGED <<dbVars, msgs, scan, used>>

\* A delete_object that fails here is logged, and the object stays.
ParseSaveFails(w) ==
    /\ At(w, "parse", "save")
    /\ \/ Fault /\ objects' = objects \ {"parsed"}
       \/ Stray /\ UNCHANGED objects
    /\ ToFail(w, 0)
    /\ UNCHANGED <<dbVars, msgs, scan>>

(***************************************************************************)
(* chunk                                                                   *)
(***************************************************************************)
ChunkLoad(w) ==
    /\ At(w, "chunk", "work")
    /\ \/ ~lease.open /\ ToCancel(w)
       \/ /\ lease.open
          /\ HasParseRow(rows) /\ "parsed" \in objects
          /\ Goto(w, "save")
       \/ /\ lease.open
          /\ ~(HasParseRow(rows) /\ "parsed" \in objects)
          /\ ToFail(w, 0)
    /\ UNCHANGED <<dbVars, objects, msgs, scan, used>>

\* Drafts and complete_stage share one transaction; the document is fresh.
ChunkSave(w) ==
    /\ At(w, "chunk", "save")
    /\ doc.status \notin Hidden
    /\ Advance(w, doc)
    /\ rows' = rows \cup {Draft}
    /\ UNCHANGED <<checkpoint, objects, scan, used>>

ChunkFenced(w) ==
    /\ At(w, "chunk", "save")
    /\ doc.status \in Hidden \/ ~CanAdvance(Stage("chunk"))
    /\ ToCancel(w)
    /\ UNCHANGED <<dbVars, objects, msgs, scan, used>>

(***************************************************************************)
(* embed, with one batch of drafts: heartbeat, model call, fenced write of *)
(* the chunks, and complete_stage in a transaction of its own.             *)
(***************************************************************************)
EmbedLoad(w) ==
    /\ At(w, "embed", "work")
    /\ Draft \in rows
    /\ Goto(w, "beat")
    /\ UNCHANGED <<dbVars, objects, msgs, scan, used>>

\* No drafts: fail_stage without a rollback, hence with the cached task.
EmbedNoDrafts(w) ==
    /\ At(w, "embed", "work")
    /\ Draft \notin rows
    /\ FailStage(w, doc, worker[w].retry, 0)
    /\ UNCHANGED <<checkpoint, rows, objects, scan, used>>

EmbedHeartbeat(w) ==
    /\ At(w, "embed", "beat")
    /\ \/ /\ lease.open /\ doc.status \notin Hidden
          /\ lease' = [lease EXCEPT !.expired = FALSE, !.task = Stage("embed")]
          /\ Goto(w, "call")
       \/ /\ ~lease.open \/ doc.status \in Hidden
          /\ ToCancel(w)
          /\ UNCHANGED lease
    /\ UNCHANGED <<doc, task, attempts, checkpoint, rows, objects, msgs, scan, used>>

EmbedCallSkipsSave(w) ==  \* mutant
    /\ At(w, "embed", "call")
    /\ Goto(w, "complete")
    /\ UNCHANGED <<dbVars, objects, msgs, scan, used>>

EmbedCall(w) ==
    /\ At(w, "embed", "call")
    /\ \/ Goto(w, "save")
       \/ ToFail(w, 20012)
    /\ UNCHANGED <<dbVars, objects, msgs, scan, used>>

EmbedSaveCheckpointOnly(w) ==  \* mutant
    /\ At(w, "embed", "save")
    /\ checkpoint' = TRUE
    /\ Goto(w, "complete")
    /\ UNCHANGED <<doc, task, attempts, lease, rows, objects, msgs, scan, used>>

EmbedSave(w) ==
    /\ At(w, "embed", "save")
    /\ \/ /\ doc.status \notin Hidden
          /\ rows' = rows \cup {Chunk}
          /\ checkpoint' = TRUE
          /\ Goto(w, "complete")
       \/ /\ doc.status \in Hidden
          /\ ToCancel(w)
          /\ UNCHANGED <<rows, checkpoint>>
    /\ UNCHANGED <<doc, task, attempts, lease, objects, msgs, scan, used>>

EmbedComplete(w) ==
    /\ At(w, "embed", "complete")
    /\ doc.status \notin Hidden
    /\ Advance(w, doc)
    /\ UNCHANGED <<checkpoint, rows, objects, scan, used>>

\* The FencingError of this call is outside every try: the handler dies.
EmbedAborted(w) ==
    /\ At(w, "embed", "complete")
    /\ doc.status \in Hidden \/ ~CanAdvance(Stage("embed"))
    /\ Return(w)
    /\ UNCHANGED <<dbVars, objects, msgs, scan, used>>

(***************************************************************************)
(* finalize: publish when the chunks match the checkpoint of embed.        *)
(***************************************************************************)
FinalizePublish(w) ==
    /\ At(w, "finalize", "work")
    /\ doc.status \notin Hidden
    /\ (Chunk \in rows) = checkpoint
    /\ attempts' = [attempts EXCEPT ![Stage("finalize")][worker[w].att] = "succeeded"]
    /\ task' = [task EXCEPT ![Stage("finalize")].status = "succeeded"]
    /\ doc' = [doc EXCEPT !.status = "completed", !.type = "none"]
    /\ lease' = Released(lease)
    /\ Return(w)
    /\ UNCHANGED <<checkpoint, rows, objects, msgs, scan, used>>

FinalizeMismatch(w) ==
    /\ At(w, "finalize", "work")
    /\ doc.status \notin Hidden
    /\ (Chunk \in rows) # checkpoint
    /\ FailFor(w, doc, 20013)
    /\ UNCHANGED <<checkpoint, rows, objects, scan, used>>

FinalizeFenced(w) ==
    /\ At(w, "finalize", "work")
    /\ doc.status \in Hidden
    /\ ToCancel(w)
    /\ UNCHANGED <<dbVars, objects, msgs, scan, used>>

\* An unclassified exception inside the try blocks of chunk, embed, finalize.
StageBreaks(w) ==
    /\ \/ At(w, "chunk", "work") \/ At(w, "chunk", "save")
       \/ At(w, "embed", "beat") \/ At(w, "embed", "call") \/ At(w, "embed", "save")
       \/ At(w, "finalize", "work")
    /\ Fault
    /\ ToFail(w, 0)
    /\ UNCHANGED <<dbVars, objects, msgs, scan>>
=============================================================================
