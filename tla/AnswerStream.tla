---------------------------- MODULE AnswerStream ----------------------------
(***************************************************************************)
(* The answer to one question: prepare (messages, retrieval), the SSE      *)
(* stream with its producer thread and bounded queue around the gateway's  *)
(* generator, the terminal state of the assistant message, its citations,  *)
(* and the maintenance sweep of messages that stay `streaming`.  Around    *)
(* it: the client may disconnect, the API process may die, the             *)
(* conversation or the cited sources may be deleted.                       *)
(***************************************************************************)
EXTENDS ModelGateway

CONSTANTS
    SseQueue,       \* maxsize of the queue between the producer and the stream
    MaxCrashes,     \* bound: deaths of the API process
    MaxUsers,       \* bound: disconnects and deletions together
    Prompt          \* a live request ends within the stale limit

ASSUME AnswerAssumption ==
    SseQueue \in Nat \ {0} /\ MaxCrashes \in Nat /\ MaxUsers \in Nat /\ Prompt \in BOOLEAN

VARIABLES
    msg,        \* status of the assistant message
    cited,      \* its citations are saved
    conv,       \* the conversation exists
    sources,    \* the knowledge base still has the chunks that are retrieved
    req,        \* the request: pc, whether there is evidence, the item in hand
    sse,        \* the producer thread
    sq, sstop,  \* its queue and its stop event
    getter,     \* a thread of the pool is blocked in queue.get
    client,     \* what the client was sent: deltas, last frame
    sweep,      \* the scanner
    used

answerVars == <<msg, cited, conv, sources, req, sse, sq, sstop, getter, client, sweep, used>>
vars == <<gatewayVars, answerVars>>

Terminal == {"completed", "failed", "cancelled"}
\* Deleted rows are "gone".
MsgStatus == {"none", "streaming", "gone"} \cup Terminal

Init ==
    /\ GatewayInit
    /\ msg = "none" /\ cited = FALSE /\ conv = TRUE /\ sources = TRUE
    /\ req = [pc |-> "ready", evidence |-> FALSE, item |-> None]
    /\ sse = [pc |-> "none", item |-> None]
    /\ sq = <<>> /\ sstop = FALSE /\ getter = FALSE
    /\ client = [deltas |-> <<>>, last |-> "none"]
    /\ sweep = "idle"
    /\ used = [crashes |-> 0, users |-> 0]

Go(pc) == req' = [req EXCEPT !.pc = pc]
Send(frame) == client' = [client EXCEPT !.last = frame]

SetTerminalBlind(status) ==  \* mutant
    msg' = IF msg \in {"none", "gone"} THEN msg ELSE status

\* MessageTerminalState: under the row lock, and only from `streaming`.
SetTerminal(status) == msg' = IF msg = "streaming" THEN status ELSE msg

-----------------------------------------------------------------------------
(***************************************************************************)
(* prepare, in the request.                                                *)
(***************************************************************************)
\* Something can be retrieved; the question is rewritten or taken as it is, and
\* the user message is committed.
Ask ==
    /\ req.pc = "ready" /\ conv /\ sources
    /\ Go("asked")
    /\ UNCHANGED <<gatewayVars, msg, cited, conv, sources, sse, sq, sstop, getter, client, sweep, used>>

CreateMessage ==
    /\ req.pc = "asked"
    /\ IF conv THEN msg' = "streaming" /\ Go("retrieve") ELSE Go("end") /\ UNCHANGED msg
    /\ UNCHANGED <<gatewayVars, cited, conv, sources, sse, sq, sstop, getter, client, sweep, used>>

RetrieveFails ==
    /\ req.pc = "retrieve"
    /\ SetTerminal("failed")
    /\ Go("end")
    /\ UNCHANGED <<gatewayVars, cited, conv, sources, sse, sq, sstop, getter, client, sweep, used>>

NoEvidence ==
    /\ req.pc = "retrieve"
    /\ SetTerminal("completed")
    /\ Go("start")
    /\ UNCHANGED <<gatewayVars, cited, conv, sources, sse, sq, sstop, getter, client, sweep, used>>

Retrieve ==
    /\ req.pc = "retrieve" /\ sources
    /\ req' = [req EXCEPT !.pc = "start", !.evidence = TRUE]
    /\ UNCHANGED <<gatewayVars, msg, cited, conv, sources, sse, sq, sstop, getter, client, sweep, used>>

-----------------------------------------------------------------------------
(***************************************************************************)
(* stream_answer_events and _stream_generation, on the event loop.         *)
(***************************************************************************)
\* message_start and retrieval_done; then the end, or the producer.
Start ==
    /\ req.pc = "start"
    /\ IF req.evidence
       THEN Go("loop") /\ sse' = [sse EXCEPT !.pc = "next"] /\ UNCHANGED client
       ELSE Go("end") /\ Send("message_end") /\ UNCHANGED sse
    /\ UNCHANGED <<gatewayVars, msg, cited, conv, sources, sq, sstop, getter, sweep, used>>

Await ==
    /\ req.pc = "loop"
    /\ Go("await") /\ getter' = TRUE
    /\ UNCHANGED <<gatewayVars, msg, cited, conv, sources, sse, sq, sstop, client, sweep, used>>

\* The pool thread gets an item; nobody takes it when the request is over.
Get ==
    /\ getter /\ sq # <<>>
    /\ getter' = FALSE /\ sq' = Tail(sq)
    /\ req' = IF req.pc = "await" THEN [req EXCEPT !.pc = "got", !.item = Head(sq)] ELSE req
    /\ UNCHANGED <<gatewayVars, msg, cited, conv, sources, sse, sstop, client, sweep, used>>

\* A delta frame, for which the client may take its time.
SendDelta ==
    /\ req.pc = "got" /\ req.item.kind = "delta"
    /\ client' = [client EXCEPT !.deltas = Append(@, req.item)]
    /\ Go("yield")
    /\ UNCHANGED <<gatewayVars, msg, cited, conv, sources, sse, sq, sstop, getter, sweep, used>>

Continue ==
    /\ req.pc = "yield" \/ (req.pc = "got" /\ req.item.kind = "final")
    /\ Go("loop")
    /\ UNCHANGED <<gatewayVars, msg, cited, conv, sources, sse, sq, sstop, getter, client, sweep, used>>

GenerationFails ==
    /\ req.pc = "got" /\ Failure(req.item)
    /\ SetTerminal("failed")
    /\ sstop' = TRUE
    /\ Send("error") /\ Go("end")
    /\ UNCHANGED <<gatewayVars, cited, conv, sources, sse, sq, getter, sweep, used>>

Complete ==
    /\ req.pc = "got" /\ req.item.kind = "eos"
    /\ sstop' = TRUE
    /\ SetTerminal("completed")
    /\ Go("cite")
    /\ UNCHANGED <<gatewayVars, cited, conv, sources, sse, sq, getter, client, sweep, used>>

CiteLeniently ==  \* mutant
    /\ req.pc = "cite"
    /\ cited' = (msg # "gone" /\ sources)
    /\ Send("message_end")
    /\ Go("end")
    /\ UNCHANGED <<gatewayVars, msg, conv, sources, sse, sq, sstop, getter, sweep, used>>

\* A transaction of its own, whatever became of the message in the first.  The
\* foreign keys refuse a message or a source that is gone: then the stream ends
\* without message_end, and the cancellation finds the message terminal.
Cite ==
    /\ req.pc = "cite"
    /\ IF msg # "gone" /\ sources
       THEN cited' = TRUE /\ Send("message_end") /\ UNCHANGED msg
       ELSE SetTerminal("cancelled") /\ UNCHANGED <<cited, client>>
    /\ Go("end")
    /\ UNCHANGED <<gatewayVars, conv, sources, sse, sq, sstop, getter, sweep, used>>

\* The client leaves where the coroutine waits: for the queue or for the client.
Disconnect ==
    /\ req.pc \in {"start", "await", "got", "yield"}
    /\ used.users < MaxUsers /\ used' = [used EXCEPT !.users = @ + 1]
    /\ SetTerminal("cancelled")
    /\ sstop' = TRUE
    /\ Go("end")
    /\ UNCHANGED <<gatewayVars, cited, conv, sources, sse, sq, getter, client, sweep>>

-----------------------------------------------------------------------------
(***************************************************************************)
(* The producer thread, the caller of the gateway's generator.             *)
(***************************************************************************)
ProduceNext ==
    /\ sse.pc = "next"
    /\ sse' = [sse EXCEPT !.pc = "call"]
    /\ reply' = Signal("calling")
    /\ UNCHANGED <<gw, provider, pull, relay, gq, audit>>
    /\ UNCHANGED <<msg, cited, conv, sources, req, sq, sstop, getter, client, sweep, used>>

ProduceItem ==
    /\ sse.pc = "call" /\ ~Calling
    /\ sse' = [pc |-> "test", item |-> reply]
    /\ UNCHANGED <<gatewayVars, msg, cited, conv, sources, req, sq, sstop, getter, client, sweep, used>>

ProduceTest ==
    /\ sse.pc = "test"
    /\ sse' = [sse EXCEPT !.pc = IF sstop THEN "end" ELSE "put"]
    /\ UNCHANGED <<gatewayVars, msg, cited, conv, sources, req, sq, sstop, getter, client, sweep, used>>

ProducePut ==
    /\ sse.pc = "put"
    /\ IF Len(sq) < SseQueue
       THEN /\ sq' = Append(sq, sse.item)
            /\ sse' = [sse EXCEPT !.pc = IF sse.item.kind \in {"delta", "final"} THEN "next" ELSE "end"]
       ELSE sse' = [sse EXCEPT !.pc = "test"] /\ UNCHANGED sq
    /\ UNCHANGED <<gatewayVars, msg, cited, conv, sources, req, sstop, getter, client, sweep, used>>

ProducerEndsUnasked ==  \* mutant
    /\ sse.pc = "end"
    /\ IF sstop THEN CloseGenerator ELSE UNCHANGED gw
    /\ sse' = [sse EXCEPT !.pc = "dead"]
    /\ UNCHANGED <<reply, provider, pull, relay, gq, audit>>
    /\ UNCHANGED <<msg, cited, conv, sources, req, sq, sstop, getter, client, sweep, used>>

\* The finally clause: when told to stop, close the generator and wake the getter.
ProducerEnds ==
    /\ sse.pc = "end"
    /\ IF sstop THEN CloseGenerator /\ sse' = [sse EXCEPT !.pc = "wake"]
       ELSE sse' = [sse EXCEPT !.pc = "dead"] /\ UNCHANGED gw
    /\ UNCHANGED <<reply, provider, pull, relay, gq, audit>>
    /\ UNCHANGED <<msg, cited, conv, sources, req, sq, sstop, getter, client, sweep, used>>

\* The sentinel is dropped when the queue stays full for its timeout.
WakeGetter ==
    /\ sse.pc = "wake"
    /\ sq' = IF Len(sq) < SseQueue THEN Append(sq, Signal("stop")) ELSE sq
    /\ sse' = [sse EXCEPT !.pc = "dead"]
    /\ UNCHANGED <<gatewayVars, msg, cited, conv, sources, req, sstop, getter, client, sweep, used>>

-----------------------------------------------------------------------------
(***************************************************************************)
(* The sweep, the users and the death of the API process.                  *)
(***************************************************************************)
SweepListYoung ==  \* mutant
    /\ sweep = "idle" /\ msg = "streaming"
    /\ req.pc \notin {"end", "dead"}
    /\ sweep' = "listed"
    /\ UNCHANGED <<gatewayVars, msg, cited, conv, sources, req, sse, sq, sstop, getter, client, used>>

\* The stale limit is compared with the NUMBER of attempts of all model calls
\* (validate_streaming_stale, attempt_budget_sum), not with their time: only with
\* Prompt is it known to be longer than a live request.
SweepList ==
    /\ sweep = "idle" /\ msg = "streaming"
    /\ req.pc \in {"end", "dead"} \/ ~Prompt
    /\ sweep' = "listed"
    /\ UNCHANGED <<gatewayVars, msg, cited, conv, sources, req, sse, sq, sstop, getter, client, used>>

\* The session still holds the listed object: the locking query returns it with
\* the status it was listed with.
SweepWrite ==
    /\ sweep = "listed"
    /\ sweep' = "idle"
    /\ msg' = IF msg = "gone" THEN msg ELSE "failed"
    /\ UNCHANGED <<gatewayVars, cited, conv, sources, req, sse, sq, sstop, getter, client, used>>

DeleteConversation ==
    /\ conv
    /\ used.users < MaxUsers /\ used' = [used EXCEPT !.users = @ + 1]
    /\ conv' = FALSE /\ cited' = FALSE
    /\ msg' = IF msg = "none" THEN msg ELSE "gone"
    /\ UNCHANGED <<gatewayVars, sources, req, sse, sq, sstop, getter, client, sweep>>

DeleteSources ==
    /\ sources
    /\ used.users < MaxUsers /\ used' = [used EXCEPT !.users = @ + 1]
    /\ sources' = FALSE
    /\ UNCHANGED <<gatewayVars, msg, cited, conv, req, sse, sq, sstop, getter, client, sweep>>

Crash ==
    /\ req.pc \notin {"ready", "end", "dead"}
    /\ used.crashes < MaxCrashes /\ used' = [used EXCEPT !.crashes = @ + 1]
    /\ Go("dead")
    /\ gw' = [gw EXCEPT !.pc = "closed"]
    /\ reply' = None /\ gq' = <<>> /\ sq' = <<>> /\ getter' = FALSE
    /\ provider' = [a \in Attempt |-> IF provider[a].state = "open"
                                      THEN [provider[a] EXCEPT !.state = "closed"]
                                      ELSE provider[a]]
    /\ pull' = [a \in Attempt |-> [pull[a] EXCEPT !.pc = "dead"]]
    /\ relay' = [relay EXCEPT !.pc = "dead"] /\ sse' = [sse EXCEPT !.pc = "dead"]
    /\ UNCHANGED <<audit, msg, cited, conv, sources, sstop, client, sweep>>

PrepareStep == CreateMessage \/ RetrieveFails \/ NoEvidence \/ Retrieve
StreamStep == Start \/ Await \/ SendDelta \/ Continue \/ GenerationFails \/ Complete \/ Cite
ProducerStep ==
    \/ ProduceNext \/ ProduceItem \/ ProduceTest \/ ProducePut \/ ProducerEnds \/ WakeGetter
    \/ GatewayStep /\ UNCHANGED answerVars
SweepStep == SweepList \/ SweepWrite

Next ==
    \/ Ask \/ PrepareStep \/ StreamStep \/ Get \/ ProducerStep
    \/ (RelayStep \/ \E a \in Attempt : PullStep(a)) /\ UNCHANGED answerVars
    \/ SweepStep \/ Disconnect \/ DeleteConversation \/ DeleteSources \/ Crash

Spec == Init /\ [][Next]_vars

(***************************************************************************)
(* The event loop and the threads run, the provider answers within the     *)
(* HTTP timeout, a client reads or leaves, the beat goes on.               *)
(***************************************************************************)
Fairness ==
    /\ WF_vars(PrepareStep \/ StreamStep) /\ WF_vars(Get) /\ WF_vars(ProducerStep)
    /\ WF_vars(RelayStep /\ UNCHANGED answerVars)
    /\ \A a \in Attempt : WF_vars(PullStep(a) /\ UNCHANGED answerVars)
    /\ WF_vars(SweepStep)

FairSpec == Spec /\ Fairness

-----------------------------------------------------------------------------
TypeOK ==
    /\ gw.attempt \in Attempt /\ gw.stopped \subseteq Attempt /\ reply \in Item
    /\ \A a \in Attempt : pull[a].out \in Item /\ provider[a].sent \in 0 .. MaxChunks
    /\ relay.item \in Item /\ gq \in Seq(Item) /\ Len(gq) <= GatewayQueue
    /\ msg \in MsgStatus /\ {cited, conv, sources, sstop, getter} \subseteq BOOLEAN
    /\ req.item \in Item /\ sse.item \in Item /\ sq \in Seq(Item) /\ Len(sq) <= SseQueue

\* What the client was told is what the database says: message_end stands for a
\* completed message with its citations, error for a failed one.
ClientSawTruth ==
    /\ client.last = "message_end" => msg \in {"completed", "gone"}
                                      /\ (req.evidence /\ msg = "completed" => cited)
    /\ client.last = "error" => msg \in {"failed", "gone"}

\* Across retries, two queues and three threads, the client gets the chunks of one
\* attempt, in order, and all of them when the answer ends well.
AnswerIsOneStream ==
    /\ \E a \in Attempt : \A i \in DOMAIN client.deltas : client.deltas[i] = Delta(a, i)
    /\ client.last = "message_end" /\ req.evidence =>
         Len(client.deltas) = provider[gw.attempt].sent /\ provider[gw.attempt].state = "over"

\* A stream is audited once, as what the client saw of it.  The one error that
\* leaves no record is the one before any attempt (no model, or a content that
\* cannot be sanitized): then no provider has been asked for anything.
AuditMatches ==
    /\ Len(audit) <= 1
    /\ client.last = "message_end" /\ req.evidence => audit = <<"success">>
    /\ client.last = "error" =>
         \/ audit = <<"failed">>
         \/ audit = <<>> /\ \A a \in Attempt : provider[a].state = "none"

\* A terminal state is final until the message is deleted.
TerminalStateFinal == [][(msg \in Terminal) => msg' \in {msg, "gone"}]_vars

\* However the request ends, no thread stays blocked and no provider stream open,
\* but for one: of an attempt whose first chunk was there, and whose thread had
\* found no stop event and was about to end, when the attempt was given up.
Released ==
    req.pc \in {"end", "dead"} ~>
        ~getter /\ sse.pc \in {"none", "dead"} /\ GatewayQuiet

\* A message does not stay `streaming`, whoever dies.
MessageSettles == msg = "streaming" ~> msg # "streaming"
=============================================================================
