---------------------------- MODULE ModelGateway ----------------------------
(***************************************************************************)
(* The generation stream of the model gateway: attempts whose first chunk  *)
(* is pulled by a thread of its own under a timeout, then a relay thread   *)
(* and a bounded queue under the total timeout.  The stream is a Python    *)
(* generator: its frame runs in the thread of its caller, who calls Next   *)
(* for the following item and may Close it instead.                        *)
(***************************************************************************)
EXTENDS Naturals, Sequences, FiniteSets

CONSTANTS
    MaxRetries,     \* max_retries of the generation call
    MaxChunks,      \* bound: text chunks one provider stream sends
    GatewayQueue    \* maxsize of the queue

ASSUME GatewayAssumption == MaxRetries \in Nat /\ MaxChunks \in Nat /\ GatewayQueue \in Nat \ {0}

VARIABLES
    gw,         \* the generator: pc, current attempt, attempts told to stop
    reply,      \* what the last Next returned, or Calling while it runs
    provider,   \* the provider streams, one per attempt
    pull,       \* the threads that pull the first chunk, and their outcomes
    relay,      \* the thread that feeds the queue
    gq,         \* the queue
    audit       \* audit records of the call

gatewayVars == <<gw, reply, provider, pull, relay, gq, audit>>

Attempt == 0 .. MaxRetries

Delta(a, n) == [kind |-> "delta", attempt |-> a, n |-> n]
Signal(kind) == [kind |-> kind, attempt |-> 0, n |-> 0]
Item == {Delta(a, n) : a \in Attempt, n \in 1 .. MaxChunks}
        \cup {Signal(k) : k \in {"none", "calling", "final", "eos", "stop", "retryable", "fatal"}}
None == Signal("none")
Calling == reply.kind = "calling"
Failure(item) == item.kind \in {"retryable", "fatal"}

GatewayInit ==
    /\ gw = [pc |-> "new", attempt |-> 0, stopped |-> {}]
    /\ reply = None
    /\ provider = [a \in Attempt |-> [state |-> "none", sent |-> 0]]
    /\ pull = [a \in Attempt |-> [pc |-> "none", out |-> None]]
    /\ relay = [pc |-> "none", item |-> None]
    /\ gq = <<>>
    /\ audit = <<>>

-----------------------------------------------------------------------------
(***************************************************************************)
(* The provider: next() of stream a returns a chunk, the end or an error,  *)
(* after any time up to the timeout of the HTTP client.                    *)
(***************************************************************************)
Outcomes(a) ==
    IF provider[a].state # "open" THEN {Signal("eos")}
    ELSE {Delta(a, n) : n \in {provider[a].sent + 1} \cap 1 .. MaxChunks}
         \cup {Signal("eos"), Signal("retryable"), Signal("fatal")}

Advance(a, item) ==
    provider' = [provider EXCEPT ![a] =
                    IF item.kind = "delta" THEN [@ EXCEPT !.sent = item.n]
                    ELSE IF @.state = "open" THEN [@ EXCEPT !.state = "over"] ELSE @]

\* chunks.close() of a thread that finds its attempt abandoned.
CloseIfStopped(a) ==
    provider' = IF a \in gw.stopped /\ provider[a].state = "open"
                THEN [provider EXCEPT ![a].state = "closed"]
                ELSE provider

Pull(a) ==
    /\ pull[a].pc = "pulling"
    /\ \E item \in Outcomes(a) :
         /\ Advance(a, item)
         /\ pull' = [pull EXCEPT ![a] = [pc |-> "ending", out |-> item]]
    /\ UNCHANGED <<gw, reply, relay, gq, audit>>

\* The finally clause; the thread is alive a little longer.
PullTests(a) ==
    /\ pull[a].pc = "ending"
    /\ CloseIfStopped(a)
    /\ pull' = [pull EXCEPT ![a].pc = "leaving"]
    /\ UNCHANGED <<gw, reply, relay, gq, audit>>

PullEnds(a) ==
    /\ pull[a].pc = "leaving"
    /\ pull' = [pull EXCEPT ![a].pc = "dead"]
    /\ UNCHANGED <<gw, reply, provider, relay, gq, audit>>

-----------------------------------------------------------------------------
Return(item) == reply' = item
Audit(status) == audit' = Append(audit, status)

\* No model is configured, or the content cannot be sanitized: GatewayError before
\* the first attempt, outside of the try that audits.
Refuse ==
    /\ Calling /\ gw.pc = "new"
    /\ gw' = [gw EXCEPT !.pc = "refused"]
    /\ Return(Signal("fatal"))
    /\ UNCHANGED <<provider, pull, relay, gq, audit>>

StartAttempt ==
    /\ Calling /\ gw.pc \in {"new", "attempt"}
    /\ provider' = [provider EXCEPT ![gw.attempt].state = "open"]
    /\ pull' = [pull EXCEPT ![gw.attempt].pc = "pulling"]
    /\ gw' = [gw EXCEPT !.pc = "first"]
    /\ UNCHANGED <<reply, relay, gq, audit>>

\* The first chunk, or the end of an empty stream: _stream_rest takes over.
FirstChunk ==
    LET out == pull[gw.attempt].out
    IN  /\ Calling /\ gw.pc = "first" /\ pull[gw.attempt].pc = "dead"
        /\ ~Failure(out)
        /\ gw' = [gw EXCEPT !.pc = "rest"]
        /\ relay' = [relay EXCEPT !.pc = "next"]
        /\ IF out.kind = "delta" THEN Return(out) ELSE UNCHANGED reply
        /\ UNCHANGED <<provider, pull, gq, audit>>

MayRetry(item) == item.kind = "retryable" /\ gw.attempt < MaxRetries

AttemptFailedAuditsAll(item, stopped) ==  \* mutant
    /\ Audit("failed")
    /\ IF MayRetry(item)
       THEN /\ gw' = [pc |-> "attempt", attempt |-> gw.attempt + 1, stopped |-> stopped]
            /\ UNCHANGED reply
       ELSE /\ gw' = [gw EXCEPT !.pc = "failed", !.stopped = stopped]
            /\ Return(Signal("fatal"))

\* The next attempt, or the error and its audit record.
AttemptFailed(item, stopped) ==
    IF MayRetry(item)
    THEN /\ gw' = [pc |-> "attempt", attempt |-> gw.attempt + 1, stopped |-> stopped]
         /\ UNCHANGED <<reply, audit>>
    ELSE /\ gw' = [gw EXCEPT !.pc = "failed", !.stopped = stopped]
         /\ Return(Signal("fatal")) /\ Audit("failed")

FirstFails ==
    /\ Calling /\ gw.pc = "first" /\ pull[gw.attempt].pc = "dead"
    /\ Failure(pull[gw.attempt].out)
    /\ AttemptFailed(pull[gw.attempt].out, gw.stopped)
    /\ UNCHANGED <<provider, pull, relay, gq>>

\* thread.join(timeout) returns while the thread is alive.  A thread that has
\* tested the stop event by then misses it, and ends with its stream open.
FirstTimesOut ==
    /\ Calling /\ gw.pc = "first" /\ pull[gw.attempt].pc # "dead"
    /\ AttemptFailed(Signal("retryable"), gw.stopped \cup {gw.attempt})
    /\ pull' = [pull EXCEPT ![gw.attempt].pc = IF @ = "leaving" THEN "missed" ELSE @]
    /\ UNCHANGED <<provider, relay, gq>>

\* Past the first chunk nothing is retried.
RestFails ==
    /\ gw' = [gw EXCEPT !.pc = "failed", !.stopped = @ \cup {gw.attempt}]
    /\ Return(Signal("fatal"))
    /\ Audit("failed")

RestItemRetries ==  \* mutant
    /\ Calling /\ gw.pc = "rest" /\ gq # <<>>
    /\ gq' = Tail(gq)
    /\ \/ /\ Head(gq).kind = "delta"
          /\ Return(Head(gq)) /\ UNCHANGED <<gw, audit>>
       \/ /\ Head(gq).kind = "eos"
          /\ gw' = [gw EXCEPT !.pc = "final", !.stopped = @ \cup {gw.attempt}]
          /\ Return(Signal("final")) /\ Audit("success")
       \/ /\ Failure(Head(gq))
          /\ AttemptFailed(Head(gq), gw.stopped)
    /\ UNCHANGED <<provider, pull, relay>>

RestItem ==
    /\ Calling /\ gw.pc = "rest" /\ gq # <<>>
    /\ gq' = Tail(gq)
    /\ \/ /\ Head(gq).kind = "delta"
          /\ Return(Head(gq)) /\ UNCHANGED <<gw, audit>>
       \/ /\ Head(gq).kind = "eos"
          /\ gw' = [gw EXCEPT !.pc = "final", !.stopped = @ \cup {gw.attempt}]
          /\ Return(Signal("final")) /\ Audit("success")
       \/ /\ Failure(Head(gq))
          /\ RestFails
    /\ UNCHANGED <<provider, pull, relay>>

\* The total timeout, before or while the frame waits for the queue.
RestTimesOut ==
    /\ Calling /\ gw.pc = "rest"
    /\ RestFails
    /\ UNCHANGED <<provider, pull, relay, gq>>

\* StopIteration, after the item with the finish_reason.
Finish ==
    /\ Calling /\ gw.pc = "final"
    /\ gw' = [gw EXCEPT !.pc = "done"]
    /\ Return(Signal("eos"))
    /\ UNCHANGED <<provider, pull, relay, gq, audit>>

GatewayStep ==
    \/ Refuse \/ StartAttempt \/ FirstChunk \/ FirstFails \/ FirstTimesOut
    \/ RestItem \/ RestTimesOut \/ Finish

\* close(): GeneratorExit at the yield runs the finally clause, and no audit.
CloseGenerator ==
    gw' = [gw EXCEPT !.pc = IF @ \in {"new", "rest", "final"} THEN "closed" ELSE @,
                     !.stopped = IF gw.pc = "rest" THEN @ \cup {gw.attempt} ELSE @]

-----------------------------------------------------------------------------
(***************************************************************************)
(* The relay thread: _put_with_stop tests the stop event, waits a little   *)
(* for room and tests again.                                               *)
(***************************************************************************)
RelayNext ==
    /\ relay.pc = "next"
    /\ \E item \in Outcomes(gw.attempt) :
         /\ Advance(gw.attempt, item)
         /\ relay' = [pc |-> "test", item |-> item]
    /\ UNCHANGED <<gw, reply, pull, gq, audit>>

RelayTest ==
    /\ relay.pc = "test"
    /\ relay' = [relay EXCEPT !.pc = IF gw.attempt \in gw.stopped THEN "end" ELSE "put"]
    /\ UNCHANGED <<gw, reply, provider, pull, gq, audit>>

RelayPut ==
    /\ relay.pc = "put"
    /\ IF Len(gq) < GatewayQueue
       THEN /\ gq' = Append(gq, relay.item)
            /\ relay' = [relay EXCEPT !.pc = IF relay.item.kind = "delta" THEN "next" ELSE "end"]
       ELSE relay' = [relay EXCEPT !.pc = "test"] /\ UNCHANGED gq
    /\ UNCHANGED <<gw, reply, provider, pull, audit>>

RelayEnds ==
    /\ relay.pc = "end"
    /\ CloseIfStopped(gw.attempt)
    /\ relay' = [relay EXCEPT !.pc = "dead"]
    /\ UNCHANGED <<gw, reply, pull, gq, audit>>

RelayStep == RelayNext \/ RelayTest \/ RelayPut \/ RelayEnds
PullStep(a) == Pull(a) \/ PullTests(a) \/ PullEnds(a)

\* Nothing of the call runs or keeps a connection any more; but a stream that was
\* given up while its thread was past the test is closed by nobody.
GatewayQuiet ==
    /\ relay.pc \in {"none", "dead"}
    /\ \A a \in Attempt : \/ pull[a].pc = "missed"
                          \/ pull[a].pc \in {"none", "dead"} /\ provider[a].state # "open"
=============================================================================
