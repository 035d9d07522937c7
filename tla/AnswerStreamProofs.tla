-------------------------- MODULE AnswerStreamProofs --------------------------
(***************************************************************************)
(* Proofs about the answer to a question, for any number of retries,       *)
(* chunks, places in the queues, crashes and deletions.                    *)
(*                                                                         *)
(* The chunks are numbered along their way.  The client, the request, the  *)
(* queue of the stream and the producer hold the chunks 1, 2, ..., e of    *)
(* the current attempt in this order (Downstream, Emitted); the provider   *)
(* stream, the first pull, the relay thread and its queue hold those that  *)
(* follow e (Upstream).  A step of the request, the producer or a thread   *)
(* moves a chunk within one half; a step of the generator's frame moves    *)
(* one across (Emits).  An attempt is left only while e = 0.               *)
(*                                                                         *)
(* What the message says needs no chunk: MsgInv is inductive with the      *)
(* types when a live request ends within the stale limit (Prompt).         *)
(***************************************************************************)
EXTENDS AnswerStream, SequenceTheorems, TLAPS

GatewayPc == {"new", "refused", "attempt", "first", "rest", "final", "done", "failed", "closed"}
PullPc == {"none", "pulling", "ending", "leaving", "missed", "dead"}
ThreadPc == {"none", "next", "call", "test", "put", "end", "wake", "dead"}

\* The shape of the state.
Types ==
    /\ gw \in [pc : GatewayPc, attempt : Attempt, stopped : SUBSET Attempt]
    /\ reply \in Item
    /\ provider \in [Attempt -> [state : {"none", "open", "over", "closed"}, sent : Nat]]
    /\ pull \in [Attempt -> [pc : PullPc, out : Item]]
    /\ relay \in [pc : ThreadPc, item : Item]
    /\ gq \in Seq(Item)
    /\ req \in [pc : {"ready", "asked", "retrieve", "start", "loop", "await", "got", "yield",
                      "cite", "end", "dead"},
                evidence : BOOLEAN, item : Item]
    /\ sse \in [pc : ThreadPc, item : Item]
    /\ sq \in Seq(Item)
    /\ client \in [deltas : Seq(Item), last : {"none", "message_end", "error"}]

\* What was audited, at each place of the generator; and that nobody was asked
\* anything before the first attempt.
Audited ==
    /\ gw.pc \in {"new", "refused"} =>
         relay.pc = "none" /\ \A a \in Attempt : provider[a].state = "none" /\ pull[a].pc = "none"
    /\ gw.pc \in {"new", "refused", "attempt", "first", "rest"} => audit = <<>>
    /\ gw.pc \in {"final", "done"} => audit = <<"success">>
    /\ gw.pc = "failed" => audit = <<"failed">>
    /\ gw.pc = "closed" => Len(audit) <= 1

\* The current attempt; and it has ended, with all its threads.
Cur == gw.attempt
Settled == relay.pc \in {"end", "dead"} /\ pull[Cur].pc = "dead" /\ provider[Cur].state = "over"

\* What the thread that pulls the first chunk has.
FirstPulled ==
    LET out == pull[Cur].out IN
    IF pull[Cur].pc = "pulling" THEN provider[Cur] = [state |-> "open", sent |-> 0]
    ELSE /\ out.kind \in {"delta", "eos", "retryable", "fatal"}
         /\ out.kind = "delta" => out = Delta(Cur, 1) /\ provider[Cur] = [state |-> "open", sent |-> 1]
         /\ out.kind = "eos" => provider[Cur] = [state |-> "over", sent |-> 0]

\* Past the first chunk: the queue and the relay thread hold the chunks from e + 1 on.
AllDeltas == \A i \in DOMAIN gq : gq[i].kind = "delta"
Relaying(e) ==
    /\ pull[Cur].pc = "dead"
    /\ provider[Cur].state \in {"open", "over"}
    /\ \A i \in DOMAIN gq : gq[i].kind = "delta" => gq[i] = Delta(Cur, e + i)
    /\ \A i \in DOMAIN gq : i < Len(gq) => gq[i].kind = "delta"
    /\ \/ relay.pc = "next" /\ AllDeltas /\ provider[Cur].sent = e + Len(gq)
       \/ /\ relay.pc \in {"test", "put"} /\ AllDeltas
          /\ relay.item.kind \in {"delta", "eos", "retryable", "fatal"}
          /\ relay.item.kind = "delta" => relay.item = Delta(Cur, e + Len(gq) + 1)
                                          /\ provider[Cur].sent = e + Len(gq) + 1
          /\ relay.item.kind = "eos" => provider[Cur] = [state |-> "over", sent |-> e + Len(gq)]
       \/ /\ relay.pc \in {"end", "dead"} /\ gq # <<>> /\ gq[Len(gq)].kind # "delta"
          /\ gq[Len(gq)].kind = "eos" => provider[Cur] = [state |-> "over", sent |-> e + Len(gq) - 1]

\* Above the frame, when it has emitted the chunks 1 to e.
Upstream(e) ==
    /\ gw.pc \in {"new", "attempt", "first", "rest"} => \A a \in gw.stopped : a < Cur
    /\ gw.pc \in {"new", "attempt", "first"} =>
         /\ e = 0 /\ relay.pc = "none" /\ gq = <<>>
         /\ \A a \in Attempt : a > Cur => provider[a] = [state |-> "none", sent |-> 0] /\ pull[a].pc = "none"
    /\ gw.pc \in {"new", "attempt"} => provider[Cur] = [state |-> "none", sent |-> 0] /\ pull[Cur].pc = "none"
    /\ gw.pc = "first" => pull[Cur].pc # "none" /\ FirstPulled
    /\ gw.pc = "rest" => Relaying(e)
    /\ gw.pc \in {"final", "done"} => Settled /\ provider[Cur].sent = e
    /\ gw.pc # "closed"

\* The request still takes items.  What it received, what the producer holds, and
\* what was emitted when m deltas are queued in between.
Active == req.pc \notin {"cite", "end", "dead"}
Received == Len(client.deltas) + IF req.pc = "got" /\ req.item.kind = "delta" THEN 1 ELSE 0
Held == IF sse.pc = "call" THEN reply ELSE sse.item
Holding == sse.pc \in {"call", "test", "put"} /\ Held.kind = "delta"
Emitted(m) == Received + m + IF Holding THEN 1 ELSE 0

\* An item that is no delta is announced only when the generator is there.
Told(item) ==
    /\ item.kind \in {"delta", "final", "eos", "fatal"}
    /\ item.kind = "final" => gw.pc \in {"final", "done"}
    /\ item.kind = "eos" => gw.pc = "done"
    /\ item.kind = "fatal" => gw.pc \in {"failed", "refused"}

Announced ==
    /\ \A i \in DOMAIN sq : Told(sq[i])
    /\ sse.pc \in {"call", "test", "put"} => Told(Held) \/ (sse.pc = "call" /\ Calling)
    /\ req.pc = "got" => Told(req.item)

\* Below the frame: m deltas in the queue, the next ones after what was received,
\* and what is no delta behind them.
Downstream(m) ==
    /\ \A i \in 1 .. m : sq[i] = Delta(Cur, Received + i)
    /\ \A i \in m + 1 .. Len(sq) : sq[i].kind # "delta"
    /\ Holding => m = Len(sq) /\ Held = Delta(Cur, Received + m + 1)
    /\ req.pc = "got" => IF req.item.kind = "delta" THEN req.item = Delta(Cur, Received)
                         ELSE m = 0 /\ ~Holding

\* The client has the first chunks of an attempt; and all of the last one.
Prefix(a) == \A i \in DOMAIN client.deltas : client.deltas[i] = Delta(a, i)
Whole == gw.pc = "done" /\ Settled /\ provider[Cur].sent = Len(client.deltas)

\* While the request is served.
Flow ==
    /\ ~sstop /\ sse.pc # "wake"
    /\ Prefix(Cur) /\ Announced
    /\ \E m \in 0 .. Len(sq) : Downstream(m) /\ Upstream(Emitted(m))

\* The inductive invariant of the stream.
StreamInv ==
    /\ Types /\ Audited
    /\ Calling => sse.pc = "call"
    /\ getter => req.pc \in {"await", "end"}
    /\ req.pc \in {"ready", "asked", "retrieve", "start"} => sse.pc = "none"
    /\ client.last # "none" => req.pc = "end"
    /\ \E a \in Attempt : Prefix(a)
    /\ Active => Flow
    /\ req.pc = "cite" \/ (client.last = "message_end" /\ req.evidence) => Whole
    /\ client.last = "error" => gw.pc \in {"failed", "refused"}

\* And that of the message.
MsgInv ==
    /\ req.pc \in {"ready", "asked", "retrieve"} => ~req.evidence
    /\ req.pc \in {"ready", "asked"} => msg = "none"
    /\ req.pc \in {"retrieve", "loop", "await", "got", "yield"} => msg \in {"streaming", "gone"}
    /\ req.pc = "start" => msg \in {IF req.evidence THEN "streaming" ELSE "completed", "gone"}
    /\ req.pc = "cite" => msg \in {"completed", "gone"}
    /\ sweep = "listed" => req.pc \in {"end", "dead"} /\ msg \in {"streaming", "gone"}
    /\ client.last # "none" => req.pc = "end"
    /\ ClientSawTruth

SignalKind == {"none", "calling", "final", "eos", "stop", "retryable", "fatal"}
USE GatewayAssumption, AnswerAssumption DEF GatewayPc, PullPc

\* The kinds of items, and that they are items.
LEMMA ItemFacts ==
    /\ \A a \in Attempt, n \in 1 .. MaxChunks : Delta(a, n) \in Item
    /\ \A a, n : Delta(a, n).kind = "delta" /\ Delta(a, n).n = n
    /\ \A k \in SignalKind : Signal(k) \in Item
    /\ \A k : Signal(k).kind = k
    /\ \A x \in Item : x.kind \in {"delta"} \cup SignalKind /\ x.n \in Nat
    /\ None \in Item /\ None.kind = "none"
<1>1. \A a \in Attempt, n \in 1 .. MaxChunks : Delta(a, n) \in Item
  BY DEF Item
<1>2. \A a, n : Delta(a, n).kind = "delta" /\ Delta(a, n).n = n
  BY DEF Delta
<1>3. \A k \in SignalKind : Signal(k) \in Item
  BY DEF Item, SignalKind
<1>4. \A k : Signal(k).kind = k
  BY DEF Signal
<1>5. \A x \in Item : x.kind \in {"delta"} \cup SignalKind /\ x.n \in Nat
  BY DEF Item, Delta, Signal, SignalKind
<1> QED BY <1>1, <1>2, <1>3, <1>4, <1>5 DEF None, SignalKind

\* Attempts are naturals, counted from zero.
LEMMA AttemptFacts ==
    /\ 0 \in Attempt /\ \A a \in Attempt : a \in Nat /\ (a < MaxRetries => a + 1 \in Attempt)
BY DEF Attempt

\* What a provider stream can return.
LEMMA OutcomesTyped ==
    ASSUME NEW a \in Attempt, Types, NEW item \in Outcomes(a)
    PROVE  /\ item \in Item
           /\ item.kind \in {"delta", "eos", "retryable", "fatal"}
           /\ item.kind = "delta" => /\ item = Delta(a, provider[a].sent + 1)
                                     /\ item.n = provider[a].sent + 1
                                     /\ provider[a].state = "open"
           /\ provider[a].state # "open" => item.kind = "eos"
<1>1. CASE provider[a].state # "open"
  BY <1>1, ItemFacts DEF Outcomes, SignalKind
<1>2. CASE provider[a].state = "open"
  BY <1>2, ItemFacts DEF Outcomes, SignalKind
<1> QED BY <1>1, <1>2

ProviderType == [state : {"none", "open", "over", "closed"}, sent : Nat]

\* What a thread's next() does to its provider stream.
LEMMA AdvanceChanges ==
    ASSUME NEW a \in Attempt, Types, NEW item \in Outcomes(a), Advance(a, item)
    PROVE  /\ provider' \in [Attempt -> ProviderType]
           /\ \A b \in Attempt \ {a} : provider'[b] = provider[b]
           /\ item.kind = "delta" => provider'[a].state = "open" /\ provider'[a].sent = provider[a].sent + 1
           /\ item.kind = "eos" /\ provider[a].state \in {"open", "over"} =>
                provider'[a].state = "over" /\ provider'[a].sent = provider[a].sent
           /\ provider[a].state \in {"open", "over"} => provider'[a].state \in {"open", "over"}
<1>1. provider[a] \in ProviderType
  BY DEF Types, ProviderType
<1>2. item.n \in Nat
  BY OutcomesTyped, ItemFacts
<1>3. CASE item.kind = "delta"
  <2>1. provider' = [provider EXCEPT ![a] = [provider[a] EXCEPT !.sent = item.n]]
    BY <1>3 DEF Advance, Types
  <2>2. [provider[a] EXCEPT !.sent = item.n] \in ProviderType
    BY <1>1, <1>2 DEF ProviderType
  <2> QED BY <1>1, <1>3, <2>1, <2>2, OutcomesTyped DEF Types, ProviderType
<1>4. CASE item.kind # "delta"
  <2>1. provider' = [provider EXCEPT ![a] = IF provider[a].state = "open"
                                            THEN [provider[a] EXCEPT !.state = "over"] ELSE provider[a]]
    BY <1>4 DEF Advance, Types
  <2>2. [provider[a] EXCEPT !.state = "over"] \in ProviderType
    BY <1>1 DEF ProviderType
  <2> QED BY <1>1, <1>4, <2>1, <2>2 DEF Types, ProviderType
<1> QED BY <1>3, <1>4

\* Closing an abandoned stream touches no other.
LEMMA CloseChanges ==
    ASSUME NEW a \in Attempt, Types, CloseIfStopped(a)
    PROVE  /\ provider' \in [Attempt -> ProviderType]
           /\ \A b \in Attempt \ {a} : provider'[b] = provider[b]
           /\ a \notin gw.stopped \/ provider[a].state # "open" => provider' = provider
<1>0. provider \in [Attempt -> ProviderType]
  BY DEF Types, ProviderType
<1>1. CASE a \in gw.stopped /\ provider[a].state = "open"
  <2>1. provider' = [provider EXCEPT ![a].state = "closed"]
    BY <1>1 DEF CloseIfStopped
  <2>2. provider' \in [Attempt -> ProviderType]
    BY <1>0, <2>1 DEF ProviderType
  <2> QED BY <1>0, <1>1, <2>1, <2>2
<1>2. CASE ~(a \in gw.stopped /\ provider[a].state = "open")
  <2>1. provider' = provider
    BY <1>2 DEF CloseIfStopped
  <2> QED BY <1>0, <2>1
<1> QED BY <1>1, <1>2

\* Closing the generator keeps its attempt.
LEMMA CloseGeneratorChanges ==
    ASSUME Types, CloseGenerator
    PROVE  /\ gw' \in [pc : GatewayPc, attempt : Attempt, stopped : SUBSET Attempt]
           /\ gw'.attempt = gw.attempt
           /\ gw'.pc = IF gw.pc \in {"new", "rest", "final"} THEN "closed" ELSE gw.pc
<1> DEFINE P == IF gw.pc \in {"new", "rest", "final"} THEN "closed" ELSE gw.pc
           S == IF gw.pc = "rest" THEN gw.stopped \cup {gw.attempt} ELSE gw.stopped
<1>1. gw' = [[gw EXCEPT !.pc = P] EXCEPT !.stopped = S]
  BY DEF CloseGenerator, Types
<1>2. P \in GatewayPc /\ S \in SUBSET Attempt
  BY DEF Types, GatewayPc
<1> HIDE DEF P, S
<1>3. gw' \in [pc : GatewayPc, attempt : Attempt, stopped : SUBSET Attempt] /\ gw'.attempt = gw.attempt /\ gw'.pc = P
  BY <1>1, <1>2 DEF Types
<1> QED BY <1>3 DEF P

-----------------------------------------------------------------------------
GwType == [pc : GatewayPc, attempt : Attempt, stopped : SUBSET Attempt]
PullType == [pc : PullPc, out : Item]
ThreadType == [pc : ThreadPc, item : Item]
ReqType == [pc : {"ready", "asked", "retrieve", "start", "loop", "await", "got", "yield",
                  "cite", "end", "dead"},
            evidence : BOOLEAN, item : Item]
ClientType == [deltas : Seq(Item), last : {"none", "message_end", "error"}]

\* The types, by name.
LEMMA TypesParts ==
    /\ Types <=> /\ gw \in GwType /\ reply \in Item /\ provider \in [Attempt -> ProviderType]
                 /\ pull \in [Attempt -> PullType] /\ relay \in ThreadType /\ gq \in Seq(Item)
                 /\ req \in ReqType /\ sse \in ThreadType /\ sq \in Seq(Item) /\ client \in ClientType
    /\ Types' <=> /\ gw' \in GwType /\ reply' \in Item /\ provider' \in [Attempt -> ProviderType]
                  /\ pull' \in [Attempt -> PullType] /\ relay' \in ThreadType /\ gq' \in Seq(Item)
                  /\ req' \in ReqType /\ sse' \in ThreadType /\ sq' \in Seq(Item) /\ client' \in ClientType
BY DEF Types, GwType, ProviderType, PullType, ThreadType, ReqType, ClientType

(* Steps of the request. *)
LEMMA GoTyped ==
    ASSUME Types, NEW pc \in {"ready", "asked", "retrieve", "start", "loop", "await", "got", "yield",
                              "cite", "end", "dead"},
           Go(pc)
    PROVE  req' \in ReqType /\ req'.pc = pc /\ req'.evidence = req.evidence /\ req'.item = req.item
BY TypesParts DEF Go, ReqType

\* A last frame leaves the deltas alone.
LEMMA SendTyped ==
    ASSUME Types, NEW frame \in {"message_end", "error"}, Send(frame)
    PROVE  client' \in ClientType /\ client'.last = frame /\ client'.deltas = client.deltas
BY TypesParts DEF Send, ClientType

(* Steps that change nothing but the request's place, the messages and the   *)
(* scanner.                                                                  *)
QuietStep ==
    /\ UNCHANGED <<gatewayVars, sse, sq, sstop, client>>
    /\ getter' => req'.pc = "await" \/ (getter /\ req' = req)
    /\ \/ req' = req
       \/ /\ Active /\ req' \in ReqType /\ req'.pc \notin {"got", "cite", "dead"}
          /\ req.pc = "got" => req.item.kind = "final"
          /\ req'.pc \in {"ready", "asked", "retrieve", "start"} =>
                req.pc \in {"ready", "asked", "retrieve", "start"}

\* Which steps these are.
LEMMA QuietSteps ==
    ASSUME StreamInv,
           \/ Ask \/ PrepareStep \/ Await \/ Continue \/ SweepStep
           \/ DeleteConversation \/ DeleteSources
    PROVE  QuietStep
<1> USE DEF StreamInv
<1>1. CASE SweepStep \/ DeleteConversation \/ DeleteSources
  BY <1>1 DEF SweepStep, SweepList, SweepWrite, DeleteConversation, DeleteSources, QuietStep, gatewayVars
<1>2. CASE Ask
  BY <1>2, GoTyped DEF Ask, QuietStep, Active
<1>3. CASE PrepareStep
  <2>1. CASE CreateMessage
    BY <2>1, GoTyped DEF CreateMessage, QuietStep, Active
  <2>2. CASE RetrieveFails
    BY <2>2, GoTyped DEF RetrieveFails, QuietStep, Active
  <2>3. CASE NoEvidence
    BY <2>3, GoTyped DEF NoEvidence, QuietStep, Active
  <2>4. CASE Retrieve
    <3>1. req' = [[req EXCEPT !.pc = "start"] EXCEPT !.evidence = TRUE]
      BY <2>4, TypesParts DEF Retrieve, ReqType
    <3>2. req' \in ReqType /\ req'.pc = "start"
      BY <3>1, TypesParts DEF ReqType
    <3> QED BY <2>4, <3>2 DEF Retrieve, QuietStep, Active
  <2> QED BY <1>3, <2>1, <2>2, <2>3, <2>4 DEF PrepareStep
<1>4. CASE Await
  BY <1>4, GoTyped DEF Await, QuietStep, Active
<1>5. CASE Continue
  BY <1>5, GoTyped DEF Continue, QuietStep, Active
<1> QED BY <1>1, <1>2, <1>3, <1>4, <1>5

\* They keep the invariant.
LEMMA QuietKeeps ==
    ASSUME StreamInv, QuietStep
    PROVE  StreamInv'
<1>1. /\ Types' /\ Audited'
      /\ getter' => req'.pc \in {"await", "end"}
  BY TypesParts DEF StreamInv, QuietStep, gatewayVars, Audited
<1>2. /\ UNCHANGED <<gw, reply, provider, pull, relay, gq, audit>>
      /\ UNCHANGED <<sse, sq, sstop, client>>
  BY DEF QuietStep, gatewayVars
<1>3. Whole' <=> Whole
  BY <1>2 DEF Whole, Settled, Cur
<1>4. ASSUME Flow, Received' = Received, req'.pc = "got" => req' = req
      PROVE  Flow'
  <2>1. (Holding' <=> Holding) /\ Held' = Held
    BY <1>2 DEF Holding, Held
  <2>2. Announced'
    BY <1>2, <1>4 DEF Flow, Announced, Told, Held, Calling
  <2>3. PICK m \in 0 .. Len(sq) : Downstream(m) /\ Upstream(Emitted(m))
    BY <1>4 DEF Flow
  <2>4. Downstream(m)'
    BY <1>2, <1>4, <2>1, <2>3 DEF Downstream, Cur
  <2>5. Upstream(Emitted(m))'
    BY <1>2, <1>4, <2>1, <2>3 DEF Upstream, Emitted, Relaying, AllDeltas, FirstPulled, Settled, Cur
  <2> QED BY <1>2, <1>4, <2>2, <2>3, <2>4, <2>5 DEF Flow, Prefix, Cur
<1>5. CASE req' = req
  <2>1. Flow => Flow'
    BY <1>2, <1>4, <1>5 DEF Received
  <2> QED BY <1>1, <1>2, <1>3, <1>5, <2>1 DEF StreamInv, Calling, Active, Prefix
<1>6. CASE req' # req
  <2>1. /\ Active /\ req'.pc \notin {"got", "cite", "dead"}
        /\ req.pc = "got" => req.item.kind = "final"
        /\ req'.pc \in {"ready", "asked", "retrieve", "start"} =>
              req.pc \in {"ready", "asked", "retrieve", "start"}
    BY <1>6 DEF QuietStep
  <2>2. client.last = "none"
    BY <2>1, TypesParts DEF StreamInv, Active, ClientType
  <2>3. Received' = Received
    BY <1>2, <2>1 DEF Received
  <2>4. Flow'
    BY <1>4, <2>1, <2>3 DEF StreamInv
  <2> QED BY <1>1, <1>2, <2>1, <2>2, <2>4 DEF StreamInv, Calling, Prefix
<1> QED BY <1>5, <1>6

-----------------------------------------------------------------------------
(* The end of the request, whatever becomes of the item in its hand. *)
LEMMA EndKeeps ==
    ASSUME StreamInv, UNCHANGED gatewayVars, UNCHANGED <<sse, sq>>,
           client' \in ClientType, client'.deltas = client.deltas,
           req.pc \notin {"end", "dead"}, req' \in ReqType, req'.pc = "end",
           client'.last = "message_end" /\ req'.evidence => Whole,
           client'.last = "error" => gw.pc \in {"failed", "refused"}
    PROVE  StreamInv'
<1>1. UNCHANGED <<gw, reply, provider, pull, relay, gq, audit>>
  BY DEF gatewayVars
<1>2. Types' /\ Audited'
  BY <1>1, TypesParts DEF StreamInv, Audited
<1>3. Whole => Whole'
  BY <1>1 DEF Whole, Settled, Cur
<1> QED BY <1>1, <1>2, <1>3 DEF StreamInv, Calling, Active, Prefix

\* A disconnect, the citations and a failed generation end the request.
LEMMA RequestEnds ==
    ASSUME StreamInv,
           Disconnect \/ Cite \/ GenerationFails
    PROVE  StreamInv'
<1>1. Types /\ client \in ClientType
  BY TypesParts DEF StreamInv
<1>2. CASE Disconnect
  <2>1. req.pc \in {"start", "await", "got", "yield"} /\ client.last = "none"
    BY <1>1, <1>2 DEF Disconnect, StreamInv, ClientType
  <2> QED BY <1>1, <1>2, <2>1, GoTyped, EndKeeps DEF Disconnect
<1>3. CASE Cite
  <2>1. req.pc = "cite" /\ Whole /\ client.last = "none"
    BY <1>1, <1>3 DEF Cite, StreamInv, ClientType
  <2>2. client' \in ClientType /\ client'.deltas = client.deltas /\ client'.last # "error"
    BY <1>1, <1>3, <2>1, SendTyped DEF Cite
  <2> QED BY <1>1, <1>3, <2>1, <2>2, GoTyped, EndKeeps DEF Cite
<1>4. CASE GenerationFails
  <2>1. req.pc = "got" /\ Failure(req.item)
    BY <1>4 DEF GenerationFails
  <2>2. gw.pc \in {"failed", "refused"}
    BY <2>1 DEF StreamInv, Active, Flow, Announced, Told, Failure
  <2>3. client' \in ClientType /\ client'.deltas = client.deltas /\ client'.last = "error"
    BY <1>1, <1>4, SendTyped DEF GenerationFails
  <2> QED BY <1>1, <1>4, <2>1, <2>2, <2>3, GoTyped, EndKeeps DEF GenerationFails
<1> QED BY <1>2, <1>3, <1>4

\* The producer starts, or there is nothing to produce.
LEMMA StartKeeps ==
    ASSUME StreamInv, Start
    PROVE  StreamInv'
<1>1. Types /\ req.pc = "start" /\ client \in ClientType /\ sse \in ThreadType /\ req \in ReqType
  BY TypesParts DEF StreamInv, Start
<1>2. CASE ~req.evidence
  <2>1. /\ req' \in ReqType /\ req'.pc = "end" /\ ~req'.evidence
        /\ client' \in ClientType /\ client'.last = "message_end" /\ client'.deltas = client.deltas
    BY <1>1, <1>2, GoTyped, SendTyped DEF Start
  <2> QED BY <1>1, <1>2, <2>1, EndKeeps DEF Start
<1>3. CASE req.evidence
  <2>1. /\ req' \in ReqType /\ req'.pc = "loop" /\ req'.item = req.item
        /\ sse' \in ThreadType /\ sse'.pc = "next" /\ sse'.item = sse.item
        /\ UNCHANGED <<sq, sstop, client, getter>> /\ UNCHANGED <<gw, reply, provider, pull, relay, gq, audit>>
    BY <1>1, <1>3, GoTyped DEF Start, ThreadType, ThreadPc, gatewayVars
  <2>2. sse.pc = "none" /\ client.last = "none" /\ Flow /\ ~getter
    BY <1>1 DEF StreamInv, ClientType, Active
  <2>3. Received' = Received /\ (Holding' <=> Holding) /\ ~Holding
    BY <1>1, <2>1, <2>2 DEF Received, Holding
  <2>4. Types' /\ Audited'
    BY <2>1, TypesParts DEF StreamInv, Audited
  <2>5. Flow'
    <3>1. PICK m \in 0 .. Len(sq) : Downstream(m) /\ Upstream(Emitted(m))
      BY <2>2 DEF Flow
    <3>2. Downstream(m)'
      BY <2>1, <2>3, <3>1 DEF Downstream, Cur
    <3>3. Upstream(Emitted(m))'
      BY <2>1, <2>3, <3>1 DEF Upstream, Emitted, Relaying, AllDeltas, FirstPulled, Settled, Cur
    <3>4. Announced'
      BY <2>1, <2>2 DEF Flow, Announced, Told
    <3> QED BY <2>1, <2>2, <3>1, <3>2, <3>3, <3>4 DEF Flow, Prefix, Cur
  <2> QED BY <2>1, <2>2, <2>4, <2>5 DEF StreamInv, Calling, Prefix
<1> QED BY <1>2, <1>3

\* An item reaches the request, or is lost on one that is over.
LEMMA GetKeeps ==
    ASSUME StreamInv, Get
    PROVE  StreamInv'
<1>1. Types /\ sq # <<>> /\ sq \in Seq(Item) /\ req \in ReqType /\ client \in ClientType
  BY TypesParts DEF StreamInv, Get
<1>2. /\ Head(sq) \in Item /\ Tail(sq) \in Seq(Item) /\ Len(sq) \in Nat \ {0}
      /\ Head(sq) = sq[1] /\ Len(Tail(sq)) = Len(sq) - 1
      /\ \A i \in 1 .. Len(sq) - 1 : Tail(sq)[i] = sq[i + 1]
  BY <1>1
<1>3. /\ UNCHANGED <<gw, reply, provider, pull, relay, gq, audit>> /\ UNCHANGED <<sse, sstop, client>>
      /\ sq' = Tail(sq) /\ ~getter'
  BY DEF Get, gatewayVars
<1>4. CASE req.pc # "await"
  <2>1. req' = req
    BY <1>4 DEF Get
  <2>2. Types' /\ Audited'
    BY <1>2, <1>3, <2>1, TypesParts DEF StreamInv, Audited
  <2>3. req.pc = "end"
    BY <1>4 DEF StreamInv, Get
  <2>4. Whole => Whole'
    BY <1>3 DEF Whole, Settled, Cur
  <2> QED BY <1>3, <2>1, <2>2, <2>3, <2>4 DEF StreamInv, Calling, Prefix, Active
<1>5. CASE req.pc = "await"
  <2>1. req' \in ReqType /\ req'.pc = "got" /\ req'.item = Head(sq)
    <3>1. req' = [[req EXCEPT !.pc = "got"] EXCEPT !.item = Head(sq)]
      BY <1>1, <1>5 DEF Get, ReqType
    <3> QED BY <1>1, <1>2, <3>1 DEF ReqType
  <2>2. Types' /\ Audited'
    BY <1>2, <1>3, <2>1, TypesParts DEF StreamInv, Audited
  <2>3. Flow /\ client.last = "none"
    BY <1>1, <1>5 DEF StreamInv, Active, ClientType
  <2>4. Flow'
    <3>1. PICK m \in 0 .. Len(sq) : Downstream(m) /\ Upstream(Emitted(m))
      BY <2>3 DEF Flow
    <3>2. (Holding' <=> Holding) /\ Held' = Held /\ Received = Len(client.deltas) /\ Received \in Nat
      BY <1>1, <1>3, <1>5 DEF Holding, Held, Received, ClientType
    <3>6. m \in Nat /\ m <= Len(sq)
      BY <1>2
    <3>10. Received \in Nat
      BY <3>2
    <3>7. \A i \in 1 .. m : sq[i] = Delta(Cur, Received + i)
      BY <3>1 DEF Downstream
    <3>8. \A i \in m + 1 .. Len(sq) : sq[i].kind # "delta"
      BY <3>1 DEF Downstream
    <3>9. Holding => m = Len(sq) /\ Held = Delta(Cur, Received + m + 1)
      BY <3>1 DEF Downstream
    <3>3. Announced'
      BY <1>2, <1>3, <2>1, <2>3 DEF Flow, Announced, Told, Held, Calling
    <3>4. CASE sq[1].kind = "delta"
      <4>1. m > 0
        BY <1>2, <3>4, <3>6, <3>8
      <4>2. Received' = Received + 1 /\ req'.item = Delta(Cur, Received + 1)
        <5>1. sq[1] = Delta(Cur, Received + 1)
          BY <3>6, <3>7, <4>1
        <5> QED BY <1>2, <1>3, <2>1, <3>2, <3>4, <5>1 DEF Received
      <4>3. \A i \in 1 .. m - 1 : Tail(sq)[i] = Delta(Cur, Received + 1 + i)
        <5> SUFFICES ASSUME NEW i \in 1 .. m - 1 PROVE Tail(sq)[i] = Delta(Cur, Received + 1 + i)
          OBVIOUS
        <5>1. i + 1 \in 1 .. m /\ Tail(sq)[i] = sq[i + 1]
          BY <1>2, <3>6
        <5>2. Received + (i + 1) = Received + 1 + i
          BY <3>6, <3>10
        <5> QED BY <3>7, <5>1, <5>2
      <4>4. \A i \in m .. Len(Tail(sq)) : Tail(sq)[i].kind # "delta"
        BY <1>2, <3>6, <3>8, <4>1
      <4>5. Holding => m - 1 = Len(Tail(sq)) /\ Held = Delta(Cur, Received + 1 + (m - 1) + 1)
        <5>1. Received + 1 + (m - 1) + 1 = Received + m + 1
          BY <3>6, <3>10
        <5> QED BY <1>2, <3>6, <3>9, <5>1
      <4>10. Len(sq') = Len(Tail(sq)) /\ m - 1 + 1 = m
        BY <1>3, <3>6
      <4>7. Downstream(m - 1)'
        BY <1>3, <2>1, <1>2, <3>2, <3>4, <3>6, <4>2, <4>3, <4>4, <4>5, <4>10 DEF Downstream, Cur
      <4>8. Emitted(m - 1)' = Emitted(m)
        <5>1. Emitted(m - 1)' = Received' + (m - 1) + (IF Holding' THEN 1 ELSE 0)
          BY DEF Emitted
        <5>2. Emitted(m) = Received + m + (IF Holding THEN 1 ELSE 0)
          BY DEF Emitted
        <5>3. Received' + (m - 1) = Received + m
          BY <3>6, <3>10, <4>2
        <5> QED BY <3>2, <5>1, <5>2, <5>3
      <4>6. Upstream(Emitted(m - 1))'
        BY <1>3, <3>1, <4>8 DEF Upstream, Relaying, AllDeltas, FirstPulled, Settled, Cur
      <4>9. m - 1 \in 0 .. Len(sq')
        BY <1>2, <1>3, <3>6, <4>1
      <4> QED BY <1>3, <2>3, <3>3, <4>6, <4>7, <4>9 DEF Flow, Prefix, Cur
    <3>5. CASE sq[1].kind # "delta"
      <4>1. m = 0 /\ ~Holding
        <5>1. m = 0
          <6>1. CASE m > 0
            <7>1. sq[1] = Delta(Cur, Received + 1)
              BY <3>6, <3>7, <6>1
            <7> QED BY <3>5, <7>1, ItemFacts
          <6> QED BY <3>6, <6>1
        <5> QED BY <1>2, <3>9, <5>1
      <4>2. Received' = Received
        BY <1>2, <1>3, <2>1, <3>2, <3>5, <1>1 DEF Received, ClientType
      <4>4. Downstream(0)'
        BY <1>2, <1>3, <2>1, <3>1, <3>2, <3>5, <4>1, <4>2 DEF Downstream, Cur
      <4>5. Emitted(0)' = Emitted(m)
        BY <3>2, <4>1, <4>2 DEF Emitted
      <4>6. Upstream(Emitted(0))'
        BY <1>3, <3>1, <4>5 DEF Upstream, Relaying, AllDeltas, FirstPulled, Settled, Cur
      <4> QED BY <1>2, <1>3, <2>3, <3>3, <4>1, <4>4, <4>6 DEF Flow, Prefix, Cur
    <3> QED BY <3>4, <3>5
  <2> QED BY <1>3, <1>5, <2>1, <2>2, <2>3, <2>4 DEF StreamInv, Calling, Prefix
<1> QED BY <1>4, <1>5

\* The item in hand becomes the client's next delta.
LEMMA SendDeltaKeeps ==
    ASSUME StreamInv, SendDelta
    PROVE  StreamInv'
<1>1. /\ Types /\ client \in ClientType /\ client.deltas \in Seq(Item) /\ req \in ReqType /\ req.item \in Item
      /\ req.pc = "got" /\ req.item.kind = "delta"
  BY TypesParts DEF StreamInv, SendDelta, ReqType, ClientType
<1>2. /\ UNCHANGED <<gw, reply, provider, pull, relay, gq, audit>> /\ UNCHANGED <<sse, sq, sstop, getter>>
      /\ req' \in ReqType /\ req'.pc = "yield"
  BY <1>1, GoTyped DEF SendDelta, gatewayVars
<1>3. /\ client' \in ClientType /\ client'.last = client.last
      /\ client'.deltas = Append(client.deltas, req.item)
  <2> DEFINE new == Append(client.deltas, req.item)
  <2>1. new \in Seq(Item)
    BY <1>1
  <2>2. client' = [client EXCEPT !.deltas = new]
    BY <1>1 DEF SendDelta, ClientType
  <2>3. ASSUME NEW x \in Seq(Item)
        PROVE  /\ [client EXCEPT !.deltas = x] \in ClientType
               /\ [client EXCEPT !.deltas = x].last = client.last
               /\ [client EXCEPT !.deltas = x].deltas = x
    BY <1>1 DEF ClientType
  <2> QED BY <2>1, <2>2, <2>3
<1>4. Types' /\ Audited'
  BY <1>1, <1>2, <1>3, TypesParts DEF StreamInv, Audited
<1>5. Flow /\ client.last = "none" /\ ~getter
  BY <1>1 DEF StreamInv, Active, ClientType
<1>6. PICK m \in 0 .. Len(sq) : Downstream(m) /\ Upstream(Emitted(m))
  BY <1>5 DEF Flow
<1>7. Len(client.deltas) \in Nat /\ Len(client'.deltas) = Len(client.deltas) + 1
  BY <1>1, <1>3
<1>8. Received = Len(client.deltas) + 1 /\ Received' = Received
  BY <1>1, <1>2, <1>7 DEF Received
<1>9. req.item = Delta(Cur, Received)
  BY <1>1, <1>6 DEF Downstream
<1>10. Prefix(Cur)'
  <2>1. \A i \in DOMAIN client'.deltas : client'.deltas[i] = Delta(gw.attempt, i)
    BY <1>1, <1>3, <1>5, <1>7, <1>8, <1>9 DEF Flow, Prefix, Cur
  <2> QED BY <1>2, <2>1 DEF Prefix, Cur
<1>11. (Holding' <=> Holding) /\ Held' = Held
  BY <1>2 DEF Holding, Held
<1>12. Downstream(m)'
  BY <1>2, <1>6, <1>8, <1>11 DEF Downstream, Cur
<1>13. Upstream(Emitted(m))'
  <2>1. Emitted(m)' = Emitted(m)
    BY <1>8, <1>11 DEF Emitted
  <2> QED BY <1>2, <1>6, <2>1 DEF Upstream, Relaying, AllDeltas, FirstPulled, Settled, Cur
<1>14. Announced'
  BY <1>2, <1>5 DEF Flow, Announced, Told, Held, Calling
<1>15. Flow'
  BY <1>2, <1>5, <1>6, <1>10, <1>12, <1>13, <1>14 DEF Flow
<1>16. gw'.attempt \in Attempt
  BY <1>4, TypesParts DEF GwType
<1> QED BY <1>2, <1>3, <1>4, <1>5, <1>10, <1>15, <1>16 DEF StreamInv, Calling, Cur

\* The end of the stream stands for everything that was sent.
LEMMA CompleteKeeps ==
    ASSUME StreamInv, Complete
    PROVE  StreamInv'
<1>1. /\ Types /\ client \in ClientType /\ client.deltas \in Seq(Item) /\ req \in ReqType
      /\ req.pc = "got" /\ req.item.kind = "eos"
  BY TypesParts DEF StreamInv, Complete, ClientType
<1>2. /\ UNCHANGED <<gw, reply, provider, pull, relay, gq, audit>> /\ UNCHANGED <<sse, sq, getter, client>>
      /\ req' \in ReqType /\ req'.pc = "cite"
  BY <1>1, GoTyped DEF Complete, gatewayVars
<1>3. Flow /\ client.last = "none" /\ ~getter
  BY <1>1 DEF StreamInv, Active, ClientType
<1>4. gw.pc = "done"
  BY <1>1, <1>3 DEF Flow, Announced, Told
<1>5. PICK m \in 0 .. Len(sq) : Downstream(m) /\ Upstream(Emitted(m))
  BY <1>3 DEF Flow
<1>6. m = 0 /\ ~Holding
  BY <1>1, <1>5 DEF Downstream
<1>7. Received = Len(client.deltas) /\ Len(client.deltas) \in Nat
  BY <1>1 DEF Received
<1>8. Emitted(m) = Len(client.deltas)
  BY <1>6, <1>7 DEF Emitted
<1>9. Whole
  BY <1>4, <1>5, <1>8 DEF Upstream, Whole
<1>10. Whole'
  BY <1>2, <1>9 DEF Whole, Settled, Cur
<1>11. Types' /\ Audited'
  BY <1>1, <1>2, TypesParts DEF StreamInv, Audited
<1> QED BY <1>2, <1>3, <1>10, <1>11 DEF StreamInv, Calling, Active, Prefix

-----------------------------------------------------------------------------
(* The producer.  When the request is over, its steps need only keep what    *)
(* was announced.                                                            *)
LEMMA IdleKeeps ==
    ASSUME StreamInv, ~Active, Types', Audited', UNCHANGED <<req, client, getter>>,
           Calling' => sse'.pc = "call",
           Whole => Whole', gw.pc \in {"failed", "refused"} => gw'.pc = gw.pc
    PROVE  StreamInv'
BY DEF StreamInv, Active, Prefix

\* The producer asks for the next item: it holds none.
LEMMA ProduceNextKeeps ==
    ASSUME StreamInv, ProduceNext
    PROVE  StreamInv'
<1>1. Types /\ sse \in ThreadType /\ sse.pc = "next"
  BY TypesParts DEF StreamInv, ProduceNext
<1>2. /\ UNCHANGED <<gw, provider, pull, relay, gq, audit>> /\ UNCHANGED <<req, client, getter, sq, sstop>>
      /\ sse' \in ThreadType /\ sse'.pc = "call" /\ reply' \in Item /\ reply'.kind = "calling"
  BY <1>1, ItemFacts DEF ProduceNext, ThreadType, ThreadPc, SignalKind
<1>3. Types' /\ Audited'
  BY <1>1, <1>2, TypesParts DEF StreamInv, Audited
<1>4. CASE ~Active
  BY <1>2, <1>3, <1>4, IdleKeeps DEF Whole, Settled, Cur
<1>5. CASE Active
  <2>1. Flow
    BY <1>5 DEF StreamInv
  <2>2. PICK m \in 0 .. Len(sq) : Downstream(m) /\ Upstream(Emitted(m))
    BY <2>1 DEF Flow
  <2>3. ~Holding /\ ~Holding' /\ Received' = Received
    BY <1>1, <1>2 DEF Holding, Held, Received
  <2>4. Downstream(m)'
    BY <1>2, <2>2, <2>3 DEF Downstream, Cur
  <2>5. Upstream(Emitted(m))'
    <3>1. Emitted(m)' = Emitted(m)
      BY <2>3 DEF Emitted
    <3> QED BY <1>2, <2>2, <3>1 DEF Upstream, Relaying, AllDeltas, FirstPulled, Settled, Cur
  <2>6. Announced'
    BY <1>2, <2>1 DEF Flow, Announced, Told, Calling
  <2>7. Flow'
    BY <1>2, <2>1, <2>2, <2>4, <2>5, <2>6 DEF Flow, Prefix, Cur
  <2> QED BY <1>1, <1>2, <1>3, <1>5, <2>7 DEF StreamInv, Active, Prefix
<1> QED BY <1>4, <1>5

\* The producer moves the item in hand along; or it drops what is no delta.
LEMMA ProducerMoves ==
    ASSUME StreamInv, Active,
           UNCHANGED <<gw, reply, provider, pull, relay, gq, audit>>,
           UNCHANGED <<req, client, getter, sq, sstop>>,
           sse' \in ThreadType, sse'.pc # "wake", ~Calling, sse.pc # "none",
           \/ sse'.pc \in {"test", "put"} /\ sse.pc \in {"call", "test", "put"} /\ sse'.item = Held
           \/ sse'.pc \in {"end", "dead"} /\ ~Holding
    PROVE  StreamInv'
<1>1. Types' /\ Audited'
  BY TypesParts DEF StreamInv, Audited
<1>2. Flow
  BY DEF StreamInv
<1>3. PICK m \in 0 .. Len(sq) : Downstream(m) /\ Upstream(Emitted(m))
  BY <1>2 DEF Flow
<1>4. (Holding' <=> Holding) /\ (Holding => Held' = Held) /\ Received' = Received
  BY DEF Holding, Held, Received
<1>5. Downstream(m)'
  BY <1>3, <1>4 DEF Downstream, Cur
<1>6. Upstream(Emitted(m))'
  <2>1. Emitted(m)' = Emitted(m)
    BY <1>4 DEF Emitted
  <2> QED BY <1>3, <2>1 DEF Upstream, Relaying, AllDeltas, FirstPulled, Settled, Cur
<1>7. Announced'
  BY <1>2 DEF Flow, Announced, Told, Calling, Held
<1>8. Flow'
  BY <1>2, <1>3, <1>5, <1>6, <1>7 DEF Flow, Prefix, Cur
<1> QED BY <1>1, <1>8 DEF StreamInv, Active, Prefix, Calling

\* Such a step keeps the invariant.
LEMMA ProducerMovesKeeps ==
    ASSUME StreamInv,
           \/ ProduceItem \/ ProduceTest \/ ProducerEnds \/ WakeGetter
           \/ ProducePut /\ sq' = sq
    PROVE  StreamInv'
<1>1. /\ Types /\ sse \in ThreadType /\ sq \in Seq(Item) /\ reply \in Item
      /\ UNCHANGED <<reply, provider, pull, relay, gq, audit>> /\ UNCHANGED <<req, client, getter, sstop>>
  BY TypesParts DEF StreamInv, ProduceItem, ProduceTest, ProducerEnds, WakeGetter, ProducePut, gatewayVars
<1>2. sse.pc # "call" => ~Calling
  BY DEF StreamInv
<1>3. CASE ProduceItem
  <2>1. /\ sse.pc = "call" /\ ~Calling /\ UNCHANGED <<gw, sq>>
        /\ sse' \in ThreadType /\ sse'.pc = "test" /\ sse'.item = Held
    BY <1>1, <1>3 DEF ProduceItem, ThreadType, ThreadPc, Held, gatewayVars
  <2>2. Types' /\ Audited'
    BY <1>1, <2>1, TypesParts DEF StreamInv, Audited
  <2>3. CASE Active
    BY <1>1, <2>1, <2>3, ProducerMoves
  <2>4. CASE ~Active
    BY <1>1, <2>1, <2>2, <2>4, IdleKeeps DEF Whole, Settled, Cur, Calling
  <2> QED BY <2>3, <2>4
<1>4. CASE ProduceTest \/ (ProducePut /\ sq' = sq)
  <2>1. /\ sse.pc \in {"test", "put"} /\ UNCHANGED <<gw, sq>>
        /\ sse' \in ThreadType /\ sse'.pc \in {"end", "put", "test"} /\ sse'.item = sse.item
        /\ sse'.pc = "end" => sstop
    <3>1. CASE ProduceTest
      BY <1>1, <3>1 DEF ProduceTest, ThreadType, ThreadPc, gatewayVars
    <3>2. CASE ProducePut /\ sq' = sq
      <4>1. Append(sq, sse.item) # sq
        BY <1>1 DEF ThreadType
      <4> QED BY <1>1, <3>2, <4>1 DEF ProducePut, ThreadType, ThreadPc, gatewayVars
    <3> QED BY <1>4, <3>1, <3>2
  <2>2. Types' /\ Audited'
    BY <1>1, <2>1, TypesParts DEF StreamInv, Audited
  <2>3. CASE Active
    <3>1. ~sstop
      BY <2>3 DEF StreamInv, Flow
    <3> QED BY <1>1, <1>2, <2>1, <2>3, <3>1, ProducerMoves DEF Held
  <2>4. CASE ~Active
    BY <1>1, <1>2, <2>1, <2>2, <2>4, IdleKeeps DEF Whole, Settled, Cur, Calling
  <2> QED BY <2>3, <2>4
<1>5. CASE ProducerEnds
  <2>1. /\ sse.pc = "end" /\ sq' = sq
        /\ sse' \in ThreadType /\ sse'.pc = IF sstop THEN "wake" ELSE "dead"
    BY <1>1, <1>5 DEF ProducerEnds, ThreadType, ThreadPc
  <2>2. CASE Active
    <3>1. ~sstop
      BY <2>2 DEF StreamInv, Flow
    <3>2. gw' = gw
      BY <1>5, <3>1 DEF ProducerEnds
    <3>3. ~Holding
      BY <2>1 DEF Holding
    <3> QED BY <1>1, <1>2, <2>1, <2>2, <3>1, <3>2, <3>3, ProducerMoves
  <2>3. CASE ~Active
    <3>1. /\ gw' \in GwType /\ gw'.attempt = gw.attempt
          /\ gw'.pc = gw.pc \/ (gw'.pc = "closed" /\ gw.pc \in {"new", "rest", "final"})
      <4>1. CASE sstop
        BY <1>1, <1>5, <4>1, CloseGeneratorChanges DEF ProducerEnds, GwType
      <4>2. CASE ~sstop
        BY <1>1, <1>5, <4>2, TypesParts DEF ProducerEnds
      <4> QED BY <4>1, <4>2
    <3>2. Types'
      BY <1>1, <2>1, <3>1, TypesParts
    <3>3. Audited'
      <4>1. audit' = audit /\ Len(<<>>) <= 1 /\ Len(<<"success">>) <= 1
        BY <1>1
      <4>2. CASE gw'.pc = gw.pc
        BY <1>1, <4>1, <4>2 DEF StreamInv, Audited
      <4>3. CASE gw'.pc = "closed" /\ gw.pc \in {"new", "rest", "final"}
        <5>1. audit = <<>> \/ audit = <<"success">>
          BY <4>3 DEF StreamInv, Audited
        <5> QED BY <4>1, <4>3, <5>1 DEF Audited
      <4> QED BY <3>1, <4>2, <4>3
    <3> QED BY <1>1, <1>2, <2>1, <2>3, <3>1, <3>2, <3>3, IdleKeeps DEF Whole, Settled, Cur, Calling
  <2> QED BY <2>2, <2>3
<1>6. CASE WakeGetter
  <2>1. /\ sse.pc = "wake" /\ UNCHANGED gw
        /\ sse' \in ThreadType /\ sse'.pc = "dead" /\ sq' \in Seq(Item)
    BY <1>1, <1>6, ItemFacts DEF WakeGetter, ThreadType, ThreadPc, SignalKind, gatewayVars
  <2>2. ~Active
    BY <2>1 DEF StreamInv, Flow
  <2>3. Types' /\ Audited'
    BY <1>1, <2>1, TypesParts DEF StreamInv, Audited
  <2> QED BY <1>1, <1>2, <2>1, <2>2, <2>3, IdleKeeps DEF Whole, Settled, Cur, Calling
<1> QED BY <1>3, <1>4, <1>5, <1>6

\* The item in hand is appended to the queue: emitted as before.
LEMMA ProducePutKeeps ==
    ASSUME StreamInv, ProducePut, sq' # sq
    PROVE  StreamInv'
<1>1. /\ Types /\ sse \in ThreadType /\ sse.item \in Item /\ sq \in Seq(Item) /\ sse.pc = "put"
      /\ UNCHANGED <<gw, reply, provider, pull, relay, gq, audit>> /\ UNCHANGED <<req, client, getter, sstop>>
  BY TypesParts DEF StreamInv, ProducePut, gatewayVars, ThreadType
<1>2. /\ sq' = Append(sq, sse.item)
      /\ sse' \in ThreadType
      /\ sse'.pc = IF sse.item.kind \in {"delta", "final"} THEN "next" ELSE "end"
  BY <1>1 DEF ProducePut, ThreadType, ThreadPc
<1>3. /\ sq' \in Seq(Item) /\ Len(sq) \in Nat /\ Len(sq') = Len(sq) + 1
      /\ sq'[Len(sq) + 1] = sse.item /\ \A i \in 1 .. Len(sq) : sq'[i] = sq[i]
  BY <1>1, <1>2
<1>4. Types' /\ Audited'
  BY <1>1, <1>2, <1>3, TypesParts DEF StreamInv, Audited
<1>5. ~Calling /\ ~Calling'
  BY <1>1 DEF StreamInv, Calling
<1>6. CASE ~Active
  BY <1>1, <1>2, <1>4, <1>5, <1>6, IdleKeeps DEF Whole, Settled, Cur
<1>7. CASE Active
  <2>1. Flow
    BY <1>7 DEF StreamInv
  <2>2. PICK m \in 0 .. Len(sq) : Downstream(m) /\ Upstream(Emitted(m))
    BY <2>1 DEF Flow
  <2>3. /\ m \in Nat /\ m <= Len(sq) /\ Held = sse.item
        /\ (Holding <=> sse.item.kind = "delta") /\ ~Holding' /\ Received' = Received
    BY <1>1, <1>2, <1>3 DEF Holding, Held, Received
  <2>4. Received \in Nat
    <3>1. client.deltas \in Seq(Item)
      BY <1>1, TypesParts DEF ClientType
    <3>2. Len(client.deltas) \in Nat
      BY <3>1
    <3>3. Received = Len(client.deltas) \/ Received = Len(client.deltas) + 1
      <4>1. CASE req.pc = "got" /\ req.item.kind = "delta"
        BY <4>1 DEF Received
      <4>2. CASE ~(req.pc = "got" /\ req.item.kind = "delta")
        <5>1. Received = Len(client.deltas) + 0
          BY <4>2 DEF Received
        <5> QED BY <3>2, <5>1
      <4> QED BY <4>1, <4>2
    <3> QED BY <3>2, <3>3
  <2>5. /\ \A i \in 1 .. m : sq[i] = Delta(Cur, Received + i)
        /\ \A i \in m + 1 .. Len(sq) : sq[i].kind # "delta"
        /\ Holding => m = Len(sq) /\ Held = Delta(Cur, Received + m + 1)
    BY <2>2 DEF Downstream
  <2>6. req.pc = "got" => IF req.item.kind = "delta" THEN req.item = Delta(Cur, Received)
                          ELSE m = 0 /\ ~Holding
    BY <2>2 DEF Downstream
  <2>7. Announced'
    <3>1. \A i \in DOMAIN sq' : Told(sq'[i])
      BY <1>1, <1>3, <1>5, <2>1, <2>3 DEF Flow, Announced
    <3> QED BY <1>1, <1>2, <2>1, <3>1 DEF Flow, Announced, Told
  <2>8. CASE Holding
    <3>1. \A i \in 1 .. m + 1 : sq'[i] = Delta(Cur, Received + i)
      <4> SUFFICES ASSUME NEW i \in 1 .. m + 1 PROVE sq'[i] = Delta(Cur, Received + i)
        OBVIOUS
      <4>1. CASE i <= m
        BY <1>3, <2>3, <2>5, <4>1
      <4>2. CASE i = m + 1
        <5>1. sq'[i] = Delta(Cur, Received + m + 1)
          BY <1>3, <2>3, <2>5, <2>8, <4>2
        <5>2. Received + m + 1 = Received + i
          BY <2>3, <2>4, <4>2
        <5> QED BY <5>1, <5>2
      <4> QED BY <2>3, <4>1, <4>2
    <3>2. Downstream(m + 1)'
      BY <1>1, <1>3, <2>3, <2>5, <2>6, <2>8, <3>1 DEF Downstream, Cur
    <3>3. Emitted(m + 1)' = Emitted(m)
      <4>1. Emitted(m + 1)' = Received' + (m + 1) + (IF Holding' THEN 1 ELSE 0)
        BY DEF Emitted
      <4>2. Emitted(m) = Received + m + (IF Holding THEN 1 ELSE 0)
        BY DEF Emitted
      <4>3. Received + (m + 1) = Received + m + 1 /\ Received + (m + 1) + 0 = Received + (m + 1)
        BY <2>3, <2>4
      <4> QED BY <2>3, <2>8, <4>1, <4>2, <4>3
    <3>4. Upstream(Emitted(m + 1))'
      BY <1>1, <2>2, <3>3 DEF Upstream, Relaying, AllDeltas, FirstPulled, Settled, Cur
    <3>5. m + 1 \in 0 .. Len(sq')
      BY <1>3, <2>3
    <3>6. Flow'
      BY <1>1, <1>2, <2>1, <2>7, <3>2, <3>4, <3>5 DEF Flow, Prefix, Cur
    <3> QED BY <1>1, <1>2, <1>4, <1>5, <1>7, <3>6 DEF StreamInv, Active, Prefix
  <2>9. CASE ~Holding
    <3>1. \A i \in 1 .. m : sq'[i] = Delta(Cur, Received + i)
      BY <1>3, <2>3, <2>5
    <3>2. \A i \in m + 1 .. Len(sq') : sq'[i].kind # "delta"
      BY <1>3, <2>3, <2>5, <2>9
    <3>3. Downstream(m)'
      BY <1>1, <2>3, <2>6, <2>9, <3>1, <3>2 DEF Downstream, Cur
    <3>4. Emitted(m)' = Emitted(m)
      BY <2>3, <2>9 DEF Emitted
    <3>5. Upstream(Emitted(m))'
      BY <1>1, <2>2, <3>4 DEF Upstream, Relaying, AllDeltas, FirstPulled, Settled, Cur
    <3>6. m \in 0 .. Len(sq')
      BY <1>3, <2>3
    <3>7. Flow'
      BY <1>1, <1>2, <2>1, <2>7, <3>3, <3>5, <3>6 DEF Flow, Prefix, Cur
    <3> QED BY <1>1, <1>2, <1>4, <1>5, <1>7, <3>7 DEF StreamInv, Active, Prefix
  <2> QED BY <2>8, <2>9
<1> QED BY <1>6, <1>7

-----------------------------------------------------------------------------
\* What the client received is counted in naturals.
LEMMA ReceivedIsNat ==
    ASSUME Types
    PROVE  /\ Len(client.deltas) \in Nat
           /\ Received \in Nat
           /\ Received = 0 => Len(client.deltas) = 0 /\ ~(req.pc = "got" /\ req.item.kind = "delta")
<1>1. client.deltas \in Seq(Item)
  BY TypesParts DEF ClientType
<1>2. Len(client.deltas) \in Nat
  BY <1>1
<1>3. CASE req.pc = "got" /\ req.item.kind = "delta"
  BY <1>2, <1>3 DEF Received
<1>4. CASE ~(req.pc = "got" /\ req.item.kind = "delta")
  <2>1. Received = Len(client.deltas) + 0
    BY <1>4 DEF Received
  <2> QED BY <1>2, <1>4, <2>1
<1> QED BY <1>2, <1>3, <1>4

(* The gateway's frame runs inside the producer's next(): what it returns    *)
(* follows what was emitted before.                                          *)
Emits(e) ==
    \/ reply'.kind # "delta" /\ Upstream(e)' /\ (gw'.attempt = gw.attempt \/ e = 0)
    \/ /\ reply' = Delta(Cur, e + 1) /\ gw'.attempt = gw.attempt /\ Upstream(e + 1)'
       /\ gw.pc \in {"first", "rest"}

\* A step of the frame keeps the invariant when it emits what comes next.
LEMMA GatewayMoves ==
    ASSUME StreamInv, UNCHANGED answerVars, Calling, gw.pc \in {"new", "attempt", "first", "rest", "final"},
           gw.pc = "final" => gw'.pc = "done",
           Types', Audited', Told(reply)' \/ Calling',
           \A e \in Nat : Upstream(e) => Emits(e)
    PROVE  StreamInv'
<1>1. /\ Types /\ sse.pc = "call" /\ sq \in Seq(Item) /\ Len(sq) \in Nat
      /\ UNCHANGED <<req, sse, sq, sstop, getter, client>>
  BY TypesParts DEF StreamInv, answerVars
<1>2. CASE ~Active
  BY <1>1, <1>2, IdleKeeps DEF Whole
<1>3. CASE Active
  <2>1. Flow
    BY <1>3 DEF StreamInv
  <2>2. PICK m \in 0 .. Len(sq) : Downstream(m) /\ Upstream(Emitted(m))
    BY <2>1 DEF Flow
  <2>3. m \in Nat /\ m <= Len(sq) /\ Received \in Nat /\ Len(client.deltas) \in Nat
    BY <1>1, ReceivedIsNat
  <2>4. /\ Held' = reply' /\ (Holding' <=> reply'.kind = "delta") /\ ~Holding
        /\ Received' = Received
    BY <1>1 DEF Holding, Held, Calling, Received
  <2>5. Emitted(m) = Received + m
    <3>1. Emitted(m) = Received + m + 0
      BY <2>4 DEF Emitted
    <3> QED BY <2>3, <3>1
  <2>6. /\ \A i \in 1 .. m : sq[i] = Delta(Cur, Received + i)
        /\ \A i \in m + 1 .. Len(sq) : sq[i].kind # "delta"
        /\ req.pc = "got" => IF req.item.kind = "delta" THEN req.item = Delta(Cur, Received)
                             ELSE m = 0
    BY <2>2 DEF Downstream
  <2>7. /\ \A i \in DOMAIN sq : Told(sq[i]) /\ Told(sq[i])'
        /\ req.pc = "got" => Told(req.item) /\ Told(req.item)'
    <3>1. /\ \A i \in DOMAIN sq : Told(sq[i])
          /\ req.pc = "got" => Told(req.item)
      BY <2>1 DEF Flow, Announced
    <3> QED BY <1>1, <3>1 DEF Told
  <2>8. Announced'
    BY <1>1, <2>4, <2>7 DEF Announced
  <2>12. PICK e \in Nat : e = Received + m
    BY <2>3
  <2>9. Emits(e)
    BY <2>2, <2>5, <2>12
  <2>10. CASE reply'.kind # "delta" /\ Upstream(e)' /\ (gw'.attempt = gw.attempt \/ e = 0)
    <3>1. Prefix(Cur)' /\ Downstream(m)'
      <4>1. CASE gw'.attempt = gw.attempt
        BY <1>1, <2>1, <2>4, <2>6, <2>10, <4>1 DEF Flow, Prefix, Downstream, Cur
      <4>2. CASE e = 0
        <5>1. Received = 0 /\ m = 0
          BY <2>3, <2>12, <4>2
        <5>2. Len(client.deltas) = 0 /\ ~(req.pc = "got" /\ req.item.kind = "delta")
          BY <1>1, <5>1, ReceivedIsNat
        <5>3. client.deltas \in Seq(Item)
          BY <1>1, TypesParts DEF ClientType
        <5> QED BY <1>1, <2>4, <2>6, <2>10, <5>1, <5>2, <5>3 DEF Prefix, Downstream
      <4> QED BY <2>10, <4>1, <4>2
    <3>2. Emitted(m)' = e
      <4>1. Emitted(m)' = Received' + m + (IF Holding' THEN 1 ELSE 0)
        BY DEF Emitted
      <4>2. Emitted(m)' = Received + m + 0
        BY <2>4, <2>10, <4>1
      <4> QED BY <2>3, <2>12, <4>2
    <3>3. Upstream(Emitted(m))'
      BY <2>10, <3>2
    <3>4. Flow'
      BY <1>1, <2>1, <2>8, <3>1, <3>3 DEF Flow
    <3> QED BY <1>1, <1>3, <3>4 DEF StreamInv, Active, Prefix
  <2>11. CASE /\ reply' = Delta(Cur, e + 1) /\ gw'.attempt = gw.attempt
              /\ Upstream(e + 1)' /\ gw.pc \in {"first", "rest"}
    <3>1. Holding'
      BY <2>4, <2>11, ItemFacts
    <3>2. m = Len(sq)
      <4>1. CASE m < Len(sq)
        <5>1. m + 1 \in DOMAIN sq /\ sq[m + 1].kind # "delta"
          <6>1. m + 1 \in m + 1 .. Len(sq) /\ m + 1 \in 1 .. Len(sq)
            BY <1>1, <2>3, <4>1
          <6>2. DOMAIN sq = 1 .. Len(sq)
            BY <1>1
          <6> QED BY <2>6, <6>1, <6>2
        <5> QED BY <2>7, <2>11, <5>1 DEF Told
      <4> QED BY <2>3, <4>1
    <3>3. req.pc = "got" => req.item.kind = "delta"
      BY <2>7, <2>11 DEF Told
    <3>4. Downstream(m)'
      BY <1>1, <2>4, <2>6, <2>11, <2>12, <3>2, <3>3 DEF Downstream, Cur
    <3>5. Emitted(m)' = e + 1
      <4>1. Emitted(m)' = Received' + m + (IF Holding' THEN 1 ELSE 0)
        BY DEF Emitted
      <4> QED BY <2>4, <2>12, <3>1, <4>1
    <3>6. Upstream(Emitted(m))'
      BY <2>11, <3>5
    <3>7. Flow'
      BY <1>1, <2>1, <2>8, <2>11, <3>4, <3>6 DEF Flow, Prefix, Cur
    <3> QED BY <1>1, <1>3, <3>7 DEF StreamInv, Active, Prefix
  <2> QED BY <2>9, <2>10, <2>11 DEF Emits
<1> QED BY <1>2, <1>3

(* A step of a thread: what was emitted is not touched. *)
LEMMA ThreadMoves ==
    ASSUME StreamInv, UNCHANGED answerVars, UNCHANGED <<gw, reply, audit>>, Types',
           gw.pc \notin {"new", "refused"},
           \A e \in Nat : Upstream(e) => Upstream(e)',
           Whole => Whole'
    PROVE  StreamInv'
<1>1. /\ Types /\ sq \in Seq(Item) /\ Len(sq) \in Nat
      /\ UNCHANGED <<req, sse, sq, sstop, getter, client>>
  BY TypesParts DEF StreamInv, answerVars
<1>2. Audited'
  BY DEF StreamInv, Audited
<1>3. CASE ~Active
  BY <1>1, <1>2, <1>3, IdleKeeps DEF StreamInv, Calling
<1>4. CASE Active
  <2>1. Flow
    BY <1>4 DEF StreamInv
  <2>2. PICK m \in 0 .. Len(sq) : Downstream(m) /\ Upstream(Emitted(m))
    BY <2>1 DEF Flow
  <2>3. (Holding' <=> Holding) /\ Held' = Held /\ Received' = Received
    BY <1>1 DEF Holding, Held, Received
  <2>4. Downstream(m)'
    BY <1>1, <2>2, <2>3 DEF Downstream, Cur
  <2>5. Emitted(m) \in Nat /\ Emitted(m)' = Emitted(m)
    <3>1. Emitted(m)' = Emitted(m)
      BY <2>3 DEF Emitted
    <3>2. Received \in Nat /\ m \in Nat
      BY <1>1, ReceivedIsNat
    <3>3. Emitted(m) = Received + m + (IF Holding THEN 1 ELSE 0)
      BY DEF Emitted
    <3>4. Emitted(m) = Received + m + 1 \/ Emitted(m) = Received + m + 0
      BY <3>3
    <3> QED BY <3>1, <3>2, <3>4
  <2>6. Upstream(Emitted(m))'
    <3>1. PICK e \in Nat : e = Emitted(m)
      BY <2>5
    <3>2. Upstream(e)'
      BY <2>2, <3>1
    <3> QED BY <2>5, <3>1, <3>2
  <2>7. Announced'
    BY <1>1, <2>1, <2>3 DEF Flow, Announced, Told, Calling
  <2>8. Flow'
    BY <1>1, <2>1, <2>4, <2>6, <2>7 DEF Flow, Prefix, Cur
  <2> QED BY <1>1, <1>2, <1>4, <2>8 DEF StreamInv, Active, Prefix, Calling
<1> QED BY <1>3, <1>4

\* A provider stream is its state and what it sent.
LEMMA ProviderIs ==
    ASSUME NEW p \in ProviderType
    PROVE  \A s, n : p.state = s /\ p.sent = n => p = [state |-> s, sent |-> n]
BY DEF ProviderType

\* An attempt opens its provider stream; nothing was emitted before.
LEMMA StartAttemptKeeps ==
    ASSUME StreamInv, StartAttempt, UNCHANGED answerVars
    PROVE  StreamInv'
<1>1. /\ Types /\ gw \in GwType /\ Cur \in Attempt /\ gw.pc \in {"new", "attempt"} /\ Calling
      /\ provider \in [Attempt -> ProviderType] /\ pull \in [Attempt -> PullType]
      /\ UNCHANGED <<reply, relay, gq, audit>>
  BY TypesParts DEF StreamInv, StartAttempt, GwType, Cur
<1>2. /\ gw' \in GwType /\ gw'.pc = "first" /\ gw'.attempt = gw.attempt /\ gw'.stopped = gw.stopped
  BY <1>1 DEF StartAttempt, GwType
<1>3. /\ provider' \in [Attempt -> ProviderType]
      /\ provider'[Cur].state = "open" /\ provider'[Cur].sent = provider[Cur].sent
      /\ \A a \in Attempt \ {Cur} : provider'[a] = provider[a]
  <2>1. provider' = [provider EXCEPT ![Cur] = [provider[Cur] EXCEPT !.state = "open"]]
    BY <1>1 DEF StartAttempt, Cur
  <2>2. [provider[Cur] EXCEPT !.state = "open"] \in ProviderType
    BY <1>1 DEF ProviderType
  <2> QED BY <1>1, <2>1, <2>2 DEF ProviderType
<1>4. /\ pull' \in [Attempt -> PullType] /\ pull'[Cur].pc = "pulling"
      /\ \A a \in Attempt \ {Cur} : pull'[a] = pull[a]
  <2>1. pull' = [pull EXCEPT ![Cur] = [pull[Cur] EXCEPT !.pc = "pulling"]]
    BY <1>1 DEF StartAttempt, Cur
  <2>2. [pull[Cur] EXCEPT !.pc = "pulling"] \in PullType
    BY <1>1 DEF PullType
  <2> QED BY <1>1, <2>1, <2>2 DEF PullType
<1>5. Types'
  BY <1>1, <1>2, <1>3, <1>4, TypesParts DEF answerVars
<1>6. Audited'
  BY <1>1, <1>2 DEF StreamInv, Audited
<1>7. ASSUME NEW e \in Nat, Upstream(e)
      PROVE  Emits(e)
  <2>1. /\ e = 0 /\ relay.pc = "none" /\ gq = <<>> /\ provider[Cur].sent = 0
        /\ \A a \in Attempt : a > Cur => provider[a] = [state |-> "none", sent |-> 0] /\ pull[a].pc = "none"
        /\ \A a \in gw.stopped : a < Cur
    BY <1>1, <1>7 DEF Upstream
  <2>2. provider'[Cur] = [state |-> "open", sent |-> 0]
    BY <1>1, <1>3, <2>1, ProviderIs
  <2>3. FirstPulled'
    BY <1>2, <1>4, <2>2 DEF FirstPulled, Cur
  <2>4. \A a \in Attempt : a > Cur => a # Cur
    <3>1. Cur \in Nat
      BY <1>1, AttemptFacts
    <3> QED BY <3>1
  <2>5. Upstream(e)'
    BY <1>1, <1>2, <1>3, <1>4, <2>1, <2>3, <2>4 DEF Upstream, Cur
  <2> QED BY <1>1, <1>2, <2>5 DEF Emits, Calling
<1> QED BY <1>1, <1>2, <1>5, <1>6, <1>7, GatewayMoves DEF Calling

\* A call that is refused has asked no provider.
LEMMA RefuseKeeps ==
    ASSUME StreamInv, Refuse, UNCHANGED answerVars
    PROVE  StreamInv'
<1>1. /\ Types /\ gw \in GwType /\ gw.pc = "new" /\ Calling
      /\ UNCHANGED <<provider, pull, relay, gq, audit>>
  BY TypesParts DEF StreamInv, Refuse
<1>2. gw' \in GwType /\ gw'.pc = "refused" /\ gw'.attempt = gw.attempt
  BY <1>1 DEF Refuse, GwType, GatewayPc
<1>3. reply' \in Item /\ reply'.kind = "fatal"
  BY ItemFacts DEF Refuse, Return, SignalKind
<1>4. Types'
  BY <1>1, <1>2, <1>3, TypesParts DEF answerVars
<1>5. Audited'
  BY <1>1, <1>2 DEF StreamInv, Audited
<1>6. Told(reply)'
  BY <1>2, <1>3 DEF Told
<1>7. ASSUME NEW e \in Nat, Upstream(e)
      PROVE  Emits(e)
  BY <1>2, <1>3 DEF Emits, Upstream
<1> QED BY <1>1, <1>4, <1>5, <1>6, <1>7, GatewayMoves

\* The first chunk is emitted, or the stream was empty: the relay thread
\* starts.
LEMMA FirstChunkKeeps ==
    ASSUME StreamInv, FirstChunk, UNCHANGED answerVars
    PROVE  StreamInv'
<1> DEFINE out == pull[Cur].out
<1>1. /\ Types /\ gw \in GwType /\ Cur \in Attempt /\ gw.pc = "first" /\ Calling /\ relay \in ThreadType
      /\ pull \in [Attempt -> PullType] /\ out \in Item /\ reply \in Item /\ gq \in Seq(Item)
      /\ pull[Cur].pc = "dead" /\ ~Failure(out)
      /\ UNCHANGED <<provider, pull, gq, audit>>
  BY TypesParts DEF StreamInv, FirstChunk, GwType, PullType, Cur
<1>2. /\ gw' \in GwType /\ gw'.pc = "rest" /\ gw'.attempt = gw.attempt /\ gw'.stopped = gw.stopped
      /\ relay' \in ThreadType /\ relay'.pc = "next"
  BY <1>1 DEF FirstChunk, GwType, ThreadType, ThreadPc
<1>3. reply' = IF out.kind = "delta" THEN out ELSE reply
  BY DEF FirstChunk, Return, Cur
<1>4. Types'
  BY <1>1, <1>2, <1>3, TypesParts DEF answerVars
<1>5. Audited'
  BY <1>1, <1>2 DEF StreamInv, Audited
<1>6. Told(reply)' \/ Calling'
  BY <1>1, <1>3 DEF Told, Calling
<1>7. ASSUME NEW e \in Nat, Upstream(e)
      PROVE  Emits(e)
  <2>1. e = 0 /\ gq = <<>> /\ FirstPulled /\ \A a \in gw.stopped : a < Cur
    BY <1>1, <1>7 DEF Upstream
  <2>2. CASE out.kind = "delta"
    <3>1. out = Delta(Cur, 1) /\ provider[Cur].state = "open" /\ provider[Cur].sent = 1
      BY <1>1, <2>1, <2>2 DEF FirstPulled
    <3>2. Relaying(1)'
      BY <1>1, <1>2, <2>1, <3>1 DEF Relaying, AllDeltas, Cur
    <3>3. Upstream(1)'
      BY <1>2, <2>1, <3>2 DEF Upstream, Cur
    <3> QED BY <1>1, <1>2, <1>3, <2>1, <2>2, <3>1, <3>3 DEF Emits
  <2>3. CASE out.kind # "delta"
    <3>1. out.kind = "eos"
      BY <1>1, <2>1, <2>3 DEF FirstPulled, Failure
    <3>2. provider[Cur].state = "over" /\ provider[Cur].sent = 0
      BY <1>1, <2>1, <3>1 DEF FirstPulled
    <3>3. Relaying(0)'
      BY <1>1, <1>2, <2>1, <3>2 DEF Relaying, AllDeltas, Cur
    <3>4. Upstream(0)'
      BY <1>2, <2>1, <3>3 DEF Upstream, Cur
    <3> QED BY <1>1, <1>2, <1>3, <2>1, <2>3, <3>4 DEF Emits, Calling
  <2> QED BY <2>2, <2>3
<1> QED BY <1>1, <1>2, <1>4, <1>5, <1>6, <1>7, GatewayMoves

\* The first record.
LEMMA AppendFirst == \A x : Append(<<>>, x) = <<x>>
OBVIOUS

\* The error of a call that failed.
LEMMA FatalTyped == Signal("fatal") \in Item /\ Signal("fatal").kind = "fatal"
BY ItemFacts DEF SignalKind

\* The call fails for good.
LEMMA FailureKeeps ==
    ASSUME StreamInv, UNCHANGED answerVars, Calling, gw.pc \in {"first", "rest"},
           gw' \in GwType, gw'.pc = "failed", gw'.attempt = gw.attempt,
           UNCHANGED <<provider, relay>>, pull' \in [Attempt -> PullType], gq' \in Seq(Item),
           Return(Signal("fatal")), Audit("failed")
    PROVE  StreamInv'
<1>1. reply' \in Item /\ reply'.kind = "fatal"
  BY FatalTyped DEF Return
<1>2. Types'
  BY <1>1, TypesParts DEF StreamInv, answerVars
<1>3. Audited'
  <2>1. audit = <<>>
    BY DEF StreamInv, Audited
  <2>2. audit' = <<"failed">>
    BY <2>1, AppendFirst DEF Audit
  <2> QED BY <2>2 DEF Audited
<1>4. Told(reply)'
  BY <1>1 DEF Told
<1>5. ASSUME NEW e \in Nat, Upstream(e)
      PROVE  Emits(e)
  BY <1>1 DEF Emits, Upstream
<1> QED BY <1>2, <1>3, <1>4, <1>5, GatewayMoves

\* An attempt fails before its first chunk: the next one, or the end of the call.
LEMMA AttemptFailedKeeps ==
    ASSUME StreamInv, UNCHANGED answerVars, UNCHANGED <<provider, relay, gq>>,
           pull' \in [Attempt -> PullType], \A a \in Attempt \ {Cur} : pull'[a] = pull[a],
           Calling, gw.pc = "first", NEW item, NEW stopped \in SUBSET Attempt,
           AttemptFailed(item, stopped), stopped \subseteq gw.stopped \cup {Cur}
    PROVE  StreamInv'
<1>1. /\ Types /\ gw \in GwType /\ Cur \in Attempt /\ gw.pc = "first" /\ Calling
      /\ provider \in [Attempt -> ProviderType] /\ pull' \in [Attempt -> PullType] /\ gq \in Seq(Item)
      /\ UNCHANGED <<provider, relay, gq>> /\ \A a \in Attempt \ {Cur} : pull'[a] = pull[a]
  BY TypesParts DEF StreamInv, GwType, Cur
<1>2. AttemptFailed(item, stopped) /\ stopped \subseteq gw.stopped \cup {Cur}
  OBVIOUS
<1>3. CASE MayRetry(item)
  <2>1. /\ gw' = [pc |-> "attempt", attempt |-> Cur + 1, stopped |-> stopped]
        /\ UNCHANGED <<reply, audit>> /\ Cur + 1 \in Attempt
    BY <1>1, <1>2, <1>3, AttemptFacts DEF AttemptFailed, MayRetry, Cur
  <2>2. gw' \in GwType /\ gw'.pc = "attempt" /\ gw'.attempt = Cur + 1 /\ gw'.stopped = stopped
    BY <2>1 DEF GwType
  <2>3. Types'
    BY <1>1, <2>1, <2>2, TypesParts DEF answerVars
  <2>4. Audited'
    BY <1>1, <2>1, <2>2 DEF StreamInv, Audited
  <2>5. ASSUME NEW e \in Nat, Upstream(e)
        PROVE  Emits(e)
    <3>1. /\ e = 0 /\ relay.pc = "none" /\ gq = <<>>
          /\ \A a \in Attempt : a > Cur => provider[a] = [state |-> "none", sent |-> 0] /\ pull[a].pc = "none"
          /\ \A a \in gw.stopped : a < Cur
      BY <1>1, <2>5 DEF Upstream
    <3>4. Cur \in Nat /\ \A a \in Attempt : a \in Nat
      BY <1>1, AttemptFacts
    <3>2. \A a \in stopped : a < Cur + 1
      <4> SUFFICES ASSUME NEW a \in stopped PROVE a < Cur + 1
        OBVIOUS
      <4>1. a \in Nat /\ (a \in gw.stopped \/ a = Cur)
        BY <1>2, <3>4
      <4> QED BY <3>1, <3>4, <4>1
    <3>3. Upstream(e)'
      <4>1. \A a \in gw'.stopped : a < gw'.attempt
        BY <2>2, <3>2
      <4>2. \A a \in Attempt : a > gw'.attempt => provider'[a] = [state |-> "none", sent |-> 0]
                                                   /\ pull'[a].pc = "none"
        <5>1. \A a \in Attempt : a > Cur + 1 => a > Cur /\ a # Cur
          BY <3>4
        <5> QED BY <1>1, <2>2, <3>1, <5>1
      <4>3. /\ provider'[gw'.attempt] = [state |-> "none", sent |-> 0]
            /\ pull'[gw'.attempt].pc = "none"
        BY <1>1, <2>1, <2>2, <3>1, <3>4
      <4> QED BY <1>1, <2>2, <3>1, <4>1, <4>2, <4>3 DEF Upstream, Cur
    <3> QED BY <1>1, <2>1, <3>1, <3>3 DEF Emits, Calling
  <2> QED BY <1>1, <2>1, <2>3, <2>4, <2>5, GatewayMoves DEF Calling
<1>4. CASE ~MayRetry(item)
  <2>1. /\ gw' = [[gw EXCEPT !.pc = "failed"] EXCEPT !.stopped = stopped]
        /\ Return(Signal("fatal")) /\ Audit("failed")
    BY <1>1, <1>2, <1>4 DEF AttemptFailed, GwType
  <2>2. gw' \in GwType /\ gw'.pc = "failed" /\ gw'.attempt = gw.attempt
    BY <1>1, <2>1 DEF GwType
  <2> QED BY <1>1, <2>1, <2>2, FailureKeeps
<1> QED BY <1>3, <1>4

\* The first chunk is an error, or is late.
LEMMA FirstFailureKeeps ==
    ASSUME StreamInv, UNCHANGED answerVars, FirstFails \/ FirstTimesOut
    PROVE  StreamInv'
<1>1. /\ Types /\ gw \in GwType /\ Cur \in Attempt /\ gw.pc = "first" /\ Calling
      /\ pull \in [Attempt -> PullType] /\ UNCHANGED <<provider, relay, gq>>
  BY TypesParts DEF StreamInv, FirstFails, FirstTimesOut, GwType, Cur
<1>2. gw.stopped \in SUBSET Attempt /\ gw.stopped \cup {Cur} \in SUBSET Attempt
  BY <1>1 DEF GwType
<1>3. CASE FirstFails
  <2>1. AttemptFailed(pull[gw.attempt].out, gw.stopped) /\ pull' = pull
    BY <1>3 DEF FirstFails
  <2> QED BY <1>1, <1>2, <2>1, AttemptFailedKeeps
<1>4. CASE FirstTimesOut
  <2>1. AttemptFailed(Signal("retryable"), gw.stopped \cup {Cur})
    BY <1>4 DEF FirstTimesOut, Cur
  <2>2. pull' \in [Attempt -> PullType] /\ \A a \in Attempt \ {Cur} : pull'[a] = pull[a]
    <3> DEFINE pc == IF pull[Cur].pc = "leaving" THEN "missed" ELSE pull[Cur].pc
    <3>1. pull' = [pull EXCEPT ![Cur] = [pull[Cur] EXCEPT !.pc = pc]]
      BY <1>1, <1>4 DEF FirstTimesOut, Cur
    <3>2. [pull[Cur] EXCEPT !.pc = pc] \in PullType
      BY <1>1 DEF PullType, PullPc
    <3> QED BY <1>1, <3>1, <3>2
  <2> QED BY <1>1, <1>2, <2>1, <2>2, AttemptFailedKeeps
<1> QED BY <1>3, <1>4

\* A failure past the first chunk keeps the attempt.
LEMMA RestFailsTyped ==
    ASSUME Types, RestFails
    PROVE  gw' \in GwType /\ gw'.pc = "failed" /\ gw'.attempt = gw.attempt
<1>1. gw' = [[gw EXCEPT !.pc = "failed"] EXCEPT !.stopped = gw.stopped \cup {gw.attempt}]
  BY TypesParts DEF RestFails, GwType
<1>2. ASSUME NEW x \in GwType
      PROVE  /\ [x EXCEPT !.stopped = gw.stopped \cup {gw.attempt}] \in GwType
             /\ [x EXCEPT !.stopped = gw.stopped \cup {gw.attempt}].pc = x.pc
             /\ [x EXCEPT !.stopped = gw.stopped \cup {gw.attempt}].attempt = x.attempt
  BY TypesParts DEF GwType
<1>3. /\ [gw EXCEPT !.pc = "failed"] \in GwType
      /\ [gw EXCEPT !.pc = "failed"].pc = "failed"
      /\ [gw EXCEPT !.pc = "failed"].attempt = gw.attempt
  BY TypesParts DEF GwType
<1> QED BY <1>1, <1>2, <1>3

\* The total timeout fails the call.
LEMMA RestTimesOutKeeps ==
    ASSUME StreamInv, UNCHANGED answerVars, RestTimesOut
    PROVE  StreamInv'
<1>1. /\ Types /\ gw.pc = "rest" /\ Calling /\ gq \in Seq(Item) /\ UNCHANGED <<provider, pull, relay, gq>>
      /\ RestFails
  BY TypesParts DEF StreamInv, RestTimesOut
<1>2. Return(Signal("fatal")) /\ Audit("failed")
  BY <1>1 DEF RestFails
<1>3. pull' \in [Attempt -> PullType]
  BY <1>1, TypesParts
<1> QED BY <1>1, <1>2, <1>3, RestFailsTyped, FailureKeeps

\* The head and the tail of a queue.
LEMMA TailFacts ==
    ASSUME NEW q \in Seq(Item), q # <<>>
    PROVE  /\ Head(q) = q[1] /\ q[1] \in Item /\ Tail(q) \in Seq(Item)
           /\ Len(q) \in Nat \ {0} /\ Len(Tail(q)) = Len(q) - 1
           /\ \A i \in 1 .. Len(q) - 1 : Tail(q)[i] = q[i + 1]
           /\ DOMAIN q = 1 .. Len(q) /\ DOMAIN Tail(q) = 1 .. Len(q) - 1
OBVIOUS

\* A queue with items is not empty.
LEMMA NotEmpty == \A q \in Seq(Item) : Len(q) # 0 => q # <<>>
OBVIOUS

\* The frame takes the head of the relay's queue: the next chunk, the end of
\* everything that was sent, or an error.
LEMMA RestItemKeeps ==
    ASSUME StreamInv, UNCHANGED answerVars, RestItem
    PROVE  StreamInv'
<1>1. /\ Types /\ gw \in GwType /\ Cur \in Attempt /\ gw.pc = "rest" /\ Calling /\ gq # <<>>
      /\ gq \in Seq(Item) /\ gq' = Tail(gq) /\ reply \in Item /\ provider \in [Attempt -> ProviderType]
      /\ UNCHANGED <<provider, pull, relay>>
  BY TypesParts DEF StreamInv, RestItem, GwType, Cur
<1>2. /\ Head(gq) = gq[1] /\ gq[1] \in Item /\ Tail(gq) \in Seq(Item)
      /\ Len(gq) \in Nat \ {0} /\ Len(Tail(gq)) = Len(gq) - 1
      /\ \A i \in 1 .. Len(gq) - 1 : Tail(gq)[i] = gq[i + 1]
      /\ DOMAIN gq = 1 .. Len(gq) /\ DOMAIN Tail(gq) = 1 .. Len(gq) - 1
  BY <1>1, TailFacts
<1>3. CASE gq[1].kind = "delta"
  <2>1. reply' = gq[1] /\ gw' = gw /\ audit' = audit
    BY <1>2, <1>3 DEF RestItem, Return, Failure
  <2>2. Types' /\ Audited'
    BY <1>1, <1>2, <2>1, TypesParts DEF answerVars, StreamInv, Audited
  <2>3. Told(reply)'
    BY <1>3, <2>1 DEF Told
  <2>4. ASSUME NEW e \in Nat, Upstream(e)
        PROVE  Emits(e)
    <3>1. Relaying(e) /\ \A a \in gw.stopped : a < Cur
      BY <1>1, <2>4 DEF Upstream
    <3>2. gq[1] = Delta(Cur, e + 1)
      BY <1>2, <1>3, <3>1 DEF Relaying
    <3>3. \A i \in DOMAIN Tail(gq) : i + 1 \in DOMAIN gq /\ e + 1 + i = e + (i + 1)
      BY <1>2
    <3>4. /\ \A i \in DOMAIN gq : gq[i].kind = "delta" => gq[i] = Delta(Cur, e + i)
          /\ \A i \in DOMAIN gq : i < Len(gq) => gq[i].kind = "delta"
      BY <3>1 DEF Relaying
    <3>5. \A i \in DOMAIN Tail(gq) : Tail(gq)[i].kind = "delta" => Tail(gq)[i] = Delta(Cur, e + 1 + i)
      BY <1>2, <3>3, <3>4
    <3>6. \A i \in DOMAIN Tail(gq) : i < Len(Tail(gq)) => Tail(gq)[i].kind = "delta"
      BY <1>2, <3>3, <3>4
    <3>7. e + 1 + Len(Tail(gq)) = e + Len(gq)
      BY <1>2
    <3>8. AllDeltas => AllDeltas'
      BY <1>1, <1>2, <3>3 DEF AllDeltas
    <3>9. \/ relay.pc = "next" /\ AllDeltas' /\ provider[Cur].sent = e + 1 + Len(Tail(gq))
          \/ /\ relay.pc \in {"test", "put"} /\ AllDeltas'
             /\ relay.item.kind \in {"delta", "eos", "retryable", "fatal"}
             /\ relay.item.kind = "delta" => relay.item = Delta(Cur, e + 1 + Len(Tail(gq)) + 1)
                                             /\ provider[Cur].sent = e + 1 + Len(Tail(gq)) + 1
             /\ relay.item.kind = "eos" =>
                  provider[Cur] = [state |-> "over", sent |-> e + 1 + Len(Tail(gq))]
          \/ /\ relay.pc \in {"end", "dead"} /\ Tail(gq) # <<>> /\ Tail(gq)[Len(Tail(gq))].kind # "delta"
             /\ Tail(gq)[Len(Tail(gq))].kind = "eos" =>
                  provider[Cur] = [state |-> "over", sent |-> e + 1 + Len(Tail(gq)) - 1]
      <4>1. CASE relay.pc \in {"next", "test", "put"}
        BY <3>1, <3>7, <3>8, <4>1 DEF Relaying
      <4>2. CASE relay.pc \notin {"next", "test", "put"}
        <5>1. /\ relay.pc \in {"end", "dead"} /\ gq[Len(gq)].kind # "delta"
              /\ gq[Len(gq)].kind = "eos" => provider[Cur] = [state |-> "over", sent |-> e + Len(gq) - 1]
          BY <3>1, <4>2 DEF Relaying
        <5>2. Len(gq) > 1
          BY <1>2, <1>3, <5>1
        <5>3. Tail(gq) # <<>>
          <6>1. Len(Tail(gq)) # 0
            BY <1>2, <5>2
          <6> QED BY <1>2, <6>1, NotEmpty
        <5>4. Len(gq) - 1 \in 1 .. Len(gq) - 1 /\ Len(gq) - 1 + 1 = Len(gq)
          BY <1>2, <5>2
        <5>5. Tail(gq)[Len(gq) - 1] = gq[Len(gq) - 1 + 1]
          BY <1>2, <5>4
        <5>7. gq[Len(gq) - 1 + 1] = gq[Len(gq)]
          BY <5>4
        <5>8. Len(Tail(gq)) = Len(gq) - 1
          BY <1>2
        <5>9. Tail(gq)[Len(Tail(gq))] = gq[Len(gq)]
          BY <5>5, <5>7, <5>8, Zenon
        <5>10. e + 1 + Len(Tail(gq)) - 1 = e + Len(gq) - 1
          <6>1. e + 1 + (Len(gq) - 1) - 1 = e + Len(gq) - 1
            BY <1>2
          <6> QED BY <5>8, <6>1
        <5> QED BY <5>1, <5>3, <5>9, <5>10
      <4> QED BY <4>1, <4>2
    <3>10. pull[Cur].pc = "dead" /\ provider[Cur].state \in {"open", "over"}
      BY <3>1 DEF Relaying
    <3>11. Relaying(e + 1)'
      BY <1>1, <2>1, <3>5, <3>6, <3>9, <3>10 DEF Relaying, Cur
    <3>12. Upstream(e + 1)'
      BY <1>1, <2>1, <3>1, <3>11 DEF Upstream, Cur
    <3> QED BY <1>1, <2>1, <3>2, <3>12 DEF Emits
  <2> QED BY <1>1, <2>1, <2>2, <2>3, <2>4, GatewayMoves
<1>4. CASE gq[1].kind = "eos"
  <2>1. /\ gw' = [gw EXCEPT !.pc = "final", !.stopped = @ \cup {gw.attempt}]
        /\ reply' = Signal("final") /\ audit' = Append(audit, "success")
    BY <1>2, <1>4 DEF RestItem, Return, Audit, Failure
  <2>2. gw' \in GwType /\ gw'.pc = "final" /\ gw'.attempt = gw.attempt
    <3>1. gw.stopped \cup {gw.attempt} \in SUBSET Attempt
      BY <1>1 DEF GwType, Cur
    <3>2. gw' = [[gw EXCEPT !.pc = "final"] EXCEPT !.stopped = gw.stopped \cup {gw.attempt}]
      BY <1>1, <2>1 DEF GwType
    <3>3. [gw EXCEPT !.pc = "final"] \in GwType /\ [gw EXCEPT !.pc = "final"].pc = "final"
          /\ [gw EXCEPT !.pc = "final"].attempt = gw.attempt
      BY <1>1 DEF GwType
    <3>4. ASSUME NEW x \in GwType, NEW s \in SUBSET Attempt
          PROVE  /\ [x EXCEPT !.stopped = s] \in GwType /\ [x EXCEPT !.stopped = s].pc = x.pc
                 /\ [x EXCEPT !.stopped = s].attempt = x.attempt
      BY DEF GwType
    <3> QED BY <3>1, <3>2, <3>3, <3>4
  <2>3. reply' \in Item /\ reply'.kind = "final"
    BY <2>1, ItemFacts DEF SignalKind
  <2>4. Types'
    BY <1>1, <1>2, <2>2, <2>3, TypesParts DEF answerVars
  <2>5. Audited'
    <3>1. audit = <<>>
      BY <1>1 DEF StreamInv, Audited
    <3>2. audit' = <<"success">>
      BY <2>1, <3>1, AppendFirst
    <3> QED BY <2>2, <3>2 DEF Audited
  <2>6. Told(reply)'
    BY <2>2, <2>3 DEF Told
  <2>7. ASSUME NEW e \in Nat, Upstream(e)
        PROVE  Emits(e)
    <3>1. Relaying(e)
      BY <1>1, <2>7 DEF Upstream
    <3>2. ~AllDeltas
      BY <1>2, <1>4 DEF AllDeltas
    <3>3. Len(gq) = 1
      <4>1. 1 < Len(gq) => gq[1].kind = "delta"
        BY <1>2, <3>1 DEF Relaying
      <4> QED BY <1>2, <1>4, <4>1
    <3>4. /\ relay.pc \in {"end", "dead"} /\ provider[Cur] = [state |-> "over", sent |-> e + Len(gq) - 1]
          /\ pull[Cur].pc = "dead"
      BY <1>4, <3>1, <3>2, <3>3 DEF Relaying
    <3>5. e + Len(gq) - 1 = e
      BY <3>3
    <3>6. Upstream(e)'
      BY <1>1, <2>2, <3>4, <3>5 DEF Upstream, Settled, Cur
    <3> QED BY <2>2, <2>3, <3>6 DEF Emits
  <2> QED BY <1>1, <2>4, <2>5, <2>6, <2>7, GatewayMoves
<1>5. CASE gq[1].kind \notin {"delta", "eos"}
  <2>1. RestFails
    BY <1>2, <1>5 DEF RestItem
  <2>2. Return(Signal("fatal")) /\ Audit("failed") /\ gq' \in Seq(Item)
    BY <1>1, <1>2, <2>1 DEF RestFails
  <2>3. pull' \in [Attempt -> PullType]
    BY <1>1, TypesParts
  <2> QED BY <1>1, <2>1, <2>2, <2>3, RestFailsTyped, FailureKeeps
<1> QED BY <1>3, <1>4, <1>5

\* StopIteration comes after the end was seen.
LEMMA FinishKeeps ==
    ASSUME StreamInv, UNCHANGED answerVars, Finish
    PROVE  StreamInv'
<1>1. /\ Types /\ gw \in GwType /\ gw.pc = "final" /\ Calling
      /\ UNCHANGED <<provider, pull, relay, gq, audit>> /\ reply' = Signal("eos")
  BY TypesParts DEF StreamInv, Finish, Return
<1>2. gw' \in GwType /\ gw'.pc = "done" /\ gw'.attempt = gw.attempt
  BY <1>1 DEF Finish, GwType
<1>3. reply' \in Item /\ reply'.kind = "eos"
  BY <1>1, ItemFacts DEF SignalKind
<1>4. Types' /\ Audited'
  BY <1>1, <1>2, <1>3, TypesParts DEF StreamInv, Audited, answerVars
<1>5. Told(reply)'
  BY <1>2, <1>3 DEF Told
<1>6. ASSUME NEW e \in Nat, Upstream(e)
      PROVE  Emits(e)
  BY <1>1, <1>2, <1>3, <1>6 DEF Emits, Upstream, Settled, Cur
<1> QED BY <1>1, <1>2, <1>4, <1>5, <1>6, GatewayMoves

\* Every step of the generator's frame keeps the invariant.
LEMMA GatewayKeeps ==
    ASSUME StreamInv, UNCHANGED answerVars, GatewayStep
    PROVE  StreamInv'
BY RefuseKeeps, StartAttemptKeeps, FirstChunkKeeps, FirstFailureKeeps, RestItemKeeps, RestTimesOutKeeps, FinishKeeps
   DEF GatewayStep

-----------------------------------------------------------------------------
(* The threads of the gateway. *)
LEMMA ThreadParts ==
    ASSUME StreamInv
    PROVE  /\ Types /\ gw \in GwType /\ Cur \in Attempt /\ gq \in Seq(Item) /\ Len(gq) \in Nat
           /\ provider \in [Attempt -> ProviderType] /\ pull \in [Attempt -> PullType] /\ relay \in ThreadType
BY TypesParts DEF StreamInv, GwType, Cur

\* A thread runs only past the start of the first attempt.
LEMMA ThreadRuns ==
    ASSUME StreamInv, relay.pc # "none" \/ \E a \in Attempt : pull[a].pc # "none"
    PROVE  gw.pc \notin {"new", "refused"}
BY DEF StreamInv, Audited

\* A later attempt is another one.
LEMMA CurLess ==
    ASSUME Cur \in Attempt, NEW b \in Attempt, b > Cur
    PROVE  b # Cur
<1>1. Cur \in Nat
  BY AttemptFacts
<1> QED BY <1>1

\* The gateway does not touch the client.
LEMMA ClientFixed == UNCHANGED answerVars => client' = client
BY DEF answerVars

\* A stream whose first chunk is being pulled has sent nothing.
LEMMA FirstPulledOpen ==
    ASSUME FirstPulled
    PROVE  pull[Cur].pc = "pulling" => provider[Cur] = [state |-> "open", sent |-> 0]
BY DEF FirstPulled

\* The first chunk of an attempt, wanted or not.
LEMMA PullKeeps ==
    ASSUME StreamInv, UNCHANGED answerVars, NEW a \in Attempt, Pull(a)
    PROVE  StreamInv'
<1>1. PICK item \in Outcomes(a) : /\ Advance(a, item)
                                  /\ pull' = [pull EXCEPT ![a] = [pc |-> "ending", out |-> item]]
  BY DEF Pull
<1>2. /\ Types /\ gw \in GwType /\ Cur \in Attempt /\ pull[a].pc = "pulling"
      /\ provider \in [Attempt -> ProviderType] /\ pull \in [Attempt -> PullType]
      /\ UNCHANGED <<gw, reply, relay, gq, audit>>
  BY ThreadParts DEF Pull
<1>3. item \in Item /\ item.kind \in {"delta", "eos", "retryable", "fatal"}
  BY <1>2, OutcomesTyped
<1>4. /\ pull' \in [Attempt -> PullType] /\ pull'[a].pc = "ending" /\ pull'[a].out = item
      /\ \A b \in Attempt \ {a} : pull'[b] = pull[b]
  BY <1>1, <1>2, <1>3 DEF PullType
<1>5. /\ provider' \in [Attempt -> ProviderType]
      /\ \A b \in Attempt \ {a} : provider'[b] = provider[b]
  BY <1>1, <1>2, AdvanceChanges
<1>6. Types'
  BY <1>2, <1>4, <1>5, TypesParts DEF answerVars
<1>7. Whole => Whole'
  <2>1. Whole => a # Cur
    BY <1>2 DEF Whole, Settled
  <2>2. a # Cur => provider'[Cur] = provider[Cur] /\ pull'[Cur] = pull[Cur]
    BY <1>2, <1>4, <1>5
  <2> QED BY <1>2, <2>1, <2>2, ClientFixed DEF Whole, Settled, Cur
<1>8. ASSUME NEW e \in Nat, Upstream(e)
      PROVE  Upstream(e)'
  <2>1. CASE a # Cur
    <3>1. provider'[Cur] = provider[Cur] /\ pull'[Cur] = pull[Cur] /\ Cur' = Cur
      BY <1>2, <1>4, <1>5, <2>1 DEF Cur
    <3>2. \A b \in Attempt : pull[b].pc = "none" => provider'[b] = provider[b] /\ pull'[b] = pull[b]
      BY <1>2, <1>4, <1>5
    <3>3. FirstPulled => FirstPulled'
      BY <3>1 DEF FirstPulled
    <3>4. Relaying(e) => Relaying(e)'
      BY <1>2, <3>1 DEF Relaying, AllDeltas
    <3>5. Settled => Settled'
      BY <1>2, <3>1 DEF Settled
    <3> QED BY <1>2, <1>8, <3>1, <3>2, <3>3, <3>4, <3>5 DEF Upstream
  <2>2. CASE a = Cur
    <3>1. gw.pc \in {"first", "failed", "refused"}
      BY <1>2, <1>8, <2>2 DEF Upstream, Relaying, Settled, GwType
    <3>2. CASE gw.pc = "first"
      <4>1. /\ e = 0 /\ relay.pc = "none" /\ gq = <<>> /\ FirstPulled
            /\ \A b \in Attempt : b > Cur => provider[b] = [state |-> "none", sent |-> 0] /\ pull[b].pc = "none"
            /\ \A b \in gw.stopped : b < Cur
        BY <1>8, <3>2 DEF Upstream
      <4>2. provider[Cur].state = "open" /\ provider[Cur].sent = 0
        BY <1>2, <2>2, <4>1, FirstPulledOpen
      <4>3. item.kind = "delta" => item = Delta(Cur, 1)
        BY <1>2, <2>2, <4>2, OutcomesTyped
      <4>4. provider'[Cur] \in ProviderType
        BY <1>2, <1>5
      <4>5. item.kind = "delta" => provider'[Cur] = [state |-> "open", sent |-> 1]
        <5>1. item.kind = "delta" => provider'[Cur].state = "open" /\ provider'[Cur].sent = 1
          BY <1>1, <1>2, <2>2, <4>2, AdvanceChanges
        <5> QED BY <4>4, <5>1 DEF ProviderType
      <4>6. item.kind = "eos" => provider'[Cur] = [state |-> "over", sent |-> 0]
        <5>1. item.kind = "eos" => provider'[Cur].state = "over" /\ provider'[Cur].sent = 0
          BY <1>1, <1>2, <2>2, <4>2, AdvanceChanges
        <5> QED BY <4>4, <5>1 DEF ProviderType
      <4>7. FirstPulled'
        BY <1>2, <1>3, <1>4, <2>2, <4>3, <4>5, <4>6 DEF FirstPulled, Cur
      <4>8. \A b \in Attempt : b > Cur => b # Cur
        BY <1>2, CurLess
      <4> QED BY <1>2, <1>4, <1>5, <2>2, <3>2, <4>1, <4>7, <4>8 DEF Upstream, Cur
    <3> QED BY <1>2, <3>1, <3>2 DEF Upstream
  <2> QED BY <2>1, <2>2
<1> QED BY <1>2, <1>6, <1>7, <1>8, ThreadRuns, ThreadMoves

\* The thread of the first chunk closes only an abandoned stream.
LEMMA PullTestsKeeps ==
    ASSUME StreamInv, UNCHANGED answerVars, NEW a \in Attempt, PullTests(a)
    PROVE  StreamInv'
<1>1. /\ Types /\ gw \in GwType /\ Cur \in Attempt /\ pull[a].pc = "ending" /\ CloseIfStopped(a)
      /\ provider \in [Attempt -> ProviderType] /\ pull \in [Attempt -> PullType]
      /\ UNCHANGED <<gw, reply, relay, gq, audit>>
  BY ThreadParts DEF PullTests
<1>2. /\ pull' \in [Attempt -> PullType] /\ pull'[a].pc = "leaving" /\ pull'[a].out = pull[a].out
      /\ \A b \in Attempt \ {a} : pull'[b] = pull[b]
  <2>1. pull' = [pull EXCEPT ![a] = [pull[a] EXCEPT !.pc = "leaving"]]
    BY <1>1 DEF PullTests
  <2>2. [pull[a] EXCEPT !.pc = "leaving"] \in PullType
    BY <1>1 DEF PullType
  <2> QED BY <1>1, <2>1, <2>2 DEF PullType
<1>3. /\ provider' \in [Attempt -> ProviderType]
      /\ \A b \in Attempt \ {a} : provider'[b] = provider[b]
      /\ a \notin gw.stopped \/ provider[a].state # "open" => provider' = provider
  BY <1>1, CloseChanges
<1>4. Types'
  BY <1>1, <1>2, <1>3, TypesParts DEF answerVars
<1>5. Whole => Whole'
  <2>1. Whole => a # Cur
    BY <1>1 DEF Whole, Settled
  <2>2. a # Cur => provider'[Cur] = provider[Cur] /\ pull'[Cur] = pull[Cur]
    BY <1>1, <1>2, <1>3
  <2> QED BY <1>1, <2>1, <2>2, ClientFixed DEF Whole, Settled, Cur
<1>6. ASSUME NEW e \in Nat, Upstream(e)
      PROVE  Upstream(e)'
  <2>1. CASE a # Cur
    <3>1. provider'[Cur] = provider[Cur] /\ pull'[Cur] = pull[Cur] /\ Cur' = Cur
      BY <1>1, <1>2, <1>3, <2>1 DEF Cur
    <3>2. \A b \in Attempt : pull[b].pc = "none" => provider'[b] = provider[b] /\ pull'[b] = pull[b]
      BY <1>1, <1>2, <1>3
    <3>3. FirstPulled => FirstPulled'
      BY <3>1 DEF FirstPulled
    <3>4. Relaying(e) => Relaying(e)'
      BY <1>1, <3>1 DEF Relaying, AllDeltas
    <3>5. Settled => Settled'
      BY <1>1, <3>1 DEF Settled
    <3> QED BY <1>1, <1>6, <3>1, <3>2, <3>3, <3>4, <3>5 DEF Upstream
  <2>2. CASE a = Cur
    <3>1. gw.pc \in {"first", "failed", "refused"}
      BY <1>1, <1>6, <2>2 DEF Upstream, Relaying, Settled, GwType
    <3>2. CASE gw.pc = "first"
      <4>1. /\ e = 0 /\ relay.pc = "none" /\ gq = <<>> /\ FirstPulled
            /\ \A b \in Attempt : b > Cur => provider[b] = [state |-> "none", sent |-> 0] /\ pull[b].pc = "none"
            /\ \A b \in gw.stopped : b < Cur
        BY <1>6, <3>2 DEF Upstream
      <4>2. Cur \notin gw.stopped
        <5>1. Cur \in Nat
          BY <1>1, AttemptFacts
        <5> QED BY <4>1, <5>1
      <4>3. provider' = provider
        BY <1>3, <2>2, <4>2
      <4>4. FirstPulled'
        BY <1>1, <1>2, <2>2, <4>1, <4>3 DEF FirstPulled, Cur
      <4>5. \A b \in Attempt : b > Cur => b # Cur
        BY <1>1, CurLess
      <4> QED BY <1>1, <1>2, <2>2, <3>2, <4>1, <4>3, <4>4, <4>5 DEF Upstream, Cur
    <3> QED BY <1>1, <3>1, <3>2 DEF Upstream
  <2> QED BY <2>1, <2>2
<1> QED BY <1>1, <1>4, <1>5, <1>6, ThreadRuns, ThreadMoves

\* The thread of the first chunk ends: its stream is as it left it.
LEMMA PullEndsKeeps ==
    ASSUME StreamInv, UNCHANGED answerVars, NEW a \in Attempt, PullEnds(a)
    PROVE  StreamInv'
<1>1. /\ Types /\ gw \in GwType /\ Cur \in Attempt /\ pull[a].pc = "leaving" /\ provider' = provider
      /\ provider \in [Attempt -> ProviderType] /\ pull \in [Attempt -> PullType]
      /\ UNCHANGED <<gw, reply, relay, gq, audit>>
  BY ThreadParts DEF PullEnds
<1>2. /\ pull' \in [Attempt -> PullType] /\ pull'[a].pc = "dead" /\ pull'[a].out = pull[a].out
      /\ \A b \in Attempt \ {a} : pull'[b] = pull[b]
  <2>1. pull' = [pull EXCEPT ![a] = [pull[a] EXCEPT !.pc = "dead"]]
    BY <1>1 DEF PullEnds
  <2>2. [pull[a] EXCEPT !.pc = "dead"] \in PullType
    BY <1>1 DEF PullType
  <2> QED BY <1>1, <2>1, <2>2 DEF PullType
<1>4. Types'
  BY <1>1, <1>2, TypesParts DEF answerVars
<1>5. Whole => Whole'
  <2>1. Whole => a # Cur
    BY <1>1 DEF Whole, Settled
  <2>2. a # Cur => provider'[Cur] = provider[Cur] /\ pull'[Cur] = pull[Cur]
    BY <1>1, <1>2
  <2> QED BY <1>1, <2>1, <2>2, ClientFixed DEF Whole, Settled, Cur
<1>6. ASSUME NEW e \in Nat, Upstream(e)
      PROVE  Upstream(e)'
  <2>1. CASE a # Cur
    <3>1. provider'[Cur] = provider[Cur] /\ pull'[Cur] = pull[Cur] /\ Cur' = Cur
      BY <1>1, <1>2, <2>1 DEF Cur
    <3>2. \A b \in Attempt : pull[b].pc = "none" => provider'[b] = provider[b] /\ pull'[b] = pull[b]
      BY <1>1, <1>2
    <3>3. FirstPulled => FirstPulled'
      BY <3>1 DEF FirstPulled
    <3>4. Relaying(e) => Relaying(e)'
      BY <1>1, <3>1 DEF Relaying, AllDeltas
    <3>5. Settled => Settled'
      BY <1>1, <3>1 DEF Settled
    <3> QED BY <1>1, <1>6, <3>1, <3>2, <3>3, <3>4, <3>5 DEF Upstream
  <2>2. CASE a = Cur
    <3>1. gw.pc \in {"first", "failed", "refused"}
      BY <1>1, <1>6, <2>2 DEF Upstream, Relaying, Settled, GwType
    <3>2. CASE gw.pc = "first"
      <4>1. /\ e = 0 /\ relay.pc = "none" /\ gq = <<>> /\ FirstPulled
            /\ \A b \in Attempt : b > Cur => provider[b] = [state |-> "none", sent |-> 0] /\ pull[b].pc = "none"
            /\ \A b \in gw.stopped : b < Cur
        BY <1>6, <3>2 DEF Upstream
      <4>4. FirstPulled'
        BY <1>1, <1>2, <2>2, <4>1 DEF FirstPulled, Cur
      <4>5. \A b \in Attempt : b > Cur => b # Cur
        BY <1>1, CurLess
      <4> QED BY <1>1, <1>2, <2>2, <3>2, <4>1, <4>4, <4>5 DEF Upstream, Cur
    <3> QED BY <1>1, <3>1, <3>2 DEF Upstream
  <2> QED BY <2>1, <2>2
<1> QED BY <1>1, <1>4, <1>5, <1>6, ThreadRuns, ThreadMoves

\* A whole answer stays whole when the relay thread ends.
LEMMA RelayWhole ==
    ASSUME Whole, UNCHANGED <<gw, pull>>, client' = client, provider'[Cur] = provider[Cur],
           relay'.pc \in {"end", "dead"}
    PROVE  Whole'
BY DEF Whole, Settled, Cur

\* The relay thread runs only past the first chunk and before the end was seen.
LEMMA RelayIsRunning ==
    ASSUME NEW e \in Nat, Upstream(e), relay.pc \notin {"none", "end", "dead"}
    PROVE  gw.pc \notin {"new", "attempt", "first", "final", "done"}
BY DEF Upstream, Settled

\* The relay thread has the next chunk of the stream.
LEMMA RelayNextKeeps ==
    ASSUME StreamInv, UNCHANGED answerVars, RelayNext
    PROVE  StreamInv'
<1>1. PICK item \in Outcomes(Cur) : Advance(Cur, item) /\ relay' = [pc |-> "test", item |-> item]
  BY DEF RelayNext, Cur
<1>2. /\ Types /\ gw \in GwType /\ Cur \in Attempt /\ relay.pc = "next" /\ gq \in Seq(Item) /\ Len(gq) \in Nat
      /\ provider \in [Attempt -> ProviderType] /\ UNCHANGED <<gw, reply, pull, gq, audit>>
  BY ThreadParts DEF RelayNext
<1>3. /\ item \in Item /\ item.kind \in {"delta", "eos", "retryable", "fatal"}
      /\ item.kind = "delta" => item = Delta(Cur, provider[Cur].sent + 1)
  BY <1>2, OutcomesTyped
<1>4. relay' \in ThreadType /\ relay'.pc = "test" /\ relay'.item = item
  BY <1>1, <1>3 DEF ThreadType, ThreadPc
<1>5. provider' \in [Attempt -> ProviderType]
  BY <1>1, <1>2, AdvanceChanges
<1>6. Types'
  BY <1>2, <1>4, <1>5, TypesParts DEF answerVars
<1>7. Whole => Whole'
  BY <1>2 DEF Whole, Settled
<1>8. ASSUME NEW e \in Nat, Upstream(e)
      PROVE  Upstream(e)'
  <2>1. CASE gw.pc = "rest"
    <3>1. Relaying(e) /\ \A a \in gw.stopped : a < Cur
      BY <1>8, <2>1 DEF Upstream
    <3>2. AllDeltas /\ provider[Cur].sent = e + Len(gq) /\ provider[Cur].state \in {"open", "over"}
      BY <1>2, <3>1 DEF Relaying
    <3>3. provider'[Cur].state \in {"open", "over"}
      BY <1>1, <1>2, <3>2, AdvanceChanges
    <3>4. item.kind = "delta" => provider'[Cur].sent = e + Len(gq) + 1
      BY <1>1, <1>2, <3>2, AdvanceChanges
    <3>5. item.kind = "eos" => provider'[Cur] = [state |-> "over", sent |-> e + Len(gq)]
      <4>1. item.kind = "eos" => provider'[Cur].state = "over" /\ provider'[Cur].sent = e + Len(gq)
        BY <1>1, <1>2, <3>2, AdvanceChanges
      <4>2. provider'[Cur] \in ProviderType
        BY <1>2, <1>5
      <4> QED BY <4>1, <4>2 DEF ProviderType
    <3>6. Relaying(e)'
      BY <1>2, <1>3, <1>4, <3>1, <3>2, <3>3, <3>4, <3>5 DEF Relaying, AllDeltas, Cur
    <3> QED BY <1>2, <2>1, <3>1, <3>6 DEF Upstream, Cur
  <2>2. CASE gw.pc # "rest"
    <3>1. gw.pc \notin {"new", "attempt", "first", "final", "done"}
      BY <1>2, <1>8, RelayIsRunning
    <3> QED BY <1>2, <1>8, <2>2, <3>1 DEF Upstream
  <2> QED BY <2>1, <2>2
<1> QED BY <1>2, <1>6, <1>7, <1>8, ThreadRuns, ThreadMoves

\* The stop event is not set while the frame takes items.
LEMMA RelayTestKeeps ==
    ASSUME StreamInv, UNCHANGED answerVars, RelayTest
    PROVE  StreamInv'
<1>1. /\ Types /\ gw \in GwType /\ Cur \in Attempt /\ relay.pc = "test" /\ relay \in ThreadType
      /\ UNCHANGED <<gw, reply, provider, pull, gq, audit>>
  BY ThreadParts DEF RelayTest
<1>2. relay' \in ThreadType /\ relay'.pc = (IF Cur \in gw.stopped THEN "end" ELSE "put") /\ relay'.item = relay.item
  BY <1>1 DEF RelayTest, ThreadType, ThreadPc, Cur
<1>3. Types'
  BY <1>1, <1>2, TypesParts DEF answerVars
<1>4. Whole => Whole'
  BY <1>1 DEF Whole, Settled
<1>5. ASSUME NEW e \in Nat, Upstream(e)
      PROVE  Upstream(e)'
  <2>1. CASE gw.pc = "rest"
    <3>1. Relaying(e) /\ \A a \in gw.stopped : a < Cur
      BY <1>5, <2>1 DEF Upstream
    <3>2. Cur \notin gw.stopped
      <4>1. Cur \in Nat
        BY <1>1, AttemptFacts
      <4> QED BY <3>1, <4>1
    <3>3. Relaying(e)'
      BY <1>1, <1>2, <3>1, <3>2 DEF Relaying, AllDeltas, Cur
    <3> QED BY <1>1, <2>1, <3>1, <3>3 DEF Upstream, Cur
  <2>2. CASE gw.pc # "rest"
    <3>1. gw.pc \notin {"new", "attempt", "first", "final", "done"}
      BY <1>1, <1>5, RelayIsRunning
    <3> QED BY <1>1, <1>5, <2>2, <3>1 DEF Upstream
  <2> QED BY <2>1, <2>2
<1> QED BY <1>1, <1>3, <1>4, <1>5, ThreadRuns, ThreadMoves

\* What appending to a queue does.
LEMMA AppendFacts ==
    ASSUME NEW q \in Seq(Item), NEW x \in Item
    PROVE  /\ Append(q, x) \in Seq(Item) /\ Len(Append(q, x)) = Len(q) + 1 /\ Append(q, x) # <<>>
           /\ DOMAIN Append(q, x) = 1 .. Len(q) + 1 /\ DOMAIN q = 1 .. Len(q)
           /\ Append(q, x)[Len(q) + 1] = x
           /\ \A i \in 1 .. Len(q) : Append(q, x)[i] = q[i]
           /\ \A i \in 1 .. Len(q) + 1 : i \in 1 .. Len(q) \/ i = Len(q) + 1
<1>1. Len(q) \in Nat
  OBVIOUS
<1>2. /\ Append(q, x) \in Seq(Item) /\ Len(Append(q, x)) = Len(q) + 1
      /\ DOMAIN Append(q, x) = 1 .. Len(q) + 1 /\ DOMAIN q = 1 .. Len(q)
      /\ Append(q, x)[Len(q) + 1] = x
      /\ \A i \in 1 .. Len(q) : Append(q, x)[i] = q[i]
  OBVIOUS
<1>3. Len(q) + 1 # 0 /\ \A i \in 1 .. Len(q) + 1 : i \in 1 .. Len(q) \/ i = Len(q) + 1
  BY <1>1
<1> QED BY <1>2, <1>3, NotEmpty

\* The relay thread puts its item, or waits for room.
LEMMA RelayPutKeeps ==
    ASSUME StreamInv, UNCHANGED answerVars, RelayPut
    PROVE  StreamInv'
<1>1. /\ Types /\ gw \in GwType /\ Cur \in Attempt /\ relay.pc = "put" /\ relay \in ThreadType
      /\ relay.item \in Item /\ gq \in Seq(Item) /\ Len(gq) \in Nat
      /\ UNCHANGED <<gw, reply, provider, pull, audit>>
  BY ThreadParts DEF RelayPut, ThreadType
<1>2. Whole => Whole'
  BY <1>1 DEF Whole, Settled
<1>3. CASE Len(gq) < GatewayQueue
  <2>1. /\ gq' = Append(gq, relay.item) /\ relay' \in ThreadType
        /\ relay'.pc = IF relay.item.kind = "delta" THEN "next" ELSE "end"
    BY <1>1, <1>3 DEF RelayPut, ThreadType, ThreadPc
  <2>2. /\ gq' \in Seq(Item) /\ Len(gq') = Len(gq) + 1 /\ gq' # <<>>
        /\ DOMAIN gq' = 1 .. Len(gq) + 1 /\ DOMAIN gq = 1 .. Len(gq)
        /\ gq'[Len(gq) + 1] = relay.item
        /\ \A i \in 1 .. Len(gq) : gq'[i] = gq[i]
        /\ \A i \in 1 .. Len(gq) + 1 : i \in 1 .. Len(gq) \/ i = Len(gq) + 1
    BY <1>1, <2>1, AppendFacts
  <2>3. Types'
    BY <1>1, <2>1, <2>2, TypesParts DEF answerVars
  <2>4. ASSUME NEW e \in Nat, Upstream(e)
        PROVE  Upstream(e)'
    <3>1. CASE gw.pc = "rest"
      <4>1. Relaying(e) /\ \A a \in gw.stopped : a < Cur
        BY <2>4, <3>1 DEF Upstream
      <4>2. /\ AllDeltas /\ relay.item.kind \in {"delta", "eos", "retryable", "fatal"}
            /\ relay.item.kind = "delta" => relay.item = Delta(Cur, e + Len(gq) + 1)
                                            /\ provider[Cur].sent = e + Len(gq) + 1
            /\ relay.item.kind = "eos" => provider[Cur] = [state |-> "over", sent |-> e + Len(gq)]
            /\ \A i \in DOMAIN gq : gq[i].kind = "delta" => gq[i] = Delta(Cur, e + i)
            /\ pull[Cur].pc = "dead" /\ provider[Cur].state \in {"open", "over"}
        BY <1>1, <4>1 DEF Relaying
      <4>3. e + (Len(gq) + 1) = e + Len(gq) + 1 /\ e + (Len(gq) + 1) - 1 = e + Len(gq)
        BY <1>1
      <4>4. \A i \in DOMAIN gq' : gq'[i].kind = "delta" => gq'[i] = Delta(Cur, e + i)
        BY <2>2, <4>2, <4>3
      <4>5. \A i \in DOMAIN gq' : i < Len(gq') => gq'[i].kind = "delta"
        <5>1. \A i \in 1 .. Len(gq) + 1 : i < Len(gq) + 1 => i \in 1 .. Len(gq)
          BY <1>1
        <5> QED BY <2>2, <4>2, <5>1 DEF AllDeltas
      <4>6. CASE relay.item.kind = "delta"
        <5>1. relay'.pc = "next" /\ AllDeltas' /\ provider'[Cur].sent = e + Len(gq')
          <6>1. provider'[Cur].sent = e + Len(gq')
            BY <1>1, <2>2, <4>2, <4>3, <4>6
          <6>2. AllDeltas'
            BY <2>2, <4>2, <4>6 DEF AllDeltas
          <6> QED BY <2>1, <4>6, <6>1, <6>2
        <5>2. Relaying(e)'
          BY <1>1, <4>2, <4>4, <4>5, <5>1 DEF Relaying, Cur
        <5> QED BY <1>1, <3>1, <4>1, <5>2 DEF Upstream, Cur
      <4>7. CASE relay.item.kind # "delta"
        <5>1. /\ relay'.pc = "end" /\ gq' # <<>> /\ gq'[Len(gq')].kind # "delta"
              /\ gq'[Len(gq')].kind = "eos" => provider'[Cur] = [state |-> "over", sent |-> e + Len(gq') - 1]
          BY <1>1, <2>1, <2>2, <4>2, <4>3, <4>7
        <5>2. Relaying(e)'
          BY <1>1, <4>2, <4>4, <4>5, <5>1 DEF Relaying, Cur
        <5> QED BY <1>1, <3>1, <4>1, <5>2 DEF Upstream, Cur
      <4> QED BY <4>6, <4>7
    <3>2. CASE gw.pc # "rest"
      <4>1. gw.pc \notin {"new", "attempt", "first", "final", "done"}
        BY <1>1, <2>4, RelayIsRunning
      <4> QED BY <1>1, <2>4, <3>2, <4>1 DEF Upstream
    <3> QED BY <3>1, <3>2
  <2> QED BY <1>1, <1>2, <2>3, <2>4, ThreadRuns, ThreadMoves
<1>4. CASE ~(Len(gq) < GatewayQueue)
  <2>1. gq' = gq /\ relay' \in ThreadType /\ relay'.pc = "test" /\ relay'.item = relay.item
    BY <1>1, <1>4 DEF RelayPut, ThreadType, ThreadPc
  <2>2. Types'
    BY <1>1, <2>1, TypesParts DEF answerVars
  <2>3. ASSUME NEW e \in Nat, Upstream(e)
        PROVE  Upstream(e)'
    <3>1. gw.pc \notin {"new", "attempt", "first", "final", "done"}
      BY <1>1, <2>3, RelayIsRunning
    <3>2. Relaying(e) => Relaying(e)'
      BY <1>1, <2>1 DEF Relaying, AllDeltas, Cur
    <3> QED BY <1>1, <2>3, <3>1, <3>2 DEF Upstream, Cur
  <2> QED BY <1>1, <1>2, <2>2, <2>3, ThreadRuns, ThreadMoves
<1> QED BY <1>3, <1>4

\* The relay thread ends: it closes only a stopped stream.
LEMMA RelayEndsKeeps ==
    ASSUME StreamInv, UNCHANGED answerVars, RelayEnds
    PROVE  StreamInv'
<1>1. /\ Types /\ gw \in GwType /\ Cur \in Attempt /\ relay.pc = "end" /\ relay \in ThreadType
      /\ CloseIfStopped(Cur) /\ UNCHANGED <<gw, reply, pull, gq, audit>>
  BY ThreadParts DEF RelayEnds, Cur
<1>2. relay' \in ThreadType /\ relay'.pc = "dead" /\ relay'.item = relay.item
  BY <1>1 DEF RelayEnds, ThreadType, ThreadPc
<1>3. /\ provider' \in [Attempt -> ProviderType]
      /\ Cur \notin gw.stopped \/ provider[Cur].state # "open" => provider' = provider
  BY <1>1, CloseChanges
<1>4. Types'
  BY <1>1, <1>2, <1>3, TypesParts DEF answerVars
<1>5. Whole => Whole'
  BY <1>1, <1>2, <1>3, ClientFixed DEF Whole, Settled, Cur
<1>6. ASSUME NEW e \in Nat, Upstream(e)
      PROVE  Upstream(e)'
  <2>1. CASE gw.pc = "rest"
    <3>1. Relaying(e) /\ \A a \in gw.stopped : a < Cur
      BY <1>6, <2>1 DEF Upstream
    <3>2. Cur \notin gw.stopped
      <4>1. Cur \in Nat
        BY <1>1, AttemptFacts
      <4> QED BY <3>1, <4>1
    <3>3. Relaying(e)'
      BY <1>1, <1>2, <1>3, <3>1, <3>2 DEF Relaying, AllDeltas, Cur
    <3> QED BY <1>1, <2>1, <3>1, <3>3 DEF Upstream, Cur
  <2>2. CASE gw.pc \in {"final", "done"}
    <3>1. Settled /\ provider[Cur].sent = e
      BY <1>6, <2>2 DEF Upstream
    <3>2. provider' = provider
      BY <1>3, <3>1 DEF Settled
    <3> QED BY <1>1, <1>2, <2>2, <3>1, <3>2 DEF Upstream, Settled, Cur
  <2>3. CASE gw.pc \notin {"rest", "final", "done"}
    <3>1. gw.pc \notin {"new", "attempt", "first"}
      BY <1>1, <1>6 DEF Upstream
    <3> QED BY <1>1, <1>6, <2>3, <3>1 DEF Upstream
  <2> QED BY <2>1, <2>2, <2>3
<1> QED BY <1>1, <1>4, <1>5, <1>6, ThreadRuns, ThreadMoves

-----------------------------------------------------------------------------
\* One audit record at most.
LEMMA AuditShort ==
    ASSUME gw \in GwType, Audited
    PROVE  Len(audit) <= 1
<1>1. audit = <<>> \/ audit = <<"success">> \/ audit = <<"failed">> \/ Len(audit) <= 1
  BY DEF GwType, Audited
<1>2. CASE audit = <<>>
  BY <1>2
<1>3. CASE audit = <<"success">>
  BY <1>3
<1>4. CASE audit = <<"failed">>
  BY <1>4
<1> QED BY <1>1, <1>2, <1>3, <1>4

\* The process dies: the request is dead and nothing was announced by it.
LEMMA CrashKeeps ==
    ASSUME StreamInv, Crash
    PROVE  StreamInv'
<1>1. /\ Types /\ gw \in GwType /\ provider \in [Attempt -> ProviderType] /\ pull \in [Attempt -> PullType]
      /\ relay \in ThreadType /\ sse \in ThreadType /\ client \in ClientType
      /\ req.pc \notin {"ready", "end", "dead"} /\ UNCHANGED <<audit, client>>
  BY TypesParts DEF StreamInv, Crash
<1>2. req' \in ReqType /\ req'.pc = "dead"
  BY <1>1, GoTyped DEF Crash
<1>3. gw' \in GwType /\ gw'.pc = "closed"
  BY <1>1 DEF Crash, GwType
<1>4. provider' \in [Attempt -> ProviderType]
  <2>1. \A a \in Attempt : [provider[a] EXCEPT !.state = "closed"] \in ProviderType
    BY <1>1 DEF ProviderType
  <2> QED BY <1>1, <2>1 DEF Crash
<1>5. pull' \in [Attempt -> PullType]
  <2>1. \A a \in Attempt : [pull[a] EXCEPT !.pc = "dead"] \in PullType
    BY <1>1 DEF PullType
  <2> QED BY <1>1, <2>1 DEF Crash
<1>6. relay' \in ThreadType /\ sse' \in ThreadType
  BY <1>1 DEF Crash, ThreadType, ThreadPc
<1>7. reply' \in Item /\ reply'.kind = "none" /\ gq' \in Seq(Item) /\ sq' \in Seq(Item) /\ ~getter'
  BY ItemFacts DEF Crash
<1>8. Types'
  BY <1>1, <1>2, <1>3, <1>4, <1>5, <1>6, <1>7, TypesParts
<1>9. Audited'
  <2>2. Len(audit) <= 1
    BY <1>1, AuditShort DEF StreamInv
  <2> QED BY <1>1, <1>3, <2>2 DEF Audited
<1>10. client.last = "none"
  BY <1>1 DEF StreamInv, ClientType
<1>11. \E a \in Attempt : Prefix(a)'
  BY <1>1 DEF StreamInv, Prefix
<1> QED BY <1>1, <1>2, <1>7, <1>8, <1>9, <1>10, <1>11 DEF StreamInv, Calling, Active

\* Nothing is asked at first.
LEMMA StreamInit == Init => StreamInv
<1> SUFFICES ASSUME Init PROVE StreamInv
  OBVIOUS
<1> USE DEF Init, GatewayInit
<1>1. Types
  <2>1. None \in Item /\ 0 \in Attempt
    BY ItemFacts, AttemptFacts
  <2> QED BY <2>1, TypesParts
          DEF GwType, ProviderType, PullType, ThreadType, ThreadPc, ReqType, ClientType
<1>2. Audited
  BY DEF Audited
<1>3. Received = 0 /\ ~Holding
  BY DEF Received, Holding
<1>4. Emitted(0) = 0
  BY <1>3 DEF Emitted
<1>5. Upstream(0)
  BY AttemptFacts DEF Upstream, Cur
<1>6. Downstream(0)
  BY <1>3 DEF Downstream
<1>7. Prefix(Cur) /\ Announced
  BY DEF Prefix, Announced, Told
<1>8. Flow
  BY <1>4, <1>5, <1>6, <1>7 DEF Flow
<1>9. Cur \in Attempt
  BY AttemptFacts DEF Cur
<1>10. ~Calling
  BY ItemFacts DEF Calling
<1> QED BY <1>1, <1>2, <1>7, <1>8, <1>9, <1>10 DEF StreamInv

\* Nothing happens.
LEMMA StreamStutters ==
    ASSUME StreamInv, UNCHANGED vars
    PROVE  StreamInv'
<1>1. QuietStep
  BY DEF QuietStep, vars, gatewayVars, answerVars, StreamInv
<1> QED BY <1>1, QuietKeeps

\* The invariant is inductive.
LEMMA StreamNext ==
    ASSUME StreamInv, Next
    PROVE  StreamInv'
<1>1. CASE Ask \/ PrepareStep \/ SweepStep \/ DeleteConversation \/ DeleteSources
  BY <1>1, QuietSteps, QuietKeeps
<1>2. CASE StreamStep
  <2>1. CASE Await \/ Continue
    BY <2>1, QuietSteps, QuietKeeps
  <2> QED BY <1>2, <2>1, StartKeeps, SendDeltaKeeps, CompleteKeeps, RequestEnds DEF StreamStep
<1>3. CASE Get
  BY <1>3, GetKeeps
<1>4. CASE ProducerStep
  <2>1. CASE ProducePut
    <3>1. CASE sq' = sq
      BY <2>1, <3>1, ProducerMovesKeeps
    <3>2. CASE sq' # sq
      BY <2>1, <3>2, ProducePutKeeps
    <3> QED BY <3>1, <3>2
  <2>2. CASE ProduceItem \/ ProduceTest \/ ProducerEnds \/ WakeGetter
    BY <2>2, ProducerMovesKeeps
  <2>3. CASE ProduceNext
    BY <2>3, ProduceNextKeeps
  <2>4. CASE GatewayStep /\ UNCHANGED answerVars
    BY <2>4, GatewayKeeps
  <2> QED BY <1>4, <2>1, <2>2, <2>3, <2>4 DEF ProducerStep
<1>5. CASE RelayStep /\ UNCHANGED answerVars
  BY <1>5, RelayNextKeeps, RelayTestKeeps, RelayPutKeeps, RelayEndsKeeps DEF RelayStep
<1>6. CASE (\E a \in Attempt : PullStep(a)) /\ UNCHANGED answerVars
  BY <1>6, PullKeeps, PullTestsKeeps, PullEndsKeeps DEF PullStep
<1>7. CASE Disconnect
  BY <1>7, RequestEnds
<1>8. CASE Crash
  BY <1>8, CrashKeeps
<1> QED BY <1>1, <1>2, <1>3, <1>4, <1>5, <1>6, <1>7, <1>8 DEF Next

\* So it holds in every state.
LEMMA StreamHolds == Spec => []StreamInv
<1>1. ASSUME StreamInv, [Next]_vars PROVE StreamInv'
  BY <1>1, StreamNext, StreamStutters
<1> QED BY StreamInit, <1>1, PTL DEF Spec

\* It gives the two properties of the stream.
LEMMA StreamGives == StreamInv => AnswerIsOneStream /\ AuditMatches
<1> SUFFICES ASSUME StreamInv PROVE AnswerIsOneStream /\ AuditMatches
  OBVIOUS
<1>1. Types /\ gw \in GwType
  BY TypesParts DEF StreamInv
<1>2. client.last = "message_end" /\ req.evidence => Whole
  BY DEF StreamInv
<1>3. AnswerIsOneStream
  BY <1>2 DEF StreamInv, Prefix, Whole, Settled, Cur, AnswerIsOneStream
<1>4. Len(audit) <= 1
  BY <1>1, AuditShort DEF StreamInv
<1>5. /\ client.last = "message_end" /\ req.evidence => audit = <<"success">>
      /\ client.last = "error" => \/ audit = <<"failed">>
                                  \/ audit = <<>> /\ \A a \in Attempt : provider[a].state = "none"
  BY <1>2 DEF StreamInv, Audited, Whole
<1> QED BY <1>3, <1>4, <1>5 DEF AuditMatches

\* Whatever attempts fail, threads time out and clients leave, the client gets the
\* chunks of one attempt in order, and message_end only after all of them: no chunk
\* is lost, repeated or overtaken in the relay queue (service.py, _stream_rest) or
\* in the queue of the stream (answer_service.py, _stream_generation).
THEOREM AnswerIsOneStreamHolds == Spec => []AnswerIsOneStream
BY StreamHolds, StreamGives, PTL

\* The call is audited at most once, as a success when the client got message_end
\* after an answer, as a failure when it got an error frame after an attempt.  An
\* error without a record is one before any attempt: no provider was asked
\* (service.py, stream_generation_with_usage, call_stream and _stream_rest).
THEOREM AuditMatchesHolds == Spec => []AuditMatches
BY StreamHolds, StreamGives, PTL

-----------------------------------------------------------------------------
(* The message, the citations and the sweep, when a live request ends within *)
(* the stale limit.                                                          *)
LEMMA RequestKeepsMsg ==
    ASSUME Types, MsgInv, StreamStep \/ Disconnect
    PROVE  MsgInv' /\ ((msg \in Terminal) => msg' \in {msg, "gone"})
<1>1. req \in ReqType /\ client \in ClientType
  BY TypesParts
<1> USE DEF Terminal
<1>2. CASE Start
  <2>1. CASE req.evidence
    <3>1. req' \in ReqType /\ req'.pc = "loop" /\ req'.evidence = req.evidence /\ UNCHANGED <<msg, cited, client, sweep>>
      BY <1>2, <2>1, GoTyped DEF Start
    <3> QED BY <1>1, <1>2, <2>1, <3>1 DEF Start, MsgInv, ClientSawTruth
  <2>2. CASE ~req.evidence
    <3>1. /\ req' \in ReqType /\ req'.pc = "end" /\ req'.evidence = req.evidence
          /\ client'.last = "message_end" /\ UNCHANGED <<msg, cited, sweep>>
      BY <1>2, <2>2, GoTyped, SendTyped DEF Start
    <3> QED BY <1>2, <2>2, <3>1 DEF Start, MsgInv, ClientSawTruth
  <2> QED BY <2>1, <2>2
<1>3. CASE Await \/ Continue
  <2>1. /\ req' \in ReqType /\ req'.pc \in {"loop", "await"} /\ req'.evidence = req.evidence
        /\ UNCHANGED <<msg, cited, client, sweep>> /\ req.pc \in {"loop", "yield", "got"}
    BY <1>3, GoTyped DEF Await, Continue
  <2> QED BY <1>1, <2>1 DEF MsgInv, ClientSawTruth
<1>4. CASE SendDelta
  <2>1. /\ req' \in ReqType /\ req'.pc = "yield" /\ req'.evidence = req.evidence
        /\ client'.last = client.last /\ UNCHANGED <<msg, cited, sweep>> /\ req.pc = "got"
    BY <1>1, <1>4, GoTyped DEF SendDelta, ClientType
  <2> QED BY <2>1 DEF MsgInv, ClientSawTruth
<1>5. CASE GenerationFails
  <2>1. /\ req' \in ReqType /\ req'.pc = "end" /\ req'.evidence = req.evidence
        /\ client'.last = "error" /\ UNCHANGED <<cited, sweep>> /\ req.pc = "got"
    BY <1>5, GoTyped, SendTyped DEF GenerationFails
  <2> QED BY <1>5, <2>1 DEF GenerationFails, SetTerminal, MsgInv, ClientSawTruth
<1>6. CASE Complete
  <2>1. /\ req' \in ReqType /\ req'.pc = "cite" /\ req'.evidence = req.evidence
        /\ UNCHANGED <<client, cited, sweep>> /\ req.pc = "got"
    BY <1>6, GoTyped DEF Complete
  <2> QED BY <1>6, <2>1 DEF Complete, SetTerminal, MsgInv, ClientSawTruth
<1>7. CASE Cite
  <2>1. req' \in ReqType /\ req'.pc = "end" /\ req'.evidence = req.evidence /\ req.pc = "cite"
    BY <1>7, GoTyped DEF Cite
  <2>2. CASE msg # "gone" /\ sources
    <3>1. client'.last = "message_end" /\ cited' /\ UNCHANGED <<msg, sweep>>
      BY <1>7, <2>2, SendTyped DEF Cite
    <3> QED BY <2>1, <2>2, <3>1 DEF MsgInv, ClientSawTruth
  <2>3. CASE ~(msg # "gone" /\ sources)
    <3>1. UNCHANGED <<client, cited, sweep>> /\ SetTerminal("cancelled")
      BY <1>7, <2>3 DEF Cite
    <3>2. msg' = msg
      BY <2>1, <3>1 DEF SetTerminal, MsgInv
    <3> QED BY <1>1, <2>1, <3>1, <3>2 DEF MsgInv, ClientSawTruth
  <2> QED BY <2>2, <2>3
<1>8. CASE Disconnect
  <2>1. /\ req' \in ReqType /\ req'.pc = "end" /\ req'.evidence = req.evidence
        /\ req.pc \in {"start", "await", "got", "yield"} /\ UNCHANGED <<client, cited, sweep>>
    BY <1>8, GoTyped DEF Disconnect
  <2>2. client.last = "none"
    BY <1>1, <2>1 DEF MsgInv, ClientType
  <2> QED BY <1>8, <2>1, <2>2 DEF Disconnect, SetTerminal, MsgInv, ClientSawTruth
<1> QED BY <1>2, <1>3, <1>4, <1>5, <1>6, <1>7, <1>8 DEF StreamStep

\* The steps before the stream.
LEMMA PrepareKeepsMsg ==
    ASSUME Types, MsgInv, Ask \/ PrepareStep
    PROVE  MsgInv' /\ ((msg \in Terminal) => msg' \in {msg, "gone"})
<1>1. req \in ReqType /\ client \in ClientType
  BY TypesParts
<1> USE DEF Terminal
<1>2. CASE Ask
  <2>1. /\ req.pc = "ready" /\ req' \in ReqType /\ req'.pc = "asked" /\ req'.evidence = req.evidence
        /\ UNCHANGED <<client, cited, sweep, msg>>
    BY <1>2, GoTyped DEF Ask
  <2> QED BY <2>1 DEF MsgInv, ClientSawTruth
<1>3. CASE CreateMessage
  <2>1. /\ req.pc = "asked" /\ req' \in ReqType /\ req'.evidence = req.evidence
        /\ UNCHANGED <<client, cited, sweep>>
        /\ \/ msg' = "streaming" /\ req'.pc = "retrieve"
           \/ msg' = msg /\ req'.pc = "end"
    BY <1>3, GoTyped DEF CreateMessage
  <2>2. client.last = "none"
    BY <1>1, <2>1 DEF MsgInv, ClientType
  <2> QED BY <2>1, <2>2 DEF MsgInv, ClientSawTruth
<1>4. CASE RetrieveFails \/ NoEvidence
  <2>1. /\ req.pc = "retrieve" /\ req' \in ReqType /\ req'.evidence = req.evidence
        /\ UNCHANGED <<client, cited, sweep>>
        /\ \/ SetTerminal("failed") /\ req'.pc = "end"
           \/ SetTerminal("completed") /\ req'.pc = "start"
    BY <1>4, GoTyped DEF RetrieveFails, NoEvidence
  <2>2. client.last = "none"
    BY <1>1, <2>1 DEF MsgInv, ClientType
  <2> QED BY <2>1, <2>2 DEF SetTerminal, MsgInv, ClientSawTruth
<1>5. CASE Retrieve
  <2>1. /\ req.pc = "retrieve" /\ UNCHANGED <<client, cited, sweep, msg>>
        /\ req' = [[req EXCEPT !.pc = "start"] EXCEPT !.evidence = TRUE]
    BY <1>1, <1>5 DEF Retrieve, ReqType
  <2>2. req'.pc = "start" /\ req'.evidence
    BY <1>1, <2>1 DEF ReqType
  <2>3. client.last = "none"
    BY <1>1, <2>1 DEF MsgInv, ClientType
  <2> QED BY <2>1, <2>2, <2>3 DEF MsgInv, ClientSawTruth
<1> QED BY <1>2, <1>3, <1>4, <1>5 DEF PrepareStep

\* The sweep, the pool thread, the deletion of the conversation and a crash.
LEMMA OthersKeepMsg ==
    ASSUME Prompt, Types, MsgInv, SweepStep \/ Get \/ DeleteConversation \/ Crash
    PROVE  MsgInv' /\ ((msg \in Terminal) => msg' \in {msg, "gone"})
<1>1. req \in ReqType /\ client \in ClientType
  BY TypesParts
<1> USE DEF Terminal
<1>2. CASE SweepList
  BY <1>2 DEF SweepList, MsgInv, ClientSawTruth
<1>3. CASE SweepWrite
  BY <1>3 DEF SweepWrite, MsgInv, ClientSawTruth
<1>4. CASE DeleteConversation
  BY <1>4 DEF DeleteConversation, MsgInv, ClientSawTruth
<1>5. CASE Crash
  <2>1. /\ req' \in ReqType /\ req'.pc = "dead" /\ UNCHANGED <<client, cited, sweep, msg>>
        /\ req.pc \notin {"ready", "end", "dead"}
    BY <1>5, GoTyped DEF Crash
  <2>2. client.last = "none"
    BY <1>1, <2>1 DEF MsgInv, ClientType
  <2> QED BY <2>1, <2>2 DEF MsgInv, ClientSawTruth
<1>6. CASE Get
  <2>1. /\ UNCHANGED <<client, cited, sweep, msg>>
        /\ req' = req \/ (req.pc = "await" /\ req'.pc = "got")
    <3>1. CASE req.pc = "await"
      <4>1. req' = [[req EXCEPT !.pc = "got"] EXCEPT !.item = Head(sq)]
        BY <1>1, <1>6, <3>1 DEF Get, ReqType
      <4>2. req'.pc = "got"
        BY <1>1, <4>1 DEF ReqType
      <4> QED BY <1>6, <3>1, <4>2 DEF Get
    <3>2. CASE req.pc # "await"
      BY <1>6, <3>2 DEF Get
    <3> QED BY <3>1, <3>2
  <2>2. CASE req' = req
    BY <2>1, <2>2 DEF MsgInv, ClientSawTruth
  <2>3. CASE req.pc = "await" /\ req'.pc = "got"
    <3>1. client.last = "none"
      BY <1>1, <2>3 DEF MsgInv, ClientType
    <3> QED BY <2>1, <2>3, <3>1 DEF MsgInv, ClientSawTruth
  <2> QED BY <2>1, <2>2, <2>3
<1> QED BY <1>2, <1>3, <1>4, <1>5, <1>6 DEF SweepStep

\* What is known of the message is inductive.
LEMMA MsgNext ==
    ASSUME Prompt, Types, MsgInv, [Next]_vars
    PROVE  MsgInv' /\ ((msg \in Terminal) => msg' \in {msg, "gone"})
<1>1. ASSUME UNCHANGED <<msg, cited, req, client, sweep>>
      PROVE  MsgInv' /\ ((msg \in Terminal) => msg' \in {msg, "gone"})
  BY <1>1 DEF MsgInv, ClientSawTruth
<1>2. CASE ProducerStep
  <2>1. UNCHANGED <<msg, cited, req, client, sweep>>
    BY <1>2 DEF ProducerStep, ProduceNext, ProduceItem, ProduceTest, ProducePut, ProducerEnds, WakeGetter,
                answerVars
  <2> QED BY <1>1, <2>1
<1>3. CASE \/ (RelayStep \/ \E a \in Attempt : PullStep(a)) /\ UNCHANGED answerVars
           \/ DeleteSources \/ UNCHANGED vars
  <2>1. UNCHANGED <<msg, cited, req, client, sweep>>
    BY <1>3 DEF DeleteSources, vars, answerVars
  <2> QED BY <1>1, <2>1
<1> QED BY <1>2, <1>3, RequestKeepsMsg, PrepareKeepsMsg, OthersKeepMsg DEF Next

\* So it holds in every state, and terminal states are final.
LEMMA MsgHolds ==
    ASSUME Prompt
    PROVE  /\ Spec => []MsgInv
           /\ Spec => TerminalStateFinal
<1>1. Init => MsgInv
  BY DEF Init, MsgInv, ClientSawTruth
<1>2. StreamInv => Types
  BY DEF StreamInv
<1>3. ASSUME StreamInv, MsgInv, [Next]_vars
      PROVE  MsgInv' /\ [(msg \in Terminal) => msg' \in {msg, "gone"}]_vars
  BY <1>2, <1>3, MsgNext
<1>4. Spec => []MsgInv
  BY <1>1, <1>3, StreamHolds, PTL DEF Spec
<1>5. Spec => TerminalStateFinal
  BY <1>3, <1>4, StreamHolds, PTL DEF Spec, TerminalStateFinal
<1> QED BY <1>4, <1>5

\* When a live request ends within the stale limit, what the client was told is what
\* the database says: message_end for a completed message with its citations, error
\* for a failed one, whatever is deleted and whoever dies in between
\* (answer_service.py, complete, fail and cancel; task_recovery.py, the sweep of
\* stale messages).
THEOREM ClientSawTruthHolds == Prompt => (Spec => []ClientSawTruth)
<1> SUFFICES ASSUME Prompt PROVE Spec => []ClientSawTruth
  OBVIOUS
<1>1. MsgInv => ClientSawTruth
  BY DEF MsgInv
<1> QED BY <1>1, MsgHolds, PTL

\* Under the same condition a terminal state is final until the message is deleted:
\* the sweep writes `failed` over no message that was completed, failed or cancelled
\* after it was listed (task_recovery.py, the sweep of stale messages).
THEOREM TerminalStateFinalHolds == Prompt => (Spec => TerminalStateFinal)
BY MsgHolds
=============================================================================
