------------------------------ MODULE RateLimit ------------------------------
(***************************************************************************)
(* The sliding-window limiter of the API: the middleware asks Redis about  *)
(* the rules of a request's policy one after the other, each answered by   *)
(* one atomic script over a sorted set.  Time is counted in ticks.         *)
(*                                                                         *)
(* The script is atomic but the time it works with is not its own: the     *)
(* instance reads its clock before the call, so that scripts may run in    *)
(* another order than their readings.  MaxDelay bounds how old a reading   *)
(* is when its script runs.                                                *)
(*                                                                         *)
(* Nor is the member of an event its own: the script makes it with         *)
(* tostring of the server's microseconds, a number of 16 digits of which   *)
(* Redis' Lua prints 14, so that the events of one key within the same     *)
(* 100 microseconds, some time of one tick, share one member.              *)
(***************************************************************************)
EXTENDS Integers, FiniteSets, Sequences

CONSTANTS
    Request,        \* requests, each served once
    Key,            \* limiter keys: policy, window and subject
    Policy,
    Rules,          \* [Policy -> Seq(Key)], in the order they are asked
    Reads,          \* policies a GET or HEAD may fall under
    Limit, Window,  \* per key: events, ticks
    Second,         \* ticks in a second
    FailOpen,       \* read_fail_open
    MaxDelay,
    Horizon         \* bound of the clock, for TLC

ASSUME RateLimitAssumption ==
    /\ Rules \in [Policy -> Seq(Key)] /\ Reads \subseteq Policy
    /\ Limit \in [Key -> Nat \ {0}] /\ Window \in [Key -> Nat \ {0}]
    /\ Second \in Nat \ {0} /\ FailOpen \in BOOLEAN
    /\ MaxDelay \in Nat /\ Horizon \in Nat

VARIABLES
    now,
    log,        \* every event ever admitted: when, and with which score
    zset,       \* indices of log still in the sorted set
    merged,     \* indices of log whose member a later event has taken over
    expiry,     \* when the key itself expires
    req

vars == <<now, log, zset, merged, expiry, req>>

-----------------------------------------------------------------------------
Event == [at : Nat, score : Nat]

NoDenial == [key |-> <<>>, seen |-> 0, until |-> 0]
Fresh == [pc |-> "idle", get |-> FALSE, rules |-> <<>>, known |-> {}, counted |-> {},
          reading |-> 0, denial |-> NoDenial]

\* An expired key is not there any more.
Visible(k) == IF now <= expiry[k] THEN zset[k] ELSE {}

LeftAtSeconds(k, reading) ==  \* mutant: the window in seconds against a clock in ticks
    {i \in Visible(k) : log[k][i].score > reading - Window[k] \div Second}

\* ZREMRANGEBYSCORE: what is left for a reading of the clock.
LeftAt(k, reading) == {i \in Visible(k) : log[k][i].score > reading - Window[k]}

Floor(n) ==  \* mutant
    n \div Second

Ceil(n) == -((-n) \div Second)
AtLeastOne(n) == IF n < 1 THEN 1 ELSE n

\* The wait, in seconds, until the oldest event leaves the window.
Oldest(k, left) == CHOOSE s \in {log[k][i].score : i \in left} :
                      \A i \in left : s <= log[k][i].score
RetryAfter(k, left, reading) ==
    AtLeastOne(Ceil(Oldest(k, left) + Window[k] - reading))

Init ==
    /\ now = 0
    /\ log = [k \in Key |-> <<>>]
    /\ zset = [k \in Key |-> {}]
    /\ merged = [k \in Key |-> {}]
    /\ expiry = [k \in Key |-> 0]
    /\ req = [r \in Request |-> Fresh]

-----------------------------------------------------------------------------
(***************************************************************************)
(* The script.                                                             *)
(***************************************************************************)
\* Whose member ZADD may find in the set already: it then moves its score
\* instead of adding one.
SameMember(k, left) == {{}} \cup {{i} : i \in {j \in left : log[k][j].at = now}}

Admitted(k, reading) ==
    LET left == LeftAt(k, reading)
    IN  /\ Cardinality(left) < Limit[k]
        /\ log' = [log EXCEPT ![k] = Append(@, [at |-> now, score |-> reading])]
        /\ \E same \in SameMember(k, left) :
             /\ zset' = [zset EXCEPT ![k] = (left \ same) \cup {Len(log[k]) + 1}]
             /\ merged' = [merged EXCEPT ![k] = @ \cup same]
        /\ expiry' = [expiry EXCEPT ![k] = now + Window[k] + Second]

Denied(k, reading) ==
    LET left == LeftAt(k, reading)
    IN  /\ Cardinality(left) >= Limit[k]
        /\ zset' = [zset EXCEPT ![k] = left]
        /\ expiry' = [expiry EXCEPT ![k] = now + Window[k]]
        /\ UNCHANGED <<log, merged>>

-----------------------------------------------------------------------------
(***************************************************************************)
(* The middleware.                                                         *)
(***************************************************************************)
Keys(rules) == {rules[i] : i \in DOMAIN rules}

\* Classification, and the subjects the request shows: no Bearer or an invalid
\* address leaves a rule without one.
Arrive(r, p, get, known) ==
    /\ req[r].pc = "idle"
    /\ get => p \in Reads
    /\ req' = [req EXCEPT ![r] =
                 [Fresh EXCEPT !.pc = "rule", !.get = get, !.rules = Rules[p], !.known = known]]
    /\ UNCHANGED <<now, log, zset, merged, expiry>>

\* No rule left, the handler; a rule without a subject is passed over.
Handle(r) ==
    /\ req[r].pc = "rule" /\ req[r].rules = <<>>
    /\ req' = [req EXCEPT ![r].pc = "passed"]
    /\ UNCHANGED <<now, log, zset, merged, expiry>>

PassOver(r) ==
    /\ req[r].pc = "rule" /\ req[r].rules # <<>>
    /\ Head(req[r].rules) \notin req[r].known
    /\ req' = [req EXCEPT ![r].rules = Tail(@)]
    /\ UNCHANGED <<now, log, zset, merged, expiry>>

\* The next rule, with the clock of the instance.
Ask(r) ==
    /\ req[r].pc = "rule" /\ req[r].rules # <<>>
    /\ Head(req[r].rules) \in req[r].known
    /\ req' = [req EXCEPT ![r].pc = "script", ![r].reading = now]
    /\ UNCHANGED <<now, log, zset, merged, expiry>>

Admit(r) ==
    LET k == Head(req[r].rules)
    IN  /\ req[r].pc = "script"
        /\ Admitted(k, req[r].reading)
        /\ req' = [req EXCEPT ![r].pc = "rule", ![r].rules = Tail(@),
                              ![r].counted = @ \cup {k}, ![r].reading = 0]
        /\ UNCHANGED now

\* 429 with the wait.  What earlier rules have counted stays counted.
Deny(r) ==
    LET k == Head(req[r].rules)
        reading == req[r].reading
        wait == Second * RetryAfter(k, LeftAt(k, reading), reading)
    IN  /\ req[r].pc = "script"
        /\ Denied(k, reading)
        /\ req' = [req EXCEPT ![r] =
                     [Fresh EXCEPT !.pc = "limited",
                                   !.denial = [key |-> k, seen |-> Len(log[k]),
                                               until |-> reading + wait]]]
        /\ UNCHANGED now

UnprotectedOpen(r) ==  \* mutant: every method fails open
    req' = [req EXCEPT ![r] = IF FailOpen THEN [@ EXCEPT !.pc = "passed"]
                              ELSE [Fresh EXCEPT !.pc = "unavailable"]]

\* Reads go on without the limiter where read_fail_open says so, the rest is 503.
Unprotected(r) ==
    req' = [req EXCEPT ![r] = IF @.get /\ FailOpen THEN [@ EXCEPT !.pc = "passed"]
                              ELSE [Fresh EXCEPT !.pc = "unavailable"]]

\* Redis does not answer: the script has not run, or it has and nobody heard.
RedisFails(r) ==
    /\ req[r].pc = "script"
    /\ Unprotected(r)
    /\ \/ UNCHANGED <<log, zset, merged, expiry>>
       \/ Admitted(Head(req[r].rules), req[r].reading)
       \/ Denied(Head(req[r].rules), req[r].reading)
    /\ UNCHANGED now

\* A tick waits for calls that would become older than MaxDelay.
Tick ==
    /\ now < Horizon
    /\ \A r \in Request : req[r].pc = "script" => now - req[r].reading < MaxDelay
    /\ now' = now + 1
    /\ UNCHANGED <<log, zset, merged, expiry, req>>

Next ==
    \/ Tick
    \/ \E r \in Request :
         \/ \E p \in Policy, get \in BOOLEAN : \E known \in SUBSET Keys(Rules[p]) :
              Arrive(r, p, get, known)
         \/ Handle(r) \/ PassOver(r) \/ Ask(r) \/ Admit(r) \/ Deny(r) \/ RedisFails(r)

Spec == Init /\ [][Next]_vars

-----------------------------------------------------------------------------
(* The state has the shape the code gives it. *)
TypeOK ==
    /\ now \in Nat
    /\ log \in [Key -> Seq(Event)]
    /\ \A k \in Key : zset[k] \cup merged[k] \subseteq DOMAIN log[k]
    /\ expiry \in [Key -> Int]
    /\ \A r \in Request : /\ req[r].pc \in {"idle", "rule", "script", "passed", "limited", "unavailable"}
                          /\ req[r].reading \in Nat

(* Sliding window: up to any event a key has admitted, no more than Limit are
   less than a window old, less the age a clock reading may have: scripts that
   run in another order than their readings, the purge of one request before
   the count of another and the expiry of the whole key never let a burst
   through.  Events that share their member with a later one of the same instant
   are not counted, neither here nor by the script: requests that hit Redis
   within the same 100 microseconds do pass the limit. *)
WindowLimit ==
    \A k \in Key : \A i \in DOMAIN log[k] :
        Cardinality({j \in (1..i) \ merged[k] :
                        log[k][i].at - log[k][j].at < Window[k] - MaxDelay}) <= Limit[k]

(* The Retry-After of a 429 is no empty promise: who comes back then, by the
   clock that denied him, finds room unless somebody else was admitted. *)
RetryAfterSuffices ==
    \A r \in Request :
        LET d == req[r].denial
        IN  req[r].pc = "limited" /\ Len(log[d.key]) = d.seen
            => Cardinality(LeftAt(d.key, d.until)) < Limit[d.key]

(* Fail closed: what reaches a handler and is not a read has been counted by
   Redis under every rule its policy has for it, also when Redis went away
   between two rules. *)
WritesAreCounted ==
    \A r \in Request :
        req[r].pc = "passed" /\ ~req[r].get => req[r].known \subseteq req[r].counted
=============================================================================
