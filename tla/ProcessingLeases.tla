-------------------------- MODULE ProcessingLeases --------------------------
(***************************************************************************)
(* document_processing_leases: the slots of all users, taken by parse      *)
(* workers in concurrent PostgreSQL transactions.  One action is one SQL   *)
(* statement, at READ COMMITTED: each statement sees what was committed    *)
(* when it started, SELECT ... FOR UPDATE waits for the rows it found and  *)
(* tests them again, an advisory lock lives until its transaction ends.    *)
(***************************************************************************)
EXTENDS Naturals, FiniteSets

CONSTANTS
    Doc, User,
    Owner,            \* user_id of each document
    Key, LockKey,     \* hashtext: users may share a key
    Worker,
    NoOne,            \* nobody holds the lock
    MaxPerUser,       \* processing_max_per_user (3 by default)
    LeaseId           \* gen_random_uuid(); an id is reused once its row is released

ASSUME LeaseAssumption ==
    /\ Owner \in [Doc -> User]
    /\ LockKey \in [User -> Key]
    /\ NoOne \notin Worker
    /\ MaxPerUser \in Nat \ {0}

VARIABLES
    leases,    \* committed rows with released_at IS NULL
    advisory,  \* who holds the advisory lock of each key
    tx         \* the transaction of each worker

vars == <<leases, advisory, tx>>

Lease == [id : LeaseId, doc : Doc]
TxIdle == [pc |-> "idle", doc |-> NoOne, seen |-> {}]

UserLeases(u) == {l \in leases : Owner[l.doc] = u}
KeyOf(w) == LockKey[Owner[tx[w].doc]]

\* The rows that transactions of the workers S hold FOR UPDATE.
LockedBy(S) == UNION {tx[v].seen : v \in {x \in S : tx[x].pc \in {"insert", "commit"}}}

EndTx(w) ==
    /\ advisory' = [k \in Key |-> IF advisory[k] = w THEN NoOne ELSE advisory[k]]
    /\ tx' = [tx EXCEPT ![w] = TxIdle]

Init ==
    /\ leases = {}
    /\ advisory = [k \in Key |-> NoOne]
    /\ tx = [w \in Worker |-> TxIdle]

(***************************************************************************)
(* process_parse: acquire only when no open lease is found.                *)
(***************************************************************************)
FindOpen(w, d) ==
    /\ tx[w].pc = "idle"
    /\ \A l \in leases : l.doc # d
    /\ tx' = [tx EXCEPT ![w] = [pc |-> "lock", doc |-> d, seen |-> {}]]
    /\ UNCHANGED <<leases, advisory>>

LockUnserialized(w) ==  \* mutant
    /\ tx[w].pc = "lock"
    /\ tx' = [tx EXCEPT ![w].pc = "select"]
    /\ UNCHANGED <<leases, advisory>>

\* pg_advisory_xact_lock
Lock(w) ==
    /\ tx[w].pc = "lock"
    /\ advisory[KeyOf(w)] = NoOne
    /\ advisory' = [advisory EXCEPT ![KeyOf(w)] = w]
    /\ tx' = [tx EXCEPT ![w].pc = "select"]
    /\ UNCHANGED leases

\* The snapshot of SELECT ... FOR UPDATE.
Select(w) ==
    /\ tx[w].pc = "select"
    /\ tx' = [tx EXCEPT ![w].pc = "count",
                        ![w].seen = UserLeases(Owner[tx[w].doc])]
    /\ UNCHANGED <<leases, advisory>>

CountDeniedKeepsLock(w) ==  \* mutant
    /\ tx[w].pc = "count"
    /\ tx[w].seen \cap LockedBy(Worker \ {w}) = {}
    /\ LET open == tx[w].seen \cap leases
       IN  \/ /\ Cardinality(open) >= MaxPerUser
              /\ tx' = [tx EXCEPT ![w] = TxIdle]
              /\ UNCHANGED advisory
           \/ /\ Cardinality(open) < MaxPerUser
              /\ tx' = [tx EXCEPT ![w].pc = "insert", ![w].seen = open]
              /\ UNCHANGED advisory
    /\ UNCHANGED leases

\* Rows released while it waited drop out; the others are locked and counted.
Count(w) ==
    /\ tx[w].pc = "count"
    /\ tx[w].seen \cap LockedBy(Worker \ {w}) = {}
    /\ LET open == tx[w].seen \cap leases
       IN  \/ /\ Cardinality(open) >= MaxPerUser
              /\ EndTx(w)
           \/ /\ Cardinality(open) < MaxPerUser
              /\ tx' = [tx EXCEPT ![w].pc = "insert", ![w].seen = open]
              /\ UNCHANGED advisory
    /\ UNCHANGED leases

InsertUnchecked(w) ==  \* mutant
    /\ tx[w].pc = "insert"
    /\ tx' = [tx EXCEPT ![w].pc = "commit"]
    /\ UNCHANGED <<leases, advisory>>

\* The flush: uq_document_processing_leases_open refuses a second open row of
\* the document (rollback, None) and waits for one that is not committed yet.
Insert(w) ==
    /\ tx[w].pc = "insert"
    /\ \A v \in Worker \ {w} : ~(tx[v].pc = "commit" /\ tx[v].doc = tx[w].doc)
    /\ \/ /\ \E l \in leases : l.doc = tx[w].doc
          /\ EndTx(w)
       \/ /\ \A l \in leases : l.doc # tx[w].doc
          /\ tx' = [tx EXCEPT ![w].pc = "commit"]
          /\ UNCHANGED advisory
    /\ UNCHANGED leases

Commit(w) ==
    /\ tx[w].pc = "commit"
    /\ \E id \in LeaseId \ {l.id : l \in leases} :
         leases' = leases \cup {[id |-> id, doc |-> tx[w].doc]}
    /\ EndTx(w)

\* The worker dies or the database drops its connection.
Abort(w) ==
    /\ tx[w].pc # "idle"
    /\ EndTx(w)
    /\ UNCHANGED leases

\* finalize, fail_stage, DELETE, delete_cleanup or the scanner sets released_at;
\* the UPDATE waits for whoever counts the row.
Release(l) ==
    /\ l \in leases \ LockedBy(Worker)
    /\ leases' = leases \ {l}
    /\ UNCHANGED <<advisory, tx>>

-----------------------------------------------------------------------------
Acquire(w) == Lock(w) \/ Select(w) \/ Count(w) \/ Insert(w) \/ Commit(w)

Next ==
    \/ \E w \in Worker :
         (\E d \in Doc : FindOpen(w, d)) \/ Acquire(w) \/ Abort(w)
    \/ \E l \in leases : Release(l)

Spec == Init /\ [][Next]_vars

\* The lock manager serves its waiters in order.
FairSpec == Spec /\ \A w \in Worker : SF_vars(Lock(w)) /\ WF_vars(Acquire(w))

-----------------------------------------------------------------------------
Tx == [pc : {"idle", "lock", "select", "count", "insert", "commit"},
       doc : Doc \cup {NoOne}, seen : SUBSET Lease]

TypeOK ==
    /\ leases \in SUBSET Lease /\ IsFiniteSet(leases)
    /\ advisory \in [Key -> Worker \cup {NoOne}]
    /\ tx \in [Worker -> Tx]

\* No interleaving of counts, inserts and releases lets a user hold more than
\* processing_max_per_user slots.
SlotLimit == \A u \in User : Cardinality(UserLeases(u)) <= MaxPerUser

\* A document never holds two slots, however often its parse is delivered.
OneSlotPerDocument == \A l, m \in leases : l.doc = m.doc => l = m

HeldDocs == {l.doc : l \in leases}

\* The leases implement the slot pool: a commit takes one slot of the owner, a
\* release gives that same slot back, and nothing else is visible.
Pool == INSTANCE SlotPool WITH held <- HeldDocs
PoolSpec == Pool!Spec

\* Whoever asks for a slot gets an answer: every path out of acquire gives up
\* the advisory lock, and nobody waits in a circle.
EveryRequestAnswered ==
    \A w \in Worker : tx[w].pc # "idle" ~> tx[w].pc = "idle"
=============================================================================
