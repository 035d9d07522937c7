----------------------- MODULE ProcessingLeasesProofs -----------------------
(***************************************************************************)
(* Theorems about ProcessingLeases, for any number of documents, users,    *)
(* lock keys, workers and slots: type correctness, the slot limit, one     *)
(* slot per document, and the refinement of SlotPool.                      *)
(*                                                                         *)
(* The limit is not inductive: it holds because the count a transaction    *)
(* made is still true when the transaction commits.  Inv says why: whoever *)
(* counted holds the advisory lock of its user (LockHeld), saw every open  *)
(* row (SeenAll), and until it commits leases of the user only disappear   *)
(* (HasRoom, NotYet).                                                      *)
(***************************************************************************)
EXTENDS ProcessingLeases, FiniteSetTheorems, TLAPS

Holding(w) == tx[w].pc \in {"select", "count", "insert", "commit"}

LockHeld == \A w \in Worker : Holding(w) => advisory[KeyOf(w)] = w
HasDoc == \A w \in Worker : tx[w].pc # "idle" => tx[w].doc \in Doc
SeenAll ==
    \A w \in Worker :
        tx[w].pc = "count" => UserLeases(Owner[tx[w].doc]) \subseteq tx[w].seen
HasRoom ==
    \A w \in Worker :
        tx[w].pc \in {"insert", "commit"} =>
            Cardinality(UserLeases(Owner[tx[w].doc])) < MaxPerUser
NotYet ==
    \A w \in Worker :
        tx[w].pc = "commit" => \A l \in leases : l.doc # tx[w].doc

Inv ==
    /\ TypeOK /\ HasDoc /\ LockHeld
    /\ SeenAll /\ HasRoom /\ NotYet
    /\ SlotLimit /\ OneSlotPerDocument

-----------------------------------------------------------------------------
\* Ending a transaction touches only the state of its worker and its lock.
LEMMA EndTxEffect ==
    ASSUME TypeOK, NEW w \in Worker, EndTx(w)
    PROVE  /\ advisory' \in [Key -> Worker \cup {NoOne}]
           /\ tx' \in [Worker -> Tx]
           /\ tx'[w] = TxIdle
           /\ \A v \in Worker : v # w => tx'[v] = tx[v]
           /\ \A k \in Key : advisory[k] # w => advisory'[k] = advisory[k]
  BY DEF EndTx, TypeOK, Tx, TxIdle

\* The leases of a user are finitely many.
LEMMA UserLeasesFinite ==
    ASSUME TypeOK, NEW u
    PROVE  /\ IsFiniteSet(UserLeases(u))
           /\ Cardinality(UserLeases(u)) \in Nat
  <1>1. UserLeases(u) \in SUBSET leases
    BY DEF UserLeases
  <1>2. IsFiniteSet(UserLeases(u))
    BY <1>1, FS_Subset DEF TypeOK
  <1> QED
    BY <1>2, FS_CardinalityType

\* Two workers that hold the lock of the same user are the same worker.
LEMMA OneCounter ==
    ASSUME TypeOK, LockHeld, NEW v \in Worker, NEW w \in Worker,
           Holding(v), Holding(w), Owner[tx[v].doc] = Owner[tx[w].doc]
    PROVE  v = w
  BY DEF LockHeld, KeyOf

-----------------------------------------------------------------------------
\* Nobody holds anything at the start.
LEMMA InitInv == Init => Inv
  <1> SUFFICES ASSUME Init PROVE Inv
    OBVIOUS
  <1>1. IsFiniteSet({}) /\ Cardinality({}) = 0
    BY FS_EmptySet
  <1>2. TypeOK
    BY <1>1 DEF Init, TypeOK, Tx, TxIdle
  <1>3. SlotLimit
    <2>1. \A u \in User : UserLeases(u) = {}
      BY DEF Init, UserLeases
    <2> QED
      BY <2>1, <1>1, LeaseAssumption DEF SlotLimit
  <1>4. \A w \in Worker : tx[w].pc = "idle"
    BY DEF Init, TxIdle
  <1>5. HasDoc /\ LockHeld /\ SeenAll /\ HasRoom /\ NotYet
    BY <1>4 DEF HasDoc, LockHeld, Holding, SeenAll, HasRoom, NotYet
  <1>6. OneSlotPerDocument
    BY DEF Init, OneSlotPerDocument
  <1> QED
    BY <1>2, <1>3, <1>5, <1>6 DEF Inv

\* A step that only ends the transaction of one worker.
LEMMA EndTxInv ==
    ASSUME Inv, NEW w \in Worker, EndTx(w), UNCHANGED leases
    PROVE  Inv'
  <1> USE DEF Inv
  <1>1. /\ advisory' \in [Key -> Worker \cup {NoOne}] /\ tx' \in [Worker -> Tx]
        /\ tx'[w] = TxIdle /\ \A v \in Worker : v # w => tx'[v] = tx[v]
        /\ \A k \in Key : advisory[k] # w => advisory'[k] = advisory[k]
    BY EndTxEffect
  <1>2. tx'[w].pc = "idle"
    BY <1>1 DEF TxIdle
  <1>3. \A u : UserLeases(u)' = UserLeases(u)
    BY DEF UserLeases
  <1>4. TypeOK'
    BY <1>1 DEF TypeOK
  <1>5. HasDoc'
    BY <1>1, <1>2 DEF HasDoc
  <1>6. LockHeld'
    <2> SUFFICES ASSUME NEW v \in Worker, Holding(v)'
                 PROVE  advisory'[KeyOf(v)'] = v
      BY DEF LockHeld
    <2>1. v # w
      BY <1>2 DEF Holding
    <2>2. Holding(v) /\ KeyOf(v)' = KeyOf(v)
      BY <2>1, <1>1 DEF Holding, KeyOf
    <2>3. advisory[KeyOf(v)] = v /\ KeyOf(v) \in Key
      <3>1. tx[v].doc \in Doc
        BY <2>2 DEF HasDoc, Holding
      <3> QED
        BY <3>1, <2>2, LeaseAssumption DEF LockHeld, KeyOf
    <2> QED
      BY <2>1, <2>2, <2>3, <1>1
  <1>7. SeenAll' /\ HasRoom' /\ NotYet'
    BY <1>1, <1>2, <1>3 DEF SeenAll, HasRoom, NotYet
  <1>8. SlotLimit' /\ OneSlotPerDocument'
    BY <1>3 DEF SlotLimit, OneSlotPerDocument
  <1> QED
    BY <1>4, <1>5, <1>6, <1>7, <1>8

\* find_open reads and takes nothing.
LEMMA FindOpenInv ==
    ASSUME Inv, NEW w \in Worker, NEW d \in Doc, FindOpen(w, d)
    PROVE  Inv'
  <1> USE DEF Inv
  <1>1. \A u : UserLeases(u)' = UserLeases(u)
    BY DEF FindOpen, UserLeases
  <1>2. TypeOK'
    BY DEF FindOpen, TypeOK, Tx
  <1>3. /\ tx'[w].pc = "lock" /\ tx'[w].doc = d
        /\ \A v \in Worker : v # w => tx'[v] = tx[v]
    BY DEF FindOpen, TypeOK, Tx
  <1>4. HasDoc'
    BY <1>3 DEF HasDoc
  <1>5. LockHeld'
    BY <1>3 DEF LockHeld, Holding, KeyOf, FindOpen
  <1>6. SeenAll' /\ HasRoom' /\ NotYet'
    BY <1>1, <1>3 DEF SeenAll, HasRoom, NotYet, FindOpen
  <1>7. SlotLimit' /\ OneSlotPerDocument'
    BY <1>1 DEF SlotLimit, OneSlotPerDocument, FindOpen
  <1> QED
    BY <1>2, <1>4, <1>5, <1>6, <1>7

\* A worker that takes the advisory lock of an owner is the only one.
LEMMA LockInv ==
    ASSUME Inv, NEW w \in Worker, Lock(w)
    PROVE  Inv'
  <1> USE DEF Inv
  <1>1. \A u : UserLeases(u)' = UserLeases(u)
    BY DEF Lock, UserLeases
  <1>2. tx[w].doc \in Doc
    BY DEF HasDoc, Lock
  <1>3. KeyOf(w) \in Key
    BY <1>2, LeaseAssumption DEF KeyOf
  <1>4. TypeOK'
    BY DEF Lock, TypeOK, Tx
  <1>5. /\ tx'[w].pc = "select" /\ tx'[w].doc = tx[w].doc
        /\ \A v \in Worker : v # w => tx'[v] = tx[v]
    BY DEF Lock, TypeOK, Tx
  <1>6. HasDoc'
    BY <1>2, <1>5 DEF HasDoc
  <1>7. LockHeld'
    <2> SUFFICES ASSUME NEW v \in Worker, Holding(v)'
                 PROVE  advisory'[KeyOf(v)'] = v
      BY DEF LockHeld
    <2>1. KeyOf(v)' = KeyOf(v)
      BY <1>5 DEF KeyOf
    <2>2. CASE v = w
      BY <2>1, <2>2, <1>3 DEF Lock, TypeOK
    <2>3. CASE v # w
      <3>1. Holding(v)
        BY <2>3, <1>5 DEF Holding
      <3>2. advisory[KeyOf(v)] = v
        BY <3>1 DEF LockHeld
      <3>3. KeyOf(v) # KeyOf(w)
        BY <3>2, LeaseAssumption DEF Lock
      <3> QED
        BY <2>1, <3>2, <3>3 DEF Lock, TypeOK
    <2> QED
      BY <2>2, <2>3
  <1>8. SeenAll' /\ HasRoom' /\ NotYet'
    BY <1>1, <1>5 DEF SeenAll, HasRoom, NotYet, Lock
  <1>9. SlotLimit' /\ OneSlotPerDocument'
    BY <1>1 DEF SlotLimit, OneSlotPerDocument, Lock
  <1> QED
    BY <1>4, <1>6, <1>7, <1>8, <1>9

\* The SELECT sees every open lease of the owner that is committed.
LEMMA SelectInv ==
    ASSUME Inv, NEW w \in Worker, Select(w)
    PROVE  Inv'
  <1> USE DEF Inv
  <1>1. \A u : UserLeases(u)' = UserLeases(u)
    BY DEF Select, UserLeases
  <1>2. UserLeases(Owner[tx[w].doc]) \in SUBSET Lease
    BY DEF UserLeases, TypeOK
  <1>3. TypeOK'
    <2> DEFINE T == [tx[w] EXCEPT !.pc = "count", !.seen = UserLeases(Owner[tx[w].doc])]
    <2>1. T \in Tx
      BY <1>2 DEF TypeOK, Tx
    <2>2. tx' = [tx EXCEPT ![w] = T]
      BY DEF Select
    <2> HIDE DEF T
    <2>3. tx' \in [Worker -> Tx]
      BY <2>1, <2>2 DEF TypeOK
    <2> QED
      BY <2>3 DEF Select, TypeOK
  <1>4. /\ tx'[w].pc = "count" /\ tx'[w].doc = tx[w].doc
        /\ tx'[w].seen = UserLeases(Owner[tx[w].doc])
        /\ \A v \in Worker : v # w => tx'[v] = tx[v]
    BY DEF Select, TypeOK, Tx
  <1>5. HasDoc'
    BY <1>4 DEF HasDoc, Select
  <1>6. LockHeld'
    <2>1. \A v \in Worker : KeyOf(v)' = KeyOf(v) /\ (Holding(v)' => Holding(v))
      BY <1>4 DEF KeyOf, Holding, Select
    <2> QED
      BY <2>1 DEF LockHeld, Select
  <1>7. SeenAll' /\ HasRoom' /\ NotYet'
    BY <1>1, <1>4 DEF SeenAll, HasRoom, NotYet, Select
  <1>8. SlotLimit' /\ OneSlotPerDocument'
    BY <1>1 DEF SlotLimit, OneSlotPerDocument, Select
  <1> QED
    BY <1>3, <1>5, <1>6, <1>7, <1>8

\* The count bounds the user's open leases: nothing was missed (SeenAll).
LEMMA CountInv ==
    ASSUME Inv, NEW w \in Worker, Count(w)
    PROVE  Inv'
  <1> USE DEF Inv
  <1> DEFINE open == tx[w].seen \cap leases
             u == Owner[tx[w].doc]
  <1>1. CASE EndTx(w)
    BY <1>1, EndTxInv DEF Count
  <1>2. CASE /\ Cardinality(open) < MaxPerUser
             /\ tx' = [tx EXCEPT ![w].pc = "insert", ![w].seen = open]
             /\ UNCHANGED advisory
    <2>1. \A x : UserLeases(x)' = UserLeases(x)
      BY DEF Count, UserLeases
    <2>2. open \in SUBSET Lease
      BY DEF TypeOK
    <2>3. TypeOK'
      <3> DEFINE T == [tx[w] EXCEPT !.pc = "insert", !.seen = open]
      <3>1. T \in Tx
        BY <2>2 DEF TypeOK, Tx
      <3>2. tx' = [tx EXCEPT ![w] = T]
        BY <1>2
      <3> HIDE DEF T
      <3>3. tx' \in [Worker -> Tx]
        BY <3>1, <3>2 DEF TypeOK
      <3> QED
        BY <1>2, <3>3 DEF Count, TypeOK
    <2>4. /\ tx'[w].pc = "insert" /\ tx'[w].doc = tx[w].doc
          /\ \A v \in Worker : v # w => tx'[v] = tx[v]
      BY <1>2 DEF TypeOK, Tx
    <2>5. Cardinality(UserLeases(u)) < MaxPerUser
      <3>1. open \in SUBSET leases
        OBVIOUS
      <3>2. IsFiniteSet(open) /\ Cardinality(open) \in Nat
        BY <3>1, FS_Subset, FS_CardinalityType DEF TypeOK
      <3>3. UserLeases(u) \subseteq open
        BY DEF SeenAll, Count, UserLeases
      <3>4. Cardinality(UserLeases(u)) <= Cardinality(open)
        BY <3>2, <3>3, FS_Subset
      <3> QED
        BY <1>2, <3>2, <3>4, UserLeasesFinite, LeaseAssumption
    <2>6. HasDoc'
      BY <2>4 DEF HasDoc, Count
    <2>7. LockHeld'
      <3>1. \A v \in Worker : KeyOf(v)' = KeyOf(v) /\ (Holding(v)' => Holding(v))
        BY <2>4 DEF KeyOf, Holding, Count
      <3> QED
        BY <1>2, <3>1 DEF LockHeld
    <2>8. SeenAll' /\ NotYet'
      BY <2>1, <2>4 DEF SeenAll, NotYet, Count
    <2>9. HasRoom'
      BY <2>1, <2>4, <2>5 DEF HasRoom
    <2>10. SlotLimit' /\ OneSlotPerDocument'
      BY <2>1 DEF SlotLimit, OneSlotPerDocument, Count
    <2> QED
      BY <2>3, <2>6, <2>7, <2>8, <2>9, <2>10
  <1> QED
    BY <1>1, <1>2 DEF Count

\* The insert succeeds only when no row of the document is open.
LEMMA InsertInv ==
    ASSUME Inv, NEW w \in Worker, Insert(w)
    PROVE  Inv'
  <1> USE DEF Inv
  <1>1. CASE EndTx(w)
    BY <1>1, EndTxInv DEF Insert
  <1>2. CASE /\ \A l \in leases : l.doc # tx[w].doc
             /\ tx' = [tx EXCEPT ![w].pc = "commit"]
             /\ UNCHANGED advisory
    <2>1. \A x : UserLeases(x)' = UserLeases(x)
      BY DEF Insert, UserLeases
    <2>2. TypeOK'
      BY <1>2 DEF Insert, TypeOK, Tx
    <2>3. /\ tx'[w].pc = "commit" /\ tx'[w].doc = tx[w].doc
          /\ \A v \in Worker : v # w => tx'[v] = tx[v]
      BY <1>2 DEF TypeOK, Tx
    <2>4. HasDoc'
      BY <2>3 DEF HasDoc, Insert
    <2>5. LockHeld'
      BY <1>2, <2>3 DEF LockHeld, Holding, KeyOf, Insert
    <2>6. SeenAll' /\ HasRoom'
      BY <2>1, <2>3 DEF SeenAll, HasRoom, Insert
    <2>7. NotYet'
      BY <1>2, <2>3 DEF NotYet, Insert
    <2>8. SlotLimit' /\ OneSlotPerDocument'
      BY <2>1 DEF SlotLimit, OneSlotPerDocument, Insert
    <2> QED
      BY <2>2, <2>4, <2>5, <2>6, <2>7, <2>8
  <1> QED
    BY <1>1, <1>2 DEF Insert

\* The one step that adds a lease: the other transactions of the same user are
\* not counting (OneCounter), those of other users do not see it.
LEMMA CommitInv ==
    ASSUME Inv, NEW w \in Worker, Commit(w)
    PROVE  Inv'
  <1> USE DEF Inv
  <1> DEFINE d == tx[w].doc
  <1>1. PICK new : /\ leases' = leases \cup {new}
                   /\ new.doc = d
                   /\ d \in Doc => new \in Lease
    <2>1. PICK id \in LeaseId : leases' = leases \cup {[id |-> id, doc |-> d]}
      BY DEF Commit
    <2> DEFINE row == [id |-> id, doc |-> d]
    <2>2. row.doc = d /\ (d \in Doc => row \in Lease)
      BY DEF Lease
    <2>3. leases' = leases \cup {row}
      BY <2>1
    <2> HIDE DEF row
    <2> QED
      BY <2>2, <2>3
  <1>2. /\ advisory' \in [Key -> Worker \cup {NoOne}] /\ tx' \in [Worker -> Tx]
        /\ tx'[w] = TxIdle /\ \A v \in Worker : v # w => tx'[v] = tx[v]
        /\ \A k \in Key : advisory[k] # w => advisory'[k] = advisory[k]
    BY EndTxEffect DEF Commit
  <1>3. tx[w].pc = "commit" /\ Holding(w) /\ d \in Doc
    BY DEF Commit, Holding, HasDoc
  <1>4. \A u : Owner[d] # u => UserLeases(u)' = UserLeases(u)
    BY <1>1 DEF UserLeases
  <1>5. \A u : Owner[d] = u => UserLeases(u)' = UserLeases(u) \cup {new}
    BY <1>1 DEF UserLeases
  <1>6. TypeOK'
    <2>1. IsFiniteSet(leases \cup {new})
      BY FS_AddElement DEF TypeOK
    <2> QED
      BY <1>1, <1>2, <1>3, <2>1 DEF TypeOK
  <1>7. \A v \in Worker : v # w /\ Holding(v) => Owner[tx[v].doc] # Owner[d]
    BY <1>3, OneCounter
  <1>8. tx'[w].pc = "idle"
    BY <1>2 DEF TxIdle
  <1>9. HasDoc'
    BY <1>2, <1>8 DEF HasDoc
  <1>10. LockHeld'
    <2> SUFFICES ASSUME NEW v \in Worker, Holding(v)'
                 PROVE  advisory'[KeyOf(v)'] = v
      BY DEF LockHeld
    <2>1. v # w
      BY <1>8 DEF Holding
    <2>2. Holding(v) /\ KeyOf(v)' = KeyOf(v)
      BY <2>1, <1>2 DEF Holding, KeyOf
    <2>3. tx[v].doc \in Doc
      BY <2>2 DEF HasDoc, Holding
    <2>4. advisory[KeyOf(v)] = v /\ KeyOf(v) \in Key
      BY <2>2, <2>3, LeaseAssumption DEF LockHeld, KeyOf
    <2> QED
      BY <2>1, <2>2, <2>4, <1>2
  <1>11. SeenAll' /\ HasRoom'
    <2> SUFFICES ASSUME NEW v \in Worker, tx'[v].pc \in {"count", "insert", "commit"}
                 PROVE  /\ tx'[v] = tx[v]
                        /\ UserLeases(Owner[tx[v].doc])' = UserLeases(Owner[tx[v].doc])
      BY DEF SeenAll, HasRoom
    <2>1. v # w
      BY <1>8
    <2>2. tx'[v] = tx[v] /\ Holding(v)
      BY <2>1, <1>2 DEF Holding
    <2> QED
      BY <2>1, <2>2, <1>4, <1>7
  <1>12. NotYet'
    <2> SUFFICES ASSUME NEW v \in Worker, tx'[v].pc = "commit", NEW l \in leases'
                 PROVE  l.doc # tx'[v].doc
      BY DEF NotYet
    <2>1. v # w
      BY <1>8
    <2>2. tx'[v] = tx[v] /\ Holding(v)
      BY <2>1, <1>2 DEF Holding
    <2>3. tx[v].doc # d
      BY <2>1, <2>2, <1>7
    <2> QED
      BY <1>1, <2>2, <2>3 DEF NotYet
  <1>13. SlotLimit'
    <2> SUFFICES ASSUME NEW u \in User
                 PROVE  Cardinality(UserLeases(u)') <= MaxPerUser
      BY DEF SlotLimit
    <2>1. CASE u # Owner[d]
      BY <2>1, <1>4 DEF SlotLimit
    <2>2. CASE u = Owner[d]
      <3>1. Cardinality(UserLeases(u)) < MaxPerUser
        BY <2>2, <1>3 DEF HasRoom
      <3>2. Cardinality(UserLeases(u)) \in Nat /\ IsFiniteSet(UserLeases(u))
        BY UserLeasesFinite
      <3>3. UserLeases(u)' = UserLeases(u) \cup {new}
        BY <2>2, <1>5
      <3>4. \/ Cardinality(UserLeases(u) \cup {new}) = Cardinality(UserLeases(u))
            \/ Cardinality(UserLeases(u) \cup {new}) = Cardinality(UserLeases(u)) + 1
        BY <3>2, FS_AddElement
      <3> QED
        BY <3>1, <3>2, <3>3, <3>4, LeaseAssumption
    <2> QED
      BY <2>1, <2>2
  <1>14. OneSlotPerDocument'
    BY <1>1, <1>3 DEF OneSlotPerDocument, NotYet
  <1> QED
    BY <1>6, <1>9, <1>10, <1>11, <1>12, <1>13, <1>14

\* A release only lowers counts.
LEMMA ReleaseInv ==
    ASSUME Inv, NEW l \in leases, Release(l)
    PROVE  Inv'
  <1> USE DEF Inv
  <1>1. leases' = leases \ {l} /\ UNCHANGED <<advisory, tx>>
    BY DEF Release
  <1>2. \A u : UserLeases(u)' \in SUBSET UserLeases(u)
    BY <1>1 DEF UserLeases
  <1>3. \A u : /\ Cardinality(UserLeases(u)') \in Nat
               /\ Cardinality(UserLeases(u)') <= Cardinality(UserLeases(u))
    <2> TAKE u
    <2>1. IsFiniteSet(UserLeases(u))
      BY UserLeasesFinite
    <2> QED
      BY <2>1, <1>2, FS_Subset, FS_CardinalityType
  <1>4. TypeOK'
    BY <1>1, FS_Subset DEF TypeOK
  <1>5. HasDoc' /\ LockHeld' /\ NotYet' /\ OneSlotPerDocument'
    BY <1>1 DEF HasDoc, LockHeld, Holding, KeyOf, NotYet, OneSlotPerDocument
  <1>6. SeenAll'
    BY <1>1, <1>2 DEF SeenAll
  <1>7. HasRoom' /\ SlotLimit'
    <2>1. \A u : Cardinality(UserLeases(u)) \in Nat
      BY UserLeasesFinite
    <2>2. HasRoom'
      BY <1>1, <1>3, <2>1, LeaseAssumption DEF HasRoom
    <2>3. SlotLimit'
      BY <1>3, <2>1, LeaseAssumption DEF SlotLimit
    <2> QED
      BY <2>2, <2>3
  <1> QED
    BY <1>4, <1>5, <1>6, <1>7

\* Every step keeps the invariant.
LEMMA StepInv == Inv /\ [Next]_vars => Inv'
  <1> SUFFICES ASSUME Inv, [Next]_vars PROVE Inv'
    OBVIOUS
  <1>1. ASSUME NEW w \in Worker, NEW d \in Doc, FindOpen(w, d) PROVE Inv'
    BY <1>1, FindOpenInv
  <1>2. ASSUME NEW w \in Worker, Acquire(w) PROVE Inv'
    BY <1>2, LockInv, SelectInv, CountInv, InsertInv, CommitInv DEF Acquire
  <1>3. ASSUME NEW w \in Worker, Abort(w) PROVE Inv'
    BY <1>3, EndTxInv DEF Abort
  <1>4. ASSUME NEW l \in leases, Release(l) PROVE Inv'
    BY <1>4, ReleaseInv
  <1>5. CASE UNCHANGED vars
    BY <1>5 DEF vars, Inv, TypeOK, HasDoc, LockHeld, Holding, KeyOf, SeenAll, HasRoom,
                NotYet, SlotLimit, OneSlotPerDocument, UserLeases
  <1> QED
    BY <1>1, <1>2, <1>3, <1>4, <1>5 DEF Next

-----------------------------------------------------------------------------
\* Inv is inductive.
THEOREM Invariance == Spec => []Inv
  BY InitInv, StepInv, PTL DEF Spec

\* Every reachable state is well typed: acquire, its aborts and the releases
\* keep the rows, the lock table and the transactions in their domains.
THEOREM TypeCorrect == Spec => []TypeOK
  BY Invariance, PTL DEF Inv

\* However the workers' acquisitions and the releases interleave, no user holds
\* more than processing_max_per_user slots.
THEOREM SlotLimitHolds == Spec => []SlotLimit
  BY Invariance, PTL DEF Inv

\* A document never holds two slots, even when its parse runs twice at once.
THEOREM OneSlotHolds == Spec => []OneSlotPerDocument
  BY Invariance, PTL DEF Inv

-----------------------------------------------------------------------------
(***************************************************************************)
(* The refinement: a commit is a Take, a release is a GiveBack (of one     *)
(* slot, by OneSlotPerDocument), any other step is a stutter.              *)
(***************************************************************************)
\* The pool counts with its own instance of Cardinality.
LEMMA PoolCardinality == \A S : Pool!Cardinality(S) = Cardinality(S)
  BY DEF Pool!Cardinality, Cardinality

\* A user holds no more slots in the pool than it has open leases.
LEMMA HeldAtMostLeases ==
    ASSUME TypeOK, NEW u
    PROVE  /\ Cardinality(Pool!HeldBy(u)) \in Nat
           /\ Cardinality(Pool!HeldBy(u)) <= Cardinality(UserLeases(u))
  <1> DEFINE f == [l \in UserLeases(u) |-> l.doc]
             H == Pool!HeldBy(u)
  <1>1. H = {d \in HeldDocs : Owner[d] = u}
    BY DEF Pool!HeldBy
  <1>2. f \in [UserLeases(u) -> H]
    BY <1>1 DEF HeldDocs, UserLeases
  <1>3. \A d \in H : \E l \in UserLeases(u) : f[l] = d
    BY <1>1 DEF HeldDocs, UserLeases
  <1>4. f \in Surjection(UserLeases(u), H)
    BY <1>2, <1>3 DEF Surjection
  <1>5. IsFiniteSet(H) /\ Cardinality(H) <= Cardinality(UserLeases(u))
    <2> HIDE DEF f, H
    <2> QED
      BY <1>4, UserLeasesFinite, FS_Surjection
  <1> QED
    BY <1>5, FS_CardinalityType

\* The commit of an acquire takes a slot of the pool.
LEMMA CommitTakes ==
    ASSUME Inv, NEW w \in Worker, Commit(w)
    PROVE  \E d \in Doc : Pool!Take(d)
  <1> DEFINE d == tx[w].doc
  <1>1. d \in Doc /\ d \notin HeldDocs
    BY DEF Inv, HasDoc, NotYet, HeldDocs, Commit
  <1>2. Cardinality(Pool!HeldBy(Owner[d])) < MaxPerUser
    <2>1. Cardinality(UserLeases(Owner[d])) < MaxPerUser
      BY DEF Inv, HasRoom, Commit
    <2> QED
      BY <2>1, HeldAtMostLeases, UserLeasesFinite, LeaseAssumption DEF Inv
  <1>3. HeldDocs' = HeldDocs \cup {d}
    <2>1. PICK id \in LeaseId : leases' = leases \cup {[id |-> id, doc |-> d]}
      BY DEF Commit
    <2> DEFINE row == [id |-> id, doc |-> d]
    <2>2. row.doc = d /\ leases' = leases \cup {row}
      BY <2>1
    <2> HIDE DEF row
    <2> QED
      BY <2>2 DEF HeldDocs
  <1> QED
    BY <1>1, <1>2, <1>3, PoolCardinality DEF Pool!Take

\* A release gives a slot back.
LEMMA ReleaseGivesBack ==
    ASSUME Inv, NEW l \in leases, Release(l)
    PROVE  \E d \in Doc : Pool!GiveBack(d)
  <1>1. l.doc \in Doc /\ l.doc \in HeldDocs
    BY DEF Inv, TypeOK, Lease, HeldDocs
  <1>2. leases' = leases \ {l}
    BY DEF Release
  <1>3. \A m \in leases : m.doc = l.doc => m = l
    BY DEF Inv, OneSlotPerDocument
  <1>4. HeldDocs' = HeldDocs \ {l.doc}
    BY <1>2, <1>3 DEF HeldDocs
  <1> QED
    BY <1>1, <1>4 DEF Pool!GiveBack

\* Every step is a step of the pool, or none.
LEMMA StepRefines == Inv /\ [Next]_vars => [Pool!Next]_HeldDocs
  <1> SUFFICES ASSUME Inv, [Next]_vars PROVE [Pool!Next]_HeldDocs
    OBVIOUS
  <1>1. ASSUME NEW w \in Worker, Commit(w) PROVE Pool!Next
    BY <1>1, CommitTakes DEF Pool!Next
  <1>2. ASSUME NEW l \in leases, Release(l) PROVE Pool!Next
    BY <1>2, ReleaseGivesBack DEF Pool!Next
  <1>3. ASSUME NEW w \in Worker, NEW d \in Doc, FindOpen(w, d) PROVE UNCHANGED HeldDocs
    BY <1>3 DEF FindOpen, HeldDocs
  <1>4. ASSUME NEW w \in Worker,
               Lock(w) \/ Select(w) \/ Count(w) \/ Insert(w) \/ Abort(w)
        PROVE  UNCHANGED HeldDocs
    BY <1>4 DEF Lock, Select, Count, Insert, Abort, HeldDocs
  <1>5. CASE UNCHANGED vars
    BY <1>5 DEF vars, HeldDocs
  <1> QED
    BY <1>1, <1>2, <1>3, <1>4, <1>5 DEF Next, Acquire

\* The lease table, with all its concurrent transactions, is a slot pool: the
\* users see slots that are taken and given back atomically.
THEOREM LeasesImplementPool == Spec => PoolSpec
  <1>1. Init => Pool!Init
    BY DEF Init, Pool!Init, HeldDocs
  <1> QED
    BY <1>1, StepRefines, Invariance, PTL DEF Spec, PoolSpec, Pool!Spec
=============================================================================
