-------------------------- MODULE StageFlowProofs --------------------------
(***************************************************************************)
(* Theorems about DocumentPipeline under a condition: what the stages      *)
(* guarantee while nobody deletes the document and no lease expires, and   *)
(* that a deletion leaves nothing behind where no lease ends early.        *)
(***************************************************************************)
EXTENDS DocumentPipelineProofs

(***************************************************************************)
(* The stages of a document that nobody deletes and no lease of which      *)
(* expires                                                                 *)
(***************************************************************************)
\* Workers may still crash, files and transactions fail, messages get lost or
\* come twice, and any number of workers take them.
Undisturbed == doc.cycle = 0 /\ used.expirations = 0

LEMMA StaysDisturbed ==
    ASSUME Inv, ProgressInv, UsedOK, [Next]_vars, Undisturbed'
    PROVE  Undisturbed
  <1>1. doc.cycle \in Nat /\ used.expirations \in Nat
    BY Bounds DEF Inv, DocOK, Doc, UsedOK, Resource
  <1> QED BY <1>1, UsedStep, CycleStep DEF Undisturbed

\* A stage succeeds in the transaction that creates the next one.
InOrder ==
    /\ task[Parse].status # "absent"
    /\ \A t \in {Parse, ChunkStage, Embed} :
         task[t].status = "succeeded" <=> task[NextStage(t)].status # "absent"

NoCleanups == \A t \in Cleanups : task[t].status = "absent" /\ attempts[t] = <<>>

\* Only the last attempt of a task may be open, and only while it runs.
LastOpen ==
    \A t \in TaskId : \A n \in DOMAIN attempts[t] :
        attempts[t][n] = "running" => n = Len(attempts[t]) /\ task[t].status = "running"

\* What the retry counter of a task has paid for.
Budget ==
    \A t \in TaskId :
        /\ Len(attempts[t]) <= task[t].retry + 1
        /\ task[t].status = "queued" => Len(attempts[t]) <= task[t].retry
        /\ task[t].status = "absent" => Len(attempts[t]) = 0

\* One worker at most executes an attempt; it is open, and the retry count the
\* worker holds is the one of the row.
Executing ==
    /\ \A w \in Worker : Working(w) =>
         /\ worker[w].task \in Stages
         /\ worker[w].att \in DOMAIN attempts[worker[w].task]
         /\ attempts[worker[w].task][worker[w].att] = "running"
         /\ worker[w].retry = task[worker[w].task].retry
    /\ \A v, w \in Worker : Working(v) /\ Working(w) => v = w

\* Whatever runs, or will run without an acquire, has the slot.
Slots ==
    /\ \A t \in Stages : task[t].status = "running" => lease.open
    /\ \A t \in {ChunkStage, Embed, Finalize} : task[t].status = "queued" => lease.open
    /\ \A w \in Worker :
         worker[w].pc = "begin" /\ task[Parse].status = "queued" => lease.open

\* The scanner has nothing to do.
Unlisted == ~lease.expired /\ scan = NoScan

\* Rows and the file they point at.
Kept ==
    /\ HasParseRow(rows) => task[Parse].status = "succeeded" /\ "parsed" \in objects
    /\ \A w \in Worker : worker[w].task = Parse /\ worker[w].pc = "save" => "parsed" \in objects
    /\ checkpoint => Chunk \in rows

FlowInv ==
    /\ doc.status \notin Hidden
    /\ InOrder /\ NoCleanups /\ LastOpen /\ Budget /\ Executing /\ Slots
    /\ Unlisted /\ Kept

(***************************************************************************)
(* What follows from it at once                                            *)
(***************************************************************************)
Active(t) == task[t].status \in {"queued", "running"}

\* One stage of the document is queued or running.
LEMMA OneActive ==
    ASSUME FlowInv, NEW s \in Stages, NEW t \in Stages, Active(s), Active(t)
    PROVE  s = t
  <1>1. /\ Active(Embed) => /\ task[ChunkStage].status = "succeeded"
                            /\ task[Parse].status = "succeeded"
        /\ Active(ChunkStage) => task[Parse].status = "succeeded"
        /\ Active(Finalize) => /\ task[Embed].status = "succeeded"
                               /\ task[ChunkStage].status = "succeeded"
                               /\ task[Parse].status = "succeeded"
    BY TaskNames DEF FlowInv, InOrder, Active
  <1> QED BY <1>1, TaskNames DEF Active

\* A worker that executes an attempt executes the last one of a running stage,
\* which nothing has followed yet.
LEMMA AtWork ==
    ASSUME Inv, FlowInv, NEW w \in Worker, Working(w)
    PROVE  LET t == worker[w].task
           IN  /\ t \in Stages /\ t \in TaskId
               /\ task[t].status = "running" /\ worker[w].att = Len(attempts[t])
               /\ worker[w].retry = task[t].retry
               /\ lease.open
               /\ t # Finalize => task[NextStage(t)].status = "absent"
               /\ \A v \in Worker \ {w} : ~Working(v)
  <1> DEFINE t == worker[w].task
  <1>1. t \in Stages /\ t \in TaskId
    BY StagesApart DEF FlowInv, Executing
  <1>2. /\ task[t].status = "running" /\ worker[w].att = Len(attempts[t])
        /\ worker[w].retry = task[t].retry
    BY <1>1 DEF FlowInv, Executing, LastOpen
  <1>3. lease.open
    BY <1>1, <1>2 DEF FlowInv, Slots
  <1>4. t # Finalize => task[NextStage(t)].status = "absent"
    BY <1>1, <1>2, TaskNames DEF FlowInv, InOrder
  <1>5. \A v \in Worker \ {w} : ~Working(v)
    BY DEF FlowInv, Executing
  <1> QED BY <1>1, <1>2, <1>3, <1>4, <1>5

\* A worker that executes a stage may pass it on.
LEMMA NothingFences ==
    ASSUME Inv, FlowInv, NEW w \in Worker, Working(w), worker[w].task # Finalize
    PROVE  CanAdvance(worker[w].task)
  BY AtWork DEF CanAdvance

(***************************************************************************)
(* What the invariant gives                                                *)
(***************************************************************************)
\* The properties of the run, from the invariant.
LEMMA FlowGives ==
    ASSUME Inv, FlowInv
    PROVE  SlotWhileRunning /\ OneStageAtATime /\ StageOrder /\ DerivedDataKept
           /\ AttemptsCounted
  <1>1. SlotWhileRunning
    BY DEF SlotWhileRunning, FlowInv, Slots
  <1>2. StageOrder
    BY TaskNames DEF StageOrder, FlowInv, InOrder, Parse, ChunkStage, Embed, Finalize
  <1>3. DerivedDataKept
    BY DEF DerivedDataKept, FlowInv, Kept
  <1>4. AttemptsCounted
    BY DEF AttemptsCounted, FlowInv, Budget
  <1>5. \A s, t \in Stages :
          {task[s].status, task[t].status} \subseteq {"queued", "running"} => s = t
    BY OneActive DEF Active
  <1>6. \A a, b \in OpenAttempts : a = b
    <2> SUFFICES ASSUME NEW a \in OpenAttempts, NEW b \in OpenAttempts PROVE a = b
      OBVIOUS
    <2>1. /\ a[1] \in TaskId /\ a[2] \in DOMAIN attempts[a[1]] /\ a = <<a[1], a[2]>>
          /\ attempts[a[1]][a[2]] = "running"
      BY DEF OpenAttempts
    <2>2. /\ b[1] \in TaskId /\ b[2] \in DOMAIN attempts[b[1]] /\ b = <<b[1], b[2]>>
          /\ attempts[b[1]][b[2]] = "running"
      BY DEF OpenAttempts
    <2>3. /\ a[2] = Len(attempts[a[1]]) /\ task[a[1]].status = "running"
          /\ b[2] = Len(attempts[b[1]]) /\ task[b[1]].status = "running"
      BY <2>1, <2>2 DEF FlowInv, LastOpen
    <2>4. a[1] \in Stages /\ b[1] \in Stages
      BY <2>1, <2>2, <2>3 DEF TaskId, FlowInv, NoCleanups
    <2>5. a[1] = b[1]
      BY <2>3, <2>4, OneActive DEF Active
    <2> QED BY <2>1, <2>2, <2>3, <2>5
  <1>7. Cardinality(OpenAttempts) <= 1
    <2>1. CASE OpenAttempts = {}
      BY <2>1, FS_EmptySet
    <2>2. CASE OpenAttempts # {}
      <3>1. PICK a : a \in OpenAttempts
        BY <2>2
      <3>2. OpenAttempts = {a}
        BY <1>6, <3>1
      <3>3. Cardinality({a}) = 1
        BY FS_Singleton
      <3> QED BY <3>2, <3>3
    <2> QED BY <2>1, <2>2
  <1> QED BY <1>1, <1>2, <1>3, <1>4, <1>5, <1>7 DEF OneStageAtATime

(***************************************************************************)
(* The kinds of step                                                       *)
(***************************************************************************)
\* What HistoryFinal says of one step.
HistoryKept ==
    \A t \in TaskId :
        /\ task[t].status \in {"succeeded", "failed", "cancelled"} => task'[t] = task[t]
        /\ \A n \in DOMAIN attempts[t] :
             attempts[t][n] # "running" => attempts'[t][n] = attempts[t][n]

\* Worker w moves on, in the attempt it executes or towards one.  Only the worker
\* that executes an attempt removes the parse result object.
LEMMA FlowMoves ==
    ASSUME Inv, FlowInv, NEW w \in Worker,
           UNCHANGED <<task, attempts, scan>>,
           \A v \in Worker \ {w} : worker'[v] = worker[v],
           doc'.status \notin Hidden,
           lease.open => lease'.open,
           ~lease'.expired,
           Working(w)' =>
               /\ Working(w)
               /\ worker'[w].task = worker[w].task /\ worker'[w].att = worker[w].att
               /\ worker'[w].retry \in {worker[w].retry, task[worker[w].task].retry},
           worker'[w].pc = "begin" /\ task[Parse].status = "queued" => lease'.open,
           HasParseRow(rows') => HasParseRow(rows),
           \/ "parsed" \in objects => "parsed" \in objects'
           \/ Working(w) /\ ~HasParseRow(rows),
           worker'[w].task = Parse /\ worker'[w].pc = "save" => "parsed" \in objects',
           checkpoint' => Chunk \in rows'
    PROVE  FlowInv' /\ HistoryKept
  <1>1. \A v \in Worker \ {w} : Working(v)' <=> Working(v)
    BY DEF Working
  <1>2. InOrder' /\ NoCleanups' /\ LastOpen' /\ Budget' /\ HistoryKept
    BY DEF FlowInv, InOrder, NoCleanups, LastOpen, Budget, HistoryKept
  <1>3. Executing'
    <2>1. \A v \in Worker : Working(v)' => Working(v)
      BY <1>1
    <2>2. \A v \in Worker : Working(v)' =>
            /\ worker'[v].task = worker[v].task /\ worker'[v].att = worker[v].att
            /\ worker'[v].retry \in {worker[v].retry, task[worker[v].task].retry}
      OBVIOUS
    <2>3. \A v \in Worker : Working(v)' =>
            /\ worker'[v].task \in Stages
            /\ worker'[v].att \in DOMAIN attempts[worker'[v].task]
            /\ attempts[worker'[v].task][worker'[v].att] = "running"
            /\ worker'[v].retry = task[worker'[v].task].retry
      BY <2>1, <2>2 DEF FlowInv, Executing
    <2>4. \A u, v \in Worker : Working(u)' /\ Working(v)' => u = v
      BY <2>1 DEF FlowInv, Executing
    <2> QED BY <2>3, <2>4 DEF Executing
  <1>4. Slots'
    BY DEF FlowInv, Slots
  <1>5. Unlisted'
    BY DEF FlowInv, Unlisted
  <1>6. Kept'
    <2>1. HasParseRow(rows') => task[Parse].status = "succeeded" /\ "parsed" \in objects'
      BY DEF FlowInv, Kept
    <2>2. ASSUME NEW v \in Worker, worker'[v].task = Parse, worker'[v].pc = "save"
          PROVE  "parsed" \in objects'
      <3>1. CASE v = w
        BY <2>2, <3>1
      <3>2. CASE v # w
        <4>1. worker[v].task = Parse /\ worker[v].pc = "save"
          BY <2>2, <3>2
        <4>2. Working(v) /\ "parsed" \in objects
          BY <4>1 DEF Working, FlowInv, Kept
        <4>3. ~Working(w)
          BY <3>2, <4>2 DEF FlowInv, Executing
        <4> QED BY <4>2, <4>3
      <3> QED BY <3>1, <3>2
    <2> QED BY <2>1, <2>2 DEF Kept
  <1> QED BY <1>2, <1>3, <1>4, <1>5, <1>6 DEF FlowInv

\* begin_attempt of a queued stage: nobody else executes an attempt.
LEMMA FlowBegins ==
    ASSUME Inv, FlowInv, NEW w \in Worker, NEW t \in TaskId, BeginAttempt(w, t),
           t = Parse => lease.open,
           UNCHANGED <<doc, checkpoint, lease, rows, objects, scan>>
    PROVE  FlowInv' /\ HistoryKept
  <1>1. /\ task \in [TaskId -> TaskRow] /\ attempts \in [TaskId -> Seq(AttemptStatus)]
        /\ worker \in [Worker -> Process] /\ worker[w] \in Process
    BY DEF Inv, TasksOK, WorkersOK
  <1>2. task[t].status = "queued" /\ ~Open(t)
    BY DEF BeginAttempt, Runnable
  <1>3. t \in Stages
    BY <1>2 DEF TaskId, FlowInv, NoCleanups
  <1>4. lease.open
    BY <1>2, <1>3, TaskNames DEF FlowInv, Slots
  <1>5. /\ task'[t].status = "running" /\ task'[t].retry = task[t].retry
        /\ \A x \in TaskId \ {t} : task'[x] = task[x]
    BY <1>1 DEF BeginAttempt, TaskRow
  <1>6. /\ attempts'[t] = Append(attempts[t], "running")
        /\ \A x \in TaskId \ {t} : attempts'[x] = attempts[x]
    BY <1>1 DEF BeginAttempt
  <1>7. /\ Len(attempts'[t]) = Len(attempts[t]) + 1
        /\ attempts'[t][Len(attempts[t]) + 1] = "running"
        /\ \A n \in DOMAIN attempts[t] : attempts'[t][n] = attempts[t][n]
        /\ DOMAIN attempts'[t] = DOMAIN attempts[t] \cup {Len(attempts[t]) + 1}
    BY <1>1, <1>6
  <1>8. /\ worker'[w].pc = "work" /\ worker'[w].task = t
        /\ worker'[w].att = Len(attempts[t]) + 1 /\ worker'[w].retry = task[t].retry
        /\ \A v \in Worker \ {w} : worker'[v] = worker[v]
    BY <1>1 DEF BeginAttempt, Process
  <1>9. \A v \in Worker : ~Working(v)
    <2> SUFFICES ASSUME NEW v \in Worker, Working(v) PROVE FALSE
      OBVIOUS
    <2>1. worker[v].task \in Stages /\ task[worker[v].task].status = "running"
      BY AtWork
    <2>2. worker[v].task = t
      BY <1>2, <1>3, <2>1, OneActive DEF Active
    <2> QED BY <1>2, <2>1, <2>2
  <1>10. InOrder'
    BY <1>2, <1>5, TaskNames DEF FlowInv, InOrder
  <1>11. NoCleanups'
    BY <1>3, <1>5, <1>6, StagesApart DEF FlowInv, NoCleanups
  <1>12. LastOpen'
    <2> SUFFICES ASSUME NEW x \in TaskId, NEW n \in DOMAIN attempts'[x],
                        attempts'[x][n] = "running"
                 PROVE  n = Len(attempts'[x]) /\ task'[x].status = "running"
      BY DEF LastOpen
    <2>1. CASE x = t
      BY <1>2, <1>5, <1>7, <2>1 DEF Open
    <2>2. CASE x # t
      BY <1>5, <1>6, <2>2 DEF FlowInv, LastOpen
    <2> QED BY <2>1, <2>2
  <1>13. Budget'
    <2> SUFFICES ASSUME NEW x \in TaskId
                 PROVE  /\ Len(attempts'[x]) <= task'[x].retry + 1
                        /\ task'[x].status = "queued" => Len(attempts'[x]) <= task'[x].retry
                        /\ task'[x].status = "absent" => Len(attempts'[x]) = 0
      BY DEF Budget
    <2>1. CASE x = t
      <3>1. Len(attempts[t]) <= task[t].retry
        BY <1>2 DEF FlowInv, Budget
      <3>2. Len(attempts[t]) \in Nat /\ task[t].retry \in Nat
        BY <1>1, Bounds DEF TaskRow
      <3>3. Len(attempts'[t]) <= task'[t].retry + 1
        BY <1>5, <1>7, <3>1, <3>2
      <3> QED BY <1>5, <2>1, <3>3
    <2>2. CASE x # t
      BY <1>5, <1>6, <2>2 DEF FlowInv, Budget
    <2> QED BY <2>1, <2>2
  <1>14. Executing'
    <2>1. \A v \in Worker : Working(v)' => v = w
      BY <1>8, <1>9 DEF Working
    <2>2. worker'[w].att \in DOMAIN attempts'[t]
      BY <1>7, <1>8
    <2> QED BY <1>3, <1>5, <1>7, <1>8, <2>1, <2>2 DEF Executing
  <1>15. Slots'
    <2>1. lease'.open
      BY <1>4
    <2> QED BY <2>1 DEF Slots
  <1>16. Unlisted'
    BY DEF FlowInv, Unlisted
  <1>17. Kept'
    <2>1. task'[Parse].status = "succeeded" <=> task[Parse].status = "succeeded"
      BY <1>2, <1>5, TaskNames
    <2>2. \A v \in Worker : worker'[v].pc = "save" => worker'[v] = worker[v]
      BY <1>8
    <2> QED BY <2>1, <2>2 DEF FlowInv, Kept
  <1>18. HistoryKept
    BY <1>2, <1>5, <1>6, <1>7 DEF HistoryKept
  <1>19. doc'.status \notin Hidden
    BY DEF FlowInv
  <1> QED BY <1>10, <1>11, <1>12, <1>13, <1>14, <1>15, <1>16, <1>17, <1>18, <1>19
          DEF FlowInv

\* One stage at a time, and no cleanup has begun.
OneStage == \A s, t \in Stages : Active(s) /\ Active(t) => s = t
Untouched ==
    \A t \in Cleanups : task[t].status \in {"absent", "pending"} /\ attempts[t] = <<>>
Alone == OneStage /\ Untouched /\ LastOpen /\ Executing

\* The stages of an undisturbed document are alone.
LEMMA FlowAlone ==
    ASSUME FlowInv
    PROVE  Alone
  <1>1. OneStage
    BY OneActive DEF OneStage
  <1> QED BY <1>1 DEF FlowInv, NoCleanups, Alone, Untouched

\* The attempt a worker executes is the last one of the stage that runs.
LEMMA AloneAtWork ==
    ASSUME Inv, Alone, NEW w \in Worker, Working(w), NEW t, t = worker[w].task
    PROVE  /\ t \in Stages /\ t \in TaskId
           /\ task[t].status = "running" /\ worker[w].att = Len(attempts[t])
           /\ worker[w].att \in DOMAIN attempts[t]
           /\ attempts[t][worker[w].att] = "running"
           /\ worker[w].retry = task[t].retry
           /\ \A v \in Worker \ {w} : ~Working(v)
           /\ \A x \in Stages \ {t} : ~Active(x)
  <1>1. /\ t \in Stages /\ worker[w].att \in DOMAIN attempts[t]
        /\ attempts[t][worker[w].att] = "running"
        /\ worker[w].retry = task[t].retry
        /\ \A v \in Worker \ {w} : ~Working(v)
    BY DEF Alone, Executing
  <1>2. t \in TaskId
    BY <1>1, StagesApart
  <1>3. task[t].status = "running" /\ worker[w].att = Len(attempts[t])
    BY <1>1, <1>2 DEF Alone, LastOpen
  <1>4. \A x \in Stages \ {t} : ~Active(x)
    BY <1>1, <1>3 DEF Alone, OneStage, Active
  <1> QED BY <1>1, <1>2, <1>3, <1>4

\* Worker w closes its attempt.
Closes(w, s) == attempts' = [attempts EXCEPT ![worker[w].task][worker[w].att] = s]

\* No attempt is open any more, and only an open one of task t was touched.
LastClosed(t) ==
    /\ \A x \in TaskId : /\ DOMAIN attempts'[x] = DOMAIN attempts[x]
                         /\ Len(attempts'[x]) = Len(attempts[x])
    /\ \A x \in TaskId \ {t} : attempts'[x] = attempts[x]
    /\ \A n \in DOMAIN attempts[t] :
         attempts[t][n] # "running" => attempts'[t][n] = attempts[t][n]
    /\ \A x \in TaskId : \A n \in DOMAIN attempts'[x] : attempts'[x][n] # "running"

\* The attempt a worker executes is closed: none is open then.
LEMMA AloneCloses ==
    ASSUME Inv, Alone, NEW w \in Worker, Working(w), NEW t, t = worker[w].task,
           NEW s \in AttemptStatus \ {"running"}, Closes(w, s)
    PROVE  LastClosed(t)
  <1> DEFINE k == worker[w].att
  <1>1. /\ t \in Stages /\ t \in TaskId /\ task[t].status = "running"
        /\ k = Len(attempts[t])
        /\ k \in DOMAIN attempts[t] /\ attempts[t][k] = "running"
        /\ \A x \in Stages \ {t} : ~Active(x)
    BY AloneAtWork
  <1>2. attempts \in [TaskId -> Seq(AttemptStatus)] /\ attempts[t] \in Seq(AttemptStatus)
    BY <1>1 DEF Inv, TasksOK
  <1>3. attempts' = [attempts EXCEPT ![t][k] = s]
    BY DEF Closes
  <1> HIDE DEF k
  <1>4. /\ attempts'[t] = [attempts[t] EXCEPT ![k] = s]
        /\ \A x \in TaskId \ {t} : attempts'[x] = attempts[x]
    BY <1>1, <1>2, <1>3
  <1>5. /\ DOMAIN attempts'[t] = DOMAIN attempts[t]
        /\ Len(attempts'[t]) = Len(attempts[t])
        /\ attempts'[t][k] = s
        /\ \A n \in DOMAIN attempts[t] \ {k} : attempts'[t][n] = attempts[t][n]
    BY <1>1, <1>2, <1>4, ExceptSeq
  <1>6. ASSUME NEW x \in TaskId, NEW n \in DOMAIN attempts[x], attempts[x][n] = "running"
        PROVE  x = t /\ n = k
    <2>1. n = Len(attempts[x]) /\ task[x].status = "running"
      BY <1>6 DEF Alone, LastOpen
    <2>2. x \in Stages
      BY <2>1 DEF TaskId, Alone, Untouched
    <2> QED BY <1>1, <2>1, <2>2 DEF Active
  <1>7. \A x \in TaskId : \A n \in DOMAIN attempts'[x] : attempts'[x][n] # "running"
    BY <1>4, <1>5, <1>6
  <1>8. \A n \in DOMAIN attempts[t] :
          attempts[t][n] # "running" => attempts'[t][n] = attempts[t][n]
    BY <1>1, <1>5
  <1> QED BY <1>4, <1>5, <1>7, <1>8 DEF LastClosed

\* So it is for an undisturbed document, whatever the task becomes.
LEMMA NothingOpen ==
    ASSUME Inv, FlowInv, NEW w \in Worker, Working(w), NEW t, t = worker[w].task,
           NEW s \in AttemptStatus \ {"running"}, Closes(w, s)
    PROVE  LastClosed(t)
  BY FlowAlone, AloneCloses

\* Its task fails, is cancelled, is paid for again, or succeeds in the transaction
\* that creates the next one or publishes the document.
TaskEnds(t) ==
    \/ /\ \A x \in TaskId \ {t} : task'[x] = task[x]
       /\ \/ /\ \/ task'[t].status \in {"failed", "cancelled"}
                \/ task'[t].status = "succeeded" /\ t = Finalize
             /\ task'[t].retry = task[t].retry
          \/ /\ task'[t].status = "queued" /\ task'[t].retry = task[t].retry + 1
             /\ lease'.open
    \/ /\ t # Finalize /\ lease'.open
       /\ \A x \in TaskId \ {t, NextStage(t)} : task'[x] = task[x]
       /\ task'[t].status = "succeeded" /\ task'[t].retry = task[t].retry
       /\ task'[NextStage(t)] = [status |-> "queued", retry |-> 0]

\* A parse result row is written by the parse that stored its object, and embed
\* writes its checkpoint with the chunks.
RowsFit(w) ==
    /\ HasParseRow(rows') =>
         \/ HasParseRow(rows)
         \/ /\ worker[w].task = Parse /\ worker[w].pc = "save"
            /\ task'[Parse].status = "succeeded"
    /\ checkpoint' => Chunk \in rows'

\* A worker closes its attempt and returns.
LEMMA FlowEnds ==
    ASSUME Inv, FlowInv, NEW w \in Worker, Working(w),
           NEW s \in AttemptStatus \ {"running"}, NEW t \in Stages, t = worker[w].task,
           Closes(w, s),
           Return(w),
           doc'.status \notin Hidden,
           UNCHANGED <<objects, scan>>,
           ~lease'.expired,
           TaskEnds(t),
           RowsFit(w)
    PROVE  FlowInv' /\ HistoryKept
  <1>1. /\ t \in TaskId /\ task[t].status = "running"
        /\ t # Finalize => task[NextStage(t)].status = "absent"
        /\ \A v \in Worker \ {w} : ~Working(v)
    BY AtWork
  <1>2. /\ \A x \in TaskId : /\ DOMAIN attempts'[x] = DOMAIN attempts[x]
                             /\ Len(attempts'[x]) = Len(attempts[x])
        /\ \A x \in TaskId \ {t} : attempts'[x] = attempts[x]
        /\ \A n \in DOMAIN attempts[t] :
             attempts[t][n] # "running" => attempts'[t][n] = attempts[t][n]
        /\ \A x \in TaskId : \A n \in DOMAIN attempts'[x] : attempts'[x][n] # "running"
    <2>1. LastClosed(t)
      BY NothingOpen
    <2> QED BY <2>1 DEF LastClosed
  <1>3. /\ worker'[w] = Idle
        /\ \A v \in Worker \ {w} : worker'[v] = worker[v]
    BY DEF Return, Inv, WorkersOK
  <1>4. \A v \in Worker : ~Working(v)'
    BY <1>1, <1>3 DEF Working, Idle
  <1>5. /\ task \in [TaskId -> TaskRow] /\ attempts \in [TaskId -> Seq(AttemptStatus)]
        /\ \A x \in TaskId : Len(attempts[x]) \in Nat /\ task[x].retry \in Nat
    BY Bounds DEF Inv, TasksOK, TaskRow
  <1>6. \A x \in Stages \ {t} : ~Active(x)
    BY <1>1, OneActive DEF Active
  <1>7. InOrder'
    BY <1>1, TaskNames DEF FlowInv, InOrder, TaskEnds
  <1>8. NoCleanups'
    <2>1. \A x \in Cleanups : x # t /\ (t # Finalize => x # NextStage(t)) /\ x \in TaskId
      BY StagesApart, TaskNames
    <2>2. \A x \in Cleanups : task'[x] = task[x] /\ attempts'[x] = attempts[x]
      BY <1>2, <2>1 DEF TaskEnds
    <2> QED BY <2>2 DEF FlowInv, NoCleanups
  <1>9. LastOpen' /\ Executing'
    BY <1>2, <1>4 DEF LastOpen, Executing
  <1>10. Unlisted'
    BY DEF FlowInv, Unlisted
  <1>11. HistoryKept
    <2>1. \A x \in TaskId : task[x].status \in {"succeeded", "failed", "cancelled"}
                            => task'[x] = task[x]
      BY <1>1 DEF TaskEnds
    <2>2. ASSUME NEW x \in TaskId, NEW n \in DOMAIN attempts[x], attempts[x][n] # "running"
          PROVE  attempts'[x][n] = attempts[x][n]
      <3>1. CASE x = t
        BY <1>2, <2>2, <3>1
      <3>2. CASE x # t
        BY <1>2, <3>2
      <3> QED BY <3>1, <3>2
    <2> QED BY <2>1, <2>2 DEF HistoryKept
  <1>12. Kept'
    <2>1. \A v \in Worker : worker'[v].pc # "save" \/ ~Working(v)'
      BY <1>4
    <2>2. \A v \in Worker : worker'[v].pc # "save"
      BY <2>1 DEF Working
    <2>3. HasParseRow(rows) => task[Parse].status = "succeeded" /\ "parsed" \in objects
      BY DEF FlowInv, Kept
    <2>4. task[Parse].status = "succeeded" => task'[Parse].status = "succeeded"
      BY <1>1, <1>11, TaskNames DEF HistoryKept
    <2>5. HasParseRow(rows') => task'[Parse].status = "succeeded" /\ "parsed" \in objects'
      <3>1. CASE HasParseRow(rows)
        BY <2>3, <2>4, <3>1
      <3>2. CASE /\ worker[w].task = Parse /\ worker[w].pc = "save"
                 /\ task'[Parse].status = "succeeded"
        BY <3>2 DEF FlowInv, Kept
      <3> QED BY <3>1, <3>2 DEF RowsFit
    <2> QED BY <2>2, <2>5 DEF Kept, RowsFit
  <1>13. Budget'
    <2> SUFFICES ASSUME NEW x \in TaskId
                 PROVE  /\ Len(attempts[x]) <= task'[x].retry + 1
                        /\ task'[x].status = "queued" => Len(attempts[x]) <= task'[x].retry
                        /\ task'[x].status = "absent" => Len(attempts[x]) = 0
      BY <1>2 DEF Budget
    <2>1. /\ Len(attempts[x]) <= task[x].retry + 1
          /\ task[x].status = "queued" => Len(attempts[x]) <= task[x].retry
          /\ task[x].status = "absent" => Len(attempts[x]) = 0
      BY DEF FlowInv, Budget
    <2>2. CASE task'[x] = task[x]
      BY <2>1, <2>2
    <2>3. CASE x = t
      <3>1. \/ task'[t].status \in {"failed", "cancelled", "succeeded"}
               /\ task'[t].retry = task[t].retry
            \/ task'[t].status = "queued" /\ task'[t].retry = task[t].retry + 1
        BY DEF TaskEnds
      <3>2. Len(attempts[t]) \in Nat /\ task[t].retry \in Nat
        BY <1>1, <1>5
      <3>3. Len(attempts[t]) <= task[t].retry + 1
        BY <2>1, <2>3
      <3>4. CASE task'[t].status \in {"failed", "cancelled", "succeeded"}
                 /\ task'[t].retry = task[t].retry
        BY <2>3, <3>3, <3>4
      <3>5. CASE task'[t].status = "queued" /\ task'[t].retry = task[t].retry + 1
        BY <2>3, <3>2, <3>3, <3>5
      <3> QED BY <3>1, <3>4, <3>5
    <2>4. CASE t # Finalize /\ x = NextStage(t)
               /\ task'[x] = [status |-> "queued", retry |-> 0]
      <3>1. Len(attempts[x]) = 0
        BY <1>1, <2>1, <2>4
      <3> QED BY <2>4, <3>1
    <2> QED BY <2>2, <2>3, <2>4 DEF TaskEnds
  <1>14. Slots'
    <2>1. CASE lease'.open
      BY <2>1 DEF Slots
    <2>2. CASE /\ \A x \in TaskId \ {t} : task'[x] = task[x]
               /\ task'[t].status \notin {"queued", "running"}
      <3>1. \A x \in Stages : ~Active(x)'
        BY <1>6, <2>2, StagesApart DEF Active
      <3> QED BY <3>1, TaskNames DEF Slots, Active
    <2> QED BY <2>1, <2>2 DEF TaskEnds
  <1> QED BY <1>7, <1>8, <1>9, <1>10, <1>11, <1>12, <1>13, <1>14 DEF FlowInv

(***************************************************************************)
(* The steps of the workers                                                *)
(***************************************************************************)
\* Worker w goes on with the attempt it executes.
Continues(w) ==
    /\ Working(w)
    /\ \A v \in Worker \ {w} : worker'[v] = worker[v]
    /\ worker'[w].task = worker[w].task /\ worker'[w].att = worker[w].att
    /\ worker'[w].retry \in {worker[w].retry, task[worker[w].task].retry}
    /\ worker'[w].pc # "begin"

\* Within its attempt a worker may do anything that touches no row, and remove the
\* parse result object as long as no row points at it.
LEMMA FlowContinues ==
    ASSUME Inv, FlowInv, NEW w \in Worker, Continues(w),
           UNCHANGED <<dbVars, scan>>,
           \/ "parsed" \in objects => "parsed" \in objects'
           \/ worker[w].task = Parse,
           worker'[w].task = Parse /\ worker'[w].pc = "save" => "parsed" \in objects'
    PROVE  FlowInv' /\ HistoryKept
  <1>1. worker[w].task = Parse => ~HasParseRow(rows)
    <2>1. task[worker[w].task].status = "running"
      BY AtWork DEF Continues
    <2> QED BY <2>1 DEF FlowInv, Kept
  <1>2. UNCHANGED <<task, attempts, doc, lease, rows, checkpoint>>
    BY DEF dbVars
  <1>3. doc.status \notin Hidden /\ ~lease.expired /\ (checkpoint => Chunk \in rows)
    BY DEF FlowInv, Unlisted, Kept
  <1> QED BY <1>1, <1>2, <1>3, FlowMoves DEF Continues

\* The moves of a handler within its attempt.
LEMMA MovesContinue ==
    ASSUME Inv, NEW w \in Worker, Working(w),
           \/ \E pc \in Pc \ {"begin"} : Goto(w, pc)
           \/ \E code \in ErrorCode : ToFail(w, code)
           \/ ToCancel(w)
    PROVE  /\ Continues(w)
           /\ \A pc : Goto(w, pc) => worker'[w].pc = pc
           /\ ToCancel(w) \/ (\E code \in ErrorCode : ToFail(w, code))
              => worker'[w].pc # "save"
  <1>1. worker[w] \in Process /\ worker \in [Worker -> Process]
    BY DEF Inv, WorkersOK
  <1>2. ASSUME NEW pc \in Pc, Goto(w, pc)
        PROVE  /\ \A v \in Worker \ {w} : worker'[v] = worker[v]
               /\ worker'[w].task = worker[w].task /\ worker'[w].att = worker[w].att
               /\ worker'[w].retry = worker[w].retry /\ worker'[w].pc = pc
    BY <1>1, <1>2 DEF Goto, Process
  <1>3. ASSUME NEW code \in ErrorCode, ToFail(w, code)
        PROVE  /\ \A v \in Worker \ {w} : worker'[v] = worker[v]
               /\ worker'[w].task = worker[w].task /\ worker'[w].att = worker[w].att
               /\ worker'[w].retry = worker[w].retry /\ worker'[w].pc = "fail"
    BY <1>1, <1>3 DEF ToFail, Process
  <1>4. ASSUME ToCancel(w)
        PROVE  /\ \A v \in Worker \ {w} : worker'[v] = worker[v]
               /\ worker'[w].task = worker[w].task /\ worker'[w].att = worker[w].att
               /\ worker'[w].retry = worker[w].retry /\ worker'[w].pc = "cancel"
    BY <1>1, <1>4 DEF ToCancel, Process
  <1>5. \A pc : Goto(w, pc) => worker'[w].pc = pc
    BY <1>1 DEF Goto
  <1> QED BY <1>2, <1>3, <1>4, <1>5 DEF Continues

\* A worker that gives up leaves its attempt open.
LEMMA FlowReturns ==
    ASSUME Inv, FlowInv, NEW w \in Worker, Return(w), UNCHANGED <<dbVars, objects, scan>>
    PROVE  FlowInv' /\ HistoryKept
  <1>1. worker'[w] = Idle /\ \A v \in Worker \ {w} : worker'[v] = worker[v]
    BY DEF Return, Inv, WorkersOK
  <1>2. UNCHANGED <<task, attempts, doc, lease, rows, checkpoint>>
    BY DEF dbVars
  <1>3. doc.status \notin Hidden /\ ~lease.expired /\ (checkpoint => Chunk \in rows)
    BY DEF FlowInv, Unlisted, Kept
  <1>4. Idle.pc = "idle" /\ ~Working(w)'
    BY <1>1 DEF Working, Idle
  <1> QED BY <1>1, <1>2, <1>3, <1>4, FlowMoves

\* Who reads only, or moves messages, changes nothing of this.
LEMMA FlowStays ==
    ASSUME Inv, FlowInv, UNCHANGED <<dbVars, objects, scan, worker>>
    PROVE  FlowInv' /\ HistoryKept
  <1>1. UNCHANGED <<doc, task, attempts, lease, rows, checkpoint, objects, scan, worker>>
    BY DEF dbVars
  <1>2. \A w : Working(w)' <=> Working(w)
    BY <1>1 DEF Working
  <1> QED BY <1>1, <1>2
      DEF FlowInv, InOrder, NoCleanups, LastOpen, Budget, Executing, Slots, Unlisted, Kept,
          HistoryKept

\* A terminal failure frees the slot: nothing else runs.
LEMMA FlowFails ==
    ASSUME Inv, FlowInv, NEW w \in Worker, Working(w),
           NEW loaded \in Doc, NEW code \in ErrorCode,
           loaded = doc \/ loaded.status # "failed",
           FailFor(w, loaded, code),
           UNCHANGED <<checkpoint, rows, objects, scan>>
    PROVE  FlowInv' /\ HistoryKept
  <1> DEFINE t == worker[w].task
  <1>1. t \in Stages /\ t \in TaskId
    BY AtWork
  <1>2. task \in [TaskId -> TaskRow] /\ lease \in LeaseRow
    BY DEF Inv, TasksOK, LeaseOK
  <1>3. /\ task'[t].status = "failed" /\ task'[t].retry = task[t].retry
        /\ \A x \in TaskId \ {t} : task'[x] = task[x]
    BY <1>1, <1>2 DEF FailFor, TaskRow
  <1>4. Closes(w, "failed") /\ "failed" \in AttemptStatus \ {"running"}
    BY DEF FailFor, Closes, AttemptStatus
  <1>5. ~lease'.expired
    BY <1>2 DEF FailFor, Released, LeaseRow
  <1>6. doc'.status \notin Hidden
    <2> DEFINE new == [loaded EXCEPT !.status = "failed", !.error = code]
    <2>1. new \in Doc /\ new.status = "failed"
      BY DEF Doc, DocStatus
    <2>2. doc' = Flush(doc, loaded, new) /\ doc \in Doc
      BY DEF Inv, DocOK, FailFor
    <2> HIDE DEF new
    <2>3. doc'.status = "failed"
      BY <2>1, <2>2, FlushDoc
    <2> QED BY <2>3 DEF Hidden
  <1>7. Return(w)
    BY DEF FailFor
  <1>8. RowsFit(w)
    BY DEF RowsFit, HasParseRow, FlowInv, Kept
  <1>9. TaskEnds(t)
    BY <1>3, <1>5 DEF TaskEnds
  <1> QED BY <1>1, <1>4, <1>5, <1>6, <1>7, <1>8, <1>9, FlowEnds

\* A retry is paid for, and keeps the slot.
LEMMA FlowRetries ==
    ASSUME Inv, FlowInv, NEW w \in Worker, Working(w), NEW loaded \in Doc,
           Retry(w, loaded, task[worker[w].task].retry),
           UNCHANGED <<checkpoint, rows, objects, scan>>
    PROVE  FlowInv' /\ HistoryKept
  <1> DEFINE t == worker[w].task
  <1>1. t \in Stages /\ t \in TaskId /\ lease.open
    BY AtWork
  <1>2. task \in [TaskId -> TaskRow]
    BY DEF Inv, TasksOK
  <1>3. /\ task'[t].status = "queued" /\ task'[t].retry = task[t].retry + 1
        /\ \A x \in TaskId \ {t} : task'[x] = task[x]
    BY <1>1, <1>2 DEF Retry, Requeued
  <1>4. Closes(w, "failed") /\ "failed" \in AttemptStatus \ {"running"}
    BY DEF Retry, Closes, AttemptStatus
  <1>5. lease'.open /\ ~lease'.expired
    BY <1>1 DEF Retry, FlowInv, Unlisted
  <1>6. doc'.status \notin Hidden
    <2> DEFINE new == [loaded EXCEPT !.error = 0]
    <2>1. new \in Doc /\ new.status = loaded.status /\ new.cycle = loaded.cycle
      BY DEF Doc, ErrorCode
    <2>2. doc' = Flush(doc, loaded, new)
      BY DEF Retry
    <2> HIDE DEF new
    <2>3. doc'.status = doc.status
      BY <2>1, <2>2, FlushKeepsDeletion
    <2> QED BY <2>3 DEF FlowInv
  <1>7. Return(w)
    BY DEF Retry
  <1>8. RowsFit(w)
    BY DEF RowsFit, HasParseRow, FlowInv, Kept
  <1>9. TaskEnds(t)
    BY <1>3, <1>5 DEF TaskEnds
  <1> QED BY <1>1, <1>4, <1>5, <1>6, <1>7, <1>8, <1>9, FlowEnds

\* fail_stage in a session whose retry count is that of the row.
LEMMA FlowFailStage ==
    ASSUME Inv, FlowInv, NEW w \in Worker, Working(w), NEW retry, NEW code \in ErrorCode,
           retry = task[worker[w].task].retry,
           FailStage(w, doc, retry, code),
           UNCHANGED <<checkpoint, rows, objects, scan>>
    PROVE  FlowInv' /\ HistoryKept
  <1>1. doc \in Doc /\ 20014 \in ErrorCode
    BY DocErrors DEF Inv, DocOK
  <1>2. CASE FailFor(w, doc, code) \/ FailFor(w, doc, 20014)
    BY <1>1, <1>2, FlowFails
  <1>3. CASE Retry(w, doc, retry)
    BY <1>1, <1>3, FlowRetries
  <1> QED BY <1>2, <1>3 DEF FailStage

\* Rows are added, and one that points at the parse result object only by the parse
\* that has stored it.
RowsGrow(w) ==
    /\ rows \subseteq rows'
    /\ HasParseRow(rows') =>
         HasParseRow(rows) \/ (worker[w].task = Parse /\ worker[w].pc = "save")

\* complete_stage creates the next stage, with the slot.
LEMMA FlowAdvances ==
    ASSUME Inv, FlowInv, NEW w \in Worker, Working(w), NEW loaded \in Doc,
           worker[w].task \in {Parse, ChunkStage, Embed},
           Advance(w, loaded),
           RowsGrow(w),
           UNCHANGED <<checkpoint, objects, scan>>
    PROVE  FlowInv' /\ HistoryKept
  <1> DEFINE t == worker[w].task
             n == NextStage(t)
  <1>1. t \in Stages /\ t \in TaskId /\ lease.open /\ task[n].status = "absent"
    BY AtWork, TaskNames
  <1>2. n \in TaskId /\ n # t /\ n[1] \in DocType /\ t # Finalize
    BY TaskNames, TaskTypes
  <1>3. task \in [TaskId -> TaskRow] /\ lease \in LeaseRow
    BY DEF Inv, TasksOK, LeaseOK
  <1> HIDE DEF n
  <1>4. task' = [task EXCEPT ![t].status = "succeeded",
                             ![n] = IF @.status = "absent"
                                    THEN [status |-> "queued", retry |-> 0] ELSE @]
    BY DEF Advance, n
  <1>5. /\ task'[t].status = "succeeded" /\ task'[t].retry = task[t].retry
        /\ \A x \in TaskId \ {t, n} : task'[x] = task[x]
    BY <1>1, <1>2, <1>3, <1>4 DEF TaskRow
  <1>6. task'[n] = [status |-> "queued", retry |-> 0]
    BY <1>1, <1>2, <1>3, <1>4
  <1>7. Closes(w, "succeeded") /\ "succeeded" \in AttemptStatus \ {"running"}
    BY DEF Advance, Closes, AttemptStatus
  <1>8. lease'.open /\ ~lease'.expired
    BY <1>1, <1>3 DEF Advance, LeaseRow, FlowInv, Unlisted
  <1>9. doc'.status \notin Hidden
    <2> DEFINE new == [loaded EXCEPT !.type = n[1]]
    <2>1. new \in Doc /\ new.status = loaded.status /\ new.cycle = loaded.cycle
      BY <1>2 DEF Doc
    <2>2. doc' = Flush(doc, loaded, new)
      BY DEF Advance, n
    <2> HIDE DEF new
    <2>3. doc'.status = doc.status
      BY <2>1, <2>2, FlushKeepsDeletion
    <2> QED BY <2>3 DEF FlowInv
  <1>10. Return(w) /\ RowsFit(w)
    BY <1>5 DEF Advance, FlowInv, Kept, RowsFit, RowsGrow
  <1>11. TaskEnds(t)
    BY <1>2, <1>5, <1>6, <1>8 DEF TaskEnds, n
  <1> QED BY <1>1, <1>5, <1>7, <1>8, <1>9, <1>10, <1>11, FlowEnds

\* What the parse worker does before its attempt.
LEMMA FlowParseStarts ==
    ASSUME Inv, FlowInv, NEW w \in Worker,
           \/ ParseDeliver(w) \/ ParseFindOpen(w) \/ ParseAcquire(w) \/ ParseDenied(w)
           \/ ParseBegin(w)
    PROVE  FlowInv' /\ HistoryKept
  <1>1. worker[w] \in Process /\ worker \in [Worker -> Process]
    BY DEF Inv, WorkersOK
  <1>2. doc.status \notin Hidden /\ ~lease.expired /\ (checkpoint => Chunk \in rows)
    BY DEF FlowInv, Unlisted, Kept
  <1>3. CASE ParseDeliver(w)
    <2>1. CASE UNCHANGED worker
      BY <1>3, <2>1, FlowStays DEF ParseDeliver
    <2>2. CASE worker' = [worker EXCEPT ![w].pc = "find", ![w].task = Stage("parse"),
                                        ![w].seen = doc]
      <3>1. worker'[w].pc = "find" /\ \A v \in Worker \ {w} : worker'[v] = worker[v]
        BY <1>1, <2>2 DEF Process
      <3>2. ~Working(w)'
        BY <3>1 DEF Working
      <3>3. UNCHANGED <<doc, task, attempts, checkpoint, lease, rows, objects, scan>>
        BY <1>3 DEF ParseDeliver, dbVars
      <3> QED BY <1>2, <3>1, <3>2, <3>3, FlowMoves
    <2> QED BY <1>3, <2>1, <2>2 DEF ParseDeliver
  <1>4. CASE ParseFindOpen(w)
    <2>1. /\ worker'[w].pc = IF lease.open THEN "begin" ELSE "acquire"
          /\ \A v \in Worker \ {w} : worker'[v] = worker[v]
      BY <1>1, <1>4 DEF ParseFindOpen, Goto, Process
    <2>2. ~Working(w)'
      BY <2>1 DEF Working
    <2>3. UNCHANGED <<doc, task, attempts, checkpoint, lease, rows, objects, scan>>
      BY <1>4 DEF ParseFindOpen, dbVars
    <2>4. worker'[w].pc # "save" /\ (worker'[w].pc = "begin" => lease'.open)
      BY <2>1, <2>3
    <2> QED BY <1>2, <2>1, <2>2, <2>3, <2>4, FlowMoves
  <1>5. CASE ParseAcquire(w)
    <2> DEFINE loaded == worker[w].seen
               new == [loaded EXCEPT !.status = IF @ = "queued" THEN "processing" ELSE @]
    <2>1. loaded \in Doc /\ loaded.status \in {"queued", "processing"}
      BY <1>5, ParseHasDocument DEF ParseAcquire
    <2>2. new \in Doc /\ new.status = "processing"
      BY <2>1 DEF Doc, DocStatus
    <2>3. doc' = Flush(doc, loaded, new) /\ doc \in Doc
      BY <1>5 DEF ParseAcquire, Inv, DocOK
    <2> HIDE DEF new
    <2>4. doc'.status \notin Hidden
      BY <1>2, <2>1, <2>2, <2>3, FlushDoc DEF Hidden
    <2>5. worker'[w].pc = "begin" /\ \A v \in Worker \ {w} : worker'[v] = worker[v]
      BY <1>1, <1>5 DEF ParseAcquire, Process
    <2>6. ~Working(w)'
      BY <2>5 DEF Working
    <2>7. lease'.open /\ ~lease'.expired
      BY <1>5 DEF ParseAcquire
    <2>8. UNCHANGED <<task, attempts, checkpoint, rows, objects, scan>>
      BY <1>5 DEF ParseAcquire
    <2> QED BY <1>2, <2>4, <2>5, <2>6, <2>7, <2>8, FlowMoves
  <1>6. CASE ParseDenied(w)
    BY <1>6, FlowReturns DEF ParseDenied
  <1>7. CASE ParseBegin(w)
    <2>1. CASE Return(w) /\ UNCHANGED <<task, attempts>>
      BY <1>7, <2>1, FlowReturns DEF ParseBegin, dbVars
    <2>2. CASE BeginAttempt(w, Parse)
      <3>1. lease.open
        BY <1>7, <2>2 DEF ParseBegin, BeginAttempt, Runnable, FlowInv, Slots
      <3> QED BY <1>7, <2>2, <3>1, TaskNames, FlowBegins DEF ParseBegin
    <2> QED BY <1>7, <2>1, <2>2 DEF ParseBegin, Parse
  <1> QED BY <1>3, <1>4, <1>5, <1>6, <1>7

\* The attempt of parse: its object is there before a row points at it, and is
\* removed only while none does.
LEMMA FlowParse ==
    ASSUME Inv, FlowInv, NEW w \in Worker,
           \/ ParseRejected(w) \/ ParseBreaks(w) \/ ParseStore(w) \/ ParseStoreFails(w)
           \/ ParseSave(w) \/ ParseFenced(w) \/ ParseSaveFails(w)
    PROVE  FlowInv' /\ HistoryKept
  <1>1. /\ worker[w].task = Parse /\ worker[w].pc \in {"work", "save"} /\ Working(w)
        /\ worker[w].seen \in Doc /\ worker[w].seen.status \in {"queued", "processing"}
    <2>1. worker[w].task[1] = "parse" /\ worker[w].pc \in {"work", "save"}
      BY DEF ParseRejected, ParseBreaks, ParseStore, ParseStoreFails, ParseSave,
             ParseFenced, ParseSaveFails, At
    <2>2. worker[w].task \in TaskId \cup {NoTask}
      BY DEF Inv, WorkersOK, Process
    <2>3. worker[w].task = Parse
      BY <2>1, <2>2, TaskTypes
    <2> QED BY <2>1, <2>3, ParseHasDocument DEF Working
  <1>2. {0, 20001, 20011} \subseteq ErrorCode /\ "save" \in Pc \ {"begin"}
    BY DEF ErrorCode, Pc
  <1>3. CASE ParseRejected(w)
    BY <1>1, <1>2, <1>3, FlowFails DEF ParseRejected
  <1>4. CASE ParseSave(w)
    <2>1. rows \subseteq rows'
      BY <1>4 DEF ParseSave
    <2>2. worker[w].pc = "save"
      BY <1>4 DEF ParseSave, At
    <2>3. RowsGrow(w)
      BY <1>1, <2>1, <2>2 DEF RowsGrow
    <2> QED BY <1>1, <1>4, <2>3, FlowAdvances DEF ParseSave
  <1>5. CASE ParseStore(w)
    <2>1. Goto(w, "save") /\ "parsed" \in objects' /\ UNCHANGED <<dbVars, scan>>
      BY <1>5 DEF ParseStore
    <2>2. Continues(w)
      BY <1>1, <1>2, <2>1, MovesContinue
    <2> QED BY <2>1, <2>2, FlowContinues
  <1>6. CASE ParseBreaks(w) \/ ParseStoreFails(w) \/ ParseSaveFails(w) \/ ParseFenced(w)
    <2>1. /\ ToCancel(w) \/ \E code \in ErrorCode : ToFail(w, code)
          /\ UNCHANGED <<dbVars, scan>>
      BY <1>2, <1>6 DEF ParseBreaks, ParseStoreFails, ParseSaveFails, ParseFenced
    <2>2. Continues(w) /\ worker'[w].pc # "save"
      BY <1>1, <2>1, MovesContinue
    <2> QED BY <1>1, <2>1, <2>2, FlowContinues
  <1> QED BY <1>3, <1>4, <1>5, <1>6

\* chunk, embed and finalize.
LEMMA FlowStages ==
    ASSUME Inv, FlowInv, NEW w \in Worker,
           \/ ChunkLoad(w) \/ ChunkSave(w) \/ ChunkFenced(w)
           \/ EmbedLoad(w) \/ EmbedNoDrafts(w) \/ EmbedHeartbeat(w) \/ EmbedCall(w)
           \/ EmbedSave(w) \/ EmbedComplete(w) \/ EmbedAborted(w)
           \/ FinalizePublish(w) \/ FinalizeMismatch(w) \/ FinalizeFenced(w)
           \/ StageBreaks(w)
    PROVE  FlowInv' /\ HistoryKept
  <1>1. worker[w].task \in {ChunkStage, Embed, Finalize} /\ worker[w].task # Parse
    BY StageAt
  <1>2. worker[w].pc \in {"work", "save", "beat", "call", "complete"}
    BY StageAt
  <1>3. Working(w)
    BY <1>2 DEF Working
  <1>4. doc \in Doc /\ lease \in LeaseRow /\ {0, 20012, 20013} \subseteq ErrorCode
    BY DEF Inv, DocOK, LeaseOK, ErrorCode
  <1>5. {"save", "beat", "call", "complete"} \subseteq Pc \ {"begin"}
    BY DEF Pc
  <1>6. ASSUME \/ \E pc \in {"save", "beat", "call", "complete"} : Goto(w, pc)
               \/ \E code \in ErrorCode : ToFail(w, code)
               \/ ToCancel(w)
        PROVE  Continues(w) /\ worker'[w].task # Parse
    <2>1. Continues(w)
      BY <1>3, <1>5, <1>6, MovesContinue
    <2> QED BY <1>1, <2>1 DEF Continues
  <1>7. ASSUME Continues(w) /\ worker'[w].task # Parse, UNCHANGED <<dbVars, objects, scan>>
        PROVE  FlowInv' /\ HistoryKept
    BY <1>7, FlowContinues
  <1>8. CASE \/ ChunkLoad(w) \/ ChunkFenced(w) \/ EmbedLoad(w) \/ EmbedCall(w)
             \/ FinalizeFenced(w) \/ StageBreaks(w)
    <2>1. \/ \E pc \in {"save", "beat", "call", "complete"} : Goto(w, pc)
          \/ \E code \in ErrorCode : ToFail(w, code)
          \/ ToCancel(w)
      BY <1>4, <1>8
      DEF ChunkLoad, ChunkFenced, EmbedLoad, EmbedCall, FinalizeFenced, StageBreaks
    <2>2. UNCHANGED <<dbVars, objects, scan>>
      BY <1>8
      DEF ChunkLoad, ChunkFenced, EmbedLoad, EmbedCall, FinalizeFenced, StageBreaks
    <2> QED BY <1>6, <1>7, <2>1, <2>2
  <1>9. CASE EmbedAborted(w)
    BY <1>9, FlowReturns DEF EmbedAborted
  <1>10. CASE ChunkSave(w)
    <2>1. RowsGrow(w)
      BY <1>10 DEF ChunkSave, HasParseRow, Draft, RowsGrow
    <2>2. worker[w].task = ChunkStage
      BY <1>10, AtStage DEF ChunkSave
    <2>3. Advance(w, doc) /\ UNCHANGED <<checkpoint, objects, scan>>
      BY <1>10 DEF ChunkSave
    <2> QED BY <1>3, <1>4, <2>1, <2>2, <2>3, FlowAdvances
  <1>11. CASE EmbedComplete(w)
    <2>1. RowsGrow(w)
      BY <1>11 DEF EmbedComplete, HasParseRow, RowsGrow
    <2>2. worker[w].task = Embed
      BY <1>11, AtStage DEF EmbedComplete
    <2>3. Advance(w, doc) /\ UNCHANGED <<checkpoint, objects, scan>>
      BY <1>11 DEF EmbedComplete
    <2> QED BY <1>3, <1>4, <2>1, <2>2, <2>3, FlowAdvances
  <1>12. CASE EmbedNoDrafts(w)
    <2>1. worker[w].retry = task[worker[w].task].retry
      BY <1>3, AtWork
    <2> QED BY <1>3, <1>4, <1>12, <2>1, FlowFailStage DEF EmbedNoDrafts
  <1>13. CASE FinalizeMismatch(w)
    BY <1>3, <1>4, <1>13, FlowFails DEF FinalizeMismatch
  <1>14. CASE EmbedHeartbeat(w)
    <2>1. CASE ToCancel(w) /\ UNCHANGED lease
      BY <1>6, <1>7, <1>14, <2>1 DEF EmbedHeartbeat, dbVars
    <2>2. CASE /\ lease' = [lease EXCEPT !.expired = FALSE, !.task = Embed]
               /\ Goto(w, "call")
      <3>1. Continues(w) /\ worker'[w].task # Parse
        BY <1>6, <2>2
      <3>2. lease.open => lease'.open
        BY <1>4, <2>2 DEF LeaseRow
      <3>3. ~lease'.expired
        BY <1>4, <2>2 DEF LeaseRow
      <3>4. UNCHANGED <<doc, task, attempts, checkpoint, rows, objects, scan>>
        BY <1>14 DEF EmbedHeartbeat
      <3>5. doc.status \notin Hidden /\ (checkpoint => Chunk \in rows)
        BY DEF FlowInv, Kept
      <3> QED BY <3>1, <3>2, <3>3, <3>4, <3>5, FlowMoves DEF Continues
    <2> QED BY <1>14, <2>1, <2>2 DEF EmbedHeartbeat, Embed
  <1>15. CASE EmbedSave(w)
    <2>1. CASE ToCancel(w) /\ UNCHANGED <<rows, checkpoint>>
      BY <1>6, <1>7, <1>15, <2>1 DEF EmbedSave, dbVars
    <2>2. CASE rows' = rows \cup {Chunk} /\ checkpoint' = TRUE /\ Goto(w, "complete")
      <3>1. Continues(w) /\ worker'[w].task # Parse
        BY <1>6, <2>2
      <3>2. HasParseRow(rows') => HasParseRow(rows)
        BY <2>2 DEF HasParseRow, Chunk
      <3>3. UNCHANGED <<doc, task, attempts, lease, objects, scan>>
        BY <1>15 DEF EmbedSave
      <3>4. doc.status \notin Hidden /\ ~lease.expired /\ Chunk \in rows'
        BY <2>2 DEF FlowInv, Unlisted
      <3> QED BY <3>1, <3>2, <3>3, <3>4, FlowMoves DEF Continues
    <2> QED BY <1>15, <2>1, <2>2 DEF EmbedSave
  <1>16. CASE FinalizePublish(w)
    <2>1. worker[w].task = Finalize /\ Finalize \in Stages /\ Finalize \in TaskId
      BY <1>16, AtStage, TaskNames DEF FinalizePublish
    <2>2. /\ task' = [task EXCEPT ![Finalize].status = "succeeded"]
          /\ attempts' = [attempts EXCEPT ![Finalize][worker[w].att] = "succeeded"]
          /\ lease' = Released(lease) /\ Return(w)
          /\ doc' = [doc EXCEPT !.status = "completed", !.type = "none"]
          /\ UNCHANGED <<checkpoint, rows, objects, scan>>
      BY <1>16 DEF FinalizePublish, Finalize
    <2>3. TaskEnds(Finalize)
      BY <2>1, <2>2 DEF Inv, TasksOK, TaskRow, TaskEnds
    <2>4. Closes(w, "succeeded") /\ "succeeded" \in AttemptStatus \ {"running"}
      BY <2>1, <2>2 DEF Closes, AttemptStatus
    <2>5. ~lease'.expired
      BY <1>4, <2>2 DEF Released, LeaseRow
    <2>6. doc'.status = "completed"
      BY <1>4, <2>2 DEF Doc
    <2>7. doc'.status \notin Hidden
      BY <2>6 DEF Hidden
    <2>8. RowsFit(w)
      BY <2>2 DEF RowsFit, FlowInv, Kept
    <2> QED BY <1>3, <2>1, <2>2, <2>3, <2>4, <2>5, <2>7, <2>8, FlowEnds
  <1> QED BY <1>8, <1>9, <1>10, <1>11, <1>12, <1>13, <1>14, <1>15, <1>16

\* After an error the worker reads its attempt again, and fails or cancels the
\* stage in a second transaction; unless it dies there.
LEMMA FlowErrors ==
    ASSUME Inv, FlowInv, NEW w \in Worker,
           \/ Reload(w) \/ FailAfterRollback(w) \/ ConvergeCancelled(w)
           \/ HandlerDies(w) \/ Crash(w)
    PROVE  FlowInv' /\ HistoryKept
  <1>1. worker[w] \in Process /\ worker \in [Worker -> Process]
    BY DEF Inv, WorkersOK
  <1>2. CASE HandlerDies(w) \/ Crash(w)
    BY <1>2, FlowReturns DEF HandlerDies, Crash
  <1>3. CASE Reload(w)
    <2>1. worker[w].pc \in {"fail", "cancel"} /\ Working(w)
      BY <1>3 DEF Reload, Working
    <2>2. UNCHANGED <<dbVars, objects, scan>>
      BY <1>3 DEF Reload
    <2>3. CASE Return(w)
      BY <2>2, <2>3, FlowReturns
    <2>4. CASE worker' = [worker EXCEPT
                            ![w].pc = IF @ = "fail" THEN "failing" ELSE "cancelling",
                            ![w].retry = task[worker[w].task].retry]
      <3>1. /\ worker'[w].pc \in {"failing", "cancelling"}
            /\ worker'[w].task = worker[w].task /\ worker'[w].att = worker[w].att
            /\ worker'[w].retry = task[worker[w].task].retry
            /\ \A v \in Worker \ {w} : worker'[v] = worker[v]
        BY <1>1, <2>4 DEF Process
      <3>2. Continues(w) /\ worker'[w].pc # "save"
        BY <2>1, <3>1 DEF Continues
      <3> QED BY <2>2, <3>2, FlowContinues
    <2> QED BY <1>3, <2>3, <2>4 DEF Reload
  <1>4. CASE FailAfterRollback(w)
    <2>1. Working(w) /\ worker[w].code \in ErrorCode
      BY <1>1, <1>4 DEF FailAfterRollback, Working, Process
    <2>2. /\ FailStage(w, doc, task[worker[w].task].retry, worker[w].code)
          /\ UNCHANGED <<checkpoint, rows, objects, scan>>
      BY <1>4 DEF FailAfterRollback
    <2> QED BY <2>1, <2>2, FlowFailStage
  <1>5. CASE ConvergeCancelled(w)
    <2> DEFINE t == worker[w].task
    <2>1. Working(w)
      BY <1>5 DEF ConvergeCancelled, Working
    <2>2. t \in Stages /\ t \in TaskId /\ task[t].status = "running"
      BY <2>1, AtWork
    <2>3. Closes(w, "cancelled") /\ "cancelled" \in AttemptStatus \ {"running"}
      BY <1>5 DEF ConvergeCancelled, Closes, AttemptStatus
    <2>4. /\ task'[t].status = "cancelled" /\ task'[t].retry = task[t].retry
          /\ \A x \in TaskId \ {t} : task'[x] = task[x]
      BY <1>5, <2>2 DEF ConvergeCancelled, Inv, TasksOK, TaskRow
    <2>5. TaskEnds(t)
      BY <2>4 DEF TaskEnds
    <2>6. /\ Return(w)
          /\ UNCHANGED <<doc, checkpoint, lease, rows, objects, scan>>
      BY <1>5 DEF ConvergeCancelled
    <2>7. doc'.status \notin Hidden /\ ~lease'.expired /\ RowsFit(w)
      BY <2>6 DEF FlowInv, Unlisted, Kept, RowsFit
    <2> QED BY <2>1, <2>2, <2>3, <2>5, <2>6, <2>7, FlowEnds
  <1> QED BY <1>2, <1>3, <1>4, <1>5

\* No cleanup runs, for none exists.
LEMMA NoCleanupRuns ==
    ASSUME Inv, FlowInv, NEW w \in Worker,
           \/ CleanupLoad(w) \/ CleanupPurge(w) \/ CleanupCommit(w)
           \/ CleanupBreaks(w) \/ CleanupFails(w)
    PROVE  FALSE
  <1>1. worker[w].task \in Cleanups /\ Working(w)
    BY CleanupAt DEF Working
  <1>2. worker[w].task \in Stages
    BY <1>1, AtWork
  <1> QED BY <1>1, <1>2, StagesApart

\* A message is taken: its task begins, or the message is dropped.
LEMMA FlowDelivers ==
    ASSUME Inv, FlowInv, NEW w \in Worker, NEW t \in TaskId, Deliver(w, t)
    PROVE  FlowInv' /\ HistoryKept
  <1>1. /\ t # Parse
        /\ UNCHANGED <<doc, checkpoint, lease, rows, objects, scan>>
    BY DEF Deliver, Parse
  <1>2. CASE BeginAttempt(w, t)
    BY <1>1, <1>2, FlowBegins
  <1>3. CASE UNCHANGED <<task, attempts, worker>>
    BY <1>1, <1>3, FlowStays DEF dbVars
  <1> QED BY <1>2, <1>3 DEF Deliver

(***************************************************************************)
(* Everything else                                                         *)
(***************************************************************************)
\* The scanner finds nothing to recover: no lease has expired, and whatever runs
\* holds the slot.
LEMMA NothingToRecover ==
    ASSUME Inv, FlowInv,
           \/ ScanExpired \/ RefreshScan \/ RecoverLease \/ ScanOrphans
           \/ \E a \in scan.orphans : RecoverOrphan(a)
    PROVE  FALSE
  <1>1. scan.lease.id = 0 /\ scan.orphans = {} /\ ~lease.expired
    BY DEF FlowInv, Unlisted, NoScan
  <1>2. ~ScanExpired /\ ~RefreshScan /\ ~RecoverLease
        /\ ~\E a \in scan.orphans : RecoverOrphan(a)
    BY <1>1 DEF ScanExpired, RefreshScan, RecoverLease
  <1>3. ASSUME ScanOrphans
        PROVE  FALSE
    <2>1. PICK a \in OpenAttempts : task[a[1]].status = "running" /\ ~lease.open
      BY <1>3 DEF ScanOrphans
    <2>2. a[1] \in TaskId
      BY <2>1 DEF OpenAttempts
    <2>3. a[1] \in Stages
      BY <2>1, <2>2 DEF TaskId, FlowInv, NoCleanups
    <2> QED BY <2>1, <2>3 DEF FlowInv, Slots
  <1> QED BY <1>2, <1>3

\* A DELETE and an expiry disturb the document.
LEMMA Disturbs ==
    ASSUME Inv, FlowInv, UsedOK, Delete \/ Expire
    PROVE  ~Undisturbed'
  <1>1. doc.cycle \in Nat /\ used.expirations \in Nat /\ used \in [Resource -> Nat]
    BY Bounds DEF Inv, DocOK, Doc, UsedOK, Resource
  <1>2. CASE Delete
    <2>1. doc'.cycle = doc.cycle + 1
      BY <1>2 DEF Delete
    <2> QED BY <1>1, <2>1 DEF Undisturbed
  <1>3. CASE Expire
    <2>1. Spend("expirations", MaxExpirations)
      BY <1>3 DEF Expire, FlowInv
    <2>2. used'.expirations = used.expirations + 1
      BY <1>1, <2>1 DEF Spend, Resource
    <2> QED BY <1>1, <2>2 DEF Undisturbed
  <1> QED BY <1>2, <1>3

\* Every step that leaves the document undisturbed keeps the invariant and what
\* has ended.
LEMMA FlowStep ==
    ASSUME Inv, FlowInv, UsedOK, [Next]_vars, Undisturbed'
    PROVE  FlowInv' /\ HistoryKept
  <1>1. ASSUME NEW w \in Worker, ParseDeliver(w) \/ WorkerStep(w) \/ Crash(w)
        PROVE  FlowInv' /\ HistoryKept
    <2>1. CASE \/ ParseDeliver(w) \/ ParseFindOpen(w) \/ ParseAcquire(w)
               \/ ParseDenied(w) \/ ParseBegin(w)
      BY <2>1, FlowParseStarts
    <2>2. CASE \/ ParseRejected(w) \/ ParseBreaks(w) \/ ParseStore(w)
               \/ ParseStoreFails(w) \/ ParseSave(w) \/ ParseFenced(w)
               \/ ParseSaveFails(w)
      BY <2>2, FlowParse
    <2>3. CASE \/ ChunkLoad(w) \/ ChunkSave(w) \/ ChunkFenced(w)
               \/ EmbedLoad(w) \/ EmbedNoDrafts(w) \/ EmbedHeartbeat(w) \/ EmbedCall(w)
               \/ EmbedSave(w) \/ EmbedComplete(w) \/ EmbedAborted(w)
               \/ FinalizePublish(w) \/ FinalizeMismatch(w) \/ FinalizeFenced(w)
               \/ StageBreaks(w)
      BY <2>3, FlowStages
    <2>4. CASE \/ Reload(w) \/ FailAfterRollback(w) \/ ConvergeCancelled(w)
               \/ HandlerDies(w) \/ Crash(w)
      BY <2>4, FlowErrors
    <2>5. CASE \/ CleanupLoad(w) \/ CleanupPurge(w) \/ CleanupCommit(w)
               \/ CleanupBreaks(w) \/ CleanupFails(w)
      BY <2>5, NoCleanupRuns
    <2> QED BY <1>1, <2>1, <2>2, <2>3, <2>4, <2>5 DEF WorkerStep
  <1>2. ASSUME NEW w \in Worker, NEW t \in TaskId, Deliver(w, t)
        PROVE  FlowInv' /\ HistoryKept
    BY <1>2, FlowDelivers
  <1>3. CASE \/ \E w \in Worker : Redeliver(w)
             \/ \E t \in TaskId : Lose(t) \/ Redispatch(t)
             \/ UNCHANGED vars
    <2>1. UNCHANGED <<dbVars, objects, scan, worker>>
      BY <1>3 DEF Redeliver, Lose, Redispatch, vars, dbVars
    <2> QED BY <2>1, FlowStays
  <1>4. CASE Delete \/ Expire
    BY <1>4, Disturbs
  <1>5. CASE \/ ScanExpired \/ RefreshScan \/ RecoverLease \/ ScanOrphans
             \/ \E a \in scan.orphans : RecoverOrphan(a)
    BY <1>5, NothingToRecover
  <1> QED BY <1>1, <1>2, <1>3, <1>4, <1>5 DEF Next

\* An uploaded document satisfies the invariant, and nothing has been spent.
LEMMA FlowInit ==
    ASSUME Init
    PROVE  FlowInv /\ UsedOK
  <1>1. /\ task = [t \in TaskId |->
                    [status |-> IF t = Parse THEN "queued" ELSE "absent", retry |-> 0]]
        /\ attempts = [t \in TaskId |-> <<>>]
    BY DEF Init, Parse
  <1>2. \A w \in Worker : worker[w].pc = "idle"
    BY DEF Init, Idle
  <1>3. InOrder
    BY <1>1, TaskNames DEF InOrder
  <1>4. NoCleanups
    <2>1. \A t \in Cleanups : t \in TaskId /\ t # Parse
      BY StagesApart, TaskNames
    <2> QED BY <1>1, <2>1 DEF NoCleanups
  <1>5. LastOpen
    BY <1>1 DEF LastOpen
  <1>6. Budget
    BY <1>1 DEF Budget
  <1>7. Executing /\ \A w \in Worker : worker[w].pc \notin {"begin", "save"}
    BY <1>2 DEF Executing, Working
  <1>8. Slots
    BY <1>1, <1>7, TaskNames, StagesApart DEF Slots
  <1>9. Unlisted /\ Kept /\ doc.status \notin Hidden
    BY <1>7 DEF Init, Unlisted, Kept, HasParseRow, Hidden
  <1>10. UsedOK
    BY DEF Init, UsedOK, Resource
  <1> QED BY <1>3, <1>4, <1>5, <1>6, <1>7, <1>8, <1>9, <1>10 DEF FlowInv

\* The invariant of a document, disturbed or not.
FlowUnlessDisturbed == UsedOK /\ (Undisturbed => FlowInv)

\* It holds in every reachable state.
LEMMA FlowInvariance == Spec => []FlowUnlessDisturbed
  <1>1. Init => FlowUnlessDisturbed
    BY FlowInit DEF FlowUnlessDisturbed
  <1>2. Inv /\ ProgressInv /\ FlowUnlessDisturbed /\ [Next]_vars => FlowUnlessDisturbed'
    <2> SUFFICES ASSUME Inv, ProgressInv, FlowUnlessDisturbed, [Next]_vars
                 PROVE  FlowUnlessDisturbed'
      OBVIOUS
    <2>1. UsedOK /\ UsedOK'
      BY UsedStep DEF FlowUnlessDisturbed
    <2>2. ASSUME Undisturbed'
          PROVE  FlowInv'
      <3>1. Undisturbed
        BY <2>1, <2>2, StaysDisturbed
      <3>2. FlowInv
        BY <3>1 DEF FlowUnlessDisturbed
      <3> QED BY <2>1, <2>2, <3>2, FlowStep
    <2> QED BY <2>1, <2>2 DEF FlowUnlessDisturbed
  <1> QED BY <1>1, <1>2, Invariance, ProgressInvariance, PTL DEF Spec

\* As long as nobody has deleted the document and no lease of it has expired,
\* whatever crashed, failed, got lost or came twice, for any number of workers: a
\* worker that runs a stage holds a slot of its user.
THEOREM StagesHoldTheSlot == Spec => [](Undisturbed => SlotWhileRunning)
  <1>1. Inv /\ FlowUnlessDisturbed => (Undisturbed => SlotWhileRunning)
    BY FlowGives DEF FlowUnlessDisturbed
  <1> QED BY <1>1, Invariance, FlowInvariance, PTL

\* Under the same condition: no two stages of the document are queued or running,
\* and no two attempts are open, however many workers got a message.
THEOREM StagesComeOneAtATime == Spec => [](Undisturbed => OneStageAtATime)
  <1>1. Inv /\ FlowUnlessDisturbed => (Undisturbed => OneStageAtATime)
    BY FlowGives DEF FlowUnlessDisturbed
  <1> QED BY <1>1, Invariance, FlowInvariance, PTL

\* Under the same condition: a stage exists only once the one before it has
\* succeeded.
THEOREM StagesComeInOrder == Spec => [](Undisturbed => StageOrder)
  <1>1. Inv /\ FlowUnlessDisturbed => (Undisturbed => StageOrder)
    BY FlowGives DEF FlowUnlessDisturbed
  <1> QED BY <1>1, Invariance, FlowInvariance, PTL

\* Under the same condition: the parse result object is there as long as a row
\* points at it, and the chunks as long as the checkpoint of embed counts them.
THEOREM DerivedDataIsKept == Spec => [](Undisturbed => DerivedDataKept)
  <1>1. Inv /\ FlowUnlessDisturbed => (Undisturbed => DerivedDataKept)
    BY FlowGives DEF FlowUnlessDisturbed
  <1> QED BY <1>1, Invariance, FlowInvariance, PTL

\* In a behaviour that nothing of this disturbs, what has ended keeps its status:
\* no retry, duplicate message or stale session reopens a task or rewrites an
\* attempt.
THEOREM HistoryIsFinal == Spec /\ []Undisturbed => HistoryFinal
  <1>1. Inv /\ FlowUnlessDisturbed /\ Undisturbed /\ Undisturbed' /\ [Next]_vars
        => [HistoryKept]_vars
    BY FlowStep DEF FlowUnlessDisturbed
  <1>2. Spec /\ []Undisturbed => [][HistoryKept]_vars
    BY <1>1, Invariance, FlowInvariance, PTL DEF Spec
  <1> QED BY <1>2, PTL DEF HistoryFinal, HistoryKept

(***************************************************************************)
(* The tombstone is clean: once a document is deleted, no derived row and  *)
(* no file of it is left.                                                  *)
(*                                                                         *)
(* From the DELETE on, the only lease is the one the document had.  While  *)
(* it is open the cleanup waits and the stages go on as before (Waiting);  *)
(* once it is closed no worker is left that could write a row or a file    *)
(* (Closed), so that what a cleanup finds is all there will ever be.       *)
(***************************************************************************)

Quiet == used.expirations = 0 /\ lease.cycle = 0

\* A lease is of the cycle in which it was taken.
LeaseCycle == lease.cycle <= doc.cycle

\* But for a death or a stray, the parse result object has its row, or a worker
\* about to write that.
Saving(w) == worker[w].task = Parse /\ worker[w].pc = "save"
ParsedOwned ==
    used.crashes = 0 /\ used.strays = 0 /\ "parsed" \in objects =>
        HasParseRow(rows) \/ \E w \in Worker : Saving(w)

\* A worker about to write chunks.
Writes(w) == worker[w].task = Embed /\ worker[w].pc \in {"call", "save"}

\* The lease expires, and is recovered, when no worker writes under it.
Expiring ==
    /\ scan.orphans = {} /\ scan.lease.id \in {0, lease.id}
    /\ lease.expired \/ scan.lease.id # 0 =>
         \A w \in Worker : worker[w].task # Parse /\ ~Writes(w)

Waiting == doc.status = "deleting" /\ Alone /\ Expiring

\* Nothing writes.
CleanFiles ==
    \/ objects = {}
    \/ used.crashes > 0
    \/ used.strays > 0 /\ objects \subseteq {"parsed"}
Clean == rows = {} /\ CleanFiles
Calm(w) ==
    /\ Working(w) => worker[w].task # Parse
    /\ ~Writes(w)
    /\ At(w, "delete_cleanup", "commit") => rows \subseteq worker[w].found /\ CleanFiles

\* Parse is over: it cannot begin, and nobody will make it pending again.
ParseOver ==
    /\ task[Parse].status # "queued" /\ ~Open(Parse)
    /\ scan.lease.id = 0 /\ \A a \in scan.orphans : a[1] # Parse

Closed ==
    /\ \A w \in Worker : Calm(w)
    /\ (\E w \in Worker : worker[w].pc = "begin") => ParseOver
    /\ doc.status = "deleted" => Clean

TombInv ==
    /\ ParsedOwned
    /\ doc.cycle = 0 => doc.type # "delete_cleanup"
    /\ doc.cycle > 0 /\ lease.open => Waiting
    /\ doc.cycle > 0 /\ ~lease.open => Closed

(***************************************************************************)
(* Leases and deaths                                                       *)
(***************************************************************************)
\* Nothing but an acquire opens a lease, or makes one.
SameLease ==
    lease'.cycle = lease.cycle /\ lease'.id = lease.id /\ (lease'.open => lease.open)

\* The ways to change a lease but for that.
LEMMA LeaseChanges ==
    ASSUME Inv
    PROVE  /\ lease' = lease => SameLease
           /\ lease' = Released(lease) => SameLease
           /\ lease' = [lease EXCEPT !.expired = TRUE] => SameLease
           /\ \A t : lease' = [lease EXCEPT !.task = t] => SameLease
           /\ \A t : lease' = [lease EXCEPT !.expired = FALSE, !.task = t] => SameLease
  BY DEF Inv, LeaseOK, LeaseRow, Released, SameLease

LEMMA LeaseStep ==
    ASSUME Inv, [Next]_vars
    PROVE  \/ SameLease
           \/ \E w \in Worker : ParseAcquire(w)
  <1>1. ASSUME NEW w \in Worker, NEW loaded, NEW retry, NEW code,
               FailFor(w, loaded, code) \/ Retry(w, loaded, retry)
        PROVE  SameLease
    BY <1>1, LeaseChanges, Zenon DEF FailFor, Retry
  <1>2. ASSUME NEW w \in Worker, NEW loaded, Advance(w, loaded)
        PROVE  SameLease
    BY <1>2, LeaseChanges, Zenon DEF Advance
  <1>3. ASSUME NEW w \in Worker, NEW loaded, NEW retry, NEW code,
               FailStage(w, loaded, retry, code)
        PROVE  SameLease
    BY <1>1, <1>3 DEF FailStage
  <1>4. ASSUME NEW w \in Worker,
               \/ ParseRejected(w) \/ ParseSave(w) \/ ChunkSave(w) \/ EmbedNoDrafts(w)
               \/ EmbedComplete(w) \/ FinalizeMismatch(w) \/ FailAfterRollback(w)
        PROVE  SameLease
    BY <1>1, <1>2, <1>3, <1>4
    DEF ParseRejected, ParseSave, ChunkSave, EmbedNoDrafts, EmbedComplete,
        FinalizeMismatch, FailAfterRollback
  <1>5. ASSUME NEW w \in Worker,
               \/ ParseDeliver(w) \/ ParseFindOpen(w) \/ ParseDenied(w) \/ ParseBegin(w)
               \/ ParseBreaks(w) \/ ParseStore(w) \/ ParseStoreFails(w) \/ ParseFenced(w)
               \/ ParseSaveFails(w)
        PROVE  lease' = lease
    BY <1>5
    DEF ParseDeliver, ParseFindOpen, ParseDenied, ParseBegin, ParseBreaks, ParseStore,
        ParseStoreFails, ParseFenced, ParseSaveFails, dbVars
  <1>6. ASSUME NEW w \in Worker,
               \/ ChunkLoad(w) \/ ChunkFenced(w)
               \/ EmbedLoad(w) \/ EmbedCall(w) \/ EmbedSave(w) \/ EmbedAborted(w)
               \/ FinalizeFenced(w) \/ StageBreaks(w)
               \/ HandlerDies(w) \/ Crash(w) \/ Redeliver(w)
               \/ CleanupPurge(w) \/ CleanupBreaks(w) \/ Reload(w)
               \/ \E t \in TaskId : Deliver(w, t)
        PROVE  lease' = lease
    BY <1>6
    DEF ChunkLoad, ChunkFenced, EmbedLoad, EmbedCall, EmbedSave, EmbedAborted,
        FinalizeFenced, StageBreaks, HandlerDies, Crash, Redeliver, CleanupPurge,
        CleanupBreaks, Reload, Deliver, dbVars
  <1>7. ASSUME NEW w \in Worker, CleanupLoad(w) \/ CleanupFails(w) \/ ConvergeCancelled(w)
        PROVE  lease' = lease
    <2>1. ASSUME CleanupLoad(w) PROVE lease' = lease
      BY <2>1, Zenon DEF CleanupLoad
    <2>2. ASSUME CleanupFails(w) PROVE lease' = lease
      BY <2>2 DEF CleanupFails
    <2>3. ASSUME ConvergeCancelled(w) PROVE lease' = lease
      BY <2>3, Zenon DEF ConvergeCancelled
    <2> QED BY <1>7, <2>1, <2>2, <2>3
  <1>8. ASSUME NEW w \in Worker, FinalizePublish(w) \/ CleanupCommit(w)
        PROVE  lease' = Released(lease)
    BY <1>8, Zenon DEF FinalizePublish, CleanupCommit
  <1>9. ASSUME NEW w \in Worker, EmbedHeartbeat(w)
        PROVE  SameLease
    BY <1>9, LeaseChanges, Zenon DEF EmbedHeartbeat
  <1>10. ASSUME \/ \E t \in TaskId : Lose(t) \/ Redispatch(t)
                \/ Delete \/ Expire \/ ScanExpired \/ RefreshScan \/ RecoverLease
                \/ ScanOrphans \/ \E a \in scan.orphans : RecoverOrphan(a)
                \/ UNCHANGED vars
         PROVE  SameLease
    BY <1>10, LeaseChanges
    DEF Lose, Redispatch, Delete, Expire, ScanExpired, RefreshScan, RecoverLease,
        ScanOrphans, RecoverOrphan, vars, dbVars
  <1> QED BY <1>4, <1>5, <1>6, <1>7, <1>8, <1>9, <1>10, LeaseChanges DEF Next, WorkerStep

\* Deaths and strays are counted, and never taken back.
LEMMA CrashesStep ==
    ASSUME UsedOK, [Next]_vars
    PROVE  used'.crashes >= used.crashes /\ used'.strays >= used.strays
  <1>1. CASE used' = used
    BY <1>1 DEF UsedOK, Resource
  <1>2. ASSUME NEW b \in Resource, NEW max, Spend(b, max)
        PROVE  used'.crashes >= used.crashes /\ used'.strays >= used.strays
    BY <1>2 DEF UsedOK, Resource, Spend
  <1>3. CASE Stray
    BY <1>3 DEF UsedOK, Resource, Stray
  <1> QED BY <1>1, <1>2, <1>3, SpendsOnce

\* A quiet document was so before, and takes a lease only before the DELETE.
LEMMA QuietBefore ==
    ASSUME Inv, UsedOK, LeaseCycle, [Next]_vars, Quiet'
    PROVE  /\ Quiet
           /\ SameLease \/ doc.cycle = 0
  <1>1. /\ doc.cycle \in Nat /\ lease.cycle \in Nat /\ used.expirations \in Nat
    BY Bounds DEF Inv, DocOK, Doc, LeaseOK, LeaseRow, UsedOK, Resource
  <1>2. used.expirations = 0
    BY <1>1, UsedStep DEF Quiet
  <1>3. CASE SameLease
    BY <1>2, <1>3 DEF Quiet, SameLease
  <1>4. CASE \E w \in Worker : ParseAcquire(w)
    <2>1. lease'.cycle = doc.cycle
      BY <1>4 DEF ParseAcquire
    <2> QED BY <1>1, <1>2, <2>1 DEF Quiet, LeaseCycle
  <1> QED BY <1>3, <1>4, LeaseStep

\* A lease is never of a cycle to come.
LEMMA LeaseCycleStep ==
    ASSUME Inv, ProgressInv, LeaseCycle, [Next]_vars
    PROVE  LeaseCycle'
  <1>1. doc.cycle \in Nat /\ lease.cycle \in Nat /\ doc'.cycle >= doc.cycle
    BY Bounds, CycleStep DEF Inv, DocOK, Doc, LeaseOK, LeaseRow
  <1>2. lease'.cycle \in {lease.cycle, doc.cycle}
    <2>1. CASE SameLease
      BY <2>1 DEF SameLease
    <2>2. CASE \E w \in Worker : ParseAcquire(w)
      BY <2>2 DEF ParseAcquire
    <2> QED BY <2>1, <2>2, LeaseStep
  <1>3. Inv'
    BY StepInv
  <1>4. doc'.cycle \in Nat
    BY <1>3, Bounds DEF Inv, DocOK, Doc
  <1> QED BY <1>1, <1>2, <1>4 DEF LeaseCycle

(***************************************************************************)
(* Every parse result object has its row                                   *)
(***************************************************************************)
\* A step that takes neither the row, nor the worker about to write it.
LEMMA OwnedKept ==
    ASSUME ParsedOwned,
           used'.crashes = 0 => used.crashes = 0,
           used'.strays = 0 => used.strays = 0,
           HasParseRow(rows) => HasParseRow(rows'),
           "parsed" \in objects' => "parsed" \in objects,
           \A v \in Worker : Saving(v) => Saving(v)'
    PROVE  ParsedOwned'
  BY DEF ParsedOwned

\* The steps of the workers that touch neither row nor file, and do not save.
KeepsOwned(w) ==
    /\ HasParseRow(rows) => HasParseRow(rows')
    /\ "parsed" \in objects' => "parsed" \in objects
    /\ ~Saving(w)

LEMMA ParseKeepsOwned ==
    ASSUME Inv, NEW w \in Worker,
           \/ ParseDeliver(w) \/ ParseFindOpen(w) \/ ParseAcquire(w) \/ ParseDenied(w)
           \/ ParseBegin(w) \/ ParseRejected(w) \/ ParseBreaks(w)
    PROVE  KeepsOwned(w)
  BY DEF ParseDeliver, ParseFindOpen, ParseAcquire, ParseDenied, ParseBegin, ParseRejected,
         ParseBreaks, KeepsOwned, Saving, At, dbVars

LEMMA StagesKeepOwned ==
    ASSUME Inv, NEW w \in Worker,
           \/ ChunkLoad(w) \/ ChunkSave(w) \/ ChunkFenced(w)
           \/ EmbedLoad(w) \/ EmbedNoDrafts(w) \/ EmbedHeartbeat(w) \/ EmbedCall(w)
           \/ EmbedSave(w) \/ EmbedComplete(w) \/ EmbedAborted(w)
           \/ FinalizePublish(w) \/ FinalizeMismatch(w) \/ FinalizeFenced(w)
           \/ StageBreaks(w)
    PROVE  KeepsOwned(w)
  <1>1. ~Saving(w)
    <2>1. worker[w].pc # "save" \/ worker[w].task[1] # "parse"
      BY DEF ChunkLoad, ChunkSave, ChunkFenced, EmbedLoad, EmbedNoDrafts, EmbedHeartbeat,
             EmbedCall, EmbedSave, EmbedComplete, EmbedAborted, FinalizePublish,
             FinalizeMismatch, FinalizeFenced, StageBreaks, At
    <2> QED BY <2>1 DEF Saving, Parse, Stage
  <1>2. rows \subseteq rows' /\ objects' = objects
    BY DEF ChunkLoad, ChunkSave, ChunkFenced, EmbedLoad, EmbedNoDrafts, EmbedHeartbeat,
           EmbedCall, EmbedSave, EmbedComplete, EmbedAborted, FinalizePublish,
           FinalizeMismatch, FinalizeFenced, StageBreaks, dbVars
  <1> QED BY <1>1, <1>2 DEF KeepsOwned, HasParseRow

LEMMA ErrorsKeepOwned ==
    ASSUME Inv, NEW w \in Worker,
           \/ Reload(w) \/ FailAfterRollback(w) \/ ConvergeCancelled(w)
           \/ CleanupLoad(w) \/ CleanupPurge(w) \/ CleanupBreaks(w) \/ CleanupFails(w)
           \/ \E t \in TaskId : Deliver(w, t)
    PROVE  KeepsOwned(w)
  <1>1. CASE Reload(w) \/ FailAfterRollback(w) \/ ConvergeCancelled(w)
    <2>1. ~Saving(w)
      BY <1>1 DEF Reload, FailAfterRollback, ConvergeCancelled, Saving
    <2>2. rows' = rows /\ objects' = objects
      BY <1>1 DEF Reload, FailAfterRollback, ConvergeCancelled, dbVars
    <2> QED BY <2>1, <2>2 DEF KeepsOwned
  <1>2. CASE CleanupLoad(w) \/ CleanupPurge(w) \/ CleanupBreaks(w) \/ CleanupFails(w)
    <2>1. worker[w].pc \in {"work", "purge", "commit", "failing"}
      BY <1>2, CleanupAt
    <2>2. rows' = rows /\ objects' \subseteq objects
      <3>1. CASE CleanupLoad(w)
        BY <3>1, Zenon DEF CleanupLoad
      <3>2. CASE CleanupPurge(w) \/ CleanupBreaks(w)
        BY <3>2 DEF CleanupPurge, CleanupBreaks, dbVars
      <3>3. CASE CleanupFails(w)
        BY <3>3 DEF CleanupFails
      <3> QED BY <1>2, <3>1, <3>2, <3>3
    <2> QED BY <2>1, <2>2 DEF KeepsOwned, Saving
  <1>3. ASSUME NEW t \in TaskId, Deliver(w, t)
        PROVE  KeepsOwned(w)
    BY <1>3 DEF Deliver, KeepsOwned, Saving
  <1> QED BY <1>1, <1>2, <1>3

\* A worker writes the object before the row, and removes it before it gives up,
\* unless it dies or that fails.
LEMMA OwnedByWorker ==
    ASSUME Inv, ProgressInv, UsedOK, ParsedOwned, [Next]_vars, NEW w \in Worker,
           \/ ParseDeliver(w) \/ WorkerStep(w) \/ Crash(w)
           \/ \E t \in TaskId : Deliver(w, t),
           CleanupCommit(w) => CleanFiles
    PROVE  ParsedOwned'
  <1>1. \A v \in Worker \ {w} : Saving(v) => Saving(v)'
    BY WorkerProgress DEF Moves, Saving
  <1>2. /\ used.crashes \in Nat /\ used'.crashes >= used.crashes /\ used'.crashes \in Nat
        /\ used.strays \in Nat /\ used'.strays >= used.strays /\ used'.strays \in Nat
    BY CrashesStep, UsedStep DEF UsedOK, Resource
  <1>3. CASE KeepsOwned(w)
    BY <1>1, <1>2, <1>3, OwnedKept DEF KeepsOwned
  <1>4. CASE ParseStore(w)
    <2>1. worker[w].task = Parse /\ worker[w].pc = "work"
      BY <1>4, TaskTypes DEF ParseStore, At, Inv, WorkersOK, Process
    <2>2. Working(w) /\ \E pc \in Pc \ {"begin"} : Goto(w, pc)
      BY <1>4, <2>1 DEF ParseStore, Working, Pc
    <2>3. Saving(w)'
      BY <1>4, <2>1, <2>2, MovesContinue DEF ParseStore, Continues, Saving
    <2> QED BY <2>3 DEF ParsedOwned
  <1>5. CASE ParseSave(w)
    <2>1. ParseRow(worker[w].att) \in rows'
      BY <1>5 DEF ParseSave
    <2>2. HasParseRow(rows')
      BY <2>1 DEF HasParseRow, ParseRow
    <2> QED BY <2>2 DEF ParsedOwned
  <1>6. CASE ParseFenced(w)
    <2>1. "parsed" \notin objects'
      BY <1>6 DEF ParseFenced
    <2> QED BY <2>1 DEF ParsedOwned
  <1>9. CASE (ParseStoreFails(w) \/ ParseSaveFails(w)) /\ Stray
    <2>1. used'.strays # 0
      BY <1>2, <1>9 DEF Stray, UsedOK, Resource
    <2> QED BY <2>1 DEF ParsedOwned
  <1>10. CASE ParseStoreFails(w) /\ ~Stray
    <2>1. UNCHANGED <<rows, objects>> /\ ~Saving(w)
      BY <1>10 DEF ParseStoreFails, At, Saving, dbVars
    <2>2. KeepsOwned(w)
      BY <2>1 DEF KeepsOwned
    <2> QED BY <1>3, <2>2
  <1>11. CASE ParseSaveFails(w) /\ ~Stray
    <2>1. "parsed" \notin objects'
      BY <1>11 DEF ParseSaveFails
    <2> QED BY <2>1 DEF ParsedOwned
  <1>7. CASE Crash(w) \/ HandlerDies(w)
    <2>1. used'.crashes # 0
      BY <1>2, <1>7 DEF Crash, HandlerDies, Spend, UsedOK, Resource
    <2> QED BY <2>1 DEF ParsedOwned
  <1>8. CASE CleanupCommit(w)
    <2>1. objects' = {} \/ used'.crashes # 0 \/ used'.strays # 0
      BY <1>2, <1>8 DEF CleanupCommit, CleanFiles
    <2> QED BY <2>1 DEF ParsedOwned
  <1> QED BY <1>3, <1>4, <1>5, <1>6, <1>7, <1>8, <1>9, <1>10, <1>11, ParseKeepsOwned, StagesKeepOwned,
             ErrorsKeepOwned DEF WorkerStep

LEMMA OwnedStep ==
    ASSUME Inv, ProgressInv, UsedOK, ParsedOwned, [Next]_vars,
           \A w \in Worker : CleanupCommit(w) => CleanFiles
    PROVE  ParsedOwned'
  <1>1. ASSUME NEW w \in Worker,
               \/ ParseDeliver(w) \/ WorkerStep(w) \/ Crash(w)
               \/ \E t \in TaskId : Deliver(w, t)
        PROVE  ParsedOwned'
    BY <1>1, OwnedByWorker
  <1>2. ASSUME \/ \E w \in Worker : Redeliver(w)
               \/ \E t \in TaskId : Lose(t) \/ Redispatch(t)
               \/ Delete \/ Expire \/ ScanExpired \/ RefreshScan \/ RecoverLease
               \/ ScanOrphans \/ \E a \in scan.orphans : RecoverOrphan(a)
               \/ UNCHANGED vars
        PROVE  ParsedOwned'
    <2>1. UNCHANGED <<rows, objects, worker>>
      BY <1>2 DEF Redeliver, Lose, Redispatch, Delete, Expire, ScanExpired, RefreshScan,
                  RecoverLease, ScanOrphans, RecoverOrphan, vars, dbVars
    <2>2. /\ used.crashes \in Nat /\ used'.crashes >= used.crashes /\ used'.crashes \in Nat
          /\ used.strays \in Nat /\ used'.strays >= used.strays /\ used'.strays \in Nat
      BY CrashesStep, UsedStep DEF UsedOK, Resource
    <2> QED BY <2>1, <2>2, OwnedKept DEF Saving
  <1> QED BY <1>1, <1>2 DEF Next

(***************************************************************************)
(* While the cleanup waits for the lease                                   *)
(***************************************************************************)
\* Worker w moves on, in the attempt it executes or towards one; it does not come
\* to a parse, nor to a write.
LEMMA WaitMoves ==
    ASSUME Waiting, NEW w \in Worker,
           UNCHANGED <<doc, task, attempts, lease, scan>>,
           \A v \in Worker \ {w} : worker'[v] = worker[v],
           Working(w)' =>
               /\ Working(w)
               /\ worker'[w].task = worker[w].task /\ worker'[w].att = worker[w].att
               /\ worker'[w].retry \in {worker[w].retry, task[worker[w].task].retry},
           worker'[w].task = Parse => worker[w].task = Parse,
           Writes(w)' => Writes(w)
    PROVE  Waiting'
  <1>1. OneStage' /\ Untouched' /\ LastOpen' /\ doc'.status = "deleting"
    BY DEF Waiting, Alone, OneStage, Untouched, LastOpen, Active
  <1>2. \A v \in Worker : /\ Working(v)' => Working(v)
                          /\ worker'[v].task = Parse => worker[v].task = Parse
                          /\ Writes(v)' => Writes(v)
    BY DEF Working, Writes
  <1>3. Executing'
    <2>1. \A v \in Worker : Working(v)' =>
            /\ worker'[v].task = worker[v].task /\ worker'[v].att = worker[v].att
            /\ worker'[v].retry \in {worker[v].retry, task[worker[v].task].retry}
      OBVIOUS
    <2>2. \A v \in Worker : Working(v)' =>
            /\ worker'[v].task \in Stages
            /\ worker'[v].att \in DOMAIN attempts[worker'[v].task]
            /\ attempts[worker'[v].task][worker'[v].att] = "running"
            /\ worker'[v].retry = task[worker'[v].task].retry
      BY <1>2, <2>1 DEF Waiting, Alone, Executing
    <2>3. \A u, v \in Worker : Working(u)' /\ Working(v)' => u = v
      BY <1>2 DEF Waiting, Alone, Executing
    <2> QED BY <2>2, <2>3 DEF Executing
  <1>4. Expiring'
    BY <1>2 DEF Waiting, Expiring
  <1> QED BY <1>1, <1>3, <1>4 DEF Waiting, Alone

\* Worker w goes on with its attempt.
LEMMA WaitContinues ==
    ASSUME Waiting, NEW w \in Worker, Continues(w), UNCHANGED <<doc, task, attempts, lease, scan>>,
           Writes(w)' => Writes(w)
    PROVE  Waiting'
  BY WaitMoves DEF Continues

\* Worker w gives up.
LEMMA WaitReturns ==
    ASSUME Inv, Waiting, NEW w \in Worker, Return(w), UNCHANGED <<doc, task, attempts, lease, scan>>
    PROVE  Waiting'
  <1>1. worker'[w] = Idle /\ \A v \in Worker \ {w} : worker'[v] = worker[v]
    BY DEF Return, Inv, WorkersOK
  <1>2. Idle.pc = "idle" /\ Idle.task = NoTask /\ ~Working(w)' /\ ~Writes(w)'
    BY <1>1 DEF Working, Writes, Idle
  <1> QED BY <1>1, <1>2, WaitMoves, TaskNames

\* Nobody moves.
LEMMA WaitStays ==
    ASSUME Waiting, UNCHANGED <<doc, task, attempts, worker>>,
           UNCHANGED <<lease, scan>> \/ Expiring'
    PROVE  Waiting'
  <1>1. OneStage' /\ Untouched' /\ LastOpen' /\ doc'.status = "deleting"
    BY DEF Waiting, Alone, OneStage, Untouched, LastOpen, Active
  <1>2. Executing'
    BY DEF Waiting, Alone, Executing, Working
  <1>3. Expiring'
    BY DEF Waiting, Expiring, Writes
  <1> QED BY <1>1, <1>2, <1>3 DEF Waiting, Alone

\* A queued stage begins; the cleanup does not.
LEMMA WaitBegins ==
    ASSUME Inv, Waiting, NEW w \in Worker, NEW t \in TaskId, BeginAttempt(w, t),
           t = Parse => worker[w].task = Parse,
           UNCHANGED <<doc, lease, scan>>
    PROVE  Waiting'
  <1>1. /\ task \in [TaskId -> TaskRow] /\ attempts \in [TaskId -> Seq(AttemptStatus)]
        /\ worker \in [Worker -> Process] /\ worker[w] \in Process
    BY DEF Inv, TasksOK, WorkersOK
  <1>2. task[t].status = "queued" /\ ~Open(t)
    BY DEF BeginAttempt, Runnable
  <1>3. t \in Stages
    BY <1>2 DEF TaskId, Waiting, Alone, Untouched
  <1>4. /\ task'[t].status = "running" /\ task'[t].retry = task[t].retry
        /\ \A x \in TaskId \ {t} : task'[x] = task[x]
    BY <1>1 DEF BeginAttempt, TaskRow
  <1>5. /\ attempts'[t] = Append(attempts[t], "running")
        /\ \A x \in TaskId \ {t} : attempts'[x] = attempts[x]
    BY <1>1 DEF BeginAttempt
  <1>6. /\ Len(attempts'[t]) = Len(attempts[t]) + 1
        /\ attempts'[t][Len(attempts[t]) + 1] = "running"
        /\ \A n \in DOMAIN attempts[t] : attempts'[t][n] = attempts[t][n]
        /\ DOMAIN attempts'[t] = DOMAIN attempts[t] \cup {Len(attempts[t]) + 1}
    BY <1>1, <1>5
  <1>7. /\ worker'[w].pc = "work" /\ worker'[w].task = t
        /\ worker'[w].att = Len(attempts[t]) + 1 /\ worker'[w].retry = task[t].retry
        /\ \A v \in Worker \ {w} : worker'[v] = worker[v]
    BY <1>1 DEF BeginAttempt, Process
  <1>8. \A v \in Worker : ~Working(v)
    <2> SUFFICES ASSUME NEW v \in Worker, Working(v) PROVE FALSE
      OBVIOUS
    <2>1. /\ worker[v].task \in Stages /\ task[worker[v].task].status = "running"
          /\ \A x \in Stages \ {worker[v].task} : ~Active(x)
      BY AloneAtWork DEF Waiting
    <2> QED BY <1>2, <1>3, <2>1 DEF Active
  <1>9. OneStage'
    <2>1. \A x \in Stages : Active(x)' => Active(x)
      BY <1>2, <1>4, StagesApart DEF Active
    <2> QED BY <2>1 DEF Waiting, Alone, OneStage
  <1>10. Untouched'
    <2>1. \A x \in Cleanups : x # t /\ x \in TaskId
      BY <1>3, StagesApart
    <2> QED BY <1>4, <1>5, <2>1 DEF Waiting, Alone, Untouched
  <1>11. LastOpen'
    <2> SUFFICES ASSUME NEW x \in TaskId, NEW n \in DOMAIN attempts'[x],
                        attempts'[x][n] = "running"
                 PROVE  n = Len(attempts'[x]) /\ task'[x].status = "running"
      BY DEF LastOpen
    <2>1. CASE x = t
      BY <1>2, <1>4, <1>6, <2>1 DEF Open
    <2>2. CASE x # t
      BY <1>4, <1>5, <2>2 DEF Waiting, Alone, LastOpen
    <2> QED BY <2>1, <2>2
  <1>12. Executing'
    <2>1. \A v \in Worker : Working(v)' => v = w
      BY <1>7, <1>8 DEF Working
    <2>2. worker'[w].att \in DOMAIN attempts'[t]
      BY <1>6, <1>7
    <2> QED BY <1>3, <1>4, <1>6, <1>7, <2>1, <2>2 DEF Executing
  <1>13. Expiring'
    <2>1. \A v \in Worker : /\ worker'[v].task = Parse => worker[v].task = Parse
                            /\ Writes(v)' => Writes(v)
      BY <1>7 DEF Writes
    <2> QED BY <2>1 DEF Waiting, Expiring
  <1> QED BY <1>9, <1>10, <1>11, <1>12, <1>13 DEF Waiting, Alone

\* One stage at most is left to do, and no cleanup was touched.
StageLeft ==
    /\ \A x \in Cleanups : task'[x] = task[x]
    /\ \E n \in Stages : \A x \in Stages \ {n} : ~Active(x)'

\* A worker closes its attempt and returns, and the lease stays.
LEMMA WaitEnds ==
    ASSUME Inv, Waiting, NEW w \in Worker, Working(w),
           NEW s \in AttemptStatus \ {"running"}, Closes(w, s), Return(w),
           doc'.status = "deleting", StageLeft,
           lease'.id = lease.id, lease'.expired = lease.expired, scan' = scan
    PROVE  Waiting'
  <1> DEFINE t == worker[w].task
  <1>1. /\ t \in Stages /\ \A v \in Worker \ {w} : ~Working(v)
    BY AloneAtWork DEF Waiting
  <1>2. LastClosed(t)
    BY AloneCloses DEF Waiting
  <1>3. worker'[w] = Idle /\ \A v \in Worker \ {w} : worker'[v] = worker[v]
    BY DEF Return, Inv, WorkersOK
  <1>4. \A v \in Worker : ~Working(v)'
    BY <1>1, <1>3 DEF Working, Idle
  <1>5. OneStage'
    BY DEF StageLeft, OneStage
  <1>6. Untouched'
    <2>1. \A x \in Cleanups : x # t /\ x \in TaskId
      BY <1>1, StagesApart
    <2> QED BY <1>2, <2>1 DEF Waiting, Alone, Untouched, StageLeft, LastClosed
  <1>7. LastOpen' /\ Executing'
    BY <1>2, <1>4 DEF LastOpen, Executing, LastClosed
  <1>8. Expiring'
    <2>1. \A v \in Worker : /\ worker'[v].task = Parse => worker[v].task = Parse
                            /\ ~Writes(v)'
      BY <1>3, <1>4, TaskNames DEF Idle, Writes, Working
    <2> QED BY <2>1 DEF Waiting, Expiring
  <1> QED BY <1>5, <1>6, <1>7, <1>8 DEF Waiting, Alone

\* A failure frees the slot: nobody is left to write.
LEMMA WaitFails ==
    ASSUME Inv, Waiting, NEW w \in Worker, Working(w), NEW loaded \in Doc, NEW code \in ErrorCode,
           loaded = doc \/ loaded.status # "failed",
           FailFor(w, loaded, code), scan' = scan
    PROVE  Closed' /\ ~lease'.open
  <1> DEFINE t == worker[w].task
  <1>1. /\ t \in Stages /\ t \in TaskId
        /\ \A v \in Worker \ {w} : ~Working(v)
        /\ \A x \in Stages \ {t} : ~Active(x)
    BY AloneAtWork DEF Waiting
  <1>2. LastClosed(t)
    <2>1. Closes(w, "failed")
      BY Zenon DEF FailFor, Closes
    <2> QED BY <2>1, AloneCloses DEF Waiting, AttemptStatus
  <1>3. worker'[w] = Idle /\ \A v \in Worker \ {w} : worker'[v] = worker[v]
    BY DEF FailFor, Return, Inv, WorkersOK
  <1>4. \A v \in Worker : ~Working(v)'
    BY <1>1, <1>3 DEF Working, Idle
  <1>5. \A v \in Worker : Calm(v)'
    BY <1>4 DEF Calm, Working, Writes, At
  <1>6. task' = [task EXCEPT ![t].status = "failed"]
    BY Zenon DEF FailFor
  <1>7. task'[Parse].status # "queued"
    <2>1. task \in [TaskId -> TaskRow]
      BY DEF Inv, TasksOK
    <2>2. task'[t].status = "failed" /\ \A x \in TaskId \ {t} : task'[x] = task[x]
      BY <1>1, <1>6, <2>1 DEF TaskRow
    <2> QED BY <1>1, <2>2, TaskNames DEF Active
  <1>8. ~Open(Parse)'
    BY <1>2, TaskNames DEF Open, LastClosed
  <1>9. (\E v \in Worker : worker'[v].pc = "begin") => ParseOver'
    <2> SUFFICES ASSUME NEW v \in Worker, worker'[v].pc = "begin"
                 PROVE  ParseOver'
      OBVIOUS
    <2>1. worker[v].pc = "begin" /\ v # w
      BY <1>3 DEF Idle
    <2>2. worker[v].task = Parse
      BY <2>1 DEF Inv, WorkersOK, ProcessOK
    <2>3. scan.orphans = {} /\ scan.lease.id = 0
      BY <2>2 DEF Waiting, Expiring
    <2> QED BY <1>7, <1>8, <2>3 DEF ParseOver
  <1>10. doc'.status = "failed"
    <2> DEFINE new == [loaded EXCEPT !.status = "failed", !.error = code]
    <2>1. new \in Doc /\ new.status = "failed"
      BY DEF Doc, DocStatus
    <2>2. doc' = Flush(doc, loaded, new) /\ doc \in Doc
      BY Zenon DEF FailFor, Inv, DocOK
    <2> HIDE DEF new
    <2>3. doc'.status = IF new.status # loaded.status THEN new.status ELSE doc.status
      BY <2>1, <2>2, FlushDoc
    <2> QED BY <2>1, <2>3
  <1>11. ~lease'.open
    BY DEF FailFor, Released, Inv, LeaseOK, LeaseRow
  <1> QED BY <1>5, <1>9, <1>10, <1>11 DEF Closed

\* What becomes of a deletion that waits.
Waited ==
    /\ lease'.open => Waiting'
    /\ ~lease'.open => Closed'

\* A retry makes its stage the one that is left.
LEMMA WaitRetries ==
    ASSUME Inv, Waiting, NEW w \in Worker, Working(w), NEW loaded \in Doc,
           NEW retry, Retry(w, loaded, retry), scan' = scan
    PROVE  Waiting'
  <1> DEFINE t == worker[w].task
  <1>1. t \in Stages /\ t \in TaskId /\ \A x \in Stages \ {t} : ~Active(x)
    BY AloneAtWork DEF Waiting
  <1>2. Closes(w, "failed") /\ Return(w) /\ lease' = lease
    BY Zenon DEF Retry, Closes
  <1>3. task' = [task EXCEPT ![t] = Requeued(retry)]
    BY Zenon DEF Retry
  <1>4. \A x \in TaskId \ {t} : task'[x] = task[x]
    BY <1>3 DEF Inv, TasksOK
  <1>5. StageLeft
    BY <1>1, <1>4, StagesApart DEF StageLeft, Active
  <1>6. doc'.status = "deleting"
    <2> DEFINE new == [loaded EXCEPT !.error = 0]
    <2>1. new \in Doc /\ new.status = loaded.status /\ new.cycle = loaded.cycle
      BY DEF Doc, ErrorCode
    <2>2. doc' = Flush(doc, loaded, new)
      BY Zenon DEF Retry
    <2> HIDE DEF new
    <2>3. doc'.status = doc.status
      BY <2>1, <2>2, FlushKeepsDeletion
    <2> QED BY <2>3 DEF Waiting
  <1> QED BY <1>2, <1>5, <1>6, WaitEnds DEF AttemptStatus

LEMMA WaitFailStage ==
    ASSUME Inv, Waiting, lease.open, NEW w \in Worker, Working(w),
           NEW retry, NEW code \in ErrorCode,
           FailStage(w, doc, retry, code), scan' = scan
    PROVE  Waited
  <1>1. doc \in Doc /\ 20014 \in ErrorCode
    BY DEF Inv, DocOK, ErrorCode
  <1>2. CASE FailFor(w, doc, code)
    BY <1>1, <1>2, WaitFails DEF Waited
  <1>3. CASE FailFor(w, doc, 20014)
    BY <1>1, <1>3, WaitFails DEF Waited
  <1>4. CASE Retry(w, doc, retry)
    <2>1. lease' = lease
      BY <1>4, Zenon DEF Retry
    <2> QED BY <1>1, <1>4, <2>1, WaitRetries DEF Waited
  <1> QED BY <1>2, <1>3, <1>4 DEF FailStage

\* A stage that succeeds leaves the next one.
LEMMA WaitAdvances ==
    ASSUME Inv, Waiting, NEW w \in Worker, Working(w), NEW loaded \in Doc,
           worker[w].task \in {Parse, ChunkStage, Embed},
           Advance(w, loaded), scan' = scan
    PROVE  Waiting' /\ lease'.open
  <1> DEFINE t == worker[w].task
             n == NextStage(t)
  <1>1. t \in Stages /\ t \in TaskId /\ \A x \in Stages \ {t} : ~Active(x)
    BY AloneAtWork DEF Waiting
  <1>2. n \in Stages /\ n \in TaskId /\ n # t /\ n[1] \in DocType
    BY TaskNames, TaskTypes
  <1>3. Closes(w, "succeeded") /\ Return(w) /\ lease.open
    BY Zenon DEF Advance, Closes, CanAdvance
  <1>4. lease' = [lease EXCEPT !.task = n]
    BY Zenon DEF Advance
  <1>5. lease'.id = lease.id /\ lease'.expired = lease.expired /\ lease'.open
    BY <1>3, <1>4 DEF Inv, LeaseOK, LeaseRow
  <1>6. task' = [task EXCEPT
                      ![t].status = "succeeded",
                      ![n] = IF @.status = "absent"
                             THEN [status |-> "queued", retry |-> 0] ELSE @]
    BY Zenon DEF Advance
  <1>7. StageLeft
    <2>1. task \in [TaskId -> TaskRow]
      BY DEF Inv, TasksOK
    <2>2. /\ task'[t].status = "succeeded"
          /\ \A x \in TaskId \ {t, n} : task'[x] = task[x]
      BY <1>1, <1>2, <1>6, <2>1 DEF TaskRow
    <2> QED BY <1>1, <1>2, <2>2, StagesApart DEF StageLeft, Active
  <1>8. doc'.status = "deleting"
    <2> DEFINE new == [loaded EXCEPT !.type = n[1]]
    <2>1. new \in Doc /\ new.status = loaded.status /\ new.cycle = loaded.cycle
      BY <1>2 DEF Doc
    <2>2. doc' = Flush(doc, loaded, new)
      BY Zenon DEF Advance
    <2> HIDE DEF new
    <2>3. doc'.status = doc.status
      BY <2>1, <2>2, FlushKeepsDeletion
    <2> QED BY <2>3 DEF Waiting
  <1> QED BY <1>3, <1>5, <1>7, <1>8, WaitEnds DEF AttemptStatus

(***************************************************************************)
(* The steps of the workers meanwhile                                      *)
(***************************************************************************)
\* A worker goes on, and its step touches no row but a checkpoint.
LEMMA WaitGoesOn ==
    ASSUME Inv, Waiting, lease.open, NEW w \in Worker, Working(w),
           UNCHANGED <<dbVars, scan>>,
           \/ \E pc \in Pc \ {"begin"} : /\ Goto(w, pc)
                                         /\ pc \in {"call", "save"} =>
                                              worker[w].task # Embed \/ Writes(w)
           \/ \E code \in ErrorCode : ToFail(w, code)
           \/ ToCancel(w)
    PROVE  Waited
  <1>1. Continues(w) /\ \A pc : Goto(w, pc) => worker'[w].pc = pc
    BY MovesContinue
  <1>2. ToCancel(w) \/ (\E code \in ErrorCode : ToFail(w, code))
        => worker'[w].pc \in {"cancel", "fail"}
    <2>1. worker[w] \in Process /\ worker \in [Worker -> Process]
      BY DEF Inv, WorkersOK
    <2>2. ToCancel(w) => worker'[w].pc = "cancel"
      BY <2>1 DEF ToCancel, Process
    <2>3. ASSUME NEW code \in ErrorCode, ToFail(w, code)
          PROVE  worker'[w].pc = "fail"
      BY <2>1, <2>3 DEF ToFail, Process
    <2> QED BY <2>2, <2>3
  <1>3. Writes(w)' => Writes(w)
    BY <1>1, <1>2 DEF Continues, Writes
  <1>4. UNCHANGED <<doc, task, attempts, lease>>
    BY DEF dbVars
  <1> QED BY <1>1, <1>3, <1>4, WaitContinues DEF Waited

\* Towards an attempt.
LEMMA WaitParseStarts ==
    ASSUME Inv, Waiting, lease.open, NEW w \in Worker,
           \/ ParseDeliver(w) \/ ParseFindOpen(w) \/ ParseAcquire(w) \/ ParseDenied(w)
           \/ ParseBegin(w)
    PROVE  Waited
  <1>1. CASE ParseDeliver(w)
    <2>1. UNCHANGED <<dbVars, worker, scan>>
      BY <1>1 DEF ParseDeliver, Waiting
    <2> QED BY <2>1, WaitStays DEF Waited, dbVars
  <1>2. CASE ParseFindOpen(w)
    <2>1. /\ worker'[w].pc = "begin" /\ worker'[w].task = worker[w].task
          /\ \A v \in Worker \ {w} : worker'[v] = worker[v]
      BY <1>2 DEF ParseFindOpen, Goto, Inv, WorkersOK, Process
    <2>2. ~Working(w)' /\ ~Writes(w)'
      BY <2>1 DEF Working, Writes
    <2>3. UNCHANGED <<doc, task, attempts, lease, scan>>
      BY <1>2 DEF ParseFindOpen, dbVars
    <2> QED BY <2>1, <2>2, <2>3, WaitMoves DEF Waited
  <1>3. CASE ParseAcquire(w)
    BY <1>3 DEF ParseAcquire
  <1>4. CASE ParseDenied(w)
    BY <1>4, WaitReturns DEF ParseDenied, Waited, dbVars
  <1>5. CASE ParseBegin(w)
    <2>1. worker[w].task = Parse
      BY <1>5 DEF ParseBegin, Inv, WorkersOK, ProcessOK
    <2>2. UNCHANGED <<doc, lease, scan>>
      BY <1>5 DEF ParseBegin
    <2>3. CASE BeginAttempt(w, Parse)
      BY <2>1, <2>2, <2>3, WaitBegins, TaskNames DEF Waited
    <2>4. CASE Return(w) /\ UNCHANGED <<task, attempts>>
      BY <2>2, <2>4, WaitReturns DEF Waited
    <2> QED BY <1>5, <2>3, <2>4 DEF ParseBegin, Parse
  <1> QED BY <1>1, <1>2, <1>3, <1>4, <1>5

\* parse.
LEMMA WaitParse ==
    ASSUME Inv, Waiting, lease.open, NEW w \in Worker,
           \/ ParseRejected(w) \/ ParseBreaks(w) \/ ParseStore(w) \/ ParseStoreFails(w)
           \/ ParseSave(w) \/ ParseFenced(w) \/ ParseSaveFails(w)
    PROVE  Waited
  <1>1. /\ worker[w].task = Parse /\ Working(w)
        /\ worker[w].pc \in {"work", "save"}
    BY TaskTypes
    DEF ParseRejected, ParseBreaks, ParseStore, ParseStoreFails, ParseSave, ParseFenced,
        ParseSaveFails, At, Working, Inv, WorkersOK, Process
  <1>2. worker[w].seen \in Doc /\ worker[w].seen.status # "failed"
    BY <1>1, ParseHasDocument
  <1>3. CASE ParseRejected(w)
    <2>1. FailFor(w, worker[w].seen, 20001) /\ scan' = scan /\ 20001 \in ErrorCode
      BY <1>3 DEF ParseRejected, ErrorCode
    <2> QED BY <1>1, <1>2, <2>1, WaitFails DEF Waited
  <1>4. CASE ParseSave(w)
    <2>1. Advance(w, worker[w].seen) /\ scan' = scan
      BY <1>4 DEF ParseSave
    <2> QED BY <1>1, <1>2, <2>1, WaitAdvances DEF Waited
  <1>5. CASE \/ ParseBreaks(w) \/ ParseStore(w) \/ ParseStoreFails(w)
             \/ ParseFenced(w) \/ ParseSaveFails(w)
    <2>1. UNCHANGED <<dbVars, scan>>
      BY <1>5 DEF ParseBreaks, ParseStore, ParseStoreFails, ParseFenced, ParseSaveFails
    <2>2. \/ Goto(w, "save")
          \/ ToFail(w, 0) \/ ToFail(w, 20011) \/ ToCancel(w)
      BY <1>5 DEF ParseBreaks, ParseStore, ParseStoreFails, ParseFenced, ParseSaveFails
    <2>3. "save" \in Pc \ {"begin"} /\ 0 \in ErrorCode /\ 20011 \in ErrorCode
      BY DEF Pc, ErrorCode
    <2>4. worker[w].task # Embed
      BY <1>1, TaskNames
    <2> QED BY <1>1, <2>1, <2>2, <2>3, <2>4, WaitGoesOn
  <1> QED BY <1>3, <1>4, <1>5

\* chunk, embed and finalize: what is fenced gives up, the rest goes on.
LEMMA WaitStages ==
    ASSUME Inv, Waiting, lease.open, NEW w \in Worker,
           \/ ChunkLoad(w) \/ ChunkSave(w) \/ ChunkFenced(w)
           \/ EmbedLoad(w) \/ EmbedNoDrafts(w) \/ EmbedHeartbeat(w) \/ EmbedCall(w)
           \/ EmbedSave(w) \/ EmbedComplete(w) \/ EmbedAborted(w)
           \/ FinalizePublish(w) \/ FinalizeMismatch(w) \/ FinalizeFenced(w)
           \/ StageBreaks(w)
    PROVE  Waited
  <1>1. Working(w) /\ doc.status \in Hidden
    BY DEF Working, At, Waiting, Hidden, ChunkLoad, ChunkSave, ChunkFenced, EmbedLoad,
           EmbedNoDrafts, EmbedHeartbeat, EmbedCall, EmbedSave, EmbedComplete, EmbedAborted,
           FinalizePublish, FinalizeMismatch, FinalizeFenced, StageBreaks
  <1>2. {"save", "beat"} \subseteq Pc \ {"begin"} /\ 0 \in ErrorCode /\ 20012 \in ErrorCode
    BY DEF Pc, ErrorCode
  <1>3. CASE ChunkLoad(w)
    <2>1. UNCHANGED <<dbVars, scan>>
      BY <1>3 DEF ChunkLoad
    <2>2. Goto(w, "save") \/ ToFail(w, 0) \/ ToCancel(w)
      BY <1>3 DEF ChunkLoad
    <2>3. worker[w].task # Embed
      BY <1>3, AtStage, TaskNames DEF ChunkLoad
    <2> QED BY <1>1, <1>2, <2>1, <2>2, <2>3, WaitGoesOn
  <1>4. CASE EmbedLoad(w) \/ EmbedCall(w)
    <2>1. UNCHANGED <<dbVars, scan>>
      BY <1>4 DEF EmbedLoad, EmbedCall
    <2>2. Goto(w, "beat") \/ (Goto(w, "save") /\ Writes(w)) \/ ToFail(w, 20012)
      BY <1>4, AtStage DEF EmbedLoad, EmbedCall, Writes, At
    <2> QED BY <1>1, <1>2, <2>1, <2>2, WaitGoesOn
  <1>5. CASE \/ ChunkFenced(w) \/ EmbedHeartbeat(w) \/ EmbedSave(w) \/ FinalizeFenced(w)
             \/ StageBreaks(w)
    <2>1. UNCHANGED <<dbVars, scan>> /\ (ToCancel(w) \/ ToFail(w, 0))
      BY <1>1, <1>5
      DEF ChunkFenced, EmbedHeartbeat, EmbedSave, FinalizeFenced, StageBreaks, dbVars
    <2> QED BY <1>1, <1>2, <2>1, WaitGoesOn
  <1>6. CASE EmbedNoDrafts(w)
    <2>1. FailStage(w, doc, worker[w].retry, 0) /\ scan' = scan
      BY <1>6 DEF EmbedNoDrafts
    <2> QED BY <1>1, <1>2, <2>1, WaitFailStage
  <1>7. CASE EmbedAborted(w)
    BY <1>7, WaitReturns DEF EmbedAborted, Waited, dbVars
  <1>8. CASE ChunkSave(w) \/ EmbedComplete(w) \/ FinalizePublish(w) \/ FinalizeMismatch(w)
    BY <1>1, <1>8 DEF ChunkSave, EmbedComplete, FinalizePublish, FinalizeMismatch
  <1> QED BY <1>3, <1>4, <1>5, <1>6, <1>7, <1>8

\* Errors and deaths.
LEMMA WaitErrors ==
    ASSUME Inv, Waiting, lease.open, NEW w \in Worker,
           \/ Reload(w) \/ FailAfterRollback(w) \/ ConvergeCancelled(w)
           \/ HandlerDies(w) \/ Crash(w) \/ \E t \in TaskId : Deliver(w, t)
    PROVE  Waited
  <1>1. worker[w] \in Process /\ worker \in [Worker -> Process]
    BY DEF Inv, WorkersOK
  <1>2. CASE HandlerDies(w) \/ Crash(w)
    BY <1>2, WaitReturns DEF HandlerDies, Crash, Waited, dbVars
  <1>3. CASE Reload(w)
    <2>1. Working(w) /\ UNCHANGED <<doc, task, attempts, lease, scan>>
      BY <1>3 DEF Reload, Working, dbVars
    <2>2. CASE Return(w)
      BY <2>1, <2>2, WaitReturns DEF Waited
    <2>3. CASE worker' = [worker EXCEPT ![w].pc = IF @ = "fail" THEN "failing" ELSE "cancelling",
                                        ![w].retry = task[worker[w].task].retry]
      <3>1. Continues(w) /\ ~Writes(w)'
        BY <1>1, <2>1, <2>3 DEF Continues, Writes, Process
      <3> QED BY <2>1, <3>1, WaitContinues DEF Waited
    <2> QED BY <1>3, <2>2, <2>3 DEF Reload
  <1>4. CASE FailAfterRollback(w)
    <2>1. /\ FailStage(w, doc, task[worker[w].task].retry, worker[w].code)
          /\ scan' = scan /\ Working(w) /\ worker[w].code \in ErrorCode
      BY <1>1, <1>4 DEF FailAfterRollback, Working, Process
    <2> QED BY <2>1, WaitFailStage
  <1>5. CASE ConvergeCancelled(w)
    <2> DEFINE t == worker[w].task
    <2>1. Working(w)
      BY <1>5 DEF ConvergeCancelled, Working
    <2>2. t \in Stages /\ t \in TaskId /\ \A x \in Stages \ {t} : ~Active(x)
      BY <2>1, AloneAtWork DEF Waiting
    <2>3. Closes(w, "cancelled") /\ Return(w)
      BY <1>5, Zenon DEF ConvergeCancelled, Closes
    <2>4. task' = [task EXCEPT ![t].status = IF @ = "running" THEN "cancelled" ELSE @]
      BY <1>5, Zenon DEF ConvergeCancelled
    <2>5. \A x \in TaskId \ {t} : task'[x] = task[x]
      BY <2>4 DEF Inv, TasksOK
    <2>6. StageLeft
      BY <2>2, <2>5, StagesApart DEF StageLeft, Active
    <2>7. doc' = doc /\ lease' = lease /\ scan' = scan
      BY <1>5, Zenon DEF ConvergeCancelled
    <2>8. doc'.status = "deleting" /\ lease'.id = lease.id /\ lease'.expired = lease.expired
      BY <2>7 DEF Waiting
    <2>9. Waiting'
      BY <2>1, <2>3, <2>6, <2>7, <2>8, WaitEnds DEF AttemptStatus
    <2> QED BY <2>7, <2>9 DEF Waited
  <1>6. ASSUME NEW t \in TaskId, Deliver(w, t)
        PROVE  Waited
    <2>1. t # Parse /\ UNCHANGED <<doc, lease, scan>>
      BY <1>6 DEF Deliver, Parse
    <2>2. CASE BeginAttempt(w, t)
      BY <2>1, <2>2, WaitBegins DEF Waited
    <2>3. CASE UNCHANGED <<task, attempts, worker>>
      BY <2>1, <2>3, WaitStays DEF Waited
    <2> QED BY <1>6, <2>2, <2>3 DEF Deliver
  <1> QED BY <1>2, <1>3, <1>4, <1>5, <1>6

\* No cleanup has begun.
LEMMA WaitNoCleanup ==
    ASSUME Inv, Waiting, NEW w \in Worker,
           \/ CleanupLoad(w) \/ CleanupPurge(w) \/ CleanupCommit(w)
           \/ CleanupBreaks(w) \/ CleanupFails(w)
    PROVE  FALSE
  <1>1. worker[w].task \in Cleanups /\ Working(w)
    BY CleanupAt DEF Working
  <1>2. worker[w].task \in Stages
    BY <1>1, AloneAtWork DEF Waiting
  <1> QED BY <1>1, <1>2, StagesApart

(***************************************************************************)
(* The scanner meanwhile                                                   *)
(***************************************************************************)
\* The recovery of the lease: nobody writes under it any more.
LEMMA WaitRecovery ==
    ASSUME Inv, Waiting, lease.open, RecoverLease
    PROVE  Waited
  <1>1. scan.lease.id = lease.id /\ \A v \in Worker : worker[v].task # Parse /\ ~Writes(v)
    BY DEF RecoverLease, Waiting, Expiring
  <1>2. CleanupQueueable
    <2>1. doc.cycle \in 1..MaxDeletes
      BY Bounds DEF Waiting, Inv, DocOK, Doc
    <2>2. task[Cleanup(doc.cycle)].status \in {"absent", "pending"}
      BY <2>1, CleanupNames DEF Waiting, Alone, Untouched
    <2> QED BY <2>2 DEF CleanupQueueable
  <1>3. /\ doc' = [doc EXCEPT !.type = "delete_cleanup"]
        /\ lease' = IF lease.id = scan.lease.id THEN Released(lease) ELSE lease
        /\ worker' = worker
    BY <1>2, Zenon DEF RecoverLease, Waiting
  <1>4. ~lease'.open
    BY <1>1, <1>3 DEF Released, Inv, LeaseOK, LeaseRow
  <1>5. doc'.status = "deleting"
    BY <1>3 DEF Waiting, Inv, DocOK, Doc
  <1>6. \A v \in Worker : Calm(v)'
    <2> SUFFICES ASSUME NEW v \in Worker PROVE Calm(v)'
      OBVIOUS
    <2>1. ~At(v, "delete_cleanup", "commit")
      <3>1. At(v, "delete_cleanup", "commit") => Working(v) /\ worker[v].task \in Cleanups
        BY AtStage DEF At, Working
      <3>2. Working(v) => worker[v].task \in Stages
        BY AloneAtWork DEF Waiting
      <3> QED BY <3>1, <3>2, StagesApart
    <2>2. worker'[v].task # Parse /\ ~Writes(v)' /\ ~At(v, "delete_cleanup", "commit")'
      BY <1>1, <1>3, <2>1 DEF Writes, At
    <2> QED BY <2>2 DEF Calm
  <1>7. \A v \in Worker : worker'[v].pc # "begin"
    BY <1>1, <1>3 DEF Inv, WorkersOK, ProcessOK
  <1>8. Closed'
    BY <1>5, <1>6, <1>7 DEF Closed
  <1> QED BY <1>4, <1>8 DEF Waited

\* Everybody else.
LEMMA WaitOthers ==
    ASSUME Prompt, Inv, Waiting, lease.open,
           \/ \E w \in Worker : Redeliver(w)
           \/ \E t \in TaskId : Lose(t) \/ Redispatch(t)
           \/ Delete \/ Expire \/ ScanExpired \/ RefreshScan \/ RecoverLease
           \/ ScanOrphans \/ \E a \in scan.orphans : RecoverOrphan(a)
           \/ UNCHANGED vars
    PROVE  Waited
  <1>1. CASE \/ \E w \in Worker : Redeliver(w)
             \/ \E t \in TaskId : Lose(t) \/ Redispatch(t)
             \/ UNCHANGED vars
    <2>1. UNCHANGED <<doc, task, attempts, lease, worker, scan>>
      BY <1>1 DEF Redeliver, Lose, Redispatch, vars, dbVars
    <2> QED BY <2>1, WaitStays DEF Waited
  <1>2. ~Delete /\ ~ScanOrphans /\ ~\E a \in scan.orphans : RecoverOrphan(a)
    BY DEF Delete, ScanOrphans, Waiting, Expiring, Hidden
  <1>3. CASE Expire
    <2>1. \A w \in Worker : worker[w].task # Parse /\ ~Writes(w)
      BY <1>3, TaskNames DEF Expire, Writes
    <2>2. UNCHANGED <<doc, task, attempts, worker, scan>> /\ lease' = [lease EXCEPT !.expired = TRUE]
      BY <1>3 DEF Expire
    <2>3. lease'.id = lease.id /\ lease'.open
      BY <2>2 DEF Inv, LeaseOK, LeaseRow
    <2>4. \A w \in Worker : worker'[w].task # Parse /\ ~Writes(w)'
      BY <2>1, <2>2 DEF Writes
    <2>5. Expiring'
      BY <2>2, <2>3, <2>4 DEF Waiting, Expiring
    <2> QED BY <2>2, <2>3, <2>5, WaitStays DEF Waited
  <1>4. CASE ScanExpired \/ RefreshScan
    <2>1. UNCHANGED <<doc, task, attempts, worker, lease>>
      BY <1>4 DEF ScanExpired, RefreshScan, dbVars
    <2>2. \A w \in Worker : worker[w].task # Parse /\ ~Writes(w)
      BY <1>4 DEF ScanExpired, RefreshScan, Waiting, Expiring
    <2>3. scan' = [scan EXCEPT !.lease = [id |-> lease.id, task |-> lease.task]]
      BY <1>4 DEF ScanExpired, RefreshScan, Waiting, Expiring
    <2>4. scan'.orphans = {} /\ scan'.lease.id = lease.id
      BY <2>3 DEF Inv, ScanOK, Listing, Waiting, Expiring
    <2>5. \A w \in Worker : worker'[w].task # Parse /\ ~Writes(w)'
      BY <2>1, <2>2 DEF Writes
    <2>6. Expiring'
      BY <2>1, <2>4, <2>5 DEF Expiring
    <2> QED BY <2>1, <2>6, WaitStays DEF Waited
  <1> QED BY <1>1, <1>2, <1>3, <1>4, WaitRecovery

\* Every step leaves a deletion that waits waiting, or nobody who writes.
LEMMA WaitStep ==
    ASSUME Prompt, Inv, Waiting, lease.open, [Next]_vars
    PROVE  Waited
  <1>1. ASSUME NEW w \in Worker, ParseDeliver(w) \/ WorkerStep(w) \/ Crash(w)
        PROVE  Waited
    <2>1. CASE \/ ParseDeliver(w) \/ ParseFindOpen(w) \/ ParseAcquire(w)
               \/ ParseDenied(w) \/ ParseBegin(w)
      BY <2>1, WaitParseStarts
    <2>2. CASE \/ ParseRejected(w) \/ ParseBreaks(w) \/ ParseStore(w)
               \/ ParseStoreFails(w) \/ ParseSave(w) \/ ParseFenced(w)
               \/ ParseSaveFails(w)
      BY <2>2, WaitParse
    <2>3. CASE \/ ChunkLoad(w) \/ ChunkSave(w) \/ ChunkFenced(w)
               \/ EmbedLoad(w) \/ EmbedNoDrafts(w) \/ EmbedHeartbeat(w) \/ EmbedCall(w)
               \/ EmbedSave(w) \/ EmbedComplete(w) \/ EmbedAborted(w)
               \/ FinalizePublish(w) \/ FinalizeMismatch(w) \/ FinalizeFenced(w)
               \/ StageBreaks(w)
      BY <2>3, WaitStages
    <2>4. CASE \/ Reload(w) \/ FailAfterRollback(w) \/ ConvergeCancelled(w)
               \/ HandlerDies(w) \/ Crash(w)
      BY <2>4, WaitErrors
    <2>5. CASE \/ CleanupLoad(w) \/ CleanupPurge(w) \/ CleanupCommit(w)
               \/ CleanupBreaks(w) \/ CleanupFails(w)
      BY <2>5, WaitNoCleanup
    <2> QED BY <1>1, <2>1, <2>2, <2>3, <2>4, <2>5 DEF WorkerStep
  <1>2. ASSUME NEW w \in Worker, NEW t \in TaskId, Deliver(w, t)
        PROVE  Waited
    BY <1>2, WaitErrors
  <1>3. CASE \/ \E w \in Worker : Redeliver(w)
             \/ \E t \in TaskId : Lose(t) \/ Redispatch(t)
             \/ Delete \/ Expire \/ ScanExpired \/ RefreshScan \/ RecoverLease
             \/ ScanOrphans \/ \E a \in scan.orphans : RecoverOrphan(a)
             \/ UNCHANGED vars
    BY <1>3, WaitOthers
  <1> QED BY <1>1, <1>2, <1>3 DEF Next

(***************************************************************************)
(* Once the lease is closed                                                *)
(***************************************************************************)
\* Rows and files only go, parse stays over, and whoever writes the tombstone
\* leaves nothing.
Emptying ==
    /\ rows' \subseteq rows /\ objects' \subseteq objects
    /\ ParseOver => ParseOver'
    /\ doc'.status = "deleted" => doc.status = "deleted" \/ Clean'

\* Worker w does not write, nor begin a parse, and the others stay.
Quiets(w) ==
    /\ \A v \in Worker \ {w} : worker'[v] = worker[v]
    /\ Calm(w)' /\ worker'[w].pc # "begin"

\* What was clean stays so.
LEMMA CleanKept ==
    ASSUME UsedOK, [Next]_vars, objects' \subseteq objects
    PROVE  CleanFiles => CleanFiles'
  <1>1. /\ used.crashes \in Nat /\ used'.crashes \in Nat /\ used'.crashes >= used.crashes
        /\ used.strays \in Nat /\ used'.strays \in Nat /\ used'.strays >= used.strays
    BY CrashesStep, UsedStep DEF UsedOK, Resource
  <1> QED BY <1>1 DEF CleanFiles

\* Who does not move stays calm.
LEMMA CalmKept ==
    ASSUME UsedOK, [Next]_vars, rows' \subseteq rows, objects' \subseteq objects,
           NEW w \in Worker, worker'[w] = worker[w], Calm(w)
    PROVE  Calm(w)'
  <1>1. CleanFiles => CleanFiles'
    BY CleanKept
  <1> QED BY <1>1 DEF Calm, Working, Writes, At

LEMMA ClosedKept ==
    ASSUME UsedOK, Closed, [Next]_vars, Emptying,
           worker' = worker \/ \E w \in Worker : Quiets(w)
    PROVE  Closed'
  <1>1. CleanFiles => CleanFiles'
    BY CleanKept DEF Emptying
  <1>2. \A v \in Worker : Calm(v)'
    BY CalmKept DEF Closed, Emptying, Quiets
  <1>3. (\E v \in Worker : worker'[v].pc = "begin") => \E v \in Worker : worker[v].pc = "begin"
    BY DEF Quiets
  <1>4. Clean => Clean'
    BY <1>1 DEF Clean, Emptying
  <1> QED BY <1>2, <1>3, <1>4 DEF Closed, Emptying

\* The moves that stay calm.
LEMMA QuietMoves ==
    ASSUME Inv, Closed, NEW w \in Worker,
           \/ Return(w)
           \/ /\ Working(w)
              /\ ToCancel(w) \/ (\E code \in ErrorCode : ToFail(w, code)) \/ Goto(w, "beat")
    PROVE  Quiets(w)
  <1>1. worker[w] \in Process /\ worker \in [Worker -> Process]
    BY DEF Inv, WorkersOK
  <1>2. CASE Return(w)
    <2>1. worker'[w] = Idle /\ \A v \in Worker \ {w} : worker'[v] = worker[v]
      BY <1>1, <1>2 DEF Return
    <2>2. Calm(w)' /\ worker'[w].pc # "begin"
      BY <2>1 DEF Calm, Idle, Working, Writes, At
    <2> QED BY <2>1, <2>2 DEF Quiets
  <1>3. ASSUME Working(w),
               \A v \in Worker \ {w} : worker'[v] = worker[v],
               worker'[w].task = worker[w].task,
               worker'[w].pc \in {"cancel", "fail", "beat"}
        PROVE  Quiets(w)
    <2>1. worker[w].task # Parse
      BY <1>3 DEF Closed, Calm
    <2>2. Calm(w)'
      BY <1>3, <2>1 DEF Calm, Writes, At
    <2> QED BY <1>3, <2>2 DEF Quiets
  <1>4. ASSUME Working(w), ToCancel(w) \/ Goto(w, "beat")
        PROVE  Quiets(w)
    <2>1. /\ \A v \in Worker \ {w} : worker'[v] = worker[v]
          /\ worker'[w].task = worker[w].task
          /\ worker'[w].pc \in {"cancel", "beat"}
      BY <1>1, <1>4 DEF ToCancel, Goto, Process
    <2> QED BY <1>3, <1>4, <2>1
  <1>5. ASSUME Working(w), NEW code \in ErrorCode, ToFail(w, code)
        PROVE  Quiets(w)
    <2>1. /\ \A v \in Worker \ {w} : worker'[v] = worker[v]
          /\ worker'[w].task = worker[w].task
          /\ worker'[w].pc = "fail"
      BY <1>1, <1>5 DEF ToFail, Process
    <2> QED BY <1>3, <1>5, <2>1
  <1> QED BY <1>2, <1>4, <1>5

\* A step that touches no row but of other tasks than parse.
LEMMA ParseRests ==
    ASSUME Inv, scan' = scan,
           task'[Parse] = task[Parse] /\ attempts'[Parse] = attempts[Parse]
    PROVE  ParseOver => ParseOver'
  BY DEF ParseOver, Open

\* A worker that leaves the rows of the database alone.
LEMMA ClosedMoves ==
    ASSUME Inv, UsedOK, Closed, [Next]_vars, NEW w \in Worker, Quiets(w),
           UNCHANGED <<dbVars, scan>>, objects' \subseteq objects
    PROVE  Closed'
  <1>1. UNCHANGED <<doc, task, attempts, rows>>
    BY DEF dbVars
  <1>2. Emptying
    BY <1>1, ParseRests DEF Emptying
  <1> QED BY <1>2, ClosedKept

\* A worker that ends an attempt of another task than parse.
LEMMA ClosedEnds ==
    ASSUME Inv, UsedOK, Closed, [Next]_vars, NEW w \in Worker, Working(w),
           NEW t \in TaskId, t = worker[w].task, NEW s, NEW row,
           attempts' = [attempts EXCEPT ![t][worker[w].att] = s],
           task' = [task EXCEPT ![t] = row],
           Return(w), UNCHANGED <<rows, objects, scan>>,
           doc'.status = "deleted" => doc.status = "deleted"
    PROVE  Closed'
  <1>1. t # Parse
    BY DEF Closed, Calm
  <1>2. task'[Parse] = task[Parse] /\ attempts'[Parse] = attempts[Parse]
    BY <1>1, TaskNames DEF Inv, TasksOK
  <1>3. Emptying
    BY <1>2, ParseRests DEF Emptying
  <1>4. Quiets(w)
    BY QuietMoves
  <1> QED BY <1>3, <1>4, ClosedKept

\* A failure, or a retry.
LEMMA ClosedFailStage ==
    ASSUME Inv, UsedOK, Closed, [Next]_vars, NEW w \in Worker, Working(w),
           NEW retry, NEW code \in ErrorCode,
           FailStage(w, doc, retry, code), UNCHANGED <<rows, objects, scan>>
    PROVE  Closed'
  <1>1. PICK t \in TaskId : t = worker[w].task
    BY DEF Working, Inv, WorkersOK, ProcessOK
  <1>2. doc \in Doc /\ 20014 \in ErrorCode /\ 0 \in ErrorCode
    BY DEF Inv, DocOK, ErrorCode
  <1>3. ASSUME NEW c \in ErrorCode, FailFor(w, doc, c)
        PROVE  Closed'
    <2>1. /\ attempts' = [attempts EXCEPT ![t][worker[w].att] = "failed"]
          /\ task' = [task EXCEPT ![t] = [task[t] EXCEPT !.status = "failed"]]
          /\ Return(w)
      BY <1>1, <1>3, Zenon DEF FailFor
    <2> DEFINE new == [doc EXCEPT !.status = "failed", !.error = c]
    <2>2. new \in Doc /\ new.status = "failed"
      <3>1. c \in ErrorCode /\ doc \in Doc
        BY <1>2, <1>3
      <3> QED BY <3>1 DEF Doc, DocStatus
    <2>3. doc' = Flush(doc, doc, new)
      BY <1>3, Zenon DEF FailFor
    <2> HIDE DEF new
    <2>4. doc'.status = "failed"
      BY <1>2, <2>2, <2>3, FlushDoc
    <2> QED BY <1>1, <2>1, <2>4, ClosedEnds
  <1>4. ASSUME Retry(w, doc, retry)
        PROVE  Closed'
    <2>1. /\ attempts' = [attempts EXCEPT ![t][worker[w].att] = "failed"]
          /\ task' = [task EXCEPT ![t] = Requeued(retry)]
          /\ Return(w)
      BY <1>1, <1>4, Zenon DEF Retry
    <2> DEFINE new == [doc EXCEPT !.error = 0]
    <2>2. new \in Doc /\ new.status = doc.status
      BY <1>2 DEF Doc
    <2>3. doc' = Flush(doc, doc, new)
      BY <1>4, Zenon DEF Retry
    <2> HIDE DEF new
    <2>4. doc'.status = doc.status
      BY <1>2, <2>2, <2>3, FlushDoc
    <2> QED BY <1>1, <2>1, <2>4, ClosedEnds
  <1> QED BY <1>2, <1>3, <1>4 DEF FailStage

\* parse: it may go on towards a lease only.
LEMMA ClosedParse ==
    ASSUME Inv, UsedOK, Closed, ~lease.open, [Next]_vars, NEW w \in Worker,
           \/ ParseDeliver(w) \/ ParseFindOpen(w) \/ ParseDenied(w) \/ ParseBegin(w)
           \/ ParseRejected(w) \/ ParseBreaks(w) \/ ParseStore(w) \/ ParseStoreFails(w)
           \/ ParseSave(w) \/ ParseFenced(w) \/ ParseSaveFails(w)
    PROVE  Closed'
  <1>1. worker[w] \in Process /\ worker \in [Worker -> Process]
    BY DEF Inv, WorkersOK
  <1>2. CASE ParseDeliver(w) \/ ParseFindOpen(w)
    <2>1. UNCHANGED <<dbVars, objects, scan>>
      BY <1>2 DEF ParseDeliver, ParseFindOpen
    <2>2. \/ worker' = worker
          \/ /\ worker'[w].pc \in {"find", "acquire"}
             /\ \A v \in Worker \ {w} : worker'[v] = worker[v]
      BY <1>1, <1>2 DEF ParseDeliver, ParseFindOpen, Goto, Process
    <2>3. CASE worker' = worker
      <3>1. UNCHANGED <<doc, task, attempts, rows>>
        BY <2>1 DEF dbVars
      <3>2. Emptying
        BY <2>1, <3>1, ParseRests DEF Emptying
      <3> QED BY <2>3, <3>2, ClosedKept
    <2>4. CASE /\ worker'[w].pc \in {"find", "acquire"}
               /\ \A v \in Worker \ {w} : worker'[v] = worker[v]
      <3>1. Quiets(w)
        BY <2>4 DEF Quiets, Calm, Working, Writes, At
      <3> QED BY <2>1, <3>1, ClosedMoves
    <2> QED BY <2>2, <2>3, <2>4
  <1>3. CASE ParseDenied(w)
    <2>1. Return(w) /\ UNCHANGED <<dbVars, objects, scan>>
      BY <1>3 DEF ParseDenied
    <2> QED BY <2>1, QuietMoves, ClosedMoves
  <1>4. CASE ParseBegin(w)
    <2>1. worker[w].pc = "begin" /\ ParseOver
      BY <1>4 DEF ParseBegin, Closed
    <2>2. ~BeginAttempt(w, Parse)
      BY <2>1 DEF ParseOver, BeginAttempt, Runnable
    <2>3. Return(w) /\ UNCHANGED <<dbVars, objects, scan>>
      BY <1>4, <2>2 DEF ParseBegin, Parse, dbVars
    <2> QED BY <2>3, QuietMoves, ClosedMoves
  <1>5. CASE \/ ParseRejected(w) \/ ParseBreaks(w) \/ ParseStore(w)
             \/ ParseStoreFails(w) \/ ParseSave(w) \/ ParseFenced(w) \/ ParseSaveFails(w)
    <2>1. At(w, "parse", "work") \/ At(w, "parse", "save")
      BY <1>5 DEF ParseRejected, ParseBreaks, ParseStore, ParseStoreFails, ParseSave,
                  ParseFenced, ParseSaveFails
    <2>2. worker[w].task = Parse /\ Working(w)
      BY <1>1, <2>1, TaskTypes DEF At, Working, Process
    <2> QED BY <2>2 DEF Closed, Calm
  <1> QED BY <1>2, <1>3, <1>4, <1>5

\* chunk, embed and finalize: they are fenced, but for an end that writes no row.
LEMMA ClosedStages ==
    ASSUME Inv, UsedOK, Closed, ~lease.open, [Next]_vars, NEW w \in Worker,
           \/ ChunkLoad(w) \/ ChunkSave(w) \/ ChunkFenced(w)
           \/ EmbedLoad(w) \/ EmbedNoDrafts(w) \/ EmbedHeartbeat(w) \/ EmbedCall(w)
           \/ EmbedSave(w) \/ EmbedComplete(w) \/ EmbedAborted(w)
           \/ FinalizePublish(w) \/ FinalizeMismatch(w) \/ FinalizeFenced(w)
           \/ StageBreaks(w)
    PROVE  Closed'
  <1>1. Working(w)
    BY DEF Working, At, ChunkLoad, ChunkSave, ChunkFenced, EmbedLoad,
           EmbedNoDrafts, EmbedHeartbeat, EmbedCall, EmbedSave, EmbedComplete, EmbedAborted,
           FinalizePublish, FinalizeMismatch, FinalizeFenced, StageBreaks
  <1>2. 0 \in ErrorCode /\ 20013 \in ErrorCode
    BY DEF ErrorCode
  <1>3. CASE \/ ChunkLoad(w) \/ ChunkFenced(w) \/ EmbedLoad(w) \/ EmbedHeartbeat(w)
             \/ EmbedAborted(w) \/ FinalizeFenced(w) \/ StageBreaks(w)
    <2>1. UNCHANGED <<dbVars, objects, scan>>
      BY <1>3 DEF ChunkLoad, ChunkFenced, EmbedLoad, EmbedHeartbeat, EmbedAborted,
                  FinalizeFenced, StageBreaks, dbVars
    <2>2. Return(w) \/ ToCancel(w) \/ ToFail(w, 0) \/ Goto(w, "beat")
      BY <1>3 DEF ChunkLoad, ChunkFenced, EmbedLoad, EmbedHeartbeat, EmbedAborted,
                  FinalizeFenced, StageBreaks
    <2> QED BY <1>1, <1>2, <2>1, <2>2, QuietMoves, ClosedMoves
  <1>4. CASE ChunkSave(w) \/ EmbedComplete(w)
    <2>1. Advance(w, doc)
      BY <1>4 DEF ChunkSave, EmbedComplete
    <2>2. lease.open
      BY <2>1, Zenon DEF Advance, CanAdvance
    <2> QED BY <2>2
  <1>5. CASE EmbedCall(w) \/ EmbedSave(w)
    <2>1. Writes(w)
      BY <1>5, AtStage DEF EmbedCall, EmbedSave, Writes, At
    <2> QED BY <2>1 DEF Closed, Calm
  <1>6. CASE EmbedNoDrafts(w)
    <2>1. FailStage(w, doc, worker[w].retry, 0) /\ UNCHANGED <<rows, objects, scan>>
      BY <1>6 DEF EmbedNoDrafts
    <2> QED BY <1>1, <1>2, <2>1, ClosedFailStage
  <1>7. CASE FinalizeMismatch(w)
    <2>1. FailFor(w, doc, 20013) /\ UNCHANGED <<rows, objects, scan>>
      BY <1>7 DEF FinalizeMismatch
    <2>2. FailStage(w, doc, 0, 20013)
      BY <2>1 DEF FailStage
    <2> QED BY <1>1, <1>2, <2>1, <2>2, ClosedFailStage
  <1>8. CASE FinalizePublish(w)
    <2>1. worker[w].task = Finalize /\ Finalize = Stage("finalize")
      BY <1>8, AtStage DEF FinalizePublish, Finalize
    <2>2. /\ attempts' = [attempts EXCEPT ![Finalize][worker[w].att] = "succeeded"]
          /\ task' = [task EXCEPT ![Finalize] = [task[Finalize] EXCEPT !.status = "succeeded"]]
          /\ Return(w) /\ UNCHANGED <<rows, objects, scan>>
          /\ doc' = [doc EXCEPT !.status = "completed", !.type = "none"]
      BY <1>8, <2>1, Zenon DEF FinalizePublish
    <2>3. doc'.status = "completed"
      BY <2>2 DEF Inv, DocOK, Doc
    <2> QED BY <1>1, <2>1, <2>2, <2>3, ClosedEnds, TaskNames
  <1> QED BY <1>3, <1>4, <1>5, <1>6, <1>7, <1>8

\* Errors and deaths.
LEMMA ClosedErrors ==
    ASSUME Inv, UsedOK, Closed, [Next]_vars, NEW w \in Worker,
           \/ Reload(w) \/ FailAfterRollback(w) \/ ConvergeCancelled(w)
           \/ HandlerDies(w) \/ Crash(w) \/ \E t \in TaskId : Deliver(w, t)
    PROVE  Closed'
  <1>1. worker[w] \in Process /\ worker \in [Worker -> Process]
    BY DEF Inv, WorkersOK
  <1>2. CASE HandlerDies(w) \/ Crash(w)
    <2>1. Return(w) /\ UNCHANGED <<dbVars, objects, scan>>
      BY <1>2 DEF HandlerDies, Crash
    <2> QED BY <2>1, QuietMoves, ClosedMoves
  <1>3. CASE Reload(w)
    <2>1. Working(w) /\ UNCHANGED <<dbVars, objects, scan>>
      BY <1>3 DEF Reload, Working
    <2>2. CASE Return(w)
      BY <2>1, <2>2, QuietMoves, ClosedMoves
    <2>3. CASE worker' = [worker EXCEPT ![w].pc = IF @ = "fail" THEN "failing" ELSE "cancelling",
                                        ![w].retry = task[worker[w].task].retry]
      <3>1. worker[w].task # Parse
        BY <2>1 DEF Closed, Calm
      <3>2. /\ worker'[w].pc \in {"failing", "cancelling"}
            /\ worker'[w].task = worker[w].task
            /\ \A v \in Worker \ {w} : worker'[v] = worker[v]
        BY <1>1, <2>3 DEF Process
      <3>3. Quiets(w)
        BY <3>1, <3>2 DEF Quiets, Calm, Working, Writes, At
      <3> QED BY <2>1, <3>3, ClosedMoves
    <2> QED BY <1>3, <2>2, <2>3 DEF Reload
  <1>4. CASE FailAfterRollback(w)
    <2>1. /\ FailStage(w, doc, task[worker[w].task].retry, worker[w].code)
          /\ UNCHANGED <<rows, objects, scan>> /\ Working(w) /\ worker[w].code \in ErrorCode
      BY <1>1, <1>4 DEF FailAfterRollback, Working, Process
    <2> QED BY <2>1, ClosedFailStage
  <1>5. CASE ConvergeCancelled(w)
    <2>1. Working(w)
      BY <1>5 DEF ConvergeCancelled, Working
    <2>2. PICK t \in TaskId : t = worker[w].task
      BY <2>1 DEF Working, Inv, WorkersOK, ProcessOK
    <2>3. PICK row : /\ attempts' = [attempts EXCEPT ![t][worker[w].att] = "cancelled"]
                     /\ task' = [task EXCEPT ![t] = row]
      BY <1>5, <2>2, Zenon DEF ConvergeCancelled
    <2>4. Return(w) /\ UNCHANGED <<doc, rows, objects, scan>>
      BY <1>5, Zenon DEF ConvergeCancelled
    <2> QED BY <2>1, <2>2, <2>3, <2>4, ClosedEnds
  <1>6. ASSUME NEW t \in TaskId, Deliver(w, t)
        PROVE  Closed'
    <2>1. t # Parse /\ UNCHANGED <<doc, rows, objects, scan>>
      BY <1>6 DEF Deliver, Parse
    <2>2. /\ task'[Parse] = task[Parse] /\ attempts'[Parse] = attempts[Parse]
          /\ worker' = worker \/ BeginAttempt(w, t)
      BY <1>6, <2>1, TaskNames DEF Deliver, BeginAttempt, Inv, TasksOK
    <2>3. Emptying
      BY <2>1, <2>2, ParseRests DEF Emptying
    <2>4. BeginAttempt(w, t) => Quiets(w)
      <3>1. BeginAttempt(w, t) => /\ worker'[w].task = t /\ worker'[w].pc = "work"
                                  /\ \A v \in Worker \ {w} : worker'[v] = worker[v]
        BY <1>1 DEF BeginAttempt, Process
      <3> QED BY <2>1, <3>1 DEF Quiets, Calm, Working, Writes, At
    <2> QED BY <2>2, <2>3, <2>4, ClosedKept
  <1> QED BY <1>2, <1>3, <1>4, <1>5, <1>6

\* delete_cleanup: what it finds is all there is, for nobody writes.
LEMMA ClosedCleanup ==
    ASSUME Inv, UsedOK, ParsedOwned, Closed, [Next]_vars, NEW w \in Worker,
           \/ CleanupLoad(w) \/ CleanupPurge(w) \/ CleanupCommit(w)
           \/ CleanupBreaks(w) \/ CleanupFails(w)
    PROVE  Closed'
  <1>1. /\ worker[w] \in Process /\ worker \in [Worker -> Process]
        /\ task \in [TaskId -> TaskRow] /\ doc \in Doc
    BY DEF Inv, WorkersOK, TasksOK, DocOK
  <1>2. PICK t \in Cleanups : t = worker[w].task /\ t \in TaskId /\ t # Parse /\ Working(w)
    BY CleanupAt, StagesApart, TaskNames DEF Working
  <1>3. CASE CleanupLoad(w)
    <2>1. CASE doc.status = "deleted" /\ Return(w)
      <3>1. /\ attempts' = [attempts EXCEPT ![t][worker[w].att] = "succeeded"]
            /\ task' = [task EXCEPT ![t] = [task[t] EXCEPT !.status = "succeeded"]]
            /\ UNCHANGED <<rows, objects, scan>>
        BY <1>2, <1>3, <2>1, Zenon DEF CleanupLoad
      <3> QED BY <1>2, <2>1, <3>1, ClosedEnds
    <2>2. CASE /\ worker' = [worker EXCEPT ![w].pc = "purge", ![w].seen = doc]
               /\ UNCHANGED <<attempts, task>>
      <3>1. /\ worker'[w].pc = "purge" /\ worker'[w].task = t
            /\ \A v \in Worker \ {w} : worker'[v] = worker[v]
        BY <1>1, <1>2, <2>2 DEF Process
      <3>2. Quiets(w)
        BY <1>2, <3>1 DEF Quiets, Calm, Working, Writes, At
      <3>3. UNCHANGED <<dbVars, scan>> /\ objects' \subseteq objects
        BY <1>3, <2>2 DEF CleanupLoad, dbVars
      <3> QED BY <3>2, <3>3, ClosedMoves
    <2> QED BY <1>3, <2>1, <2>2 DEF CleanupLoad
  <1>4. CASE CleanupPurge(w)
    <2>1. /\ worker' = [worker EXCEPT ![w].pc = "commit", ![w].found = rows]
          /\ objects' = objects \ ({"upload"} \cup IF HasParseRow(rows) THEN {"parsed"} ELSE {})
          /\ UNCHANGED <<dbVars, scan, used>>
      BY <1>4 DEF CleanupPurge
    <2>2. /\ worker'[w].pc = "commit" /\ worker'[w].task = t /\ worker'[w].found = rows
          /\ \A v \in Worker \ {w} : worker'[v] = worker[v]
      BY <1>1, <1>2, <2>1 DEF Process, Inv, DataOK
    <2>3. \A v \in Worker : ~Saving(v)
      BY DEF Closed, Calm, Saving, Working
    <2>4. CleanFiles'
      <3>1. CASE used.crashes = 0 /\ used.strays = 0 /\ "parsed" \in objects
        <4>1. HasParseRow(rows)
          BY <2>3, <3>1 DEF ParsedOwned
        <4> QED BY <2>1, <4>1 DEF CleanFiles, Inv, DataOK
      <3>2. CASE "parsed" \notin objects
        BY <2>1, <3>2 DEF CleanFiles, Inv, DataOK
      <3>3. CASE used.crashes # 0
        BY <2>1, <3>3 DEF CleanFiles, UsedOK, Resource
      <3>4. CASE used.strays # 0
        BY <2>1, <3>4 DEF CleanFiles, UsedOK, Resource, Inv, DataOK
      <3> QED BY <3>1, <3>2, <3>3, <3>4
    <2>5. rows' = rows
      BY <2>1 DEF dbVars
    <2>6. Quiets(w)
      BY <1>2, <2>2, <2>4, <2>5 DEF Quiets, Calm, Working, Writes, At
    <2> QED BY <2>1, <2>6, ClosedMoves
  <1>5. CASE CleanupCommit(w)
    <2>1. /\ rows' = rows \ worker[w].found /\ objects' = objects /\ used' = used /\ Return(w)
          /\ scan' = scan
          /\ attempts' = [attempts EXCEPT ![t][worker[w].att] = "succeeded"]
          /\ task' = [task EXCEPT ![t] = [task[t] EXCEPT !.status = "succeeded"]]
      BY <1>2, <1>5, Zenon DEF CleanupCommit
    <2>2. rows \subseteq worker[w].found /\ CleanFiles
      BY <1>5 DEF CleanupCommit, Closed, Calm
    <2>3. Clean'
      BY <2>1, <2>2 DEF Clean, CleanFiles
    <2>4. task'[Parse] = task[Parse] /\ attempts'[Parse] = attempts[Parse]
      BY <1>2, <2>1, TaskNames DEF Inv, TasksOK
    <2>5. Emptying
      BY <2>1, <2>3, <2>4, ParseRests DEF Emptying
    <2> QED BY <2>1, <2>5, QuietMoves, ClosedKept
  <1>6. CASE CleanupBreaks(w)
    <2>1. /\ worker' = [worker EXCEPT ![w].pc = "fail", ![w].seen = NoDoc, ![w].found = {}]
          /\ UNCHANGED <<dbVars, objects, scan>>
      BY <1>6 DEF CleanupBreaks
    <2>2. /\ worker'[w].pc = "fail" /\ worker'[w].task = t
          /\ \A v \in Worker \ {w} : worker'[v] = worker[v]
      BY <1>1, <1>2, <2>1 DEF Process
    <2>3. Quiets(w)
      BY <1>2, <2>2 DEF Quiets, Calm, Working, Writes, At
    <2> QED BY <2>1, <2>3, ClosedMoves
  <1>7. CASE CleanupFails(w)
    <2>0. \/ task' = [task EXCEPT ![t] = Requeued(worker[w].retry)] /\ doc' = doc
          \/ /\ task' = [task EXCEPT ![t].status = "failed"]
             /\ doc' = [doc EXCEPT !.status = "failed", !.type = "delete_cleanup",
                                   !.error = 20015]
      BY <1>2, <1>7 DEF CleanupFails
    <2>1. /\ attempts' = [attempts EXCEPT ![t][worker[w].att] = "failed"]
          /\ Return(w) /\ UNCHANGED <<rows, objects, scan>>
      BY <1>2, <1>7 DEF CleanupFails
    <2>2. CASE task' = [task EXCEPT ![t] = Requeued(worker[w].retry)] /\ doc' = doc
      BY <1>2, <2>1, <2>2, ClosedEnds
    <2>3. CASE /\ task' = [task EXCEPT ![t].status = "failed"]
               /\ doc' = [doc EXCEPT !.status = "failed", !.type = "delete_cleanup",
                                     !.error = 20015]
      <3>1. doc'.status = "failed"
        BY <1>1, <2>3 DEF Doc
      <3>2. task' = [task EXCEPT ![t] = [task[t] EXCEPT !.status = "failed"]]
        BY <2>3
      <3> QED BY <1>2, <2>1, <3>1, <3>2, ClosedEnds
    <2> QED BY <2>0, <2>2, <2>3
  <1> QED BY <1>3, <1>4, <1>5, <1>6, <1>7

\* An open attempt is not one of parse when parse is over.
LEMMA OverNotOpen ==
    ASSUME Inv, ParseOver, NEW a \in OpenAttempts
    PROVE  a[1] # Parse
  <1>1. PICK t \in TaskId : \E n \in DOMAIN attempts[t] : a = <<t, n>>
    BY DEF OpenAttempts
  <1>2. attempts[a[1]][a[2]] = "running"
    BY DEF OpenAttempts
  <1> QED BY <1>1, <1>2 DEF ParseOver, Open

\* The DELETE, again.
LEMMA ClosedDelete ==
    ASSUME Inv, UsedOK, Closed, [Next]_vars, Delete
    PROVE  Closed'
  <1> DEFINE dc == Cleanup(doc.cycle + 1)
             kept == [t \in TaskId |->
                        IF t \in Stages /\ task[t].status \in {"pending", "queued"}
                        THEN [task[t] EXCEPT !.status = "cancelled"] ELSE task[t]]
             With(T, s) == [T EXCEPT ![dc] = [status |-> s, retry |-> 0]]
  <1>1. doc.cycle + 1 \in 1..MaxDeletes /\ doc \in Doc
    BY Bounds DEF Delete, Inv, DocOK, Doc
  <1>2. dc \in Cleanups /\ dc \in TaskId /\ dc # Parse /\ Parse \in Stages /\ Parse \in TaskId
    BY <1>1, CleanupNames, StagesApart, TaskNames
  <1> HIDE DEF dc
  <1>3. /\ kept \in [TaskId -> TaskRow]
        /\ kept[Parse].status # "queued"
    BY <1>2 DEF Inv, TasksOK, TaskRow, TaskStatus
  <1> HIDE DEF kept
  <1>4. ASSUME NEW T \in [TaskId -> TaskRow], NEW s
        PROVE  With(T, s)[Parse] = T[Parse]
    BY <1>2
  <1> HIDE DEF With
  <1>5. UNCHANGED <<rows, objects, worker, scan>>
    BY DEF Delete
  <1>6. doc'.status # "deleted"
    BY DEF Delete, Hidden
  <1>7. ASSUME ParseOver
        PROVE  ParseOver'
    <2>1. ASSUME NEW a \in OpenAttempts
          PROVE  Cancel(a, kept)[Parse] = kept[Parse] /\ Cancel(a, kept) \in [TaskId -> TaskRow]
      <3>1. a[1] # Parse
        BY <1>7, OverNotOpen
      <3> QED BY <1>2, <1>3, <3>1, CancelTask DEF Cancel
    <2>2. task'[Parse].status # "queued"
      <3>1. CASE task' = With(kept, "queued") \/ task' = With(kept, "pending")
        BY <1>3, <1>4, <3>1
      <3>2. CASE \E a \in OpenAttempts : task' = With(Cancel(a, kept), "queued")
        BY <1>3, <1>4, <2>1, <3>2
      <3> QED BY <3>1, <3>2 DEF Delete, With, kept, dc
    <2>3. attempts'[Parse] = attempts[Parse]
      <3>1. CASE \E a \in OpenAttempts :
                   attempts' = [attempts EXCEPT ![a[1]][a[2]] = "cancelled"]
        BY <1>2, <1>7, <3>1, OverNotOpen DEF Inv, TasksOK
      <3> QED BY <3>1 DEF Delete
    <2> QED BY <1>5, <1>7, <2>2, <2>3 DEF ParseOver, Open
  <1>8. Emptying
    BY <1>5, <1>6, <1>7 DEF Emptying
  <1> QED BY <1>5, <1>8, ClosedKept

\* The recovery of a lease, which the scanner has listed, and of an orphan, which
\* is not one of parse.
LEMMA ClosedRecovery ==
    ASSUME Inv, UsedOK, Closed, [Next]_vars,
           RecoverLease \/ \E a \in scan.orphans : RecoverOrphan(a)
    PROVE  Closed'
  <1>1. UNCHANGED <<rows, objects, worker>> /\ doc \in Doc
    BY DEF RecoverLease, RecoverOrphan, Inv, DocOK
  <1>2. ASSUME NEW t \in TaskId, RecoverTask(t) \/ RecoverCleanup(t)
        PROVE  /\ \A s \in TaskId \ {t} : task'[s] = task[s]
               /\ doc'.status = "deleted" => doc.status = "deleted"
    BY <1>2, RecoveredTask, RecoveredCleanup
  <1>3. ASSUME doc' = [doc EXCEPT !.type = "delete_cleanup"]
        PROVE  doc'.status = doc.status
    BY <1>1, <1>3 DEF Doc
  <1>4. CASE RecoverLease
    <2>1. ~ParseOver /\ scan.lease.task \in TaskId
      BY <1>4 DEF RecoverLease, ParseOver, Inv, ScanOK
    <2>2. \/ doc' = doc \/ doc' = [doc EXCEPT !.type = "delete_cleanup"]
          \/ RecoverTask(scan.lease.task)
      BY <1>4 DEF RecoverLease
    <2>3. doc'.status = "deleted" => doc.status = "deleted"
      BY <1>2, <1>3, <2>1, <2>2
    <2>4. Emptying
      BY <1>1, <2>1, <2>3 DEF Emptying
    <2> QED BY <1>1, <2>4, ClosedKept
  <1>5. ASSUME NEW a \in scan.orphans, RecoverOrphan(a)
        PROVE  Closed'
    <2>1. a[1] \in TaskId /\ Parse \in TaskId
      BY TaskNames DEF Inv, ScanOK, Listing, AttemptId
    <2>2. /\ scan' = [scan EXCEPT !.orphans = @ \ {a}]
          /\ \/ UNCHANGED <<doc, task, attempts>>
             \/ /\ attempts' = [attempts EXCEPT ![a[1]][a[2]] = "cancelled"]
                /\ \/ RecoverCleanup(a[1]) \/ RecoverTask(a[1])
                   \/ /\ doc.status = "deleting"
                      /\ task' = QueueCleanup(Cancel(a, task))
                      /\ doc' = [doc EXCEPT !.type = "delete_cleanup"]
      BY <1>5 DEF RecoverOrphan
    <2>3. doc'.status = "deleted" => doc.status = "deleted"
      BY <1>2, <1>3, <2>1, <2>2
    <2>4. scan'.lease = scan.lease /\ scan'.orphans \subseteq scan.orphans
      BY <2>2 DEF Inv, ScanOK, Listing
    <2>5. ASSUME ParseOver
          PROVE  ParseOver'
      <3>1. a[1] # Parse
        BY <1>5, <2>5 DEF ParseOver
      <3>2. attempts'[Parse] = attempts[Parse]
        BY <2>1, <2>2, <3>1 DEF Inv, TasksOK
      <3>3. task'[Parse] = task[Parse]
        <4>1. CASE task' = QueueCleanup(Cancel(a, task)) /\ doc.status = "deleting"
          <5>1. Cleanup(doc.cycle) \in Cleanups
            BY <4>1, CleanupNames, Bounds DEF Inv, DocOK, Doc
          <5>2. Cleanup(doc.cycle) # Parse
            BY <5>1, StagesApart, TaskNames
          <5>3. Cancel(a, task) \in [TaskId -> TaskRow]
            BY CancelTask DEF Inv, TasksOK
          <5>4. Cancel(a, task)[Parse] = task[Parse]
            BY <3>1 DEF Cancel
          <5> QED BY <2>1, <4>1, <5>2, <5>3, <5>4 DEF QueueCleanup
        <4> QED BY <1>2, <2>1, <2>2, <3>1, <4>1
      <3> QED BY <2>4, <2>5, <3>2, <3>3 DEF ParseOver, Open
    <2>6. Emptying
      BY <1>1, <2>3, <2>5 DEF Emptying
    <2> QED BY <1>1, <2>6, ClosedKept
  <1> QED BY <1>4, <1>5

\* Everybody else.
LEMMA ClosedOthers ==
    ASSUME Inv, UsedOK, Closed, ~lease.open, [Next]_vars,
           \/ \E w \in Worker : Redeliver(w)
           \/ \E t \in TaskId : Lose(t) \/ Redispatch(t)
           \/ Expire \/ ScanExpired \/ RefreshScan \/ ScanOrphans
           \/ UNCHANGED vars
    PROVE  Closed'
  <1>1. UNCHANGED <<doc, task, attempts, rows, objects, worker>>
    BY DEF Redeliver, Lose, Redispatch, Expire, ScanExpired, RefreshScan, ScanOrphans,
           dbVars, vars
  <1>2. ASSUME ParseOver
        PROVE  scan'.lease = scan.lease /\ \A a \in scan'.orphans : a[1] # Parse
    <2>1. CASE ScanOrphans
      <3>1. PICK found \in SUBSET OpenAttempts : scan' = [scan EXCEPT !.orphans = found]
        BY <2>1 DEF ScanOrphans
      <3>2. scan'.lease = scan.lease /\ scan'.orphans = found
        BY <3>1 DEF Inv, ScanOK, Listing
      <3> QED BY <1>2, <3>2, OverNotOpen
    <2>2. CASE scan' = scan
      BY <1>2, <2>2 DEF ParseOver
    <2> QED BY <1>2, <2>1, <2>2
            DEF Redeliver, Lose, Redispatch, Expire, ScanExpired, RefreshScan, ParseOver, vars
  <1>3. ParseOver => ParseOver'
    BY <1>1, <1>2 DEF ParseOver, Open
  <1>4. Emptying
    BY <1>1, <1>3 DEF Emptying
  <1> QED BY <1>1, <1>4, ClosedKept

\* Once the lease is closed, every step leaves nobody who writes.
LEMMA ClosedStep ==
    ASSUME Inv, UsedOK, ParsedOwned, Closed, ~lease.open, ~lease'.open, [Next]_vars
    PROVE  Closed'
  <1>1. ASSUME NEW w \in Worker, ParseDeliver(w) \/ WorkerStep(w) \/ Crash(w)
        PROVE  Closed'
    <2>1. CASE \/ ParseDeliver(w) \/ ParseFindOpen(w) \/ ParseDenied(w) \/ ParseBegin(w)
               \/ ParseRejected(w) \/ ParseBreaks(w) \/ ParseStore(w) \/ ParseStoreFails(w)
               \/ ParseSave(w) \/ ParseFenced(w) \/ ParseSaveFails(w)
      BY <2>1, ClosedParse
    <2>2. CASE ParseAcquire(w)
      BY <2>2 DEF ParseAcquire
    <2>3. CASE \/ ChunkLoad(w) \/ ChunkSave(w) \/ ChunkFenced(w)
               \/ EmbedLoad(w) \/ EmbedNoDrafts(w) \/ EmbedHeartbeat(w) \/ EmbedCall(w)
               \/ EmbedSave(w) \/ EmbedComplete(w) \/ EmbedAborted(w)
               \/ FinalizePublish(w) \/ FinalizeMismatch(w) \/ FinalizeFenced(w)
               \/ StageBreaks(w)
      BY <2>3, ClosedStages
    <2>4. CASE \/ Reload(w) \/ FailAfterRollback(w) \/ ConvergeCancelled(w)
               \/ HandlerDies(w) \/ Crash(w)
      BY <2>4, ClosedErrors
    <2>5. CASE \/ CleanupLoad(w) \/ CleanupPurge(w) \/ CleanupCommit(w)
               \/ CleanupBreaks(w) \/ CleanupFails(w)
      BY <2>5, ClosedCleanup
    <2> QED BY <1>1, <2>1, <2>2, <2>3, <2>4, <2>5 DEF WorkerStep
  <1>2. ASSUME NEW w \in Worker, NEW t \in TaskId, Deliver(w, t)
        PROVE  Closed'
    BY <1>2, ClosedErrors
  <1>3. CASE Delete
    BY <1>3, ClosedDelete
  <1>4. CASE RecoverLease \/ \E a \in scan.orphans : RecoverOrphan(a)
    BY <1>4, ClosedRecovery
  <1>5. CASE \/ \E w \in Worker : Redeliver(w)
             \/ \E t \in TaskId : Lose(t) \/ Redispatch(t)
             \/ Expire \/ ScanExpired \/ RefreshScan \/ ScanOrphans
             \/ UNCHANGED vars
    BY <1>5, ClosedOthers
  <1> QED BY <1>1, <1>2, <1>3, <1>4, <1>5 DEF Next

(***************************************************************************)
(* Before the DELETE                                                       *)
(***************************************************************************)
\* No stage, and no end of one, sets current_task_type to delete_cleanup.
LEMMA TypeOfStages ==
    ASSUME Inv, doc.type # "delete_cleanup", NEW w \in Worker, NEW loaded \in Doc,
           \/ \E code \in ErrorCode : FailFor(w, loaded, code)
           \/ \E retry : Retry(w, loaded, retry)
           \/ worker[w].task \in {Parse, ChunkStage, Embed} /\ Advance(w, loaded)
    PROVE  doc'.type # "delete_cleanup"
  <1>1. doc \in Doc /\ 0 \in ErrorCode
    BY DEF Inv, DocOK, ErrorCode
  <1>2. ASSUME NEW code \in ErrorCode, FailFor(w, loaded, code)
        PROVE  doc'.type # "delete_cleanup"
    <2> DEFINE new == [loaded EXCEPT !.status = "failed", !.error = code]
    <2>1. new \in Doc /\ new.type = loaded.type
      BY <1>2, DocColumns DEF Doc
    <2>2. doc' = Flush(doc, loaded, new)
      BY <1>2, Zenon DEF FailFor
    <2> HIDE DEF new
    <2> QED BY <1>1, <2>1, <2>2, FlushDoc
  <1>3. ASSUME NEW retry, Retry(w, loaded, retry)
        PROVE  doc'.type # "delete_cleanup"
    <2> DEFINE new == [loaded EXCEPT !.error = 0]
    <2>1. new \in Doc /\ new.type = loaded.type
      BY <1>1 DEF Doc
    <2>2. doc' = Flush(doc, loaded, new)
      BY <1>3, Zenon DEF Retry
    <2> HIDE DEF new
    <2> QED BY <1>1, <2>1, <2>2, FlushDoc
  <1>4. ASSUME worker[w].task \in {Parse, ChunkStage, Embed}, Advance(w, loaded)
        PROVE  doc'.type # "delete_cleanup"
    <2> DEFINE n == NextStage(worker[w].task)
               new == [loaded EXCEPT !.type = n[1]]
    <2>1. doc' = Flush(doc, loaded, new)
      BY <1>4, Zenon DEF Advance
    <2>2. n \in {ChunkStage, Embed, Finalize}
      BY <1>4, TaskNames
    <2>3. n[1] \in DocType /\ n[1] # "delete_cleanup"
      BY <2>2 DEF ChunkStage, Embed, Finalize, Stage, DocType
    <2> HIDE DEF n
    <2>4. new \in Doc /\ new.type = n[1]
      BY <2>3 DEF Doc
    <2> HIDE DEF new
    <2> QED BY <1>1, <2>1, <2>3, <2>4, FlushDoc
  <1> QED BY <1>2, <1>3, <1>4

\* Until the DELETE, the document is of a stage.
LEMMA TypeStep ==
    ASSUME Inv, FlowInv, UsedOK, [Next]_vars, Undisturbed', doc.type # "delete_cleanup"
    PROVE  doc'.type # "delete_cleanup"
  <1>1. doc \in Doc
    BY DEF Inv, DocOK
  <1>2. ASSUME NEW w \in Worker, NEW retry, NEW code \in ErrorCode,
               FailStage(w, doc, retry, code)
        PROVE  doc'.type # "delete_cleanup"
    <2>1. \/ \E c \in ErrorCode : FailFor(w, doc, c)
          \/ Retry(w, doc, retry)
      BY <1>2 DEF FailStage, ErrorCode
    <2> QED BY <1>1, <2>1, TypeOfStages
  <1>3. ASSUME NEW w \in Worker,
               \/ ParseRejected(w) \/ ParseSave(w) \/ ChunkSave(w) \/ EmbedNoDrafts(w)
               \/ EmbedComplete(w) \/ FinalizeMismatch(w) \/ FailAfterRollback(w)
        PROVE  doc'.type # "delete_cleanup"
    <2>1. 20001 \in ErrorCode /\ 20013 \in ErrorCode /\ 0 \in ErrorCode
      BY DEF ErrorCode
    <2>2. CASE ParseRejected(w) \/ ParseSave(w)
      <3>1. worker[w].task = Parse /\ worker[w].pc \in {"work", "save"}
        BY <2>2, TaskTypes DEF ParseRejected, ParseSave, At, Inv, WorkersOK, Process
      <3>2. worker[w].seen \in Doc
        BY <3>1, ParseHasDocument
      <3>3. FailFor(w, worker[w].seen, 20001) \/ Advance(w, worker[w].seen)
        BY <2>2 DEF ParseRejected, ParseSave
      <3> QED BY <2>1, <3>1, <3>2, <3>3, TypeOfStages
    <2>3. CASE ChunkSave(w) \/ EmbedComplete(w)
      <3>1. worker[w].task \in {Parse, ChunkStage, Embed}
        BY <2>3, AtStage DEF ChunkSave, EmbedComplete
      <3>2. Advance(w, doc)
        BY <2>3 DEF ChunkSave, EmbedComplete
      <3> QED BY <1>1, <3>1, <3>2, TypeOfStages
    <2>4. CASE FinalizeMismatch(w)
      <3>1. FailFor(w, doc, 20013)
        BY <2>4 DEF FinalizeMismatch
      <3> QED BY <1>1, <2>1, <3>1, TypeOfStages
    <2>5. CASE EmbedNoDrafts(w)
      BY <1>2, <2>1, <2>5 DEF EmbedNoDrafts
    <2>6. CASE FailAfterRollback(w)
      <3>1. worker[w].code \in ErrorCode
        BY DEF Inv, WorkersOK, Process
      <3> QED BY <1>2, <2>6, <3>1 DEF FailAfterRollback
    <2> QED BY <1>3, <2>2, <2>3, <2>4, <2>5, <2>6
  <1>4. ASSUME NEW w \in Worker, ParseAcquire(w)
        PROVE  doc'.type # "delete_cleanup"
    <2>1. worker[w].seen \in Doc
      BY <1>4, ParseHasDocument DEF ParseAcquire
    <2> DEFINE loaded == worker[w].seen
               new == [loaded EXCEPT !.status = IF @ = "queued" THEN "processing" ELSE @]
    <2>2. doc' = Flush(doc, loaded, new)
      BY <1>4 DEF ParseAcquire
    <2>3. new \in Doc /\ new.type = loaded.type
      BY <2>1 DEF Doc, DocStatus
    <2> HIDE DEF new
    <2> QED BY <1>1, <2>1, <2>2, <2>3, FlushDoc
  <1>5. ASSUME NEW w \in Worker, FinalizePublish(w)
        PROVE  doc'.type # "delete_cleanup"
    <2>1. doc' = [doc EXCEPT !.status = "completed", !.type = "none"]
      BY <1>5, Zenon DEF FinalizePublish
    <2> QED BY <1>1, <2>1 DEF Doc
  <1>6. ASSUME NEW w \in Worker,
               \/ ParseDeliver(w) \/ ParseFindOpen(w) \/ ParseDenied(w) \/ ParseBegin(w)
               \/ ParseBreaks(w) \/ ParseStore(w) \/ ParseStoreFails(w) \/ ParseFenced(w)
               \/ ParseSaveFails(w) \/ ChunkLoad(w) \/ ChunkFenced(w)
               \/ EmbedLoad(w) \/ EmbedHeartbeat(w) \/ EmbedCall(w) \/ EmbedSave(w)
               \/ EmbedAborted(w) \/ FinalizeFenced(w) \/ StageBreaks(w)
        PROVE  doc' = doc
    BY <1>6
    DEF ParseDeliver, ParseFindOpen, ParseDenied, ParseBegin, ParseBreaks, ParseStore,
        ParseStoreFails, ParseFenced, ParseSaveFails, ChunkLoad, ChunkFenced, EmbedLoad,
        EmbedHeartbeat, EmbedCall, EmbedSave, EmbedAborted, FinalizeFenced, StageBreaks,
        dbVars
  <1>7. ASSUME NEW w \in Worker,
               \/ Reload(w) \/ ConvergeCancelled(w) \/ HandlerDies(w) \/ Crash(w)
               \/ Redeliver(w) \/ \E t \in TaskId : Deliver(w, t)
        PROVE  doc' = doc
    BY <1>7 DEF Reload, ConvergeCancelled, HandlerDies, Crash, Redeliver, Deliver, dbVars
  <1>8. CASE (\E t \in TaskId : Lose(t) \/ Redispatch(t)) \/ UNCHANGED vars
    BY <1>8 DEF Lose, Redispatch, vars, dbVars
  <1> QED BY <1>3, <1>4, <1>5, <1>6, <1>7, <1>8, NoCleanupRuns, NothingToRecover, Disturbs
          DEF Next, WorkerStep

\* The DELETE cancels the stage that is queued, and waits for the one that runs.
LEMMA DeleteStarts ==
    ASSUME Inv, FlowInv, doc.type # "delete_cleanup", Delete
    PROVE  Waited
  <1> DEFINE dc == Cleanup(doc.cycle + 1)
             kept == [t \in TaskId |->
                        IF t \in Stages /\ task[t].status \in {"pending", "queued"}
                        THEN [task[t] EXCEPT !.status = "cancelled"] ELSE task[t]]
             With(T, s) == [T EXCEPT ![dc] = [status |-> s, retry |-> 0]]
  <1>1. doc.cycle + 1 \in 1..MaxDeletes /\ doc \in Doc
    BY Bounds DEF Delete, Inv, DocOK, Doc
  <1>2. /\ dc \in Cleanups /\ dc \in TaskId /\ dc \notin Stages
        /\ Parse \in Stages /\ Stages \subseteq TaskId
        /\ \A t \in Cleanups : t \in TaskId /\ t \notin Stages
    BY <1>1, CleanupNames, StagesApart, TaskNames
  <1> HIDE DEF dc
  <1>3. \A t \in TaskId :
          /\ kept[t].retry = task[t].retry
          /\ kept[t].status # task[t].status =>
               t \in Stages /\ task[t].status # "running" /\ kept[t].status = "cancelled"
          /\ t \in Stages => kept[t].status # "queued"
    BY DEF Inv, TasksOK, TaskRow
  <1>4. DOMAIN kept = TaskId
    OBVIOUS
  <1> HIDE DEF kept
  <1>5. ASSUME NEW s, task' = With(kept, s)
        PROVE  task'[dc].status = s /\ \A t \in TaskId \ {dc} : task'[t] = kept[t]
    BY <1>2, <1>4, <1>5
  <1> HIDE DEF With
  <1>6. UNCHANGED <<rows, objects, worker, scan>> /\ scan = NoScan /\ ~lease.expired
    BY DEF Delete, FlowInv, Unlisted
  <1>7. doc'.status = "deleting"
    BY DEF Delete, CleanupFailed
  <1>8. ASSUME NEW a \in OpenAttempts
        PROVE  lease.open
    <2>1. PICK t \in TaskId : \E n \in DOMAIN attempts[t] : attempts[t][n] = "running"
      BY DEF OpenAttempts
    <2>2. task[t].status = "running"
      BY <2>1 DEF FlowInv, LastOpen
    <2>3. t \in Stages
      BY <2>2 DEF FlowInv, NoCleanups, TaskId
    <2> QED BY <2>2, <2>3 DEF FlowInv, Slots
  <1>9. CASE /\ OpenAttempts = {} /\ task' = With(kept, "queued") /\ attempts' = attempts
             /\ lease' = Released(lease)
    <2>1. \A t \in TaskId : ~Open(t)
      <3>1. ASSUME NEW t \in TaskId, NEW n \in DOMAIN attempts[t], attempts[t][n] = "running"
            PROVE  <<t, n>> \in OpenAttempts
        BY <3>1 DEF OpenAttempts
      <3> QED BY <1>9, <3>1 DEF Open
    <2>2. \A w \in Worker : ~Working(w)
      <3>1. ASSUME NEW w \in Worker, Working(w)
            PROVE  FALSE
        <4>1. Open(worker[w].task) /\ worker[w].task \in TaskId
          BY <1>2, <3>1 DEF FlowInv, Executing, Open
        <4> QED BY <2>1, <4>1
      <3> QED BY <3>1
    <2>3. \A w \in Worker : Calm(w)'
      BY <1>6, <2>2 DEF Calm, Working, Writes, At
    <2>4. task'[Parse].status # "queued"
      BY <1>2, <1>3, <1>5, <1>9
    <2>5. ParseOver'
      BY <1>2, <1>6, <1>9, <2>1, <2>4 DEF ParseOver, Open, NoScan
    <2>6. ~lease'.open
      BY <1>9 DEF Released, Inv, LeaseOK, LeaseRow
    <2>7. Closed'
      BY <1>7, <2>3, <2>5 DEF Closed
    <2> QED BY <2>6, <2>7 DEF Waited
  <1>10. CASE /\ lease.open /\ task' = With(kept, "pending")
              /\ UNCHANGED <<attempts, lease>>
    <2>1. task'[dc].status = "pending" /\ \A t \in TaskId \ {dc} : task'[t] = kept[t]
      BY <1>5, <1>10
    <2>2. \A t \in Stages : /\ Active(t)' => Active(t)
                            /\ task'[t].retry = task[t].retry
                            /\ task[t].status = "running" => task'[t].status = "running"
      BY <1>2, <1>3, <2>1 DEF Active
    <2>3. Alone
      BY FlowAlone
    <2>4. OneStage'
      BY <2>2, <2>3 DEF Alone, OneStage
    <2>5. Untouched'
      <3>1. ASSUME NEW t \in Cleanups
            PROVE  task'[t].status \in {"absent", "pending"} /\ attempts'[t] = <<>>
        <4>1. t \in TaskId /\ t \notin Stages /\ task[t].status = "absent" /\ attempts[t] = <<>>
          BY <1>2, <3>1 DEF FlowInv, NoCleanups
        <4> QED BY <1>3, <1>10, <2>1, <4>1
      <3> QED BY <3>1 DEF Untouched
    <2>6. LastOpen'
      <3>1. ASSUME NEW t \in TaskId, NEW n \in DOMAIN attempts[t], attempts[t][n] = "running"
            PROVE  n = Len(attempts[t]) /\ task'[t].status = "running"
        <4>1. n = Len(attempts[t]) /\ task[t].status = "running"
          BY <3>1 DEF FlowInv, LastOpen
        <4>2. t \in Stages
          BY <4>1 DEF FlowInv, NoCleanups, TaskId
        <4> QED BY <2>2, <4>1, <4>2
      <3> QED BY <1>10, <3>1 DEF LastOpen
    <2>7. Executing'
      <3>1. Executing
        BY DEF FlowInv
      <3> QED BY <1>6, <1>10, <2>2, <3>1 DEF Executing, Working
    <2>8. Expiring'
      BY <1>6, <1>10 DEF Expiring, NoScan
    <2>9. Waiting'
      BY <1>7, <2>4, <2>5, <2>6, <2>7, <2>8 DEF Waiting, Alone
    <2> QED BY <1>10, <2>9 DEF Waited
  <1>11. CASE (\E a \in OpenAttempts : TRUE) /\ ~lease.open
    BY <1>8, <1>11
  <1> QED BY <1>9, <1>10, <1>11 DEF Delete, With, kept, dc

(***************************************************************************)
(* All the steps                                                           *)
(***************************************************************************)
\* The first DELETE is the step that leaves cycle 0.
LEMMA FirstDelete ==
    ASSUME Inv, ProgressInv, [Next]_vars, doc'.cycle # doc.cycle
    PROVE  Delete
  <1>1. ASSUME NEW w \in Worker,
               \/ ParseDeliver(w) \/ WorkerStep(w) \/ Crash(w)
               \/ \E t \in TaskId : Deliver(w, t)
        PROVE  doc'.cycle = doc.cycle
    BY <1>1, WorkerProgress DEF DeletionKept
  <1>2. CASE \/ Expire \/ ScanExpired \/ RefreshScan \/ ScanOrphans
             \/ \E t \in TaskId : Lose(t) \/ Redispatch(t)
             \/ \E w \in Worker : Redeliver(w)
             \/ UNCHANGED vars
    BY <1>2 DEF Expire, ScanExpired, RefreshScan, ScanOrphans, Lose, Redispatch, Redeliver,
                dbVars, vars
  <1> QED BY <1>1, <1>2, RecoveryCycle DEF Next

\* Every step of a quiet document keeps the invariant.
LEMMA TombStep ==
    ASSUME Prompt, Inv, ProgressInv, UsedOK, LeaseCycle, Undisturbed => FlowInv,
           Quiet => TombInv, [Next]_vars, Quiet'
    PROVE  TombInv'
  <1>1. Quiet /\ TombInv /\ (SameLease \/ doc.cycle = 0)
    BY QuietBefore
  <1>2. doc.cycle \in Nat /\ doc'.cycle \in Nat /\ doc'.cycle >= doc.cycle
    <2>1. Inv'
      BY StepInv
    <2> QED BY <2>1, Bounds, CycleStep DEF Inv, DocOK, Doc
  <1>3. CASE doc.cycle = 0
    <2>1. FlowInv /\ doc.type # "delete_cleanup"
      BY <1>1, <1>3 DEF Quiet, Undisturbed, TombInv
    <2>2. ParsedOwned'
      BY <1>1, <2>1, NoCleanupRuns, OwnedStep DEF TombInv
    <2>3. CASE doc'.cycle = 0
      <3>1. Undisturbed'
        BY <2>3 DEF Undisturbed, Quiet
      <3>2. doc'.type # "delete_cleanup"
        BY <2>1, <3>1, TypeStep
      <3> QED BY <2>2, <2>3, <3>2 DEF TombInv
    <2>4. CASE doc'.cycle # 0
      <3>1. Delete
        BY <1>3, <2>4, FirstDelete
      <3>2. Waited
        BY <2>1, <3>1, DeleteStarts
      <3> QED BY <2>2, <2>4, <3>2 DEF TombInv, Waited
    <2> QED BY <2>3, <2>4
  <1>4. CASE doc.cycle > 0 /\ lease.open
    <2>1. Waiting
      BY <1>1, <1>4 DEF TombInv
    <2>2. ParsedOwned'
      BY <1>1, <2>1, WaitNoCleanup, OwnedStep DEF TombInv
    <2>3. Waited
      BY <1>4, <2>1, WaitStep
    <2>4. doc'.cycle > 0
      BY <1>2, <1>4
    <2> QED BY <2>2, <2>3, <2>4 DEF TombInv, Waited
  <1>5. CASE doc.cycle > 0 /\ ~lease.open
    <2>1. Closed /\ ParsedOwned /\ ~lease'.open
      BY <1>1, <1>5 DEF TombInv, SameLease
    <2>2. \A w \in Worker : CleanupCommit(w) => CleanFiles
      BY <2>1 DEF CleanupCommit, Closed, Calm
    <2>3. ParsedOwned'
      BY <2>1, <2>2, OwnedStep
    <2>4. Closed'
      BY <1>5, <2>1, ClosedStep
    <2>5. doc'.cycle > 0
      BY <1>2, <1>5
    <2> QED BY <2>1, <2>3, <2>4, <2>5 DEF TombInv
  <1> QED BY <1>2, <1>3, <1>4, <1>5

\* It holds in every reachable state.
TombUnlessLoud == LeaseCycle /\ (Prompt /\ Quiet => TombInv)
LEMMA TombInvariance == Spec => []TombUnlessLoud
  <1>1. Init => TombUnlessLoud
    <2> SUFFICES ASSUME Init PROVE LeaseCycle /\ TombInv
      BY DEF TombUnlessLoud
    <2>1. LeaseCycle
      BY DEF Init, LeaseCycle
    <2>2. ParsedOwned
      BY DEF Init, ParsedOwned
    <2>3. doc.cycle = 0 /\ doc.type # "delete_cleanup"
      BY DEF Init
    <2> QED BY <2>1, <2>2, <2>3 DEF TombInv
  <1>2. Inv /\ ProgressInv /\ FlowUnlessDisturbed /\ TombUnlessLoud /\ [Next]_vars
        => TombUnlessLoud'
    <2> SUFFICES ASSUME Inv, ProgressInv, FlowUnlessDisturbed, TombUnlessLoud, [Next]_vars
                 PROVE  TombUnlessLoud'
      OBVIOUS
    <2>1. UsedOK /\ (Undisturbed => FlowInv) /\ LeaseCycle
      BY DEF FlowUnlessDisturbed, TombUnlessLoud
    <2>2. LeaseCycle'
      BY <2>1, LeaseCycleStep
    <2>3. ASSUME Prompt, Quiet'
          PROVE  TombInv'
      <3>1. Quiet => TombInv
        BY <2>3 DEF TombUnlessLoud
      <3> QED BY <2>1, <2>3, <3>1, TombStep
    <2> QED BY <2>2, <2>3 DEF TombUnlessLoud
  <1> QED BY <1>1, <1>2, Invariance, ProgressInvariance, FlowInvariance, PTL DEF Spec

\* For any number of workers and of crashes, faults, mishaps and DELETEs, provided
\* that no live worker outlives its lease: the tombstone is clean, unless a lease
\* expired before the DELETE or was taken after it; a file is left only by a death
\* or, that of parse alone, by a write or a removal that failed.
THEOREM TombstoneIsClean == Spec => [](Prompt => DeletedLeavesNothing)
  <1>1. Inv /\ FlowUnlessDisturbed /\ TombUnlessLoud => (Prompt => DeletedLeavesNothing)
    <2> SUFFICES ASSUME Inv, FlowUnlessDisturbed, TombUnlessLoud, Prompt, Quiet,
                        doc.status = "deleted"
                 PROVE  rows = {} /\ CleanFiles
      BY DEF DeletedLeavesNothing, Quiet, CleanFiles
    <2>1. TombInv
      BY DEF TombUnlessLoud
    <2>2. doc.cycle \in Nat /\ doc.cycle # 0
      BY Bounds DEF FlowUnlessDisturbed, FlowInv, Undisturbed, Quiet, Hidden, Inv, DocOK, Doc
    <2>3. ~Waiting
      BY DEF Waiting
    <2>4. Closed
      BY <2>1, <2>2, <2>3 DEF TombInv
    <2> QED BY <2>4 DEF Closed, Clean
  <1> QED BY <1>1, Invariance, FlowInvariance, TombInvariance, PTL
=============================================================================
