--------------------------- MODULE JobQueueProofs ---------------------------
(***************************************************************************)
(* JobQueue, proved for any workers, processes, options and bounds.        *)
(***************************************************************************)
EXTENDS JobQueue, FiniteSetTheorems, TLAPS

-----------------------------------------------------------------------------
\* What a worker's locals say of its place in Worker.run.
Locals ==
    \A w \in Workers :
        /\ pc[w] = "record" <=> cur[w] # Idle
        /\ pc[w] \notin {"dispatch", "record"} => batch[w] = {}
        /\ pc[w] = "claim" => now[w] <= clock

(***************************************************************************)
(* Types.                                                                  *)
(***************************************************************************)

\* A place of the table is a row exactly when its status is one of a row's,
\* and a worker is dispatching exactly when cur is not Idle.
LEMMA Shapes ==
    ASSUME TypeOK
    PROVE  /\ \A i \in Ids : rows[i].status \in Statuses => rows[i] \in Row
           /\ \A i \in Ids : rows[i] # NoRow => rows[i] \in Row
           /\ \A r \in Row : r # NoRow
           /\ \A w \in Workers : cur[w] # Idle =>
                cur[w] \in [entry : JobRow, outcome : Outcomes]
           /\ \A c \in [entry : JobRow, outcome : Outcomes] : c # Idle
<1>1. \A r \in Row : r # NoRow
  <2> SUFFICES ASSUME NEW r \in Row PROVE r # NoRow
    OBVIOUS
  <2>1. r.status \in Statuses
    BY DEF Row
  <2>2. NoRow.status = "absent"
    BY DEF NoRow
  <2> QED
    BY <2>1, <2>2 DEF Statuses
<1>2. NoRow.status \notin Statuses
  BY DEF NoRow, Statuses
<1>3. \A c \in [entry : JobRow, outcome : Outcomes] : c # Idle
  <2> SUFFICES ASSUME NEW c \in [entry : JobRow, outcome : Outcomes] PROVE c # Idle
    OBVIOUS
  <2>1. c.outcome \in Outcomes
    OBVIOUS
  <2>2. Idle.outcome = "none"
    BY DEF Idle
  <2> QED
    BY <2>1, <2>2 DEF Outcomes
<1> QED
  BY <1>1, <1>2, <1>3 DEF TypeOK

\* Fresh resets a worker's locals to values of their types.
LEMMA FreshType ==
    ASSUME TypeOK, NEW w \in Workers, Fresh(w)
    PROVE  /\ now' \in [Workers -> Nat] /\ claimedAt' \in [Workers -> Nat]
           /\ todo' \in [Workers -> SUBSET Crons]
           /\ firing' \in [Workers -> Crons \cup {NoCron}]
           /\ batch' \in [Workers -> SUBSET JobRow]
           /\ cur' \in [Workers -> [entry : JobRow, outcome : Outcomes] \cup {Idle}]
  BY DEF TypeOK, Fresh

\* What a row becomes when its job is recorded is a row.
LEMMA RecordedType ==
    ASSUME TypeOK, NEW r \in Row, NEW e \in JobRow, NEW outcome \in Outcomes
    PROVE  Recorded(r, e, outcome) \in Row
<1>1. Verdict(e, outcome) \in {"succeeded", "failed", "pending"}
  BY DEF Verdict, Outcomes
<1>2. clock \in Nat /\ e.attempts + 1 \in Nat
  BY DEF TypeOK, JobRow
<1>3. Backoff(e.attempts + 1) \in Int
  BY <1>2, OptionsAssumption DEF Backoff, Doubled
<1>4. clock + Backoff(e.attempts + 1) \in Int
  BY <1>2, <1>3
<1> QED
  BY <1>1, <1>2, <1>4 DEF Recorded, Row, Statuses

\* What a run of a handler adds to the history of a job.
LEMMA RanType ==
    ASSUME NEW run \in Run, NEW outcome \in Outcomes
    PROVE  Ran(run, outcome) \in Run
<1>1. CASE outcome = "ok"
  BY <1>1, Zenon DEF Ran, Run
<1>2. CASE outcome = "error"
  <2>1. run.errors + 1 \in Nat
    BY DEF Run
  <2>2. Ran(run, outcome) = [run EXCEPT !.errors = run.errors + 1]
    BY <1>2 DEF Ran
  <2> QED
    BY <2>1, <2>2, Zenon DEF Run
<1>3. CASE outcome = "missing"
  BY <1>3, Zenon DEF Ran, Run
<1> QED
  BY <1>1, <1>2, <1>3 DEF Outcomes

\* The time a call of enqueue read, and the time its job is due, are naturals.
LEMMA ReadType ==
    ASSUME TypeOK
    PROVE  /\ \A w \in Workers : \A read \in now[w]..clock : read \in Nat
           /\ \A read \in StartTime..clock, d \in Delays : read + d \in Nat
BY OptionsAssumption DEF TypeOK

\* A job that is enqueued gets a row.
LEMMA InsertType ==
    ASSUME TypeOK, NEW n \in Names, NEW due \in Nat, NEW limit \in Nat,
           Insert(n, due, limit)
    PROVE  rows' \in [Ids -> Row \cup {NoRow}] /\ issued' \in 0..MaxJobs
<1>1. issued + 1 \in Serials /\ issued' = issued + 1
  <2>1. issued < MaxJobs /\ issued' = issued + 1 /\ issued \in 0..MaxJobs
    BY DEF Insert, TypeOK
  <2> QED
    BY <2>1, OptionsAssumption DEF Serials
<1>2. NewRow(n, due, limit) \in Row
  BY <1>1 DEF NewRow, Row, Statuses, TypeOK
<1> QED
  BY <1>1, <1>2 DEF Insert, TypeOK, Serials

-----------------------------------------------------------------------------
LEMMA InitType == Init => TypeOK /\ Locals
<1> SUFFICES ASSUME Init PROVE TypeOK /\ Locals
  OBVIOUS
<1>1. rows \in [Ids -> Row \cup {NoRow}] /\ clock \in Nat /\ issued \in 0..MaxJobs
      /\ faults \in 0..MaxFaults
  BY OptionsAssumption DEF Init
<1>2. /\ handlers \in [Queues -> SUBSET Names] /\ crons \in [Queues -> SUBSET Crons]
      /\ lastFired \in [Queues -> [Crons -> Nat]] /\ shutdown \in [Queues -> BOOLEAN]
  BY DEF Init
<1>3. /\ pc \in [Workers -> Steps] /\ todo \in [Workers -> SUBSET Crons]
      /\ now \in [Workers -> Nat] /\ claimedAt \in [Workers -> Nat]
      /\ firing \in [Workers -> Crons \cup {NoCron}]
  BY DEF Init, Steps
<1>4. /\ batch \in [Workers -> SUBSET JobRow]
      /\ cur \in [Workers -> [entry : JobRow, outcome : Outcomes] \cup {Idle}]
  BY DEF Init
<1>5. runs \in [Serials -> Run]
  BY DEF Init, Run
<1>6. Locals
  BY DEF Init, Locals
<1> QED
  BY <1>1, <1>2, <1>3, <1>4, <1>5, <1>6 DEF TypeOK

\* Every action keeps the types.
LEMMA TypeStep == TypeOK /\ Locals /\ [Next]_vars => TypeOK'
<1> SUFFICES ASSUME TypeOK, Locals, [Next]_vars PROVE TypeOK'
  OBVIOUS
<1> USE DEF TypeOK
<1>1. ASSUME NEW n \in Names, NEW d \in Delays, NEW m \in AttemptLimits, Enqueue(n, d, m)
      PROVE  TypeOK'
  <2>1. rows' \in [Ids -> Row \cup {NoRow}] /\ issued' \in 0..MaxJobs
    BY <1>1, InsertType, ReadType, OptionsAssumption DEF Enqueue
  <2> QED
    BY <2>1, <1>1 DEF Enqueue, queueVars, workerVars
<1>2. ASSUME NEW older \in Retention, Cleanup(older) PROVE TypeOK'
  BY <1>2 DEF Cleanup, Expired, queueVars, workerVars
<1>3. ASSUME NEW q \in Queues, NEW n \in Names, RegisterHandler(q, n) PROVE TypeOK'
  BY <1>3 DEF RegisterHandler, tableVars, workerVars
<1>4. ASSUME NEW q \in Queues, NEW c \in Crons, RegisterCron(q, c) PROVE TypeOK'
  <2>1. /\ crons' \in [Queues -> SUBSET Crons]
        /\ lastFired' \in [Queues -> [Crons -> Nat]]
    BY <1>4 DEF RegisterCron
  <2> QED
    BY <2>1, <1>4 DEF RegisterCron, tableVars, workerVars
<1>5. ASSUME NEW q \in Queues, Stop(q) PROVE TypeOK'
  BY <1>5 DEF Stop, tableVars, workerVars
<1>6. ASSUME NEW q \in Queues, Crash(q) PROVE TypeOK'
  <2>1. /\ handlers' \in [Queues -> SUBSET Names] /\ crons' \in [Queues -> SUBSET Crons]
        /\ lastFired' \in [Queues -> [Crons -> Nat]] /\ shutdown' \in [Queues -> BOOLEAN]
    BY <1>6 DEF Crash
  <2>2. /\ pc' \in [Workers -> Steps] /\ todo' \in [Workers -> SUBSET Crons]
        /\ now' \in [Workers -> Nat] /\ claimedAt' \in [Workers -> Nat]
        /\ firing' \in [Workers -> Crons \cup {NoCron}]
    BY <1>6 DEF Crash, Steps
  <2>3. /\ batch' \in [Workers -> SUBSET JobRow]
        /\ cur' \in [Workers -> [entry : JobRow, outcome : Outcomes] \cup {Idle}]
    BY <1>6 DEF Crash
  <2>4. faults' \in 0..MaxFaults
    BY <1>6, OptionsAssumption DEF Crash
  <2> QED
    BY <2>1, <2>2, <2>3, <2>4, <1>6 DEF Crash, tableVars
<1>7. ASSUME NEW w \in Workers, Spawn(w) PROVE TypeOK'
  BY <1>7 DEF Spawn, tableVars, queueVars, Steps
<1>8. ASSUME NEW w \in Workers, Poll(w) PROVE TypeOK'
  <2>1. pc' \in [Workers -> Steps]
    BY <1>8 DEF Poll, Steps
  <2>2. crons[QueueOf[w]] \in SUBSET Crons
    BY OptionsAssumption
  <2>3. now' \in [Workers -> Nat] /\ todo' \in [Workers -> SUBSET Crons]
    BY <1>8, <2>2 DEF Poll
  <2> QED
    BY <2>1, <2>3, <1>8 DEF Poll, tableVars, queueVars
<1>9. ASSUME NEW w \in Workers, DrainBatch(w) PROVE TypeOK'
  BY <1>9 DEF DrainBatch, tableVars, queueVars, Steps
<1>10. ASSUME NEW w \in Workers, Claim(w) PROVE TypeOK'
  <2>1. PICK S \in Selections(now[w]) :
          /\ rows' = [i \in Ids |-> IF i \in S
                THEN [rows[i] EXCEPT !.status = "running", !.updated = clock]
                ELSE rows[i]]
          /\ \/ pc' = [pc EXCEPT ![w] = "poll"] /\ Fresh(w) /\ UNCHANGED faults
             \/ /\ pc' = [pc EXCEPT ![w] = "dispatch"]
                /\ batch' = [batch EXCEPT ![w] = {CopyOf(i) : i \in S}]
                /\ claimedAt' = [claimedAt EXCEPT ![w] = clock]
                /\ now' = [now EXCEPT ![w] = 0]
                /\ UNCHANGED <<todo, firing, cur, faults>>
             \/ /\ faults < MaxFaults /\ faults' = faults + 1
                /\ pc' = [pc EXCEPT ![w] = "down"] /\ Fresh(w)
    BY <1>10 DEF Claim
  <2>2. \A i \in S : i \in Ids /\ rows[i] \in Row
    BY Shapes DEF Selections, Claimable, Statuses
  <2>3. \A r \in Row : [r EXCEPT !.status = "running", !.updated = clock] \in Row
    BY DEF Row, Statuses
  <2>4. rows' \in [Ids -> Row \cup {NoRow}]
    BY <2>1, <2>2, <2>3
  <2>5. \A i \in S : CopyOf(i) \in JobRow
    BY <2>2 DEF CopyOf, Row, JobRow
  <2>6. {CopyOf(i) : i \in S} \in SUBSET JobRow
    BY <2>5
  <2>7. CASE pc' = [pc EXCEPT ![w] = "poll"] /\ Fresh(w) /\ UNCHANGED faults
    BY <2>4, <2>7, FreshType, <1>10 DEF Claim, queueVars, Steps
  <2>8. CASE /\ pc' = [pc EXCEPT ![w] = "dispatch"]
             /\ batch' = [batch EXCEPT ![w] = {CopyOf(i) : i \in S}]
             /\ claimedAt' = [claimedAt EXCEPT ![w] = clock]
             /\ now' = [now EXCEPT ![w] = 0]
             /\ UNCHANGED <<todo, firing, cur, faults>>
    <3>1. batch' \in [Workers -> SUBSET JobRow]
      BY <2>6, <2>8
    <3>2. claimedAt' \in [Workers -> Nat] /\ now' \in [Workers -> Nat]
      BY <2>8
    <3>3. pc' \in [Workers -> Steps]
      BY <2>8 DEF Steps
    <3> QED
      BY <2>4, <2>8, <3>1, <3>2, <3>3, <1>10 DEF Claim, queueVars
  <2>9. CASE /\ faults < MaxFaults /\ faults' = faults + 1
             /\ pc' = [pc EXCEPT ![w] = "down"] /\ Fresh(w)
    <3>1. faults' \in 0..MaxFaults
      BY <2>9, OptionsAssumption
    <3>2. pc' \in [Workers -> Steps]
      BY <2>9 DEF Steps
    <3> QED
      BY <2>4, <2>9, <3>1, <3>2, FreshType, <1>10 DEF Claim, queueVars
  <2> QED
    BY <2>1, <2>7, <2>8, <2>9
<1>11. ASSUME NEW w \in Workers, Dispatch(w) PROVE TypeOK'
  <2>1. PICK e \in batch[w], outcome \in Outcomes :
          /\ cur' = [cur EXCEPT ![w] = [entry |-> e, outcome |-> outcome]]
          /\ batch' = [batch EXCEPT ![w] = @ \ {e}]
          /\ runs' = [runs EXCEPT ![e.serial] = Ran(@, outcome)]
    BY <1>11 DEF Dispatch, OutcomesOf, Outcomes
  <2>2. e \in JobRow /\ e.serial \in Serials
    BY DEF JobRow
  <2>3. runs' \in [Serials -> Run]
    BY <2>1, <2>2, RanType
  <2>4. pc' \in [Workers -> Steps]
    BY <1>11 DEF Dispatch, Steps
  <2> QED
    BY <2>1, <2>2, <2>3, <2>4, <1>11 DEF Dispatch, tableVars, queueVars
<1>12. ASSUME NEW w \in Workers, Record(w) PROVE TypeOK'
  <2> DEFINE e == cur[w].entry
             outcome == cur[w].outcome
  <2>1. e \in JobRow /\ outcome \in Outcomes /\ e.id \in Ids
    BY <1>12, Shapes DEF Record, JobRow, Locals
  <2>2. rows' = [rows EXCEPT ![e.id] = IF @ = NoRow THEN @ ELSE Recorded(@, e, outcome)]
    BY <1>12 DEF Record
  <2>3. rows[e.id] # NoRow => Recorded(rows[e.id], e, outcome) \in Row
    BY <2>1, RecordedType, Shapes
  <2>4. rows' \in [Ids -> Row \cup {NoRow}]
    BY <2>1, <2>2, <2>3
  <2>5. pc' \in [Workers -> Steps]
    BY <1>12 DEF Record, Steps
  <2>6. /\ now' \in [Workers -> Nat] /\ claimedAt' \in [Workers -> Nat]
        /\ todo' \in [Workers -> SUBSET Crons]
        /\ firing' \in [Workers -> Crons \cup {NoCron}]
        /\ batch' \in [Workers -> SUBSET JobRow]
        /\ cur' \in [Workers -> [entry : JobRow, outcome : Outcomes] \cup {Idle}]
    BY <1>12, FreshType DEF Record
  <2> QED
    BY <2>4, <2>5, <2>6, <1>12 DEF Record, queueVars
<1>13. ASSUME NEW w \in Workers, CronMark(w) PROVE TypeOK'
  <2>1. lastFired' \in [Queues -> [Crons -> Nat]]
    BY <1>13, OptionsAssumption DEF CronMark
  <2>2. todo' \in [Workers -> SUBSET Crons] /\ firing' \in [Workers -> Crons \cup {NoCron}]
    BY <1>13 DEF CronMark
  <2> QED
    BY <2>1, <2>2, <1>13 DEF CronMark, tableVars
<1>14. ASSUME NEW w \in Workers, NEW c \in Crons, CronCheck(w, c) PROVE TypeOK'
  <2>1. CASE /\ \E read \in now[w]..clock : Insert(CronName[c], read, DefaultAttempts)
             /\ firing' = [firing EXCEPT ![w] = c] /\ UNCHANGED todo
    <3>1. rows' \in [Ids -> Row \cup {NoRow}] /\ issued' \in 0..MaxJobs
      BY <2>1, InsertType, ReadType, OptionsAssumption
    <3> QED
      BY <3>1, <2>1, <1>14 DEF CronCheck, queueVars
  <2>2. CASE todo' = [todo EXCEPT ![w] = @ \ {c}] /\ UNCHANGED <<tableVars, firing>>
    BY <2>2, <1>14 DEF CronCheck, queueVars, tableVars
  <2> QED
    BY <2>1, <2>2, <1>14 DEF CronCheck
<1>15. ASSUME NEW w \in Workers, RunFails(w) PROVE TypeOK'
  <2>1. faults' \in 0..MaxFaults
    BY <1>15, OptionsAssumption DEF RunFails
  <2>2. pc' \in [Workers -> Steps]
    BY <1>15 DEF RunFails, Steps
  <2> QED
    BY <2>1, <2>2, FreshType, <1>15 DEF RunFails, tableVars, queueVars
<1>16. CASE Tick
  BY <1>16 DEF Tick, tableVars, queueVars, workerVars
<1>17. CASE UNCHANGED vars
  BY <1>17 DEF vars, tableVars, queueVars, workerVars
<1> QED
  BY <1>1, <1>2, <1>3, <1>4, <1>5, <1>6, <1>7, <1>8, <1>9, <1>10, <1>11, <1>12, <1>13,
     <1>14, <1>15, <1>16, <1>17 DEF Next, WorkerStep

LEMMA LocalsStep == TypeOK /\ Locals /\ [Next]_vars => Locals'
<1> SUFFICES ASSUME TypeOK, Locals, [Next]_vars PROVE Locals'
  OBVIOUS
<1> USE DEF Locals
<1>t. pc \in [Workers -> Steps] /\ clock \in Nat
      /\ now \in [Workers -> Nat] /\ batch \in [Workers -> SUBSET JobRow]
      /\ cur \in [Workers -> [entry : JobRow, outcome : Outcomes] \cup {Idle}]
  BY DEF TypeOK
<1>1. CASE UNCHANGED <<pc, now, batch, cur, clock>>
  BY <1>1
<1>2. ASSUME NEW q \in Queues, Crash(q) PROVE Locals'
  BY <1>2, <1>t DEF Crash
<1>3. ASSUME NEW w \in Workers, Spawn(w) \/ Poll(w) \/ DrainBatch(w) PROVE Locals'
  BY <1>3, <1>t DEF Spawn, Poll, DrainBatch
<1>4. ASSUME NEW w \in Workers, Claim(w) PROVE Locals'
  BY <1>4, <1>t DEF Claim, Fresh
<1>5. ASSUME NEW w \in Workers, Dispatch(w) PROVE Locals'
  <2>1. PICK e \in batch[w], outcome \in Outcomes :
          /\ cur' = [cur EXCEPT ![w] = [entry |-> e, outcome |-> outcome]]
          /\ batch' = [batch EXCEPT ![w] = @ \ {e}]
    BY <1>5 DEF Dispatch, OutcomesOf, Outcomes
  <2>2. [entry |-> e, outcome |-> outcome] # Idle
    BY <1>t, Shapes
  <2> QED
    BY <2>1, <2>2, <1>5, <1>t DEF Dispatch
<1>6. ASSUME NEW w \in Workers, Record(w) PROVE Locals'
  BY <1>6, <1>t DEF Record, Fresh
<1>7. ASSUME NEW w \in Workers, RunFails(w) PROVE Locals'
  BY <1>7, <1>t DEF RunFails, Fresh
<1>8. CASE Tick
  BY <1>8, <1>t DEF Tick, workerVars
<1>9. CASE \/ \E n \in Names, d \in Delays, m \in AttemptLimits : Enqueue(n, d, m)
           \/ \E older \in Retention : Cleanup(older)
           \/ \E q \in Queues, n \in Names : RegisterHandler(q, n)
           \/ \E q \in Queues, c \in Crons : RegisterCron(q, c)
           \/ \E q \in Queues : Stop(q)
           \/ \E w \in Workers : CronMark(w)
           \/ \E w \in Workers, c \in Crons : CronCheck(w, c)
           \/ UNCHANGED vars
  BY <1>9, <1>1 DEF Enqueue, Cleanup, Expired, RegisterHandler, RegisterCron, Stop, CronMark,
                    CronCheck, workerVars, vars
<1> QED
  BY <1>2, <1>3, <1>4, <1>5, <1>6, <1>7, <1>8, <1>9 DEF Next, WorkerStep

\* Every state of every behaviour has the types of TypeOK.
THEOREM TypeCorrect == Spec => []TypeOK
<1>1. Init => TypeOK /\ Locals
  BY InitType
<1>2. TypeOK /\ Locals /\ [Next]_vars => (TypeOK /\ Locals)'
  BY TypeStep, LocalsStep
<1> QED
  BY <1>1, <1>2, PTL DEF Spec

-----------------------------------------------------------------------------
(***************************************************************************)
(* Ownership: while every batch is finished within its lease, a worker     *)
(* owns the rows it claimed until it records what became of them.          *)
(***************************************************************************)
Mine(w, e) ==
    /\ rows[e.id].status = "running" /\ rows[e.id].updated = claimedAt[w]
    /\ rows[e.id].serial = e.serial
    /\ clock < claimedAt[w] + Lease

Ownership ==
    /\ \A w \in Workers : \A e \in Held(w) : Mine(w, e)
    /\ \A v, w \in Workers : \A e \in Held(v), f \in Held(w) : e.id = f.id => v = w /\ e = f
    /\ \A w \in Workers : cur[w] # Idle => cur[w].entry \notin batch[w]

LEMMA HeldType ==
    ASSUME TypeOK, NEW w \in Workers, NEW e \in Held(w)
    PROVE  e \in JobRow /\ e.id \in Ids /\ e.serial \in Serials
<1>1. batch[w] \in SUBSET JobRow
      /\ cur[w] \in [entry : JobRow, outcome : Outcomes] \cup {Idle}
  BY DEF TypeOK
<1>2. e \in JobRow
  BY <1>1 DEF Held
<1> QED
  BY <1>2 DEF JobRow

\* An insertion leaves every row there is alone.
LEMMA InsertKeeps ==
    ASSUME TypeOK, NEW n \in Names, NEW due \in Nat, NEW limit \in Nat,
           Insert(n, due, limit), NEW i \in Ids, rows[i] # NoRow
    PROVE  rows'[i] = rows[i]
<1>1. PICK k \in Ids : IsNewId(k) /\ rows' = [rows EXCEPT ![k] = NewRow(n, due, limit)]
  BY DEF Insert
<1>2. i \in Live
  BY DEF Live
<1>3. k # i
  BY <1>1, <1>2 DEF IsNewId, Ids
<1> QED
  BY <1>1, <1>3 DEF TypeOK

\* Hands that are emptied or left alone, over rows that are left alone.
LEMMA OwnershipKept ==
    ASSUME TypeOK, Ownership, clock' = clock,
           \A w \in Workers :
               \/ batch'[w] = {} /\ cur'[w] = Idle
               \/ batch'[w] = batch[w] /\ cur'[w] = cur[w] /\ claimedAt'[w] = claimedAt[w],
           \A w \in Workers : \A e \in Held(w) : rows'[e.id] = rows[e.id]
    PROVE  Ownership'
<1>1. ASSUME NEW w \in Workers, NEW e \in Held(w)'
      PROVE  /\ e \in Held(w) /\ batch'[w] = batch[w] /\ cur'[w] = cur[w]
             /\ claimedAt'[w] = claimedAt[w]
  BY <1>1 DEF Held
<1>2. \A w \in Workers : \A e \in Held(w)' : Mine(w, e)'
  BY <1>1 DEF Ownership, Mine
<1>3. \A v, w \in Workers : \A e \in Held(v)', f \in Held(w)' : e.id = f.id => v = w /\ e = f
  BY <1>1 DEF Ownership
<1>4. \A w \in Workers : cur'[w] # Idle => cur'[w].entry \notin batch'[w]
  BY DEF Ownership
<1> QED
  BY <1>2, <1>3, <1>4 DEF Ownership

\* A claim takes no row another worker owns: its lease has not run out.
LEMMA ClaimSpares ==
    ASSUME TypeOK, Locals, Ownership, NEW w \in Workers, pc[w] = "claim",
           NEW i \in Ids, Claimable(i, now[w]),
           NEW v \in Workers, NEW e \in Held(v)
    PROVE  e.id # i
<1>1. SUFFICES ASSUME e.id = i PROVE FALSE
  OBVIOUS
<1>2. /\ rows[i].status = "running" /\ rows[i].updated = claimedAt[v]
      /\ clock < claimedAt[v] + Lease
  BY <1>1 DEF Ownership, Mine
<1>3. rows[i].updated <= now[w] - Lease
  BY <1>2 DEF Claimable
<1>4. now[w] <= clock /\ now[w] \in Nat /\ clock \in Nat /\ claimedAt[v] \in Nat
  BY DEF Locals, TypeOK
<1> QED
  BY <1>2, <1>3, <1>4, OptionsAssumption

\* A verdict leaves every row alone that is still in somebody's hands.
LEMMA RecordLeaves ==
    ASSUME TypeOK, Locals, Ownership, NEW w \in Workers, Record(w)
    PROVE  \A v \in Workers : \A e \in Held(v)' :
               e \in Held(v) /\ claimedAt'[v] = claimedAt[v] /\ rows'[e.id] = rows[e.id]
<1>t. /\ claimedAt \in [Workers -> Nat] /\ batch \in [Workers -> SUBSET JobRow]
      /\ cur \in [Workers -> [entry : JobRow, outcome : Outcomes] \cup {Idle}]
      /\ rows \in [Ids -> Row \cup {NoRow}]
  BY DEF TypeOK
<1>1. /\ cur[w] # Idle
      /\ rows' = [rows EXCEPT ![cur[w].entry.id] =
                      IF @ = NoRow THEN @ ELSE Recorded(@, cur[w].entry, cur[w].outcome)]
  BY DEF Record, Locals
<1>2. \/ batch[w] = {} /\ Fresh(w)
      \/ cur' = [cur EXCEPT ![w] = Idle] /\ UNCHANGED <<batch, claimedAt>>
  BY DEF Record
<1>3. cur[w].entry \in Held(w) /\ cur[w].entry \notin batch[w]
  BY <1>1 DEF Held, Ownership
<1>4. ASSUME NEW v \in Workers, NEW e \in Held(v)'
      PROVE  e \in Held(v) /\ claimedAt'[v] = claimedAt[v] /\ e # cur[w].entry
  <2>1. CASE v = w
    BY <2>1, <1>2, <1>3, <1>4, <1>t DEF Held, Fresh
  <2>2. CASE v # w
    <3>1. batch'[v] = batch[v] /\ cur'[v] = cur[v] /\ claimedAt'[v] = claimedAt[v]
      BY <2>2, <1>2, <1>t DEF Fresh
    <3>2. e \in Held(v)
      BY <3>1, <1>4 DEF Held
    <3> QED
      BY <2>2, <3>1, <3>2, <1>3 DEF Ownership
  <2> QED
    BY <2>1, <2>2
<1>5. \A v \in Workers : \A e \in Held(v)' : rows'[e.id] = rows[e.id]
  BY <1>1, <1>3, <1>4, <1>t DEF Ownership
<1> QED
  BY <1>4, <1>5

LEMMA OwnershipStep ==
    TypeOK /\ Locals /\ Ownership /\ Punctual /\ [Next]_vars => Ownership'
<1> SUFFICES ASSUME TypeOK, Locals, Ownership, Punctual, [Next]_vars PROVE Ownership'
  OBVIOUS
<1>t. /\ pc \in [Workers -> Steps] /\ clock \in Nat /\ claimedAt \in [Workers -> Nat]
      /\ now \in [Workers -> Nat] /\ batch \in [Workers -> SUBSET JobRow]
      /\ cur \in [Workers -> [entry : JobRow, outcome : Outcomes] \cup {Idle}]
      /\ rows \in [Ids -> Row \cup {NoRow}]
  BY DEF TypeOK
<1>r. \A v \in Workers : \A e \in Held(v) : e.id \in Ids /\ rows[e.id] # NoRow
                                           /\ rows[e.id].status = "running"
  <2> SUFFICES ASSUME NEW v \in Workers, NEW e \in Held(v)
               PROVE  e.id \in Ids /\ rows[e.id] # NoRow /\ rows[e.id].status = "running"
    OBVIOUS
  <2>1. rows[e.id].status = "running"
    BY DEF Ownership, Mine
  <2> QED
    BY <2>1, HeldType DEF NoRow
<1>1. ASSUME NEW n \in Names, NEW d \in Nat, NEW m \in Nat, Insert(n, d, m),
             UNCHANGED <<batch, cur, claimedAt, clock>>
      PROVE  Ownership'
  <2>1. \A v \in Workers : \A e \in Held(v) : rows'[e.id] = rows[e.id]
    BY <1>1, <1>r, InsertKeeps
  <2> QED
    BY <2>1, <1>1, OwnershipKept
<1>2. ASSUME NEW older \in Retention, Cleanup(older) PROVE Ownership'
  <2>1. \A v \in Workers : \A e \in Held(v) : rows'[e.id] = rows[e.id]
    BY <1>2, <1>r DEF Cleanup, Expired, Terminal
  <2> QED
    BY <2>1, <1>2, OwnershipKept DEF Cleanup, Expired, workerVars
<1>3. CASE UNCHANGED <<rows, batch, cur, claimedAt, clock>>
  BY <1>3, OwnershipKept
<1>4. ASSUME NEW q \in Queues, Crash(q) PROVE Ownership'
  BY <1>4, <1>t, OwnershipKept DEF Crash, tableVars
<1>5. ASSUME NEW w \in Workers, RunFails(w) PROVE Ownership'
  BY <1>5, <1>t, OwnershipKept DEF RunFails, Fresh, tableVars
<1>6. ASSUME NEW w \in Workers, Claim(w) PROVE Ownership'
  <2>1. PICK S \in Selections(now[w]) :
          /\ rows' = [i \in Ids |-> IF i \in S
                THEN [rows[i] EXCEPT !.status = "running", !.updated = clock]
                ELSE rows[i]]
          /\ \/ Fresh(w)
             \/ /\ batch' = [batch EXCEPT ![w] = {CopyOf(i) : i \in S}]
                /\ claimedAt' = [claimedAt EXCEPT ![w] = clock]
                /\ cur' = cur
    BY <1>6 DEF Claim
  <2>2. pc[w] = "claim" /\ clock' = clock /\ cur[w] = Idle /\ batch[w] = {}
    BY <1>6, <1>t DEF Claim, Locals
  <2>3. \A i \in S : i \in Ids /\ Claimable(i, now[w])
    BY <2>1 DEF Selections
  <2>4. \A v \in Workers : \A e \in Held(v) : rows'[e.id] = rows[e.id] /\ e.id \notin S
    BY <2>1, <2>2, <2>3, <1>r, ClaimSpares
  <2>5. CASE Fresh(w)
    BY <2>5, <2>2, <2>4, <1>t, OwnershipKept DEF Fresh
  <2>6. CASE /\ batch' = [batch EXCEPT ![w] = {CopyOf(i) : i \in S}]
             /\ claimedAt' = [claimedAt EXCEPT ![w] = clock]
             /\ cur' = cur
    <3>1. Held(w)' = {CopyOf(i) : i \in S} /\ claimedAt'[w] = clock
      BY <2>2, <2>6, <1>t DEF Held
    <3>2. \A v \in Workers \ {w} : Held(v)' = Held(v) /\ claimedAt'[v] = claimedAt[v]
      BY <2>6, <1>t DEF Held
    <3>3. ASSUME NEW e \in Held(w)' PROVE Mine(w, e)' /\ e.id \in S
      <4>1. PICK i \in S : e = CopyOf(i)
        BY <3>1, <3>3
      <4>2. e.id = i /\ e.serial = rows[i].serial
        BY <4>1 DEF CopyOf
      <4>3. rows[i] \in Row
        BY <2>3, Shapes DEF Claimable, Statuses
      <4>4. rows'[i] = [rows[i] EXCEPT !.status = "running", !.updated = clock]
        BY <2>1, <2>3
      <4>5. /\ rows'[i].status = "running" /\ rows'[i].updated = clock
            /\ rows'[i].serial = rows[i].serial
        BY <4>3, <4>4 DEF Row
      <4>6. clock < clock + Lease
        BY <1>t, OptionsAssumption
      <4> QED
        BY <4>2, <4>5, <4>6, <3>1, <2>2 DEF Mine
    <3>4. \A v \in Workers \ {w} : \A e \in Held(v)' : Mine(v, e)' /\ e.id \notin S
      BY <3>2, <2>4, <2>2 DEF Ownership, Mine
    <3>5. \A e, f \in Held(w)' : e.id = f.id => e = f
      BY <3>1 DEF CopyOf
    <3>6. \A v, u \in Workers : \A e \in Held(v)', f \in Held(u)' :
            e.id = f.id => v = u /\ e = f
      BY <3>2, <3>3, <3>4, <3>5 DEF Ownership
    <3>7. \A v \in Workers : cur'[v] # Idle => cur'[v].entry \notin batch'[v]
      BY <2>2, <2>6, <1>t DEF Ownership
    <3> QED
      BY <3>3, <3>4, <3>6, <3>7 DEF Ownership
  <2> QED
    BY <2>1, <2>5, <2>6
<1>7. ASSUME NEW w \in Workers, Dispatch(w) PROVE Ownership'
  <2>1. PICK e \in batch[w], outcome \in Outcomes :
          /\ cur' = [cur EXCEPT ![w] = [entry |-> e, outcome |-> outcome]]
          /\ batch' = [batch EXCEPT ![w] = @ \ {e}]
    BY <1>7 DEF Dispatch, OutcomesOf, Outcomes
  <2>2. cur[w] = Idle
    BY <1>7 DEF Dispatch, Locals
  <2>3. [entry |-> e, outcome |-> outcome] # Idle
    BY <1>t, Shapes
  <2>4. \A v \in Workers : Held(v)' = Held(v)
    BY <2>1, <2>2, <2>3, <1>t DEF Held
  <2>5. rows' = rows /\ clock' = clock /\ claimedAt' = claimedAt
    BY <1>7 DEF Dispatch, tableVars
  <2>6. \A v \in Workers : cur'[v] # Idle => cur'[v].entry \notin batch'[v]
    BY <2>1, <1>t DEF Ownership
  <2> QED
    BY <2>4, <2>5, <2>6 DEF Ownership, Mine
<1>8. ASSUME NEW w \in Workers, Record(w) PROVE Ownership'
  <2>1. /\ clock' = clock
        /\ \/ Fresh(w)
           \/ cur' = [cur EXCEPT ![w] = Idle] /\ batch' = batch
    BY <1>8 DEF Record
  <2>2. \A v \in Workers : \A e \in Held(v)' :
            e \in Held(v) /\ claimedAt'[v] = claimedAt[v] /\ rows'[e.id] = rows[e.id]
    BY <1>8, RecordLeaves
  <2>3. \A v \in Workers : cur'[v] # Idle => cur'[v].entry \notin batch'[v]
    BY <2>1, <1>t DEF Ownership, Fresh
  <2>4. \A v \in Workers : \A e \in Held(v)' : Mine(v, e)'
    BY <2>1, <2>2 DEF Ownership, Mine
  <2>5. \A v, u \in Workers : \A e \in Held(v)', f \in Held(u)' :
          e.id = f.id => v = u /\ e = f
    BY <2>2 DEF Ownership
  <2> QED
    BY <2>3, <2>4, <2>5 DEF Ownership
<1>9. CASE Tick
  <2>1. /\ clock' = clock + 1 /\ UNCHANGED <<rows, batch, cur, claimedAt>>
        /\ \A w \in Workers : Held(w) # {} => clock + 1 < claimedAt[w] + Lease
    BY <1>9 DEF Tick, workerVars, tableVars
  <2>2. \A w \in Workers : Held(w)' = Held(w)
    BY <2>1 DEF Held
  <2> QED
    BY <2>1, <2>2 DEF Ownership, Mine
<1>10. ASSUME NEW w \in Workers, NEW c \in Crons, CronCheck(w, c) PROVE Ownership'
  <2>1. CASE \E read \in now[w]..clock : Insert(CronName[c], read, DefaultAttempts)
    BY <2>1, <1>10, <1>1, ReadType, OptionsAssumption DEF CronCheck
  <2>2. CASE UNCHANGED tableVars
    BY <2>2, <1>10, <1>3 DEF CronCheck, tableVars
  <2> QED
    BY <2>1, <2>2, <1>10 DEF CronCheck
<1>11. CASE \E n \in Names, d \in Delays, m \in AttemptLimits : Enqueue(n, d, m)
  BY <1>11, <1>1, ReadType, OptionsAssumption DEF Enqueue, workerVars
<1>12. CASE \/ \E q \in Queues, n \in Names : RegisterHandler(q, n)
            \/ \E q \in Queues, c \in Crons : RegisterCron(q, c)
            \/ \E q \in Queues : Stop(q)
            \/ \E w \in Workers : CronMark(w) \/ Spawn(w) \/ Poll(w) \/ DrainBatch(w)
            \/ UNCHANGED vars
  BY <1>12, <1>3 DEF RegisterHandler, RegisterCron, Stop, CronMark, Spawn, Poll, DrainBatch,
                     workerVars, tableVars, vars
<1> QED
  BY <1>2, <1>4, <1>5, <1>6, <1>7, <1>8, <1>9, <1>10, <1>11, <1>12 DEF Next, WorkerStep

LEMMA InitOwnership == Init => Ownership
  BY DEF Init, Ownership, Held

\* Every row is in the hands of at most one worker, which it is marked running
\* for: the claim of drainBatch is the ownership boundary its comment says.
THEOREM Exclusive ==
    ASSUME Punctual
    PROVE  Spec => []ExclusiveClaim
<1>1. Init => TypeOK /\ Locals /\ Ownership
  BY InitType, InitOwnership
<1>2. TypeOK /\ Locals /\ Ownership /\ [Next]_vars => (TypeOK /\ Locals /\ Ownership)'
  BY TypeStep, LocalsStep, OwnershipStep
<1>3. Ownership => ExclusiveClaim
  BY DEF Ownership, ExclusiveClaim, Mine
<1> QED
  BY <1>1, <1>2, <1>3, PTL DEF Spec

\* succeeded and failed are final while batches are punctual: such a row is
\* never claimed again, and no late verdict is written over it.
THEOREM Final ==
    ASSUME Punctual
    PROVE  Spec => TerminalFinal
<1> DEFINE Settled(i) == rows[i] # NoRow /\ Terminal(rows[i]) /\ rows'[i] # NoRow =>
                           rows'[i] = rows[i] \/ rows'[i].serial # rows[i].serial
<1>1. TypeOK /\ Locals /\ Ownership /\ [Next]_vars => [\A i \in Ids : Settled(i)]_vars
  <2> SUFFICES ASSUME TypeOK, Locals, Ownership, Next, NEW i \in Ids,
                      rows[i] # NoRow, Terminal(rows[i]), rows'[i] # NoRow
               PROVE  rows'[i] = rows[i]
    BY DEF vars
  <2>t. rows \in [Ids -> Row \cup {NoRow}]
    BY DEF TypeOK
  <2>1. ASSUME NEW n \in Names, NEW d \in Nat, NEW m \in Nat, Insert(n, d, m)
        PROVE  rows'[i] = rows[i]
    BY <2>1, InsertKeeps
  <2>2. ASSUME NEW older \in Retention, Cleanup(older) PROVE rows'[i] = rows[i]
    BY <2>2 DEF Cleanup, Expired
  <2>3. CASE UNCHANGED rows
    BY <2>3
  <2>4. ASSUME NEW w \in Workers, Claim(w) PROVE rows'[i] = rows[i]
    <3>1. PICK S \in Selections(now[w]) :
            rows' = [k \in Ids |-> IF k \in S
                  THEN [rows[k] EXCEPT !.status = "running", !.updated = clock]
                  ELSE rows[k]]
      BY <2>4 DEF Claim
    <3>2. ~Claimable(i, now[w])
      BY DEF Terminal, Claimable
    <3> QED
      BY <3>1, <3>2 DEF Selections
  <2>5. ASSUME NEW w \in Workers, Record(w) PROVE rows'[i] = rows[i]
    <3>1. cur[w] # Idle
      BY <2>5 DEF Record, Locals
    <3>2. cur[w].entry \in Held(w)
      BY <3>1 DEF Held
    <3>3. rows[cur[w].entry.id].status = "running"
      BY <3>2 DEF Ownership, Mine
    <3>4. cur[w].entry.id # i
      BY <3>3 DEF Terminal
    <3> QED
      BY <2>5, <2>t, <3>4 DEF Record
  <2>6. ASSUME NEW w \in Workers, NEW c \in Crons, CronCheck(w, c) PROVE rows'[i] = rows[i]
    BY <2>6, <2>1, <2>3, ReadType, OptionsAssumption DEF CronCheck, tableVars
  <2>7. CASE \E n \in Names, d \in Delays, m \in AttemptLimits : Enqueue(n, d, m)
    BY <2>7, <2>1, ReadType, OptionsAssumption DEF Enqueue
  <2>8. CASE \/ \E q \in Queues, n \in Names : RegisterHandler(q, n)
             \/ \E q \in Queues, c \in Crons : RegisterCron(q, c)
             \/ \E q \in Queues : Stop(q) \/ Crash(q)
             \/ \E w \in Workers : CronMark(w) \/ Spawn(w) \/ Poll(w) \/ DrainBatch(w)
                                  \/ Dispatch(w) \/ RunFails(w)
             \/ Tick
    BY <2>8, <2>3 DEF RegisterHandler, RegisterCron, Stop, Crash, CronMark, Spawn, Poll,
                      DrainBatch, Dispatch, RunFails, Tick, tableVars
  <2> QED
    BY <2>2, <2>4, <2>5, <2>6, <2>7, <2>8 DEF Next, WorkerStep
<1>2. Init => TypeOK /\ Locals /\ Ownership
  BY InitType, InitOwnership
<1>3. TypeOK /\ Locals /\ Ownership /\ [Next]_vars => (TypeOK /\ Locals /\ Ownership)'
  BY TypeStep, LocalsStep, OwnershipStep
<1>4. [\A i \in Ids : Settled(i)]_vars =>
        [\A i \in Ids : rows[i] # NoRow /\ Terminal(rows[i]) /\ rows'[i] # NoRow =>
            rows'[i] = rows[i] \/ rows'[i].serial # rows[i].serial]_vars
  OBVIOUS
<1> QED
  BY <1>1, <1>2, <1>3, <1>4, PTL DEF Spec, TerminalFinal

-----------------------------------------------------------------------------
(***************************************************************************)
(* The truth of the table: with punctual batches, or with no purge of      *)
(* finished rows at all, the row a worker holds is still the job it        *)
(* claimed, and what the table says became of a job did become of it.      *)
(***************************************************************************)
Known(e) ==
    /\ rows[e.id] # NoRow
    /\ rows[e.id].serial = e.serial /\ rows[e.id].limit = e.limit
    /\ e.attempts <= runs[e.serial].errors

Truthful(c) ==
    /\ c.outcome = "ok" => runs[c.entry.serial].ok
    /\ c.outcome = "error" => c.entry.attempts + 1 <= runs[c.entry.serial].errors
    /\ c.outcome = "missing" => runs[c.entry.serial].missing

\* What the row r claims of its job.
Candid(r) ==
    /\ r.attempts <= runs[r.serial].errors
    /\ r.status = "succeeded" => runs[r.serial].ok
    /\ r.status = "failed" => runs[r.serial].missing \/ runs[r.serial].errors >= r.limit

Honest ==
    /\ \A i \in Ids : rows[i] # NoRow => Candid(rows[i])
    /\ \A w \in Workers : \A e \in Held(w) : Known(e)
    /\ \A w \in Workers : cur[w] # Idle => Truthful(cur[w])

\* The history of a job only grows.
Grown ==
    \A s \in Serials :
        /\ runs[s].ok => runs'[s].ok
        /\ runs[s].missing => runs'[s].missing
        /\ runs[s].errors <= runs'[s].errors

LEMMA InitHonest == Init => Honest
  BY DEF Init, Honest, Held

LEMMA RowType ==
    ASSUME TypeOK, NEW i \in Ids, rows[i] # NoRow
    PROVE  /\ rows[i] \in Row /\ rows[i].serial \in Serials /\ rows[i].attempts \in Nat
           /\ rows[i].limit \in Nat
<1>1. rows[i] \in Row
  BY Shapes
<1> QED
  BY <1>1 DEF Row

LEMMA RunType ==
    ASSUME TypeOK, NEW s \in Serials
    PROVE  runs[s] \in Run /\ runs[s].errors \in Nat
  BY DEF TypeOK, Run

\* A history that grew, hands that took up nothing, rows left alone but for
\* those the step accounts for itself.
LEMMA HonestKept ==
    ASSUME TypeOK, TypeOK', Honest, Grown,
           \A w \in Workers : batch'[w] \subseteq batch[w] /\ cur'[w] \in {Idle, cur[w]},
           \A i \in Ids :
               \/ rows'[i] = rows[i] \/ rows'[i] = NoRow
               \/ Candid(rows[i])',
           \A w \in Workers : \A e \in Held(w) :
                /\ rows'[e.id] # NoRow
                /\ rows'[e.id].serial = rows[e.id].serial
                /\ rows'[e.id].limit = rows[e.id].limit
    PROVE  Honest'
<1>1. ASSUME NEW i \in Ids, rows'[i] # NoRow PROVE Candid(rows[i])'
  <2>1. CASE Candid(rows[i])'
    BY <2>1
  <2>2. CASE rows'[i] = rows[i]
    <3>1. rows[i].serial \in Serials /\ rows[i].attempts \in Nat /\ rows[i].limit \in Nat
      BY <2>2, <1>1, RowType
    <3>2. runs[rows[i].serial].errors \in Nat /\ runs'[rows[i].serial].errors \in Nat
      BY <3>1 DEF TypeOK, Run
    <3>3. Candid(rows[i])
      BY <2>2, <1>1 DEF Honest
    <3> QED
      BY <2>2, <3>1, <3>2, <3>3 DEF Candid, Grown
  <2> QED
    BY <2>1, <2>2, <1>1
<1>2. ASSUME NEW w \in Workers, NEW e \in Held(w)' PROVE Known(e)'
  <2>1. e \in Held(w)
    BY <1>2 DEF Held
  <2>2. e.serial \in Serials /\ e.attempts \in Nat
    BY <2>1, HeldType DEF JobRow
  <2>3. runs[e.serial].errors \in Nat /\ runs'[e.serial].errors \in Nat
    BY <2>2 DEF TypeOK, Run
  <2> QED
    BY <2>1, <2>2, <2>3 DEF Honest, Known, Grown
<1>3. ASSUME NEW w \in Workers, cur'[w] # Idle PROVE Truthful(cur[w])'
  <2>1. cur'[w] = cur[w] /\ cur[w].entry \in Held(w)
    BY <1>3 DEF Held
  <2>2. cur[w].entry.serial \in Serials /\ cur[w].entry.attempts \in Nat
    BY <2>1, HeldType DEF JobRow
  <2>3. /\ runs[cur[w].entry.serial].errors \in Nat
        /\ runs'[cur[w].entry.serial].errors \in Nat
    BY <2>2 DEF TypeOK, Run
  <2>4. Truthful(cur[w])
    BY <1>3, <2>1 DEF Honest
  <2> QED
    BY <2>1, <2>2, <2>3, <2>4 DEF Truthful, Grown
<1> QED
  BY <1>1, <1>2, <1>3 DEF Honest

\* A verdict changes neither whose row it is nor its limit.
LEMMA RecordedKeeps ==
    ASSUME TypeOK, NEW r \in Row, NEW e \in JobRow, NEW outcome \in Outcomes
    PROVE  LET after == Recorded(r, e, outcome) IN
           /\ after.serial = r.serial /\ after.limit = r.limit
           /\ after.status = Verdict(e, outcome)
           /\ after.attempts = IF Verdict(e, outcome) = "pending" THEN e.attempts + 1
                               ELSE r.attempts
<1>1. CASE Verdict(e, outcome) = "pending"
  BY <1>1 DEF Recorded, Row
<1>2. CASE Verdict(e, outcome) # "pending"
  BY <1>2 DEF Recorded, Row
<1> QED
  BY <1>1, <1>2

\* The row a verdict was written to tells the truth about the run.
LEMMA RecordedCandid ==
    ASSUME TypeOK, Honest, NEW w \in Workers, cur[w] # Idle
    PROVE  LET e == cur[w].entry
               outcome == cur[w].outcome
           IN  Candid(Recorded(rows[e.id], e, outcome))
<1> DEFINE e == cur[w].entry
           outcome == cur[w].outcome
           after == Recorded(rows[e.id], e, outcome)
<1>1. e \in JobRow /\ outcome \in Outcomes /\ e \in Held(w)
  BY Shapes DEF Held
<1>2. e.id \in Ids /\ e.attempts \in Nat /\ e.limit \in Nat /\ e.serial \in Serials
  BY <1>1 DEF JobRow
<1>3. Known(e) /\ Truthful(cur[w]) /\ Candid(rows[e.id])
  BY <1>1, <1>2 DEF Honest, Known
<1>4. rows[e.id] \in Row /\ rows[e.id].serial = e.serial /\ rows[e.id].limit = e.limit
  BY <1>2, <1>3, Shapes DEF Known
<1>5. /\ after.serial = e.serial /\ after.limit = e.limit
      /\ after.status = Verdict(e, outcome)
      /\ after.attempts = IF Verdict(e, outcome) = "pending" THEN e.attempts + 1
                          ELSE rows[e.id].attempts
  BY <1>1, <1>4, RecordedKeeps
<1>6. runs[e.serial].errors \in Nat /\ rows[e.id].attempts \in Nat
  BY <1>2, <1>4, RunType DEF Row
<1>7. rows[e.id].attempts <= runs[e.serial].errors
  BY <1>3, <1>4 DEF Candid
<1>8. CASE outcome = "ok"
  <2>1. Verdict(e, outcome) = "succeeded"
    BY <1>8 DEF Verdict
  <2>2. runs[e.serial].ok
    BY <1>3, <1>8 DEF Truthful
  <2>3. after.attempts <= runs[after.serial].errors
    BY <2>1, <1>5, <1>7
  <2>4. runs[after.serial].ok /\ after.status # "failed"
    BY <2>1, <2>2, <1>5
  <2> QED
    BY <2>3, <2>4 DEF Candid
<1>9. CASE outcome = "missing"
  <2>1. Verdict(e, outcome) = "failed"
    BY <1>9 DEF Verdict
  <2>2. runs[e.serial].missing
    BY <1>3, <1>9 DEF Truthful
  <2>3. after.attempts <= runs[after.serial].errors
    BY <2>1, <1>5, <1>7
  <2>4. runs[after.serial].missing /\ after.status # "succeeded"
    BY <2>1, <2>2, <1>5
  <2> QED
    BY <2>3, <2>4 DEF Candid
<1>10. CASE outcome = "error" /\ Exhausted(e)
  <2>1. Verdict(e, outcome) = "failed"
    BY <1>10 DEF Verdict
  <2>2. e.attempts + 1 <= runs[e.serial].errors
    BY <1>3, <1>10 DEF Truthful
  <2>3. runs[e.serial].errors >= e.limit
    BY <2>2, <1>2, <1>6, <1>10 DEF Exhausted
  <2> QED
    BY <2>1, <2>3, <1>5, <1>7 DEF Candid
<1>11. CASE outcome = "error" /\ ~Exhausted(e)
  <2>1. Verdict(e, outcome) = "pending"
    BY <1>11 DEF Verdict
  <2>2. e.attempts + 1 <= runs[e.serial].errors
    BY <1>3, <1>11 DEF Truthful
  <2> QED
    BY <2>1, <2>2, <1>5 DEF Candid
<1> QED
  BY <1>1, <1>8, <1>9, <1>10, <1>11 DEF Outcomes

\* Rows outlive the hands that hold them: no purge of finished rows at all, or
\* batches punctual enough for a held row never to be a finished one.
Kept == (Punctual /\ Ownership) \/ Retention = {}

LEMMA HonestStep ==
    TypeOK /\ TypeOK' /\ Locals /\ Kept /\ Honest /\ [Next]_vars => Honest'
<1> SUFFICES ASSUME TypeOK, TypeOK', Locals, Kept, Honest, [Next]_vars PROVE Honest'
  OBVIOUS
<1>t. /\ rows \in [Ids -> Row \cup {NoRow}] /\ runs \in [Serials -> Run]
      /\ batch \in [Workers -> SUBSET JobRow] /\ clock \in Nat
      /\ cur \in [Workers -> [entry : JobRow, outcome : Outcomes] \cup {Idle}]
  BY DEF TypeOK
<1>h. \A w \in Workers : \A e \in Held(w) : e.id \in Ids /\ rows[e.id] # NoRow
  BY HeldType DEF Honest, Known
<1>g. runs' = runs => Grown
  BY RunType DEF Grown
<1>1. ASSUME NEW n \in Names, NEW d \in Nat, NEW m \in Nat, Insert(n, d, m),
             UNCHANGED <<batch, cur, runs>>
      PROVE  Honest'
  <2>1. PICK k \in Ids : rows' = [rows EXCEPT ![k] = NewRow(n, d, m)]
    BY <1>1 DEF Insert
  <2>2. issued + 1 \in Serials
    BY <1>1, OptionsAssumption DEF Insert, TypeOK, Serials
  <2>3. Candid(NewRow(n, d, m))
    BY <2>2, RunType DEF Candid, NewRow
  <2>4. \A i \in Ids : rows'[i] = rows[i] \/ Candid(rows[i])'
    BY <2>1, <2>3, <1>1, <1>t DEF Candid
  <2>5. \A w \in Workers : \A e \in Held(w) : rows'[e.id] = rows[e.id]
    BY <1>1, <1>h, InsertKeeps
  <2> QED
    BY <2>4, <2>5, <1>1, <1>h, <1>g, HonestKept
<1>2. ASSUME NEW older \in Retention, Cleanup(older) PROVE Honest'
  <2>1. \A w \in Workers : \A e \in Held(w) : rows[e.id].status = "running"
    BY <1>2 DEF Kept, Ownership, Mine
  <2>2. \A w \in Workers : \A e \in Held(w) : rows'[e.id] = rows[e.id]
    BY <2>1, <1>2, <1>h DEF Cleanup, Expired, Terminal
  <2>3. \A i \in Ids : rows'[i] = rows[i] \/ rows'[i] = NoRow
    BY <1>2 DEF Cleanup, Expired
  <2>4. UNCHANGED <<batch, cur, runs>>
    BY <1>2 DEF Cleanup, Expired, workerVars
  <2> QED
    BY <2>2, <2>3, <2>4, <1>h, <1>g, HonestKept
<1>3. CASE /\ UNCHANGED <<rows, runs>>
           /\ \A w \in Workers : batch'[w] \subseteq batch[w] /\ cur'[w] \in {Idle, cur[w]}
  BY <1>3, <1>h, <1>g, HonestKept
<1>4. ASSUME NEW w \in Workers, Claim(w) PROVE Honest'
  <2>1. PICK S \in Selections(now[w]) :
          /\ rows' = [i \in Ids |-> IF i \in S
                THEN [rows[i] EXCEPT !.status = "running", !.updated = clock]
                ELSE rows[i]]
          /\ \/ Fresh(w)
             \/ batch' = [batch EXCEPT ![w] = {CopyOf(i) : i \in S}] /\ cur' = cur
    BY <1>4 DEF Claim
  <2>2. runs' = runs /\ cur[w] = Idle
    BY <1>4 DEF Claim, Locals
  <2>3. \A i \in S : i \in Ids /\ rows[i] \in Row /\ rows[i] # NoRow
    BY Shapes DEF Selections, Claimable, Statuses
  <2>4. \A i \in Ids : rows[i] # NoRow =>
          /\ rows'[i] # NoRow /\ rows'[i].serial = rows[i].serial
          /\ rows'[i].limit = rows[i].limit /\ rows'[i].attempts = rows[i].attempts
          /\ rows'[i] = rows[i] \/ rows'[i].status = "running"
    <3> SUFFICES ASSUME NEW i \in Ids, rows[i] # NoRow
                 PROVE  /\ rows'[i] # NoRow /\ rows'[i].serial = rows[i].serial
                        /\ rows'[i].limit = rows[i].limit /\ rows'[i].attempts = rows[i].attempts
                        /\ rows'[i] = rows[i] \/ rows'[i].status = "running"
      OBVIOUS
    <3>1. CASE i \in S
      <4>1. rows'[i] = [rows[i] EXCEPT !.status = "running", !.updated = clock]
        BY <3>1, <2>1
      <4>2. /\ rows'[i].serial = rows[i].serial /\ rows'[i].limit = rows[i].limit
            /\ rows'[i].attempts = rows[i].attempts /\ rows'[i].status = "running"
        BY <4>1, <2>3, <3>1 DEF Row
      <4> QED
        BY <4>2 DEF NoRow
    <3>2. CASE i \notin S
      BY <3>2, <2>1
    <3> QED
      BY <3>1, <3>2
  <2>5. \A i \in Ids : rows'[i] = rows[i] \/ Candid(rows[i])'
    BY <2>1, <2>2, <2>3, <2>4 DEF Honest, Candid
  <2>6. CASE Fresh(w)
    <3>1. \A v \in Workers : batch'[v] \subseteq batch[v] /\ cur'[v] \in {Idle, cur[v]}
      BY <2>6, <1>t DEF Fresh
    <3> QED
      BY <3>1, <2>2, <2>4, <2>5, <1>h, <1>g, HonestKept
  <2>7. CASE batch' = [batch EXCEPT ![w] = {CopyOf(i) : i \in S}] /\ cur' = cur
    <3>1. ASSUME NEW v \in Workers, NEW e \in Held(v)' PROVE Known(e)'
      <4>1. CASE v = w
        <5>1. PICK i \in S : e = CopyOf(i)
          BY <4>1, <2>2, <2>7, <3>1, <1>t DEF Held
        <5>2. /\ e.id = i /\ e.serial = rows[i].serial /\ e.limit = rows[i].limit
              /\ e.attempts = rows[i].attempts
          BY <5>1 DEF CopyOf
        <5>3. rows[i].attempts <= runs[rows[i].serial].errors
          BY <2>3 DEF Honest, Candid
        <5> QED
          BY <5>2, <5>3, <2>2, <2>3, <2>4 DEF Known
      <4>2. CASE v # w
        <5>1. e \in Held(v)
          BY <4>2, <2>7, <3>1, <1>t DEF Held
        <5> QED
          BY <5>1, <2>2, <2>4, <1>h DEF Honest, Known
      <4> QED
        BY <4>1, <4>2
    <3>2. \A i \in Ids : rows'[i] # NoRow => Candid(rows[i])'
      BY <2>1, <2>2, <2>3, <2>5 DEF Honest, Candid
    <3>3. \A v \in Workers : cur'[v] # Idle => Truthful(cur[v])'
      BY <2>2, <2>7 DEF Honest, Truthful
    <3> QED
      BY <3>1, <3>2, <3>3 DEF Honest
  <2> QED
    BY <2>1, <2>6, <2>7
<1>5. ASSUME NEW w \in Workers, Dispatch(w) PROVE Honest'
  <2>1. PICK e \in batch[w], outcome \in Outcomes :
          /\ cur' = [cur EXCEPT ![w] = [entry |-> e, outcome |-> outcome]]
          /\ batch' = [batch EXCEPT ![w] = @ \ {e}]
          /\ runs' = [runs EXCEPT ![e.serial] = Ran(@, outcome)]
    BY <1>5 DEF Dispatch, OutcomesOf, Outcomes
  <2>2. rows' = rows /\ cur[w] = Idle
    BY <1>5 DEF Dispatch, tableVars, Locals
  <2>3. e \in Held(w) /\ e \in JobRow /\ e.serial \in Serials /\ e.attempts \in Nat
    BY HeldType DEF Held, JobRow
  <2>4. Known(e) /\ e.attempts <= runs[e.serial].errors
    BY <2>3 DEF Honest, Known
  <2>5. runs[e.serial] \in Run /\ runs[e.serial].errors \in Nat
    BY <2>3, RunType
  <2>6. runs'[e.serial] = Ran(runs[e.serial], outcome)
    BY <2>1, <2>3, <1>t
  <2>7. /\ runs[e.serial].ok => runs'[e.serial].ok
        /\ runs[e.serial].missing => runs'[e.serial].missing
        /\ outcome = "ok" => runs'[e.serial].ok
        /\ outcome = "missing" => runs'[e.serial].missing
    BY <2>5, <2>6, Zenon DEF Ran, Run, Outcomes
  <2>8. /\ runs'[e.serial].errors >= runs[e.serial].errors
        /\ outcome = "error" => runs'[e.serial].errors = runs[e.serial].errors + 1
    BY <2>5, <2>6 DEF Ran, Run, Outcomes
  <2>9. Grown
    BY <2>1, <2>5, <2>7, <2>8, <1>t, RunType DEF Grown
  <2>10. Truthful([entry |-> e, outcome |-> outcome])'
    BY <2>3, <2>4, <2>5, <2>7, <2>8 DEF Truthful
  <2>11. ASSUME NEW v \in Workers, cur'[v] # Idle PROVE Truthful(cur[v])'
    <3>1. CASE v = w
      BY <3>1, <2>1, <2>10, <1>t
    <3>2. CASE v # w
      <4>1. cur'[v] = cur[v] /\ cur[v] # Idle
        BY <3>2, <2>1, <2>11, <1>t
      <4>2. cur[v].entry \in Held(v) /\ Truthful(cur[v])
        BY <4>1 DEF Held, Honest
      <4>3. cur[v].entry.serial \in Serials /\ cur[v].entry.attempts \in Nat
        BY <4>2, HeldType DEF JobRow
      <4>4. /\ runs[cur[v].entry.serial].errors \in Nat
            /\ runs'[cur[v].entry.serial].errors \in Nat
        BY <4>3 DEF TypeOK, Run
      <4> QED
        BY <4>1, <4>2, <4>3, <4>4, <2>9 DEF Truthful, Grown
    <3> QED
      BY <3>1, <3>2
  <2>12. ASSUME NEW v \in Workers, NEW f \in Held(v)' PROVE Known(f)'
    <3>1. [entry |-> e, outcome |-> outcome] # Idle
      BY <2>3, Shapes
    <3>2. f \in Held(v)
      BY <2>1, <2>2, <2>12, <3>1, <1>t DEF Held
    <3>3. f.serial \in Serials /\ f.attempts \in Nat /\ Known(f)
      BY <3>2, HeldType DEF JobRow, Honest
    <3>4. runs[f.serial].errors \in Nat /\ runs'[f.serial].errors \in Nat
      BY <3>3 DEF TypeOK, Run
    <3> QED
      BY <3>3, <3>4, <2>2, <2>9 DEF Known, Grown
  <2>13. ASSUME NEW i \in Ids, rows'[i] # NoRow PROVE Candid(rows[i])'
    <3>1. rows[i].serial \in Serials /\ rows[i].attempts \in Nat /\ rows[i].limit \in Nat
      BY <2>2, <2>13, RowType
    <3>2. runs[rows[i].serial].errors \in Nat /\ runs'[rows[i].serial].errors \in Nat
      BY <3>1 DEF TypeOK, Run
    <3>3. Candid(rows[i])
      BY <2>2, <2>13 DEF Honest
    <3> QED
      BY <2>2, <2>9, <3>1, <3>2, <3>3 DEF Candid, Grown
  <2> QED
    BY <2>11, <2>12, <2>13 DEF Honest
<1>6. ASSUME NEW w \in Workers, Record(w) PROVE Honest'
  <2>1. /\ cur[w] # Idle /\ runs' = runs
        /\ rows' = [rows EXCEPT ![cur[w].entry.id] =
                IF @ = NoRow THEN @ ELSE Recorded(@, cur[w].entry, cur[w].outcome)]
    BY <1>6 DEF Record, Locals
  <2>2. \A v \in Workers : batch'[v] \subseteq batch[v] /\ cur'[v] \in {Idle, cur[v]}
    BY <1>6, <1>t DEF Record, Fresh
  <2>3. PICK e \in JobRow, outcome \in Outcomes : e = cur[w].entry /\ outcome = cur[w].outcome
    BY <2>1, Shapes
  <2>4. e.id \in Ids /\ rows[e.id] # NoRow /\ rows[e.id] \in Row
    BY <2>1, <2>3, <1>h, Shapes DEF Held
  <2> DEFINE after == Recorded(rows[e.id], e, outcome)
  <2>5. Candid(after)
    BY <2>1, <2>3, RecordedCandid
  <2>6. after \in Row /\ after.serial = rows[e.id].serial /\ after.limit = rows[e.id].limit
    BY <2>4, RecordedKeeps, RecordedType
  <2>7. rows'[e.id] = after
    BY <2>1, <2>3, <2>4, <1>t
  <2> HIDE DEF after
  <2>8. Candid(rows[e.id])'
    BY <2>1, <2>5, <2>7 DEF Candid
  <2>9. /\ rows'[e.id] # NoRow /\ rows'[e.id].serial = rows[e.id].serial
        /\ rows'[e.id].limit = rows[e.id].limit
    BY <2>6, <2>7, Shapes
  <2>10. \A i \in Ids : i # e.id => rows'[i] = rows[i]
    BY <2>1, <2>3, <1>t
  <2>11. \A i \in Ids : rows'[i] = rows[i] \/ Candid(rows[i])'
    BY <2>8, <2>10
  <2>12. \A v \in Workers : \A f \in Held(v) :
            /\ rows'[f.id] # NoRow /\ rows'[f.id].serial = rows[f.id].serial
            /\ rows'[f.id].limit = rows[f.id].limit
    BY <2>9, <2>10, <1>h
  <2> QED
    BY <2>1, <2>2, <2>11, <2>12, <1>g, HonestKept
<1>7. ASSUME NEW q \in Queues, Crash(q) PROVE Honest'
  BY <1>7, <1>t, <1>3 DEF Crash, tableVars
<1>8. ASSUME NEW w \in Workers, RunFails(w) PROVE Honest'
  BY <1>8, <1>t, <1>3 DEF RunFails, Fresh, tableVars
<1>9. ASSUME NEW w \in Workers, NEW c \in Crons, CronCheck(w, c) PROVE Honest'
  <2>1. CASE \E read \in now[w]..clock : Insert(CronName[c], read, DefaultAttempts)
    BY <2>1, <1>9, <1>1, ReadType, OptionsAssumption DEF CronCheck
  <2>2. CASE UNCHANGED tableVars
    BY <2>2, <1>9, <1>3 DEF CronCheck, tableVars
  <2> QED
    BY <2>1, <2>2, <1>9 DEF CronCheck
<1>10. CASE \E n \in Names, d \in Delays, m \in AttemptLimits : Enqueue(n, d, m)
  BY <1>10, <1>1, ReadType, OptionsAssumption DEF Enqueue, workerVars
<1>11. CASE \/ \E q \in Queues, n \in Names : RegisterHandler(q, n)
            \/ \E q \in Queues, c \in Crons : RegisterCron(q, c)
            \/ \E q \in Queues : Stop(q)
            \/ \E w \in Workers : CronMark(w) \/ Spawn(w) \/ Poll(w) \/ DrainBatch(w)
            \/ Tick
            \/ UNCHANGED vars
  BY <1>11, <1>3 DEF RegisterHandler, RegisterCron, Stop, CronMark, Spawn, Poll, DrainBatch,
                     Tick, workerVars, tableVars, vars
<1> QED
  BY <1>2, <1>4, <1>5, <1>6, <1>7, <1>8, <1>9, <1>10, <1>11 DEF Next, WorkerStep

\* The invariant of the two theorems on what the table says.
Truths == TypeOK /\ Locals /\ (Punctual => Ownership) /\ Honest

LEMMA TruthsHold ==
    ASSUME Punctual \/ Retention = {}
    PROVE  Spec => []Truths
<1>1. Init => Truths
  BY InitType, InitOwnership, InitHonest DEF Truths
<1>2. Truths /\ [Next]_vars => Truths'
  <2> SUFFICES ASSUME Truths, [Next]_vars PROVE Truths'
    OBVIOUS
  <2> USE DEF Truths
  <2>1. TypeOK' /\ Locals'
    BY TypeStep, LocalsStep
  <2>2. Punctual => Ownership'
    BY OwnershipStep
  <2>3. Kept
    BY DEF Kept
  <2> QED
    BY <2>1, <2>2, <2>3, HonestStep
<1> QED
  BY <1>1, <1>2, PTL DEF Spec

\* At least once, with punctual batches or finished rows kept: a job marked
\* succeeded was run by a handler that returned without error.
THEOREM Candour ==
    ASSUME Punctual \/ Retention = {}
    PROVE  Spec => []SucceededRan
<1>1. Truths => SucceededRan
  <2> SUFFICES ASSUME Truths, NEW i \in Ids, rows[i].status = "succeeded"
               PROVE  runs[rows[i].serial].ok
    BY DEF SucceededRan
  <2>1. rows[i] # NoRow
    BY DEF NoRow
  <2> QED
    BY <2>1 DEF Truths, Honest, Candid
<1> QED
  BY <1>1, TruthsHold, PTL

\* Under the same hypothesis a job marked failed was tried to its limit, or had
\* no handler in the process that claimed it.
THEOREM GivenUp ==
    ASSUME Punctual \/ Retention = {}
    PROVE  Spec => []FailedHonest
<1>1. Truths => FailedHonest
  <2> SUFFICES ASSUME Truths, NEW i \in Ids, rows[i].status = "failed"
               PROVE  \/ runs[rows[i].serial].missing
                      \/ runs[rows[i].serial].errors >= rows[i].limit
    BY DEF FailedHonest
  <2>1. rows[i] # NoRow
    BY DEF NoRow
  <2> QED
    BY <2>1 DEF Truths, Honest, Candid
<1> QED
  BY <1>1, TruthsHold, PTL

-----------------------------------------------------------------------------
(***************************************************************************)
(* The account of retries, with punctual batches: attempts counts the runs *)
(* that failed, short of the one a verdict of "failed" does not count, of  *)
(* the one whose verdict is still to be written, and of those whose        *)
(* verdict was lost with a worker.                                         *)
(***************************************************************************)

\* A run of the job in row i failed and the verdict is not written yet.
Failing(i) ==
    \E w \in Workers : cur[w] # Idle /\ cur[w].entry.id = i /\ cur[w].outcome = "error"

Uncounted(i) == rows[i].status = "failed" \/ Failing(i)

Errors(i) == runs[rows[i].serial].errors

Budgeted(i) ==
    /\ rows[i].serial <= issued
    /\ rows[i].attempts + 1 <= rows[i].limit
    /\ Errors(i) <= rows[i].attempts + 1 + faults
    /\ ~Uncounted(i) => Errors(i) <= rows[i].attempts + faults

Copied(e) == rows[e.id].attempts = e.attempts /\ rows[e.id].limit = e.limit

Account ==
    /\ \A i \in Live : Budgeted(i)
    /\ \A i, j \in Live : rows[i].serial = rows[j].serial => i = j
    /\ \A s \in Serials : s > issued => runs[s].errors = 0
    /\ \A w \in Workers : \A e \in Held(w) : Copied(e)

LEMMA InitAccount == Init => Account
  BY DEF Init, Account, Held, Live

LEMMA RowNumbers ==
    ASSUME TypeOK, NEW i \in Live
    PROVE  /\ i \in Ids /\ rows[i] \in Row /\ rows[i].serial \in Serials
           /\ rows[i].serial \in Nat /\ rows[i].attempts \in Nat /\ rows[i].limit \in Nat
           /\ Errors(i) \in Nat /\ faults \in Nat /\ issued \in Nat
<1>1. i \in Ids /\ rows[i] # NoRow
  BY DEF Live
<1>2. /\ rows[i] \in Row /\ rows[i].serial \in Serials /\ rows[i].attempts \in Nat
      /\ rows[i].limit \in Nat
  BY <1>1, RowType
<1>3. Errors(i) \in Nat
  BY <1>2, RunType DEF Errors
<1>4. faults \in Nat /\ issued \in Nat
  BY OptionsAssumption DEF TypeOK
<1>5. rows[i].serial \in Nat
  BY <1>2 DEF Serials
<1> QED
  BY <1>1, <1>2, <1>3, <1>4, <1>5

\* No run was added, and each row that is still there has its serial number,
\* limit and attempts: its account is in order unless a failed run that was
\* waiting for its verdict was lost without a fault.
LEMMA BudgetKept ==
    ASSUME TypeOK, TypeOK', runs' = runs, issued' = issued,
           NEW i \in Live, Budgeted(i), i \in Live',
           rows'[i].serial = rows[i].serial, rows'[i].limit = rows[i].limit,
           rows'[i].attempts = rows[i].attempts,
           \/ faults' = faults + 1
           \/ faults' = faults /\ (Uncounted(i) => Uncounted(i)')
    PROVE  Budgeted(i)'
<1>1. Errors(i)' = Errors(i)
  BY DEF Errors
<1>2. /\ rows[i].attempts \in Nat /\ Errors(i) \in Nat /\ faults \in Nat /\ faults' \in Nat
  BY RowNumbers DEF TypeOK
<1>3. /\ rows'[i].serial <= issued' /\ rows'[i].attempts + 1 <= rows'[i].limit
  BY DEF Budgeted
<1>4. Errors(i) <= rows[i].attempts + 1 + faults
  BY DEF Budgeted
<1>5. CASE faults' = faults + 1
  <2>1. Errors(i) <= rows[i].attempts + faults'
    BY <1>2, <1>4, <1>5
  <2>2. Errors(i) <= rows[i].attempts + 1 + faults'
    BY <2>1, <1>2
  <2> QED
    BY <1>1, <1>3, <2>1, <2>2 DEF Budgeted
<1>6. CASE faults' = faults /\ (Uncounted(i) => Uncounted(i)')
  <2>1. ~Uncounted(i)' => Errors(i) <= rows[i].attempts + faults
    BY <1>6 DEF Budgeted
  <2> QED
    BY <1>1, <1>3, <1>4, <1>6, <2>1 DEF Budgeted
<1> QED
  BY <1>5, <1>6

\* A step that adds no run and no row, takes up no row, and loses a failed run
\* that was waiting for its verdict only with a fault.
LEMMA AccountKept ==
    ASSUME TypeOK, TypeOK', Account, runs' = runs, issued' = issued,
           \A i \in Live' :
               /\ i \in Live /\ rows'[i].serial = rows[i].serial
               /\ rows'[i].limit = rows[i].limit /\ rows'[i].attempts = rows[i].attempts
               /\ rows[i].status = "failed" => rows'[i].status = "failed",
           \A w \in Workers : \A e \in Held(w)' : rows'[e.id] = rows[e.id] /\ e \in Held(w),
           \/ faults' = faults + 1
           \/ faults' = faults /\ cur' = cur
    PROVE  Account'
<1>1. ASSUME NEW i \in Live' PROVE Budgeted(i)'
  <2>1. i \in Live /\ Budgeted(i)
    BY <1>1 DEF Account
  <2>2. \/ faults' = faults + 1
        \/ faults' = faults /\ (Uncounted(i) => Uncounted(i)')
    BY <1>1 DEF Uncounted, Failing
  <2> QED
    BY <1>1, <2>1, <2>2, BudgetKept
<1>2. \A i, j \in Live' : rows'[i].serial = rows'[j].serial => i = j
  BY DEF Account
<1>3. \A s \in Serials : s > issued' => runs'[s].errors = 0
  BY DEF Account
<1>4. \A w \in Workers : \A e \in Held(w)' : Copied(e)'
  BY DEF Account, Copied
<1> QED
  BY <1>1, <1>2, <1>3, <1>4 DEF Account

\* A new job starts with no attempt and no failed run.
LEMMA AccountInsert ==
    ASSUME TypeOK, TypeOK', Ownership, Account, NEW n \in Names, NEW d \in Nat,
           NEW m \in Nat \ {0}, Insert(n, d, m), UNCHANGED <<batch, cur, runs, faults>>
    PROVE  Account'
<1>1. PICK k \in Ids : IsNewId(k) /\ rows' = [rows EXCEPT ![k] = NewRow(n, d, m)]
  BY DEF Insert
<1>2. issued' = issued + 1 /\ issued \in Nat /\ faults \in Nat /\ issued + 1 \in Serials
  BY OptionsAssumption DEF Insert, TypeOK, Serials
<1>3. k \notin Live
  BY <1>1 DEF IsNewId, Ids, Live
<1>4. /\ rows'[k].serial = issued + 1 /\ rows'[k].limit = m /\ rows'[k].attempts = 0
  BY <1>1 DEF NewRow, TypeOK
<1>5. \A i \in Live' : i # k => i \in Live /\ rows'[i] = rows[i]
  BY <1>1 DEF Live, TypeOK
<1>6. \A i \in Live : rows[i].serial <= issued /\ rows[i].serial \in Nat
  BY RowNumbers DEF Account, Budgeted
<1>7. Budgeted(k)'
  <2>1. Errors(k)' = 0
    BY <1>2, <1>4 DEF Errors, Account
  <2> QED
    BY <2>1, <1>2, <1>4 DEF Budgeted
<1>8. ASSUME NEW i \in Live', i # k PROVE Budgeted(i)'
  <2>1. i \in Live /\ Budgeted(i) /\ rows'[i] = rows[i]
    BY <1>5, <1>8 DEF Account
  <2>2. Errors(i)' = Errors(i) /\ (Uncounted(i) => Uncounted(i)')
    BY <2>1 DEF Errors, Uncounted, Failing
  <2>3. rows[i].serial <= issued'
    BY <2>1, <1>2, <1>6
  <2> QED
    BY <2>1, <2>2, <2>3 DEF Budgeted
<1>9. \A i, j \in Live' : rows'[i].serial = rows'[j].serial => i = j
  BY <1>2, <1>4, <1>5, <1>6 DEF Account
<1>10. \A s \in Serials : s > issued' => runs'[s].errors = 0
  BY <1>2 DEF Account, Serials
<1>11. \A w \in Workers : \A e \in Held(w)' : Copied(e)'
  <2> SUFFICES ASSUME NEW w \in Workers, NEW e \in Held(w)' PROVE Copied(e)'
    OBVIOUS
  <2>1. e \in Held(w) /\ e.id \in Ids
    BY HeldType DEF Held
  <2>2. rows[e.id].status = "running"
    BY <2>1 DEF Ownership, Mine
  <2>3. e.id \in Live
    BY <2>1, <2>2 DEF Live, NoRow
  <2>4. rows'[e.id] = rows[e.id]
    BY <2>1, <2>3, <1>1, <1>3 DEF TypeOK
  <2> QED
    BY <2>1, <2>4 DEF Account, Copied
<1> QED
  BY <1>7, <1>8, <1>9, <1>10, <1>11 DEF Account

\* Claiming rows copies their numbers.
LEMMA AccountClaim ==
    ASSUME TypeOK, TypeOK', Locals, Ownership, Account, NEW w \in Workers, Claim(w)
    PROVE  Account'
<1>t. /\ rows \in [Ids -> Row \cup {NoRow}] /\ batch \in [Workers -> SUBSET JobRow]
      /\ cur \in [Workers -> [entry : JobRow, outcome : Outcomes] \cup {Idle}]
  BY DEF TypeOK
<1>1. PICK S \in Selections(now[w]) :
        /\ rows' = [i \in Ids |-> IF i \in S
              THEN [rows[i] EXCEPT !.status = "running", !.updated = clock]
              ELSE rows[i]]
        /\ \/ Fresh(w) /\ faults' = faults
           \/ batch' = [batch EXCEPT ![w] = {CopyOf(i) : i \in S}] /\ UNCHANGED <<cur, faults>>
           \/ Fresh(w) /\ faults' = faults + 1
  BY DEF Claim
<1>2. runs' = runs /\ issued' = issued /\ cur[w] = Idle /\ pc[w] = "claim"
  BY DEF Claim, Locals
<1>3. \A i \in S : /\ i \in Ids /\ Claimable(i, now[w])
                   /\ rows[i] \in Row /\ rows[i].status # "failed"
  BY Shapes DEF Selections, Claimable, Statuses
<1>4. ASSUME NEW i \in Live'
      PROVE  /\ i \in Live /\ rows'[i].serial = rows[i].serial
             /\ rows'[i].limit = rows[i].limit /\ rows'[i].attempts = rows[i].attempts
             /\ rows[i].status = "failed" => rows'[i].status = "failed"
  <2>1. CASE i \in S
    <3>1. rows'[i] = [rows[i] EXCEPT !.status = "running", !.updated = clock]
      BY <2>1, <1>1, <1>3
    <3>2. i \in Live
      BY <2>1, <1>3, Shapes DEF Live
    <3> QED
      BY <2>1, <3>1, <3>2, <1>3 DEF Row
  <2>2. CASE i \notin S
    BY <2>2, <1>1, <1>4 DEF Live
  <2> QED
    BY <2>1, <2>2
<1>5. \A v \in Workers : \A e \in Held(v) : rows'[e.id] = rows[e.id]
  <2> SUFFICES ASSUME NEW v \in Workers, NEW e \in Held(v) PROVE rows'[e.id] = rows[e.id]
    OBVIOUS
  <2>1. e.id \in Ids /\ e.id \notin S
    BY HeldType, <1>2, <1>3, ClaimSpares
  <2> QED
    BY <2>1, <1>1
<1>6. cur' = cur
  BY <1>1, <1>2, <1>t DEF Fresh
<1>7. CASE Fresh(w)
  <2>1. \A v \in Workers : \A e \in Held(v)' : e \in Held(v)
    BY <1>7, <1>6, <1>t DEF Fresh, Held
  <2> QED
    BY <2>1, <1>1, <1>2, <1>4, <1>5, <1>6, AccountKept
<1>8. CASE batch' = [batch EXCEPT ![w] = {CopyOf(i) : i \in S}] /\ UNCHANGED <<cur, faults>>
  <2>1. \A i \in Live' : Budgeted(i)'
    <3> SUFFICES ASSUME NEW i \in Live' PROVE Budgeted(i)'
      OBVIOUS
    <3>1. i \in Live /\ Budgeted(i)
      BY <1>4 DEF Account
    <3>2. Uncounted(i) => Uncounted(i)'
      BY <1>4, <1>6 DEF Uncounted, Failing
    <3> QED
      BY <3>1, <3>2, <1>2, <1>4, <1>8, BudgetKept
  <2>2. \A i, j \in Live' : rows'[i].serial = rows'[j].serial => i = j
    BY <1>4 DEF Account
  <2>3. \A s \in Serials : s > issued' => runs'[s].errors = 0
    BY <1>2 DEF Account
  <2>4. ASSUME NEW v \in Workers, NEW e \in Held(v)' PROVE Copied(e)'
    <3>1. CASE v = w
      <4>1. PICK i \in S : e = CopyOf(i)
        BY <3>1, <2>4, <1>2, <1>8, <1>t DEF Held
      <4>2. e.id = i /\ e.attempts = rows[i].attempts /\ e.limit = rows[i].limit
        BY <4>1 DEF CopyOf
      <4>3. rows'[i] = [rows[i] EXCEPT !.status = "running", !.updated = clock]
        BY <1>1, <1>3
      <4>4. rows'[i].attempts = rows[i].attempts /\ rows'[i].limit = rows[i].limit
        BY <4>3, <1>3 DEF Row
      <4> QED
        BY <4>2, <4>4 DEF Copied
    <3>2. CASE v # w
      <4>1. e \in Held(v)
        BY <3>2, <2>4, <1>8, <1>t DEF Held
      <4> QED
        BY <4>1, <1>5 DEF Account, Copied
    <3> QED
      BY <3>1, <3>2
  <2> QED
    BY <2>1, <2>2, <2>3, <2>4 DEF Account
<1> QED
  BY <1>1, <1>7, <1>8

\* A run of a handler: if it fails, its row was not waiting for a verdict
\* before and is now.
LEMMA AccountDispatch ==
    ASSUME TypeOK, TypeOK', Locals, Ownership, Account, NEW w \in Workers, Dispatch(w)
    PROVE  Account'
<1>t. /\ batch \in [Workers -> SUBSET JobRow] /\ runs \in [Serials -> Run]
      /\ cur \in [Workers -> [entry : JobRow, outcome : Outcomes] \cup {Idle}]
  BY DEF TypeOK
<1>1. PICK e \in batch[w], outcome \in Outcomes :
        /\ cur' = [cur EXCEPT ![w] = [entry |-> e, outcome |-> outcome]]
        /\ batch' = [batch EXCEPT ![w] = @ \ {e}]
        /\ runs' = [runs EXCEPT ![e.serial] = Ran(@, outcome)]
  BY DEF Dispatch, OutcomesOf, Outcomes
<1>2. /\ rows' = rows /\ issued' = issued /\ faults' = faults /\ cur[w] = Idle
  BY DEF Dispatch, tableVars, Locals
<1>3. e \in Held(w) /\ e \in JobRow /\ e.id \in Ids /\ e.serial \in Serials
  BY HeldType DEF Held
<1>4. /\ rows[e.id].status = "running" /\ rows[e.id].serial = e.serial
  BY <1>3 DEF Ownership, Mine
<1>5. e.id \in Live
  BY <1>3, <1>4 DEF Live, NoRow
<1>6. Live' = Live
  BY <1>2 DEF Live
<1>7. ~Uncounted(e.id)
  <2>1. \A v \in Workers : cur[v] # Idle => cur[v].entry.id # e.id
    BY <1>2, <1>3 DEF Ownership, Held
  <2> QED
    BY <2>1, <1>4 DEF Uncounted, Failing
<1>8. /\ runs[e.serial].errors \in Nat
      /\ outcome = "error" => runs'[e.serial].errors = runs[e.serial].errors + 1
      /\ outcome # "error" => runs'[e.serial].errors = runs[e.serial].errors
  BY <1>1, <1>3, <1>t DEF Ran, Run, Outcomes
<1>9. \A v \in Workers \ {w} : cur'[v] = cur[v]
  BY <1>1, <1>t
<1>10. cur'[w] = [entry |-> e, outcome |-> outcome] /\ cur'[w] # Idle
  <2>1. [entry |-> e, outcome |-> outcome] # Idle
    BY <1>3, Shapes
  <2> QED
    BY <2>1, <1>1, <1>t
<1>11. Budgeted(e.id)'
  <2>1. /\ rows[e.id].serial <= issued /\ rows[e.id].attempts + 1 <= rows[e.id].limit
        /\ Errors(e.id) <= rows[e.id].attempts + faults
    BY <1>5, <1>7 DEF Account, Budgeted
  <2>2. Errors(e.id) = runs[e.serial].errors /\ Errors(e.id)' = runs'[e.serial].errors
    BY <1>2, <1>4 DEF Errors
  <2>3. Errors(e.id) \in Nat /\ rows[e.id].attempts \in Nat /\ faults \in Nat
    BY <1>5, RowNumbers
  <2>4. CASE outcome = "error"
    <3>1. Errors(e.id)' <= rows[e.id].attempts + 1 + faults
      BY <2>1, <2>2, <2>3, <2>4, <1>8
    <3>2. Uncounted(e.id)'
      BY <2>4, <1>10 DEF Uncounted, Failing
    <3> QED
      BY <2>1, <3>1, <3>2, <1>2 DEF Budgeted
  <2>5. CASE outcome # "error"
    <3>1. Errors(e.id)' <= rows[e.id].attempts + faults
      BY <2>1, <2>2, <2>3, <2>5, <1>8
    <3>2. Errors(e.id)' <= rows[e.id].attempts + 1 + faults
      BY <2>1, <2>2, <2>3, <2>5, <1>8
    <3> QED
      BY <2>1, <3>1, <3>2, <1>2 DEF Budgeted
  <2> QED
    BY <2>4, <2>5
<1>12. ASSUME NEW i \in Live', i # e.id PROVE Budgeted(i)'
  <2>1. i \in Live /\ Budgeted(i) /\ rows[i].serial \in Serials
    BY <1>6, <1>12, RowNumbers DEF Account
  <2>2. rows[i].serial # e.serial
    BY <2>1, <1>4, <1>5, <1>12 DEF Account
  <2>3. Errors(i)' = Errors(i)
    BY <2>1, <2>2, <1>1, <1>2, <1>3, <1>t DEF Errors
  <2>4. Uncounted(i) => Uncounted(i)'
    BY <1>2, <1>9 DEF Uncounted, Failing
  <2> QED
    BY <2>1, <2>3, <2>4, <1>2 DEF Budgeted
<1>13. \A i, j \in Live' : rows'[i].serial = rows'[j].serial => i = j
  BY <1>2, <1>6 DEF Account
<1>14. \A s \in Serials : s > issued' => runs'[s].errors = 0
  <2>1. e.serial <= issued /\ e.serial \in Nat /\ issued \in Nat
    BY <1>4, <1>5, RowNumbers DEF Account, Budgeted
  <2>2. ASSUME NEW s \in Serials, s > issued PROVE runs'[s].errors = 0
    <3>1. s # e.serial
      BY <2>1, <2>2 DEF Serials
    <3> QED
      BY <3>1, <2>2, <1>1, <1>3, <1>t DEF Account
  <2> QED
    BY <2>2, <1>2
<1>15. \A v \in Workers : \A f \in Held(v)' : Copied(f)'
  <2>1. \A v \in Workers : \A f \in Held(v)' : f \in Held(v)
    BY <1>1, <1>2, <1>9, <1>10, <1>t DEF Held
  <2> QED
    BY <2>1, <1>2 DEF Account, Copied
<1> QED
  BY <1>11, <1>12, <1>13, <1>14, <1>15 DEF Account

\* A verdict takes the failed run it stands for into the account.
LEMMA AccountRecord ==
    ASSUME TypeOK, TypeOK', Locals, Ownership, Account, NEW w \in Workers, Record(w)
    PROVE  Account'
<1>t. /\ rows \in [Ids -> Row \cup {NoRow}]
      /\ cur \in [Workers -> [entry : JobRow, outcome : Outcomes] \cup {Idle}]
  BY DEF TypeOK
<1>1. /\ cur[w] # Idle /\ runs' = runs /\ issued' = issued /\ faults' = faults
      /\ rows' = [rows EXCEPT ![cur[w].entry.id] =
              IF @ = NoRow THEN @ ELSE Recorded(@, cur[w].entry, cur[w].outcome)]
  BY DEF Record, Locals
<1>2. \A v \in Workers \ {w} : cur'[v] = cur[v]
  BY <1>t DEF Record, Fresh
<1>3. PICK e \in JobRow, outcome \in Outcomes : e = cur[w].entry /\ outcome = cur[w].outcome
  BY <1>1, Shapes
<1>4. e \in Held(w) /\ e.id \in Ids /\ e.attempts \in Nat /\ e.limit \in Nat
  BY <1>1, <1>3 DEF Held, JobRow
<1>5. rows[e.id].status = "running"
  BY <1>4 DEF Ownership, Mine
<1>6. e.id \in Live /\ rows[e.id] # NoRow
  BY <1>4, <1>5 DEF Live, NoRow
<1>7. rows[e.id].attempts = e.attempts /\ rows[e.id].limit = e.limit
  BY <1>4 DEF Account, Copied
<1> DEFINE after == Recorded(rows[e.id], e, outcome)
<1>8. /\ rows[e.id] \in Row /\ after \in Row
      /\ after.serial = rows[e.id].serial /\ after.limit = rows[e.id].limit
      /\ after.status = Verdict(e, outcome)
      /\ after.attempts = IF Verdict(e, outcome) = "pending" THEN e.attempts + 1
                          ELSE rows[e.id].attempts
  BY <1>6, RowNumbers, RecordedKeeps, RecordedType
<1>9. rows'[e.id] = after
  BY <1>1, <1>3, <1>4, <1>6, <1>t
<1> HIDE DEF after
<1>10. \A i \in Ids : i # e.id => rows'[i] = rows[i]
  BY <1>1, <1>3, <1>t
<1>11. Live' = Live
  BY <1>6, <1>8, <1>9, <1>10, Shapes DEF Live
<1>12. \A i \in Live : rows'[i].serial = rows[i].serial
  BY <1>8, <1>9, <1>10 DEF Live
<1>13. Budgeted(e.id)'
  <2>1. Budgeted(e.id)
    BY <1>6 DEF Account
  <2>2. Errors(e.id)' = Errors(e.id)
    BY <1>1, <1>8, <1>9 DEF Errors
  <2>3. /\ Errors(e.id) \in Nat /\ faults \in Nat /\ rows[e.id].attempts \in Nat
        /\ rows[e.id].limit \in Nat
    BY <1>6, RowNumbers
  <2>4. rows'[e.id].serial <= issued' /\ rows'[e.id].limit = e.limit
    BY <2>1, <1>1, <1>7, <1>8, <1>9 DEF Budgeted
  <2>5. e.attempts + 1 <= e.limit /\ Errors(e.id) <= e.attempts + 1 + faults
    BY <2>1, <1>7 DEF Budgeted
  <2>6. CASE outcome = "ok"
    <3>1. \A v \in Workers : cur[v] # Idle /\ cur[v].entry.id = e.id => v = w
      BY <1>3, <1>4 DEF Ownership, Held
    <3>2. ~Failing(e.id)
      <4>1. outcome # "error"
        BY <2>6
      <4> QED
        BY <3>1, <4>1, <1>3 DEF Failing
    <3>3. ~Uncounted(e.id)
      BY <3>2, <1>5 DEF Uncounted
    <3>4. Errors(e.id) <= e.attempts + faults
      BY <2>1, <3>3, <1>7 DEF Budgeted
    <3>5. Verdict(e, outcome) = "succeeded"
      BY <2>6 DEF Verdict
    <3>6. rows'[e.id].attempts = e.attempts
      BY <3>5, <1>7, <1>8, <1>9
    <3> QED
      BY <2>2, <2>4, <2>5, <3>4, <3>6, <1>1 DEF Budgeted
  <2>7. CASE Verdict(e, outcome) = "failed"
    <3>1. rows'[e.id].attempts = e.attempts
      BY <2>7, <1>7, <1>8, <1>9
    <3>2. Uncounted(e.id)'
      BY <2>7, <1>8, <1>9 DEF Uncounted
    <3> QED
      BY <2>2, <2>4, <2>5, <3>1, <3>2, <1>1 DEF Budgeted
  <2>8. CASE outcome = "error" /\ ~Exhausted(e)
    <3>1. Verdict(e, outcome) = "pending"
      BY <2>8 DEF Verdict
    <3>2. rows'[e.id].attempts = e.attempts + 1
      BY <3>1, <1>8, <1>9
    <3>3. e.attempts + 1 + 1 <= e.limit
      BY <2>8, <1>4 DEF Exhausted
    <3>4. Errors(e.id) <= e.attempts + 1 + 1 + faults
      BY <2>3, <2>5, <1>4
    <3> QED
      BY <2>2, <2>4, <2>5, <3>2, <3>3, <3>4, <1>1 DEF Budgeted
  <2>9. outcome = "ok" \/ Verdict(e, outcome) = "failed" \/ (outcome = "error" /\ ~Exhausted(e))
    BY <1>3 DEF Verdict, Outcomes
  <2> QED
    BY <2>6, <2>7, <2>8, <2>9
<1>14. ASSUME NEW i \in Live', i # e.id PROVE Budgeted(i)'
  <2>1. i \in Live /\ rows'[i] = rows[i] /\ Budgeted(i)
    BY <1>10, <1>11, <1>14 DEF Account, Live
  <2>2. Failing(i) => Failing(i)'
    BY <1>2, <1>3, <1>14 DEF Failing
  <2>3. Uncounted(i) => Uncounted(i)'
    BY <2>1, <2>2 DEF Uncounted
  <2> QED
    BY <2>1, <2>3, <1>1, <1>14, BudgetKept
<1>15. \A i, j \in Live' : rows'[i].serial = rows'[j].serial => i = j
  BY <1>11, <1>12 DEF Account
<1>16. \A s \in Serials : s > issued' => runs'[s].errors = 0
  BY <1>1 DEF Account
<1>17. \A v \in Workers : \A f \in Held(v)' : Copied(f)'
  BY RecordLeaves DEF Account, Copied
<1> QED
  BY <1>13, <1>14, <1>15, <1>16, <1>17 DEF Account

LEMMA AccountStep ==
    TypeOK /\ TypeOK' /\ Locals /\ Ownership /\ Account /\ [Next]_vars => Account'
<1> SUFFICES ASSUME TypeOK, TypeOK', Locals, Ownership, Account, [Next]_vars PROVE Account'
  OBVIOUS
<1>t. /\ batch \in [Workers -> SUBSET JobRow]
      /\ cur \in [Workers -> [entry : JobRow, outcome : Outcomes] \cup {Idle}]
  BY DEF TypeOK
<1>1. ASSUME UNCHANGED <<rows, issued, runs>>,
             \A w \in Workers : \A e \in Held(w)' : e \in Held(w),
             \/ faults' = faults + 1
             \/ faults' = faults /\ cur' = cur
      PROVE  Account'
  BY <1>1, AccountKept DEF Live
<1>2. ASSUME NEW older \in Retention, Cleanup(older) PROVE Account'
  <2>1. UNCHANGED <<issued, runs, faults, cur, batch>>
    BY <1>2 DEF Cleanup, Expired, workerVars
  <2>2. \A i \in Live' : i \in Live /\ rows'[i] = rows[i]
    BY <1>2 DEF Cleanup, Expired, Live
  <2>3. \A w \in Workers : \A e \in Held(w)' : e \in Held(w) /\ rows'[e.id] = rows[e.id]
    <3> SUFFICES ASSUME NEW w \in Workers, NEW e \in Held(w)'
                 PROVE  e \in Held(w) /\ rows'[e.id] = rows[e.id]
      OBVIOUS
    <3>1. e \in Held(w) /\ e.id \in Ids
      BY <2>1, HeldType DEF Held
    <3>2. rows[e.id].status = "running"
      BY <3>1 DEF Ownership, Mine
    <3> QED
      BY <3>1, <3>2, <1>2 DEF Cleanup, Expired, Terminal
  <2> QED
    BY <2>1, <2>2, <2>3, AccountKept
<1>3. ASSUME NEW q \in Queues, Crash(q) PROVE Account'
  BY <1>3, <1>1, <1>t DEF Crash, tableVars, Held
<1>4. ASSUME NEW w \in Workers, RunFails(w) PROVE Account'
  BY <1>4, <1>1, <1>t DEF RunFails, tableVars, Held, Fresh
<1>5. ASSUME NEW w \in Workers, NEW c \in Crons, CronCheck(w, c) PROVE Account'
  <2>1. CASE \E read \in now[w]..clock : Insert(CronName[c], read, DefaultAttempts)
    BY <2>1, <1>5, AccountInsert, ReadType, OptionsAssumption DEF CronCheck
  <2>2. CASE UNCHANGED tableVars
    BY <2>2, <1>5, <1>1 DEF CronCheck, tableVars, Held
  <2> QED
    BY <2>1, <2>2, <1>5 DEF CronCheck
<1>6. ASSUME NEW n \in Names, NEW d \in Delays, NEW m \in AttemptLimits, Enqueue(n, d, m)
      PROVE  Account'
  <2>1. d \in Nat /\ m \in Nat \ {0}
    BY OptionsAssumption
  <2> QED
    BY <2>1, <1>6, AccountInsert, ReadType DEF Enqueue, workerVars
<1>7. CASE \/ \E q \in Queues, n \in Names : RegisterHandler(q, n)
           \/ \E q \in Queues, c \in Crons : RegisterCron(q, c)
           \/ \E q \in Queues : Stop(q)
           \/ \E w \in Workers : CronMark(w) \/ Spawn(w) \/ Poll(w) \/ DrainBatch(w)
           \/ Tick
           \/ UNCHANGED vars
  BY <1>7, <1>1 DEF RegisterHandler, RegisterCron, Stop, CronMark, Spawn, Poll, DrainBatch,
                    Tick, workerVars, tableVars, vars, Held
<1> QED
  BY <1>2, <1>3, <1>4, <1>5, <1>6, <1>7, AccountClaim, AccountDispatch, AccountRecord
     DEF Next, WorkerStep

\* With punctual batches a handler that keeps failing is run at most
\* max_attempts times, and once more for every failure whose verdict was lost
\* with its worker.
THEOREM Retries ==
    ASSUME Punctual
    PROVE  Spec => []RetriesBounded
<1> DEFINE Inv == TypeOK /\ Locals /\ Ownership /\ Account
<1>1. Init => Inv
  BY InitType, InitOwnership, InitAccount
<1>2. Inv /\ [Next]_vars => Inv'
  <2> SUFFICES ASSUME Inv, [Next]_vars PROVE Inv'
    OBVIOUS
  <2>1. TypeOK' /\ Locals' /\ Ownership'
    BY TypeStep, LocalsStep, OwnershipStep
  <2> QED
    BY <2>1, AccountStep
<1>3. Inv => RetriesBounded
  <2> SUFFICES ASSUME Inv, NEW i \in Ids, rows[i] # NoRow
               PROVE  runs[rows[i].serial].errors <= rows[i].limit + faults
    BY DEF RetriesBounded
  <2>1. i \in Live /\ Budgeted(i)
    BY DEF Live, Account
  <2>2. /\ rows[i].attempts + 1 <= rows[i].limit
        /\ runs[rows[i].serial].errors <= rows[i].attempts + 1 + faults
    BY <2>1 DEF Budgeted, Errors
  <2>3. /\ runs[rows[i].serial].errors \in Nat /\ rows[i].attempts \in Nat
        /\ rows[i].limit \in Nat /\ faults \in Nat
    BY <2>1, RowNumbers DEF Errors
  <2> QED
    BY <2>2, <2>3
<1> QED
  BY <1>1, <1>2, <1>3, PTL DEF Spec

-----------------------------------------------------------------------------
(***************************************************************************)
(* The ledger of the crons: where each Queue has one worker and only crons *)
(* enqueue, every job is paid for, by a fault or by a multiple of the      *)
(* period up to the last firing, which no other job used.                  *)
(***************************************************************************)
Alone == \A v, w \in Workers : QueueOf[v] = QueueOf[w] => v = w

\* A time the worker of q has read in this tick, or may still read.
Seen(q, t) ==
    /\ t \in StartTime..clock
    /\ \A w \in Workers : QueueOf[w] = q /\ pc[w] = "cron" => t <= now[w]

Fires(q, c) == \E w \in Workers : QueueOf[w] = q /\ firing[w] = c

\* What a worker's locals and its Queue's entries say of its crons.
Timely ==
    /\ StartTime <= clock
    /\ \A w \in Workers :
        /\ pc[w] = "cron" => now[w] \in StartTime..clock
        /\ firing[w] # NoCron => pc[w] = "cron"
        /\ todo[w] \subseteq crons[QueueOf[w]]
        /\ firing[w] \in crons[QueueOf[w]] \cup {NoCron}
    /\ \A q \in Queues, c \in Crons :
        /\ lastFired[q][c] # 0 => Seen(q, lastFired[q][c])
        /\ c \notin crons[q] => lastFired[q][c] = 0

\* The point t of c's grid pays for a job of q: it is not after the last
\* firing; before the first, the start itself is not spent yet.
Spent(q, c, t) ==
    /\ (t - StartTime) % CronPeriod[c] = 0
    /\ Seen(q, t)
    /\ ~Fires(q, c) =>
        IF lastFired[q][c] = 0 THEN t # StartTime ELSE t <= lastFired[q][c]

Grid == {d \in Crons \X (StartTime..clock) : (d[2] - StartTime) % CronPeriod[d[1]] = 0}

Points == {p \in Queues \X Grid : Spent(p[1], p[2][1], p[2][2])}

Ledger == issued <= faults * Cardinality(Crons) + Cardinality(Points)

\* Between a time and a period later lies a multiple of the period.
LEMMA NextMultiple ==
    ASSUME NEW x \in Nat, NEW p \in Nat \ {0}
    PROVE  \E y \in Nat : x < y /\ y <= x + p /\ y % p = 0
<1> DEFINE k == x \div p
<1>1. x = p * k + (x % p) /\ x % p \in 0..(p - 1) /\ k \in Nat
  OBVIOUS
<1>2. p * (k + 1) = p * k + p /\ p * k \in Nat /\ p * (k + 1) \in Nat
  BY <1>1
<1>3. (p * (k + 1)) % p = 0
  BY <1>1
<1> HIDE DEF k
<1>4. x < p * (k + 1) /\ p * (k + 1) <= x + p
  BY <1>1, <1>2
<1> QED
  BY <1>2, <1>3, <1>4

LEMMA GridFinite ==
    ASSUME NEW t \in Nat, IsFiniteSet(Crons), IsFiniteSet(Queues),
           NEW G \in SUBSET (Crons \X (StartTime..t)), NEW P \in SUBSET (Queues \X G)
    PROVE  /\ IsFiniteSet(P) /\ Cardinality(P) \in Nat
           /\ Cardinality(P) <= Cardinality(Queues) * Cardinality(G)
<1>1. IsFiniteSet(StartTime..t)
  BY FS_Interval, OptionsAssumption
<1>2. IsFiniteSet(Crons \X (StartTime..t))
  BY <1>1, FS_Product
<1>3. IsFiniteSet(G)
  BY <1>2, FS_Subset
<1>4. /\ IsFiniteSet(Queues \X G)
      /\ Cardinality(Queues \X G) = Cardinality(Queues) * Cardinality(G)
  BY <1>3, FS_Product
<1>5. IsFiniteSet(P) /\ Cardinality(P) <= Cardinality(Queues \X G)
  BY <1>4, FS_Subset
<1> QED
  BY <1>4, <1>5, FS_CardinalityType

LEMMA InitLedger ==
    ASSUME IsFiniteSet(Crons), IsFiniteSet(Queues), Init
    PROVE  Timely /\ Ledger
<1>1. Timely
  BY OptionsAssumption DEF Init, Timely
<1>2. clock \in Nat
  BY InitType DEF TypeOK
<1>3. Grid \subseteq Crons \X (StartTime..clock) /\ Points \subseteq Queues \X Grid
  BY DEF Grid, Points
<1>4. Cardinality(Points) \in Nat /\ Cardinality(Crons) \in Nat
  BY <1>2, <1>3, GridFinite, FS_CardinalityType
<1>5. issued = 0 /\ faults = 0
  BY DEF Init
<1>6. \A n, p \in Nat : 0 <= 0 * n + p
  OBVIOUS
<1> QED
  BY <1>1, <1>4, <1>5, <1>6 DEF Ledger

LEMMA PointsFinite ==
    ASSUME TypeOK, TypeOK', IsFiniteSet(Crons), IsFiniteSet(Queues)
    PROVE  /\ IsFiniteSet(Points) /\ Cardinality(Points) \in Nat
           /\ IsFiniteSet(Points') /\ Cardinality(Points') \in Nat
           /\ Cardinality(Crons) \in Nat
           /\ issued \in Nat /\ faults \in Nat /\ faults' \in Nat
<1>1. clock \in Nat /\ clock' \in Nat /\ issued \in Nat /\ faults \in Nat /\ faults' \in Nat
  BY OptionsAssumption DEF TypeOK
<1>2. /\ Grid \subseteq Crons \X (StartTime..clock) /\ Points \subseteq Queues \X Grid
      /\ Grid' \subseteq Crons \X (StartTime..clock') /\ Points' \subseteq Queues \X Grid'
  BY DEF Grid, Points
<1> QED
  BY <1>1, <1>2, GridFinite, FS_CardinalityType

\* The step's arithmetic: the points that are left, those it lost at a fault,
\* and the jobs it added.
LEMMA Balance ==
    ASSUME NEW n \in Nat, NEW p \in Nat, NEW q \in Nat, NEW i \in Nat, NEW f \in Nat,
           i <= f * n + p
    PROVE  /\ p <= q => i <= f * n + q
           /\ p <= q + n => i <= (f + 1) * n + q
           /\ p + 1 <= q => i + 1 <= f * n + q
<1>1. f * n \in Nat /\ (f + 1) * n = f * n + n
  OBVIOUS
<1> QED
  BY <1>1

\* A step that only adds points, and no job.
LEMMA LedgerKept ==
    ASSUME TypeOK, TypeOK', IsFiniteSet(Crons), IsFiniteSet(Queues), Ledger,
           issued' = issued, faults' = faults \/ faults' = faults + 1,
           Points \subseteq Points'
    PROVE  Ledger'
<1>1. Cardinality(Points) <= Cardinality(Points')
  BY PointsFinite, FS_Subset
<1>2. Cardinality(Points) <= Cardinality(Points') + Cardinality(Crons)
  BY <1>1, PointsFinite
<1>3. issued <= faults * Cardinality(Crons) + Cardinality(Points)
  BY DEF Ledger
<1>4. /\ issued <= faults * Cardinality(Crons) + Cardinality(Points')
      /\ issued <= (faults + 1) * Cardinality(Crons) + Cardinality(Points')
  BY <1>1, <1>2, <1>3, PointsFinite, Balance
<1> QED
  BY <1>4 DEF Ledger

\* A step that leaves firings alone: a worker at its crons was there before, or
\* reads the clock now.
LEMMA FiringsKept ==
    ASSUME TypeOK, TypeOK', IsFiniteSet(Crons), IsFiniteSet(Queues), Timely, Ledger,
           issued' = issued, faults' = faults \/ faults' = faults + 1,
           firing' = firing, lastFired' = lastFired, clock' = clock \/ clock' = clock + 1,
           \A q \in Queues : crons[q] \subseteq crons'[q],
           \A w \in Workers :
              /\ todo'[w] \subseteq crons[QueueOf[w]]
              /\ firing[w] # NoCron => pc'[w] = "cron"
              /\ pc'[w] = "cron" => \/ pc[w] = "cron" /\ now'[w] = now[w]
                                    \/ now'[w] = clock
    PROVE  Timely' /\ Ledger'
<1>t. /\ clock \in Nat /\ clock' \in Nat /\ StartTime \in Nat /\ QueueOf \in [Workers -> Queues]
      /\ now \in [Workers -> Nat] /\ now' \in [Workers -> Nat]
  BY OptionsAssumption DEF TypeOK
<1>1. \A q \in Queues : \A t : Seen(q, t) => Seen(q, t)'
  BY <1>t DEF Seen
<1>2. Timely'
  <2>1. StartTime <= clock'
    BY <1>t DEF Timely
  <2>2. \A w \in Workers : pc'[w] = "cron" => now'[w] \in StartTime..clock'
    BY <1>t DEF Timely
  <2>3. \A w \in Workers : /\ firing'[w] # NoCron => pc'[w] = "cron"
                           /\ todo'[w] \subseteq crons'[QueueOf[w]]
                           /\ firing'[w] \in crons'[QueueOf[w]] \cup {NoCron}
    BY <1>t DEF Timely
  <2>4. \A q \in Queues, c \in Crons : /\ lastFired'[q][c] # 0 => Seen(q, lastFired[q][c])'
                                       /\ c \notin crons'[q] => lastFired'[q][c] = 0
    BY <1>1 DEF Timely
  <2> QED
    BY <2>1, <2>2, <2>3, <2>4 DEF Timely
<1>3. \A q \in Queues : \A c, t : Spent(q, c, t) => Spent(q, c, t)'
  BY <1>1 DEF Spent, Fires
<1>4. Grid \subseteq Grid'
  BY <1>t DEF Grid
<1>5. Points \subseteq Points'
  BY <1>3, <1>4 DEF Points
<1> QED
  BY <1>2, <1>5, LedgerKept

\* A cron whose job is inserted spends a new point: the start, or one within a
\* period after its last firing.
LEMMA LedgerFire ==
    ASSUME TypeOK, TypeOK', IsFiniteSet(Crons), IsFiniteSet(Queues), Alone, Timely, Ledger,
           NEW w \in Workers, NEW c \in Crons, pc[w] = "cron", firing[w] = NoCron, c \in todo[w],
           CronDue(QueueOf[w], c, now[w]), issued' = issued + 1, faults' = faults,
           firing' = [firing EXCEPT ![w] = c],
           UNCHANGED <<todo, crons, lastFired, pc, now, clock>>
    PROVE  Timely' /\ Ledger'
<1> DEFINE q == QueueOf[w]
           last == lastFired[q][c]
           period == CronPeriod[c]
<1>q. q \in Queues /\ NoCron \notin Crons /\ firing \in [Workers -> Crons \cup {NoCron}]
  BY OptionsAssumption DEF TypeOK
<1>n. clock \in Nat /\ StartTime \in Nat /\ now[w] \in Nat /\ period \in Nat \ {0}
  BY OptionsAssumption DEF TypeOK
<1>l. last \in Nat
  BY <1>q DEF TypeOK
<1>t. /\ clock \in Nat /\ StartTime \in Nat /\ q \in Queues /\ last \in Nat /\ now[w] \in Nat
      /\ period \in Nat \ {0} /\ c # NoCron /\ firing \in [Workers -> Crons \cup {NoCron}]
  BY <1>q, <1>n, <1>l
<1>1. \A r \in Queues : \A t : Seen(r, t)' = Seen(r, t)
  BY DEF Seen
<1>2. Timely'
  <2>1. \A v \in Workers : /\ firing'[v] # NoCron => pc'[v] = "cron"
                           /\ firing'[v] \in crons'[QueueOf[v]] \cup {NoCron}
    BY <1>t DEF Timely
  <2> QED
    BY <2>1, <1>1 DEF Timely
<1>3. ~Fires(q, c) /\ Fires(q, c)'
  BY <1>t DEF Alone, Fires
<1>4. \A r \in Queues, d \in Crons : Fires(r, d) => Fires(r, d)'
  BY <1>q DEF Fires
<1>5. Grid' = Grid
  BY DEF Grid
<1>6. \A r \in Queues, d \in Crons : \A t : Spent(r, d, t) => Spent(r, d, t)'
  BY <1>1, <1>4 DEF Spent
<1>7. Points \subseteq Points'
  BY <1>5, <1>6 DEF Points, Grid
<1>8. \E t : Spent(q, c, t)' /\ ~Spent(q, c, t)
  <2>1. CASE last = 0
    <3>1. Seen(q, StartTime)
      BY <1>t DEF Seen, Timely
    <3>2. StartTime - StartTime = 0 /\ 0 % period = 0
      BY <1>t
    <3>3. Spent(q, c, StartTime)'
      BY <3>1, <3>2, <1>1, <1>3, <1>t DEF Spent
    <3>4. ~Spent(q, c, StartTime)
      BY <2>1, <1>3 DEF Spent
    <3> QED
      BY <3>3, <3>4
  <2>2. CASE last # 0
    <3>1. StartTime <= last /\ last + period <= now[w] /\ now[w] <= clock
      BY <2>2, <1>t DEF Timely, Seen, CronDue
    <3>2. last - StartTime \in Nat
      BY <3>1, <1>t
    <3>3. PICK y \in Nat : /\ last - StartTime < y /\ y <= (last - StartTime) + period
                           /\ y % period = 0
      BY <3>2, <1>t, NextMultiple
    <3> HIDE DEF last, period, q
    <3>4. /\ StartTime + y \in StartTime..clock /\ StartTime + y <= now[w]
          /\ last < StartTime + y /\ (StartTime + y) - StartTime = y
      BY <3>1, <3>3, <1>t
    <3>5. \A v \in Workers : QueueOf[v] = q => v = w
      BY DEF Alone, q
    <3>6. Seen(q, StartTime + y)
      BY <3>4, <3>5 DEF Seen
    <3>7. Spent(q, c, StartTime + y)'
      BY <3>3, <3>4, <3>6, <1>1, <1>3, <1>t DEF Spent, period
    <3>8. ~(StartTime + y <= last)
      BY <3>4, <3>3, <1>t
    <3>9. ~Spent(q, c, StartTime + y)
      BY <2>2, <3>8, <1>3 DEF Spent, last
    <3> QED
      BY <3>7, <3>9
  <2> QED
    BY <2>1, <2>2
<1>9. PICK t : Spent(q, c, t)' /\ ~Spent(q, c, t)
  BY <1>8
<1>10. <<q, <<c, t>>>> \in Points' /\ <<q, <<c, t>>>> \notin Points
  BY <1>9, <1>t DEF Points, Grid, Spent, Seen
<1>11. Cardinality(Points) + 1 <= Cardinality(Points')
  <2>1. Points \cup {<<q, <<c, t>>>>} \subseteq Points'
    BY <1>7, <1>10
  <2>2. Cardinality(Points \cup {<<q, <<c, t>>>>}) = Cardinality(Points) + 1
    BY <1>10, PointsFinite, FS_AddElement
  <2> QED
    BY <2>1, <2>2, PointsFinite, FS_Subset
<1>12. issued <= faults * Cardinality(Crons) + Cardinality(Points)
  BY DEF Ledger
<1>13. issued + 1 <= faults * Cardinality(Crons) + Cardinality(Points')
  BY <1>11, <1>12, PointsFinite, Balance
<1> QED
  BY <1>2, <1>13 DEF Ledger

\* The entry is marked with the time its worker read: every point seen is spent
\* after as it was before.
LEMMA LedgerMark ==
    ASSUME TypeOK, TypeOK', IsFiniteSet(Crons), IsFiniteSet(Queues), Alone, Timely, Ledger,
           NEW w \in Workers, CronMark(w)
    PROVE  Timely' /\ Ledger'
<1> DEFINE q == QueueOf[w]
           c == firing[w]
<1>1. /\ pc[w] = "cron" /\ c # NoCron /\ pc' = pc /\ now' = now /\ clock' = clock
      /\ crons' = crons /\ issued' = issued /\ faults' = faults
      /\ lastFired' = [lastFired EXCEPT ![q][c] = now[w]]
      /\ todo' = [todo EXCEPT ![w] = @ \ {c}]
      /\ firing' = [firing EXCEPT ![w] = NoCron]
  BY DEF CronMark, tableVars
<1>q. /\ q \in Queues /\ c \in Crons /\ lastFired \in [Queues -> [Crons -> Nat]]
      /\ firing \in [Workers -> Crons \cup {NoCron}] /\ todo \in [Workers -> SUBSET Crons]
  BY <1>1, OptionsAssumption DEF TypeOK
<1>n. /\ clock \in Nat /\ now \in [Workers -> Nat] /\ StartTime \in Nat \ {0}
      /\ now[w] \in StartTime..clock /\ now[w] # 0
  <2>1. clock \in Nat /\ now \in [Workers -> Nat]
    BY DEF TypeOK
  <2>2. StartTime \in Nat \ {0}
    BY OptionsAssumption
  <2>3. now[w] \in StartTime..clock
    BY <1>1 DEF Timely
  <2>4. now[w] # 0
    BY <2>2, <2>3
  <2> QED
    BY <2>1, <2>2, <2>3, <2>4
<1>2. lastFired'[q][c] = now[w]
  BY <1>1, <1>q
<1>3. \A r \in Queues, d \in Crons : r # q \/ d # c => lastFired'[r][d] = lastFired[r][d]
  BY <1>1, <1>q
<1>4. \A r \in Queues : \A t : Seen(r, t)' = Seen(r, t)
  BY <1>1 DEF Seen
<1> HIDE DEF q, c
<1>5. \A t : Seen(q, t) => t <= now[w]
  BY <1>1 DEF Seen, q
<1>6. \A r \in Queues, d \in Crons : r # q \/ d # c => (Fires(r, d) => Fires(r, d)')
  BY <1>1, <1>q DEF Fires, q, c
<1>7. ASSUME NEW r \in Queues, NEW d \in Crons, NEW t, Spent(r, d, t) PROVE Spent(r, d, t)'
  <2>1. (t - StartTime) % CronPeriod[d] = 0 /\ Seen(r, t) /\ Seen(r, t)'
    BY <1>4, <1>7 DEF Spent
  <2>2. CASE r = q /\ d = c
    <3>1. t <= lastFired'[r][d] /\ lastFired'[r][d] # 0
      BY <2>1, <2>2, <1>2, <1>5, <1>n
    <3> QED
      BY <2>1, <3>1 DEF Spent
  <2>3. CASE r # q \/ d # c
    BY <2>1, <2>3, <1>3, <1>6, <1>7 DEF Spent
  <2> QED
    BY <2>2, <2>3
<1>8. Points \subseteq Points'
  BY <1>1, <1>7 DEF Points, Grid
<1>9. Timely'
  <2>1. c \in crons[q]
    BY <1>1 DEF Timely, c, q
  <2>2. \A v \in Workers : /\ pc'[v] = "cron" => now'[v] \in StartTime..clock'
                           /\ firing'[v] # NoCron => pc'[v] = "cron"
                           /\ firing'[v] \in crons'[QueueOf[v]] \cup {NoCron}
    BY <1>1, <1>q DEF Timely
  <2>3. \A v \in Workers : todo'[v] \subseteq crons'[QueueOf[v]]
    BY <1>1, <1>q DEF Timely
  <2>4. ASSUME NEW r \in Queues, NEW d \in Crons
        PROVE  /\ lastFired'[r][d] # 0 => Seen(r, lastFired[r][d])'
               /\ d \notin crons'[r] => lastFired'[r][d] = 0
    <3>1. CASE r = q /\ d = c
      <4>1. Seen(q, now[w])
        <5>1. \A v \in Workers : QueueOf[v] = q => v = w
          BY DEF Alone, q
        <5> QED
          BY <5>1, <1>n DEF Seen
      <4> QED
        BY <3>1, <4>1, <2>1, <1>1, <1>2, <1>4
    <3>2. CASE r # q \/ d # c
      BY <3>2, <1>1, <1>3, <1>4 DEF Timely
    <3> QED
      BY <3>1, <3>2
  <2>5. StartTime <= clock'
    BY <1>1 DEF Timely
  <2> QED
    BY <2>2, <2>3, <2>4, <2>5 DEF Timely
<1> QED
  BY <1>1, <1>8, <1>9, LedgerKept

\* A crash forgets when its Queue's crons fired: the start is spent no more.
LEMMA LedgerCrash ==
    ASSUME TypeOK, TypeOK', IsFiniteSet(Crons), IsFiniteSet(Queues), Timely, Ledger,
           NEW q \in Queues, Crash(q)
    PROVE  Timely' /\ Ledger'
<1>1. /\ issued' = issued /\ faults' = faults + 1 /\ clock' = clock
      /\ crons' = [crons EXCEPT ![q] = {}]
      /\ lastFired' = [lastFired EXCEPT ![q] = [c \in Crons |-> 0]]
  BY DEF Crash, tableVars
<1>2. \A w \in Workers : QueueOf[w] = q =>
        pc'[w] = "down" /\ todo'[w] = {} /\ firing'[w] = NoCron
  BY DEF Crash
<1>3. \A w \in Workers : QueueOf[w] # q =>
        pc'[w] = pc[w] /\ now'[w] = now[w] /\ todo'[w] = todo[w] /\ firing'[w] = firing[w]
  BY DEF Crash
<1>q. /\ QueueOf \in [Workers -> Queues] /\ NoCron \notin Crons
      /\ crons \in [Queues -> SUBSET Crons] /\ lastFired \in [Queues -> [Crons -> Nat]]
  BY OptionsAssumption DEF TypeOK
<1>4. \A r \in Queues : \A t : Seen(r, t) => Seen(r, t)'
  BY <1>1, <1>2, <1>3 DEF Seen
<1>5. \A c \in Crons : lastFired'[q][c] = 0
  BY <1>1, <1>q
<1>6. \A r \in Queues \ {q} : lastFired'[r] = lastFired[r] /\ crons'[r] = crons[r]
  BY <1>1, <1>q
<1>7. Timely'
  <2>1. \A w \in Workers :
          /\ pc'[w] = "cron" => now'[w] \in StartTime..clock'
          /\ firing'[w] # NoCron => pc'[w] = "cron"
          /\ todo'[w] \subseteq crons'[QueueOf[w]]
          /\ firing'[w] \in crons'[QueueOf[w]] \cup {NoCron}
    <3> SUFFICES ASSUME NEW w \in Workers
                 PROVE  /\ pc'[w] = "cron" => now'[w] \in StartTime..clock'
                        /\ firing'[w] # NoCron => pc'[w] = "cron"
                        /\ todo'[w] \subseteq crons'[QueueOf[w]]
                        /\ firing'[w] \in crons'[QueueOf[w]] \cup {NoCron}
      OBVIOUS
    <3>1. CASE QueueOf[w] = q
      BY <3>1, <1>2
    <3>2. CASE QueueOf[w] # q
      BY <3>2, <1>1, <1>3, <1>6, <1>q DEF Timely
    <3> QED
      BY <3>1, <3>2
  <2>2. ASSUME NEW r \in Queues, NEW c \in Crons
        PROVE  /\ lastFired'[r][c] # 0 => Seen(r, lastFired[r][c])'
               /\ c \notin crons'[r] => lastFired'[r][c] = 0
    <3>1. CASE r = q
      BY <3>1, <1>5
    <3>2. CASE r # q
      BY <3>2, <1>4, <1>6 DEF Timely
    <3> QED
      BY <3>1, <3>2
  <2>3. StartTime <= clock'
    BY <1>1 DEF Timely
  <2> QED
    BY <2>1, <2>2, <2>3 DEF Timely
<1> DEFINE Lost == {q} \X (Crons \X {StartTime})
<1>8. IsFiniteSet(Lost) /\ Cardinality(Lost) = Cardinality(Crons)
  <2>1. /\ IsFiniteSet({q}) /\ Cardinality({q}) = 1
        /\ IsFiniteSet({StartTime}) /\ Cardinality({StartTime}) = 1
    BY FS_Singleton
  <2>2. /\ IsFiniteSet(Crons \X {StartTime})
        /\ Cardinality(Crons \X {StartTime}) = Cardinality(Crons) * 1
    BY <2>1, FS_Product
  <2>3. /\ IsFiniteSet(Lost)
        /\ Cardinality(Lost) = 1 * Cardinality(Crons \X {StartTime})
    BY <2>1, <2>2, FS_Product
  <2> QED
    BY <2>2, <2>3, PointsFinite
<1>9. Points \subseteq Points' \cup Lost
  <2> SUFFICES ASSUME NEW r \in Queues, NEW c \in Crons, NEW t \in StartTime..clock,
                      <<r, <<c, t>>>> \in Points, <<r, <<c, t>>>> \notin Lost
               PROVE  <<r, <<c, t>>>> \in Points'
    BY DEF Points, Grid
  <2>1. Spent(r, c, t) /\ Seen(r, t)' /\ (t - StartTime) % CronPeriod[c] = 0
    BY <1>4 DEF Points, Spent
  <2>2. Spent(r, c, t)'
    <3>1. CASE r = q
      <4>1. t # StartTime
        BY <3>1
      <4> QED
        BY <3>1, <4>1, <2>1, <1>5 DEF Spent
    <3>2. CASE r # q
      <4>1. Fires(r, c) => Fires(r, c)'
        BY <3>2, <1>3 DEF Fires
      <4> QED
        BY <3>2, <4>1, <2>1, <1>6 DEF Spent
    <3> QED
      BY <3>1, <3>2
  <2> QED
    BY <2>1, <2>2, <1>1 DEF Points, Grid
<1> HIDE DEF Lost
<1>10. Cardinality(Points) <= Cardinality(Points') + Cardinality(Crons)
  <2>1. /\ IsFiniteSet(Points' \cup Lost)
        /\ Cardinality(Points' \cup Lost)
             = Cardinality(Points') + Cardinality(Lost) - Cardinality(Points' \cap Lost)
    BY <1>8, PointsFinite, FS_Union
  <2>2. Cardinality(Points' \cap Lost) \in Nat
    BY PointsFinite, FS_Intersection, FS_CardinalityType
  <2>3. Cardinality(Points) <= Cardinality(Points' \cup Lost)
    BY <1>9, <2>1, FS_Subset
  <2>4. \A p, r, n, k, u \in Nat : p <= u /\ u = r + n - k => p <= r + n
    OBVIOUS
  <2>5. Cardinality(Points' \cup Lost) \in Nat
    BY <2>1, FS_CardinalityType
  <2> QED
    BY <1>8, <2>1, <2>2, <2>3, <2>4, <2>5, PointsFinite
<1>11. issued <= faults * Cardinality(Crons) + Cardinality(Points)
  BY DEF Ledger
<1>12. issued <= (faults + 1) * Cardinality(Crons) + Cardinality(Points')
  BY <1>10, <1>11, PointsFinite, Balance
<1> QED
  BY <1>1, <1>7, <1>12 DEF Ledger

LEMMA LedgerStep ==
    ASSUME AttemptLimits = {}, Alone, IsFiniteSet(Crons), IsFiniteSet(Queues)
    PROVE  TypeOK /\ TypeOK' /\ Locals /\ Timely /\ Ledger /\ [Next]_vars => Timely' /\ Ledger'
<1> SUFFICES ASSUME TypeOK, TypeOK', Locals, Timely, Ledger, [Next]_vars
             PROVE  Timely' /\ Ledger'
  OBVIOUS
<1>t. /\ QueueOf \in [Workers -> Queues] /\ crons \in [Queues -> SUBSET Crons]
      /\ pc \in [Workers -> Steps] /\ now \in [Workers -> Nat]
      /\ firing \in [Workers -> Crons \cup {NoCron}] /\ todo \in [Workers -> SUBSET Crons]
  BY OptionsAssumption DEF TypeOK
<1>s. \A w \in Workers : /\ todo[w] \subseteq crons[QueueOf[w]]
                         /\ firing[w] # NoCron => pc[w] = "cron"
  BY DEF Timely
<1>1. CASE /\ UNCHANGED <<issued, faults, firing, lastFired, crons, todo, pc, now>>
           /\ clock' = clock \/ clock' = clock + 1
  BY <1>1, <1>s, FiringsKept
<1>2. ASSUME NEW q \in Queues, NEW c \in Crons, RegisterCron(q, c) PROVE Timely' /\ Ledger'
  <2>1. UNCHANGED <<issued, faults, firing, todo, pc, now, clock>>
    BY <1>2 DEF RegisterCron, tableVars, workerVars
  <2>2. lastFired' = lastFired
    <3>1. lastFired[q][c] = 0
      BY <1>2 DEF RegisterCron, Timely
    <3> QED
      BY <3>1, <1>2 DEF RegisterCron, TypeOK
  <2>3. \A r \in Queues : crons[r] \subseteq crons'[r]
    BY <1>2, <1>t DEF RegisterCron
  <2> QED
    BY <2>1, <2>2, <2>3, <1>s, FiringsKept
<1>3. ASSUME NEW w \in Workers, Spawn(w) \/ Poll(w) \/ DrainBatch(w) PROVE Timely' /\ Ledger'
  <2>1. UNCHANGED <<issued, faults, firing, lastFired, crons, clock>>
    BY <1>3 DEF Spawn, Poll, DrainBatch, tableVars, queueVars
  <2>2. \A v \in Workers :
          /\ todo'[v] \subseteq crons[QueueOf[v]]
          /\ firing[v] # NoCron => pc'[v] = "cron"
          /\ pc'[v] = "cron" => (pc[v] = "cron" /\ now'[v] = now[v]) \/ now'[v] = clock
    BY <1>3, <1>s, <1>t DEF Spawn, Poll, DrainBatch
  <2> QED
    BY <2>1, <2>2, FiringsKept
<1>4. ASSUME NEW w \in Workers, UNCHANGED <<issued, queueVars, clock>>,
             faults' = faults \/ faults' = faults + 1, firing[w] = NoCron,
             firing' = firing \/ firing' = [firing EXCEPT ![w] = NoCron],
             todo' = todo \/ todo' = [todo EXCEPT ![w] = {}],
             pc'[w] # "cron", \A v \in Workers \ {w} : pc'[v] = pc[v] /\ now'[v] = now[v]
      PROVE  Timely' /\ Ledger'
  <2>1. firing' = firing
    BY <1>4, <1>t
  <2>2. \A v \in Workers :
          /\ todo'[v] \subseteq crons[QueueOf[v]]
          /\ firing[v] # NoCron => pc'[v] = "cron"
          /\ pc'[v] = "cron" => (pc[v] = "cron" /\ now'[v] = now[v]) \/ now'[v] = clock
    BY <1>4, <1>s, <1>t
  <2>3. UNCHANGED <<lastFired, crons, clock, issued>>
    BY <1>4 DEF queueVars
  <2> QED
    BY <2>1, <2>2, <2>3, <1>4, FiringsKept
<1>5. ASSUME NEW w \in Workers, Claim(w) \/ Dispatch(w) \/ Record(w) \/ RunFails(w)
      PROVE  Timely' /\ Ledger'
  <2>1. firing[w] = NoCron
    BY <1>5, <1>s DEF Claim, Dispatch, Record, RunFails
  <2>2. UNCHANGED <<issued, queueVars, clock>> /\ (faults' = faults \/ faults' = faults + 1)
    BY <1>5 DEF Claim, Dispatch, Record, RunFails, tableVars
  <2>3. /\ firing' = firing \/ firing' = [firing EXCEPT ![w] = NoCron]
        /\ todo' = todo \/ todo' = [todo EXCEPT ![w] = {}]
    BY <1>5 DEF Claim, Dispatch, Record, RunFails, Fresh
  <2>4. pc'[w] # "cron" /\ \A v \in Workers \ {w} : pc'[v] = pc[v] /\ now'[v] = now[v]
    BY <1>5, <1>t DEF Claim, Dispatch, Record, RunFails, Fresh
  <2> QED
    BY <2>1, <2>2, <2>3, <2>4, <1>4
<1>6. ASSUME NEW w \in Workers, NEW c \in Crons, CronCheck(w, c) PROVE Timely' /\ Ledger'
  <2>1. UNCHANGED <<lastFired, crons, pc, now, clock, faults>>
    BY <1>6 DEF CronCheck, queueVars
  <2>2. CASE todo' = [todo EXCEPT ![w] = @ \ {c}] /\ UNCHANGED <<tableVars, firing>>
    <3>1. \A v \in Workers : /\ todo'[v] \subseteq crons[QueueOf[v]]
                             /\ firing[v] # NoCron => pc'[v] = "cron"
      BY <2>1, <2>2, <1>s, <1>t
    <3> QED
      BY <2>1, <2>2, <3>1, FiringsKept DEF tableVars
  <2>3. CASE /\ CronDue(QueueOf[w], c, now[w])
             /\ \E read \in now[w]..clock : Insert(CronName[c], read, DefaultAttempts)
             /\ firing' = [firing EXCEPT ![w] = c] /\ UNCHANGED todo
    <3>1. pc[w] = "cron" /\ firing[w] = NoCron /\ c \in todo[w]
      BY <1>6 DEF CronCheck
    <3>2. issued' = issued + 1
      BY <2>3 DEF Insert
    <3> QED
      BY <2>1, <2>3, <3>1, <3>2, LedgerFire
  <2> QED
    BY <2>2, <2>3, <1>6 DEF CronCheck
<1>7. CASE \/ \E older \in Retention : Cleanup(older)
           \/ \E q \in Queues, n \in Names : RegisterHandler(q, n)
           \/ \E q \in Queues : Stop(q)
           \/ Tick
           \/ UNCHANGED vars
  BY <1>7, <1>1 DEF Cleanup, Expired, RegisterHandler, Stop, Tick, workerVars, tableVars, queueVars, vars
<1>8. ~\E n \in Names, d \in Delays, m \in AttemptLimits : Enqueue(n, d, m)
  OBVIOUS
<1> QED
  BY <1>2, <1>3, <1>5, <1>6, <1>7, <1>8, LedgerMark, LedgerCrash DEF Next, WorkerStep

\* Where each Queue has one worker and only crons enqueue, there are no more
\* jobs than one per period elapsed, for each cron and process, and one for
\* each restart, which forgets last_fired_unix.
THEOREM CronJobs ==
    ASSUME AttemptLimits = {}, Alone, IsFiniteSet(Crons), IsFiniteSet(Queues)
    PROVE  Spec => []CronJobsBounded
<1> DEFINE Inv == TypeOK /\ Locals /\ Timely /\ Ledger
<1>1. Init => Inv
  BY InitType, InitLedger
<1>2. Inv /\ [Next]_vars => Inv'
  <2> SUFFICES ASSUME Inv, [Next]_vars PROVE Inv'
    OBVIOUS
  <2>1. TypeOK' /\ Locals'
    BY TypeStep, LocalsStep
  <2> QED
    BY <2>1, LedgerStep
<1>3. Inv => CronJobsBounded
  <2> SUFFICES ASSUME Inv PROVE CronJobsBounded
    OBVIOUS
  <2> DEFINE owed == Cardinality(Queues) * Cardinality(Grid)
  <2>1. clock \in Nat /\ issued \in Nat /\ faults \in Nat /\ Cardinality(Crons) \in Nat
    BY FS_CardinalityType, OptionsAssumption DEF TypeOK
  <2>2. Grid \subseteq Crons \X (StartTime..clock) /\ Points \subseteq Queues \X Grid
    BY DEF Grid, Points
  <2>3. Cardinality(Points) \in Nat /\ Cardinality(Points) <= owed
    BY <2>1, <2>2, GridFinite
  <2>4. owed \in Nat
    <3>1. IsFiniteSet(StartTime..clock)
      BY <2>1, FS_Interval, OptionsAssumption
    <3>2. IsFiniteSet(Grid)
      BY <2>2, <3>1, FS_Product, FS_Subset
    <3>3. Cardinality(Grid) \in Nat /\ Cardinality(Queues) \in Nat
      BY <3>2, FS_CardinalityType
    <3> QED
      BY <3>3
  <2> HIDE DEF owed
  <2>5. issued <= faults * Cardinality(Crons) + Cardinality(Points)
    BY DEF Ledger
  <2>6. issued <= faults * Cardinality(Crons) + owed
    BY <2>1, <2>3, <2>4, <2>5, Balance
  <2> QED
    BY <2>6 DEF CronJobsBounded, owed, Grid
<1> QED
  BY <1>1, <1>2, <1>3, PTL DEF Spec

-----------------------------------------------------------------------------
(***************************************************************************)
(* The life of a job.  With punctual batches a step of the queue submits a *)
(* job, attempts one, concludes one, purges some, or changes no job.       *)
(***************************************************************************)
Entry(r) == [phase |-> IF Terminal(r) THEN r.status ELSE "open", limit |-> r.limit]

\* A job with a row is where its one row says it is, one without is purged.
Placed ==
    \A i \in Live : \A s \in Serials : rows[i].serial = s => LifeOf(s) = Entry(rows[i])

Placeless ==
    \A s \in Serials :
        /\ s <= issued /\ (\A i \in Live : rows[i].serial # s) =>
               LifeOf(s) = [phase |-> "purged", limit |-> 0]
        /\ s > issued => LifeOf(s) = [phase |-> "none", limit |-> 0]

LEMMA Places == TypeOK /\ Account => Placed /\ Placeless
<1> SUFFICES ASSUME TypeOK, Account PROVE Placed /\ Placeless
  OBVIOUS
<1>1. ASSUME NEW i \in Live, NEW s \in Serials, rows[i].serial = s
      PROVE  LifeOf(s) = Entry(rows[i])
  <2> DEFINE k == CHOOSE j \in Ids : rows[j].serial = s
  <2>1. i \in Ids /\ s \in Nat /\ issued \in Nat /\ s <= issued
    BY <1>1, RowNumbers DEF Account, Budgeted
  <2>2. k \in Ids /\ rows[k].serial = s
    BY <1>1, <2>1
  <2>3. s # 0
    BY DEF Serials
  <2>4. k \in Live
    BY <2>2, <2>3 DEF Live, NoRow
  <2>5. k = i
    BY <1>1, <2>2, <2>4 DEF Account
  <2>6. ~(s > issued) /\ ~(\A j \in Ids : rows[j].serial # s)
    BY <1>1, <2>1
  <2>7. LifeOf(s) = Entry(rows[k])
    BY <2>6 DEF LifeOf, Entry
  <2> QED
    BY <2>5, <2>7
<1>2. ASSUME NEW s \in Serials
      PROVE  /\ s <= issued /\ (\A i \in Live : rows[i].serial # s) =>
                    LifeOf(s) = [phase |-> "purged", limit |-> 0]
             /\ s > issued => LifeOf(s) = [phase |-> "none", limit |-> 0]
  <2>1. s \in Nat /\ issued \in Nat /\ s # 0
    BY OptionsAssumption DEF Serials, TypeOK
  <2>2. ASSUME s <= issued, \A i \in Live : rows[i].serial # s
        PROVE  LifeOf(s) = [phase |-> "purged", limit |-> 0]
    <3>1. \A i \in Ids : rows[i].serial # s
      BY <2>1, <2>2 DEF Live, NoRow
    <3>2. ~(s > issued)
      BY <2>1, <2>2
    <3> QED
      BY <3>1, <3>2 DEF LifeOf
  <2>3. ASSUME s > issued PROVE LifeOf(s) = [phase |-> "none", limit |-> 0]
    BY <2>3 DEF LifeOf
  <2> QED
    BY <2>2, <2>3
<1> QED
  BY <1>1, <1>2 DEF Placed, Placeless

\* A step that leaves the row of a job, and what it says, leaves its life.
LEMMA LifeKept ==
    ASSUME TypeOK, TypeOK', Account, Account', NEW s \in Serials,
           (s <= issued) <=> (s <= issued'),
           \A i \in Live : rows[i].serial = s =>
               i \in Live' /\ rows'[i].serial = s /\ Entry(rows'[i]) = Entry(rows[i]),
           \A i \in Live' : rows'[i].serial = s => i \in Live /\ rows[i].serial = s
    PROVE  LifeOf(s)' = LifeOf(s)
<1>1. Placed /\ Placeless
  BY Places
<1>2. Placed' /\ Placeless'
  BY Places, PTL
<1>3. s \in Nat /\ issued \in Nat /\ issued' \in Nat
  BY OptionsAssumption DEF Serials, TypeOK
<1>4. ASSUME NEW i \in Live, rows[i].serial = s PROVE LifeOf(s)' = LifeOf(s)
  <2>1. i \in Live' /\ rows'[i].serial = s /\ Entry(rows'[i]) = Entry(rows[i])
    BY <1>4
  <2>2. LifeOf(s) = Entry(rows[i])
    BY <1>1, <1>4 DEF Placed
  <2>3. LifeOf(s)' = Entry(rows[i])'
    BY <1>2, <2>1 DEF Placed
  <2> QED
    BY <2>1, <2>2, <2>3 DEF Entry, Terminal
<1>5. CASE s <= issued /\ \A i \in Live : rows[i].serial # s
  <2>1. s <= issued' /\ \A i \in Live' : rows'[i].serial # s
    BY <1>5
  <2> QED
    BY <2>1, <1>1, <1>2, <1>5 DEF Placeless
<1>6. CASE s > issued
  <2>1. s > issued'
    BY <1>3, <1>6
  <2> QED
    BY <2>1, <1>1, <1>2, <1>6 DEF Placeless
<1> QED
  BY <1>3, <1>4, <1>5, <1>6

\* A step that leaves what every row says leaves all lives.
LEMMA LivesKept ==
    ASSUME TypeOK, TypeOK', Account, Account', issued' = issued,
           \A i \in Ids : /\ rows'[i] # NoRow <=> rows[i] # NoRow
                          /\ rows[i] # NoRow => /\ rows'[i].serial = rows[i].serial
                                                /\ Entry(rows'[i]) = Entry(rows[i])
    PROVE  Lives' = Lives
<1>1. ASSUME NEW s \in Serials PROVE LifeOf(s)' = LifeOf(s)
  <2>1. \A i \in Live : rows[i].serial = s =>
            i \in Live' /\ rows'[i].serial = s /\ Entry(rows'[i]) = Entry(rows[i])
    BY DEF Live
  <2>2. \A i \in Live' : rows'[i].serial = s => i \in Live /\ rows[i].serial = s
    BY DEF Live
  <2> QED
    BY <2>1, <2>2, LifeKept
<1> QED
  BY <1>1 DEF Lives
-----------------------------------------------------------------------------
\* A job is submitted.
LEMMA LifeInsert ==
    ASSUME TypeOK, TypeOK', Account, Account', NEW n \in Names, NEW d \in Nat,
           NEW m \in AttemptLimits \cup {DefaultAttempts}, Insert(n, d, m), runs' = runs
    PROVE  Life!Next
<1>s. PICK s \in Serials : s = issued + 1
  BY OptionsAssumption DEF Insert, TypeOK, Serials
<1>1. PICK k \in Ids : IsNewId(k) /\ rows' = [rows EXCEPT ![k] = NewRow(n, d, m)]
  BY DEF Insert
<1>2. issued' = s /\ issued \in Nat /\ s > issued
  BY <1>s, OptionsAssumption DEF Insert, TypeOK, Serials
<1>3. k \notin Live
  BY <1>1 DEF IsNewId, Ids, Live
<1>4. rows'[k] = NewRow(n, d, m) /\ \A i \in Ids : i # k => rows'[i] = rows[i]
  BY <1>1 DEF TypeOK
<1>5. rows'[k].serial = s /\ Entry(rows'[k]) = [phase |-> "open", limit |-> m]
  BY <1>s, <1>4 DEF NewRow, Entry, Terminal
<1>6. k \in Live'
  BY <1>2, <1>5 DEF Live, NoRow
<1>7. LifeOf(s) = [phase |-> "none", limit |-> 0]
  BY <1>2, Places DEF Placeless
<1>8. LifeOf(s)' = [phase |-> "open", limit |-> m]
  <2>1. Placed'
    BY Places, PTL
  <2>2. LifeOf(s)' = Entry(rows[k])'
    BY <2>1, <1>2, <1>5, <1>6 DEF Placed
  <2> QED
    BY <2>2, <1>5 DEF Entry, Terminal
<1>9. ASSUME NEW t \in Serials, t # s PROVE LifeOf(t)' = LifeOf(t)
  <2>1. (t <= issued) <=> (t <= issued')
    BY <1>s, <1>2, <1>9 DEF Serials
  <2>2. \A i \in Live : rows[i].serial = t =>
            i \in Live' /\ rows'[i].serial = t /\ Entry(rows'[i]) = Entry(rows[i])
    BY <1>3, <1>4 DEF Live
  <2>3. \A i \in Live' : rows'[i].serial = t => i \in Live /\ rows[i].serial = t
    BY <1>4, <1>5, <1>9 DEF Live
  <2> QED
    BY <2>1, <2>2, <2>3, LifeKept
<1>10. Life!Submit(s, m)
  <2>1. Lives[s] = Life!Untold
    BY <1>2, <1>7 DEF Lives, Life!Untold
  <2>2. Lives' = [Lives EXCEPT ![s] = [phase |-> "open", limit |-> m]]
    BY <1>8, <1>9 DEF Lives
  <2> QED
    BY <2>1, <2>2 DEF Life!Submit
<1> QED
  BY <1>2, <1>10 DEF Life!Next

\* A handler is run: the job is in somebody's hands, hence still open.
LEMMA LifeDispatch ==
    ASSUME TypeOK, TypeOK', Ownership, Account, Account', NEW w \in Workers, Dispatch(w)
    PROVE  Life!Next
<1>1. PICK e \in batch[w] : \E outcome \in OutcomesOf(w, e) :
          runs' = [runs EXCEPT ![e.serial] = Ran(@, outcome)]
  BY DEF Dispatch
<1>2. PICK outcome \in OutcomesOf(w, e) : runs' = [runs EXCEPT ![e.serial] = Ran(@, outcome)]
  BY <1>1
<1>3. rows' = rows /\ issued' = issued
  BY DEF Dispatch, tableVars
<1>4. e \in Held(w)
  BY DEF Held
<1>5. e.id \in Ids /\ e.serial \in Serials
  BY <1>4, HeldType
<1>6. rows[e.id].status = "running" /\ rows[e.id].serial = e.serial
  BY <1>4 DEF Ownership, Mine
<1>7. e.id \in Live
  BY <1>5, <1>6 DEF Live, NoRow
<1>8. LifeOf(e.serial).phase = "open"
  <2>1. LifeOf(e.serial) = Entry(rows[e.id])
    BY <1>5, <1>6, <1>7, Places DEF Placed
  <2> QED
    BY <2>1, <1>6 DEF Entry, Terminal
<1>9. Lives' = Lives
  BY <1>3, LivesKept DEF Entry, Terminal
<1>10. outcome \in {"ok", "error", "missing"}
  BY DEF OutcomesOf
<1>11. \/ runs' = [runs EXCEPT ![e.serial].ok = TRUE]
       \/ runs' = [runs EXCEPT ![e.serial].errors = @ + 1]
       \/ runs' = [runs EXCEPT ![e.serial].missing = TRUE]
  BY <1>2, <1>10 DEF Ran
<1>12. Life!Attempt(e.serial)
  BY <1>5, <1>8, <1>9, <1>11 DEF Life!Attempt, Lives
<1> QED
  BY <1>5, <1>12 DEF Life!Next

\* A verdict is written: the job is concluded, or tried again later.
LEMMA LifeRecord ==
    ASSUME TypeOK, TypeOK', Locals, Ownership, Account, Account', Honest',
           NEW w \in Workers, Record(w)
    PROVE  Life!Next \/ UNCHANGED <<Lives, runs>>
<1>c. cur[w] # Idle /\ cur[w] \in [entry : JobRow, outcome : Outcomes]
  BY Shapes DEF Record, Locals
<1>1. PICK e \in JobRow, outcome \in Outcomes : e = cur[w].entry /\ outcome = cur[w].outcome
  BY <1>c
<1>h. e \in Held(w)
  BY <1>1, <1>c DEF Held
<1>s. PICK s \in Serials : s = e.serial
  BY DEF JobRow
<1>v. PICK v \in {"succeeded", "failed", "pending"} : v = Verdict(e, outcome)
  BY DEF Verdict, Outcomes
<1>2. e.id \in Ids
  BY DEF JobRow
<1>3. rows[e.id].status = "running" /\ rows[e.id].serial = s
  BY <1>h, <1>s DEF Ownership, Mine
<1>4. e.id \in Live
  BY <1>2, <1>3 DEF Live, NoRow
<1>5. issued' = issued /\ runs' = runs
  BY DEF Record
<1>6. /\ rows'[e.id] = Recorded(rows[e.id], e, outcome)
      /\ \A i \in Ids : i # e.id => rows'[i] = rows[i]
  BY <1>1, <1>2, <1>4 DEF Record, TypeOK, Live
<1>7. rows[e.id] \in Row /\ rows'[e.id] \in Row
  BY <1>2, <1>4, <1>6, RowNumbers, RecordedType
<1>8. /\ rows'[e.id].status = v /\ rows'[e.id].serial = s
      /\ rows'[e.id].limit = rows[e.id].limit
  BY <1>v, <1>3, <1>6, <1>7 DEF Recorded, Row
<1>9. e.id \in Live'
  BY <1>2, <1>7, Shapes DEF Live
<1>11. LifeOf(s) = [phase |-> "open", limit |-> rows[e.id].limit]
  <2>1. LifeOf(s) = Entry(rows[e.id])
    BY <1>3, <1>4, Places DEF Placed
  <2> QED
    BY <2>1, <1>3 DEF Entry, Terminal
<1>12. CASE v = "pending"
  <2>1. Entry(rows'[e.id]) = Entry(rows[e.id])
    BY <1>3, <1>8, <1>12 DEF Entry, Terminal
  <2>2. ASSUME NEW i \in Ids
        PROVE  /\ rows'[i] # NoRow <=> rows[i] # NoRow
               /\ rows[i] # NoRow => /\ rows'[i].serial = rows[i].serial
                                     /\ Entry(rows'[i]) = Entry(rows[i])
    <3>1. CASE i = e.id
      BY <3>1, <2>1, <1>3, <1>4, <1>8, <1>9 DEF Live
    <3>2. CASE i # e.id
      BY <3>2, <1>6
    <3> QED
      BY <3>1, <3>2
  <2>3. Lives' = Lives
    BY <2>2, <1>5, LivesKept
  <2> QED
    BY <2>3, <1>5
<1>13. CASE v \in {"succeeded", "failed"}
  <2>1. LifeOf(s)' = [phase |-> v, limit |-> rows[e.id].limit]
    <3>1. Placed'
      BY Places, PTL
    <3>2. LifeOf(s)' = Entry(rows[e.id])'
      BY <3>1, <1>2, <1>8, <1>9 DEF Placed
    <3> QED
      BY <3>2, <1>8, <1>13 DEF Entry, Terminal
  <2>2. ASSUME NEW t \in Serials, t # s PROVE LifeOf(t)' = LifeOf(t)
    <3>1. \A i \in Live : rows[i].serial = t =>
              i \in Live' /\ rows'[i].serial = t /\ Entry(rows'[i]) = Entry(rows[i])
      BY <2>2, <1>3, <1>6 DEF Live
    <3>2. \A i \in Live' : rows'[i].serial = t => i \in Live /\ rows[i].serial = t
      BY <2>2, <1>6, <1>8 DEF Live
    <3> QED
      BY <3>1, <3>2, <1>5, LifeKept
  <2>3. \/ v = "succeeded" /\ runs[s].ok
        \/ v = "failed" /\ (runs[s].missing \/ runs[s].errors >= LifeOf(s).limit)
    <3>1. rows'[e.id] # NoRow
      BY <1>9 DEF Live
    <3>2. Candid(rows[e.id])'
      BY <3>1, <1>2 DEF Honest
    <3> QED
      BY <3>2, <1>5, <1>8, <1>11, <1>13 DEF Candid
  <2>4. Lives[s] = [phase |-> "open", limit |-> rows[e.id].limit]
    BY <1>2, <1>11 DEF Lives
  <2>5. Lives' = [Lives EXCEPT ![s].phase = v]
    <3>1. [LifeOf(s) EXCEPT !.phase = v] = [phase |-> v, limit |-> rows[e.id].limit]
      BY <1>11
    <3>2. Lives[s] = LifeOf(s)
      BY DEF Lives
    <3>3. [Lives EXCEPT ![s].phase = v] = [Lives EXCEPT ![s] = LifeOf(s)']
      BY <3>1, <3>2, <2>1
    <3> QED
      BY <3>3, <2>2 DEF Lives
  <2>6. Life!Conclude(s, v)
    BY <2>3, <2>4, <2>5, <1>5, <1>11 DEF Life!Conclude
  <2> QED
    BY <2>6, <1>2, <1>13 DEF Life!Next
<1> QED
  BY <1>v, <1>12, <1>13
\* Finished rows are purged: each is the one row of its job.
LEMMA LifeCleanup ==
    ASSUME TypeOK, TypeOK', Account, Account', NEW older \in Retention, Cleanup(older)
    PROVE  Life!Next
<1>1. PICK old \in SUBSET Live :
        /\ \A i \in old : Terminal(rows[i])
        /\ rows' = [i \in Ids |-> IF i \in old THEN NoRow ELSE rows[i]]
  <2> DEFINE old == {i \in Live : Expired(i, older)}
  <2>1. old \in SUBSET Live /\ \A i \in old : Terminal(rows[i])
    BY DEF Expired
  <2>2. rows' = [i \in Ids |-> IF i \in old THEN NoRow ELSE rows[i]]
    BY DEF Cleanup
  <2> QED
    BY <2>1, <2>2
<1>2. issued' = issued /\ runs' = runs
  BY DEF Cleanup
<1>3. PICK S \in SUBSET Serials : \A s \in Serials : s \in S <=> \E i \in old : rows[i].serial = s
  <2>1. {s \in Serials : \E i \in old : rows[i].serial = s} \in SUBSET Serials
    OBVIOUS
  <2> QED
    BY <2>1
<1>4. /\ \A i \in old : i \notin Live'
      /\ \A i \in Live' : i \in Live /\ i \notin old /\ rows'[i] = rows[i]
      /\ \A i \in Live : i \notin old => i \in Live' /\ rows'[i] = rows[i]
  BY <1>1 DEF Live
<1>5. ASSUME NEW s \in S
      PROVE  /\ LifeOf(s).phase \in {"succeeded", "failed"}
             /\ LifeOf(s)' = [phase |-> "purged", limit |-> 0]
  <2>1. PICK i \in old : rows[i].serial = s
    BY <1>3
  <2>2. LifeOf(s) = Entry(rows[i])
    BY <2>1, Places DEF Placed
  <2>3. Terminal(rows[i]) /\ i \in Live /\ s \in Serials
    BY <2>1, <1>1
  <2>4. \A j \in Live' : rows'[j].serial # s
    BY <2>1, <1>4 DEF Account
  <2>5. s <= issued'
    BY <2>1, <2>3, <1>2 DEF Account, Budgeted
  <2>6. Placeless'
    BY Places, PTL
  <2>7. LifeOf(s)' = [phase |-> "purged", limit |-> 0]
    BY <2>3, <2>4, <2>5, <2>6 DEF Placeless
  <2> QED
    BY <2>2, <2>3, <2>7 DEF Entry, Terminal
<1>6. ASSUME NEW s \in Serials, s \notin S PROVE LifeOf(s)' = LifeOf(s)
  <2>1. \A i \in Live : rows[i].serial = s =>
            i \in Live' /\ rows'[i].serial = s /\ Entry(rows'[i]) = Entry(rows[i])
    BY <1>3, <1>4, <1>6
  <2>2. \A i \in Live' : rows'[i].serial = s => i \in Live /\ rows[i].serial = s
    BY <1>4
  <2> QED
    BY <2>1, <2>2, <1>2, LifeKept
<1>7. Lives' = [s \in Serials |-> IF s \in S THEN Life!Purged ELSE Lives[s]]
  BY <1>5, <1>6 DEF Lives, Life!Purged
<1>8. \A s \in S : Lives[s].phase \in {"succeeded", "failed"}
  BY <1>5 DEF Lives
<1>9. Life!Purge(S)
  BY <1>2, <1>7, <1>8 DEF Life!Purge
<1> QED
  BY <1>9 DEF Life!Next

\* Every action is a step of JobLife or leaves all jobs as they are.
LEMMA LifeStep ==
    ASSUME TypeOK, TypeOK', Locals, Ownership, Account, Account', Honest', [Next]_vars
    PROVE  [Life!Next]_<<Lives, runs>>
<1>1. ASSUME UNCHANGED <<rows, issued, runs>> PROVE UNCHANGED <<Lives, runs>>
  <2>1. Lives' = Lives
    BY <1>1, LivesKept DEF Entry, Terminal
  <2> QED
    BY <1>1, <2>1
<1>2. ASSUME NEW n \in Names, NEW d \in Delays, NEW m \in AttemptLimits, Enqueue(n, d, m)
      PROVE  Life!Next
  <2>1. d \in Nat /\ m \in Nat /\ m \in AttemptLimits \cup {DefaultAttempts}
    BY OptionsAssumption
  <2> QED
    BY <2>1, <1>2, LifeInsert, ReadType DEF Enqueue
<1>3. ASSUME NEW w \in Workers, NEW c \in Crons, CronCheck(w, c)
      PROVE  Life!Next \/ UNCHANGED <<Lives, runs>>
  <2>1. CASE \E read \in now[w]..clock : Insert(CronName[c], read, DefaultAttempts)
    <3>1. CronName[c] \in Names /\ DefaultAttempts \in Nat
      BY OptionsAssumption
    <3> QED
      BY <2>1, <3>1, <1>3, LifeInsert, ReadType DEF CronCheck
  <2>2. CASE UNCHANGED tableVars
    BY <2>2, <1>3, <1>1 DEF CronCheck, tableVars
  <2> QED
    BY <2>1, <2>2, <1>3 DEF CronCheck
<1>4. ASSUME NEW w \in Workers, Claim(w) PROVE UNCHANGED <<Lives, runs>>
  <2>1. PICK S \in Selections(now[w]) :
          rows' = [i \in Ids |-> IF i \in S
                    THEN [rows[i] EXCEPT !.status = "running", !.updated = clock]
                    ELSE rows[i]]
    BY <1>4 DEF Claim
  <2>2. issued' = issued /\ runs' = runs
    BY <1>4 DEF Claim
  <2>3. ASSUME NEW i \in Ids
        PROVE  /\ rows'[i] # NoRow <=> rows[i] # NoRow
               /\ rows[i] # NoRow => /\ rows'[i].serial = rows[i].serial
                                     /\ Entry(rows'[i]) = Entry(rows[i])
    <3>1. CASE i \in S
      <4>1. rows[i].status \in {"pending", "running"}
        BY <3>1 DEF Selections, Claimable
      <4>2. rows[i] \in Row
        BY <4>1, Shapes DEF Statuses
      <4>3. rows'[i] = [rows[i] EXCEPT !.status = "running", !.updated = clock]
        BY <2>1, <3>1
      <4>4. /\ rows'[i].status = "running" /\ rows'[i].serial = rows[i].serial
            /\ rows'[i].limit = rows[i].limit
        BY <4>2, <4>3 DEF Row
      <4>5. rows[i] # NoRow /\ rows'[i] # NoRow
        BY <4>1, <4>4 DEF NoRow
      <4> QED
        BY <4>1, <4>4, <4>5 DEF Entry, Terminal
    <3>2. CASE i \notin S
      BY <2>1, <3>2
    <3> QED
      BY <3>1, <3>2
  <2> QED
    BY <2>2, <2>3, LivesKept
<1>5. CASE \/ \E q \in Queues, n \in Names : RegisterHandler(q, n)
           \/ \E q \in Queues, c \in Crons : RegisterCron(q, c)
           \/ \E q \in Queues : Stop(q) \/ Crash(q)
           \/ \E w \in Workers :
                CronMark(w) \/ Spawn(w) \/ Poll(w) \/ DrainBatch(w) \/ RunFails(w)
           \/ Tick
           \/ UNCHANGED vars
  BY <1>5, <1>1 DEF RegisterHandler, RegisterCron, Stop, Crash, CronMark, Spawn, Poll,
                    DrainBatch, RunFails, Tick, tableVars, vars
<1> QED
  BY <1>2, <1>3, <1>4, <1>5, LifeCleanup, LifeDispatch, LifeRecord DEF Next, WorkerStep

\* With punctual batches every behaviour of the queue, over all its workers,
\* crashes, purges and reused rowids, is one of JobLife: no job is lost before
\* its verdict, and no handler runs after it.
THEOREM Lifetime ==
    ASSUME Punctual
    PROVE  Spec => ImplementsLife
<1> DEFINE Inv == Truths /\ Account
<1>1. Init => Inv
  BY InitType, InitOwnership, InitHonest, InitAccount DEF Truths
<1>2. Init => Life!Init
  <2> SUFFICES ASSUME Init PROVE Life!Init
    OBVIOUS
  <2>1. \A s \in Serials : LifeOf(s) = [phase |-> "none", limit |-> 0]
    BY DEF Init, LifeOf, Serials
  <2> QED
    BY <2>1 DEF Init, Life!Init, Life!Untold, Lives
<1>3. Inv /\ [Next]_vars => Inv' /\ [Life!Next]_<<Lives, runs>>
  <2> SUFFICES ASSUME Inv, [Next]_vars PROVE Inv' /\ [Life!Next]_<<Lives, runs>>
    OBVIOUS
  <2>t. TypeOK /\ Locals /\ Ownership /\ Honest /\ Account
    BY DEF Truths
  <2>1. TypeOK' /\ Locals' /\ Ownership'
    BY <2>t, TypeStep, LocalsStep, OwnershipStep
  <2>2. Honest'
    BY <2>t, <2>1, HonestStep DEF Kept
  <2>3. Account'
    BY <2>t, <2>1, AccountStep
  <2>4. [Life!Next]_<<Lives, runs>>
    BY <2>t, <2>1, <2>2, <2>3, LifeStep
  <2> QED
    BY <2>1, <2>2, <2>3, <2>4 DEF Truths
<1> QED
  BY <1>1, <1>2, <1>3, PTL DEF Spec, ImplementsLife, Life!Spec
=============================================================================
