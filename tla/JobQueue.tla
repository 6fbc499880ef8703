------------------------------ MODULE JobQueue ------------------------------
(***************************************************************************)
(* The persistent job queue of src/src/jobs.zig: the table akamata_jobs,   *)
(* the Queue objects of the processes that share it, and the polling loop  *)
(* Worker.run, one statement of the database per step.                     *)
(*                                                                         *)
(* A process owns one Queue; its workers are threads that share that       *)
(* Queue (handlers, crons, shutdown flag).  Table rows outlive processes.  *)
(* Every prepared statement of the code is atomic, as SQLite makes it;     *)
(* between two statements any other thread, process, crash or tick of the  *)
(* clock may come.                                                         *)
(***************************************************************************)
EXTENDS Integers, FiniteSets

CONSTANTS
    Workers,          \* worker threads
    Queues,           \* processes, each with one Queue object
    QueueOf,          \* the Queue a worker was initialised with
    Names,            \* job names
    Crons,            \* calls of Queue.cron the application may make
    CronName,         \* the job name of each such call
    CronPeriod,       \* its period_seconds
    Delays,           \* EnqueueOptions.delay_seconds in use
    AttemptLimits,    \* EnqueueOptions.max_attempts in use
    DefaultAttempts,  \* max_attempts of a job a cron enqueues
    BatchSize,        \* Options.batch_size
    Lease,            \* Options.lease_timeout_seconds
    InitialBackoff,   \* Options.initial_backoff_seconds
    MaxBackoff,       \* Options.max_backoff_seconds
    Retention,        \* the values of older_than_seconds passed to cleanup
    Punctual,         \* assume a live worker finishes a batch within a lease
    StartTime,        \* unix time at the start: past every period and lease
    MaxIds,           \* bound: rows the table can hold
    MaxJobs,          \* bound: calls of enqueue
    MaxTime,          \* bound: the clock
    MaxFaults         \* bound: crashes and failing statements

NoCron == "no cron"
ASSUME OptionsAssumption ==
    /\ QueueOf \in [Workers -> Queues]
    /\ CronName \in [Crons -> Names] /\ CronPeriod \in [Crons -> Nat \ {0}]
    /\ Delays \subseteq Nat /\ AttemptLimits \subseteq Nat \ {0}
    /\ DefaultAttempts \in Nat \ {0}
    /\ BatchSize \in Nat \ {0} /\ Lease \in Nat \ {0}
    /\ InitialBackoff \in Nat /\ MaxBackoff \in Nat
    /\ InitialBackoff <= MaxBackoff
    /\ Retention \subseteq Nat /\ Punctual \in BOOLEAN
    /\ StartTime \in Nat /\ Lease <= StartTime
    /\ \A c \in Crons : CronPeriod[c] <= StartTime
    /\ MaxIds \in Nat /\ MaxJobs \in Nat /\ MaxTime \in Nat /\ MaxFaults \in Nat
    /\ NoCron \notin Crons

VARIABLES
    rows,       \* the table: a row, or NoRow, for every rowid
    clock,      \* unix time
    handlers,   \* names registered with each Queue
    crons,      \* crons registered with each Queue
    lastFired,  \* CronEntry.last_fired_unix
    shutdown,   \* Queue.shutdown
    pc,         \* where a worker is in Worker.run
    now,        \* the time it read last
    todo,       \* crons still to look at in this tick
    firing,     \* the cron whose job is inserted and whose entry is not yet marked
    batch,      \* claimed rows it has not dispatched yet
    cur,        \* the row it is dispatching, with what became of it
    claimedAt,  \* when it claimed the batch
    issued,     \* serial number of the last enqueue
    runs,       \* what really happened to each enqueued job (history)
    faults      \* crashes and failing statements so far

tableVars  == <<rows, issued>>
queueVars  == <<handlers, crons, lastFired, shutdown>>
workerVars == <<pc, now, todo, firing, batch, cur, claimedAt>>
vars == <<tableVars, queueVars, workerVars, clock, runs, faults>>

-----------------------------------------------------------------------------
Ids      == 1..MaxIds
Serials  == 1..MaxJobs
Statuses == {"pending", "running", "succeeded", "failed"}
Outcomes == {"ok", "error", "missing"}
Steps    == {"down", "poll", "cron", "claim", "dispatch", "record"}

\* A row of akamata_jobs. The payload identifies the call of enqueue that made
\* it: its serial number. last_error and created_at are never read back.
Row == [status : Statuses, serial : Serials, name : Names, scheduled : Int,
        attempts : Nat, limit : Nat, updated : Nat]
NoRow == [status |-> "absent", serial |-> 0]
Live == {i \in Ids : rows[i] # NoRow}

\* JobRow: the copy of a claimed row a worker works from.
JobRow == [id : Ids, serial : Serials, name : Names, attempts : Nat, limit : Nat]
NoEntry == [id |-> 0, serial |-> 0]
Idle == [entry |-> NoEntry, outcome |-> "none"]

Run == [ok : BOOLEAN, errors : Nat, missing : BOOLEAN]

TypeOK ==
    /\ rows \in [Ids -> Row \cup {NoRow}]
    /\ clock \in Nat /\ issued \in 0..MaxJobs /\ faults \in 0..MaxFaults
    /\ handlers \in [Queues -> SUBSET Names] /\ crons \in [Queues -> SUBSET Crons]
    /\ lastFired \in [Queues -> [Crons -> Nat]] /\ shutdown \in [Queues -> BOOLEAN]
    /\ pc \in [Workers -> Steps]
    /\ now \in [Workers -> Nat] /\ claimedAt \in [Workers -> Nat]
    /\ todo \in [Workers -> SUBSET Crons]
    /\ firing \in [Workers -> Crons \cup {NoCron}]
    /\ batch \in [Workers -> SUBSET JobRow]
    /\ cur \in [Workers -> [entry : JobRow, outcome : Outcomes] \cup {Idle}]
    /\ runs \in [Serials -> Run]

Init ==
    /\ rows = [i \in Ids |-> NoRow] /\ clock = StartTime /\ issued = 0 /\ faults = 0
    /\ handlers = [q \in Queues |-> {}] /\ crons = [q \in Queues |-> {}]
    /\ lastFired = [q \in Queues |-> [c \in Crons |-> 0]]
    /\ shutdown = [q \in Queues |-> FALSE]
    /\ pc = [w \in Workers |-> "down"]
    /\ now = [w \in Workers |-> 0] /\ claimedAt = [w \in Workers |-> 0]
    /\ todo = [w \in Workers |-> {}] /\ firing = [w \in Workers |-> NoCron]
    /\ batch = [w \in Workers |-> {}] /\ cur = [w \in Workers |-> Idle]
    /\ runs = [s \in Serials |-> [ok |-> FALSE, errors |-> 0, missing |-> FALSE]]

-----------------------------------------------------------------------------
Alive(w) == pc[w] # "down"
Held(w)  == batch[w] \cup (IF cur[w] = Idle THEN {} ELSE {cur[w].entry})
Terminal(r) == r.status \in {"succeeded", "failed"}

\* The worker's locals when no batch is in hand.
Fresh(w) ==
    /\ now' = [now EXCEPT ![w] = 0] /\ claimedAt' = [claimedAt EXCEPT ![w] = 0]
    /\ todo' = [todo EXCEPT ![w] = {}] /\ firing' = [firing EXCEPT ![w] = NoCron]
    /\ batch' = [batch EXCEPT ![w] = {}] /\ cur' = [cur EXCEPT ![w] = Idle]

(***************************************************************************)
(* Queue.enqueue.  id INTEGER PRIMARY KEY without AUTOINCREMENT: SQLite    *)
(* gives a new row the largest id in the table plus one.                   *)
(***************************************************************************)
IsNewId(i) == (\A j \in Live : j < i) /\ (i = 1 \/ i - 1 \in Live)

NewRow(n, due, limit) ==
    [status |-> "pending", serial |-> issued + 1, name |-> n,
     scheduled |-> due, attempts |-> 0, limit |-> limit, updated |-> clock]

Insert(n, due, limit) ==
    /\ issued < MaxJobs
    /\ issued' = issued + 1
    /\ \E i \in Ids : /\ IsNewId(i)
                      /\ rows' = [rows EXCEPT ![i] = NewRow(n, due, limit)]

\* The call reads the clock first and inserts the row later, by SQLite's own clock.
Enqueue(n, delay, limit) ==
    /\ \E read \in StartTime..clock : Insert(n, read + delay, limit)
    /\ UNCHANGED <<queueVars, workerVars, clock, runs, faults>>

\* Queue.cleanup(older_than): rows in a terminal state, long untouched.
\* (Faulty variant: in any state.)
ExpiredAnyhow(i, older) == rows[i].updated < clock - older
Expired(i, older) == Terminal(rows[i]) /\ rows[i].updated < clock - older

Cleanup(older) ==
    LET old == {i \in Live : Expired(i, older)}
    IN  /\ old # {}
        /\ rows' = [i \in Ids |-> IF i \in old THEN NoRow ELSE rows[i]]
        /\ UNCHANGED <<issued, queueVars, workerVars, clock, runs, faults>>

\* Queue.handler and Queue.cron, called before the workers of q are spawned:
\* the two lists have no lock.
Quiet(q) == \A w \in Workers : QueueOf[w] = q => ~Alive(w)

RegisterHandler(q, n) ==
    /\ Quiet(q) /\ n \notin handlers[q]
    /\ handlers' = [handlers EXCEPT ![q] = @ \cup {n}]
    /\ UNCHANGED <<tableVars, crons, lastFired, shutdown, workerVars, clock, runs, faults>>

RegisterCron(q, c) ==
    /\ Quiet(q) /\ c \notin crons[q]
    /\ crons' = [crons EXCEPT ![q] = @ \cup {c}]
    /\ lastFired' = [lastFired EXCEPT ![q][c] = 0]
    /\ UNCHANGED <<tableVars, handlers, shutdown, workerVars, clock, runs, faults>>

\* Worker.stop.
Stop(q) ==
    /\ ~shutdown[q]
    /\ shutdown' = [shutdown EXCEPT ![q] = TRUE]
    /\ UNCHANGED <<tableVars, handlers, crons, lastFired, workerVars, clock, runs, faults>>

-----------------------------------------------------------------------------
(***************************************************************************)
(* Worker.run.                                                             *)
(***************************************************************************)
Spawn(w) ==
    /\ pc[w] = "down"
    /\ pc' = [pc EXCEPT ![w] = "poll"]
    /\ UNCHANGED <<tableVars, queueVars, now, todo, firing, batch, cur, claimedAt,
                   clock, runs, faults>>

\* The loop test: return, or tickCrons reads the clock.
\* (Faulty variant: return only once no job is pending.)
LoopEndsWhenDrained(w) == shutdown[QueueOf[w]] /\ \A i \in Live : Terminal(rows[i])
LoopEnds(w) == shutdown[QueueOf[w]]

Poll(w) ==
    /\ pc[w] = "poll"
    /\ \/ /\ LoopEnds(w)
          /\ pc' = [pc EXCEPT ![w] = "down"]
          /\ UNCHANGED <<now, todo>>
       \/ /\ ~LoopEnds(w)
          /\ pc' = [pc EXCEPT ![w] = "cron"]
          /\ now' = [now EXCEPT ![w] = clock]
          /\ todo' = [todo EXCEPT ![w] = crons[QueueOf[w]]]
    /\ UNCHANGED <<tableVars, queueVars, firing, batch, cur, claimedAt, clock, runs, faults>>

\* tickCrons, one entry: skip it, or insert its job ...
\* (Faulty variant: a second early.)
CronDueEarly(q, c, t) == t + 1 >= lastFired[q][c] + CronPeriod[c]
CronDue(q, c, t) == t >= lastFired[q][c] + CronPeriod[c]

CronCheck(w, c) ==
    /\ pc[w] = "cron" /\ firing[w] = NoCron /\ c \in todo[w]
    /\ \/ /\ ~CronDue(QueueOf[w], c, now[w])
          /\ todo' = [todo EXCEPT ![w] = @ \ {c}]
          /\ UNCHANGED <<tableVars, firing>>
       \/ /\ CronDue(QueueOf[w], c, now[w])
          /\ \E read \in now[w]..clock : Insert(CronName[c], read, DefaultAttempts)
          /\ firing' = [firing EXCEPT ![w] = c]
          /\ UNCHANGED todo
    /\ UNCHANGED <<queueVars, pc, now, batch, cur, claimedAt, clock, runs, faults>>

\* ... and then remember that it fired.
CronMark(w) ==
    /\ pc[w] = "cron" /\ firing[w] # NoCron
    /\ lastFired' = [lastFired EXCEPT ![QueueOf[w]][firing[w]] = now[w]]
    /\ todo' = [todo EXCEPT ![w] = @ \ {firing[w]}]
    /\ firing' = [firing EXCEPT ![w] = NoCron]
    /\ UNCHANGED <<tableVars, handlers, crons, shutdown, pc, now, batch, cur,
                   claimedAt, clock, runs, faults>>

\* drainBatch reads the clock again, for the claim that follows.
DrainBatch(w) ==
    /\ pc[w] = "cron" /\ firing[w] = NoCron /\ todo[w] = {}
    /\ pc' = [pc EXCEPT ![w] = "claim"]
    /\ now' = [now EXCEPT ![w] = clock]
    /\ UNCHANGED <<tableVars, queueVars, todo, firing, batch, cur, claimedAt,
                   clock, runs, faults>>

\* The WHERE of the claiming UPDATE at time t.
\* (Faulty variants: no lease; failed rows too; running rows never.)
ClaimableAnyRunning(i, t) ==
    \/ rows[i].status = "pending" /\ rows[i].scheduled <= t
    \/ rows[i].status = "running" /\ rows[i].updated <= t
ClaimableFailedToo(i, t) ==
    \/ rows[i].status \in {"pending", "failed"} /\ rows[i].scheduled <= t
    \/ rows[i].status = "running" /\ rows[i].updated <= t - Lease
ClaimablePendingOnly(i, t) ==
    rows[i].status = "pending" /\ rows[i].scheduled <= t
Claimable(i, t) ==
    \/ rows[i].status = "pending" /\ rows[i].scheduled <= t
    \/ rows[i].status = "running" /\ rows[i].updated <= t - Lease

\* ORDER BY scheduled_for LIMIT batch_size.
Selections(t) ==
    LET due == {i \in Ids : Claimable(i, t)}
        count == IF Cardinality(due) < BatchSize THEN Cardinality(due) ELSE BatchSize
    IN  {S \in SUBSET due :
            /\ Cardinality(S) = count
            /\ \A i \in S, j \in due \ S : rows[i].scheduled <= rows[j].scheduled}

CopyOf(i) == [id |-> i, serial |-> rows[i].serial, name |-> rows[i].name,
              attempts |-> rows[i].attempts, limit |-> rows[i].limit]

\* UPDATE ... RETURNING: the rows are claimed in one statement and copied out,
\* in no particular order. Nothing due: back to sleep. The statement takes
\* effect even if copying a row then fails and run returns the error.
Claim(w) ==
    /\ pc[w] = "claim"
    /\ \E S \in Selections(now[w]) :
        /\ rows' = [i \in Ids |-> IF i \in S
                                  THEN [rows[i] EXCEPT !.status = "running", !.updated = clock]
                                  ELSE rows[i]]
        /\ \/ /\ S = {}
              /\ pc' = [pc EXCEPT ![w] = "poll"]
              /\ Fresh(w)
              /\ UNCHANGED faults
           \/ /\ S # {}
              /\ pc' = [pc EXCEPT ![w] = "dispatch"]
              /\ batch' = [batch EXCEPT ![w] = {CopyOf(i) : i \in S}]
              /\ claimedAt' = [claimedAt EXCEPT ![w] = clock]
              /\ now' = [now EXCEPT ![w] = 0]
              /\ UNCHANGED <<todo, firing, cur, faults>>
           \/ /\ S # {} /\ faults < MaxFaults
              /\ faults' = faults + 1
              /\ pc' = [pc EXCEPT ![w] = "down"]
              /\ Fresh(w)
    /\ UNCHANGED <<issued, queueVars, clock, runs>>

\* dispatchOne: look the handler up and run it to its end. Handlers touch
\* neither the table nor the Queue here; ok or error is theirs to decide.
OutcomesOf(w, e) == IF e.name \in handlers[QueueOf[w]] THEN {"ok", "error"} ELSE {"missing"}

Ran(run, outcome) ==
    CASE outcome = "ok"      -> [run EXCEPT !.ok = TRUE]
      [] outcome = "error"   -> [run EXCEPT !.errors = @ + 1]
      [] outcome = "missing" -> [run EXCEPT !.missing = TRUE]

Dispatch(w) ==
    /\ pc[w] = "dispatch"
    /\ \E e \in batch[w] : \E outcome \in OutcomesOf(w, e) :
        /\ cur' = [cur EXCEPT ![w] = [entry |-> e, outcome |-> outcome]]
        /\ batch' = [batch EXCEPT ![w] = @ \ {e}]
        /\ runs' = [runs EXCEPT ![e.serial] = Ran(@, outcome)]
    /\ pc' = [pc EXCEPT ![w] = "record"]
    /\ UNCHANGED <<tableVars, queueVars, now, todo, firing, claimedAt, clock, faults>>

\* computeBackoff: initial * 2^(attempts - 1), saturating and capped.
Doubled(attempts) == InitialBackoff * 2^(attempts - 1)
Backoff(attempts) ==
    IF attempts <= 1 THEN InitialBackoff
    ELSE IF Doubled(attempts) < MaxBackoff THEN Doubled(attempts) ELSE MaxBackoff

\* The three UPDATE ... WHERE id = ? that end a dispatch. next_attempts comes
\* from the copy made at the claim, not from the row.
\* (Faulty variants: one attempt too few, one too many.)
ExhaustedEarly(e) == e.attempts + 2 >= e.limit
ExhaustedLate(e)  == e.attempts >= e.limit
Exhausted(e) == e.attempts + 1 >= e.limit

\* (Faulty variants: a job without handler counts as done; a status nobody knows.)
VerdictIgnoringMissing(e, outcome) ==
    IF outcome # "error" THEN "succeeded" ELSE IF Exhausted(e) THEN "failed" ELSE "pending"
VerdictUnknown(e, outcome) ==
    IF outcome = "ok" THEN "done" ELSE IF outcome = "missing" THEN "failed" ELSE "pending"
Verdict(e, outcome) ==
    CASE outcome = "ok" -> "succeeded"
      [] outcome = "missing" \/ (outcome = "error" /\ Exhausted(e)) -> "failed"
      [] outcome = "error" /\ ~Exhausted(e) -> "pending"

Recorded(r, e, outcome) ==
    LET verdict == Verdict(e, outcome)
        closed  == [r EXCEPT !.status = verdict, !.updated = clock]
    IN  IF verdict # "pending" THEN closed
        ELSE [closed EXCEPT !.attempts = e.attempts + 1,
                            !.scheduled = clock + Backoff(e.attempts + 1)]

Record(w) ==
    LET e == cur[w].entry IN
    /\ pc[w] = "record"
    /\ rows' = [rows EXCEPT ![e.id] = IF @ = NoRow THEN @ ELSE Recorded(@, e, cur[w].outcome)]
    /\ IF batch[w] = {}
       THEN /\ pc' = [pc EXCEPT ![w] = "poll"]
            /\ Fresh(w)
       ELSE /\ pc' = [pc EXCEPT ![w] = "dispatch"]
            /\ cur' = [cur EXCEPT ![w] = Idle]
            /\ UNCHANGED <<now, todo, firing, batch, claimedAt>>
    /\ UNCHANGED <<issued, queueVars, clock, runs, faults>>

\* A statement fails: the error leaves run, and the batch with it.
RunFails(w) ==
    /\ pc[w] \in {"cron", "claim", "record"} /\ firing[w] = NoCron
    /\ faults < MaxFaults
    /\ faults' = faults + 1
    /\ pc' = [pc EXCEPT ![w] = "down"]
    /\ Fresh(w)
    /\ UNCHANGED <<tableVars, queueVars, clock, runs>>

\* The process dies: its workers, and everything its Queue kept in memory.
Crash(q) ==
    LET dead == {w \in Workers : QueueOf[w] = q} IN
    /\ faults < MaxFaults
    /\ \E w \in dead : Alive(w)
    /\ faults' = faults + 1
    /\ pc' = [w \in Workers |-> IF w \in dead THEN "down" ELSE pc[w]]
    /\ now' = [w \in Workers |-> IF w \in dead THEN 0 ELSE now[w]]
    /\ claimedAt' = [w \in Workers |-> IF w \in dead THEN 0 ELSE claimedAt[w]]
    /\ todo' = [w \in Workers |-> IF w \in dead THEN {} ELSE todo[w]]
    /\ firing' = [w \in Workers |-> IF w \in dead THEN NoCron ELSE firing[w]]
    /\ batch' = [w \in Workers |-> IF w \in dead THEN {} ELSE batch[w]]
    /\ cur' = [w \in Workers |-> IF w \in dead THEN Idle ELSE cur[w]]
    /\ handlers' = [handlers EXCEPT ![q] = {}]
    /\ crons' = [crons EXCEPT ![q] = {}]
    /\ lastFired' = [lastFired EXCEPT ![q] = [c \in Crons |-> 0]]
    /\ shutdown' = [shutdown EXCEPT ![q] = FALSE]
    /\ UNCHANGED <<tableVars, clock, runs>>

\* Time passes. Punctual: not so much of it that a batch in the hands of a
\* live worker outlives its lease. Nothing in the code enforces that.
Tick ==
    /\ clock < MaxTime
    /\ Punctual => \A w \in Workers : Held(w) # {} => clock + 1 < claimedAt[w] + Lease
    /\ clock' = clock + 1
    /\ UNCHANGED <<tableVars, queueVars, workerVars, runs, faults>>

-----------------------------------------------------------------------------
WorkerStep(w) ==
    \/ Poll(w) \/ DrainBatch(w) \/ Claim(w) \/ Dispatch(w) \/ Record(w)
    \/ CronMark(w) \/ \E c \in Crons : CronCheck(w, c)

Next ==
    \/ \E n \in Names, d \in Delays, m \in AttemptLimits : Enqueue(n, d, m)
    \/ \E older \in Retention : Cleanup(older)
    \/ \E q \in Queues, n \in Names : RegisterHandler(q, n)
    \/ \E q \in Queues, c \in Crons : RegisterCron(q, c)
    \/ \E q \in Queues : Stop(q) \/ Crash(q)
    \/ \E w \in Workers : Spawn(w) \/ WorkerStep(w) \/ RunFails(w)
    \/ Tick

Spec == Init /\ [][Next]_vars

\* A live worker thread keeps running, and handlers return.
Fairness == \A w \in Workers : WF_vars(WorkerStep(w))
FairSpec == Spec /\ Fairness

-----------------------------------------------------------------------------
(***************************************************************************)
(* Properties.                                                             *)
(***************************************************************************)

\* No two workers hold the same row, and none holds a row that is not marked
\* running on its behalf (the "ownership boundary" of drainBatch).
ExclusiveClaim ==
    /\ \A v, w \in Workers : v # w =>
        \A e \in Held(v), f \in Held(w) : e.id # f.id
    /\ \A w \in Workers : \A e \in Held(w) :
        rows[e.id].status = "running" /\ rows[e.id].serial = e.serial

\* At least once: a job is marked succeeded only after a run of its handler
\* that returned without error, whatever crashed, was reclaimed or purged.
SucceededRan ==
    \A i \in Ids : rows[i].status = "succeeded" => runs[rows[i].serial].ok

\* A job is given up only after max_attempts runs that really failed, or for
\* want of a handler in the process that claimed it.
FailedHonest ==
    \A i \in Ids : rows[i].status = "failed" =>
        LET run == runs[rows[i].serial]
        IN  run.missing \/ run.errors >= rows[i].limit

\* Retries are bounded: a handler that keeps failing runs at most max_attempts
\* times, plus once for every failure whose outcome was lost with its worker.
RetriesBounded ==
    \A i \in Ids : rows[i] # NoRow =>
        runs[rows[i].serial].errors <= rows[i].limit + faults

\* succeeded and failed are final: such a row only ever leaves the table.
TerminalFinal ==
    [][\A i \in Ids : rows[i] # NoRow /\ Terminal(rows[i]) /\ rows'[i] # NoRow =>
            rows'[i] = rows[i] \/ rows'[i].serial # rows[i].serial]_vars

\* The whole life of a job, with punctual batches: it stays in the table until
\* a verdict its runs account for, the verdict is final, no handler runs after
\* it, and only a job with a verdict is purged. A job is its call of enqueue;
\* its phase is read off the row that carries its serial number.
LifeOf(s) ==
    IF s > issued THEN [phase |-> "none", limit |-> 0]
    ELSE IF \A i \in Ids : rows[i].serial # s THEN [phase |-> "purged", limit |-> 0]
    ELSE LET r == rows[CHOOSE i \in Ids : rows[i].serial = s]
         IN  [phase |-> IF Terminal(r) THEN r.status ELSE "open", limit |-> r.limit]
Lives == [s \in Serials |-> LifeOf(s)]

Life == INSTANCE JobLife WITH Jobs <- Serials, life <- Lives,
                              Limits <- AttemptLimits \cup {DefaultAttempts}
ImplementsLife == Life!Spec

\* Where each Queue has one worker and only crons enqueue: no more jobs than
\* one per period elapsed, per cron and process, and one for every restart,
\* which forgets last_fired_unix.
CronJobsBounded ==
    issued <= faults * Cardinality(Crons)
              + Cardinality(Queues)
                * Cardinality({d \in Crons \X (StartTime..clock) :
                                   (d[2] - StartTime) % CronPeriod[d[1]] = 0})

\* A job that is due does not stay due for ever while a worker lives: it is run
\* to an outcome, or rescheduled, or waits for the lease of a lost worker.
Due(i) == Claimable(i, clock)
WaitsForTime(i) ==
    \/ rows[i] = NoRow \/ Terminal(rows[i])
    \/ rows[i].status = "pending" /\ rows[i].scheduled > clock
    \/ /\ rows[i].status = "running" /\ rows[i].updated > clock - Lease
       /\ \A w \in Workers : \A e \in Held(w) : e.id # i
Serving(w) == Alive(w) /\ ~shutdown[QueueOf[w]]
DueJobsServed ==
    \A i \in Ids : Due(i) ~> (WaitsForTime(i) \/ \A w \in Workers : ~Serving(w))

\* stop() is obeyed: every worker of a stopped Queue returns, and one spawned
\* afterwards returns too.
StopObeyed ==
    \A w \in Workers : shutdown[QueueOf[w]] ~> (~Alive(w) \/ ~shutdown[QueueOf[w]])
=============================================================================
