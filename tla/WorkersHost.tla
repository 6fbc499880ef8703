---------------------------- MODULE WorkersHost ----------------------------
(***************************************************************************)
(* One isolate of src/deploy/worker/index.mjs: its wasm instance, the tasks *)
(* that want it (calls of dispatchWasm and batches of queue()), and the    *)
(* imports through which a suspended guest waits for D1, R2 and the rest.  *)
(* The guest side is src/src/runtime/workers.zig.                          *)
(*                                                                         *)
(* The isolate has one thread: while a guest runs nothing else does, and a *)
(* guest runs until it suspends, returns or traps.  Every other action is  *)
(* one turn of the event loop.                                             *)
(***************************************************************************)
EXTENDS WasmDispatch, D1Bridge, R2Bridge

CONSTANTS
    Plans,              \* task -> the imports its handler uses, how many calls of them at
                        \* most, and how many dispatches: the messages of a batch
    MaxFaults           \* bound: failures in a behaviour

Imports == {"stmt", "exec", "upload", "download", "delete", "other"}

ASSUME HostAssumption ==
    /\ Plans \subseteq [Tasks -> [uses : SUBSET Imports, calls : Nat,
                           dispatches : Nat \ {0}]]
    /\ MaxFaults \in Nat

VARIABLES
    plan,             \* the one of Plans the application follows
    jspi, hasQueue,   \* what the platform and the wasm module offer
    instance,         \* the module-level instance is set
    starting,         \* calls of instantiateOnce that have not settled
    registered,       \* akamata_init registered the application's dispatch
    job,              \* per task: where it is
    heap,             \* buffers got from alloc and not freed
    lastResponse,     \* whose response last_response_length() measures
    result,           \* per fetch: what its client gets
    settled,          \* per batch: what was called on each message
    consumed,         \* messages handle_queue returned 0 for
    faults

moduleVars == <<plan, jspi, hasQueue, instance, starting, registered>>
outVars    == <<lastResponse, result, settled, consumed>>
hostVars   == <<moduleVars, job, heap, outVars, faults>>
vars       == <<dispatchVars, d1Vars, r2Vars, hostVars>>

NoResult == [status |-> 0, text |-> "", length |-> ""]

Init ==
    /\ DispatchInit /\ D1Init /\ R2Init
    /\ plan \in Plans /\ jspi \in BOOLEAN /\ hasQueue \in BOOLEAN
    /\ instance = FALSE /\ starting = 0 /\ registered = FALSE
    /\ job = [t \in Tasks |-> [pc |-> "idle", call |-> "", then |-> "", link |-> 0,
                               at |-> 1, ops |-> 0, answer |-> ""]]
    /\ heap = {} /\ lastResponse = ""
    /\ result = [t \in Fetches |-> NoResult]
    /\ settled = [t \in Batches |-> <<>>] /\ consumed = {}
    /\ faults = 0

Fault == faults < MaxFaults /\ faults' = faults + 1
NoFault == UNCHANGED faults

Pc(t) == job[t].pc
Go(t, pc) == job' = [job EXCEPT ![t].pc = pc]
Quiet == \A t \in Tasks : Pc(t) # "guest"
Turn(t, pc) == Quiet /\ Pc(t) = pc

-----------------------------------------------------------------------------
(* Start of the isolate *)

\* A task calls instantiate(): it starts the module, or waits for whoever does.
\* (Faulty variant: the promise in progress is not looked at.)
ArriveAgain(t) ==
    /\ Turn(t, "idle")
    /\ Go(t, IF instance THEN "ready" ELSE "instance")
    /\ starting' = IF instance THEN starting ELSE starting + 1
    /\ UNCHANGED <<dispatchVars, d1Vars, r2Vars, plan, jspi, hasQueue, instance, registered,
                   heap, outVars, faults>>
Arrive(t) ==
    /\ Turn(t, "idle")
    /\ Go(t, IF instance THEN "ready" ELSE "instance")
    /\ starting' = IF instance \/ starting > 0 THEN starting ELSE 1
    /\ UNCHANGED <<dispatchVars, d1Vars, r2Vars, plan, jspi, hasQueue, instance, registered,
                   heap, outVars, faults>>

\* instantiateOnce() settles.  It fails before the instance is set, or after it, when
\* akamata_init throws; akamata_init may also return without an application.  The
\* waiters go on, or throw; a later task starts it again unless the instance is set.
Instantiated(outcome) ==
    /\ Quiet /\ starting > 0
    /\ IF outcome = "ok" THEN NoFault ELSE Fault
    /\ starting' = starting - 1
    /\ instance' = (outcome # "fails")
    /\ registered' = (outcome = "ok")
    /\ job' = [t \in Tasks |->
                  IF Pc(t) # "instance" THEN job[t]
                  ELSE [job[t] EXCEPT !.pc = IF outcome \in {"ok", "unregistered"}
                                             THEN "ready" ELSE "done"]]
    /\ UNCHANGED <<dispatchVars, d1Vars, r2Vars, plan, jspi, hasQueue, heap, outVars>>

-----------------------------------------------------------------------------
(* The lock *)

\* queue() of a module without handle_queue retries the whole batch.
RetryAll(t) ==
    /\ t \in Batches /\ ~hasQueue
    /\ Turn(t, "ready")
    /\ settled' = [settled EXCEPT ![t] = [i \in 1..plan[t].dispatches |-> "retry"]]
    /\ Go(t, "done")
    /\ UNCHANGED <<dispatchVars, d1Vars, r2Vars, moduleVars, heap, lastResponse, result,
                   consumed, faults>>

\* dispatchWasm(), or the next message of a batch: in line for the lock.
Enqueue(t) ==
    /\ t \in Fetches \/ hasQueue
    /\ Turn(t, "ready")
    /\ Link
    /\ job' = [job EXCEPT ![t] = [@ EXCEPT !.pc = "line", !.link = Len(links) + 1]]
    /\ UNCHANGED <<d1Vars, r2Vars, moduleVars, heap, outVars, faults>>

\* The lock is theirs.  A fetch reads its body first; a message is at hand, so the
\* guest is called at once.
Begin(t) ==
    /\ Turn(t, "line")
    /\ Admit(job[t].link)
    /\ job' = [job EXCEPT ![t] = [@ EXCEPT !.pc = IF t \in Fetches THEN "body" ELSE "guest",
                                           !.answer = ""]]
    /\ heap' = IF t \in Fetches THEN heap ELSE heap \cup {<<t, "request">>}
    /\ UNCHANGED <<d1Vars, r2Vars, moduleVars, outVars, faults>>

\* request.arrayBuffer() settles, the lock held since before.
ReadBody(t) ==
    /\ Turn(t, "body")
    /\ Go(t, "guest")
    /\ heap' = heap \cup {<<t, "request">>}
    /\ UNCHANGED <<dispatchVars, d1Vars, r2Vars, moduleVars, outVars, faults>>

\* ... or rejects: the client went away.
\* (Faulty variant: the lock is not released in a finally.)
BodyAbortsHolding(t) ==
    /\ Turn(t, "body") /\ Fault
    /\ Go(t, "done")
    /\ UNCHANGED <<dispatchVars, d1Vars, r2Vars, moduleVars, heap, outVars>>
BodyAborts(t) ==
    /\ Turn(t, "body") /\ Fault
    /\ Go(t, "done")
    /\ Release(job[t].link)
    /\ UNCHANGED <<d1Vars, r2Vars, moduleVars, heap, outVars>>

-----------------------------------------------------------------------------
(* The guest *)

\* A handler is running and may take its next step.  R2Store.put is one call of the
\* handler: until it returns nothing else of the handler runs.
Handler(t) == Pc(t) = "guest" /\ registered /\ job[t].then = ""
Uploading(t) == xfer[t].kind = "put"
May(t, what) == /\ Handler(t) /\ ~Uploading(t)
                /\ what \in plan[t].uses /\ job[t].ops < plan[t].calls
Op(t) == job' = [job EXCEPT ![t].ops = @ + 1]

\* Imports that do not suspend.
SyncD1(t) ==
    /\ May(t, "stmt")
    /\ D1Prepare(t) \/ D1Step(t) \/ D1Reset(t) \/ \E v \in Values : D1Bind(t, v)
    /\ Op(t)
    /\ UNCHANGED <<dispatchVars, r2Vars, moduleVars, heap, outVars, faults>>

\* The rest of stepStmt after d1_run, and of execResultBackend after d1_exec.
Continue(t) ==
    /\ Pc(t) = "guest"
    /\ \/ job[t].then = "step" /\ D1Step(t)
       \/ job[t].then = "meta" /\ D1LastInsertId(t)
    /\ job' = [job EXCEPT ![t].then = ""]
    /\ UNCHANGED <<dispatchVars, r2Vars, moduleVars, heap, outVars, faults>>

\* deinitStmt and the close of an object: deferred, so every handler gets there.
Cleanup(t) ==
    /\ Handler(t) /\ ~Uploading(t)
    /\ \/ D1Finalize(t) /\ UNCHANGED r2Vars
       \/ GetClose(t) /\ UNCHANGED d1Vars
    /\ UNCHANGED <<dispatchVars, hostVars>>

\* The body R2Store.put reads from fails.
UploadFails(t) ==
    /\ Handler(t) /\ Uploading(t) /\ Fault
    /\ GiveUp(t)
    /\ UNCHANGED <<dispatchVars, d1Vars, moduleVars, job, heap, outVars>>

\* The imports a handler may call that suspend, and what it must use for them.
Suspending(t) ==
    IF Uploading(t)
    THEN {"put_finish"} \cup (IF job[t].ops < plan[t].calls THEN {"put_write"} ELSE {})
    ELSE {c \in {"run", "exec", "put_begin", "get_begin", "get_read", "delete", "other"} :
             /\ job[t].ops < plan[t].calls
             /\ CASE c = "run"       -> stmt[t] # NoStmt /\ ~stmt[t].ran
                  [] c = "get_read"  -> xfer[t].kind = "get"
                  [] c = "get_begin" -> "download" \in plan[t].uses /\ xfer[t].kind = "none"
                  [] c = "put_begin" -> "upload" \in plan[t].uses /\ xfer[t].kind = "none"
                  [] c = "delete"    -> "delete" \in plan[t].uses /\ xfer[t].kind = "none"
                  [] OTHER           -> c \in plan[t].uses}

\* suspending(fn): the stack is parked; without JSPI the guest is told -2 at once.
Suspend(t) ==
    /\ Handler(t)
    /\ \E c \in Suspending(t) :
          job' = [job EXCEPT ![t] = IF jspi
                                    THEN [@ EXCEPT !.pc = "call", !.call = c,
                                                 !.ops = job[t].ops + 1]
                                    ELSE [@ EXCEPT !.ops = job[t].ops + 1]]
    /\ UNCHANGED <<dispatchVars, d1Vars, r2Vars, moduleVars, heap, outVars, faults>>

\* No condition, the version there is, and one there is not.
Etags == {Any, bucket.last, bucket.last + 1}

\* The import's own function ends well.
Settle(t) ==
    /\ Turn(t, "call")
    /\ LET c == job[t].call IN
       /\ CASE c = "run"  -> /\ \E count \in 0..MaxRows : D1Ran(t, count)
                             /\ UNCHANGED r2Vars
            [] c = "exec" -> D1Executed(t) /\ UNCHANGED r2Vars
            [] c = "put_begin"  -> /\ \E m \in Etags : PutBegin(t, m)
                                   /\ UNCHANGED d1Vars
            [] c = "put_write"  -> (\E n \in 1..Buffer : PutWrite(t, n)) /\ UNCHANGED d1Vars
            [] c = "put_finish" -> PutFinish(t, TRUE) /\ UNCHANGED d1Vars
            [] c = "get_begin"  -> /\ \E m, nm \in Etags :
                                         \E o \in 0..1 : GetBegin(t, m, nm, o)
                                   /\ UNCHANGED d1Vars
            [] c = "get_read"   -> /\ \E n \in 1..(Buffer + 1) : GetRead(t, n)
                                   /\ UNCHANGED d1Vars
            [] c = "delete"     -> Delete(t) /\ UNCHANGED d1Vars
            [] OTHER            -> UNCHANGED <<d1Vars, r2Vars>>
       /\ job' = [job EXCEPT ![t] =
                     [@ EXCEPT !.pc = "resume", !.call = "",
                               !.then = CASE c = "run" -> "step" [] c = "exec" -> "meta"
                                          [] OTHER -> ""]]
    /\ UNCHANGED <<dispatchVars, moduleVars, heap, outVars, faults>>

\* ... or by a negative code, at which R2Store.put leaves.
SettleError(t) ==
    /\ Turn(t, "call") /\ Fault
    /\ CASE job[t].call = "put_finish" -> PutFinish(t, FALSE)
         [] job[t].call = "put_write"  -> GiveUp(t)
         [] OTHER -> UNCHANGED r2Vars
    /\ job' = [job EXCEPT ![t] = [@ EXCEPT !.pc = "resume", !.call = ""]]
    /\ UNCHANGED <<dispatchVars, d1Vars, moduleVars, heap, outVars>>

\* The guest's stack is put back, in a later turn.
Resume(t) ==
    /\ Turn(t, "resume")
    /\ Go(t, "guest")
    /\ UNCHANGED <<dispatchVars, d1Vars, r2Vars, moduleVars, heap, outVars, faults>>

\* handle_fetch returns a response, and notes its length.
Respond(t) ==
    /\ t \in Fetches /\ Handler(t) /\ stmt[t] = NoStmt /\ xfer[t].kind = "none"
    /\ \E a \in {"response", "malformed"} :
          /\ IF a = "response" THEN NoFault ELSE Fault
          /\ job' = [job EXCEPT ![t].pc = "return", ![t].answer = a]
    /\ heap' = heap \cup {<<t, "response">>}
    /\ lastResponse' = t
    /\ UNCHANGED <<dispatchVars, d1Vars, r2Vars, moduleVars, result, settled, consumed>>

\* handle_queue returns 0.
Consume(t) ==
    /\ t \in Batches /\ Handler(t) /\ stmt[t] = NoStmt /\ xfer[t].kind = "none"
    /\ job' = [job EXCEPT ![t].pc = "return", ![t].answer = "0"]
    /\ consumed' = consumed \cup {<<t, job[t].at>>}
    /\ UNCHANGED <<dispatchVars, d1Vars, r2Vars, moduleVars, heap, lastResponse, result,
                   settled, faults>>

\* Either returns an error: the handler failed, or there is no application.
ReturnError(t) ==
    /\ Pc(t) = "guest" /\ job[t].then = ""
    /\ stmt[t] = NoStmt /\ xfer[t].kind = "none"
    /\ IF registered THEN Fault ELSE NoFault
    /\ job' = [job EXCEPT ![t].pc = "return", ![t].answer = "error"]
    /\ UNCHANGED <<dispatchVars, d1Vars, r2Vars, moduleVars, heap, outVars>>

\* The guest traps: what it had open stays open.
Trap(t) ==
    /\ Handler(t) /\ Fault
    /\ D1Trap(t)
    /\ IF xfer[t].kind = "none" THEN UNCHANGED r2Vars ELSE GiveUp(t)
    /\ job' = [job EXCEPT ![t].pc = "return", ![t].answer = "trap"]
    /\ UNCHANGED <<dispatchVars, moduleVars, heap, outVars>>

-----------------------------------------------------------------------------
(* The end of a dispatch *)

\* parseHttpResponse.
ParseHttpResponse(answer) == IF answer = "malformed" THEN 502 ELSE 200

\* dispatchWasmUnlocked goes on after handle_fetch: the length is asked for, the
\* bytes are copied, both buffers freed, the lock released.  A trap frees nothing.
\* (Faulty variant: the request is not freed when there is no response.)
FinishFetchLeaking(t) ==
    /\ t \in Fetches /\ Turn(t, "return")
    /\ LET a == job[t].answer IN
       /\ heap' = IF a \in {"trap", "error"} THEN heap ELSE heap \ {<<t, "request">>, <<t, "response">>}
       /\ result' = [result EXCEPT ![t] =
             CASE a = "trap"  -> NoResult
               [] a = "error" -> [NoResult EXCEPT !.status = 500]
               [] OTHER       -> [status |-> ParseHttpResponse(a), text |-> t,
                                  length |-> lastResponse]]
    /\ Release(job[t].link)
    /\ job' = [job EXCEPT ![t] = [@ EXCEPT !.pc = "done", !.ops = 0]]
    /\ UNCHANGED <<d1Vars, r2Vars, moduleVars, lastResponse, settled, consumed, faults>>
FinishFetch(t) ==
    /\ t \in Fetches /\ Turn(t, "return")
    /\ LET a == job[t].answer IN
       /\ heap' = IF a = "trap" THEN heap ELSE heap \ {<<t, "request">>, <<t, "response">>}
       /\ result' = [result EXCEPT ![t] =
             CASE a = "trap"  -> NoResult
               [] a = "error" -> [NoResult EXCEPT !.status = 500]
               [] OTHER       -> [status |-> ParseHttpResponse(a), text |-> t,
                                  length |-> lastResponse]]
    /\ Release(job[t].link)
    /\ job' = [job EXCEPT ![t] = [@ EXCEPT !.pc = "done", !.ops = 0]]
    /\ UNCHANGED <<d1Vars, r2Vars, moduleVars, lastResponse, settled, consumed, faults>>

\* queue() goes on after handle_queue: the buffer freed in a finally, the lock
\* released, the message acked for a 0 and retried for anything else.
\* (Faulty variant: a trap is not caught per message, the rest of the batch is acked.)
FinishMessageAcking(t) ==
    /\ t \in Batches /\ Turn(t, "return")
    /\ heap' = heap \ {<<t, "request">>}
    /\ settled' = [settled EXCEPT ![t] = Append(@, IF job[t].answer \in {"0", "trap"} THEN "ack" ELSE "retry")]
    /\ Release(job[t].link)
    /\ job' = [job EXCEPT ![t] = [@ EXCEPT !.pc = IF job[t].at = plan[t].dispatches THEN "done" ELSE "ready",
                                           !.ops = 0, !.at = job[t].at + 1]]
    /\ UNCHANGED <<d1Vars, r2Vars, moduleVars, lastResponse, result, consumed, faults>>
FinishMessage(t) ==
    /\ t \in Batches /\ Turn(t, "return")
    /\ heap' = heap \ {<<t, "request">>}
    /\ settled' = [settled EXCEPT ![t] = Append(@, IF job[t].answer = "0" THEN "ack" ELSE "retry")]
    /\ Release(job[t].link)
    /\ job' = [job EXCEPT ![t] = [@ EXCEPT !.pc = IF job[t].at = plan[t].dispatches THEN "done" ELSE "ready",
                                           !.ops = 0, !.at = job[t].at + 1]]
    /\ UNCHANGED <<d1Vars, r2Vars, moduleVars, lastResponse, result, consumed, faults>>

Ended == /\ \A t \in Tasks : Pc(t) = "done"
         /\ UNCHANGED vars

TaskNext(t) ==
    \/ RetryAll(t) \/ Enqueue(t) \/ Begin(t) \/ ReadBody(t) \/ BodyAborts(t)
    \/ SyncD1(t) \/ Continue(t) \/ Cleanup(t) \/ UploadFails(t)
    \/ Suspend(t) \/ Settle(t) \/ SettleError(t) \/ Resume(t)
    \/ Respond(t) \/ Consume(t) \/ ReturnError(t) \/ Trap(t)
    \/ FinishFetch(t) \/ FinishMessage(t)

Start == \E outcome \in {"ok", "unregistered", "throws", "fails"} : Instantiated(outcome)

Next == \/ Start \/ Ended
        \/ \E t \in Tasks : Arrive(t) \/ TaskNext(t)

\* Promises settle: an instantiation, a body (or it rejects), an import; a guest
\* ends; and the event loop runs what is ready.
Fairness == WF_vars(Start) /\ \A t \in Tasks : WF_vars(TaskNext(t))

Spec == Init /\ [][Next]_vars /\ Fairness

-----------------------------------------------------------------------------
(* Properties.  ImplementsSerial, ReadsOwnAnswers and ObjectsWhole come with   *)
(* the modules above.                                                          *)

\* The shape of the state; and the module is instantiated at most once at a time,
\* however many cold requests and batches arrive together (index.mjs:55-57).
TypeOK ==
    /\ jspi \in BOOLEAN /\ hasQueue \in BOOLEAN
    /\ instance \in BOOLEAN /\ registered \in BOOLEAN
    /\ starting \in 0..1 /\ (instance => starting = 0)
    /\ \A t \in Tasks :
          /\ Pc(t) \in {"idle", "instance", "ready", "line", "body", "guest", "call",
                        "resume", "return", "done"}
          /\ job[t].link \in 0..Len(links)
          /\ job[t].at \in 1..(plan[t].dispatches + 1)
          /\ job[t].ops \in Nat
    /\ heap \subseteq Tasks \X {"request", "response"}
    /\ consumed \subseteq Batches \X Nat
    /\ faults \in 0..MaxFaults

\* A client gets the response its own request was given, cut at its own length,
\* although the length and the error are globals of an instance that other
\* dispatches use between the guest's return and the copy (index.mjs:585-594).
OwnResponse ==
    \A t \in Fetches : result[t].text # "" => result[t].text = t /\ result[t].length = t

\* Nothing is left in the isolate but what a trap or an abandoned upload leaves:
\* each buffer, statement and R2 entry belongs to a dispatch still in progress, and
\* the one buffer that is not freed is the request of a fetch that trapped.
Accounted ==
    /\ DOMAIN d1stmts = {stmt[t].handle : t \in {u \in Tasks : stmt[u] # NoStmt}} \cup orphans
    /\ DOMAIN r2ops = {xfer[t].id : t \in {u \in Tasks : xfer[u].kind # "none"}} \cup abandoned
    /\ heap = {<<t, "request">> : t \in {u \in Tasks :
                    \/ Pc(u) \in {"guest", "call", "resume", "return"}
                    \/ u \in Fetches /\ Pc(u) = "done" /\ job[u].answer = "trap"}}
         \cup {<<t, "response">> : t \in {u \in Tasks :
                    Pc(u) = "return" /\ job[u].answer \in {"response", "malformed"}}}

\* A message is acknowledged when the guest consumed it, this very message, and
\* only then: one that failed, trapped or found no consumer is delivered again, and
\* one that was consumed is not (index.mjs:528-539).
AckIffConsumed ==
    \A t \in Batches : \A i \in DOMAIN settled[t] :
        settled[t][i] = "ack" <=> <<t, i>> \in consumed

\* Every request that came in is answered, or its handler throws, and every batch
\* settled, whatever fails: nobody keeps the lock.
EveryTaskEnds == \A t \in Tasks : Pc(t) # "idle" ~> Pc(t) = "done"
=============================================================================
