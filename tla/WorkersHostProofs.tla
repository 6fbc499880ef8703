------------------------- MODULE WorkersHostProofs -------------------------
(***************************************************************************)
(* Theorems about WorkersHost, for any tasks, applications, buffer sizes   *)
(* and number of failures.  They rest on one invariant of the lock: who is *)
(* between run() and release() has a link of its own, and no two of them   *)
(* are past the await.                                                     *)
(***************************************************************************)
EXTENDS WorkersHost, WasmDispatchProofs

Holding == {"body", "guest", "call", "resume", "return"}
InLine  == Holding \cup {"line"}

Pcs     == {"idle", "instance", "ready", "done"} \cup InLine
Calls   == {"", "run", "exec", "put_begin", "put_write", "put_finish", "get_begin",
            "get_read", "delete", "other"}
Thens   == {"", "step", "meta"}
Answers == {"", "response", "malformed", "0", "error", "trap"}

Jobs == [pc : Pcs, call : Calls, then : Thens, link : Nat, at : Nat, ops : Nat,
         answer : Answers]

JobType == job \in [Tasks -> Jobs]

\* Where a task is says what its link is, and links are not shared.
Lined ==
    /\ \A t \in Tasks : Pc(t) \in InLine =>
          /\ job[t].link \in 1..Len(links)
          /\ links[job[t].link].state = IF Pc(t) = "line" THEN "waiting" ELSE "running"
    /\ \A t, u \in Tasks : Pc(t) \in InLine /\ Pc(u) \in InLine /\ t # u =>
          job[t].link # job[u].link

LockInv == DispatchInv /\ JobType /\ Lined

-----------------------------------------------------------------------------
(* The lock sees four kinds of steps.                                      *)

\* It does not see the step: nobody enters or leaves the line.
Stays ==
    /\ UNCHANGED dispatchVars
    /\ \A t \in Tasks : /\ job'[t].link = job[t].link
                        /\ \/ job'[t].pc = job[t].pc
                           \/ job[t].pc \in Holding /\ job'[t].pc \in Holding
                           \/ job[t].pc \notin InLine /\ job'[t].pc \notin InLine

Others(t) == \A u \in Tasks \ {t} : job'[u] = job[u]

Queues(t) == /\ Link
             /\ job'[t].pc = "line" /\ job'[t].link = Len(links) + 1 /\ Others(t)

Enters(t) == /\ job[t].pc = "line" /\ Admit(job[t].link)
             /\ job'[t].pc \in Holding /\ job'[t].link = job[t].link /\ Others(t)

Leaves(t) == /\ job[t].pc \in Holding /\ Release(job[t].link)
             /\ job'[t].pc \notin InLine /\ job'[t].link = job[t].link /\ Others(t)

-----------------------------------------------------------------------------
(* Nor do the answers see most steps.                                      *)

answerVars == <<plan, hasQueue, lastResponse, result, settled, consumed>>

\* No answer is given, noted or used: a task that has one keeps it, and one that
\* returns returns an error or trapped.
Quietly ==
    /\ UNCHANGED answerVars
    /\ \A t \in Tasks :
          /\ job'[t].at = job[t].at
          /\ job[t].pc = "return" => /\ job'[t].pc = "return"
                                     /\ job'[t].answer = job[t].answer
          /\ job'[t].pc = "return" => \/ job[t].pc = "return"
                                      \/ job'[t].answer \in {"error", "trap"}
          /\ job[t].pc = "done" => job'[t].pc = "done"
          /\ t \in Batches /\ ~hasQueue /\ job'[t].pc \in InLine => job[t].pc \in InLine

Response == {"response", "malformed"}

Responds(t) ==
    /\ t \in Fetches /\ job[t].pc = "guest"
    /\ job'[t].pc = "return" /\ job'[t].answer \in Response
    /\ job'[t].at = job[t].at /\ Others(t)
    /\ lastResponse' = t
    /\ UNCHANGED <<plan, hasQueue, result, settled, consumed>>

Consumes(t) ==
    /\ t \in Batches /\ job[t].pc = "guest"
    /\ job'[t].pc = "return" /\ job'[t].answer = "0" /\ job'[t].at = job[t].at /\ Others(t)
    /\ consumed' = consumed \cup {<<t, job[t].at>>}
    /\ UNCHANGED <<plan, hasQueue, lastResponse, result, settled>>

EndsFetch(t) ==
    /\ t \in Fetches /\ job[t].pc = "return"
    /\ job'[t].pc = "done" /\ job'[t].at = job[t].at /\ Others(t)
    /\ result' = [result EXCEPT ![t] =
          CASE job[t].answer = "trap"  -> NoResult
            [] job[t].answer = "error" -> [NoResult EXCEPT !.status = 500]
            [] OTHER -> [status |-> ParseHttpResponse(job[t].answer), text |-> t,
                         length |-> lastResponse]]
    /\ UNCHANGED <<plan, hasQueue, lastResponse, settled, consumed>>

EndsMessage(t) ==
    /\ t \in Batches /\ job[t].pc = "return"
    /\ job'[t].pc = IF job[t].at = plan[t].dispatches THEN "done" ELSE "ready"
    /\ job'[t].at = job[t].at + 1 /\ Others(t)
    /\ settled' = [settled EXCEPT
                      ![t] = Append(@, IF job[t].answer = "0" THEN "ack" ELSE "retry")]
    /\ UNCHANGED <<plan, hasQueue, lastResponse, result, consumed>>

RetriesAll(t) ==
    /\ t \in Batches /\ ~hasQueue /\ job[t].pc = "ready"
    /\ job'[t].pc = "done" /\ job'[t].at = job[t].at /\ Others(t)
    /\ settled' = [settled EXCEPT ![t] = [i \in 1..plan[t].dispatches |-> "retry"]]
    /\ UNCHANGED <<plan, hasQueue, lastResponse, result, consumed>>

Outcome(t) == Responds(t) \/ Consumes(t) \/ EndsFetch(t) \/ EndsMessage(t) \/ RetriesAll(t)

-----------------------------------------------------------------------------
\* The values the fields of a job take.
LEMMA Words ==
    /\ {"idle", "instance", "ready", "done", "line", "body", "guest", "call", "resume",
        "return"} = Pcs
    /\ {"", "step", "meta"} = Thens
    /\ "" \in Answers /\ "response" \in Answers /\ "malformed" \in Answers
    /\ "0" \in Answers /\ "error" \in Answers /\ "trap" \in Answers
    /\ "" \in Calls /\ "put_write" \in Calls /\ "put_finish" \in Calls
    /\ {"run", "exec", "put_begin", "get_begin", "get_read", "delete", "other"} \subseteq Calls
BY DEF Pcs, InLine, Holding, Thens, Answers, Calls

\* A step that gives one task a new record.
LEMMA OneJob ==
  ASSUME JobType, NEW t \in Tasks, NEW j \in Jobs, job' = [job EXCEPT ![t] = j]
  PROVE  job' \in [Tasks -> Jobs] /\ job'[t] = j /\ Others(t)
BY DEF JobType, Others

\* ... and leaves the lock alone.
LEMMA OneStays ==
  ASSUME JobType, NEW t \in Tasks, NEW j \in Jobs, job' = [job EXCEPT ![t] = j],
         UNCHANGED dispatchVars, j.link = job[t].link,
         \/ j.pc = job[t].pc
         \/ j.pc \in Holding /\ job[t].pc \in Holding
         \/ j.pc \notin InLine /\ job[t].pc \notin InLine
  PROVE  job' \in [Tasks -> Jobs] /\ Stays
<1>1. job' \in [Tasks -> Jobs] /\ job'[t] = j /\ Others(t)
  BY OneJob
<1>2. \A u \in Tasks \ {t} : job'[u].link = job[u].link /\ job'[u].pc = job[u].pc
  BY <1>1 DEF Others
<1> QED
  BY <1>1, <1>2 DEF Stays

\* ... and no answer either.
LEMMA OneQuiet ==
  ASSUME JobType, NEW t \in Tasks, NEW j \in Jobs, job' = [job EXCEPT ![t] = j],
         UNCHANGED answerVars, j.at = job[t].at, job[t].pc \notin {"return", "done"},
         j.pc = "return" => j.answer \in {"error", "trap"},
         t \in Batches /\ ~hasQueue /\ j.pc \in InLine => job[t].pc \in InLine
  PROVE  Quietly
<1>1. job'[t] = j /\ Others(t)
  BY OneJob
<1>2. \A u \in Tasks \ {t} : job'[u] = job[u]
  BY <1>1 DEF Others
<1> QED
  BY <1>1, <1>2 DEF Quietly

\* What a handler waits for is one of the imports.
LEMMA SuspendingCalls == ASSUME NEW t \in Tasks PROVE Suspending(t) \subseteq Calls
<1>1. {"put_finish"} \cup (IF job[t].ops < plan[t].calls THEN {"put_write"} ELSE {}) \subseteq Calls
  BY Words
<1>2. CASE Uploading(t)
  BY <1>1, <1>2 DEF Suspending
<1>3. CASE ~Uploading(t)
  BY <1>3, Words DEF Suspending
<1> QED
  BY <1>2, <1>3

\* The actions of a task, but for its arrival and the start of the isolate, one by one.
LEMMA TaskSteps ==
  ASSUME JobType, links \in Seq(Links), NEW t \in Tasks, TaskNext(t)
  PROVE  /\ job' \in [Tasks -> Jobs]
         /\ Stays \/ Queues(t) \/ Enters(t) \/ Leaves(t)
         /\ Quietly \/ Outcome(t)
<1>0. job[t] \in Jobs /\ job \in [Tasks -> Jobs]
  BY DEF JobType
<1> USE DEF Holding, InLine
<1>1. CASE RetryAll(t)
  <2> DEFINE j == [job[t] EXCEPT !.pc = "done"]
  <2>2. /\ j \in Jobs /\ j.link = job[t].link /\ j.pc = "done"
        /\ j.at = job[t].at
    BY <1>0, Words DEF Jobs
  <2>3. job' = [job EXCEPT ![t] = j] /\ UNCHANGED dispatchVars /\ job[t].pc = "ready"
    BY <1>1, <1>0 DEF RetryAll, Turn, Go, Pc
  <2> HIDE DEF j
  <2>8. Outcome(t)
    BY <2>2, <2>3, <1>1, OneJob DEF Outcome, RetriesAll, RetryAll, moduleVars, outVars
  <2>9. job' \in [Tasks -> Jobs] /\ Stays
    BY <2>2, <2>3, OneStays
  <2> QED
    BY <2>8, <2>9
<1>2. CASE Enqueue(t)
  <2> DEFINE j == [job[t] EXCEPT !.pc = "line", !.link = Len(links) + 1]
  <2>1. Len(links) + 1 \in Nat
    BY LenProperties
  <2>2. /\ j \in Jobs /\ j.link = Len(links) + 1 /\ j.pc = "line"
        /\ j.at = job[t].at
    BY <1>0, <2>1, Words DEF Jobs
  <2>3. job' = [job EXCEPT ![t] = j] /\ Link /\ job[t].pc = "ready"
    BY <1>2, <1>0 DEF Enqueue, Turn, Pc
  <2> HIDE DEF j
  <2>7. UNCHANGED answerVars /\ (t \in Fetches \/ hasQueue)
    BY <1>2 DEF Enqueue, answerVars, outVars, moduleVars
  <2>8. Quietly
    BY <2>2, <2>3, <2>7, OneQuiet, TasksAssumption
  <2>9. job' \in [Tasks -> Jobs] /\ Queues(t)
    BY <2>2, <2>3, OneJob DEF Queues
  <2> QED
    BY <2>8, <2>9
<1>3. CASE Begin(t)
  <2> DEFINE j == [job[t] EXCEPT !.pc = IF t \in Fetches THEN "body" ELSE "guest", !.answer = ""]
  <2>2. /\ j \in Jobs /\ j.link = job[t].link /\ j.pc \in {"body", "guest"}
        /\ j.at = job[t].at
    BY <1>0, Words DEF Jobs
  <2>3. job' = [job EXCEPT ![t] = j] /\ Admit(job[t].link) /\ job[t].pc = "line"
    BY <1>3, <1>0 DEF Begin, Turn, Pc
  <2> HIDE DEF j
  <2>7. UNCHANGED answerVars
    BY <1>3 DEF Begin, answerVars, outVars, moduleVars
  <2>8. Quietly
    BY <2>2, <2>3, <2>7, OneQuiet
  <2>9. job' \in [Tasks -> Jobs] /\ Enters(t)
    BY <2>2, <2>3, OneJob DEF Enters
  <2> QED
    BY <2>8, <2>9
<1>4. CASE ReadBody(t)
  <2> DEFINE j == [job[t] EXCEPT !.pc = "guest"]
  <2>2. /\ j \in Jobs /\ j.link = job[t].link /\ j.pc = "guest"
        /\ j.at = job[t].at
    BY <1>0, Words DEF Jobs
  <2>3. job' = [job EXCEPT ![t] = j] /\ UNCHANGED dispatchVars /\ job[t].pc = "body"
    BY <1>4, <1>0 DEF ReadBody, Turn, Go, Pc
  <2> HIDE DEF j
  <2>7. UNCHANGED answerVars
    BY <1>4 DEF ReadBody, answerVars, outVars, moduleVars
  <2>8. Quietly
    BY <2>2, <2>3, <2>7, OneQuiet
  <2>9. job' \in [Tasks -> Jobs] /\ Stays
    BY <2>2, <2>3, OneStays
  <2> QED
    BY <2>8, <2>9
<1>5. CASE BodyAborts(t)
  <2> DEFINE j == [job[t] EXCEPT !.pc = "done"]
  <2>2. /\ j \in Jobs /\ j.link = job[t].link /\ j.pc = "done"
        /\ j.at = job[t].at
    BY <1>0, Words DEF Jobs
  <2>3. job' = [job EXCEPT ![t] = j] /\ Release(job[t].link) /\ job[t].pc = "body"
    BY <1>5, <1>0 DEF BodyAborts, Turn, Go, Pc
  <2> HIDE DEF j
  <2>7. UNCHANGED answerVars
    BY <1>5 DEF BodyAborts, answerVars, outVars, moduleVars
  <2>8. Quietly
    BY <2>2, <2>3, <2>7, OneQuiet
  <2>9. job' \in [Tasks -> Jobs] /\ Leaves(t)
    BY <2>2, <2>3, OneJob DEF Leaves
  <2> QED
    BY <2>8, <2>9
<1>6. CASE SyncD1(t)
  <2> DEFINE k == job[t].ops + 1
             j == [job[t] EXCEPT !.ops = k]
  <2>1. k \in Nat
    BY <1>0 DEF Jobs
  <2>3. job' = [job EXCEPT ![t] = j] /\ UNCHANGED dispatchVars /\ job[t].pc = "guest"
    BY <1>6, <1>0 DEF SyncD1, Op, May, Handler, Pc
  <2> HIDE DEF k
  <2>2. /\ j \in Jobs /\ j.link = job[t].link /\ j.pc = job[t].pc
        /\ j.at = job[t].at
    BY <1>0, <2>1 DEF Jobs
  <2> HIDE DEF j
  <2>7. UNCHANGED answerVars
    BY <1>6 DEF SyncD1, answerVars, outVars, moduleVars
  <2>8. Quietly
    BY <2>2, <2>3, <2>7, OneQuiet
  <2>9. job' \in [Tasks -> Jobs] /\ Stays
    BY <2>2, <2>3, OneStays
  <2> QED
    BY <2>8, <2>9
<1>7. CASE Continue(t)
  <2> DEFINE j == [job[t] EXCEPT !.then = ""]
  <2>2. /\ j \in Jobs /\ j.link = job[t].link /\ j.pc = job[t].pc
        /\ j.at = job[t].at
    BY <1>0, Words DEF Jobs
  <2>3. job' = [job EXCEPT ![t] = j] /\ UNCHANGED dispatchVars /\ job[t].pc = "guest"
    BY <1>7, <1>0 DEF Continue, Pc
  <2> HIDE DEF j
  <2>7. UNCHANGED answerVars
    BY <1>7 DEF Continue, answerVars, outVars, moduleVars
  <2>8. Quietly
    BY <2>2, <2>3, <2>7, OneQuiet
  <2>9. job' \in [Tasks -> Jobs] /\ Stays
    BY <2>2, <2>3, OneStays
  <2> QED
    BY <2>8, <2>9
<1>8. CASE Cleanup(t)
  BY <1>8, <1>0 DEF Cleanup, Stays, Quietly, answerVars, outVars, moduleVars, hostVars
<1>9. CASE UploadFails(t)
  BY <1>9, <1>0 DEF UploadFails, Stays, Quietly, answerVars, outVars, moduleVars
<1>10. CASE Suspend(t)
  <2> PICK c \in Suspending(t) :
             job' = [job EXCEPT ![t] = IF jspi
                                       THEN [@ EXCEPT !.pc = "call", !.call = c,
                                                      !.ops = job[t].ops + 1]
                                       ELSE [@ EXCEPT !.ops = job[t].ops + 1]]
    BY <1>10 DEF Suspend
  <2> DEFINE k == job[t].ops + 1
             j == IF jspi THEN [job[t] EXCEPT !.pc = "call", !.call = c, !.ops = k]
                  ELSE [job[t] EXCEPT !.ops = k]
  <2>1. c \in Calls
    BY Words, SuspendingCalls
  <2>2. k \in Nat
    BY <1>0 DEF Jobs
  <2>3. job' = [job EXCEPT ![t] = j] /\ UNCHANGED dispatchVars /\ job[t].pc = "guest"
    BY <1>10, <1>0 DEF Suspend, Handler, Pc
  <2> HIDE DEF k
  <2>4. /\ j \in Jobs /\ j.link = job[t].link /\ j.pc = IF jspi THEN "call" ELSE job[t].pc
        /\ j.at = job[t].at
    BY <1>0, <2>1, <2>2, Words DEF Jobs
  <2> HIDE DEF j
  <2>7. UNCHANGED answerVars
    BY <1>10 DEF Suspend, answerVars, outVars, moduleVars
  <2>8. Quietly
    BY <2>3, <2>4, <2>7, OneQuiet
  <2>9. job' \in [Tasks -> Jobs] /\ Stays
    BY <2>3, <2>4, OneStays
  <2> QED
    BY <2>8, <2>9
<1>11. CASE Settle(t)
  <2> DEFINE then == CASE job[t].call = "run" -> "step" [] job[t].call = "exec" -> "meta"
                       [] OTHER -> ""
             j == [job[t] EXCEPT !.pc = "resume", !.call = "", !.then = then]
  <2>1. then \in Thens
    BY Words
  <2>2. job' = [job EXCEPT ![t] = j] /\ UNCHANGED dispatchVars /\ job[t].pc = "call"
    BY <1>11 DEF Settle, Turn, Pc
  <2> HIDE DEF then
  <2>3. /\ j \in Jobs /\ j.link = job[t].link /\ j.pc = "resume"
        /\ j.at = job[t].at
    BY <1>0, <2>1, Words DEF Jobs
  <2> HIDE DEF j
  <2>7. UNCHANGED answerVars
    BY <1>11 DEF Settle, answerVars, outVars, moduleVars
  <2>8. Quietly
    BY <2>2, <2>3, <2>7, OneQuiet
  <2>9. job' \in [Tasks -> Jobs] /\ Stays
    BY <2>2, <2>3, OneStays
  <2> QED
    BY <2>8, <2>9
<1>12. CASE SettleError(t)
  <2> DEFINE j == [job[t] EXCEPT !.pc = "resume", !.call = ""]
  <2>2. /\ j \in Jobs /\ j.link = job[t].link /\ j.pc = "resume"
        /\ j.at = job[t].at
    BY <1>0, Words DEF Jobs
  <2>3. job' = [job EXCEPT ![t] = j] /\ UNCHANGED dispatchVars /\ job[t].pc = "call"
    BY <1>12, <1>0 DEF SettleError, Turn, Pc
  <2> HIDE DEF j
  <2>7. UNCHANGED answerVars
    BY <1>12 DEF SettleError, answerVars, outVars, moduleVars
  <2>8. Quietly
    BY <2>2, <2>3, <2>7, OneQuiet
  <2>9. job' \in [Tasks -> Jobs] /\ Stays
    BY <2>2, <2>3, OneStays
  <2> QED
    BY <2>8, <2>9
<1>13. CASE Resume(t)
  <2> DEFINE j == [job[t] EXCEPT !.pc = "guest"]
  <2>2. /\ j \in Jobs /\ j.link = job[t].link /\ j.pc = "guest"
        /\ j.at = job[t].at
    BY <1>0, Words DEF Jobs
  <2>3. job' = [job EXCEPT ![t] = j] /\ UNCHANGED dispatchVars /\ job[t].pc = "resume"
    BY <1>13, <1>0 DEF Resume, Turn, Go, Pc
  <2> HIDE DEF j
  <2>7. UNCHANGED answerVars
    BY <1>13 DEF Resume, answerVars, outVars, moduleVars
  <2>8. Quietly
    BY <2>2, <2>3, <2>7, OneQuiet
  <2>9. job' \in [Tasks -> Jobs] /\ Stays
    BY <2>2, <2>3, OneStays
  <2> QED
    BY <2>8, <2>9
<1>14. CASE Respond(t)
  <2> PICK a \in {"response", "malformed"} :
             job' = [job EXCEPT ![t].pc = "return", ![t].answer = a]
    BY <1>14 DEF Respond
  <2> DEFINE j == [job[t] EXCEPT !.pc = "return", !.answer = a]
  <2>1. /\ j \in Jobs /\ j.link = job[t].link /\ j.pc = "return"
        /\ j.at = job[t].at /\ j.answer \in Response
    BY <1>0, Words DEF Jobs, Response
  <2>2. job' = [job EXCEPT ![t] = j] /\ UNCHANGED dispatchVars /\ job[t].pc = "guest"
    BY <1>14, <1>0 DEF Respond, Handler, Pc, JobType
  <2> HIDE DEF j
  <2>8. Outcome(t)
    BY <2>1, <2>2, <1>14, OneJob DEF Outcome, Responds, Respond, moduleVars, outVars
  <2>9. job' \in [Tasks -> Jobs] /\ Stays
    BY <2>1, <2>2, OneStays
  <2> QED
    BY <2>8, <2>9
<1>15. CASE Consume(t)
  <2> DEFINE j == [job[t] EXCEPT !.pc = "return", !.answer = "0"]
  <2>2. /\ j \in Jobs /\ j.link = job[t].link /\ j.pc = "return"
        /\ j.at = job[t].at /\ j.answer = "0"
    BY <1>0, Words DEF Jobs
  <2>3. job' = [job EXCEPT ![t] = j] /\ UNCHANGED dispatchVars /\ job[t].pc = "guest"
    BY <1>15, <1>0 DEF Consume, Handler, Pc
  <2> HIDE DEF j
  <2>8. Outcome(t)
    BY <2>2, <2>3, <1>15, OneJob DEF Outcome, Consumes, Consume, moduleVars, outVars
  <2>9. job' \in [Tasks -> Jobs] /\ Stays
    BY <2>2, <2>3, OneStays
  <2> QED
    BY <2>8, <2>9
<1>16. CASE ReturnError(t)
  <2> DEFINE j == [job[t] EXCEPT !.pc = "return", !.answer = "error"]
  <2>2. /\ j \in Jobs /\ j.link = job[t].link /\ j.pc = "return"
        /\ j.at = job[t].at /\ j.answer = "error"
    BY <1>0, Words DEF Jobs
  <2>3. job' = [job EXCEPT ![t] = j] /\ UNCHANGED dispatchVars /\ job[t].pc = "guest"
    BY <1>16, <1>0 DEF ReturnError, Pc
  <2> HIDE DEF j
  <2>7. UNCHANGED answerVars
    BY <1>16 DEF ReturnError, answerVars, outVars, moduleVars
  <2>8. Quietly
    BY <2>2, <2>3, <2>7, OneQuiet
  <2>9. job' \in [Tasks -> Jobs] /\ Stays
    BY <2>2, <2>3, OneStays
  <2> QED
    BY <2>8, <2>9
<1>17. CASE Trap(t)
  <2> DEFINE j == [job[t] EXCEPT !.pc = "return", !.answer = "trap"]
  <2>2. /\ j \in Jobs /\ j.link = job[t].link /\ j.pc = "return"
        /\ j.at = job[t].at /\ j.answer = "trap"
    BY <1>0, Words DEF Jobs
  <2>3. job' = [job EXCEPT ![t] = j] /\ UNCHANGED dispatchVars /\ job[t].pc = "guest"
    BY <1>17, <1>0 DEF Trap, Handler, Pc
  <2> HIDE DEF j
  <2>7. UNCHANGED answerVars
    BY <1>17 DEF Trap, answerVars, outVars, moduleVars
  <2>8. Quietly
    BY <2>2, <2>3, <2>7, OneQuiet
  <2>9. job' \in [Tasks -> Jobs] /\ Stays
    BY <2>2, <2>3, OneStays
  <2> QED
    BY <2>8, <2>9
<1>18. CASE FinishFetch(t)
  <2> DEFINE j == [job[t] EXCEPT !.pc = "done", !.ops = 0]
  <2>2. /\ j \in Jobs /\ j.link = job[t].link /\ j.pc = "done"
        /\ j.at = job[t].at
    BY <1>0, Words DEF Jobs
  <2>3. job' = [job EXCEPT ![t] = j] /\ Release(job[t].link) /\ job[t].pc = "return"
    BY <1>18, <1>0 DEF FinishFetch, Turn, Pc
  <2> HIDE DEF j
  <2>8. Outcome(t)
    BY <2>2, <2>3, <1>18, OneJob DEF Outcome, EndsFetch, FinishFetch, moduleVars, outVars
  <2>9. job' \in [Tasks -> Jobs] /\ Leaves(t)
    BY <2>2, <2>3, OneJob DEF Leaves
  <2> QED
    BY <2>8, <2>9
<1>19. CASE FinishMessage(t)
  <2> DEFINE k == job[t].at + 1
             pc == IF job[t].at = plan[t].dispatches THEN "done" ELSE "ready"
             j == [job[t] EXCEPT !.pc = pc, !.ops = 0, !.at = k]
  <2>1. k \in Nat /\ pc \in {"done", "ready"} /\ pc \in Pcs
    <3>1. k \in Nat
      BY <1>0 DEF Jobs
    <3>2. pc \in {"done", "ready"} /\ {"done", "ready"} \subseteq Pcs
      BY Words
    <3> QED
      BY <3>1, <3>2
  <2>3. job' = [job EXCEPT ![t] = j] /\ Release(job[t].link) /\ job[t].pc = "return"
    BY <1>19, <1>0 DEF FinishMessage, Turn, Pc
  <2> HIDE DEF k, pc
  <2>2. /\ j \in Jobs /\ j.link = job[t].link /\ j.pc = pc
        /\ j.at = k
    BY <1>0, <2>1 DEF Jobs
  <2> HIDE DEF j
  <2>8. Outcome(t)
    BY <2>2, <2>3, <1>19, OneJob DEF Outcome, EndsMessage, FinishMessage, moduleVars, pc, k, outVars
  <2>9. job' \in [Tasks -> Jobs] /\ Leaves(t)
    BY <2>1, <2>2, <2>3, OneJob DEF Leaves
  <2> QED
    BY <2>8, <2>9
<1> QED
  BY <1>1, <1>2, <1>3, <1>4, <1>5, <1>6, <1>7, <1>8, <1>9, <1>10, <1>11, <1>12, <1>13,
     <1>14, <1>15, <1>16, <1>17, <1>18, <1>19 DEF TaskNext

\* Every step is of one of the four kinds.
LEMMA Steps ==
  ASSUME JobType, links \in Seq(Links), [Next]_vars
  PROVE  /\ job' \in [Tasks -> Jobs]
         /\ Stays \/ \E t \in Tasks : Queues(t) \/ Enters(t) \/ Leaves(t)
         /\ Quietly \/ \E t \in Tasks : Outcome(t)
<1> USE Words DEF JobType, Jobs, Holding, InLine, Pc, Go, Turn
<1>1. CASE Start
  <2> PICK outcome : Instantiated(outcome)
    BY <1>1 DEF Start
  <2>1. /\ UNCHANGED dispatchVars
        /\ job' = [t \in Tasks |->
                      IF Pc(t) # "instance" THEN job[t]
                      ELSE [job[t] EXCEPT !.pc = IF outcome \in {"ok", "unregistered"}
                                                 THEN "ready" ELSE "done"]]
    BY DEF Instantiated
  <2> DEFINE pc == IF outcome \in {"ok", "unregistered"} THEN "ready" ELSE "done"
  <2>2. pc \in {"ready", "done"} /\ job \in [Tasks -> Jobs]
    OBVIOUS
  <2>3. job' = [t \in Tasks |-> IF job[t].pc = "instance" THEN [job[t] EXCEPT !.pc = pc]
                                ELSE job[t]]
    BY <2>1
  <2> HIDE DEF pc
  <2>4. \A t \in Tasks :
           /\ job'[t] \in Jobs /\ job'[t].link = job[t].link
           /\ job'[t].pc = IF job[t].pc = "instance" THEN pc ELSE job[t].pc
           /\ job'[t].at = job[t].at /\ job'[t].answer = job[t].answer
    BY <2>2, <2>3
  <2>5. Stays
    <3> SUFFICES ASSUME NEW t \in Tasks
                 PROVE  /\ job'[t].link = job[t].link
                        /\ \/ job'[t].pc = job[t].pc
                           \/ job[t].pc \notin InLine /\ job'[t].pc \notin InLine
      BY <2>1 DEF Stays
    <3>1. CASE job[t].pc = "instance"
      BY <2>2, <2>4, <3>1
    <3>2. CASE job[t].pc # "instance"
      BY <2>4, <3>2
    <3> QED
      BY <3>1, <3>2
  <2>6. UNCHANGED answerVars
    BY DEF Instantiated, answerVars, outVars
  <2>7. Quietly
    BY <2>2, <2>4, <2>6 DEF Quietly
  <2> QED
    BY <2>2, <2>3, <2>4, <2>5, <2>7
<1>2. CASE Ended \/ UNCHANGED vars
  BY <1>2 DEF Ended, vars, hostVars, dispatchVars, Stays, Quietly, answerVars, outVars, moduleVars
<1>3. ASSUME NEW t \in Tasks, Arrive(t)
      PROVE  job' \in [Tasks -> Jobs] /\ Stays /\ Quietly
  <2> DEFINE pc == IF instance THEN "ready" ELSE "instance"
             j == [job[t] EXCEPT !.pc = pc]
  <2>1. pc \in Pcs /\ pc \in {"ready", "instance"} /\ job[t] \in Jobs
    OBVIOUS
  <2>2. job' = [job EXCEPT ![t] = j] /\ UNCHANGED dispatchVars /\ job[t].pc = "idle"
    BY <1>3 DEF Arrive
  <2> HIDE DEF pc
  <2>3. /\ j \in Jobs /\ j.link = job[t].link /\ j.pc \in {"ready", "instance"}
        /\ j.at = job[t].at
    BY <2>1
  <2> HIDE DEF j
  <2>4. UNCHANGED answerVars
    BY <1>3 DEF Arrive, answerVars, outVars
  <2>5. Quietly
    BY <2>2, <2>3, <2>4, OneQuiet
  <2> QED
    BY <2>2, <2>3, <2>5, OneStays
<1>4. ASSUME NEW t \in Tasks, TaskNext(t)
      PROVE  /\ job' \in [Tasks -> Jobs]
             /\ Stays \/ Queues(t) \/ Enters(t) \/ Leaves(t)
             /\ Quietly \/ Outcome(t)
  BY <1>4, TaskSteps
<1> QED
  BY <1>1, <1>2, <1>3, <1>4 DEF Next

\* Seen from the lock, a step is one of WasmDispatch or none.
LEMMA HostIsDispatch ==
  ASSUME LockInv, [Next]_vars
  PROVE  [DispatchNext]_dispatchVars
<1>1. DOMAIN links = 1..Len(links)
  BY LenProperties DEF LockInv, DispatchInv, ChainType
<1>2. ASSUME NEW t \in Tasks, Enters(t) \/ Leaves(t) PROVE DispatchNext
  <2>1. job[t].link \in DOMAIN links
    BY <1>1, <1>2 DEF LockInv, Lined, Enters, Leaves, InLine, Pc
  <2> QED
    BY <1>2, <2>1 DEF Enters, Leaves, DispatchNext
<1>3. ASSUME NEW t \in Tasks, Queues(t) PROVE DispatchNext
  BY <1>3 DEF Queues, DispatchNext
<1>4. Stays \/ \E t \in Tasks : Queues(t) \/ Enters(t) \/ Leaves(t)
  BY Steps DEF LockInv, DispatchInv, ChainType
<1> QED
  BY <1>2, <1>3, <1>4 DEF Stays

\* The invariant of the lock holds at the start.
LEMMA LockInvInit == Init => LockInv
<1> SUFFICES ASSUME Init PROVE LockInv
  OBVIOUS
<1>1. DispatchInv
  BY DispatchInvInit DEF Init
<1>2. job = [t \in Tasks |-> [pc |-> "idle", call |-> "", then |-> "", link |-> 0,
                              at |-> 1, ops |-> 0, answer |-> ""]]
  BY DEF Init
<1> QED
  BY <1>1, <1>2, Words DEF LockInv, JobType, Jobs, Lined, Holding, InLine, Pc

\* Every step keeps it.
LEMMA LockInvNext == LockInv /\ [Next]_vars => LockInv'
<1> SUFFICES ASSUME LockInv, [Next]_vars PROVE LockInv'
  OBVIOUS
<1>1. DispatchInv' /\ JobType'
  BY DispatchInvNext, HostIsDispatch, Steps DEF LockInv, JobType, DispatchInv, ChainType
<1>2. /\ DOMAIN links = 1..Len(links) /\ Len(links) \in Nat
      /\ \A n \in 1..Len(links) : links[n] \in Links
  BY ElementOfSeq, LenProperties DEF LockInv, DispatchInv, ChainType
<1> USE DEF Lined, Pc, Holding, InLine
<1>3. ASSUME Stays PROVE Lined'
  <2>1. links' = links
    BY <1>3 DEF Stays, dispatchVars
  <2>2. \A t \in Tasks : job'[t].pc \in InLine =>
            /\ job[t].pc \in InLine /\ job'[t].link = job[t].link
            /\ job'[t].pc = "line" <=> job[t].pc = "line"
    BY <1>3 DEF Stays
  <2>3. \A t \in Tasks : job'[t].pc \in InLine =>
            /\ job'[t].link \in 1..Len(links')
            /\ links'[job'[t].link].state = IF job'[t].pc = "line" THEN "waiting" ELSE "running"
    <3> TAKE t \in Tasks
    <3> HAVE job'[t].pc \in InLine
    <3>1. /\ job[t].link \in 1..Len(links)
          /\ links[job[t].link].state = IF job[t].pc = "line" THEN "waiting" ELSE "running"
      BY <2>2 DEF LockInv
    <3> QED
      BY <2>1, <2>2, <3>1
  <2>4. \A t, u \in Tasks : job'[t].pc \in InLine /\ job'[u].pc \in InLine /\ t # u =>
            job'[t].link # job'[u].link
    BY <2>2 DEF LockInv
  <2> QED
    BY <2>3, <2>4
<1>4. ASSUME NEW t \in Tasks, Queues(t) PROVE Lined'
  <2> DEFINE new == [prev |-> tail, state |-> "waiting"]
  <2>1. links' = Append(links, new) /\ new \in Links
    BY <1>4 DEF Queues, Link, Links, States, LockInv, DispatchInv, ChainType
  <2>2. new.state = "waiting"
    OBVIOUS
  <2> HIDE DEF new
  <2>3. /\ Len(links') = Len(links) + 1 /\ links'[Len(links) + 1] = new
        /\ \A n \in 1..Len(links) : links'[n] = links[n]
    BY <2>1, AppendProperties DEF LockInv, DispatchInv, ChainType
  <2> QED
    BY <1>2, <1>4, <2>2, <2>3 DEF Queues, Others, LockInv
<1>5. ASSUME NEW t \in Tasks, Enters(t) PROVE Lined'
  <2>1. job[t].link \in 1..Len(links) /\ links' = [links EXCEPT ![job[t].link].state = "running"]
    BY <1>5 DEF Enters, Admit, LockInv
  <2>2. /\ Len(links') = Len(links) /\ links'[job[t].link].state = "running"
        /\ \A n \in 1..Len(links) : n # job[t].link => links'[n] = links[n]
    BY <1>1, <1>2, <2>1, LenProperties DEF DispatchInv, ChainType, Links
  <2> QED
    BY <1>5, <2>1, <2>2 DEF Enters, Others, LockInv
<1>6. ASSUME NEW t \in Tasks, Leaves(t) PROVE Lined'
  <2>1. job[t].link \in 1..Len(links) /\ links' = [links EXCEPT ![job[t].link].state = "released"]
    BY <1>6 DEF Leaves, Release, LockInv
  <2>2. /\ Len(links') = Len(links)
        /\ \A n \in 1..Len(links) : n # job[t].link => links'[n] = links[n]
    BY <1>1, <1>2, <2>1, LenProperties DEF DispatchInv, ChainType, Links
  <2> QED
    BY <1>6, <2>1, <2>2 DEF Leaves, Others, LockInv
<1>7. Stays \/ \E t \in Tasks : Queues(t) \/ Enters(t) \/ Leaves(t)
  BY Steps DEF LockInv, DispatchInv, ChainType
<1> QED
  BY <1>1, <1>3, <1>4, <1>5, <1>6, <1>7 DEF LockInv

\* The invariant of the lock holds always.
LEMMA LockHeld == Spec => []LockInv
BY LockInvInit, LockInvNext, PTL DEF Spec

\* All dispatches of the isolate, of requests and of messages, whatever suspends,
\* fails or traps in them, are served one at a time in the order of their calls
\* (index.mjs:515, 558 against wasm_dispatch.mjs:8-16).
THEOREM Serialized == Spec => ImplementsSerial
<1>1. Init => DispatchInit
  BY DEF Init
<1>2. LockInv /\ [Next]_vars => [DispatchNext]_dispatchVars
  BY HostIsDispatch
<1>3. Spec => DispatchSpec
  BY <1>1, <1>2, LockHeld, PTL DEF Spec, DispatchSpec
<1> QED
  BY <1>3, Fifo
-----------------------------------------------------------------------------
(* Responses                                                               *)

\* Between the guest's return and the copy, last_response is this task's: nobody else
\* is past its await.
OutInv ==
    /\ result = [t \in Fetches |-> result[t]]
    /\ OwnResponse
    /\ \A t \in Fetches :
          job[t].pc = "return" /\ job[t].answer \in Response => lastResponse = t
    /\ \A t \in Fetches :
          job[t].pc = "return" => job[t].answer \in Response \cup {"error", "trap"}

\* No two tasks are past their awaits.
LEMMA OneHolder ==
  ASSUME LockInv, NEW t \in Tasks, NEW u \in Tasks, Pc(t) \in Holding, Pc(u) \in Holding
  PROVE  t = u
<1> SUFFICES ASSUME t # u PROVE FALSE
  OBVIOUS
<1> DEFINE a == job[t].link
           b == job[u].link
<1>1. /\ a \in 1..Len(links) /\ b \in 1..Len(links) /\ a # b
      /\ links[a].state = "running" /\ links[b].state = "running"
  BY DEF LockInv, Lined, InLine, Holding
<1>2. Len(links) \in Nat
  BY LenProperties DEF LockInv, DispatchInv, ChainType
<1> HIDE DEF a, b
<1>3. CASE a < b
  <2>1. a \in 1..(b - 1)
    BY <1>1, <1>2, <1>3
  <2> QED
    BY <1>1, <2>1 DEF LockInv, DispatchInv, Ordered
<1>4. CASE b < a
  <2>1. b \in 1..(a - 1)
    BY <1>1, <1>2, <1>4
  <2> QED
    BY <1>1, <2>1 DEF LockInv, DispatchInv, Ordered
<1> QED
  BY <1>1, <1>2, <1>3, <1>4

\* The invariant of the responses holds at the start.
LEMMA OutInvInit == Init => OutInv
<1> SUFFICES ASSUME Init PROVE OutInv
  OBVIOUS
<1>1. result = [t \in Fetches |-> NoResult]
  BY DEF Init
<1>2. \A t \in Fetches : job[t].pc = "idle"
  BY DEF Init, Tasks
<1>3. result = [t \in Fetches |-> result[t]] /\ OwnResponse
  BY <1>1 DEF OwnResponse, NoResult
<1> QED
  BY <1>2, <1>3 DEF OutInv

\* Every step keeps it.
LEMMA OutInvNext == LockInv /\ OutInv /\ [Next]_vars => OutInv'
<1> SUFFICES ASSUME LockInv, OutInv, [Next]_vars PROVE OutInv'
  OBVIOUS
<1>0. Fetches \subseteq Tasks /\ JobType
  BY DEF Tasks, LockInv
<1>1. CASE Quietly
  <2>1. UNCHANGED <<result, lastResponse>>
    BY <1>1 DEF Quietly, answerVars
  <2>2. \A t \in Fetches : job'[t].pc = "return" =>
            \/ job[t].pc = "return" /\ job'[t].answer = job[t].answer
            \/ job'[t].answer \in {"error", "trap"}
    BY <1>0, <1>1 DEF Quietly
  <2>3. \A a \in {"error", "trap"} : a \notin Response
    BY DEF Response
  <2> QED
    BY <2>1, <2>2, <2>3 DEF OutInv, OwnResponse
<1>2. ASSUME NEW t \in Tasks, Responds(t) PROVE OutInv'
  <2>1. \A u \in Tasks \ {t} : job'[u] = job[u] /\ job[u].pc # "return"
    BY <1>2, OneHolder DEF Responds, Others, Holding, Pc
  <2>2. UNCHANGED result /\ lastResponse' = t /\ t \in Fetches
    BY <1>2 DEF Responds
  <2>3. job'[t].answer \in Response
    BY <1>2 DEF Responds
  <2> QED
    BY <1>0, <2>1, <2>2, <2>3 DEF OutInv, OwnResponse
<1>3. ASSUME NEW t \in Tasks, Consumes(t) PROVE OutInv'
  BY <1>0, <1>3, TasksAssumption DEF Consumes, Others, OutInv, OwnResponse
<1>4. ASSUME NEW t \in Tasks, EndsFetch(t) PROVE OutInv'
  <2>1. /\ t \in Fetches /\ UNCHANGED lastResponse /\ job'[t].pc = "done"
        /\ \A u \in Tasks \ {t} : job'[u] = job[u]
    BY <1>4 DEF EndsFetch, Others
  <2> DEFINE r == CASE job[t].answer = "trap"  -> NoResult
                    [] job[t].answer = "error" -> [NoResult EXCEPT !.status = 500]
                    [] OTHER -> [status |-> ParseHttpResponse(job[t].answer), text |-> t,
                                 length |-> lastResponse]
  <2>2. result' = [result EXCEPT ![t] = r]
    BY <1>4 DEF EndsFetch
  <2>3. r.text # "" => r.text = t /\ r.length = t
    <3>1. CASE job[t].answer \in Response
      BY <1>4, <3>1 DEF EndsFetch, OutInv, Response
    <3>2. CASE job[t].answer \in {"error", "trap"}
      BY <3>2 DEF NoResult
    <3> QED
      BY <1>4, <3>1, <3>2 DEF EndsFetch, OutInv
  <2> HIDE DEF r
  <2>4. /\ result' = [u \in Fetches |-> result'[u]]
        /\ \A u \in Fetches : result'[u] = IF u = t THEN r ELSE result[u]
    BY <2>2 DEF OutInv
  <2>5. OwnResponse'
    BY <2>3, <2>4 DEF OutInv, OwnResponse
  <2> QED
    BY <1>0, <2>1, <2>4, <2>5 DEF OutInv
<1>5. ASSUME NEW t \in Tasks, EndsMessage(t) \/ RetriesAll(t) PROVE OutInv'
  BY <1>0, <1>5, TasksAssumption DEF EndsMessage, RetriesAll, Others, OutInv, OwnResponse
<1>6. Quietly \/ \E t \in Tasks : Outcome(t)
  BY Steps DEF LockInv, DispatchInv, ChainType
<1> QED
  BY <1>1, <1>2, <1>3, <1>4, <1>5, <1>6 DEF Outcome

\* A client gets its own response, cut at its own length (index.mjs:585-594).
THEOREM OwnResponses == Spec => []OwnResponse
<1>1. Spec => []OutInv
  BY LockHeld, OutInvInit, OutInvNext, PTL DEF Spec
<1>2. OutInv => OwnResponse
  BY DEF OutInv
<1> QED
  BY <1>1, <1>2, PTL

-----------------------------------------------------------------------------
(* Messages                                                                *)

Verdicts == {"ack", "retry"}

\* What the guest consumed is what was acknowledged, and the message whose dispatch
\* has just returned 0.
AckInv ==
    /\ plan \in Plans
    /\ settled = [t \in Batches |-> settled[t]]
    /\ \A t \in Batches :
          /\ settled[t] \in Seq(Verdicts)
          /\ hasQueue => Len(settled[t]) = job[t].at - 1
          /\ ~hasQueue => /\ job[t].pc \notin InLine
                          /\ \A i \in 1..Len(settled[t]) : settled[t][i] = "retry"
          /\ \A i : <<t, i>> \in consumed <=>
                \/ i \in 1..Len(settled[t]) /\ settled[t][i] = "ack"
                \/ i = job[t].at /\ job[t].pc = "return" /\ job[t].answer = "0"

\* The invariant of the messages holds at the start.
LEMMA AckInvInit == Init => AckInv
<1> SUFFICES ASSUME Init PROVE AckInv
  OBVIOUS
<1>1. settled = [t \in Batches |-> <<>>] /\ consumed = {} /\ plan \in Plans
  BY DEF Init
<1>2. \A t \in Batches : job[t].pc = "idle" /\ job[t].at = 1
  BY DEF Init, Tasks
<1>3. <<>> \in Seq(Verdicts) /\ Len(<<>>) = 0
  BY EmptySeq
<1> QED
  BY <1>1, <1>2, <1>3 DEF AckInv, InLine, Holding

\* Every step keeps it.
LEMMA AckInvNext == LockInv /\ AckInv /\ [Next]_vars => AckInv'
<1> SUFFICES ASSUME LockInv, AckInv, [Next]_vars PROVE AckInv'
  OBVIOUS
<1>0. Batches \subseteq Tasks /\ \A t \in Tasks : job[t].at \in Nat
  BY DEF Tasks, LockInv, JobType, Jobs
<1>1. CASE Quietly
  <2>1. UNCHANGED <<settled, consumed, hasQueue, plan>>
    BY <1>1 DEF Quietly, answerVars
  <2>2. \A t \in Batches :
           /\ job'[t].at = job[t].at
           /\ ~hasQueue /\ job'[t].pc \in InLine => job[t].pc \in InLine
           /\ job'[t].pc = "return" /\ job'[t].answer = "0" <=>
                 job[t].pc = "return" /\ job[t].answer = "0"
    BY <1>0, <1>1 DEF Quietly
  <2> QED
    BY <2>1, <2>2 DEF AckInv
<1>2. ASSUME NEW t \in Tasks, Responds(t) \/ EndsFetch(t) PROVE AckInv'
  <2>1. \A u \in Batches : job'[u] = job[u]
    BY <1>0, <1>2, TasksAssumption DEF Responds, EndsFetch, Others
  <2>2. UNCHANGED <<settled, consumed, hasQueue, plan>>
    BY <1>2 DEF Responds, EndsFetch
  <2> QED
    BY <2>1, <2>2 DEF AckInv
<1>3. ASSUME NEW t \in Tasks, Consumes(t) PROVE AckInv'
  <2>1. /\ t \in Batches /\ job[t].pc = "guest" /\ job'[t].pc = "return"
        /\ job'[t].answer = "0" /\ job'[t].at = job[t].at
        /\ consumed' = consumed \cup {<<t, job[t].at>>}
        /\ UNCHANGED <<settled, hasQueue, plan>>
        /\ \A u \in Batches \ {t} : job'[u] = job[u]
    BY <1>0, <1>3 DEF Consumes, Others
  <2>2. \A i : <<t, i>> \in consumed' <=>
            \/ i \in 1..Len(settled[t]) /\ settled[t][i] = "ack"
            \/ i = job[t].at
    BY <2>1 DEF AckInv
  <2>3. hasQueue
    BY <2>1 DEF AckInv, InLine, Holding
  <2> QED
    BY <2>1, <2>2, <2>3 DEF AckInv
<1>4. ASSUME NEW t \in Tasks, EndsMessage(t) PROVE AckInv'
  <2> DEFINE v == IF job[t].answer = "0" THEN "ack" ELSE "retry"
             s == Append(settled[t], v)
  <2>1. /\ t \in Batches /\ job[t].pc = "return" /\ job'[t].pc \in {"done", "ready"}
        /\ job'[t].at = job[t].at + 1
        /\ UNCHANGED <<consumed, hasQueue, plan>>
        /\ \A u \in Batches \ {t} : job'[u] = job[u]
    BY <1>0, <1>4 DEF EndsMessage, Others
  <2>2. settled' = [settled EXCEPT ![t] = s]
    BY <1>4 DEF EndsMessage
  <2>3. settled[t] \in Seq(Verdicts) /\ v \in Verdicts
    BY <2>1 DEF AckInv, Verdicts
  <2>4. hasQueue /\ Len(settled[t]) = job[t].at - 1 /\ job[t].at \in Nat
    BY <1>0, <2>1 DEF AckInv, InLine, Holding
  <2>5. v = "ack" <=> job[t].answer = "0"
    OBVIOUS
  <2> HIDE DEF v
  <2>6. /\ s \in Seq(Verdicts) /\ Len(s) = Len(settled[t]) + 1
        /\ \A i \in 1..Len(settled[t]) : s[i] = settled[t][i]
        /\ s[Len(settled[t]) + 1] = v
    BY <2>3, AppendProperties
  <2> HIDE DEF s
  <2>7. \A i : <<t, i>> \in consumed <=> i \in 1..Len(s) /\ s[i] = "ack"
    <3>1. \A i : <<t, i>> \in consumed <=>
             \/ i \in 1..Len(settled[t]) /\ settled[t][i] = "ack"
             \/ i = job[t].at /\ v = "ack"
      BY <2>1, <2>5 DEF AckInv
    <3>2. Len(s) = job[t].at /\ s[job[t].at] = v
      BY <2>4, <2>6
    <3>3. \A i : i \in 1..Len(s) <=> i \in 1..Len(settled[t]) \/ i = job[t].at
      BY <2>4, <3>2
    <3>4. job[t].at \notin 1..Len(settled[t])
      BY <2>4
    <3> QED
      BY <2>6, <3>1, <3>2, <3>3, <3>4
  <2>8. /\ settled' = [u \in Batches |-> settled'[u]]
        /\ \A u \in Batches : settled'[u] = IF u = t THEN s ELSE settled[u]
    BY <2>1, <2>2 DEF AckInv
  <2>9. Len(settled'[t]) = job'[t].at - 1
    BY <2>1, <2>4, <2>6, <2>8
  <2>10. /\ settled'[t] = s
         /\ \A u \in Batches \ {t} : settled'[u] = settled[u]
    BY <2>1, <2>8
  <2>11. \A u \in Batches \ {t} :
            /\ settled'[u] \in Seq(Verdicts)
            /\ Len(settled'[u]) = job'[u].at - 1
            /\ \A i : <<u, i>> \in consumed' <=>
                  \/ i \in 1..Len(settled'[u]) /\ settled'[u][i] = "ack"
                  \/ i = job'[u].at /\ job'[u].pc = "return" /\ job'[u].answer = "0"
    BY <2>1, <2>4, <2>10 DEF AckInv
  <2>12. \A i : <<t, i>> \in consumed' <=>
                  \/ i \in 1..Len(settled'[t]) /\ settled'[t][i] = "ack"
                  \/ i = job'[t].at /\ job'[t].pc = "return" /\ job'[t].answer = "0"
    BY <2>1, <2>7, <2>10
  <2>13. settled'[t] \in Seq(Verdicts) /\ hasQueue' /\ plan' \in Plans
    BY <2>1, <2>4, <2>6, <2>10 DEF AckInv
  <2> QED
    BY <2>8, <2>9, <2>11, <2>12, <2>13 DEF AckInv
<1>5. ASSUME NEW t \in Tasks, RetriesAll(t) PROVE AckInv'
  <2> DEFINE s == [i \in 1..plan[t].dispatches |-> "retry"]
  <2>1. /\ t \in Batches /\ ~hasQueue /\ job[t].pc = "ready" /\ job'[t].pc = "done"
        /\ job'[t].at = job[t].at
        /\ UNCHANGED <<consumed, hasQueue, plan>>
        /\ settled' = [settled EXCEPT ![t] = s]
        /\ \A u \in Batches \ {t} : job'[u] = job[u]
    BY <1>0, <1>5 DEF RetriesAll, Others
  <2>2. plan[t].dispatches \in Nat
    BY <1>0, <2>1, HostAssumption DEF AckInv
  <2>3. s \in [1..plan[t].dispatches -> Verdicts]
    BY DEF Verdicts
  <2>4. s \in Seq(Verdicts)
    BY <2>2, <2>3, SeqDef
  <2>5. \A i \in 1..Len(s) : s[i] = "retry"
    BY <2>4, LenProperties
  <2>6. \A i : <<t, i>> \notin consumed
    BY <2>1 DEF AckInv
  <2> HIDE DEF s
  <2>7. /\ settled' = [u \in Batches |-> settled'[u]]
        /\ \A u \in Batches : settled'[u] = IF u = t THEN s ELSE settled[u]
    BY <2>1 DEF AckInv
  <2> QED
    BY <2>1, <2>4, <2>5, <2>6, <2>7 DEF AckInv, InLine, Holding
<1>6. Quietly \/ \E t \in Tasks : Outcome(t)
  BY Steps DEF LockInv, DispatchInv, ChainType
<1> QED
  BY <1>1, <1>2, <1>3, <1>4, <1>5, <1>6 DEF Outcome

\* A message is acknowledged if and only if the guest consumed it (index.mjs:528-539).
THEOREM Acknowledged == Spec => []AckIffConsumed
<1>1. Spec => []AckInv
  BY LockHeld, AckInvInit, AckInvNext, PTL DEF Spec
<1>2. AckInv => AckIffConsumed
  <2> SUFFICES ASSUME AckInv, NEW t \in Batches, NEW i \in DOMAIN settled[t]
               PROVE  settled[t][i] = "ack" <=> <<t, i>> \in consumed
    BY DEF AckIffConsumed
  <2>1. i \in 1..Len(settled[t]) /\ Len(settled[t]) \in Nat
    BY LenProperties DEF AckInv
  <2>2. job[t].pc = "return" => hasQueue
    BY DEF AckInv, InLine, Holding
  <2>3. job[t].pc = "return" => i # job[t].at
    BY <2>1, <2>2 DEF AckInv
  <2> QED
    BY <2>1, <2>3 DEF AckInv
<1> QED
  BY <1>1, <1>2, PTL

-----------------------------------------------------------------------------
(* Types, and the one instantiation                                        *)

\* A message is dispatched while there is one: only a batch that is done has
\* gone past its last.
Shape ==
    /\ jspi \in BOOLEAN /\ hasQueue \in BOOLEAN
    /\ instance \in BOOLEAN /\ registered \in BOOLEAN
    /\ starting \in 0..1 /\ (instance => starting = 0)
    /\ plan \in Plans
    /\ \A t \in Tasks :
          /\ job[t].link \in 0..Len(links)
          /\ job[t].at \in 1..(plan[t].dispatches + 1)
          /\ job[t].pc # "done" => job[t].at <= plan[t].dispatches
    /\ heap \subseteq Tasks \X {"request", "response"}
    /\ consumed \subseteq Batches \X Nat
    /\ faults \in 0..MaxFaults

LEMMA Dispatches ==
  ASSUME Shape, LockInv, NEW t \in Tasks
  PROVE  /\ plan[t].dispatches \in Nat \ {0} /\ job[t].at \in Nat /\ Len(links) \in Nat
         /\ MaxFaults \in Nat
<1>1. plan \in [Tasks -> [uses : SUBSET Imports, calls : Nat, dispatches : Nat \ {0}]]
  BY HostAssumption DEF Shape
<1>2. job[t].at \in Nat
  BY DEF LockInv, JobType, Jobs
<1>3. Len(links) \in Nat
  BY LenProperties DEF LockInv, DispatchInv, ChainType
<1> QED
  BY <1>1, <1>2, <1>3, HostAssumption

LEMMA ShapeInit == Init => Shape
<1> SUFFICES ASSUME Init PROVE Shape
  OBVIOUS
<1>1. /\ plan \in Plans /\ jspi \in BOOLEAN /\ hasQueue \in BOOLEAN
      /\ instance = FALSE /\ registered = FALSE
  BY DEF Init
<1>2. starting = 0 /\ heap = {} /\ consumed = {} /\ faults = 0
  BY DEF Init
<1>3. \A t \in Tasks : job[t].link = 0 /\ job[t].at = 1
  BY DEF Init
<1>4. Len(links) \in Nat
  BY LockInvInit, LenProperties DEF LockInv, DispatchInv, ChainType
<1>5. \A t \in Tasks : plan[t].dispatches \in Nat \ {0}
  BY <1>1, HostAssumption
<1>6. \A t \in Tasks : /\ job[t].link \in 0..Len(links)
                       /\ job[t].at \in 1..(plan[t].dispatches + 1)
                       /\ job[t].at <= plan[t].dispatches
  BY <1>3, <1>4, <1>5
<1>7. faults \in 0..MaxFaults /\ starting \in 0..1
  BY <1>2, HostAssumption
<1> QED
  BY <1>1, <1>2, <1>6, <1>7 DEF Shape

\* What a task does leaves the module as it is, writes no buffer of another
\* task, and counts at most one fault.
LEMMA TaskFrame ==
  ASSUME NEW t \in Tasks, TaskNext(t)
  PROVE  /\ UNCHANGED moduleVars
         /\ heap' \subseteq heap \cup ({t} \X {"request", "response"})
         /\ faults' = faults \/ (faults < MaxFaults /\ faults' = faults + 1)
<1>1. CASE RetryAll(t) \/ Enqueue(t) \/ Begin(t) \/ ReadBody(t) \/ BodyAborts(t)
  BY <1>1 DEF RetryAll, Enqueue, Begin, ReadBody, BodyAborts, Fault, outVars
<1>2. CASE SyncD1(t) \/ Continue(t) \/ Cleanup(t) \/ UploadFails(t)
  BY <1>2 DEF SyncD1, Continue, Cleanup, UploadFails, Fault, outVars, hostVars
<1>3. CASE Suspend(t) \/ Settle(t) \/ SettleError(t) \/ Resume(t)
  BY <1>3 DEF Suspend, Settle, SettleError, Resume, Fault, outVars
<1>4. CASE Respond(t) \/ Consume(t) \/ ReturnError(t) \/ Trap(t)
  <2>1. CASE Respond(t)
    BY <2>1 DEF Respond, Fault, NoFault
  <2>2. CASE Consume(t)
    BY <2>2 DEF Consume
  <2>3. CASE ReturnError(t)
    BY <2>3 DEF ReturnError, Fault, NoFault, outVars
  <2>4. CASE Trap(t)
    BY <2>4 DEF Trap, Fault, outVars
  <2> QED
    BY <1>4, <2>1, <2>2, <2>3, <2>4
<1>5. CASE FinishFetch(t) \/ FinishMessage(t)
  BY <1>5 DEF FinishFetch, FinishMessage
<1> QED
  BY <1>1, <1>2, <1>3, <1>4, <1>5 DEF TaskNext

\* The module: one task starts it, the others wait or find it started.
LEMMA ModuleStep ==
  ASSUME Shape, LockInv, [Next]_vars
  PROVE  /\ jspi' \in BOOLEAN /\ hasQueue' \in BOOLEAN
         /\ instance' \in BOOLEAN /\ registered' \in BOOLEAN
         /\ starting' \in 0..1 /\ (instance' => starting' = 0)
         /\ plan' = plan
         /\ heap' \subseteq Tasks \X {"request", "response"}
         /\ faults' \in 0..MaxFaults
<1> USE DEF Shape
<1>f. \A n : n = faults \/ (faults < MaxFaults /\ n = faults + 1) => n \in 0..MaxFaults
  BY HostAssumption
<1>1. CASE Start
  <2> PICK outcome : Instantiated(outcome)
    BY <1>1 DEF Start
  <2>1. /\ starting > 0 /\ starting' = starting - 1
        /\ instance' = (outcome # "fails") /\ registered' = (outcome = "ok")
        /\ UNCHANGED <<plan, jspi, hasQueue, heap>>
    BY DEF Instantiated
  <2>2. faults' = faults \/ (faults < MaxFaults /\ faults' = faults + 1)
    BY DEF Instantiated, Fault, NoFault
  <2>3. starting' = 0
    BY <2>1
  <2>4. instance' \in BOOLEAN /\ registered' \in BOOLEAN
    BY <2>1
  <2>5. jspi' \in BOOLEAN /\ hasQueue' \in BOOLEAN
    BY <2>1
  <2> QED
    BY <2>1, <2>2, <2>3, <2>4, <2>5, <1>f
<1>2. ASSUME NEW t \in Tasks, Arrive(t)
      PROVE  /\ UNCHANGED <<plan, jspi, hasQueue, instance, registered, heap, faults>>
             /\ starting' \in 0..1 /\ (instance => starting' = 0)
  <2>1. UNCHANGED <<plan, jspi, hasQueue, instance, registered, heap, faults>>
    BY <1>2 DEF Arrive
  <2>2. starting' = IF instance \/ starting > 0 THEN starting ELSE 1
    BY <1>2 DEF Arrive
  <2> QED
    BY <2>1, <2>2
<1>3. ASSUME NEW t \in Tasks, TaskNext(t)
      PROVE  /\ UNCHANGED moduleVars
             /\ heap' \subseteq Tasks \X {"request", "response"}
             /\ faults' \in 0..MaxFaults
  BY <1>3, <1>f, TaskFrame
<1>4. CASE Ended \/ UNCHANGED vars
  BY <1>4 DEF Ended, vars, hostVars, moduleVars
<1>5. ASSUME NEW t \in Tasks, Arrive(t) \/ TaskNext(t)
      PROVE  /\ jspi' \in BOOLEAN /\ hasQueue' \in BOOLEAN
             /\ instance' \in BOOLEAN /\ registered' \in BOOLEAN
             /\ starting' \in 0..1 /\ (instance' => starting' = 0)
             /\ plan' = plan
             /\ heap' \subseteq Tasks \X {"request", "response"}
             /\ faults' \in 0..MaxFaults
  BY <1>2, <1>3, <1>5 DEF moduleVars
<1> QED
  BY <1>1, <1>4, <1>5 DEF Next

\* Links are never taken away, and a task's is one of them.
LEMMA LinkStep ==
  ASSUME Shape, LockInv, [Next]_vars, NEW t \in Tasks
  PROVE  job'[t].link \in 0..Len(links')
<1>1. Len(links) \in Nat /\ job[t].link \in 0..Len(links)
  BY Dispatches DEF Shape
<1>2. CASE Stays
  BY <1>1, <1>2 DEF Stays, dispatchVars
<1>3. ASSUME NEW u \in Tasks, Queues(u) PROVE job'[t].link \in 0..Len(links')
  <2>1. Len(links') = Len(links) + 1
    BY <1>3, AppendProperties DEF Queues, Link, LockInv, DispatchInv, ChainType, Links, States
  <2>2. job'[t].link = job[t].link \/ job'[t].link = Len(links) + 1
    BY <1>3 DEF Queues, Others
  <2> QED
    BY <1>1, <2>1, <2>2
<1>4. ASSUME NEW u \in Tasks, Enters(u) \/ Leaves(u) PROVE job'[t].link \in 0..Len(links')
  <2>1. Len(links') = Len(links)
    <3>1. links \in Seq(Links) /\ job[u].link \in 1..Len(links)
      BY <1>4 DEF Enters, Leaves, LockInv, DispatchInv, ChainType, Lined, InLine, Pc
    <3>2. DOMAIN links' = DOMAIN links /\ links' \in Seq(Links)
      BY <1>4, LockInvNext DEF Enters, Leaves, Admit, Release, LockInv, DispatchInv, ChainType
    <3> QED
      BY <3>1, <3>2, LenProperties
  <2>2. job'[t].link = job[t].link
    BY <1>4 DEF Enters, Leaves, Others
  <2> QED
    BY <1>1, <2>1, <2>2
<1>5. Stays \/ \E u \in Tasks : Queues(u) \/ Enters(u) \/ Leaves(u)
  BY Steps DEF LockInv, DispatchInv, ChainType
<1> QED
  BY <1>2, <1>3, <1>4, <1>5

\* A batch goes on to the next message if there is one.
LEMMA MessageStep ==
  ASSUME Shape, LockInv, [Next]_vars, plan' = plan, NEW t \in Tasks
  PROVE  /\ job'[t].at \in 1..(plan'[t].dispatches + 1)
         /\ job'[t].pc # "done" => job'[t].at <= plan'[t].dispatches
         /\ consumed' \subseteq Batches \X Nat
<1>1. /\ plan[t].dispatches \in Nat \ {0} /\ job[t].at \in Nat
      /\ job[t].at \in 1..(plan[t].dispatches + 1)
      /\ job[t].pc # "done" => job[t].at <= plan[t].dispatches
  BY Dispatches DEF Shape
<1>2. consumed \subseteq Batches \X Nat
  BY DEF Shape
<1>3. CASE Quietly
  BY <1>1, <1>2, <1>3 DEF Quietly, answerVars
<1>4. ASSUME NEW u \in Tasks, Outcome(u), u # t
      PROVE  job'[t] = job[t]
  BY <1>4 DEF Outcome, Responds, Consumes, EndsFetch, EndsMessage, RetriesAll, Others
<1>5. ASSUME NEW u \in Tasks, Outcome(u)
      PROVE  consumed' \subseteq Batches \X Nat
  <2>1. job[u].at \in Nat
    BY Dispatches
  <2> QED
    BY <1>2, <1>5, <2>1 DEF Outcome, Responds, Consumes, EndsFetch, EndsMessage, RetriesAll
<1>6. ASSUME Outcome(t)
      PROVE  /\ job'[t].at \in 1..(plan[t].dispatches + 1)
             /\ job'[t].pc # "done" => job'[t].at <= plan[t].dispatches
  <2>1. CASE Responds(t) \/ Consumes(t) \/ EndsFetch(t) \/ RetriesAll(t)
    <3>1. job'[t].at = job[t].at /\ job[t].pc # "done"
      BY <2>1 DEF Responds, Consumes, EndsFetch, RetriesAll
    <3> QED
      BY <1>1, <3>1
  <2>2. CASE EndsMessage(t)
    <3>1. job'[t].at = job[t].at + 1 /\ job[t].at <= plan[t].dispatches
      BY <1>1, <2>2 DEF EndsMessage
    <3>2. job'[t].pc # "done" => job[t].at # plan[t].dispatches
      BY <2>2 DEF EndsMessage
    <3> QED
      BY <1>1, <3>1, <3>2
  <2> QED
    BY <1>6, <2>1, <2>2 DEF Outcome
<1>7. Quietly \/ \E u \in Tasks : Outcome(u)
  BY Steps DEF LockInv, DispatchInv, ChainType
<1> QED
  BY <1>1, <1>3, <1>4, <1>5, <1>6, <1>7

LEMMA ShapeNext == LockInv /\ Shape /\ [Next]_vars => Shape'
<1> SUFFICES ASSUME LockInv, Shape, [Next]_vars PROVE Shape'
  OBVIOUS
<1>1. consumed' \subseteq Batches \X Nat
  <2>1. CASE Tasks = {}
    <3>1. Quietly \/ \E u \in Tasks : Outcome(u)
      BY Steps DEF LockInv, DispatchInv, ChainType
    <3> QED
      BY <2>1, <3>1 DEF Quietly, answerVars, Shape
  <2>2. CASE Tasks # {}
    BY <2>2, ModuleStep, MessageStep
  <2> QED
    BY <2>1, <2>2
<1> QED
  BY <1>1, ModuleStep, LinkStep, MessageStep DEF Shape

\* The state keeps its types, and the module is instantiated at most once at a
\* time, however many cold requests and batches arrive together
\* (index.mjs:55-57).
THEOREM HostTypes == Spec => []TypeOK
<1>1. Spec => []Shape
  BY LockHeld, ShapeInit, ShapeNext, PTL DEF Spec
<1>2. LockInv /\ Shape => TypeOK
  <2> SUFFICES ASSUME LockInv, Shape PROVE TypeOK
    OBVIOUS
  <2>1. \A t \in Tasks :
           /\ Pc(t) \in {"idle", "instance", "ready", "line", "body", "guest", "call",
                         "resume", "return", "done"}
           /\ job[t].ops \in Nat
    BY Words DEF LockInv, JobType, Jobs, Pc
  <2> QED
    BY <2>1 DEF Shape, TypeOK
<1> QED
  BY <1>1, <1>2, LockHeld, PTL
=============================================================================
