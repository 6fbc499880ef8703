--------------------------- MODULE HttpConnection ---------------------------
(***************************************************************************)
(* One connection of the threaded HTTP server: handleConnection of         *)
(* src/src/serve.zig, with the request framing of http/parser.zig and the  *)
(* response writers of http/response.zig, chunked.zig, fixed_length.zig.   *)
(*                                                                         *)
(* Bytes are counted, not spelled.  A request is the length of its head,   *)
(* terminator included, the sizes of its body chunks (one for a            *)
(* Content-Length body), how its body is framed, and what its head asks of *)
(* the connection.  Chunk framing costs one unit a chunk.  The socket      *)
(* writer's own buffer is left out: every path flushes it.                 *)
(***************************************************************************)
EXTENDS Integers, Sequences, SequencesExt, FiniteSetsExt

CONSTANTS
    Scripts,          \* what a peer may send: sequences of requests
    HeadCap,          \* max_request_bytes + 4
    MaxBody,          \* max_body_bytes
    InitialCapacity,  \* size recv_buf is asked to start with
    Slack,            \* bound: what ensureTotalCapacity gives beyond the size asked
    ReaderAhead,      \* size of the socket reader's own buffer, sock_reader_buf
    HeaderTimeout, BodyTimeout, IdleTimeout, TotalTimeout,
    MaxPerConnection, \* max_requests_per_connection
    StreamBuffer,     \* size of the buffer in front of a streaming writer
    MaxStream         \* bound: bytes a streaming handler writes

Refusals == {"400", "413", "431", "501"}
\* fault: why its head is refused; spoilt: the first chunk, the last one of size
\* zero included, before whose data the framing is malformed, or 0.
Requests ==
    {r \in [head : Nat \ {0}, framing : {"none", "length", "chunked"},
            chunks : Seq(Nat \ {0}), keep : BOOLEAN,
            fault : Refusals \cup {"none"}, spoilt : Nat] :
        r.spoilt <= Len(r.chunks) + 1}

ASSUME LimitsAssumption ==
    /\ Scripts \subseteq Seq(Requests)
    /\ HeadCap \in Nat \ {0} /\ MaxBody \in Nat
    /\ InitialCapacity \in 1..HeadCap /\ Slack \in Nat /\ ReaderAhead \in Nat
    /\ {HeaderTimeout, BodyTimeout, IdleTimeout, TotalTimeout} \subseteq Nat \ {0}
    /\ MaxPerConnection \in Nat \ {0} /\ StreamBuffer \in Nat /\ MaxStream \in Nat

VARIABLES
    script,     \* the requests the peer sends
    sent,       \* bytes it has sent
    gone,       \* it has closed its end
    ahead,      \* bytes in the socket reader's buffer
    received,   \* bytes put into recv_buf, since the connection began
    capacity,   \* recv_buf.capacity
    consumed,   \* where the current request starts: bytes of earlier requests
    pc,
    firstRead,  \* first_header_read
    count,      \* request_count
    elapsed,    \* time since request_start
    stream,     \* the response being streamed
    replies,    \* what was answered so far (history)
    why         \* why the connection ended (history)

netVars  == <<script, sent, gone>>
bufVars  == <<ahead, received, capacity>>
reqVars  == <<consumed, firstRead, count, elapsed>>
doneVars == <<stream, replies, why>>
vars == <<netVars, bufVars, reqVars, pc, doneVars>>

Reading == {"readHead", "readBody"}
Over    == {"closed", "upgraded"}
Steps   == {"head", "parse", "dispatch", "stream", "blocked"} \cup Reading \cup Over
Forms   == {"buffered", "chunked", "fixed"}
NoStream == [fixed |-> FALSE, promised |-> 0, buffered |-> 0, sent |-> 0, done |-> FALSE]

-----------------------------------------------------------------------------
(***************************************************************************)
(* parseRequest and decodeChunked.                                         *)
(***************************************************************************)
Sums(sizes) ==   \* of the first sizes, none to all
    LET sum[i \in 0..Len(sizes)] == IF i = 0 THEN 0 ELSE sum[i - 1] + sizes[i] IN sum
Total(sizes) == Sums(sizes)[Len(sizes)]
Body(r) == Total(r.chunks)
\* The wire length of a request: head, then its body as framed.
Wire(r) == r.head + Body(r) + (IF r.framing = "chunked" THEN Len(r.chunks) + 1 ELSE 0)
Start(k) == Sums([i \in DOMAIN script |-> Wire(script[i])])[k - 1]
End(k) == Start(k) + Wire(script[k])

\* The chunks that are whole once avail bytes of the request are there.
Whole(r, avail) ==
    Max({j \in 0..Len(r.chunks) : j = 0 \/ r.head + Sums(r.chunks)[j] + j <= avail})

\* (Faulty variant: the head limit applied to all that is in the buffer.)
ParseWholeBuffer(r, avail) ==
    IF avail > HeadCap + 1 THEN "431"
    ELSE IF r.fault # "none" THEN r.fault
    ELSE IF r.framing # "none" /\ Body(r) > MaxBody THEN "413"
    ELSE IF avail < Wire(r) THEN "incomplete" ELSE "ok"

\* decodeChunked meets malformed framing, all chunks before it being in order.
Spoilt(r) == r.framing = "chunked" /\ r.spoilt # 0
SpoiltSeen(r, avail) ==
    /\ Spoilt(r) /\ Sums(r.chunks)[r.spoilt - 1] <= MaxBody
    /\ avail >= r.head + Sums(r.chunks)[r.spoilt - 1] + r.spoilt

\* What the bytes at the start of recv_buf amount to: the first offence met. A
\* Content-Length beyond the limit is refused from the head alone, a chunk once it
\* is whole.
Parse(r, avail) ==
    IF r.head > HeadCap THEN "431"
    ELSE IF r.fault # "none" THEN r.fault
    ELSE IF r.framing = "length" /\ Body(r) > MaxBody THEN "413"
    ELSE IF SpoiltSeen(r, avail) THEN "400"
    ELSE IF r.framing = "chunked" /\ Sums(r.chunks)[Whole(r, avail)] > MaxBody THEN "413"
    ELSE IF avail < Wire(r) THEN "incomplete" ELSE "ok"

\* The request at the front of recv_buf: 0 when the peer has no more to send.
Current == IF \E k \in DOMAIN script : Start(k) >= consumed
           THEN Min({k \in DOMAIN script : Start(k) >= consumed}) ELSE 0
Pending == received - consumed
\* (Faulty variant: the search stops one byte early.)
HeadersEndLate == Current # 0 /\ Pending > script[Current].head
HeadersEnd == Current # 0 /\ Pending >= script[Current].head

\* ArrayList.ensureTotalCapacity
AtLeast(size) == size..(size + Slack)

TypeOK ==
    /\ script \in Scripts /\ sent \in Nat /\ gone \in BOOLEAN
    /\ ahead \in 0..ReaderAhead /\ received \in Nat /\ received + ahead <= sent
    /\ capacity \in Nat /\ consumed \in 0..received
    /\ pc \in Steps /\ firstRead \in BOOLEAN
    /\ count \in 0..MaxPerConnection /\ elapsed \in 0..TotalTimeout
    /\ stream \in [fixed : BOOLEAN, promised : Nat, buffered : 0..StreamBuffer,
                   sent : Nat, done : BOOLEAN]
    /\ \A i \in DOMAIN replies :
          replies[i] \in [to : Nat, form : Forms \cup Refusals, keep : BOOLEAN]
    /\ why \in {"", "limit", "timeout", "peer", "answered", "handed over", "failed"}

Init ==
    /\ script \in Scripts /\ sent = 0 /\ gone = FALSE
    /\ ahead = 0 /\ received = 0 /\ capacity \in AtLeast(InitialCapacity)
    /\ consumed = 0 /\ firstRead = TRUE /\ count = 0 /\ elapsed = 0
    /\ pc = "head" /\ stream = NoStream /\ replies = <<>> /\ why = ""

-----------------------------------------------------------------------------
(***************************************************************************)
(* The peer: sends any number of further bytes, closes at any time.        *)
(***************************************************************************)
Send ==
    /\ ~gone /\ sent < Start(Len(script) + 1)
    /\ sent' \in (sent + 1)..Start(Len(script) + 1)
    /\ UNCHANGED <<script, gone, bufVars, reqVars, pc, doneVars>>

Hangup ==
    /\ ~gone /\ pc \notin Over
    /\ gone' = TRUE
    /\ UNCHANGED <<script, sent, bufVars, reqVars, pc, doneVars>>

\* Time passes while the server reads; it is not measured elsewhere.
Tick ==
    /\ pc \in Reading \cup {"head", "parse"} /\ elapsed < TotalTimeout
    /\ elapsed' = elapsed + 1
    /\ UNCHANGED <<netVars, bufVars, consumed, firstRead, count, pc, doneVars>>

Close(reason) == pc' = "closed" /\ why' = reason

\* A write hangs when the peer has ceased to read and the socket's buffers are
\* full: only reads are timed. (A pause that ends is just a slow write.)
WriteBlocks ==
    /\ pc' = "blocked"
    /\ UNCHANGED <<netVars, bufVars, reqVars, doneVars>>

\* The peer resets the connection, and the write fails.
BlockedWriteFails ==
    /\ pc = "blocked" /\ gone /\ Close("peer")
    /\ UNCHANGED <<netVars, bufVars, reqVars, stream, replies>>

\* writeProtocolError. Once the peer has closed, any write may fail; it may also
\* succeed, when only one direction was closed or the reset has not come yet.
Refuse(status) ==
    \/ /\ Close("limit")
       /\ \/ replies' = Append(replies, [to |-> Current, form |-> status, keep |-> FALSE])
          \/ gone /\ UNCHANGED replies
       /\ UNCHANGED <<netVars, bufVars, reqVars, stream>>
    \/ WriteBlocks

(***************************************************************************)
(* timedRead.  boundedTimeout measures both limits from request_start, so  *)
(* a wait always ends by the smaller of the two.                           *)
(***************************************************************************)
\* (Faulty variant: the poll waits without a limit.)
DeadlineNever(phase) == TotalTimeout + phase
Deadline(phase) == Min({phase, TotalTimeout})
HeadPhase == IF firstRead /\ count > 0 THEN IdleTimeout ELSE HeaderTimeout
PhaseOf(step) == IF step \in {"head", "readHead"} THEN HeadPhase ELSE BodyTimeout

\* (Faulty variant: doubled without regard to the maximum.)
GrownUncapped(maximum) == 2 * capacity
\* ensureReadCapacity: the size it asks for, and what it makes of the buffer.
Grown(maximum) == Min({maximum, Max({Pending + 1, 2 * capacity})})
EnsureReadCapacity(maximum) ==
    IF capacity > Pending THEN UNCHANGED capacity ELSE capacity' \in AtLeast(Grown(maximum))

\* Compute the timeout and poll; a timeout of zero does not poll at all.
StartRead(step, maximum) ==
    /\ EnsureReadCapacity(maximum)
    /\ IF elapsed >= Deadline(PhaseOf(pc))
       THEN Close("timeout")
       ELSE pc' = step /\ UNCHANGED why
    /\ UNCHANGED <<netVars, ahead, received, reqVars, stream, replies>>

Kernel == sent - received - ahead
Resume == IF pc = "readHead" THEN "head" ELSE "parse"

\* poll(2) reported the socket readable. readVec first hands over what the
\* reader holds; if there is room left, one read(2) fills recv_buf and spills
\* into the reader's buffer.
Read ==
    /\ pc \in Reading /\ Kernel > 0
    /\ LET room  == capacity - Pending
           taken == IF room > ahead
                    THEN ahead + Min({Kernel, room - ahead + ReaderAhead})
                    ELSE ahead
       IN /\ received' = received + Min({room, taken})
          /\ ahead' = taken - Min({room, taken})
    /\ pc' = Resume /\ firstRead' = FALSE
    /\ UNCHANGED <<netVars, capacity, consumed, count, elapsed, doneVars>>

\* End of the stream: what the reader still holds is handed over first.
ReadEnd ==
    /\ pc \in Reading /\ gone /\ Kernel = 0
    /\ LET n == Min({capacity - Pending, ahead})
       IN /\ received' = received + n
          /\ ahead' = ahead - n
          /\ IF n > 0 THEN pc' = Resume /\ UNCHANGED why
                      ELSE Close("peer")
    /\ firstRead' = FALSE
    /\ UNCHANGED <<netVars, capacity, consumed, count, elapsed, stream, replies>>

TimeOut ==
    /\ pc \in Reading /\ elapsed >= Deadline(PhaseOf(pc))
    /\ Close("timeout")
    /\ UNCHANGED <<netVars, bufVars, reqVars, stream, replies>>

-----------------------------------------------------------------------------
(***************************************************************************)
(* The two read loops.                                                     *)
(***************************************************************************)
MaxBuffer == HeadCap + MaxBody

HeadLoop ==
    /\ pc = "head"
    /\ IF HeadersEnd
       THEN /\ pc' = "parse"
            /\ UNCHANGED <<netVars, bufVars, reqVars, doneVars>>
       ELSE IF Pending >= HeadCap THEN Refuse("431")
       ELSE StartRead("readHead", HeadCap)

ParseLoop ==
    /\ pc = "parse"
    /\ LET verdict == Parse(script[Current], Pending)
       IN CASE verdict = "ok" ->
                 /\ pc' = "dispatch"
                 /\ UNCHANGED <<netVars, bufVars, reqVars, doneVars>>
            [] verdict \in Refusals -> Refuse(verdict)
            [] verdict = "incomplete" /\ Pending >= MaxBuffer ->
                 /\ Close("failed")
                 /\ UNCHANGED <<netVars, bufVars, reqVars, stream, replies>>
            [] OTHER -> StartRead("readBody", MaxBuffer)

-----------------------------------------------------------------------------
(***************************************************************************)
(* Dispatch.  App.dispatchWithPeer catches what handlers raise, so what    *)
(* returns is a buffered response (an error page included), a stream, an   *)
(* upgrade, or an error of the dispatch itself (out of memory).            *)
(***************************************************************************)
Reply(form, keep) == Append(replies, [to |-> Current, form |-> form, keep |-> keep])

\* (Faulty variants: the leftover is dropped; the body is taken a unit too long.)
LeftoverDropped == received
LeftoverLong == consumed + Wire(script[Current]) + 1
\* Bytes of the next request that came with this one stay in recv_buf.
Leftover == consumed + Wire(script[Current])

NextRequest ==
    /\ consumed' = Leftover /\ firstRead' = (received = Leftover)
    /\ elapsed' = 0 /\ pc' = "head"
    /\ UNCHANGED why

Answer(keep) ==
    /\ pc = "dispatch" /\ keep \in {FALSE, script[Current].keep}
    /\ \/ WriteBlocks
       \/ gone /\ Close("peer") /\ UNCHANGED <<reqVars, replies>>
       \/ /\ replies' = Reply("buffered", keep)
          /\ count' = count + (IF keep THEN 1 ELSE 0)
          /\ IF keep /\ count + 1 < MaxPerConnection
             THEN NextRequest
             ELSE Close("answered") /\ UNCHANGED <<consumed, firstRead, elapsed>>
    /\ UNCHANGED <<netVars, bufVars, stream>>

Upgrade ==
    /\ pc = "dispatch"
    /\ pc' = "upgraded" /\ why' = "handed over"
    /\ UNCHANGED <<netVars, bufVars, reqVars, stream, replies>>

DispatchFails ==
    /\ pc = "dispatch" /\ Close("failed")
    /\ UNCHANGED <<netVars, bufVars, reqVars, stream, replies>>

(***************************************************************************)
(* Response.startStream: the head leaves at once.  A write that fails is   *)
(* an error for the handler and leaves the buffer as it was.               *)
(***************************************************************************)
StartStream(fixed, promised) ==
    /\ pc = "dispatch"
    /\ \/ WriteBlocks
       \/ gone /\ Close("peer") /\ UNCHANGED <<replies, stream>>
       \/ /\ pc' = "stream"
          /\ stream' = [NoStream EXCEPT !.fixed = fixed, !.promised = promised]
          /\ replies' = Reply(IF fixed THEN "fixed" ELSE "chunked", FALSE)
          /\ UNCHANGED why
    /\ UNCHANGED <<netVars, bufVars, reqVars>>

\* drain: hand n further bytes down, unless that is more than was promised.
Drains(n) == stream.fixed => stream.sent + n <= stream.promised
Drained(n) == [stream EXCEPT !.sent = @ + n, !.buffered = 0]

\* The stream is written to: what becomes of it, unless something is to go down and
\* that write hangs.
StreamWrite(goesDown, written) ==
    \/ goesDown /\ WriteBlocks
    \/ stream' = written /\ UNCHANGED <<netVars, bufVars, reqVars, pc, replies, why>>

\* The handler writes n bytes; they go down only when the buffer is full.
Write(n) ==
    /\ pc = "stream" /\ ~stream.done
    /\ stream.sent + stream.buffered + n <= MaxStream
    /\ IF stream.buffered + n <= StreamBuffer
       THEN StreamWrite(FALSE, [stream EXCEPT !.buffered = @ + n])
       ELSE /\ Drains(stream.buffered + n)
            /\ StreamWrite(TRUE, Drained(stream.buffered + n))

Flush ==
    /\ pc = "stream" /\ ~stream.done /\ stream.buffered > 0
    /\ Drains(stream.buffered)
    /\ StreamWrite(TRUE, Drained(stream.buffered))

\* ChunkedWriter.end: the last chunk and the zero chunk; a second call is idle.
Ended == [Drained(stream.buffered) EXCEPT !.done = TRUE]

\* Response.endStream, which a handler may call itself.
EndStream ==
    /\ pc = "stream" /\ ~stream.done /\ Drains(stream.buffered)
    /\ IF stream.fixed
       THEN StreamWrite(stream.buffered > 0, Drained(stream.buffered))
       ELSE StreamWrite(TRUE, Ended)

\* (Faulty variant: an error of the dispatch leaves the stream as it is.)
FinishStreamRaised(reason) ==
    /\ pc = "stream"
    /\ \/ /\ Close(reason)
          /\ stream' = IF stream.fixed \/ stream.done \/ reason = "failed" THEN stream ELSE Ended
       \/ gone /\ Close("peer") /\ UNCHANGED stream
    /\ UNCHANGED <<netVars, bufVars, reqVars, replies>>

\* The handler is back, with or without an error. Only a chunked stream is
\* ended; a fixed-length one meets the buffered path, whose writeTo is idle.
FinishStream(reason) ==
    /\ pc = "stream"
    /\ \/ /\ Close(reason)
          /\ stream' = IF stream.fixed \/ stream.done THEN stream ELSE Ended
       \/ gone /\ Close("peer") /\ UNCHANGED stream
       \/ ~stream.fixed /\ ~stream.done /\ WriteBlocks
    /\ UNCHANGED <<netVars, bufVars, reqVars, replies>>

-----------------------------------------------------------------------------
Handler ==
    \/ \E keep \in BOOLEAN : Answer(keep)
    \/ Upgrade \/ DispatchFails
    \/ \E promised \in 0..MaxStream : StartStream(TRUE, promised)
    \/ StartStream(FALSE, 0)
    \/ \E n \in 1..MaxStream : Write(n)
    \/ Flush \/ EndStream \/ BlockedWriteFails
    \/ \E reason \in {"answered", "failed"} : FinishStream(reason)

Server == HeadLoop \/ ParseLoop \/ Read \/ ReadEnd \/ TimeOut
Peer   == Send \/ Hangup
Next   == Peer \/ Server \/ Handler \/ Tick

Spec == Init /\ [][Next]_vars

\* The thread runs, handlers return, the clock advances; a peer owes nothing, not
\* even to read what is written, and a write that hangs may hang for ever.
Fairness ==
    /\ WF_vars(Server) /\ WF_vars(Tick)
    /\ WF_vars(pc = "dispatch" /\ Handler)
    /\ WF_vars(\E reason \in {"answered", "failed"} : FinishStream(reason))
FairSpec == Spec /\ Fairness

-----------------------------------------------------------------------------
(* Properties.                                                             *)

\* The i-th answer is to the i-th request, none is given to a request that has
\* not wholly arrived unless it refuses it, and none follows one that closes.
InOrder ==
    \A i \in DOMAIN replies :
        /\ replies[i].to = i
        /\ replies[i].form \in Forms => received >= End(i)
        /\ i < Len(replies) => replies[i].keep

\* A handler never sees a request beyond the limits or badly framed, and only
\* such a request is refused, even when its bytes come in small pieces or behind
\* another request.
Oversize(r) == r.head > HeadCap \/ (r.framing # "none" /\ Body(r) > MaxBody)
LimitsHeld ==
    \A i \in DOMAIN replies :
        (replies[i].form \in Refusals)
            <=> (Oversize(script[i]) \/ script[i].fault # "none" \/ Spoilt(script[i]))

\* Whatever the peer sends, the server never asks for a request buffer beyond the
\* head and body limits together: it has no more than that and what the allocator
\* adds to one size asked, however often it grew, and never less than it holds.
BufferBounded == capacity <= MaxBuffer + Slack /\ Pending <= capacity

\* While the peer listens, a chunked response always gets its last chunk, also
\* when the handler or the dispatch fails midway; a fixed-length one never sends
\* more than its Content-Length.
Streaming(form) == replies # <<>> /\ Last(replies).form = form
StreamsFramed ==
    /\ pc = "closed" /\ why # "peer" /\ Streaming("chunked") =>
          stream.done /\ stream.buffered = 0
    /\ Streaming("fixed") => stream.sent <= stream.promised

\* A connection is never timed out while a whole request lies in recv_buf, be it
\* the rest of an earlier read.
LeftoverServed ==
    why = "timeout" /\ Current # 0 => received < End(Current)

\* Every connection ends or is handed over, whatever is sent and however slowly,
\* unless the thread hangs in a write to a peer that has ceased to read: nothing
\* times a write. A wait for the peer's bytes never keeps it.
ConnectionEnds == <>(pc \in Over \/ pc = "blocked")

\* What http/server.zig:152-153 says of readVec, that it "returns whatever the
\* kernel had available": what has been read from the socket is never waited for.
NothingWithheld ==
    why = "timeout" /\ Current # 0 =>
        received + ahead < End(Current)

\* What response.zig:83-84 says, "the server only calls endStream": a handler that
\* wrote just what it promised and returned has its whole body sent.
FixedLengthKept ==
    pc = "closed" /\ why = "answered" /\ Streaming("fixed")
        /\ stream.sent + stream.buffered = stream.promised
        => stream.sent = stream.promised
=============================================================================
