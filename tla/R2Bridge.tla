------------------------------ MODULE R2Bridge ------------------------------
(***************************************************************************)
(* The akamata_r2 imports of src/deploy/worker/index.mjs and the guest side *)
(* that drives them, R2Store of src/src/platform/workers.zig: uploads are  *)
(* collected in a registry of the isolate and stored at the end, downloads *)
(* are read from a stream, chunk by chunk.                                 *)
(*                                                                         *)
(* There is one key.  Data is a sequence of units; a unit is <<task, i>>,  *)
(* so that no two units of a body are equal.  A body of one guest buffer   *)
(* (64 KiB) is Buffer units.                                               *)
(***************************************************************************)
EXTENDS Integers, Sequences, IsolateTasks

CONSTANTS
    Buffer,     \* units of the buffer of R2Store.put, and of the reader's
    MaxUpload   \* units of 8 MiB

ASSUME R2Assumption == Buffer \in Nat \ {0} /\ MaxUpload \in Nat

VARIABLES
    r2ops,      \* the registry: id -> entry
    nextR2Id,
    bucket,     \* the object: its version, 0 when there is none, and its data
    xfer,       \* per task: the upload or download its handler drives
    abandoned   \* for the properties only: uploads that R2Store.put gave up

r2Vars == <<r2ops, nextR2Id, bucket, xfer, abandoned>>

Any     == 0   \* no if_match, no if_none_match, no range
NoXfer  == [id |-> 0, kind |-> "none", body |-> <<>>, ended |-> FALSE]
Least(a, b) == IF a < b THEN a ELSE b

R2Init ==
    /\ r2ops = <<>> /\ nextR2Id = 1
    /\ bucket = [version |-> 0, last |-> 0, data |-> <<>>, sent |-> <<>>]
    /\ xfer = [t \in Tasks |-> NoXfer]
    /\ abandoned = {}

OpOf(t) == r2ops[xfer[t].id]
WithOp(e) == [i \in DOMAIN r2ops \cup {nextR2Id} |-> IF i = nextR2Id THEN e ELSE r2ops[i]]
WithoutOp(id) == [i \in DOMAIN r2ops \ {id} |-> r2ops[i]]

-----------------------------------------------------------------------------
(* Uploads *)

\* put_begin: an entry without chunks, and the etag the object must have.
PutBegin(t, match) ==
    /\ xfer[t].kind = "none"
    /\ r2ops' = WithOp([kind |-> "write", chunks |-> <<>>, match |-> match])
    /\ nextR2Id' = nextR2Id + 1
    /\ xfer' = [xfer EXCEPT ![t] = [NoXfer EXCEPT !.id = nextR2Id, !.kind = "put"]]
    /\ UNCHANGED <<bucket, abandoned>>

\* R2Store.put leaves by one of its errors: put_finish is not called, so the entry stays.
GiveUp(t) ==
    /\ xfer[t].kind # "none"
    /\ abandoned' = abandoned \cup {xfer[t].id}
    /\ xfer' = [xfer EXCEPT ![t] = NoXfer]
    /\ UNCHANGED <<r2ops, nextR2Id, bucket>>

\* put_write with the next n units of the body, copied out of the guest's buffer.
\* (Faulty variant: a view of the buffer is kept, which the next read overwrites.)
PutWriteView(t, n) ==
    /\ xfer[t].kind = "put"
    /\ LET sent  == xfer[t].body
           fresh == [i \in 1..n |-> <<t, Len(sent) + i>>]
           old   == OpOf(t).chunks IN
       IF Len(sent) + n > MaxUpload THEN GiveUp(t)
       ELSE /\ r2ops' = [r2ops EXCEPT ![xfer[t].id].chunks =
                            [i \in DOMAIN old |-> fresh[((i - 1) % n) + 1]] \o fresh]
            /\ xfer' = [xfer EXCEPT ![t].body = @ \o fresh]
            /\ UNCHANGED <<nextR2Id, bucket, abandoned>>
PutWrite(t, n) ==
    /\ xfer[t].kind = "put"
    /\ LET sent  == xfer[t].body
           fresh == [i \in 1..n |-> <<t, Len(sent) + i>>] IN
       IF Len(sent) + n > MaxUpload THEN GiveUp(t)
       ELSE /\ r2ops' = [r2ops EXCEPT ![xfer[t].id].chunks = @ \o fresh]
            /\ xfer' = [xfer EXCEPT ![t].body = @ \o fresh]
            /\ UNCHANGED <<nextR2Id, bucket, abandoned>>

\* put_finish: the chunks in one buffer, stored, the entry gone whatever happens.
\* A failed condition is an answer of R2, not an error: nothing is stored and the
\* guest is told 0 all the same.
PutFinish(t, ok) ==
    /\ xfer[t].kind = "put"
    /\ bucket' = IF ok /\ OpOf(t).match \in {Any, bucket.version}
                 THEN [version |-> bucket.last + 1, last |-> bucket.last + 1,
                       data |-> OpOf(t).chunks, sent |-> xfer[t].body]
                 ELSE bucket
    /\ r2ops' = WithoutOp(xfer[t].id)
    /\ xfer' = [xfer EXCEPT ![t] = NoXfer]
    /\ UNCHANGED <<nextR2Id, abandoned>>

-----------------------------------------------------------------------------
(* Downloads *)

\* get_begin: -1 without an object, -3 when a condition fails, -5 when the range is
\* outside; otherwise a reader of the version that is there now.
GetBegin(t, match, noneMatch, offset) ==
    /\ xfer[t].kind = "none"
    /\ IF \/ bucket.version = 0
          \/ noneMatch # Any /\ noneMatch = bucket.version
          \/ noneMatch = Any /\ match \notin {Any, bucket.version}
          \/ offset # Any /\ offset >= Len(bucket.data)
       THEN UNCHANGED r2Vars
       ELSE LET part == SubSeq(bucket.data, offset + 1, Len(bucket.data)) IN
            /\ r2ops' = WithOp([kind |-> "read", stream |-> part, pending |-> <<>>,
                                wanted |-> part])
            /\ nextR2Id' = nextR2Id + 1
            /\ xfer' = [xfer EXCEPT ![t] = [NoXfer EXCEPT !.id = nextR2Id, !.kind = "get"]]
            /\ UNCHANGED <<bucket, abandoned>>

\* get_read: the rest of the chunk read before, or else the stream's next chunk of
\* n units; no more than the guest's buffer holds.
Took(e, n)  == IF e.pending = <<>> THEN Least(n, Len(e.stream)) ELSE 0
Chunk(e, n) == IF e.pending = <<>> THEN SubSeq(e.stream, 1, Took(e, n)) ELSE e.pending
Given(e, n) == SubSeq(Chunk(e, n), 1, Least(Buffer, Len(Chunk(e, n))))
After(e, n) ==
    [e EXCEPT !.stream  = SubSeq(@, Took(e, n) + 1, Len(@)),
              !.pending = SubSeq(Chunk(e, n), Least(Buffer, Len(Chunk(e, n))) + 1,
                                 Len(Chunk(e, n)))]
Copied(x, given) == [x EXCEPT !.body = @ \o given, !.ended = (given = <<>>)]
GetRead(t, n) ==
    /\ xfer[t].kind = "get"
    /\ r2ops' = [r2ops EXCEPT ![xfer[t].id] = After(@, n)]
    /\ xfer' = [xfer EXCEPT ![t] = Copied(@, Given(OpOf(t), n))]
    /\ UNCHANGED <<nextR2Id, bucket, abandoned>>

\* get_close, from the object's close.
GetClose(t) ==
    /\ xfer[t].kind = "get"
    /\ r2ops' = WithoutOp(xfer[t].id)
    /\ xfer' = [xfer EXCEPT ![t] = NoXfer]
    /\ UNCHANGED <<nextR2Id, bucket, abandoned>>

\* r2_delete.
Delete(t) ==
    /\ xfer[t].kind = "none"
    /\ bucket' = [bucket EXCEPT !.version = 0, !.data = <<>>, !.sent = <<>>]
    /\ UNCHANGED <<r2ops, nextR2Id, xfer, abandoned>>

-----------------------------------------------------------------------------
\* An object is stored as its body was sent, whole and from one upload only, in
\* spite of the guest's one buffer and of other uploads in progress; and a download
\* gives the guest a prefix of the version it opened, all of it when it says it ended.
ObjectsWhole ==
    /\ bucket.data = bucket.sent
    /\ \A t \in Tasks :
          xfer[t].kind = "get" =>
              LET wanted == OpOf(t).wanted IN
              /\ xfer[t].body = SubSeq(wanted, 1, Len(xfer[t].body))
              /\ xfer[t].ended => xfer[t].body = wanted
=============================================================================
