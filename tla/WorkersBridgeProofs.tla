------------------------ MODULE WorkersBridgeProofs ------------------------
(***************************************************************************)
(* What the isolate's registries hold, for any tasks, applications, buffer *)
(* sizes and number of failures: objects and downloads are whole, a        *)
(* handler reads the answers to its own queries, and nothing is left       *)
(* behind but what a trap or an abandoned upload leaves.                   *)
(***************************************************************************)
EXTENDS WorkersHostProofs

-----------------------------------------------------------------------------
(* Cutting sequences                                                       *)

\* Concatenation, with what is used of it: the solvers need not look inside.
Cat(s, u) == s \o u

LEMMA CatType ==
  ASSUME NEW S, NEW a \in Seq(S), NEW b \in Seq(S)
  PROVE  Cat(a, b) \in Seq(S)
BY ConcatProperties DEF Cat

LEMMA CatEmpty ==
  ASSUME NEW S, NEW a \in Seq(S)
  PROVE  Cat(a, <<>>) = a /\ Cat(<<>>, a) = a
BY ConcatEmptySeq DEF Cat

LEMMA CatAssociative ==
  ASSUME NEW S, NEW a \in Seq(S), NEW b \in Seq(S), NEW c \in Seq(S)
  PROVE  Cat(Cat(a, b), c) = Cat(a, Cat(b, c))
BY ConcatAssociative DEF Cat

\* A sequence is what it was cut into.
LEMMA Split ==
  ASSUME NEW S, NEW s \in Seq(S), NEW k \in 0..Len(s)
  PROVE  /\ SubSeq(s, 1, k) \in Seq(S) /\ Len(SubSeq(s, 1, k)) = k
         /\ SubSeq(s, k + 1, Len(s)) \in Seq(S)
         /\ Cat(SubSeq(s, 1, k), SubSeq(s, k + 1, Len(s))) = s
<1>1. Len(s) \in Nat /\ \A i \in 1..Len(s) : s[i] \in S
  BY ElementOfSeq, LenProperties
<1>2. SubSeq(s, 1, k) \in Seq(S) /\ Len(SubSeq(s, 1, k)) = k
  <2>1. \A i \in 1..k : s[i] \in S
    BY <1>1
  <2>2. /\ SubSeq(s, 1, k) \in Seq(S)
        /\ Len(SubSeq(s, 1, k)) = IF 1 <= k THEN k - 1 + 1 ELSE 0
    BY <1>1, <2>1, SubSeqProperties
  <2> QED
    BY <1>1, <2>2
<1>3. SubSeq(s, k + 1, Len(s)) \in Seq(S)
  <2>1. \A i \in (k + 1)..Len(s) : s[i] \in S
    BY <1>1
  <2> QED
    BY <1>1, <2>1, SubSeqProperties
<1>4. SubSeq(s, 1, k) \o SubSeq(s, k + 1, Len(s)) = SubSeq(s, 1, Len(s))
  <2>1. 1 \in 1..(Len(s) + 1) /\ k \in (1 - 1)..Len(s) /\ Len(s) \in k..Len(s)
    BY <1>1
  <2> QED
    BY <2>1, ConcatAdjacentSubSeq
<1> QED
  BY <1>2, <1>3, <1>4, SubSeqFull DEF Cat

\* What comes first is a prefix.
LEMMA Prefix ==
  ASSUME NEW S, NEW s \in Seq(S), NEW u \in Seq(S)
  PROVE  SubSeq(Cat(s, u), 1, Len(s)) = s
<1>1. Len(s) \in Nat
  BY LenProperties
<1>2. CASE Len(s) = 0
  <2>1. s = <<>>
    BY <1>2, EmptySeq
  <2>2. SubSeq(Cat(s, u), 1, Len(s)) = <<>>
    BY <1>2, SubSeqEmpty
  <2> QED
    BY <2>1, <2>2
<1>3. CASE Len(s) # 0
  <2>1. 1 \in 1..Len(s) /\ Len(s) \in 1..Len(s)
    BY <1>1, <1>3
  <2>2. SubSeq(s \o u, 1, Len(s)) = SubSeq(s, 1, Len(s))
    BY <2>1, SubSeqOfConcat1
  <2> QED
    BY <2>2, SubSeqFull DEF Cat
<1> QED
  BY <1>2, <1>3

-----------------------------------------------------------------------------
(* R2: the registry of transfers                                           *)

Units == Tasks \X Nat
Data  == Seq(Units)

XferType   == [id : Nat, kind : {"none", "put", "get"}, body : Data, ended : BOOLEAN]
BucketType == [version : Nat, last : Nat, data : Data, sent : Data]
WriteOps   == [kind : {"write"}, chunks : Data, match : Nat]
ReadOps    == [kind : {"read"}, stream : Data, pending : Data, wanted : Data]

Transfers == {t \in Tasks : xfer[t].kind # "none"}
Ids       == {xfer[t].id : t \in Transfers}

R2Types ==
    /\ nextR2Id \in Nat \ {0} /\ bucket \in BucketType
    /\ xfer \in [Tasks -> XferType]
    /\ r2ops = [i \in DOMAIN r2ops |-> r2ops[i]]
    /\ DOMAIN r2ops \subseteq 1..(nextR2Id - 1)

\* Every entry of the registry is one task's, or was given up.
R2Table ==
    /\ DOMAIN r2ops = Ids \cup abandoned
    /\ Ids \cap abandoned = {}
    /\ \A t, u \in Transfers : xfer[t].id = xfer[u].id => t = u

\* What an entry has, with what its task sent or was given.
R2Data ==
    /\ bucket.data = bucket.sent
    /\ \A t \in Tasks : xfer[t].kind = "put" =>
          OpOf(t) \in WriteOps /\ OpOf(t).chunks = xfer[t].body
    /\ \A t \in Tasks : xfer[t].kind = "get" =>
          /\ OpOf(t) \in ReadOps
          /\ Cat(xfer[t].body, Cat(OpOf(t).pending, OpOf(t).stream)) = OpOf(t).wanted
          /\ xfer[t].ended => OpOf(t).pending = <<>> /\ OpOf(t).stream = <<>>

R2Inv == R2Types /\ R2Table /\ R2Data

\* The host's steps that R2 sees.
R2Step(t) ==
    \/ \E m \in Nat : PutBegin(t, m)
    \/ \E n \in Nat \ {0} : PutWrite(t, n)
    \/ \E ok \in BOOLEAN : PutFinish(t, ok)
    \/ xfer[t].kind # "none" /\ GiveUp(t)
    \/ \E m, nm, o \in Nat : GetBegin(t, m, nm, o)
    \/ \E n \in Nat \ {0} : GetRead(t, n)
    \/ GetClose(t) \/ Delete(t)

\* The steps of the host.
LEMMA R2Steps ==
  ASSUME bucket.last \in Nat, [Next]_vars
  PROVE  UNCHANGED r2Vars \/ \E t \in Tasks : R2Step(t)
<1>0. Etags \subseteq Nat /\ 1..Buffer \subseteq Nat \ {0} /\ 1..(Buffer + 1) \subseteq Nat \ {0}
  BY R2Assumption DEF Etags, Any
<1>1. ASSUME NEW t \in Tasks, Settle(t) PROVE UNCHANGED r2Vars \/ R2Step(t)
  <2>1. CASE job[t].call = "put_begin"
    BY <1>0, <1>1, <2>1 DEF Settle, R2Step
  <2>2. CASE job[t].call = "put_write"
    BY <1>0, <1>1, <2>2 DEF Settle, R2Step
  <2>3. CASE job[t].call = "put_finish"
    BY <1>1, <2>3 DEF Settle, R2Step
  <2>4. CASE job[t].call = "get_begin"
    BY <1>0, <1>1, <2>4 DEF Settle, R2Step
  <2>5. CASE job[t].call = "get_read"
    BY <1>0, <1>1, <2>5 DEF Settle, R2Step
  <2>6. CASE job[t].call = "delete"
    BY <1>1, <2>6 DEF Settle, R2Step
  <2>7. CASE job[t].call \notin {"put_begin", "put_write", "put_finish", "get_begin",
                                 "get_read", "delete"}
    BY <1>1, <2>7 DEF Settle
  <2> QED
    BY <2>1, <2>2, <2>3, <2>4, <2>5, <2>6, <2>7
<1>2. ASSUME NEW t \in Tasks, SettleError(t) PROVE UNCHANGED r2Vars \/ R2Step(t)
  <2>1. CASE job[t].call = "put_finish"
    BY <1>2, <2>1 DEF SettleError, R2Step
  <2>2. CASE job[t].call = "put_write"
    BY <1>2, <2>2 DEF SettleError, R2Step, GiveUp
  <2>3. CASE job[t].call \notin {"put_finish", "put_write"}
    BY <1>2, <2>3 DEF SettleError
  <2> QED
    BY <2>1, <2>2, <2>3
<1>3. ASSUME NEW t \in Tasks, Trap(t) PROVE UNCHANGED r2Vars \/ R2Step(t)
  BY <1>3 DEF Trap, R2Step
<1>4. ASSUME NEW t \in Tasks, UploadFails(t) PROVE R2Step(t)
  BY <1>4 DEF UploadFails, Uploading, R2Step
<1>5. ASSUME NEW t \in Tasks, Cleanup(t) PROVE UNCHANGED r2Vars \/ R2Step(t)
  BY <1>5 DEF Cleanup, R2Step
<1>6. ASSUME NEW t \in Tasks,
             \/ RetryAll(t) \/ Enqueue(t) \/ Begin(t) \/ ReadBody(t) \/ BodyAborts(t)
             \/ SyncD1(t) \/ Continue(t) \/ Suspend(t) \/ Resume(t) \/ Respond(t)
             \/ Consume(t) \/ ReturnError(t) \/ FinishFetch(t) \/ FinishMessage(t)
             \/ Arrive(t)
      PROVE  UNCHANGED r2Vars
  BY <1>6 DEF RetryAll, Enqueue, Begin, ReadBody, BodyAborts, SyncD1, Continue, Suspend, Resume,
              Respond, Consume, ReturnError, FinishFetch, FinishMessage, Arrive
<1>7. ASSUME Start \/ Ended \/ UNCHANGED vars PROVE UNCHANGED r2Vars
  BY <1>7 DEF Start, Instantiated, Ended, vars
<1> QED
  BY <1>1, <1>2, <1>3, <1>4, <1>5, <1>6, <1>7 DEF Next, TaskNext

\* Nobody else's transfer changes.
Untouched(t) == \A u \in Transfers \ {t} : xfer'[u] = xfer[u] /\ OpOf(u)' = OpOf(u)

\* A transfer begins: an entry of its own.
LEMMA Entered ==
  ASSUME R2Types, R2Table, NEW t \in Tasks, xfer[t].kind = "none",
         NEW e, NEW x \in XferType, x.id = nextR2Id, x.kind # "none",
         r2ops' = WithOp(e), nextR2Id' = nextR2Id + 1, xfer' = [xfer EXCEPT ![t] = x],
         bucket' \in BucketType, UNCHANGED abandoned
  PROVE  R2Types' /\ R2Table' /\ Untouched(t) /\ xfer'[t] = x /\ OpOf(t)' = e
<1>1. /\ xfer'[t] = x /\ \A u \in Tasks \ {t} : xfer'[u] = xfer[u]
      /\ xfer' \in [Tasks -> XferType]
  BY DEF R2Types
<1>2. /\ DOMAIN r2ops' = DOMAIN r2ops \cup {nextR2Id} /\ r2ops'[nextR2Id] = e
      /\ nextR2Id \notin DOMAIN r2ops /\ \A i \in DOMAIN r2ops : r2ops'[i] = r2ops[i]
      /\ r2ops' = [i \in DOMAIN r2ops' |-> r2ops'[i]]
  BY DEF R2Types, WithOp
<1>3. Transfers' = Transfers \cup {t} /\ t \notin Transfers
  BY <1>1 DEF Transfers
<1>4. Ids' = Ids \cup {nextR2Id} /\ Ids \subseteq DOMAIN r2ops
  BY <1>1, <1>3 DEF Ids, Transfers, R2Table
<1>5. \A u \in Transfers : xfer[u].id \in DOMAIN r2ops
  BY <1>4 DEF Ids
<1>6. R2Types'
  BY <1>1, <1>2 DEF R2Types
<1>7. R2Table'
  BY <1>1, <1>2, <1>3, <1>4, <1>5 DEF R2Table, Transfers
<1>8. Untouched(t) /\ OpOf(t)' = e
  BY <1>1, <1>2, <1>5 DEF Untouched, OpOf, Transfers
<1> QED
  BY <1>1, <1>6, <1>7, <1>8

\* It goes on.
LEMMA Updated ==
  ASSUME R2Types, R2Table, NEW t \in Transfers,
         NEW e, NEW x \in XferType, x.id = xfer[t].id, x.kind = xfer[t].kind,
         r2ops' = [r2ops EXCEPT ![xfer[t].id] = e], xfer' = [xfer EXCEPT ![t] = x],
         UNCHANGED <<nextR2Id, bucket, abandoned>>
  PROVE  R2Types' /\ R2Table' /\ Untouched(t) /\ xfer'[t] = x /\ OpOf(t)' = e
<1>0. t \in Tasks /\ xfer[t].kind # "none"
  BY DEF Transfers
<1>1. /\ xfer'[t] = x /\ \A u \in Tasks \ {t} : xfer'[u] = xfer[u]
      /\ xfer' \in [Tasks -> XferType]
  BY <1>0 DEF R2Types
<1>2. Transfers' = Transfers /\ \A u \in Tasks : xfer'[u].id = xfer[u].id
  BY <1>0, <1>1 DEF Transfers
<1>3. Ids' = Ids /\ \A u \in Transfers : xfer[u].id \in DOMAIN r2ops
  BY <1>2 DEF Ids, Transfers, R2Table
<1>4. /\ DOMAIN r2ops' = DOMAIN r2ops /\ r2ops'[xfer[t].id] = e
      /\ \A i \in DOMAIN r2ops : i # xfer[t].id => r2ops'[i] = r2ops[i]
      /\ r2ops' = [i \in DOMAIN r2ops' |-> r2ops'[i]]
  BY <1>3 DEF R2Types
<1>5. R2Types'
  BY <1>1, <1>4 DEF R2Types
<1>6. R2Table'
  BY <1>2, <1>3, <1>4 DEF R2Table, Transfers
<1>7. Untouched(t) /\ OpOf(t)' = e
  BY <1>0, <1>1, <1>3, <1>4 DEF Untouched, OpOf, Transfers, R2Table
<1> QED
  BY <1>1, <1>5, <1>6, <1>7

\* It ends, and its entry goes or is given up.
LEMMA Dropped ==
  ASSUME R2Types, R2Table, NEW t \in Transfers,
         \/ r2ops' = WithoutOp(xfer[t].id) /\ UNCHANGED abandoned
         \/ UNCHANGED r2ops /\ abandoned' = abandoned \cup {xfer[t].id},
         xfer' = [xfer EXCEPT ![t] = NoXfer], bucket' \in BucketType, UNCHANGED nextR2Id
  PROVE  R2Types' /\ R2Table' /\ Untouched(t) /\ xfer'[t] = NoXfer
<1>0. t \in Tasks /\ xfer[t].kind # "none"
  BY DEF Transfers
<1>1. /\ xfer'[t] = NoXfer /\ \A u \in Tasks \ {t} : xfer'[u] = xfer[u]
      /\ xfer' \in [Tasks -> XferType]
  <2>1. NoXfer \in XferType
    BY EmptySeq DEF NoXfer, XferType, Data
  <2> QED
    BY <1>0, <2>1 DEF R2Types
<1>2. Transfers' = Transfers \ {t}
  BY <1>0, <1>1 DEF Transfers, NoXfer
<1>3. Ids' = Ids \ {xfer[t].id} /\ \A u \in Transfers : xfer[u].id \in DOMAIN r2ops
  BY <1>1, <1>2 DEF Ids, Transfers, R2Table
<1>4. /\ DOMAIN r2ops' = Ids' \cup abandoned' /\ Ids' \cap abandoned' = {}
      /\ DOMAIN r2ops' \subseteq DOMAIN r2ops
      /\ r2ops' = [i \in DOMAIN r2ops' |-> r2ops'[i]]
      /\ \A i \in DOMAIN r2ops' : r2ops'[i] = r2ops[i]
  <2>1. xfer[t].id \in Ids
    BY DEF Ids
  <2>2. CASE r2ops' = WithoutOp(xfer[t].id) /\ UNCHANGED abandoned
    BY <1>3, <2>1, <2>2 DEF R2Table, WithoutOp
  <2>3. CASE UNCHANGED r2ops /\ abandoned' = abandoned \cup {xfer[t].id}
    BY <1>3, <2>1, <2>3 DEF R2Types, R2Table
  <2> QED
    BY <2>2, <2>3
<1>5. R2Types'
  BY <1>1, <1>4 DEF R2Types
<1>6. R2Table'
  BY <1>1, <1>2, <1>4 DEF R2Table, Transfers
<1>7. Untouched(t)
  BY <1>0, <1>1, <1>2, <1>3, <1>4 DEF Untouched, OpOf, Transfers, R2Table, Ids
<1> QED
  BY <1>1, <1>5, <1>6, <1>7

\* What the others have is as it was.
LEMMA DataKept ==
  ASSUME R2Types, R2Data, NEW t \in Tasks, Untouched(t), bucket'.data = bucket'.sent,
         xfer'[t].kind = "put" => OpOf(t)' \in WriteOps /\ OpOf(t)'.chunks = xfer'[t].body,
         xfer'[t].kind = "get" =>
            /\ OpOf(t)' \in ReadOps
            /\ Cat(xfer'[t].body, Cat(OpOf(t)'.pending, OpOf(t)'.stream)) = OpOf(t)'.wanted
            /\ xfer'[t].ended => OpOf(t)'.pending = <<>> /\ OpOf(t)'.stream = <<>>,
         \A u \in Tasks \ {t} : xfer'[u] = xfer[u]
  PROVE  R2Data'
<1>1. \A u \in Tasks \ {t} : xfer'[u].kind # "none" => OpOf(u)' = OpOf(u) /\ xfer'[u] = xfer[u]
  BY DEF Untouched, Transfers
<1> QED
  BY <1>1 DEF R2Data

\* The invariant holds at the start.
LEMMA R2InvInit == Init => R2Inv
<1> SUFFICES ASSUME Init PROVE R2Inv
  OBVIOUS
<1>1. /\ r2ops = <<>> /\ nextR2Id = 1 /\ abandoned = {}
      /\ bucket = [version |-> 0, last |-> 0, data |-> <<>>, sent |-> <<>>]
      /\ xfer = [t \in Tasks |-> NoXfer]
  BY DEF Init, R2Init
<1>2. <<>> \in Data
  BY EmptySeq DEF Data
<1>3. NoXfer \in XferType /\ bucket \in BucketType /\ bucket.data = bucket.sent
  BY <1>1, <1>2 DEF NoXfer, XferType, BucketType
<1>4. DOMAIN r2ops = {} /\ r2ops = [i \in DOMAIN r2ops |-> r2ops[i]]
  BY <1>1
<1>5. \A t \in Tasks : xfer[t].kind = "none"
  BY <1>1 DEF NoXfer
<1>6. Transfers = {} /\ Ids = {}
  BY <1>5 DEF Transfers, Ids
<1> QED
  BY <1>1, <1>3, <1>4, <1>5, <1>6 DEF R2Inv, R2Types, R2Table, R2Data

\* The next units of a body.
LEMMA Fresh ==
  ASSUME NEW t \in Tasks, NEW sent \in Data, NEW n \in Nat
  PROVE  [i \in 1..n |-> <<t, Len(sent) + i>>] \in Data
<1>1. Len(sent) \in Nat
  BY LenProperties DEF Data
<1> DEFINE fresh == [i \in 1..n |-> <<t, Len(sent) + i>>]
<1>2. fresh \in [1..n -> Units]
  BY <1>1 DEF Units
<1> HIDE DEF fresh
<1>3. fresh \in Seq(Units)
  BY <1>2, SeqDef
<1> QED
  BY <1>3 DEF Data, fresh

\* One read of a download: what was given and what is left are still the whole.
LEMMA ReadSplit ==
  ASSUME NEW e \in ReadOps, NEW n \in Nat \ {0}
  PROVE  /\ After(e, n) \in ReadOps /\ After(e, n).wanted = e.wanted
         /\ Given(e, n) \in Data
         /\ Cat(Given(e, n), Cat(After(e, n).pending, After(e, n).stream))
               = Cat(e.pending, e.stream)
         /\ Given(e, n) = <<>> => After(e, n).pending = <<>> /\ After(e, n).stream = <<>>
<1> DEFINE took  == Took(e, n)
           chunk == Chunk(e, n)
           k     == Least(Buffer, Len(chunk))
           rest  == SubSeq(e.stream, took + 1, Len(e.stream))
           left  == SubSeq(chunk, k + 1, Len(chunk))
           given == SubSeq(chunk, 1, k)
<1>1. /\ e.pending \in Data /\ e.stream \in Data /\ Len(e.stream) \in Nat
      /\ took \in 0..Len(e.stream) /\ (e.pending # <<>> => took = 0)
  BY LenProperties DEF ReadOps, Data, Took, Least
<1>2. /\ rest \in Data /\ SubSeq(e.stream, 1, took) \in Data
      /\ Len(SubSeq(e.stream, 1, took)) = took
      /\ Cat(SubSeq(e.stream, 1, took), rest) = e.stream
  BY <1>1, Split DEF Data
<1>3. /\ e.pending = <<>> => chunk = SubSeq(e.stream, 1, took)
      /\ e.pending # <<>> => chunk = e.pending
  BY DEF Chunk
<1> HIDE DEF took, chunk, rest
<1>4. chunk \in Data /\ Cat(chunk, rest) = Cat(e.pending, e.stream)
  <2>1. CASE e.pending = <<>>
    BY <1>1, <1>2, <1>3, <2>1, CatEmpty DEF Data
  <2>2. CASE e.pending # <<>>
    <3>1. took = 0 /\ SubSeq(e.stream, 1, took) = <<>>
      BY <1>1, <2>2, SubSeqEmpty
    <3>2. rest = e.stream
      BY <1>2, <3>1, CatEmpty DEF Data
    <3> QED
      BY <1>1, <1>3, <2>2, <3>2
  <2> QED
    BY <2>1, <2>2
<1>5. Len(chunk) \in Nat /\ k \in 0..Len(chunk) /\ (k = 0 => Len(chunk) = 0)
  BY <1>4, LenProperties, R2Assumption DEF Least, Data
<1> HIDE DEF k
<1>6. left \in Data /\ given \in Data /\ Len(given) = k /\ Cat(given, left) = chunk
  BY <1>4, <1>5, Split DEF Data
<1>7. ASSUME given = <<>> PROVE left = <<>> /\ rest = <<>>
  <2>1. k = 0 /\ Len(chunk) = 0 /\ chunk = <<>>
    BY <1>4, <1>5, <1>6, <1>7, EmptySeq DEF Data
  <2>2. took = 0 /\ Len(e.stream) = 0
    BY <1>1, <1>2, <1>3, <2>1 DEF took, Took, Least
  <2>3. left = <<>>
    BY <1>5, <2>1, SubSeqEmpty
  <2>4. rest = <<>>
    BY <2>2, SubSeqEmpty DEF rest
  <2> QED
    BY <2>3, <2>4
<1>8. Given(e, n) = given /\ After(e, n) = [e EXCEPT !.stream = rest, !.pending = left]
  BY DEF Given, After, took, chunk, k, rest
<1> HIDE DEF left, given
<1>9. /\ After(e, n) \in ReadOps /\ After(e, n).wanted = e.wanted
      /\ After(e, n).pending = left /\ After(e, n).stream = rest
  BY <1>2, <1>6, <1>8 DEF ReadOps
<1>10. Cat(given, Cat(left, rest)) = Cat(Cat(given, left), rest)
  BY <1>2, <1>6, CatAssociative DEF Data
<1> QED
  BY <1>4, <1>6, <1>7, <1>8, <1>9, <1>10

\* Every step keeps it.
LEMMA R2InvNext == R2Inv /\ [Next]_vars => R2Inv'
<1> SUFFICES ASSUME R2Inv, [Next]_vars PROVE R2Inv'
  OBVIOUS
<1> USE DEF R2Inv
<1>0. /\ bucket \in BucketType /\ bucket.last \in Nat
      /\ xfer \in [Tasks -> XferType] /\ nextR2Id \in Nat
      /\ NoXfer.kind = "none" /\ NoXfer.ended = FALSE /\ NoXfer.body = <<>> /\ <<>> \in Data
  BY EmptySeq DEF R2Types, BucketType, NoXfer, Data
<1>1. CASE UNCHANGED r2Vars
  <2>1. /\ UNCHANGED <<r2ops, nextR2Id, bucket, xfer, abandoned>>
        /\ Transfers' = Transfers /\ Ids' = Ids /\ \A t \in Tasks : OpOf(t)' = OpOf(t)
    BY <1>1 DEF r2Vars, Transfers, Ids, OpOf
  <2> QED
    BY <2>1 DEF R2Types, R2Table, R2Data
<1>2. ASSUME NEW t \in Tasks, NEW m \in Nat, PutBegin(t, m) PROVE R2Inv'
  <2> DEFINE e == [kind |-> "write", chunks |-> <<>>, match |-> m]
             x == [NoXfer EXCEPT !.id = nextR2Id, !.kind = "put"]
  <2>1. /\ x \in XferType /\ x.id = nextR2Id /\ x.kind = "put" /\ x.body = <<>>
        /\ e \in WriteOps /\ e.chunks = <<>>
    BY <1>0 DEF NoXfer, XferType, WriteOps
  <2>2. /\ xfer[t].kind = "none" /\ r2ops' = WithOp(e) /\ nextR2Id' = nextR2Id + 1
        /\ xfer' = [xfer EXCEPT ![t] = x] /\ UNCHANGED <<bucket, abandoned>>
    BY <1>2 DEF PutBegin
  <2> HIDE DEF e, x
  <2>3. R2Types' /\ R2Table' /\ Untouched(t) /\ xfer'[t] = x /\ OpOf(t)' = e
    BY <1>0, <2>1, <2>2, Entered
  <2>4. \A u \in Tasks \ {t} : xfer'[u] = xfer[u]
    BY <2>2
  <2> QED
    BY <2>1, <2>2, <2>3, <2>4, DataKept DEF R2Data
<1>3. ASSUME NEW t \in Transfers, GiveUp(t) PROVE R2Inv'
  <2>1. /\ UNCHANGED <<r2ops, bucket, nextR2Id>> /\ abandoned' = abandoned \cup {xfer[t].id}
        /\ xfer' = [xfer EXCEPT ![t] = NoXfer] /\ t \in Tasks
    BY <1>3 DEF GiveUp, Transfers
  <2>2. R2Types' /\ R2Table' /\ Untouched(t) /\ xfer'[t] = NoXfer
    BY <1>0, <2>1, Dropped
  <2>3. \A u \in Tasks \ {t} : xfer'[u] = xfer[u]
    BY <2>1
  <2> QED
    BY <1>0, <2>1, <2>2, <2>3, DataKept DEF R2Data
<1>4. ASSUME NEW t \in Tasks, NEW n \in Nat \ {0}, PutWrite(t, n) PROVE R2Inv'
  <2> DEFINE fresh == [i \in 1..n |-> <<t, Len(xfer[t].body) + i>>]
             e == [OpOf(t) EXCEPT !.chunks = @ \o fresh]
             x == [xfer[t] EXCEPT !.body = @ \o fresh]
  <2>1. /\ xfer[t].kind = "put" /\ t \in Transfers
        /\ OpOf(t) \in WriteOps /\ OpOf(t).chunks = xfer[t].body /\ xfer[t].body \in Data
    BY <1>0, <1>4 DEF PutWrite, Transfers, R2Data, XferType
  <2>2. CASE Len(xfer[t].body) + n > MaxUpload
    BY <1>3, <1>4, <2>1, <2>2 DEF PutWrite
  <2>3. CASE ~(Len(xfer[t].body) + n > MaxUpload)
    <3>1. /\ r2ops' = [r2ops EXCEPT ![xfer[t].id].chunks = @ \o fresh]
          /\ xfer' = [xfer EXCEPT ![t].body = @ \o fresh]
          /\ UNCHANGED <<nextR2Id, bucket, abandoned>>
      BY <1>4, <2>3 DEF PutWrite
    <3>2. fresh \in Data
      BY <2>1, Fresh
    <3> HIDE DEF fresh
    <3>3. xfer[t].body \o fresh \in Data
      BY <2>1, <3>2, ConcatProperties DEF Data
    <3>4. /\ x \in XferType /\ x.id = xfer[t].id /\ x.kind = xfer[t].kind
          /\ x.body = xfer[t].body \o fresh /\ e \in WriteOps /\ e.chunks = x.body
      BY <1>0, <2>1, <3>3 DEF XferType, WriteOps
    <3>5. r2ops' = [r2ops EXCEPT ![xfer[t].id] = e] /\ xfer' = [xfer EXCEPT ![t] = x]
      BY <3>1 DEF OpOf
    <3> HIDE DEF e, x
    <3>6. R2Types' /\ R2Table' /\ Untouched(t) /\ xfer'[t] = x /\ OpOf(t)' = e
      BY <2>1, <3>1, <3>4, <3>5, Updated
    <3>7. \A u \in Tasks \ {t} : xfer'[u] = xfer[u]
      BY <3>5
    <3> QED
      BY <2>1, <3>1, <3>4, <3>6, <3>7, DataKept DEF R2Data
  <2> QED
    BY <2>2, <2>3
<1>5. ASSUME NEW t \in Tasks, NEW ok \in BOOLEAN, PutFinish(t, ok) PROVE R2Inv'
  <2>1. /\ xfer[t].kind = "put" /\ t \in Transfers
        /\ OpOf(t) \in WriteOps /\ OpOf(t).chunks = xfer[t].body /\ xfer[t].body \in Data
    BY <1>0, <1>5 DEF PutFinish, Transfers, R2Data, XferType
  <2>2. bucket' \in BucketType /\ bucket'.data = bucket'.sent
    BY <1>0, <1>5, <2>1 DEF PutFinish, BucketType, R2Data
  <2>3. /\ r2ops' = WithoutOp(xfer[t].id) /\ UNCHANGED <<nextR2Id, abandoned>>
        /\ xfer' = [xfer EXCEPT ![t] = NoXfer]
    BY <1>5 DEF PutFinish
  <2>4. R2Types' /\ R2Table' /\ Untouched(t) /\ xfer'[t] = NoXfer
    BY <2>1, <2>2, <2>3, Dropped
  <2>5. \A u \in Tasks \ {t} : xfer'[u] = xfer[u]
    BY <2>3
  <2> QED
    BY <1>0, <2>2, <2>4, <2>5, DataKept
<1>6. ASSUME NEW t \in Tasks, NEW m \in Nat, NEW nm \in Nat, NEW o \in Nat,
             GetBegin(t, m, nm, o)
      PROVE  R2Inv'
  <2> DEFINE part == SubSeq(bucket.data, o + 1, Len(bucket.data))
             e == [kind |-> "read", stream |-> part, pending |-> <<>>, wanted |-> part]
             x == [NoXfer EXCEPT !.id = nextR2Id, !.kind = "get"]
  <2>1. SUFFICES ASSUME ~UNCHANGED r2Vars PROVE R2Inv'
    BY <1>1
  <2>2. /\ xfer[t].kind = "none" /\ r2ops' = WithOp(e) /\ nextR2Id' = nextR2Id + 1
        /\ xfer' = [xfer EXCEPT ![t] = x] /\ UNCHANGED <<bucket, abandoned>>
    BY <1>6, <2>1 DEF GetBegin
  <2>3. part \in Data
    <3>1. bucket.data \in Data /\ Len(bucket.data) \in Nat
      BY <1>0, LenProperties DEF BucketType, Data
    <3>2. \A i \in (o + 1)..Len(bucket.data) : bucket.data[i] \in Units
      BY <3>1, ElementOfSeq DEF Data
    <3> QED
      BY <3>1, <3>2, SubSeqProperties DEF Data
  <2> HIDE DEF part
  <2>4. /\ x \in XferType /\ x.id = nextR2Id /\ x.kind = "get" /\ x.body = <<>> /\ x.ended = FALSE
        /\ e \in ReadOps /\ e.pending = <<>> /\ e.stream = part /\ e.wanted = part
    BY <1>0, <2>3 DEF NoXfer, XferType, ReadOps
  <2> HIDE DEF e, x
  <2>5. R2Types' /\ R2Table' /\ Untouched(t) /\ xfer'[t] = x /\ OpOf(t)' = e
    BY <1>0, <2>2, <2>4, Entered
  <2>6. Cat(<<>>, Cat(<<>>, part)) = part
    BY <2>3, CatEmpty DEF Data
  <2>7. \A u \in Tasks \ {t} : xfer'[u] = xfer[u]
    BY <2>2
  <2> QED
    BY <2>2, <2>4, <2>5, <2>6, <2>7, DataKept DEF R2Data
<1>7. ASSUME NEW t \in Tasks, NEW n \in Nat \ {0}, GetRead(t, n) PROVE R2Inv'
  <2> DEFINE o     == OpOf(t)
             e     == After(o, n)
             given == Given(o, n)
             body  == Cat(xfer[t].body, given)
             x     == Copied(xfer[t], given)
  <2>1. /\ xfer[t].kind = "get" /\ t \in Transfers /\ xfer[t].body \in Data
        /\ o \in ReadOps /\ o.stream \in Data /\ o.pending \in Data
        /\ Cat(xfer[t].body, Cat(o.pending, o.stream)) = o.wanted
    BY <1>0, <1>7 DEF GetRead, Transfers, R2Data, XferType, ReadOps
  <2>2. /\ r2ops' = [r2ops EXCEPT ![xfer[t].id] = e] /\ xfer' = [xfer EXCEPT ![t] = x]
        /\ UNCHANGED <<nextR2Id, bucket, abandoned>>
    BY <1>7 DEF GetRead, OpOf
  <2>3. /\ e \in ReadOps /\ e.wanted = o.wanted /\ given \in Data
        /\ Cat(given, Cat(e.pending, e.stream)) = Cat(o.pending, o.stream)
        /\ given = <<>> => e.pending = <<>> /\ e.stream = <<>>
    BY <2>1, ReadSplit
  <2> HIDE DEF e, given
  <2>4. e.pending \in Data /\ e.stream \in Data /\ body \in Data
    BY <2>1, <2>3, CatType DEF ReadOps, Data
  <2>5. Cat(body, Cat(e.pending, e.stream)) = o.wanted
    <3>1. Cat(e.pending, e.stream) \in Data
      BY <2>4, CatType DEF Data
    <3>2. Cat(body, Cat(e.pending, e.stream))
             = Cat(xfer[t].body, Cat(given, Cat(e.pending, e.stream)))
      BY <2>1, <2>3, <3>1, CatAssociative DEF Data
    <3> QED
      BY <2>1, <2>3, <3>2
  <2> HIDE DEF body
  <2>6. /\ x \in XferType /\ x.id = xfer[t].id /\ x.kind = xfer[t].kind
        /\ x.body = body /\ (x.ended <=> given = <<>>)
    BY <1>0, <2>1, <2>4 DEF XferType, Copied, body, Cat
  <2> HIDE DEF x
  <2>7. R2Types' /\ R2Table' /\ Untouched(t) /\ xfer'[t] = x /\ OpOf(t)' = e
    BY <2>1, <2>2, <2>6, Updated
  <2>8. \A u \in Tasks \ {t} : xfer'[u] = xfer[u]
    BY <2>2
  <2> QED
    BY <2>1, <2>2, <2>3, <2>5, <2>6, <2>7, <2>8, DataKept DEF R2Data
<1>8. ASSUME NEW t \in Tasks, GetClose(t) PROVE R2Inv'
  <2>1. /\ t \in Transfers /\ r2ops' = WithoutOp(xfer[t].id)
        /\ UNCHANGED <<nextR2Id, bucket, abandoned>> /\ xfer' = [xfer EXCEPT ![t] = NoXfer]
    BY <1>8 DEF GetClose, Transfers
  <2>2. R2Types' /\ R2Table' /\ Untouched(t) /\ xfer'[t] = NoXfer
    BY <1>0, <2>1, Dropped
  <2>3. \A u \in Tasks \ {t} : xfer'[u] = xfer[u]
    BY <2>1
  <2> QED
    BY <1>0, <2>1, <2>2, <2>3, DataKept DEF R2Data
<1>9. ASSUME NEW t \in Tasks, Delete(t) PROVE R2Inv'
  <2>1. /\ UNCHANGED <<r2ops, nextR2Id, xfer, abandoned>>
        /\ bucket' \in BucketType /\ bucket'.data = bucket'.sent
    BY <1>0, <1>9 DEF Delete, BucketType
  <2>2. Transfers' = Transfers /\ Ids' = Ids /\ \A u \in Tasks : OpOf(u)' = OpOf(u)
    BY <2>1 DEF Transfers, Ids, OpOf
  <2> QED
    BY <2>1, <2>2 DEF R2Types, R2Table, R2Data
<1>10. ASSUME NEW t \in Tasks, xfer[t].kind # "none", GiveUp(t) PROVE R2Inv'
  BY <1>3, <1>10 DEF Transfers
<1>11. UNCHANGED r2Vars \/ \E t \in Tasks : R2Step(t)
  BY <1>0, R2Steps
<1> QED
  BY <1>1, <1>2, <1>4, <1>5, <1>6, <1>7, <1>8, <1>9, <1>10, <1>11 DEF R2Step

LEMMA R2Held == Spec => []R2Inv
<1>1. Init => R2Inv
  BY R2InvInit
<1> QED
  BY <1>1, R2InvNext, PTL DEF Spec

\* Objects are stored as they were sent, and downloads are prefixes of the version they
\* opened, whatever happens to other transfers (index.mjs:233-367, workers.zig).
THEOREM Whole == Spec => []ObjectsWhole
<1>1. R2Inv => ObjectsWhole
  <2> SUFFICES ASSUME R2Inv, NEW t \in Tasks, xfer[t].kind = "get"
               PROVE  /\ xfer[t].body = SubSeq(OpOf(t).wanted, 1, Len(xfer[t].body))
                      /\ xfer[t].ended => xfer[t].body = OpOf(t).wanted
    BY DEF ObjectsWhole, R2Inv, R2Data
  <2> DEFINE body == xfer[t].body
             rest == Cat(OpOf(t).pending, OpOf(t).stream)
  <2>1. /\ body \in Data /\ OpOf(t).pending \in Data /\ OpOf(t).stream \in Data
        /\ Cat(body, rest) = OpOf(t).wanted
        /\ xfer[t].ended => OpOf(t).pending = <<>> /\ OpOf(t).stream = <<>>
    BY DEF R2Inv, R2Types, R2Data, XferType, ReadOps
  <2>2. rest \in Data
    BY <2>1, CatType DEF Data
  <2>3. body = SubSeq(Cat(body, rest), 1, Len(body))
    BY <2>1, <2>2, Prefix DEF Data
  <2>4. xfer[t].ended => Cat(body, rest) = body
    BY <2>1, CatEmpty, EmptySeq DEF Data
  <2> QED
    BY <2>1, <2>3, <2>4
<1> QED
  BY <1>1, R2Held, PTL

-----------------------------------------------------------------------------
(* D1: the registry of statements                                          *)

Opened  == {t \in Tasks : stmt[t] # NoStmt}
Handles == {stmt[t].handle : t \in Opened}

StmtType  == [handle : Nat, ran : BOOLEAN, bound : Values, asked : Values, seen : Nat]
Numbers   == Values \cup {AsNumber(v) : v \in Values}
RowType   == [value : Numbers, nth : Nat]
EntryType == [arg : Numbers, rows : Seq(RowType), cursor : Nat, row : RowType]

D1Types ==
    /\ nextStmtId \in Nat \ {0} /\ rowid \in Nat
    /\ stmt \in [Tasks -> StmtType] /\ inserted \in [Tasks -> Nat]
    /\ d1stmts \in [DOMAIN d1stmts -> EntryType]
    /\ DOMAIN d1stmts \subseteq 1..(nextStmtId - 1)

\* Every entry of the registry is one task's, or was left by a trap.
D1Table ==
    /\ DOMAIN d1stmts = Handles \cup orphans
    /\ Handles \cap orphans = {}
    /\ \A t, u \in Opened : stmt[t].handle = stmt[u].handle => t = u

\* The rows of an entry are those of the query its task ran last, as far as it has got.
Reading(s, e) ==
    /\ e.arg = AsNumber(s.bound)
    /\ ~s.ran => e.row = NoRow /\ s.seen = 0
    /\ s.ran => /\ e.cursor = s.seen /\ e.cursor <= Len(e.rows)
                /\ \A i \in 1..Len(e.rows) : e.rows[i] = [value |-> AsNumber(s.asked), nth |-> i]
                /\ e.row \in {NoRow, [value |-> AsNumber(s.asked), nth |-> s.seen]}
D1Rows == \A t \in Opened : Reading(stmt[t], Entry(t))

\* Where a task is when it waits for a query, and when it has an insert id to read.
D1Waits ==
    /\ \A t \in Tasks : job[t].pc = "call" /\ job[t].call = "run" =>
          t \in Opened /\ ~stmt[t].ran
    /\ \A t \in Tasks : inserted[t] # 0 =>
          /\ lastD1Meta = inserted[t]
          /\ job[t].pc \in {"resume", "guest"} /\ job[t].then = "meta"

D1Inv == D1Types /\ D1Table /\ D1Rows /\ D1Waits

\* The host's steps as D1 sees them: none of its business,
D1Idle ==
    /\ UNCHANGED d1Vars
    /\ \A t \in Tasks :
          /\ job'[t].pc = "call" /\ job'[t].call = "run" =>
                \/ job[t].pc = "call" /\ job[t].call = "run"
                \/ t \in Opened /\ ~stmt[t].ran
          /\ job[t].pc \in {"resume", "guest"} /\ job[t].then = "meta" =>
                job'[t].pc \in {"resume", "guest"} /\ job'[t].then = "meta"

\* ... a handler's own call,
D1Calls(t) ==
    /\ job[t].pc = "guest" /\ job[t].then # "meta" /\ job'[t].pc # "call" /\ Others(t)
    /\ \/ D1Prepare(t) \/ D1Step(t) \/ D1Reset(t) \/ D1Finalize(t) \/ D1Trap(t)
       \/ \E v \in Values : D1Bind(t, v)

\* ... or the end of one that waited.
D1Answers(t) ==
    /\ job[t].pc = "call" /\ job'[t].pc = "resume" /\ Others(t)
    /\ \/ job[t].call = "run" /\ \E count \in Nat : D1Ran(t, count)
       \/ job'[t].then = "meta" /\ D1Executed(t)

D1Reads(t) ==
    /\ job[t].pc = "guest" /\ job'[t].pc = "guest" /\ Others(t)
    /\ D1LastInsertId(t)

D1Moves(t) == D1Calls(t) \/ D1Answers(t) \/ D1Reads(t)

\* A step of one task that D1 does not see.
LEMMA OneIdle ==
  ASSUME JobType, NEW t \in Tasks, NEW j \in Jobs, job' = [job EXCEPT ![t] = j],
         UNCHANGED d1Vars,
         j.pc = "call" /\ j.call = "run" =>
            \/ job[t].pc = "call" /\ job[t].call = "run"
            \/ t \in Opened /\ ~stmt[t].ran,
         job[t].pc \in {"resume", "guest"} /\ job[t].then = "meta" =>
            j.pc \in {"resume", "guest"} /\ j.then = "meta"
  PROVE  D1Idle
<1>1. job'[t] = j /\ \A u \in Tasks \ {t} : job'[u] = job[u]
  BY OneJob DEF Others
<1> QED
  BY <1>1 DEF D1Idle

\* What becomes of a job in the steps that D1 may see.
LEMMA D1Jobs ==
  ASSUME JobType, NEW t \in Tasks
  PROVE  LET j == job[t] IN
         /\ \A pc \in Pcs : [j EXCEPT !.pc = pc] \in Jobs
         /\ \A n \in Nat : [j EXCEPT !.ops = n] \in Jobs
         /\ \A h \in Thens : [j EXCEPT !.then = h] \in Jobs
         /\ \A pc \in Pcs, c \in Calls : [j EXCEPT !.pc = pc, !.call = c] \in Jobs
         /\ \A pc \in Pcs, n \in Nat : [j EXCEPT !.pc = pc, !.link = n] \in Jobs
         /\ \A pc \in Pcs, n \in Nat : [j EXCEPT !.pc = pc, !.ops = n] \in Jobs
         /\ \A pc \in Pcs, a \in Answers : [j EXCEPT !.pc = pc, !.answer = a] \in Jobs
         /\ \A pc \in Pcs, c \in Calls, n \in Nat :
               [j EXCEPT !.pc = pc, !.call = c, !.ops = n] \in Jobs
         /\ \A pc \in Pcs, c \in Calls, h \in Thens :
               [j EXCEPT !.pc = pc, !.call = c, !.then = h] \in Jobs
         /\ \A pc \in Pcs, n \in Nat, k \in Nat :
               [j EXCEPT !.pc = pc, !.ops = n, !.at = k] \in Jobs
BY DEF JobType, Jobs

\* The actions of a task as D1 sees them.
LEMMA D1TaskSteps ==
  ASSUME JobType, links \in Seq(Links), NEW t \in Tasks, TaskNext(t)
  PROVE  D1Idle \/ D1Moves(t)
<1>0. job[t] \in Jobs /\ job \in [Tasks -> Jobs] /\ Len(links) \in Nat
  BY LenProperties DEF JobType
<1>w. /\ "done" \in Pcs /\ "line" \in Pcs /\ "body" \in Pcs /\ "guest" \in Pcs
      /\ "call" \in Pcs /\ "resume" \in Pcs /\ "return" \in Pcs /\ "ready" \in Pcs
      /\ "" \in Thens /\ "step" \in Thens /\ "meta" \in Thens /\ "" \in Calls
      /\ {"response", "malformed", "", "0", "error", "trap"} \subseteq Answers
  BY Words
<1>1. CASE RetryAll(t)
  <2> DEFINE j == [job[t] EXCEPT !.pc = "done"]
  <2>1. j \in Jobs /\ j.pc = "done"
    BY <1>0, <1>w, D1Jobs DEF Jobs
  <2>2. job' = [job EXCEPT ![t] = j] /\ UNCHANGED d1Vars /\ job[t].pc = "ready"
    BY <1>1, <1>0 DEF RetryAll, Turn, Go, Pc
  <2> QED
    BY <2>1, <2>2, OneIdle
<1>2. CASE Enqueue(t)
  <2> DEFINE n == Len(links) + 1
             j == [job[t] EXCEPT !.pc = "line", !.link = n]
  <2>1. n \in Nat
    BY <1>0
  <2>2. job' = [job EXCEPT ![t] = j] /\ UNCHANGED d1Vars /\ job[t].pc = "ready"
    BY <1>2, <1>0 DEF Enqueue, Turn, Pc
  <2> HIDE DEF n
  <2>3. j \in Jobs /\ j.pc = "line"
    BY <1>0, <1>w, <2>1, D1Jobs DEF Jobs
  <2> QED
    BY <2>2, <2>3, OneIdle
<1>3. CASE Begin(t)
  <2> DEFINE pc == IF t \in Fetches THEN "body" ELSE "guest"
             j == [job[t] EXCEPT !.pc = pc, !.answer = ""]
  <2>1. pc \in Pcs /\ pc # "call"
    BY <1>w
  <2>2. job' = [job EXCEPT ![t] = j] /\ UNCHANGED d1Vars /\ job[t].pc = "line"
    BY <1>3, <1>0 DEF Begin, Turn, Pc
  <2> HIDE DEF pc
  <2>3. j \in Jobs /\ j.pc # "call"
    BY <1>0, <1>w, <2>1, D1Jobs DEF Jobs
  <2> QED
    BY <2>2, <2>3, OneIdle
<1>4. CASE ReadBody(t) \/ BodyAborts(t)
  <2> DEFINE j(pc) == [job[t] EXCEPT !.pc = pc]
  <2>1. PICK pc \in {"guest", "done"} : job' = [job EXCEPT ![t] = j(pc)]
    BY <1>4 DEF ReadBody, BodyAborts, Go
  <2>2. UNCHANGED d1Vars /\ job[t].pc = "body"
    BY <1>4 DEF ReadBody, BodyAborts, Turn, Pc
  <2>3. j(pc) \in Jobs /\ j(pc).pc # "call"
    BY <1>0, <1>w, D1Jobs DEF Jobs
  <2> QED
    BY <2>1, <2>2, <2>3, OneIdle
<1>5. CASE SyncD1(t)
  <2> DEFINE n == job[t].ops + 1
             j == [job[t] EXCEPT !.ops = n]
  <2>1. n \in Nat
    BY <1>0 DEF Jobs
  <2>2. job' = [job EXCEPT ![t] = j] /\ job[t].pc = "guest" /\ job[t].then = ""
    BY <1>5, <1>0 DEF SyncD1, Op, May, Handler, Pc
  <2> HIDE DEF n
  <2>3. j \in Jobs /\ j.pc = "guest"
    BY <1>0, <2>1, <2>2, D1Jobs DEF Jobs
  <2>4. job'[t].pc = "guest" /\ Others(t)
    BY <2>2, <2>3, OneJob
  <2> QED
    BY <1>5, <2>2, <2>4 DEF SyncD1, D1Moves, D1Calls
<1>6. CASE Continue(t)
  <2> DEFINE j == [job[t] EXCEPT !.then = ""]
  <2>1. job' = [job EXCEPT ![t] = j] /\ job[t].pc = "guest"
    BY <1>6, <1>0 DEF Continue, Pc
  <2>2. j \in Jobs /\ j.pc = "guest"
    BY <1>0, <1>w, <2>1, D1Jobs DEF Jobs
  <2>3. job'[t].pc = "guest" /\ Others(t)
    BY <2>1, <2>2, OneJob
  <2> QED
    BY <1>6, <2>1, <2>3 DEF Continue, D1Moves, D1Calls, D1Reads
<1>7. CASE Cleanup(t)
  <2>1. job' = job /\ job[t].pc = "guest" /\ job[t].then = ""
    BY <1>7 DEF Cleanup, hostVars, Handler, Pc
  <2> QED
    BY <1>7, <2>1 DEF Cleanup, D1Moves, D1Calls, D1Idle, Others
<1>8. CASE UploadFails(t)
  BY <1>8 DEF UploadFails, D1Idle
<1>9. CASE Suspend(t)
  <2> DEFINE n == job[t].ops + 1
             j(c) == IF jspi THEN [job[t] EXCEPT !.pc = "call", !.call = c, !.ops = n]
                     ELSE [job[t] EXCEPT !.ops = n]
  <2>1. PICK c \in Suspending(t) : job' = [job EXCEPT ![t] = j(c)]
    BY <1>9 DEF Suspend
  <2>2. UNCHANGED d1Vars /\ job[t].pc = "guest" /\ job[t].then = ""
    BY <1>9 DEF Suspend, Handler, Pc
  <2>3. c \in Calls /\ n \in Nat
    BY <1>0, SuspendingCalls DEF Jobs
  <2>4. c = "run" => t \in Opened /\ ~stmt[t].ran
    BY DEF Suspending, Opened
  <2> HIDE DEF n
  <2>5. j(c) \in Jobs /\ (j(c).pc = "call" => j(c).call = c)
    BY <1>0, <1>w, <2>2, <2>3, D1Jobs DEF Jobs
  <2> QED
    BY <2>1, <2>2, <2>4, <2>5, OneIdle
<1>10. CASE Settle(t)
  <2> DEFINE then == CASE job[t].call = "run" -> "step" [] job[t].call = "exec" -> "meta"
                       [] OTHER -> ""
             j == [job[t] EXCEPT !.pc = "resume", !.call = "", !.then = then]
  <2>1. then \in Thens /\ (job[t].call = "exec" => then = "meta")
    BY <1>w
  <2>2. job' = [job EXCEPT ![t] = j] /\ job[t].pc = "call"
    BY <1>10 DEF Settle, Turn, Pc
  <2> HIDE DEF then
  <2>3. j \in Jobs /\ j.pc = "resume" /\ j.then = then
    BY <1>0, <1>w, <2>1, D1Jobs DEF Jobs
  <2> HIDE DEF j
  <2>4. job'[t].pc = "resume" /\ job'[t].then = then /\ Others(t)
    BY <2>2, <2>3, OneJob
  <2>5. CASE job[t].call = "run"
    <3>1. \E count \in Nat : D1Ran(t, count)
      BY <1>10, <2>5, D1Assumption DEF Settle
    <3> QED
      BY <2>2, <2>4, <2>5, <3>1 DEF D1Moves, D1Answers
  <2>6. CASE job[t].call = "exec"
    <3>1. D1Executed(t)
      BY <1>10, <2>6 DEF Settle
    <3> QED
      BY <2>1, <2>2, <2>4, <2>6, <3>1 DEF D1Moves, D1Answers
  <2>7. CASE job[t].call \notin {"run", "exec"}
    <3>1. UNCHANGED d1Vars
      BY <1>10, <2>7 DEF Settle
    <3> QED
      BY <2>2, <2>3, <3>1, OneIdle
  <2> QED
    BY <2>5, <2>6, <2>7
<1>11. CASE SettleError(t)
  <2> DEFINE j == [job[t] EXCEPT !.pc = "resume", !.call = ""]
  <2>1. j \in Jobs /\ j.pc = "resume"
    BY <1>0, <1>w, D1Jobs DEF Jobs
  <2>2. job' = [job EXCEPT ![t] = j] /\ UNCHANGED d1Vars /\ job[t].pc = "call"
    BY <1>11, <1>0 DEF SettleError, Turn, Pc
  <2> QED
    BY <2>1, <2>2, OneIdle
<1>12. CASE Resume(t)
  <2> DEFINE j == [job[t] EXCEPT !.pc = "guest"]
  <2>1. j \in Jobs /\ j.pc = "guest" /\ j.then = job[t].then
    BY <1>0, <1>w, D1Jobs DEF Jobs
  <2>2. job' = [job EXCEPT ![t] = j] /\ UNCHANGED d1Vars /\ job[t].pc = "resume"
    BY <1>12, <1>0 DEF Resume, Turn, Go, Pc
  <2> QED
    BY <2>1, <2>2, OneIdle
<1>13. CASE Respond(t) \/ Consume(t) \/ ReturnError(t) \/ Trap(t)
  <2> DEFINE j(a) == [job[t] EXCEPT !.pc = "return", !.answer = a]
  <2>1. PICK a \in Answers : job' = [job EXCEPT ![t] = j(a)]
    <3>1. \E a \in {"response", "malformed", "0", "error", "trap"} :
             job' = [job EXCEPT ![t].pc = "return", ![t].answer = a]
      BY <1>13 DEF Respond, Consume, ReturnError, Trap
    <3> QED
      BY <1>0, <1>w, <3>1
  <2>2. job[t].pc = "guest" /\ job[t].then = ""
    BY <1>13 DEF Respond, Consume, ReturnError, Trap, Handler, Pc
  <2>3. j(a) \in Jobs /\ j(a).pc = "return"
    BY <1>0, <1>w, D1Jobs DEF Jobs
  <2>4. job'[t].pc = "return" /\ Others(t)
    BY <2>1, <2>3, OneJob
  <2>5. UNCHANGED d1Vars \/ D1Trap(t)
    BY <1>13 DEF Respond, Consume, ReturnError, Trap
  <2>6. CASE UNCHANGED d1Vars
    BY <2>1, <2>2, <2>3, <2>6, OneIdle
  <2>7. CASE D1Trap(t)
    BY <2>2, <2>4, <2>7 DEF D1Moves, D1Calls
  <2> QED
    BY <2>5, <2>6, <2>7
<1>14. CASE FinishFetch(t)
  <2> DEFINE j == [job[t] EXCEPT !.pc = "done", !.ops = 0]
  <2>1. j \in Jobs /\ j.pc = "done"
    BY <1>0, <1>w, D1Jobs DEF Jobs
  <2>2. job' = [job EXCEPT ![t] = j] /\ UNCHANGED d1Vars /\ job[t].pc = "return"
    BY <1>14, <1>0 DEF FinishFetch, Turn, Pc
  <2> QED
    BY <2>1, <2>2, OneIdle
<1>15. CASE FinishMessage(t)
  <2> DEFINE k == job[t].at + 1
             pc == IF job[t].at = plan[t].dispatches THEN "done" ELSE "ready"
             j == [job[t] EXCEPT !.pc = pc, !.ops = 0, !.at = k]
  <2>1. k \in Nat /\ pc \in Pcs /\ pc # "call"
    <3>1. k \in Nat
      BY <1>0 DEF Jobs
    <3>2. pc \in Pcs /\ pc # "call"
      BY <1>w
    <3> QED
      BY <3>1, <3>2
  <2>2. job' = [job EXCEPT ![t] = j] /\ UNCHANGED d1Vars /\ job[t].pc = "return"
    BY <1>15, <1>0 DEF FinishMessage, Turn, Pc
  <2> HIDE DEF k, pc
  <2>3. j \in Jobs /\ j.pc = pc
    BY <1>0, <2>1, D1Jobs DEF Jobs
  <2> HIDE DEF j
  <2> QED
    BY <2>1, <2>2, <2>3, OneIdle
<1> QED
  BY <1>1, <1>2, <1>3, <1>4, <1>5, <1>6, <1>7, <1>8, <1>9, <1>10, <1>11, <1>12, <1>13,
     <1>14, <1>15 DEF TaskNext

\* The host's steps as D1 sees them.
LEMMA D1Steps ==
  ASSUME JobType, links \in Seq(Links), [Next]_vars
  PROVE  D1Idle \/ \E t \in Tasks : D1Moves(t)
<1>1. CASE Start
  <2>1. PICK outcome : Instantiated(outcome)
    BY <1>1 DEF Start
  <2> DEFINE pc == IF outcome \in {"ok", "unregistered"} THEN "ready" ELSE "done"
  <2>2. /\ UNCHANGED d1Vars /\ pc # "call"
        /\ job' = [t \in Tasks |-> IF job[t].pc # "instance" THEN job[t]
                                   ELSE [job[t] EXCEPT !.pc = pc]]
    BY <2>1 DEF Instantiated, Pc
  <2> HIDE DEF pc
  <2>3. \A t \in Tasks : \/ job'[t] = job[t]
                         \/ job[t].pc = "instance" /\ job'[t].pc = pc
    BY <2>2 DEF JobType, Jobs
  <2> QED
    BY <2>2, <2>3 DEF D1Idle
<1>2. CASE Ended \/ UNCHANGED vars
  BY <1>2 DEF Ended, vars, hostVars, D1Idle
<1>3. ASSUME NEW t \in Tasks, Arrive(t) PROVE D1Idle
  <2> DEFINE pc == IF instance THEN "ready" ELSE "instance"
             j == [job[t] EXCEPT !.pc = pc]
  <2>1. pc \in Pcs /\ pc # "call"
    BY Words
  <2>2. job' = [job EXCEPT ![t] = j] /\ UNCHANGED d1Vars /\ job[t].pc = "idle"
    BY <1>3 DEF Arrive, Turn, Go, Pc
  <2> HIDE DEF pc
  <2>3. j \in Jobs /\ j.pc = pc
    BY <2>1, D1Jobs DEF JobType, Jobs
  <2> QED
    BY <2>1, <2>2, <2>3, OneIdle
<1> QED
  BY <1>1, <1>2, <1>3, D1TaskSteps DEF Next

\* Nobody else's statement changes.
Apart(t) == /\ \A u \in Tasks \ {t} : stmt'[u] = stmt[u]
            /\ \A u \in Opened \ {t} : Entry(u)' = Entry(u)

\* The first values.
LEMMA FirstValues ==
    /\ Null \in Values /\ Null \in Numbers /\ AsNumber(Null) = Null
    /\ NoRow \in RowType /\ NoRows \in Seq(RowType) /\ Len(NoRows) = 1
    /\ NoStmt \in StmtType /\ NoStmt.handle = 0 /\ NoStmt.ran = FALSE /\ NoStmt.seen = 0
    /\ NoStmt.bound = Null
<1>1. Null \in Values /\ Null \in Numbers
  BY DEF Values, Numbers
<1>2. AsNumber(Null) = Null
  BY DEF AsNumber, Null
<1>3. NoRow \in RowType
  BY <1>1 DEF NoRow, RowType
<1> QED
  BY <1>1, <1>2, <1>3 DEF NoRows, NoStmt, StmtType

\* An open statement has its entry.
LEMMA HasEntry ==
  ASSUME D1Types, D1Table, NEW t \in Opened
  PROVE  /\ t \in Tasks /\ stmt[t] \in StmtType
         /\ stmt[t].handle \in DOMAIN d1stmts /\ stmt[t].handle \in Nat \ {0}
         /\ stmt[t].handle \notin orphans
         /\ Entry(t) \in EntryType
<1>1. t \in Tasks /\ stmt[t].handle \in Handles
  BY DEF Opened, Handles
<1>2. stmt[t].handle \in DOMAIN d1stmts /\ stmt[t].handle \notin orphans
  BY <1>1 DEF D1Table
<1> QED
  BY <1>1, <1>2 DEF D1Types, Entry

\* A statement is prepared: an entry of its own.
LEMMA Prepared ==
  ASSUME D1Types, D1Table, NEW t \in Tasks, D1Prepare(t)
  PROVE  /\ D1Types' /\ D1Table' /\ Apart(t)
         /\ t \in Opened' /\ stmt'[t] = [NoStmt EXCEPT !.handle = nextStmtId]
         /\ Entry(t)' = [arg |-> Null, rows |-> NoRows, cursor |-> 0, row |-> NoRow]
<1> DEFINE e == [arg |-> Null, rows |-> NoRows, cursor |-> 0, row |-> NoRow]
           x == [NoStmt EXCEPT !.handle = nextStmtId]
<1>1. /\ stmt[t] = NoStmt /\ stmt' = [stmt EXCEPT ![t].handle = nextStmtId]
      /\ nextStmtId' = nextStmtId + 1 /\ UNCHANGED <<rowid, inserted, orphans>>
      /\ d1stmts' = [h \in DOMAIN d1stmts \cup {nextStmtId} |-> IF h = nextStmtId THEN e
                                                                ELSE d1stmts[h]]
  BY DEF D1Prepare
<1>2. e \in EntryType /\ x \in StmtType /\ x.handle = nextStmtId /\ nextStmtId \in Nat \ {0}
  BY FirstValues DEF EntryType, StmtType, D1Types
<1>3. stmt' = [stmt EXCEPT ![t] = x]
  BY <1>1
<1> HIDE DEF e, x
<1>4. /\ stmt'[t] = x /\ \A u \in Tasks \ {t} : stmt'[u] = stmt[u]
      /\ stmt' \in [Tasks -> StmtType]
  BY <1>2, <1>3 DEF D1Types
<1>5. /\ DOMAIN d1stmts' = DOMAIN d1stmts \cup {nextStmtId} /\ d1stmts'[nextStmtId] = e
      /\ nextStmtId \notin DOMAIN d1stmts /\ \A h \in DOMAIN d1stmts : d1stmts'[h] = d1stmts[h]
      /\ d1stmts' \in [DOMAIN d1stmts' -> EntryType]
  BY <1>1, <1>2 DEF D1Types
<1>6. Opened' = Opened \cup {t} /\ t \notin Opened
  BY <1>1, <1>2, <1>4, FirstValues DEF Opened
<1>7. \A u \in Opened : stmt[u].handle \in DOMAIN d1stmts
  BY HasEntry
<1>8. Handles' = Handles \cup {nextStmtId}
  BY <1>2, <1>4, <1>6 DEF Handles, Opened
<1>9. D1Types'
  BY <1>1, <1>4, <1>5 DEF D1Types
<1>10. D1Table'
  <2>1. DOMAIN d1stmts' = Handles' \cup orphans' /\ Handles' \cap orphans' = {}
    BY <1>1, <1>5, <1>8 DEF D1Table
  <2>2. \A u, v \in Opened' : stmt'[u].handle = stmt'[v].handle => u = v
    BY <1>2, <1>4, <1>5, <1>6, <1>7 DEF D1Table, Opened
  <2> QED
    BY <2>1, <2>2 DEF D1Table
<1>11. Apart(t) /\ Entry(t)' = e
  BY <1>2, <1>4, <1>5, <1>7 DEF Apart, Entry, Opened
<1> QED
  BY <1>4, <1>6, <1>9, <1>10, <1>11 DEF e, x

\* A statement goes on: bound, run, stepped or reset.
LEMMA Advanced ==
  ASSUME D1Types, D1Table, NEW t \in Opened,
         NEW e \in EntryType, NEW x \in StmtType, x.handle = stmt[t].handle,
         d1stmts' = [d1stmts EXCEPT ![stmt[t].handle] = e], stmt' = [stmt EXCEPT ![t] = x],
         UNCHANGED <<nextStmtId, rowid, inserted, orphans>>
  PROVE  D1Types' /\ D1Table' /\ Apart(t) /\ Opened' = Opened /\ stmt'[t] = x /\ Entry(t)' = e
<1>0. /\ t \in Tasks /\ stmt[t].handle \in DOMAIN d1stmts /\ stmt[t].handle # 0
      /\ \A u \in Opened : stmt[u].handle \in DOMAIN d1stmts
  BY HasEntry
<1>1. /\ stmt'[t] = x /\ \A u \in Tasks \ {t} : stmt'[u] = stmt[u]
      /\ stmt' \in [Tasks -> StmtType]
  BY <1>0 DEF D1Types
<1>2. /\ DOMAIN d1stmts' = DOMAIN d1stmts /\ d1stmts'[stmt[t].handle] = e
      /\ \A h \in DOMAIN d1stmts : h # stmt[t].handle => d1stmts'[h] = d1stmts[h]
      /\ d1stmts' \in [DOMAIN d1stmts' -> EntryType]
  BY <1>0 DEF D1Types
<1>3. Opened' = Opened /\ \A u \in Tasks : stmt'[u].handle = stmt[u].handle
  BY <1>0, <1>1, FirstValues DEF Opened
<1>4. Handles' = Handles
  BY <1>3 DEF Handles, Opened
<1>5. D1Types'
  BY <1>1, <1>2 DEF D1Types
<1>6. D1Table'
  BY <1>2, <1>3, <1>4 DEF D1Table, Opened
<1>7. Apart(t) /\ Entry(t)' = e
  BY <1>0, <1>1, <1>2 DEF Apart, Entry, Opened, D1Table
<1> QED
  BY <1>1, <1>3, <1>5, <1>6, <1>7

\* A statement is finalized, or a trap leaves its entry behind.
LEMMA Gone ==
  ASSUME D1Types, D1Table, NEW t \in Opened,
         \/ d1stmts' = Drop(d1stmts, stmt[t].handle) /\ UNCHANGED orphans
         \/ UNCHANGED d1stmts /\ orphans' = orphans \cup {stmt[t].handle},
         stmt' = [stmt EXCEPT ![t] = NoStmt],
         UNCHANGED <<nextStmtId, rowid, inserted>>
  PROVE  D1Types' /\ D1Table' /\ Apart(t) /\ Opened' = Opened \ {t} /\ stmt'[t] = NoStmt
<1>0. /\ t \in Tasks /\ stmt[t].handle \in Handles
      /\ \A u \in Opened : stmt[u].handle \in DOMAIN d1stmts
  BY HasEntry DEF Handles
<1>1. /\ stmt'[t] = NoStmt /\ \A u \in Tasks \ {t} : stmt'[u] = stmt[u]
      /\ stmt' \in [Tasks -> StmtType]
  BY <1>0, FirstValues DEF D1Types
<1>2. Opened' = Opened \ {t}
  BY <1>0, <1>1 DEF Opened
<1>3. Handles' = Handles \ {stmt[t].handle}
  BY <1>1, <1>2 DEF Handles, Opened, D1Table
<1>4. /\ DOMAIN d1stmts' = Handles' \cup orphans' /\ Handles' \cap orphans' = {}
      /\ DOMAIN d1stmts' \subseteq DOMAIN d1stmts
      /\ \A h \in DOMAIN d1stmts' : d1stmts'[h] = d1stmts[h]
      /\ d1stmts' \in [DOMAIN d1stmts' -> EntryType]
  <2>1. CASE d1stmts' = Drop(d1stmts, stmt[t].handle) /\ UNCHANGED orphans
    BY <1>0, <1>3, <2>1 DEF D1Types, D1Table, Drop
  <2>2. CASE UNCHANGED d1stmts /\ orphans' = orphans \cup {stmt[t].handle}
    BY <1>0, <1>3, <2>2 DEF D1Types, D1Table
  <2> QED
    BY <2>1, <2>2
<1>5. D1Types'
  BY <1>1, <1>4 DEF D1Types
<1>6. D1Table'
  BY <1>1, <1>2, <1>4 DEF D1Table, Opened
<1>7. Apart(t)
  <2>1. \A u \in Opened \ {t} : stmt[u].handle \in Handles'
    BY <1>0, <1>3 DEF D1Table, Handles
  <2> QED
    BY <1>1, <1>4, <2>1 DEF Apart, Entry, Opened
<1> QED
  BY <1>1, <1>2, <1>5, <1>6, <1>7

\* What the others read is as it was.
LEMMA RowsKept ==
  ASSUME D1Rows, NEW t \in Tasks, Apart(t), Opened' \subseteq Opened \cup {t},
         t \in Opened' => Reading(stmt'[t], Entry(t)')
  PROVE  D1Rows'
<1>1. \A u \in Opened' \ {t} : Entry(u)' = Entry(u) /\ stmt'[u] = stmt[u] /\ u \in Opened
  BY DEF Apart, Opened
<1> QED
  BY <1>1 DEF D1Rows

\* Nobody begins or ends a wait but t.
LEMMA WaitsKept ==
  ASSUME D1Waits, NEW t \in Tasks, Apart(t), Others(t), job'[t].pc # "call", inserted[t] = 0,
         UNCHANGED <<inserted, lastD1Meta>>
  PROVE  D1Waits'
<1>1. \A u \in Tasks \ {t} : job'[u] = job[u] /\ stmt'[u] = stmt[u] /\ (u \in Opened <=> u \in Opened')
  BY DEF Apart, Others, Opened
<1> QED
  BY <1>1 DEF D1Waits

\* The invariant holds at the start.
LEMMA D1InvInit == Init => D1Inv
<1> SUFFICES ASSUME Init PROVE D1Inv
  OBVIOUS
<1>1. /\ d1stmts = <<>> /\ nextStmtId = 1 /\ rowid = 0 /\ orphans = {}
      /\ stmt = [t \in Tasks |-> NoStmt] /\ inserted = [t \in Tasks |-> 0]
  BY DEF Init, D1Init
<1>2. Opened = {} /\ Handles = {}
  BY <1>1 DEF Opened, Handles
<1>3. DOMAIN d1stmts = {} /\ d1stmts \in [{} -> EntryType]
  BY <1>1
<1>4. \A t \in Tasks : job[t].pc = "idle"
  BY DEF Init
<1> QED
  BY <1>1, <1>2, <1>3, <1>4, FirstValues DEF D1Inv, D1Types, D1Table, D1Rows, D1Waits

\* A step of d1_step.
LEMMA Stepped ==
  ASSUME D1Types, D1Table, D1Rows, NEW t \in Tasks, D1Step(t)
  PROVE  /\ D1Types' /\ D1Table' /\ Apart(t) /\ Opened' = Opened
         /\ Reading(stmt'[t], Entry(t)')
<1>1. t \in Opened /\ stmt[t].ran
  BY FirstValues DEF D1Step, Opened
<1>2. /\ stmt[t] \in StmtType /\ Entry(t) \in EntryType /\ Reading(stmt[t], Entry(t))
  BY <1>1, HasEntry DEF D1Rows
<1>3. /\ Entry(t).rows \in Seq(RowType) /\ Len(Entry(t).rows) \in Nat
      /\ Entry(t).cursor \in Nat /\ stmt[t].seen \in Nat
  BY <1>2, LenProperties DEF EntryType, StmtType
<1>4. CASE Entry(t).cursor >= Len(Entry(t).rows)
  <2> DEFINE e == [Entry(t) EXCEPT !.row = NoRow]
  <2>1. /\ d1stmts' = [d1stmts EXCEPT ![stmt[t].handle] = e] /\ stmt' = [stmt EXCEPT ![t] = stmt[t]]
        /\ UNCHANGED <<nextStmtId, rowid, inserted, orphans>>
    BY <1>4, D1Types DEF D1Step, Entry, D1Types
  <2>2. e \in EntryType
    BY <1>2, FirstValues DEF EntryType
  <2>3. Reading(stmt[t], e)
    BY <1>1, <1>2 DEF Reading, EntryType
  <2> HIDE DEF e
  <2> QED
    BY <1>1, <1>2, <2>1, <2>2, <2>3, Advanced
<1>5. CASE ~(Entry(t).cursor >= Len(Entry(t).rows))
  <2> DEFINE r == Entry(t).rows[Entry(t).cursor + 1]
             c == Entry(t).cursor + 1
             n == stmt[t].seen + 1
             e == [Entry(t) EXCEPT !.row = r, !.cursor = c]
             x == [stmt[t] EXCEPT !.seen = n]
  <2>1. /\ d1stmts' = [d1stmts EXCEPT ![stmt[t].handle] = e] /\ stmt' = [stmt EXCEPT ![t] = x]
        /\ UNCHANGED <<nextStmtId, rowid, inserted, orphans>>
    <3>1. /\ d1stmts' = [d1stmts EXCEPT ![stmt[t].handle] = [Entry(t) EXCEPT !.row = r, !.cursor = @ + 1]]
          /\ stmt' = [stmt EXCEPT ![t].seen = @ + 1]
          /\ UNCHANGED <<nextStmtId, rowid, inserted, orphans>>
      BY <1>5 DEF D1Step
    <3>2. [Entry(t) EXCEPT !.row = r, !.cursor = @ + 1] = e
      BY <1>2 DEF EntryType
    <3>3. stmt' = [stmt EXCEPT ![t] = x]
      BY <3>1
    <3> QED
      BY <3>1, <3>2, <3>3
  <2>2. c \in 1..Len(Entry(t).rows) /\ n \in Nat /\ c = n
    BY <1>1, <1>2, <1>3, <1>5 DEF Reading
  <2>3. r \in RowType
    BY <1>3, <2>2, ElementOfSeq
  <2>4. r = [value |-> AsNumber(stmt[t].asked), nth |-> n]
    BY <1>1, <1>2, <2>2 DEF Reading
  <2> HIDE DEF r, c, n
  <2>5. /\ e \in EntryType /\ x \in StmtType /\ x.handle = stmt[t].handle
        /\ e.row = r /\ e.cursor = c /\ e.rows = Entry(t).rows /\ e.arg = Entry(t).arg
        /\ x.seen = n /\ x.ran = stmt[t].ran /\ x.asked = stmt[t].asked /\ x.bound = stmt[t].bound
    BY <1>2, <2>2, <2>3 DEF EntryType, StmtType
  <2> HIDE DEF e, x
  <2>6. Reading(x, e)
    BY <1>1, <1>2, <2>2, <2>4, <2>5 DEF Reading
  <2> QED
    BY <1>1, <2>1, <2>5, <2>6, Advanced
<1> QED
  BY <1>4, <1>5

\* A handler's own call.
LEMMA Called ==
  ASSUME D1Types, D1Table, D1Rows, NEW t \in Tasks,
         \/ D1Prepare(t) \/ D1Step(t) \/ D1Reset(t) \/ D1Finalize(t) \/ D1Trap(t)
         \/ \E v \in Values : D1Bind(t, v)
  PROVE  D1Types' /\ D1Table' /\ D1Rows' /\ Apart(t)
<1>1. CASE D1Prepare(t)
  <2> DEFINE e == [arg |-> Null, rows |-> NoRows, cursor |-> 0, row |-> NoRow]
             x == [NoStmt EXCEPT !.handle = nextStmtId]
  <2>1. Reading(x, e)
    BY FirstValues DEF Reading, NoStmt
  <2> HIDE DEF x, e
  <2>2. /\ D1Types' /\ D1Table' /\ Apart(t) /\ stmt'[t] = x /\ Entry(t)' = e
    BY <1>1, Prepared DEF x, e
  <2>3. Opened' \subseteq Opened \cup {t}
    BY <2>2 DEF Apart, Opened
  <2> QED
    BY <2>1, <2>2, <2>3, RowsKept
<1>2. CASE D1Step(t)
  BY <1>2, Stepped, RowsKept
<1>3. CASE D1Reset(t)
  <2> DEFINE e == [Entry(t) EXCEPT !.rows = NoRows, !.cursor = 0, !.row = NoRow]
             x == [stmt[t] EXCEPT !.ran = FALSE, !.seen = 0]
  <2>1. /\ t \in Opened /\ UNCHANGED <<nextStmtId, rowid, inserted, orphans>>
        /\ d1stmts' = [d1stmts EXCEPT ![stmt[t].handle] = e]
    BY <1>3 DEF D1Reset, Opened, Entry
  <2>2. stmt' = [stmt EXCEPT ![t] = x]
    BY <1>3 DEF D1Reset, D1Types, StmtType
  <2>3. stmt[t] \in StmtType /\ Entry(t) \in EntryType /\ Reading(stmt[t], Entry(t))
    BY <2>1, HasEntry DEF D1Rows
  <2>4. /\ e \in EntryType /\ x \in StmtType /\ x.handle = stmt[t].handle
    BY <2>3, FirstValues DEF EntryType, StmtType
  <2>5. Reading(x, e)
    BY <2>3 DEF Reading, EntryType, StmtType
  <2> HIDE DEF e, x
  <2> QED
    BY <2>1, <2>2, <2>4, <2>5, Advanced, RowsKept
<1>4. CASE D1Finalize(t)
  <2>1. /\ t \in Opened /\ UNCHANGED <<nextStmtId, rowid, inserted, orphans>>
        /\ d1stmts' = Drop(d1stmts, stmt[t].handle) /\ stmt' = [stmt EXCEPT ![t] = NoStmt]
    BY <1>4 DEF D1Finalize, Opened
  <2> QED
    BY <2>1, Gone, RowsKept
<1>5. CASE D1Trap(t)
  <2>1. /\ UNCHANGED <<d1stmts, nextStmtId, rowid, inserted>>
        /\ orphans' = orphans \cup ({stmt[t].handle} \ {0}) /\ stmt' = [stmt EXCEPT ![t] = NoStmt]
    BY <1>5 DEF D1Trap
  <2>2. CASE t \in Opened
    <3>1. orphans' = orphans \cup {stmt[t].handle}
      BY <2>1, <2>2, HasEntry
    <3> QED
      BY <2>1, <2>2, <3>1, Gone, RowsKept
  <2>3. CASE t \notin Opened
    <3>1. stmt[t] = NoStmt
      BY <2>3 DEF Opened
    <3>2. UNCHANGED <<stmt, orphans>>
      BY <2>1, <3>1, FirstValues DEF D1Types
    <3>3. Opened' = Opened /\ Handles' = Handles /\ \A u \in Tasks : Entry(u)' = Entry(u)
      BY <2>1, <3>2 DEF Opened, Handles, Entry
    <3> QED
      BY <2>1, <3>2, <3>3 DEF D1Types, D1Table, D1Rows, Apart, Opened
  <2> QED
    BY <2>2, <2>3
<1>6. ASSUME NEW v \in Values, D1Bind(t, v) PROVE D1Types' /\ D1Table' /\ D1Rows' /\ Apart(t)
  <2> DEFINE a == AsNumber(v)
             e == [Entry(t) EXCEPT !.arg = a]
             x == [stmt[t] EXCEPT !.bound = v]
  <2>1. /\ t \in Opened /\ UNCHANGED <<nextStmtId, rowid, inserted, orphans>>
        /\ d1stmts' = [d1stmts EXCEPT ![stmt[t].handle] = e] /\ stmt' = [stmt EXCEPT ![t] = x]
    BY <1>6 DEF D1Bind, Opened, Entry
  <2>2. stmt[t] \in StmtType /\ Entry(t) \in EntryType /\ Reading(stmt[t], Entry(t))
    BY <2>1, HasEntry DEF D1Rows
  <2>3. a \in Numbers
    BY DEF Numbers
  <2> HIDE DEF a
  <2>4. /\ e \in EntryType /\ x \in StmtType /\ x.handle = stmt[t].handle
        /\ e.arg = a /\ e.rows = Entry(t).rows /\ e.row = Entry(t).row /\ e.cursor = Entry(t).cursor
        /\ x.bound = v /\ x.ran = stmt[t].ran /\ x.asked = stmt[t].asked /\ x.seen = stmt[t].seen
    BY <2>2, <2>3 DEF EntryType, StmtType
  <2> HIDE DEF e, x
  <2>5. Reading(x, e)
    BY <2>2, <2>4 DEF Reading, a
  <2> QED
    BY <2>1, <2>4, <2>5, Advanced, RowsKept
<1> QED
  BY <1>1, <1>2, <1>3, <1>4, <1>5, <1>6

\* The end of a query.
LEMMA Ran ==
  ASSUME D1Types, D1Table, D1Rows, NEW t \in Opened, ~stmt[t].ran,
         NEW count \in Nat, D1Ran(t, count)
  PROVE  D1Types' /\ D1Table' /\ D1Rows' /\ Apart(t)
<1> DEFINE rows == [i \in 1..count |-> [value |-> Entry(t).arg, nth |-> i]]
           e == [Entry(t) EXCEPT !.rows = rows, !.cursor = 0]
           x == [stmt[t] EXCEPT !.ran = TRUE, !.asked = stmt[t].bound]
<1>1. /\ UNCHANGED <<nextStmtId, rowid, inserted, orphans>>
      /\ d1stmts' = [d1stmts EXCEPT ![stmt[t].handle] = e]
  BY DEF D1Ran, Entry
<1>2. /\ t \in Tasks /\ stmt[t] \in StmtType /\ Entry(t) \in EntryType
      /\ Reading(stmt[t], Entry(t))
  BY HasEntry DEF D1Rows
<1>3. stmt' = [stmt EXCEPT ![t] = x]
  BY <1>2 DEF D1Ran, D1Types, StmtType
<1>4. rows \in [1..count -> RowType]
  BY <1>2 DEF RowType, EntryType
<1>5. rows \in Seq(RowType)
  <2> HIDE DEF rows
  <2> QED
    BY <1>4, SeqDef
<1>6. Len(rows) = count /\ \A i \in 1..count : rows[i] = [value |-> Entry(t).arg, nth |-> i]
  OBVIOUS
<1> HIDE DEF rows
<1>7. /\ e \in EntryType /\ x \in StmtType /\ x.handle = stmt[t].handle
      /\ e.arg = Entry(t).arg /\ e.rows = rows /\ e.row = Entry(t).row /\ e.cursor = 0
      /\ x.bound = stmt[t].bound /\ x.ran = TRUE /\ x.asked = stmt[t].bound
      /\ x.seen = stmt[t].seen
  BY <1>2, <1>5 DEF EntryType, StmtType
<1> HIDE DEF e, x
<1>8. Reading(x, e)
  BY <1>2, <1>6, <1>7 DEF Reading
<1>9. D1Types' /\ D1Table' /\ Apart(t) /\ Opened' = Opened /\ stmt'[t] = x /\ Entry(t)' = e
  BY <1>1, <1>3, <1>7, Advanced
<1> QED
  BY <1>2, <1>8, <1>9, RowsKept

\* Every step keeps the invariant.
LEMMA D1InvNext == LockInv /\ D1Inv /\ [Next]_vars => D1Inv'
<1> SUFFICES ASSUME LockInv, D1Inv, [Next]_vars PROVE D1Inv'
  OBVIOUS
<1> USE DEF D1Inv
<1>1. CASE D1Idle
  <2>1. /\ UNCHANGED <<d1stmts, nextStmtId, lastD1Meta, rowid, stmt, inserted, orphans>>
        /\ Opened' = Opened /\ Handles' = Handles /\ \A u \in Tasks : Entry(u)' = Entry(u)
    BY <1>1 DEF D1Idle, d1Vars, Opened, Handles, Entry
  <2>2. D1Types' /\ D1Table' /\ D1Rows'
    BY <2>1 DEF D1Types, D1Table, D1Rows, Opened
  <2>3. D1Waits'
    BY <1>1, <2>1 DEF D1Idle, D1Waits
  <2> QED
    BY <2>2, <2>3
<1>2. ASSUME NEW t \in Tasks, D1Calls(t) PROVE D1Inv'
  <2>1. D1Types' /\ D1Table' /\ D1Rows' /\ Apart(t)
    BY <1>2, Called DEF D1Calls
  <2>2. inserted[t] = 0 /\ Others(t) /\ job'[t].pc # "call"
    BY <1>2 DEF D1Calls, D1Waits
  <2>3. UNCHANGED <<inserted, lastD1Meta>>
    BY <1>2 DEF D1Calls, D1Prepare, D1Step, D1Reset, D1Finalize, D1Trap, D1Bind
  <2> QED
    BY <2>1, <2>2, <2>3, WaitsKept
<1>3. ASSUME NEW t \in Tasks, D1Answers(t) PROVE D1Inv'
  <2>1. inserted[t] = 0 /\ Others(t) /\ job'[t].pc = "resume" /\ job[t].pc = "call"
    BY <1>3 DEF D1Answers, D1Waits
  <2>2. ASSUME job[t].call = "run", NEW count \in Nat, D1Ran(t, count) PROVE D1Inv'
    <3>1. t \in Opened /\ ~stmt[t].ran
      BY <2>1, <2>2 DEF D1Waits
    <3>2. D1Types' /\ D1Table' /\ D1Rows' /\ Apart(t)
      BY <2>2, <3>1, Ran
    <3>3. UNCHANGED <<inserted, lastD1Meta>>
      BY <2>2 DEF D1Ran
    <3> QED
      BY <2>1, <3>2, <3>3, WaitsKept
  <2>3. ASSUME job'[t].then = "meta", D1Executed(t) PROVE D1Inv'
    <3>1. /\ UNCHANGED <<d1stmts, nextStmtId, stmt, orphans>>
          /\ rowid' = rowid + 1 /\ lastD1Meta' = rowid + 1
          /\ inserted' = [inserted EXCEPT ![t] = rowid + 1]
      BY <2>3 DEF D1Executed
    <3>2. Opened' = Opened /\ Handles' = Handles /\ \A u \in Tasks : Entry(u)' = Entry(u)
      BY <3>1 DEF Opened, Handles, Entry
    <3>3. D1Types' /\ D1Table' /\ D1Rows'
      BY <3>1, <3>2 DEF D1Types, D1Table, D1Rows, Opened
    <3>4. \A u \in Tasks \ {t} : inserted[u] = 0
      <4> SUFFICES ASSUME NEW u \in Tasks \ {t}, inserted[u] # 0 PROVE FALSE
        OBVIOUS
      <4>1. Pc(u) \in Holding /\ Pc(t) \in Holding
        BY <2>1 DEF D1Waits, Holding, Pc
      <4> QED
        BY <4>1, OneHolder
    <3>5. /\ \A u \in Tasks \ {t} : inserted'[u] = 0 /\ job'[u] = job[u]
          /\ inserted'[t] = lastD1Meta'
      BY <2>1, <3>1, <3>4 DEF D1Types, Others
    <3>6. D1Waits'
      BY <2>1, <2>3, <3>1, <3>2, <3>5 DEF D1Waits
    <3> QED
      BY <3>3, <3>6
  <2> QED
    BY <1>3, <2>2, <2>3 DEF D1Answers
<1>4. ASSUME NEW t \in Tasks, D1Reads(t) PROVE D1Inv'
  <2>1. /\ UNCHANGED <<d1stmts, nextStmtId, lastD1Meta, rowid, stmt, orphans>>
        /\ inserted' = [inserted EXCEPT ![t] = 0] /\ Others(t) /\ job'[t].pc = "guest"
    BY <1>4 DEF D1Reads, D1LastInsertId
  <2>2. Opened' = Opened /\ Handles' = Handles /\ \A u \in Tasks : Entry(u)' = Entry(u)
    BY <2>1 DEF Opened, Handles, Entry
  <2>3. D1Types' /\ D1Table' /\ D1Rows'
    BY <2>1, <2>2 DEF D1Types, D1Table, D1Rows, Opened
  <2>4. /\ inserted'[t] = 0
        /\ \A u \in Tasks \ {t} : inserted'[u] = inserted[u] /\ job'[u] = job[u]
    BY <2>1 DEF D1Types, Others
  <2>5. D1Waits'
    BY <2>1, <2>2, <2>4 DEF D1Waits
  <2> QED
    BY <2>3, <2>5
<1>5. D1Idle \/ \E t \in Tasks : D1Moves(t)
  BY D1Steps DEF LockInv, DispatchInv, ChainType
<1> QED
  BY <1>1, <1>2, <1>3, <1>4, <1>5 DEF D1Moves

LEMMA D1Held == Spec => []D1Inv
BY LockHeld, D1InvInit, D1InvNext, PTL DEF Spec

\* A handler reads the rows of the query it ran, with the parameter it had bound, and the
\* insert id of its own d1_exec (index.mjs:128-262, db/d1.zig).
THEOREM OwnAnswers == Spec => []ReadsOwnAnswers
<1>1. D1Inv => ReadsOwnAnswers
  <2> SUFFICES ASSUME D1Inv, NEW t \in Tasks, stmt[t] # NoStmt, Entry(t).row # NoRow
               PROVE  LET row == Entry(t).row IN
                      /\ row.nth = stmt[t].seen
                      /\ CASE stmt[t].asked.type = "text" ->
                                ColumnTextCopy(row.value, ColumnTextLen(row.value)) = stmt[t].asked.n
                           [] stmt[t].asked.type = "int" /\ stmt[t].asked.n <= SafeInt ->
                                ColumnInt(row.value) = stmt[t].asked.n
                           [] OTHER -> TRUE
    BY DEF ReadsOwnAnswers, D1Inv, D1Waits
  <2>1. Entry(t).row = [value |-> AsNumber(stmt[t].asked), nth |-> stmt[t].seen]
    BY DEF D1Inv, D1Rows, Reading, Opened
  <2>2. Entry(t).row.nth = stmt[t].seen /\ Entry(t).row.value = AsNumber(stmt[t].asked)
    BY <2>1
  <2>3. CASE stmt[t].asked.type = "text"
    BY <2>2, <2>3 DEF AsNumber, ColumnTextCopy, ColumnTextLen
  <2>4. CASE stmt[t].asked.type = "int" /\ stmt[t].asked.n <= SafeInt
    BY <2>2, <2>4 DEF AsNumber, ColumnInt
  <2> QED
    BY <2>2, <2>3, <2>4
<1> QED
  BY <1>1, D1Held, PTL

-----------------------------------------------------------------------------
(* Buffers                                                                 *)

\* What a task in state j has in the guest's heap, and what it may have been answered.
HasRequest(t, j) == \/ j.pc \in {"guest", "call", "resume", "return"}
                    \/ t \in Fetches /\ j.pc = "done" /\ j.answer = "trap"
HasResponse(j)   == j.pc = "return" /\ j.answer \in Response
AnswerOf(t, j)   == /\ t \in Batches => j.answer \notin Response
                    /\ t \in Fetches /\ j.pc \in {"idle", "instance", "ready", "line", "body"} =>
                          j.answer = ""

HeapInv ==
    /\ heap \subseteq Tasks \X {"request", "response"}
    /\ \A t \in Tasks : /\ <<t, "request">> \in heap <=> HasRequest(t, job[t])
                        /\ <<t, "response">> \in heap <=> HasResponse(job[t])
                        /\ AnswerOf(t, job[t])

\* A step of one task, and what it does to its buffers.
LEMMA OneHeap ==
  ASSUME JobType, HeapInv, NEW t \in Tasks, NEW j \in Jobs, job' = [job EXCEPT ![t] = j],
         heap' \subseteq Tasks \X {"request", "response"},
         \A u \in Tasks \ {t}, w \in {"request", "response"} : <<u, w>> \in heap' <=> <<u, w>> \in heap,
         <<t, "request">> \in heap' <=> HasRequest(t, j),
         <<t, "response">> \in heap' <=> HasResponse(j),
         AnswerOf(t, j)
  PROVE  HeapInv'
<1>1. job'[t] = j /\ \A u \in Tasks \ {t} : job'[u] = job[u]
  BY OneJob DEF Others
<1> QED
  BY <1>1 DEF HeapInv

\* The actions of a task keep it.
LEMMA HeapTask ==
  ASSUME JobType, links \in Seq(Links), HeapInv, NEW t \in Tasks, TaskNext(t)
  PROVE  HeapInv'
<1>0. /\ job[t] \in Jobs /\ job \in [Tasks -> Jobs] /\ Len(links) \in Nat
  BY LenProperties DEF JobType
<1>h. /\ heap \subseteq Tasks \X {"request", "response"}
      /\ <<t, "request">> \in heap <=> HasRequest(t, job[t])
      /\ <<t, "response">> \in heap <=> HasResponse(job[t])
      /\ AnswerOf(t, job[t])
  BY DEF HeapInv
<1>w. /\ "done" \in Pcs /\ "line" \in Pcs /\ "body" \in Pcs /\ "guest" \in Pcs
      /\ "call" \in Pcs /\ "resume" \in Pcs /\ "return" \in Pcs /\ "ready" \in Pcs
      /\ "" \in Thens /\ "step" \in Thens /\ "meta" \in Thens /\ "" \in Calls
      /\ {"response", "malformed", "", "0", "error", "trap"} \subseteq Answers
  BY Words
<1>1. CASE RetryAll(t)
  <2> DEFINE j == [job[t] EXCEPT !.pc = "done"]
  <2>1. j \in Jobs /\ j.pc = "done" /\ j.answer = job[t].answer
    BY <1>0, <1>w, D1Jobs DEF Jobs
  <2>2. /\ job' = [job EXCEPT ![t] = j] /\ UNCHANGED heap /\ job[t].pc = "ready"
        /\ t \in Batches
    BY <1>1, <1>0 DEF RetryAll, Turn, Go, Pc
  <2> HIDE DEF j
  <2> QED
    BY <1>0, <1>h, <2>1, <2>2, TasksAssumption, OneHeap DEF HasRequest, HasResponse, AnswerOf
<1>2. CASE Enqueue(t)
  <2> DEFINE n == Len(links) + 1
             j == [job[t] EXCEPT !.pc = "line", !.link = n]
  <2>1. n \in Nat
    BY <1>0
  <2>2. job' = [job EXCEPT ![t] = j] /\ UNCHANGED heap /\ job[t].pc = "ready"
    BY <1>2, <1>0 DEF Enqueue, Turn, Pc
  <2> HIDE DEF n
  <2>3. j \in Jobs /\ j.pc = "line" /\ j.answer = job[t].answer
    BY <1>0, <1>w, <2>1, D1Jobs DEF Jobs
  <2> HIDE DEF j
  <2> QED
    BY <1>0, <1>h, <2>2, <2>3, OneHeap DEF HasRequest, HasResponse, AnswerOf
<1>3. CASE Begin(t)
  <2> DEFINE pc == IF t \in Fetches THEN "body" ELSE "guest"
             j == [job[t] EXCEPT !.pc = pc, !.answer = ""]
  <2>1. pc \in Pcs /\ pc \in {"body", "guest"}
    BY <1>w
  <2>2. /\ job' = [job EXCEPT ![t] = j] /\ job[t].pc = "line"
        /\ heap' = IF t \in Fetches THEN heap ELSE heap \cup {<<t, "request">>}
    BY <1>3, <1>0 DEF Begin, Turn, Pc
  <2>3. j \in Jobs /\ j.pc = pc /\ j.answer = ""
    <3> HIDE DEF pc
    <3> QED
      BY <1>0, <1>w, <2>1, D1Jobs DEF Jobs
  <2>4. "" \notin Response
    BY DEF Response
  <2> HIDE DEF j
  <2>5. ~HasRequest(t, job[t]) /\ ~HasResponse(job[t])
    BY <2>2 DEF HasRequest, HasResponse
  <2>6. /\ HasRequest(t, j) <=> t \notin Fetches
        /\ ~HasResponse(j) /\ AnswerOf(t, j)
    BY <2>3, <2>4 DEF HasRequest, HasResponse, AnswerOf
  <2>7. /\ heap' \subseteq Tasks \X {"request", "response"}
        /\ \A u \in Tasks \ {t}, w \in {"request", "response"} :
              <<u, w>> \in heap' <=> <<u, w>> \in heap
        /\ <<t, "request">> \in heap' <=> HasRequest(t, j)
        /\ <<t, "response">> \in heap' <=> HasResponse(j)
    <3> HIDE DEF pc
    <3> QED
      BY <1>h, <2>2, <2>5, <2>6
  <2> QED
    BY <2>2, <2>3, <2>6, <2>7, OneHeap
<1>4. CASE ReadBody(t) \/ BodyAborts(t)
  <2> DEFINE j(pc) == [job[t] EXCEPT !.pc = pc]
  <2>1. \A pc \in {"guest", "done"} : j(pc) \in Jobs /\ j(pc).pc = pc /\ j(pc).answer = job[t].answer
    BY <1>0, <1>w, D1Jobs DEF Jobs
  <2>2. job[t].pc = "body"
    BY <1>4 DEF ReadBody, BodyAborts, Turn, Pc
  <2>3. CASE ReadBody(t)
    <3>1. job' = [job EXCEPT ![t] = j("guest")] /\ heap' = heap \cup {<<t, "request">>}
      BY <2>3 DEF ReadBody, Go
    <3> HIDE DEF j
    <3>2. ~HasRequest(t, job[t]) /\ ~HasResponse(job[t])
      BY <2>2 DEF HasRequest, HasResponse
    <3>3. HasRequest(t, j("guest")) /\ ~HasResponse(j("guest")) /\ AnswerOf(t, j("guest"))
      BY <1>h, <2>1 DEF HasRequest, HasResponse, AnswerOf
    <3>4. /\ heap' \subseteq Tasks \X {"request", "response"}
          /\ \A u \in Tasks \ {t}, w \in {"request", "response"} :
                <<u, w>> \in heap' <=> <<u, w>> \in heap
          /\ <<t, "request">> \in heap' /\ <<t, "response">> \notin heap'
      BY <1>h, <3>1, <3>2
    <3> QED
      BY <2>1, <3>1, <3>3, <3>4, OneHeap
  <2>4. CASE BodyAborts(t)
    <3>1. job' = [job EXCEPT ![t] = j("done")] /\ UNCHANGED heap
      BY <2>4 DEF BodyAborts, Go
    <3>2. t \in Fetches => job[t].answer = ""
      BY <1>h, <2>2 DEF AnswerOf
    <3> HIDE DEF j
    <3> QED
      BY <1>0, <1>h, <2>1, <2>2, <3>1, <3>2, OneHeap DEF HasRequest, HasResponse, AnswerOf
  <2> QED
    BY <1>4, <2>3, <2>4
<1>5. CASE SyncD1(t) \/ Continue(t) \/ Suspend(t) \/ Settle(t) \/ SettleError(t) \/ Resume(t)
  <2>1. job[t].pc \in {"guest", "call", "resume"} /\ UNCHANGED heap
    BY <1>5 DEF SyncD1, May, Handler, Continue, Suspend, Settle, SettleError, Resume, Turn, Pc
  <2>2. PICK j \in Jobs : /\ job' = [job EXCEPT ![t] = j] /\ j.answer = job[t].answer
                          /\ j.pc \in {"guest", "call", "resume"}
    <3>1. CASE SyncD1(t)
      <4> DEFINE n == job[t].ops + 1
                 j == [job[t] EXCEPT !.ops = n]
      <4>1. n \in Nat
        BY <1>0 DEF Jobs
      <4>2. job' = [job EXCEPT ![t] = j]
        BY <3>1, <1>0 DEF SyncD1, Op
      <4> HIDE DEF n
      <4>3. j \in Jobs /\ j.answer = job[t].answer /\ j.pc = job[t].pc
        BY <1>0, <4>1, D1Jobs DEF Jobs
      <4> QED
        BY <2>1, <4>2, <4>3
    <3>2. CASE Continue(t)
      <4> DEFINE j == [job[t] EXCEPT !.then = ""]
      <4>1. job' = [job EXCEPT ![t] = j]
        BY <3>2, <1>0 DEF Continue
      <4>2. j \in Jobs /\ j.answer = job[t].answer /\ j.pc = job[t].pc
        BY <1>0, <1>w, D1Jobs DEF Jobs
      <4> QED
        BY <2>1, <4>1, <4>2
    <3>3. CASE Suspend(t)
      <4> DEFINE n == job[t].ops + 1
                 j(c) == IF jspi THEN [job[t] EXCEPT !.pc = "call", !.call = c, !.ops = n]
                         ELSE [job[t] EXCEPT !.ops = n]
      <4>1. PICK c \in Suspending(t) : job' = [job EXCEPT ![t] = j(c)]
        BY <3>3 DEF Suspend
      <4>2. c \in Calls /\ n \in Nat
        BY <1>0, SuspendingCalls DEF Jobs
      <4> HIDE DEF n
      <4>3. /\ j(c) \in Jobs /\ j(c).answer = job[t].answer
            /\ j(c).pc \in {"call", job[t].pc}
        BY <1>0, <1>w, <4>2, D1Jobs DEF Jobs
      <4> HIDE DEF j
      <4> QED
        BY <2>1, <4>1, <4>3
    <3>4. CASE Settle(t)
      <4> DEFINE then == CASE job[t].call = "run" -> "step" [] job[t].call = "exec" -> "meta"
                           [] OTHER -> ""
                 j == [job[t] EXCEPT !.pc = "resume", !.call = "", !.then = then]
      <4>1. then \in Thens
        BY <1>w
      <4>2. job' = [job EXCEPT ![t] = j]
        BY <3>4 DEF Settle
      <4> HIDE DEF then
      <4>3. j \in Jobs /\ j.answer = job[t].answer /\ j.pc = "resume"
        BY <1>0, <1>w, <4>1, D1Jobs DEF Jobs
      <4> QED
        BY <4>2, <4>3
    <3>5. CASE SettleError(t)
      <4> DEFINE j == [job[t] EXCEPT !.pc = "resume", !.call = ""]
      <4>1. job' = [job EXCEPT ![t] = j]
        BY <3>5, <1>0 DEF SettleError
      <4>2. j \in Jobs /\ j.answer = job[t].answer /\ j.pc = "resume"
        BY <1>0, <1>w, D1Jobs DEF Jobs
      <4> QED
        BY <4>1, <4>2
    <3>6. CASE Resume(t)
      <4> DEFINE j == [job[t] EXCEPT !.pc = "guest"]
      <4>1. job' = [job EXCEPT ![t] = j]
        BY <3>6, <1>0 DEF Resume, Go
      <4>2. j \in Jobs /\ j.answer = job[t].answer /\ j.pc = "guest"
        BY <1>0, <1>w, D1Jobs DEF Jobs
      <4> QED
        BY <4>1, <4>2
    <3> QED
      BY <1>5, <3>1, <3>2, <3>3, <3>4, <3>5, <3>6
  <2> QED
    BY <1>0, <1>h, <2>1, <2>2, OneHeap DEF HasRequest, HasResponse, AnswerOf
<1>6. CASE Cleanup(t) \/ UploadFails(t)
  <2>1. UNCHANGED <<job, heap>>
    BY <1>6 DEF Cleanup, UploadFails, hostVars
  <2> QED
    BY <2>1 DEF HeapInv
<1>7. CASE Respond(t)
  <2> DEFINE j(a) == [job[t] EXCEPT !.pc = "return", !.answer = a]
  <2>1. PICK a \in {"response", "malformed"} : job' = [job EXCEPT ![t] = j(a)]
    BY <1>7, <1>0 DEF Respond
  <2>2. /\ heap' = heap \cup {<<t, "response">>} /\ job[t].pc = "guest" /\ t \in Fetches
    BY <1>7 DEF Respond, Handler, Pc
  <2>3. j(a) \in Jobs /\ j(a).pc = "return" /\ j(a).answer \in Response
    <3>1. a \in Answers
      BY <1>w
    <3> QED
      BY <1>0, <1>w, <2>1, <3>1, D1Jobs DEF Jobs, Response
  <2> HIDE DEF j
  <2>4. HasRequest(t, job[t]) /\ HasRequest(t, j(a)) /\ HasResponse(j(a))
    BY <2>2, <2>3 DEF HasRequest, HasResponse
  <2>5. AnswerOf(t, j(a))
    BY <2>2, <2>3, TasksAssumption DEF AnswerOf
  <2>6. /\ heap' \subseteq Tasks \X {"request", "response"}
        /\ \A u \in Tasks \ {t}, w \in {"request", "response"} :
              <<u, w>> \in heap' <=> <<u, w>> \in heap
        /\ <<t, "request">> \in heap' /\ <<t, "response">> \in heap'
    BY <1>h, <2>2, <2>4
  <2> QED
    BY <2>1, <2>3, <2>4, <2>5, <2>6, OneHeap
<1>8. CASE Consume(t) \/ ReturnError(t) \/ Trap(t)
  <2> DEFINE j(a) == [job[t] EXCEPT !.pc = "return", !.answer = a]
  <2>1. PICK a \in {"0", "error", "trap"} : job' = [job EXCEPT ![t] = j(a)]
    BY <1>8, <1>0 DEF Consume, ReturnError, Trap
  <2>2. UNCHANGED heap /\ job[t].pc = "guest"
    BY <1>8 DEF Consume, ReturnError, Trap, Handler, Pc
  <2>3. j(a) \in Jobs /\ j(a).pc = "return" /\ j(a).answer \notin Response
    <3>1. a \in Answers
      BY <1>w
    <3> QED
      BY <1>0, <1>w, <2>1, <3>1, D1Jobs DEF Jobs, Response
  <2> HIDE DEF j
  <2> QED
    BY <1>0, <1>h, <2>1, <2>2, <2>3, OneHeap DEF HasRequest, HasResponse, AnswerOf
<1>9. CASE FinishFetch(t)
  <2> DEFINE j == [job[t] EXCEPT !.pc = "done", !.ops = 0]
  <2>1. j \in Jobs /\ j.pc = "done" /\ j.answer = job[t].answer
    BY <1>0, <1>w, D1Jobs DEF Jobs
  <2>2. /\ job' = [job EXCEPT ![t] = j] /\ job[t].pc = "return" /\ t \in Fetches
        /\ heap' = IF job[t].answer = "trap" THEN heap
                   ELSE heap \ {<<t, "request">>, <<t, "response">>}
    BY <1>9, <1>0 DEF FinishFetch, Turn, Pc
  <2>3. "trap" \notin Response
    BY DEF Response
  <2> HIDE DEF j
  <2>4. CASE job[t].answer = "trap"
    BY <1>0, <1>h, <2>1, <2>2, <2>3, <2>4, TasksAssumption, OneHeap DEF HasRequest, HasResponse, AnswerOf
  <2>5. CASE job[t].answer # "trap"
    <3>1. heap' = heap \ {<<t, "request">>, <<t, "response">>}
      BY <2>2, <2>5
    <3> QED
      BY <1>0, <1>h, <2>1, <2>2, <2>5, <3>1, TasksAssumption, OneHeap DEF HasRequest, HasResponse, AnswerOf
  <2> QED
    BY <2>4, <2>5
<1>10. CASE FinishMessage(t)
  <2> DEFINE k == job[t].at + 1
             pc == IF job[t].at = plan[t].dispatches THEN "done" ELSE "ready"
             j == [job[t] EXCEPT !.pc = pc, !.ops = 0, !.at = k]
  <2>1. k \in Nat /\ pc \in Pcs /\ pc \in {"done", "ready"}
    <3>1. k \in Nat
      BY <1>0 DEF Jobs
    <3>2. pc \in Pcs /\ pc \in {"done", "ready"}
      BY <1>w
    <3> QED
      BY <3>1, <3>2
  <2>2. /\ job' = [job EXCEPT ![t] = j] /\ job[t].pc = "return" /\ t \in Batches
        /\ heap' = heap \ {<<t, "request">>}
    BY <1>10, <1>0 DEF FinishMessage, Turn, Pc
  <2> HIDE DEF k, pc
  <2>3. j \in Jobs /\ j.pc = pc /\ j.answer = job[t].answer
    BY <1>0, <2>1, D1Jobs DEF Jobs
  <2> HIDE DEF j
  <2>4. ~HasRequest(t, j) /\ ~HasResponse(job[t]) /\ ~HasResponse(j) /\ AnswerOf(t, j)
    BY <1>h, <2>1, <2>2, <2>3, TasksAssumption DEF HasRequest, HasResponse, AnswerOf
  <2>5. /\ heap' \subseteq Tasks \X {"request", "response"}
        /\ \A u \in Tasks \ {t}, w \in {"request", "response"} :
              <<u, w>> \in heap' <=> <<u, w>> \in heap
        /\ <<t, "request">> \notin heap' /\ <<t, "response">> \notin heap'
    BY <1>h, <2>2, <2>4
  <2> QED
    BY <2>2, <2>3, <2>4, <2>5, OneHeap
<1> QED
  BY <1>1, <1>2, <1>3, <1>4, <1>5, <1>6, <1>7, <1>8, <1>9, <1>10 DEF TaskNext

\* And so do the arrival of a task and the end of an instantiation.
LEMMA HeapInvInit == Init => HeapInv
<1> SUFFICES ASSUME Init PROVE HeapInv
  OBVIOUS
<1>1. heap = {} /\ \A t \in Tasks : job[t].pc = "idle" /\ job[t].answer = ""
  BY DEF Init
<1>2. "" \notin Response
  BY DEF Response
<1> QED
  BY <1>1, <1>2 DEF HeapInv, HasRequest, HasResponse, AnswerOf

LEMMA HeapInvNext == LockInv /\ HeapInv /\ [Next]_vars => HeapInv'
<1> SUFFICES ASSUME LockInv, HeapInv, [Next]_vars PROVE HeapInv'
  OBVIOUS
<1>0. JobType /\ links \in Seq(Links)
  BY DEF LockInv, DispatchInv, ChainType
<1>1. ASSUME NEW t \in Tasks, TaskNext(t) PROVE HeapInv'
  BY <1>0, <1>1, HeapTask
<1>2. CASE UNCHANGED <<job, heap>>
  BY <1>2 DEF HeapInv
<1>3. ASSUME UNCHANGED heap,
             \A t \in Tasks :
                \/ job'[t] = job[t]
                \/ /\ job[t].pc \in {"idle", "instance"} /\ job'[t].answer = job[t].answer
                   /\ job'[t].pc \in {"instance", "ready", "done"}
      PROVE  HeapInv'
  <2>1. ASSUME NEW t \in Tasks
        PROVE  /\ HasRequest(t, job'[t]) <=> HasRequest(t, job[t])
               /\ HasResponse(job'[t]) <=> HasResponse(job[t])
               /\ AnswerOf(t, job'[t])
    <3>1. AnswerOf(t, job[t])
      BY DEF HeapInv
    <3>2. CASE job'[t] = job[t]
      BY <3>1, <3>2
    <3>3. CASE job'[t] # job[t]
      <4>1. /\ job[t].pc \in {"idle", "instance"} /\ job'[t].answer = job[t].answer
            /\ job'[t].pc \in {"instance", "ready", "done"}
        BY <1>3, <3>3
      <4>2. t \in Fetches => job[t].answer = ""
        BY <3>1, <4>1 DEF AnswerOf
      <4> QED
        BY <3>1, <4>1, <4>2 DEF HasRequest, HasResponse, AnswerOf
    <3> QED
      BY <3>2, <3>3
  <2> QED
    BY <1>3, <2>1 DEF HeapInv
<1>4. ASSUME NEW t \in Tasks, Arrive(t) PROVE HeapInv'
  <2> DEFINE pc == IF instance THEN "ready" ELSE "instance"
  <2>1. /\ UNCHANGED heap /\ job' = [job EXCEPT ![t].pc = pc]
        /\ job[t].pc = "idle" /\ pc \in {"instance", "ready"}
    BY <1>4 DEF Arrive, Go, Turn, Pc
  <2> HIDE DEF pc
  <2>2. job \in [Tasks -> Jobs] /\ job[t] \in Jobs
    BY <1>0 DEF JobType
  <2>3. /\ job'[t].pc = pc /\ job'[t].answer = job[t].answer
        /\ \A u \in Tasks \ {t} : job'[u] = job[u]
    BY <2>1, <2>2 DEF Jobs
  <2> QED
    BY <1>3, <2>1, <2>3
<1>5. ASSUME NEW outcome, Instantiated(outcome) PROVE HeapInv'
  <2> DEFINE pc == IF outcome \in {"ok", "unregistered"} THEN "ready" ELSE "done"
  <2>1. /\ UNCHANGED heap /\ pc \in {"ready", "done"}
        /\ job' = [t \in Tasks |-> IF job[t].pc # "instance" THEN job[t]
                                   ELSE [job[t] EXCEPT !.pc = pc]]
    BY <1>5 DEF Instantiated, Pc
  <2> HIDE DEF pc
  <2>2. ASSUME NEW t \in Tasks, job[t].pc = "instance"
        PROVE  job'[t].pc = pc /\ job'[t].answer = job[t].answer
    <3>1. job[t] \in Jobs
      BY <1>0 DEF JobType
    <3> QED
      BY <2>1, <2>2, <3>1 DEF Jobs
  <2>3. \A t \in Tasks : job[t].pc # "instance" => job'[t] = job[t]
    BY <2>1
  <2> QED
    BY <1>3, <2>1, <2>2, <2>3
<1> QED
  BY <1>1, <1>2, <1>4, <1>5 DEF Next, Start, Ended, vars, hostVars

LEMMA HeapHeld == Spec => []HeapInv
BY LockHeld, HeapInvInit, HeapInvNext, PTL DEF Spec

\* Every buffer, statement and entry is that of a dispatch in progress, or is what a
\* trap or an abandoned upload left (index.mjs:128-414, 528-627).
THEOREM NothingLeft == Spec => []Accounted
<1>1. D1Inv => DOMAIN d1stmts = {stmt[t].handle : t \in {u \in Tasks : stmt[u] # NoStmt}} \cup orphans
  BY DEF D1Inv, D1Table, Handles, Opened
<1>2. R2Inv => DOMAIN r2ops = {xfer[t].id : t \in {u \in Tasks : xfer[u].kind # "none"}} \cup abandoned
  BY DEF R2Inv, R2Table, Ids, Transfers
<1>3. HeapInv => heap = {<<t, "request">> : t \in {u \in Tasks :
                    \/ Pc(u) \in {"guest", "call", "resume", "return"}
                    \/ u \in Fetches /\ Pc(u) = "done" /\ job[u].answer = "trap"}}
         \cup {<<t, "response">> : t \in {u \in Tasks :
                    Pc(u) = "return" /\ job[u].answer \in {"response", "malformed"}}}
  <2> SUFFICES ASSUME HeapInv
      PROVE heap = {<<t, "request">> : t \in {u \in Tasks : HasRequest(u, job[u])}}
              \cup {<<t, "response">> : t \in {u \in Tasks : HasResponse(job[u])}}
    BY DEF HasRequest, HasResponse, Response, Pc
  <2>1. ASSUME NEW b \in heap
        PROVE  \/ \E t \in Tasks : HasRequest(t, job[t]) /\ b = <<t, "request">>
               \/ \E t \in Tasks : HasResponse(job[t]) /\ b = <<t, "response">>
    <3>1. PICK t \in Tasks, w \in {"request", "response"} : b = <<t, w>>
      BY <2>1 DEF HeapInv
    <3> QED
      BY <2>1, <3>1 DEF HeapInv
  <2>2. \A t \in Tasks : /\ HasRequest(t, job[t]) => <<t, "request">> \in heap
                         /\ HasResponse(job[t]) => <<t, "response">> \in heap
    BY DEF HeapInv
  <2> QED
    BY <2>1, <2>2
<1> QED
  BY <1>1, <1>2, <1>3, D1Held, R2Held, HeapHeld, PTL DEF Accounted
=============================================================================
