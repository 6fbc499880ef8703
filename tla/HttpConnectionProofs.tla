------------------------ MODULE HttpConnectionProofs ------------------------
(***************************************************************************)
(* What a connection promises, for any requests a peer may pipeline, in    *)
(* pieces of any size, and for any limits: no request is answered twice,   *)
(* out of order or beyond the limits, and no leftover is lost.             *)
(***************************************************************************)
EXTENDS HttpConnection, TLAPS, FiniteSetTheorems, SequenceTheorems, WellFoundedInduction

-----------------------------------------------------------------------------
(* Sums                                                                    *)

\* A set of naturals has a least element: its initial segments are finite sets, and
\* strict inclusion is well founded on those.
LEMMA Least ==
  ASSUME NEW T, T \subseteq Nat, T # {}
  PROVE  \E m \in T : \A k \in T : m <= k
<1> DEFINE Segments == {0..(n - 1) : n \in T}
<1>1. Segments \subseteq FiniteSubsetsOf(Nat) /\ Segments # {}
  <2>1. ASSUME NEW n \in T PROVE 0..(n - 1) \in FiniteSubsetsOf(Nat)
    <3>1. n - 1 \in Int /\ 0..(n - 1) \in SUBSET Nat
      OBVIOUS
    <3> QED
      BY <3>1, FS_Interval DEF FiniteSubsetsOf
  <2> QED
    BY <2>1
<1>2. PICK P \in Segments : \A Q \in Segments : <<Q, P>> \notin StrictSubsetOrdering(Nat)
  <2> HIDE DEF Segments
  <2> QED
    BY <1>1, FS_StrictSubsetOrderingWellFounded, WFMin
<1>3. PICK m \in T : P = 0..(m - 1)
  OBVIOUS
<1>4. ASSUME NEW k \in T, k < m PROVE FALSE
  <2> DEFINE Q == 0..(k - 1)
  <2>1. Q \subseteq P /\ Q # P /\ Q \in Segments
    BY <1>3, <1>4
  <2>2. Q \in SUBSET Nat /\ P \in SUBSET Nat
    BY <1>3, <1>4
  <2> HIDE DEF Q
  <2> QED
    BY <1>2, <2>1, <2>2 DEF StrictSubsetOrdering
<1> QED
  BY <1>4

LEMMA Greatest ==
  ASSUME NEW n \in Nat, NEW T, T \subseteq 0..n, T # {}
  PROVE  \E m \in T : \A k \in T : m >= k
<1> DEFINE Rest == {n - k : k \in T}
<1>1. Rest \subseteq Nat /\ Rest # {}
  <2>1. ASSUME NEW k \in T PROVE n - k \in Nat
    <3>1. k \in 0..n
      OBVIOUS
    <3> QED
      BY <3>1
  <2> QED
    BY <2>1
<1>2. PICK r \in Rest : \A k \in Rest : r <= k
  <2> HIDE DEF Rest
  <2> QED
    BY <1>1, Least
<1>3. PICK m \in T : r = n - m
  OBVIOUS
<1>4. ASSUME NEW k \in T PROVE m >= k
  <2>1. n - k \in Rest
    OBVIOUS
  <2>2. n - m <= n - k
    BY <1>2, <1>3, <2>1
  <2> QED
    BY <2>2
<1> QED
  BY <1>4

\* g has the sums of the first n sizes.
IsSums(g, sizes, n) ==
    /\ g \in [0..n -> Nat] /\ g[0] = 0
    /\ \A i \in 1..n : g[i] = g[i - 1] + sizes[i]

LEMMA SumsExist ==
  ASSUME NEW sizes \in Seq(Nat)
  PROVE  \A n \in 0..Len(sizes) : \E g : IsSums(g, sizes, n)
<1> DEFINE Bad == {n \in 0..Len(sizes) : ~\E g : IsSums(g, sizes, n)}
<1> SUFFICES ASSUME Bad # {} PROVE FALSE
  OBVIOUS
<1>1. PICK k \in Bad : \A j \in Bad : k <= j
  <2>1. Bad \subseteq Nat
    OBVIOUS
  <2> HIDE DEF Bad
  <2> QED
    BY <2>1, Least
<1>2. CASE k = 0
  <2>1. IsSums([i \in 0..0 |-> 0], sizes, 0)
    BY DEF IsSums
  <2> QED
    BY <1>2, <2>1
<1>3. CASE k # 0
  <2>1. k - 1 \in 0..Len(sizes) /\ k - 1 \notin Bad /\ k \in 1..Len(sizes)
    BY <1>1, <1>3
  <2>2. PICK g : IsSums(g, sizes, k - 1)
    BY <2>1
  <2> DEFINE h == [i \in 0..k |-> IF i = k THEN g[k - 1] + sizes[k] ELSE g[i]]
  <2>3. sizes[k] \in Nat /\ g \in [0..(k - 1) -> Nat] /\ g[k - 1] \in Nat /\ k \in Nat
    BY <2>1, <2>2 DEF IsSums
  <2>4. h \in [0..k -> Nat] /\ h[0] = 0
    BY <2>1, <2>2, <2>3 DEF IsSums
  <2>5. ASSUME NEW i \in 1..k PROVE h[i] = h[i - 1] + sizes[i]
    <3>1. CASE i = k
      BY <2>1, <3>1
    <3>2. CASE i # k
      <4>1. i \in 1..(k - 1) /\ i - 1 # k /\ i \in 0..k /\ i - 1 \in 0..k
        BY <2>1, <3>2
      <4>2. g[i] = g[i - 1] + sizes[i]
        BY <2>2, <4>1 DEF IsSums
      <4> QED
        BY <3>2, <4>1, <4>2
    <3> QED
      BY <3>1, <3>2
  <2>6. IsSums(h, sizes, k)
    BY <2>4, <2>5 DEF IsSums
  <2> QED
    BY <2>6
<1> QED
  BY <1>2, <1>3

LEMMA SumsType ==
  ASSUME NEW sizes \in Seq(Nat)
  PROVE  IsSums(Sums(sizes), sizes, Len(sizes))
<1> DEFINE n == Len(sizes)
           Eqn(f) == f = [i \in 0..n |-> IF i = 0 THEN 0 ELSE f[i - 1] + sizes[i]]
<1>0. n \in Nat
  BY LenProperties
<1>1. Sums(sizes) = CHOOSE f : Eqn(f)
  BY DEF Sums
<1>2. PICK g : IsSums(g, sizes, n)
  BY <1>0, SumsExist
<1>3. Eqn(g)
  BY <1>0, <1>2 DEF IsSums
<1>4. Eqn(Sums(sizes))
  <2> HIDE DEF Eqn
  <2> QED
    BY <1>1, <1>3
<1> DEFINE f == Sums(sizes)
           Bad == {i \in 0..n : f[i] # g[i]}
<1> HIDE DEF f
<1>5. Bad = {}
  <2> SUFFICES ASSUME Bad # {} PROVE FALSE
    OBVIOUS
  <2>1. PICK k \in Bad : \A j \in Bad : k <= j
    <3>1. Bad \subseteq Nat
      BY <1>0
    <3> HIDE DEF Bad
    <3> QED
      BY <3>1, Least
  <2>2. f = [i \in 0..n |-> IF i = 0 THEN 0 ELSE f[i - 1] + sizes[i]]
    BY <1>4 DEF f
  <2>3. CASE k = 0
    BY <1>2, <2>1, <2>2, <2>3 DEF IsSums
  <2>4. CASE k # 0
    <3>1. k - 1 \in 0..n /\ k - 1 \notin Bad /\ k \in 1..n
      BY <1>0, <2>1, <2>4
    <3>2. f[k] = f[k - 1] + sizes[k] /\ f[k - 1] = g[k - 1]
      BY <2>2, <2>4, <3>1
    <3> QED
      BY <1>2, <2>1, <3>1, <3>2 DEF IsSums
  <2> QED
    BY <2>3, <2>4
<1>6. f = g
  <2>1. f = [i \in 0..n |-> f[i]] /\ g = [i \in 0..n |-> g[i]]
    BY <1>2, <1>4 DEF IsSums, f
  <2> QED
    BY <1>5, <2>1
<1> QED
  BY <1>2, <1>6 DEF f

\* Sums grow with every size.
LEMMA SumsGrow ==
  ASSUME NEW sizes \in Seq(Nat), NEW i \in 0..Len(sizes), NEW j \in 0..Len(sizes), i <= j
  PROVE  Sums(sizes)[i] <= Sums(sizes)[j]
<1> DEFINE n == Len(sizes)
           f == Sums(sizes)
           Bad == {k \in i..n : f[k] < f[i]}
<1>0. n \in Nat /\ i \in 0..n /\ j \in 0..n
  BY LenProperties
<1>1. f \in [0..n -> Nat] /\ \A k \in 1..n : f[k] = f[k - 1] + sizes[k]
  BY SumsType DEF IsSums
<1>2. \A k \in 1..n : sizes[k] \in Nat
  OBVIOUS
<1> HIDE DEF f, n
<1>3. Bad = {}
  <2> SUFFICES ASSUME Bad # {} PROVE FALSE
    OBVIOUS
  <2>1. PICK k \in Bad : \A m \in Bad : k <= m
    <3>1. Bad \subseteq Nat
      BY <1>0
    <3> HIDE DEF Bad
    <3> QED
      BY <3>1, Least
  <2>2. k \in i..n /\ f[k] < f[i] /\ f[i] \in Nat /\ k # i
    BY <1>0, <1>1, <2>1
  <2>3. k \in 1..n /\ k - 1 \in i..n /\ k - 1 \notin Bad /\ k - 1 \in 0..n
    BY <1>0, <2>1, <2>2
  <2>4. f[k] = f[k - 1] + sizes[k] /\ sizes[k] \in Nat /\ f[k - 1] \in Nat /\ f[k] \in Nat
    BY <1>1, <1>2, <2>3
  <2>5. ~(f[k - 1] < f[i])
    BY <2>3
  <2> QED
    BY <2>2, <2>4, <2>5
<1>4. f[i] \in Nat /\ f[j] \in Nat /\ ~(f[j] < f[i])
  <2>1. j \in i..n /\ j \notin Bad
    BY <1>0, <1>3
  <2> QED
    BY <1>0, <1>1, <2>1
<1> QED
  BY <1>4 DEF f

LEMMA MinOfTwo ==
  ASSUME NEW a \in Int, NEW b \in Int
  PROVE  Min({a, b}) = IF a <= b THEN a ELSE b
<1>1. \E x \in {a, b} : \A y \in {a, b} : x <= y
  BY SMT
<1> QED
  BY <1>1 DEF Min

LEMMA MaxOfTwo ==
  ASSUME NEW a \in Int, NEW b \in Int
  PROVE  Max({a, b}) = IF a <= b THEN b ELSE a
<1>1. \E x \in {a, b} : \A y \in {a, b} : x >= y
  BY SMT
<1> QED
  BY <1>1 DEF Max

-----------------------------------------------------------------------------
(* Requests and where they lie                                             *)

\* What is asked of a script: it is one of Scripts.
LEMMA ScriptType == ASSUME script \in Scripts PROVE script \in Seq(Requests)
BY LimitsAssumption

LEMMA WireType ==
  ASSUME NEW r \in Requests
  PROVE  /\ r.chunks \in Seq(Nat) /\ Len(r.chunks) \in Nat
         /\ Body(r) \in Nat /\ Wire(r) \in Nat /\ r.head \in Nat \ {0} /\ r.head <= Wire(r)
         /\ \A j \in 0..Len(r.chunks) : Sums(r.chunks)[j] \in Nat /\ Sums(r.chunks)[j] <= Body(r)
         /\ r.framing = "chunked" => Wire(r) >= r.head + Body(r) + Len(r.chunks) + 1
<1>1. r.chunks \in Seq(Nat) /\ r.head \in Nat \ {0}
  <2>1. r.chunks \in Seq(Nat \ {0}) /\ r.head \in Nat \ {0}
    BY DEF Requests
  <2> QED
    BY <2>1
<1>2. Len(r.chunks) \in Nat
  BY <1>1, LenProperties
<1>3. \A j \in 0..Len(r.chunks) : Sums(r.chunks)[j] \in Nat
  BY <1>1, SumsType DEF IsSums
<1>4. Body(r) \in Nat /\ Body(r) = Sums(r.chunks)[Len(r.chunks)]
  BY <1>2, <1>3 DEF Body, Total
<1>5. \A j \in 0..Len(r.chunks) : Sums(r.chunks)[j] <= Body(r)
  BY <1>1, <1>2, <1>4, SumsGrow
<1> DEFINE framing == IF r.framing = "chunked" THEN Len(r.chunks) + 1 ELSE 0
<1>6. framing \in Nat /\ (r.framing = "chunked" => framing >= Len(r.chunks) + 1)
  BY <1>2
<1>7. Wire(r) = r.head + Body(r) + framing
  BY DEF Wire
<1> HIDE DEF framing
<1>8. /\ Wire(r) \in Nat /\ r.head <= Wire(r)
      /\ r.framing = "chunked" => Wire(r) >= r.head + Body(r) + Len(r.chunks) + 1
  BY <1>1, <1>2, <1>4, <1>6, <1>7
<1> QED
  BY <1>1, <1>2, <1>3, <1>4, <1>5, <1>8

\* Requests follow each other, and none is empty.
LEMMA Starts ==
  ASSUME script \in Scripts
  PROVE  /\ Len(script) \in Nat /\ \A k \in DOMAIN script : script[k] \in Requests
         /\ DOMAIN script = 1..Len(script)
         /\ \A k \in 1..(Len(script) + 1) : Start(k) \in Nat
         /\ Start(1) = 0
         /\ \A k \in 1..Len(script) : Start(k + 1) = End(k) /\ Start(k) < End(k)
         /\ \A j, k \in 1..(Len(script) + 1) : j <= k => Start(j) <= Start(k)
<1> DEFINE n == Len(script)
           sizes == [i \in DOMAIN script |-> Wire(script[i])]
<1>1. /\ n \in Nat /\ DOMAIN script = 1..n /\ \A k \in DOMAIN script : script[k] \in Requests
  BY ScriptType, LenProperties, ElementOfSeq
<1>2. \A k \in 1..n : Wire(script[k]) \in Nat /\ Wire(script[k]) > 0
  BY <1>1, WireType
<1>3. sizes \in Seq(Nat) /\ Len(sizes) = n
  <2>1. sizes \in [1..n -> Nat]
    BY <1>1, <1>2
  <2> HIDE DEF sizes, n
  <2> QED
    BY <1>1, <2>1, SeqDef
<1>4. \A k : Start(k) = Sums(sizes)[k - 1]
  BY DEF Start
<1>5. IsSums(Sums(sizes), sizes, n)
  BY <1>3, SumsType
<1>6. \A k \in 1..n : sizes[k] = Wire(script[k])
  BY <1>1
<1>7. \A k \in 1..n : End(k) = Start(k) + Wire(script[k])
  BY DEF End
<1> HIDE DEF sizes, n
<1>8. \A k \in 1..(n + 1) : Start(k) \in Nat
  BY <1>1, <1>4, <1>5 DEF IsSums
<1>9. Start(1) = 0
  BY <1>4, <1>5 DEF IsSums
<1>10. ASSUME NEW k \in 1..n PROVE Start(k + 1) = End(k) /\ Start(k) < End(k)
  <2>1. Sums(sizes)[k] = Sums(sizes)[k - 1] + sizes[k]
    BY <1>1, <1>5 DEF IsSums
  <2>2. (k + 1) - 1 = k /\ k \in 1..(n + 1)
    BY <1>1
  <2>3. Start(k + 1) = Sums(sizes)[k]
    BY <1>4, <2>2
  <2>4. Start(k) \in Nat
    BY <1>8, <2>2
  <2> QED
    BY <1>2, <1>4, <1>6, <1>7, <2>1, <2>3, <2>4
<1>11. ASSUME NEW j \in 1..(n + 1), NEW k \in 1..(n + 1), j <= k PROVE Start(j) <= Start(k)
  <2>1. j - 1 \in 0..n /\ k - 1 \in 0..n /\ j - 1 <= k - 1
    BY <1>1, <1>11
  <2> QED
    BY <1>3, <1>4, <2>1, SumsGrow
<1> QED
  BY <1>1, <1>8, <1>9, <1>10, <1>11 DEF n

\* The request at the front is the one whose start has been reached.
LEMMA AtFront ==
  ASSUME script \in Scripts, NEW m \in 0..Len(script), consumed = Start(m + 1)
  PROVE  Current = IF m < Len(script) THEN m + 1 ELSE 0
<1> DEFINE n == Len(script)
           Rest == {k \in DOMAIN script : Start(k) >= consumed}
<1>1. /\ n \in Nat /\ DOMAIN script = 1..n /\ m \in Nat /\ m <= n
      /\ \A k \in 1..(n + 1) : Start(k) \in Nat
      /\ \A k \in 1..n : Start(k + 1) = End(k) /\ Start(k) < End(k)
      /\ \A j, k \in 1..(n + 1) : j <= k => Start(j) <= Start(k)
  BY Starts
<1> HIDE DEF n
<1>2. ASSUME NEW k \in 1..n PROVE Start(k) >= consumed <=> k > m
  <2>1. CASE k > m
    <3>1. m + 1 <= k /\ m + 1 \in 1..(n + 1) /\ k \in 1..(n + 1)
      BY <1>1, <2>1
    <3> QED
      BY <1>1, <2>1, <3>1
  <2>2. CASE ~(k > m)
    <3>1. k + 1 <= m + 1 /\ k + 1 \in 1..(n + 1) /\ m + 1 \in 1..(n + 1) /\ k \in 1..(n + 1)
      BY <1>1, <2>2
    <3>2. Start(k) < Start(k + 1) /\ Start(k + 1) <= Start(m + 1)
      BY <1>1, <3>1
    <3>3. Start(k) \in Nat /\ Start(k + 1) \in Nat /\ Start(m + 1) \in Nat
      BY <1>1, <3>1
    <3> QED
      BY <2>2, <3>2, <3>3
  <2> QED
    BY <2>1, <2>2
<1>3. Rest = (m + 1)..n
  BY <1>1, <1>2
<1>4. ASSUME m < n PROVE Current = m + 1
  <2>1. m + 1 \in Rest /\ \A k \in Rest : m + 1 <= k
    BY <1>1, <1>3, <1>4
  <2>2. Rest \subseteq Nat
    BY <1>1, <1>3
  <2> HIDE DEF Rest
  <2>3. Min(Rest) = m + 1
    <3>1. Min(Rest) \in Rest /\ Min(Rest) <= m + 1
      BY <2>1 DEF Min
    <3>2. m + 1 <= Min(Rest) /\ Min(Rest) \in Nat /\ m + 1 \in Nat
      BY <2>1, <2>2, <3>1
    <3> QED
      BY <3>1, <3>2
  <2>4. Current = Min(Rest)
    BY <2>1 DEF Current, Rest
  <2> QED
    BY <2>3, <2>4
<1>5. ASSUME ~(m < n) PROVE Current = 0
  <2>1. Rest = {}
    BY <1>1, <1>3, <1>5
  <2> QED
    BY <2>1 DEF Current
<1> QED
  BY <1>1, <1>4, <1>5 DEF n

\* Once a chunked request is there, all its chunks are.
LEMMA WholeType ==
  ASSUME NEW r \in Requests, NEW avail \in Nat
  PROVE  /\ Whole(r, avail) \in 0..Len(r.chunks)
         /\ r.framing = "chunked" /\ avail >= Wire(r) => Whole(r, avail) = Len(r.chunks)
<1> DEFINE n == Len(r.chunks)
           There == {j \in 0..n : j = 0 \/ r.head + Sums(r.chunks)[j] + j <= avail}
<1>1. n \in Nat /\ There \subseteq 0..n /\ 0 \in There
  BY WireType
<1>2. PICK m \in There : \A k \in There : m >= k
  <2> HIDE DEF There, n
  <2> QED
    BY <1>1, Greatest
<1>3. Whole(r, avail) \in There /\ \A k \in There : Whole(r, avail) >= k
  <2>1. Whole(r, avail) = Max(There)
    BY DEF Whole
  <2> HIDE DEF There
  <2> QED
    BY <1>2, <2>1 DEF Max
<1>4. ASSUME r.framing = "chunked", avail >= Wire(r) PROVE n \in There
  <2>1. r.head + Sums(r.chunks)[n] + n <= Wire(r)
    BY <1>4, WireType DEF Body, Total
  <2>2. r.head \in Nat /\ Sums(r.chunks)[n] \in Nat /\ Wire(r) \in Nat
    BY <1>1, WireType
  <2> HIDE DEF n
  <2> QED
    BY <1>1, <1>4, <2>1, <2>2
<1> HIDE DEF There, n
<1>5. \A k \in There : k \in 0..n
  BY <1>1
<1>6. Whole(r, avail) \in 0..n
  BY <1>3, <1>5
<1>7. r.framing = "chunked" /\ avail >= Wire(r) => Whole(r, avail) = n
  BY <1>1, <1>3, <1>4, <1>6
<1> QED
  BY <1>6, <1>7 DEF n

\* What a verdict says of a request.
LEMMA Verdicts ==
  ASSUME NEW r \in Requests, NEW avail \in Nat
  PROVE  /\ Parse(r, avail) \in Refusals \cup {"ok", "incomplete"}
         /\ Parse(r, avail) \in Refusals => Oversize(r) \/ r.fault # "none" \/ Spoilt(r)
         /\ Parse(r, avail) = "ok" =>
               avail >= Wire(r) /\ ~(Oversize(r) \/ r.fault # "none" \/ Spoilt(r))
         /\ Parse(r, avail) = "incomplete" => avail < Wire(r)
<1> DEFINE there == Sums(r.chunks)[Whole(r, avail)]
           seen == SpoiltSeen(r, avail)
<1>1. /\ r.fault \in Refusals \cup {"none"} /\ r.framing \in {"none", "length", "chunked"}
      /\ HeadCap \in Nat /\ MaxBody \in Nat /\ r.spoilt \in Nat
      /\ r.spoilt <= Len(r.chunks) + 1
  BY LimitsAssumption DEF Requests
<1>2. /\ Body(r) \in Nat /\ Wire(r) \in Nat /\ r.head \in Nat /\ Len(r.chunks) \in Nat
      /\ there \in Nat /\ there <= Body(r)
  BY WireType, WholeType
<1>3. r.framing = "chunked" /\ avail >= Wire(r) => there = Body(r)
  BY WholeType DEF Body, Total
<1>4. Parse(r, avail) = IF r.head > HeadCap THEN "431"
                        ELSE IF r.fault # "none" THEN r.fault
                        ELSE IF r.framing = "length" /\ Body(r) > MaxBody THEN "413"
                        ELSE IF seen THEN "400"
                        ELSE IF r.framing = "chunked" /\ there > MaxBody THEN "413"
                        ELSE IF avail < Wire(r) THEN "incomplete" ELSE "ok"
  BY DEF Parse
<1>s. /\ seen \in BOOLEAN /\ (seen => Spoilt(r))
      /\ Spoilt(r) => r.framing = "chunked"
      /\ Spoilt(r) /\ Body(r) <= MaxBody /\ avail >= Wire(r) => seen
  <2>1. ASSUME Spoilt(r), Body(r) <= MaxBody, avail >= Wire(r) PROVE seen
    <3>1. r.spoilt - 1 \in 0..Len(r.chunks) /\ r.framing = "chunked"
      BY <1>1, <1>2, <2>1 DEF Spoilt
    <3> DEFINE before == Sums(r.chunks)[r.spoilt - 1]
    <3>2. before \in Nat /\ before <= Body(r)
      BY <3>1, WireType
    <3>3. Wire(r) >= r.head + Body(r) + Len(r.chunks) + 1
      BY <3>1, WireType
    <3>4. SpoiltSeen(r, avail) <=> before <= MaxBody /\ avail >= r.head + before + r.spoilt
      BY <2>1 DEF SpoiltSeen
    <3> HIDE DEF before, seen
    <3>5. /\ r.spoilt \in Nat /\ r.spoilt <= Len(r.chunks) + 1 /\ Len(r.chunks) \in Nat
          /\ Body(r) \in Nat /\ Wire(r) \in Nat /\ r.head \in Nat /\ MaxBody \in Nat
      BY <1>1, <1>2
    <3>6. before <= MaxBody
      BY <2>1, <3>2, <3>5
    <3>7. avail >= r.head + before + r.spoilt
      <4>1. \A a, h, b, c, i, n, w \in Nat :
               a >= w /\ w >= h + c + n + 1 /\ b <= c /\ i <= n + 1 => a >= h + b + i
        OBVIOUS
      <4>2. avail >= Wire(r)
        BY <2>1
      <4> QED
        BY <3>2, <3>3, <3>5, <4>1, <4>2
    <3> QED
      BY <3>4, <3>6, <3>7 DEF seen
  <2> QED
    BY <2>1 DEF Spoilt, SpoiltSeen
<1> HIDE DEF there, seen
<1>5. "ok" \notin Refusals /\ "incomplete" \notin Refusals
      /\ "431" \in Refusals /\ "413" \in Refusals /\ "400" \in Refusals
  BY DEF Refusals
<1>6. CASE r.head > HeadCap
  BY <1>1, <1>2, <1>4, <1>5, <1>6 DEF Oversize
<1>7. CASE ~(r.head > HeadCap) /\ r.fault # "none"
  BY <1>1, <1>4, <1>5, <1>7
<1>8. CASE ~(r.head > HeadCap) /\ r.fault = "none"
  <2>1. Parse(r, avail) = IF r.framing = "length" /\ Body(r) > MaxBody THEN "413"
                          ELSE IF seen THEN "400"
                          ELSE IF r.framing = "chunked" /\ there > MaxBody THEN "413"
                          ELSE IF avail < Wire(r) THEN "incomplete" ELSE "ok"
    BY <1>4, <1>8
  <2>2. CASE r.framing = "none"
    BY <1>2, <1>5, <1>8, <1>s, <2>1, <2>2 DEF Oversize
  <2>3. CASE r.framing = "length"
    BY <1>1, <1>2, <1>5, <1>8, <1>s, <2>1, <2>3 DEF Oversize
  <2>4. CASE r.framing = "chunked"
    BY <1>1, <1>2, <1>3, <1>5, <1>8, <1>s, <2>1, <2>4 DEF Oversize
  <2> QED
    BY <1>1, <2>2, <2>3, <2>4
<1> QED
  BY <1>1, <1>2, <1>6, <1>7, <1>8

\* A buffer that grows still holds what it has, and no more is asked for than the
\* limits allow.
LEMMA GrownType ==
  ASSUME capacity \in Nat, Pending \in Nat, Pending <= capacity, capacity <= MaxBuffer + Slack,
         NEW maximum \in Nat, Pending < maximum, maximum <= MaxBuffer,
         EnsureReadCapacity(maximum)
  PROVE  capacity' \in Nat /\ Pending < capacity' /\ capacity' <= MaxBuffer + Slack
<1> DEFINE wanted == Max({Pending + 1, 2 * capacity})
           asked == Grown(maximum)
<1>1. wanted \in Nat /\ wanted >= Pending + 1
  BY MaxOfTwo
<1> HIDE DEF wanted
<1>2. Min({maximum, wanted}) = IF maximum <= wanted THEN maximum ELSE wanted
  BY <1>1, MinOfTwo
<1>3. asked = Min({maximum, wanted})
  BY DEF Grown, wanted
<1>4. MaxBuffer \in Nat /\ Slack \in Nat
  BY LimitsAssumption DEF MaxBuffer
<1>5. asked \in Nat /\ Pending < asked /\ asked <= MaxBuffer
  BY <1>1, <1>2, <1>3, <1>4
<1>6. IF capacity > Pending THEN capacity' = capacity
                            ELSE capacity' \in asked..(asked + Slack)
  BY DEF EnsureReadCapacity, AtLeast
<1> HIDE DEF asked
<1> QED
  BY <1>4, <1>5, <1>6

-----------------------------------------------------------------------------
(* The invariant                                                           *)

Serving    == {"head", "parse", "dispatch"} \cup Reading
Reasons    == {"", "limit", "timeout", "peer", "answered", "handed over", "failed"}
StreamType == [fixed : BOOLEAN, promised : Nat, buffered : 0..StreamBuffer, sent : Nat,
               done : BOOLEAN]
ReplyType  == [to : Nat, form : Forms \cup Refusals, keep : BOOLEAN]

Shape ==
    /\ script \in Scripts /\ gone \in BOOLEAN /\ pc \in Steps /\ firstRead \in BOOLEAN
    /\ count \in 0..MaxPerConnection /\ elapsed \in 0..TotalTimeout
    /\ stream \in StreamType /\ replies \in Seq(ReplyType) /\ why \in Reasons
    /\ pc \notin Over => why = "" /\ count < MaxPerConnection

\* Bytes on their way: sent, ahead, in recv_buf, taken out of it.
Buffers ==
    /\ sent \in Nat /\ sent <= Start(Len(script) + 1)
    /\ ahead \in 0..ReaderAhead /\ received \in Nat /\ received + ahead <= sent
    /\ consumed \in 0..received
    /\ capacity \in Nat /\ capacity <= MaxBuffer + Slack /\ Pending <= capacity

\* The request after those that were answered is the one served, from its first byte.
Asked == Len(replies) + 1
Phase ==
    pc \in Serving =>
        /\ Len(replies) <= Len(script) /\ consumed = Start(Asked)
        /\ \A i \in DOMAIN replies : replies[i].keep /\ replies[i].form = "buffered"
        /\ pc \in {"parse", "readBody", "dispatch"} => Asked <= Len(script)
        /\ pc = "dispatch" => Parse(script[Asked], Pending) = "ok"

\* Nothing is waited for that is there already.
Missing == Current # 0 => received < End(Current)
Waits == pc \in Reading \/ why = "timeout" => Missing

Bad(r) == Oversize(r) \/ r.fault # "none" \/ Spoilt(r)
Answers ==
    \A i \in DOMAIN replies :
        /\ i \in DOMAIN script /\ replies[i].to = i
        /\ replies[i].form \in Forms => received >= End(i)
        /\ i < Len(replies) => replies[i].keep
        /\ replies[i].form \in Refusals <=> Bad(script[i])

\* The answer being streamed, and what has been handed down of it.
Streamed == replies # <<>> /\ Last(replies).form \in {"chunked", "fixed"}
Streams ==
    /\ stream.done => stream.buffered = 0
    /\ stream.fixed => stream.sent <= stream.promised
    /\ pc = "stream" => Streamed
    /\ Streamed => /\ pc \in {"stream", "blocked", "closed"}
                   /\ Last(replies).form = IF stream.fixed THEN "fixed" ELSE "chunked"
                   /\ pc = "closed" /\ why # "peer" /\ ~stream.fixed => stream.done

IInv == Shape /\ Buffers /\ Phase /\ Waits /\ Answers /\ Streams

LEMMA Implied ==
  ASSUME IInv
  PROVE  TypeOK /\ InOrder /\ LimitsHeld /\ BufferBounded /\ StreamsFramed /\ LeftoverServed
<1> USE DEF IInv
<1>0. Len(replies) \in Nat /\ DOMAIN replies = 1..Len(replies)
      /\ \A i \in DOMAIN replies : replies[i] \in ReplyType
  BY LenProperties, ElementOfSeq DEF Shape
<1>1. TypeOK
  BY <1>0 DEF TypeOK, Shape, Buffers, StreamType, ReplyType, Reasons
<1>2. InOrder
  BY DEF InOrder, Answers
<1>3. LimitsHeld
  BY DEF LimitsHeld, Answers, Bad
<1>4. BufferBounded
  BY DEF BufferBounded, Buffers
<1>5. StreamsFramed
  <2>1. ASSUME pc = "closed", why # "peer", Streaming("chunked")
        PROVE  stream.done /\ stream.buffered = 0
    BY <2>1 DEF Streaming, Streams, Streamed
  <2>2. ASSUME Streaming("fixed") PROVE stream.sent <= stream.promised
    BY <2>2 DEF Streaming, Streams, Streamed
  <2> QED
    BY <2>1, <2>2 DEF StreamsFramed
<1>6. LeftoverServed
  BY DEF LeftoverServed, Waits, Missing
<1> QED
  BY <1>1, <1>2, <1>3, <1>4, <1>5, <1>6

LEMMA IInvInit == Init => IInv
<1> SUFFICES ASSUME Init PROVE IInv
  OBVIOUS
<1>i. script \in Scripts /\ pc = "head" /\ why = ""
  BY DEF Init
<1>n. /\ sent = 0 /\ ahead = 0 /\ received = 0 /\ consumed = 0
      /\ capacity \in InitialCapacity..(InitialCapacity + Slack) /\ count = 0 /\ elapsed = 0
  BY DEF Init, AtLeast
<1>b. gone = FALSE /\ firstRead = TRUE /\ stream = NoStream
  BY DEF Init
<1>r. replies = <<>>
  BY DEF Init
<1>0. Start(1) = 0 /\ Len(script) \in Nat /\ Start(Len(script) + 1) \in Nat
  <2>1. /\ Len(script) \in Nat /\ Start(1) = 0
        /\ \A k \in 1..(Len(script) + 1) : Start(k) \in Nat
    BY <1>i, Starts
  <2>2. Len(script) + 1 \in 1..(Len(script) + 1)
    BY <2>1
  <2> QED
    BY <2>1, <2>2
<1>1. replies = <<>> /\ Len(replies) = 0 /\ (\A i : i \notin DOMAIN replies) /\ replies \in Seq(ReplyType)
  <2>1. replies \in Seq(ReplyType) /\ Len(replies) = 0
    BY <1>r, EmptySeq
  <2>2. DOMAIN replies = 1..0
    BY <2>1, LenProperties
  <2> QED
    BY <1>r, <2>1, <2>2
<1>2. NoStream \in StreamType /\ ~NoStream.done /\ ~NoStream.fixed
  BY LimitsAssumption DEF NoStream, StreamType
<1>3. Shape
  <2>1. 0 \in 0..MaxPerConnection /\ 0 < MaxPerConnection /\ 0 \in 0..TotalTimeout
    BY LimitsAssumption
  <2>2. pc \in Steps /\ pc \notin Over /\ why \in Reasons
    BY <1>i DEF Steps, Over, Reasons
  <2> QED
    BY <1>i, <1>n, <1>b, <1>1, <1>2, <2>1, <2>2 DEF Shape
<1>4. Buffers
  <2>1. HeadCap \in Nat /\ MaxBody \in Nat /\ InitialCapacity \in 1..HeadCap /\ ReaderAhead \in Nat
        /\ Slack \in Nat
    BY LimitsAssumption
  <2>2. capacity \in Nat /\ capacity <= MaxBuffer + Slack
    BY <1>n, <2>1 DEF MaxBuffer
  <2>3. Pending = 0
    BY <1>n DEF Pending
  <2> QED
    BY <1>n, <1>0, <2>1, <2>2, <2>3 DEF Buffers
<1>5. Phase
  <2>1. Asked = 1 /\ Len(replies) <= Len(script)
    BY <1>0, <1>1 DEF Asked
  <2> QED
    BY <1>i, <1>n, <1>0, <1>1, <2>1 DEF Phase
<1>6. Waits /\ Answers
  BY <1>i, <1>1 DEF Waits, Answers, Reading
<1>7. Streams
  BY <1>i, <1>b, <1>1, <1>2 DEF Streams, Streamed
<1> QED
  BY <1>3, <1>4, <1>5, <1>6, <1>7 DEF IInv

-----------------------------------------------------------------------------
(* What the parts of the invariant do not see                              *)

\* The script does not change, so nothing moves in it.
LEMMA Places ==
  ASSUME script' = script
  PROVE  /\ \A k : Start(k)' = Start(k) /\ End(k)' = End(k)
         /\ consumed' = consumed => Current' = Current
<1>1. \A k : Start(k)' = Start(k) /\ End(k)' = End(k)
  BY DEF Start, End
<1> QED
  BY <1>1 DEF Current

\* What is known while a request is being served.
LEMMA Serves ==
  ASSUME Shape, Buffers, Phase, pc \in Serving
  PROVE  /\ Len(script) \in Nat /\ Len(replies) \in Nat /\ Asked \in Nat \ {0}
         /\ DOMAIN script = 1..Len(script) /\ DOMAIN replies = 1..Len(replies)
         /\ Current = IF Asked <= Len(script) THEN Asked ELSE 0
         /\ Asked <= Len(script) => script[Asked] \in Requests
         /\ Pending \in Nat /\ received = consumed + Pending
<1>1. /\ Len(script) \in Nat /\ DOMAIN script = 1..Len(script)
      /\ \A k \in DOMAIN script : script[k] \in Requests
  BY Starts DEF Shape
<1>2. Len(replies) \in Nat /\ DOMAIN replies = 1..Len(replies)
  BY LenProperties DEF Shape
<1>3. Len(replies) \in 0..Len(script) /\ consumed = Start(Len(replies) + 1)
  BY <1>1, <1>2 DEF Phase, Asked
<1>4. Current = IF Len(replies) < Len(script) THEN Len(replies) + 1 ELSE 0
  BY <1>3, AtFront DEF Shape
<1>5. Current = IF Asked <= Len(script) THEN Asked ELSE 0
  BY <1>1, <1>2, <1>4 DEF Asked
<1>6. Pending \in Nat /\ received = consumed + Pending
  BY DEF Buffers, Pending
<1>7. Asked \in Nat \ {0} /\ (Asked <= Len(script) => Asked \in DOMAIN script)
  BY <1>1, <1>2 DEF Asked
<1> QED
  BY <1>1, <1>2, <1>5, <1>6, <1>7

\* While the kernel's bytes and the reader's are only moved, none are made.
LEMMA BuffersKept ==
  ASSUME Buffers, UNCHANGED <<script, sent, ahead, received, capacity, consumed>>
  PROVE  Buffers'
<1>1. Start(Len(script) + 1)' = Start(Len(script) + 1)
  BY DEF Start
<1> QED
  BY <1>1 DEF Buffers, Pending

LEMMA WaitsKept ==
  ASSUME Waits, UNCHANGED <<script, consumed, received>>,
         pc' \in Reading => pc \in Reading,
         why' = "timeout" => why = "timeout" \/ pc \in Reading
  PROVE  Waits'
<1>1. Current' = Current /\ \A k : End(k)' = End(k)
  BY Places
<1>2. Missing' = Missing
  BY <1>1 DEF Missing
<1> QED
  BY <1>2 DEF Waits

LEMMA AnswersKept ==
  ASSUME Answers, script \in Scripts, script' = script, replies' = replies,
         received \in Nat, received' \in Nat, received' >= received
  PROVE  Answers'
<1>1. /\ \A k \in DOMAIN script : End(k) \in Nat
      /\ \A k : End(k)' = End(k)
  <2>1. \A k \in 1..Len(script) : Start(k + 1) = End(k) /\ k + 1 \in 1..(Len(script) + 1)
    BY Starts
  <2> QED
    BY <2>1, Starts, Places
<1>2. ASSUME NEW i \in DOMAIN replies, received >= End(i), i \in DOMAIN script
      PROVE  received' >= End(i)
  <2>1. End(i) \in Nat
    BY <1>1, <1>2
  <2> QED
    BY <1>2, <2>1
<1>3. \A k : Bad(script[k])' = Bad(script[k])
  BY DEF Bad, Spoilt, Oversize, Body, Total, Sums
<1> QED
  BY <1>1, <1>2, <1>3 DEF Answers

LEMMA AnswersSame ==
  ASSUME Answers, script \in Scripts, UNCHANGED <<script, replies, received>>, received \in Nat
  PROVE  Answers'
<1>1. received' \in Nat /\ received' >= received
  OBVIOUS
<1> QED
  BY <1>1, AnswersKept

\* The next answer.
LEMMA AnswersAdded ==
  ASSUME IInv, pc \in Serving, Asked <= Len(script), UNCHANGED <<script, received>>,
         NEW form \in Forms \cup Refusals, NEW keep \in BOOLEAN,
         replies' = Append(replies, [to |-> Current, form |-> form, keep |-> keep]),
         form \in Forms => received >= End(Asked),
         form \in Refusals <=> Bad(script[Asked])
  PROVE  /\ Answers' /\ replies' \in Seq(ReplyType) /\ Len(replies') = Len(replies) + 1
         /\ replies' # <<>> /\ Last(replies') = [to |-> Current, form |-> form, keep |-> keep]
         /\ DOMAIN replies' = DOMAIN replies \cup {Asked}
         /\ \A i \in DOMAIN replies : replies'[i] = replies[i]
         /\ replies'[Asked] = [to |-> Current, form |-> form, keep |-> keep]
<1> DEFINE a == [to |-> Current, form |-> form, keep |-> keep]
           n == Len(replies)
<1>1. /\ n \in Nat /\ DOMAIN replies = 1..n /\ Asked = n + 1 /\ Current = Asked
      /\ Asked \in DOMAIN script
  BY Serves DEF IInv, Asked
<1>2. a \in ReplyType
  BY <1>1 DEF ReplyType
<1>3. replies \in Seq(ReplyType)
  BY DEF IInv, Shape
<1>a. replies' = Append(replies, a)
  OBVIOUS
<1>f. a.to = Current /\ a.form = form /\ a.keep = keep
  OBVIOUS
<1> HIDE DEF a
<1>4. /\ replies' \in Seq(ReplyType) /\ Len(replies') = n + 1 /\ replies'[n + 1] = a
      /\ \A i \in 1..n : replies'[i] = replies[i]
  BY <1>2, <1>3, <1>a, AppendProperties
<1>5. DOMAIN replies' = 1..(n + 1) /\ replies' # <<>>
  BY <1>1, <1>4, LenProperties, EmptySeq
<1>6. Last(replies') = a
  BY <1>4 DEF Last
<1> HIDE DEF n
<1>7. DOMAIN replies' = DOMAIN replies \cup {Asked}
  BY <1>1, <1>5
<1>8. \A i \in DOMAIN replies : replies[i].keep
  BY DEF IInv, Phase
<1>9. \A k : End(k)' = End(k)
  BY Places
<1>10. \A k : Bad(script[k])' = Bad(script[k])
  BY DEF Bad, Spoilt, Oversize, Body, Total, Sums
<1>11. ASSUME NEW i \in DOMAIN replies
       PROVE  /\ i \in DOMAIN script /\ replies'[i].to = i
              /\ replies'[i].form \in Forms => received >= End(i)
              /\ replies'[i].form \in Refusals <=> Bad(script[i])
              /\ replies'[i].keep
  <2>1. replies'[i] = replies[i]
    BY <1>1, <1>4
  <2> QED
    BY <1>8, <2>1 DEF IInv, Answers
<1>12. /\ replies'[Asked].to = Asked
       /\ replies'[Asked].form \in Forms => received >= End(Asked)
       /\ replies'[Asked].form \in Refusals <=> Bad(script[Asked])
  BY <1>1, <1>4, <1>f
<1>13. ~(Asked < Len(replies'))
  BY <1>1, <1>4 DEF n
<1>14. Answers'
  BY <1>1, <1>7, <1>9, <1>10, <1>11, <1>12, <1>13 DEF Answers
<1> QED
  BY <1>1, <1>4, <1>5, <1>6, <1>7, <1>14 DEF a, n

\* Before the last answer nothing is streamed.
LEMMA NotStreamed ==
  ASSUME Shape, Phase, pc \in Serving
  PROVE  ~Streamed
<1>1. Len(replies) \in Nat /\ DOMAIN replies = 1..Len(replies)
  BY LenProperties DEF Shape
<1>2. replies # <<>> => Len(replies) \in DOMAIN replies
  <2>1. replies \in Seq(ReplyType)
    BY DEF Shape
  <2>2. replies # <<>> => Len(replies) # 0
    BY <2>1, EmptySeq
  <2> QED
    BY <1>1, <2>2
<1>3. replies # <<>> => Last(replies).form = "buffered"
  BY <1>2 DEF Phase, Last
<1> QED
  BY <1>3 DEF Streamed

LEMMA StreamsQuiet ==
  ASSUME Streams, stream' = stream, pc' # "stream", ~Streamed'
  PROVE  Streams'
BY DEF Streams

-----------------------------------------------------------------------------
(* The steps                                                               *)

\* The peer and the clock.
LEMMA PeerSteps == ASSUME IInv, Send \/ Hangup \/ Tick PROVE IInv'
<1>1. /\ UNCHANGED <<script, ahead, received, capacity, consumed, firstRead, count>>
      /\ UNCHANGED <<pc, stream, replies, why>>
  BY DEF Send, Hangup, Tick, bufVars, reqVars, doneVars, netVars
<1>2. Shape'
  <2>1. elapsed' \in 0..TotalTimeout
    <3>1. CASE UNCHANGED elapsed
      BY <3>1 DEF IInv, Shape
    <3>2. CASE Tick
      <4>1. elapsed' = elapsed + 1 /\ elapsed < TotalTimeout /\ elapsed \in 0..TotalTimeout
        BY <3>2 DEF Tick, IInv, Shape
      <4>2. TotalTimeout \in Nat
        BY LimitsAssumption
      <4> QED
        BY <4>1, <4>2
    <3> QED
      BY <3>1, <3>2 DEF Send, Hangup, reqVars
  <2>2. gone' \in BOOLEAN
    BY DEF Send, Hangup, Tick, netVars, IInv, Shape
  <2> QED
    BY <1>1, <2>1, <2>2 DEF IInv, Shape
<1>3. Buffers'
  <2>0. Start(Len(script) + 1)' = Start(Len(script) + 1) /\ Start(Len(script) + 1) \in Nat
    <3>1. /\ Len(script) \in Nat
          /\ \A k \in 1..(Len(script) + 1) : Start(k) \in Nat
      BY Starts DEF IInv, Shape
    <3>2. Len(script) + 1 \in 1..(Len(script) + 1)
      BY <3>1
    <3> QED
      BY <1>1, <3>1, <3>2, Places
  <2>1. CASE sent' = sent
    BY <1>1, <2>1, BuffersKept DEF IInv
  <2>2. CASE Send
    <3>1. sent' \in (sent + 1)..Start(Len(script) + 1)
      BY <2>2 DEF Send
    <3>2. sent \in Nat /\ received \in Nat /\ ahead \in 0..ReaderAhead /\ ReaderAhead \in Nat
          /\ received + ahead <= sent
      BY LimitsAssumption DEF IInv, Buffers
    <3>3. sent' \in Nat /\ sent' <= Start(Len(script) + 1) /\ received + ahead <= sent'
      BY <2>0, <3>1, <3>2
    <3> QED
      BY <1>1, <2>0, <3>3 DEF IInv, Buffers, Pending
  <2> QED
    BY <2>1, <2>2 DEF Hangup, Tick, netVars
<1>4. Phase'
  <2>1. Start(Asked)' = Start(Asked)
    BY <1>1, Places DEF Asked
  <2>2. \A k : Parse(script[k], Pending)' = Parse(script[k], Pending)
    BY <1>1 DEF Parse, SpoiltSeen, Spoilt, Pending, Body, Wire, Whole, Sums, Total
  <2>3. Asked' = Asked
    BY <1>1 DEF Asked
  <2> QED
    BY <1>1, <2>1, <2>2, <2>3 DEF IInv, Phase
<1>5. Waits'
  BY <1>1, WaitsKept DEF IInv
<1>6. Answers'
  <2>1. received \in Nat /\ received' \in Nat /\ received' >= received
    BY <1>1 DEF IInv, Buffers
  <2> QED
    BY <1>1, <2>1, AnswersKept DEF IInv, Shape
<1>7. Streams'
  BY <1>1 DEF IInv, Streams, Streamed
<1> QED
  BY <1>2, <1>3, <1>4, <1>5, <1>6, <1>7 DEF IInv

\* The connection ends, or is handed over, with nothing more to be answered.
LEMMA Closes ==
  ASSUME IInv, pc \in Serving, pc' \in Over, why' \in Reasons, Buffers',
         UNCHANGED <<script, count, elapsed, stream, replies, consumed, received>>,
         gone' = gone, firstRead' \in BOOLEAN, why' = "timeout" => Missing
  PROVE  IInv'
<1>1. Shape'
  BY DEF IInv, Shape, Steps
<1>2. Phase'
  BY DEF Phase, Serving, Over, Reading
<1>3. Missing' = Missing
  BY Places DEF Missing
<1>4. Waits'
  BY <1>3 DEF Waits, Over, Reading
<1>5. Answers'
  BY AnswersSame DEF IInv, Shape, Buffers
<1>6. ~Streamed'
  BY NotStreamed DEF IInv, Streamed
<1>7. Streams'
  BY <1>6, StreamsQuiet DEF IInv, Over
<1> QED
  BY <1>1, <1>2, <1>4, <1>5, <1>7 DEF IInv

\* The request is served further.
LEMMA MovesOn ==
  ASSUME IInv, pc \in Serving, pc' \in Serving, Buffers', Phase', Waits',
         UNCHANGED <<script, count, elapsed, stream, replies, why>>, gone' = gone,
         firstRead' \in BOOLEAN, received' >= received
  PROVE  IInv'
<1>1. Shape'
  BY DEF IInv, Shape, Steps, Serving, Over, Reading
<1>2. Answers'
  BY AnswersKept DEF IInv, Shape, Buffers
<1>3. ~Streamed'
  BY NotStreamed DEF IInv, Streamed
<1>4. Streams'
  BY <1>3, StreamsQuiet DEF IInv, Serving, Reading
<1> QED
  BY <1>1, <1>2, <1>4 DEF IInv

\* The capacity grows, then the poll or its timeout.
LEMMA ReadStarts ==
  ASSUME IInv, NEW step \in Reading, NEW maximum \in Nat,
         pc = IF step = "readHead" THEN "head" ELSE "parse",
         Pending < maximum, maximum <= MaxBuffer, Missing, StartRead(step, maximum)
  PROVE  IInv'
<1>0. pc \in Serving /\ pc \in {"head", "parse"}
  BY DEF Serving
<1>1. /\ EnsureReadCapacity(maximum)
      /\ UNCHANGED <<script, sent, ahead, received, consumed, firstRead, count, elapsed>>
      /\ UNCHANGED <<stream, replies>> /\ gone' = gone
      /\ (pc' = "closed" /\ why' = "timeout") \/ (pc' = step /\ why' = why)
  BY DEF StartRead, Close, netVars, reqVars
<1>2. firstRead' \in BOOLEAN /\ why \in Reasons /\ why = ""
  BY <1>0, <1>1 DEF IInv, Shape, Over
<1>3. Buffers'
  <2>1. /\ capacity \in Nat /\ Pending \in Nat /\ Pending <= capacity
        /\ capacity <= MaxBuffer + Slack
    BY <1>0, Serves DEF IInv, Buffers
  <2>2. capacity' \in Nat /\ Pending < capacity' /\ capacity' <= MaxBuffer + Slack
    BY <1>1, <2>1, GrownType
  <2>3. Pending' = Pending /\ Start(Len(script) + 1)' = Start(Len(script) + 1)
    BY <1>1, Places DEF Pending
  <2> QED
    BY <1>1, <2>1, <2>2, <2>3 DEF IInv, Buffers, MaxBuffer
<1>4. CASE pc' = "closed" /\ why' = "timeout"
  BY <1>0, <1>1, <1>2, <1>3, <1>4, Closes DEF Over, Reasons
<1>5. CASE pc' = step /\ why' = why
  <2>1. Missing' = Missing
    BY <1>1, Places DEF Missing
  <2>2. Waits'
    BY <2>1 DEF Waits
  <2>3. Phase'
    <3>1. Start(Asked)' = Start(Asked) /\ Asked' = Asked
      BY <1>1, Places DEF Asked
    <3>2. step = "readBody" => pc = "parse"
      OBVIOUS
    <3> QED
      BY <1>0, <1>1, <1>5, <3>1, <3>2 DEF IInv, Phase, Reading
  <2>4. pc' \in Serving
    BY <1>5 DEF Serving
  <2>5. received' >= received
    BY <1>1 DEF IInv, Buffers
  <2> QED
    BY <1>0, <1>1, <1>2, <1>3, <1>5, <2>2, <2>3, <2>4, <2>5, MovesOn
<1> QED
  BY <1>1, <1>4, <1>5

\* A write hangs: nothing else has changed.
LEMMA Hangs ==
  ASSUME IInv, pc \in {"head", "parse", "dispatch", "stream"}, WriteBlocks
  PROVE  IInv'
<1>1. /\ UNCHANGED <<script, sent, ahead, received, capacity, consumed, count, elapsed>>
      /\ gone' = gone /\ firstRead' = firstRead /\ replies' = replies /\ stream' = stream
      /\ why' = why /\ pc' = "blocked"
  BY DEF WriteBlocks, netVars, bufVars, reqVars, doneVars
<1>2. Shape'
  BY <1>1 DEF IInv, Shape, Steps, Over
<1>3. Buffers'
  BY <1>1, BuffersKept DEF IInv
<1>4. why = ""
  BY DEF IInv, Shape, Over
<1>5. Phase' /\ Waits'
  BY <1>1, <1>4 DEF Phase, Waits, Serving, Reading
<1>6. Answers'
  BY <1>1, AnswersSame DEF IInv, Shape, Buffers
<1>7. Streams'
  <2>1. Streamed' = Streamed /\ Last(replies') = Last(replies)
    BY <1>1 DEF Streamed
  <2> QED
    BY <1>1, <2>1 DEF IInv, Streams
<1> QED
  BY <1>2, <1>3, <1>5, <1>6, <1>7 DEF IInv

\* A write that hung fails.
LEMMA HungFails == ASSUME IInv, BlockedWriteFails PROVE IInv'
<1>1. /\ UNCHANGED <<script, sent, ahead, received, capacity, consumed, count, elapsed>>
      /\ gone' = gone /\ firstRead' = firstRead /\ replies' = replies /\ stream' = stream
      /\ why' = "peer" /\ pc' = "closed" /\ pc = "blocked"
  BY DEF BlockedWriteFails, Close, netVars, bufVars, reqVars
<1>2. Shape'
  BY <1>1 DEF IInv, Shape, Steps, Over, Reasons
<1>3. Buffers'
  BY <1>1, BuffersKept DEF IInv
<1>4. Phase' /\ Waits'
  BY <1>1 DEF Phase, Waits, Serving, Reading
<1>5. Answers'
  BY <1>1, AnswersSame DEF IInv, Shape, Buffers
<1>6. Streams'
  <2>1. Streamed' = Streamed /\ Last(replies') = Last(replies)
    BY <1>1 DEF Streamed
  <2> QED
    BY <1>1, <2>1 DEF IInv, Streams
<1> QED
  BY <1>2, <1>3, <1>4, <1>5, <1>6 DEF IInv

\* writeProtocolError, and the end.
LEMMA Refuses ==
  ASSUME IInv, pc \in {"head", "parse"}, Asked <= Len(script),
         NEW status \in Refusals, Bad(script[Asked]), Refuse(status)
  PROVE  IInv'
<1>0. pc \in Serving
  BY DEF Serving
<1>b. CASE WriteBlocks
  BY <1>b, Hangs
<1> SUFFICES ASSUME ~WriteBlocks PROVE IInv'
  BY <1>b
<1>1. /\ pc' = "closed" /\ why' = "limit"
      /\ UNCHANGED <<script, sent, ahead, received, capacity, consumed>>
      /\ UNCHANGED <<count, elapsed, stream>> /\ gone' = gone /\ firstRead' = firstRead
      /\ \/ replies' = Append(replies, [to |-> Current, form |-> status, keep |-> FALSE])
         \/ replies' = replies
  BY DEF Refuse, Close, netVars, bufVars, reqVars
<1>2. Buffers'
  BY <1>1, BuffersKept DEF IInv
<1>3. CASE replies' = replies
  <2>1. why' \in Reasons /\ firstRead' \in BOOLEAN /\ pc' \in Over /\ why' # "timeout"
    BY <1>1 DEF Reasons, Over, IInv, Shape
  <2> QED
    BY <1>0, <1>1, <1>2, <1>3, <2>1, Closes
<1>4. CASE replies' = Append(replies, [to |-> Current, form |-> status, keep |-> FALSE])
  <2>1. status \notin Forms
    BY DEF Refusals, Forms
  <2>2. /\ Answers' /\ replies' \in Seq(ReplyType)
        /\ Last(replies') = [to |-> Current, form |-> status, keep |-> FALSE]
    BY <1>0, <1>1, <1>4, <2>1, AnswersAdded
  <2>3. ~Streamed'
    <3>1. Last(replies').form = status
      BY <2>2
    <3> QED
      BY <3>1 DEF Streamed, Refusals
  <2>4. Shape'
    BY <1>1, <2>2 DEF IInv, Shape, Steps, Over, Reasons
  <2>5. Phase' /\ Waits'
    BY <1>1 DEF Phase, Waits, Serving, Reading
  <2>6. Streams'
    BY <1>1, <2>3, StreamsQuiet DEF IInv
  <2> QED
    BY <1>2, <2>2, <2>4, <2>5, <2>6 DEF IInv
<1> QED
  BY <1>1, <1>3, <1>4

\* While a head is read.
LEMMA HeadSteps == ASSUME IInv, HeadLoop PROVE IInv'
<1>0. pc = "head" /\ pc \in Serving
  BY DEF HeadLoop, Serving
<1>1. /\ Current = IF Asked <= Len(script) THEN Asked ELSE 0
      /\ Len(script) \in Nat /\ Len(replies) \in Nat /\ Asked \in Nat \ {0}
      /\ Asked <= Len(script) => script[Asked] \in Requests
      /\ Pending \in Nat /\ received = consumed + Pending /\ consumed \in Nat
      /\ HeadCap \in Nat \ {0} /\ MaxBody \in Nat
      /\ consumed = Start(Asked) /\ Len(replies) <= Len(script)
  <2>1. consumed \in Nat /\ consumed = Start(Asked) /\ Len(replies) <= Len(script)
    BY <1>0 DEF IInv, Buffers, Phase
  <2> QED
    BY <1>0, <2>1, Serves, LimitsAssumption DEF IInv
<1>2. CASE HeadersEnd
  <2>1. /\ pc' = "parse" /\ UNCHANGED <<script, sent, ahead, received, capacity, consumed>>
        /\ UNCHANGED <<count, elapsed, stream, replies, why>>
        /\ gone' = gone /\ firstRead' = firstRead
    BY <1>2 DEF HeadLoop, netVars, bufVars, reqVars, doneVars
  <2>2. Asked <= Len(script)
    BY <1>1, <1>2 DEF HeadersEnd
  <2>3. Phase'
    <3>1. Start(Asked)' = Start(Asked) /\ Asked' = Asked
      BY <2>1, Places DEF Asked
    <3> QED
      BY <1>0, <2>1, <2>2, <3>1 DEF IInv, Phase
  <2>4. Waits'
    BY <2>1, WaitsKept DEF IInv, Reading
  <2>5. Buffers'
    BY <2>1, BuffersKept DEF IInv
  <2>6. received' >= received /\ firstRead' \in BOOLEAN /\ pc' \in Serving
    <3>1. received' >= received
      BY <2>1 DEF IInv, Buffers
    <3> QED
      BY <2>1, <3>1 DEF IInv, Shape, Serving
  <2> QED
    BY <1>0, <2>1, <2>3, <2>4, <2>5, <2>6, MovesOn
<1>3. CASE ~HeadersEnd /\ Pending >= HeadCap
  <2>1. Refuse("431")
    BY <1>3 DEF HeadLoop
  <2>2. Asked <= Len(script)
    <3> SUFFICES ASSUME ~(Asked <= Len(script)) PROVE FALSE
      OBVIOUS
    <3>1. Asked = Len(script) + 1
      BY <1>1 DEF Asked
    <3>2. sent <= consumed /\ received <= sent
      <4>1. sent \in Nat /\ received \in Nat /\ ahead \in 0..ReaderAhead /\ ReaderAhead \in Nat
            /\ received + ahead <= sent /\ sent <= Start(Len(script) + 1)
        BY LimitsAssumption DEF IInv, Buffers
      <4>2. consumed = Start(Len(script) + 1)
        BY <1>1, <3>1
      <4> QED
        BY <4>1, <4>2
    <3>3. sent \in Nat
      BY DEF IInv, Buffers
    <3> QED
      BY <1>1, <1>3, <3>2, <3>3
  <2>3. script[Asked].head > HeadCap
    <3>1. Current = Asked /\ Pending < script[Asked].head
      BY <1>1, <1>3, <2>2, WireType DEF HeadersEnd
    <3> QED
      BY <1>1, <1>3, <2>2, <3>1, WireType
  <2>4. Bad(script[Asked])
    BY <2>3 DEF Bad, Oversize
  <2>5. "431" \in Refusals
    BY DEF Refusals
  <2> QED
    BY <1>0, <2>1, <2>2, <2>4, <2>5, Refuses
<1>4. CASE ~HeadersEnd /\ ~(Pending >= HeadCap)
  <2>1. StartRead("readHead", HeadCap)
    BY <1>4 DEF HeadLoop
  <2>2. Missing
    <3> SUFFICES ASSUME Current # 0 PROVE received < End(Current)
      BY DEF Missing
    <3>1. Current = Asked /\ Asked <= Len(script)
      BY <1>1
    <3>2. /\ script[Asked].head \in Nat /\ Wire(script[Asked]) \in Nat
          /\ script[Asked].head <= Wire(script[Asked])
      BY <1>1, <3>1, WireType
    <3>3. Pending < script[Asked].head
      BY <1>1, <1>4, <3>1, <3>2 DEF HeadersEnd
    <3>4. End(Current) = consumed + Wire(script[Asked])
      BY <1>1, <3>1 DEF End
    <3> QED
      BY <1>1, <3>2, <3>3, <3>4
  <2>3. Pending < HeadCap /\ HeadCap <= MaxBuffer /\ HeadCap \in Nat
    BY <1>1, <1>4 DEF MaxBuffer
  <2>4. "readHead" \in Reading
    BY DEF Reading
  <2> QED
    BY <1>0, <2>1, <2>2, <2>3, <2>4, ReadStarts
<1> QED
  BY <1>2, <1>3, <1>4

\* While a body is read.
LEMMA ParseSteps == ASSUME IInv, ParseLoop PROVE IInv'
<1> DEFINE verdict == Parse(script[Asked], Pending)
<1>0. pc = "parse" /\ pc \in Serving
  BY DEF ParseLoop, Serving
<1>1. /\ Asked <= Len(script) /\ Current = Asked /\ script[Asked] \in Requests
      /\ Pending \in Nat /\ received = consumed + Pending /\ consumed \in Nat
      /\ MaxBuffer \in Nat
  <2>1. consumed \in Nat /\ Asked <= Len(script)
    BY <1>0 DEF IInv, Buffers, Phase
  <2>2. MaxBuffer \in Nat
    BY LimitsAssumption DEF MaxBuffer
  <2> QED
    BY <1>0, <2>1, <2>2, Serves DEF IInv
<1>2. /\ verdict \in Refusals \cup {"ok", "incomplete"}
      /\ verdict \in Refusals => Bad(script[Asked])
      /\ verdict = "incomplete" => Pending < Wire(script[Asked])
  BY <1>1, Verdicts DEF Bad
<1>3. "ok" \notin Refusals /\ "incomplete" \notin Refusals
  BY DEF Refusals
<1>4. CASE verdict = "ok"
  <2>1. /\ pc' = "dispatch" /\ UNCHANGED <<script, sent, ahead, received, capacity, consumed>>
        /\ UNCHANGED <<count, elapsed, stream, replies, why>>
        /\ gone' = gone /\ firstRead' = firstRead
    BY <1>0, <1>1, <1>3, <1>4 DEF ParseLoop, netVars, bufVars, reqVars, doneVars
  <2>2. Phase'
    <3>1. Start(Asked)' = Start(Asked) /\ Asked' = Asked
      BY <2>1, Places DEF Asked
    <3>2. Parse(script[Asked], Pending)' = Parse(script[Asked], Pending)
      BY <2>1 DEF Parse, SpoiltSeen, Spoilt, Pending, Body, Wire, Whole, Sums, Total, Asked
    <3> QED
      BY <1>0, <1>1, <1>4, <2>1, <3>1, <3>2 DEF IInv, Phase
  <2>3. Waits'
    BY <2>1, WaitsKept DEF IInv, Reading
  <2>4. Buffers'
    BY <2>1, BuffersKept DEF IInv
  <2>5. received' >= received
    BY <2>1 DEF IInv, Buffers
  <2>6. firstRead' \in BOOLEAN /\ pc' \in Serving
    BY <2>1 DEF IInv, Shape, Serving
  <2> QED
    BY <1>0, <2>1, <2>2, <2>3, <2>4, <2>5, <2>6, MovesOn
<1>5. CASE verdict \in Refusals
  <2>1. Refuse(verdict)
    BY <1>1, <1>3, <1>5 DEF ParseLoop
  <2> HIDE DEF verdict
  <2> QED
    BY <1>0, <1>1, <1>2, <1>5, <2>1, Refuses
<1>6. CASE verdict = "incomplete" /\ Pending >= MaxBuffer
  <2>1. /\ pc' = "closed" /\ why' = "failed"
        /\ UNCHANGED <<script, sent, ahead, received, capacity, consumed>>
        /\ UNCHANGED <<count, elapsed, stream, replies>>
        /\ gone' = gone /\ firstRead' = firstRead
    BY <1>1, <1>3, <1>6 DEF ParseLoop, Close, netVars, bufVars, reqVars
  <2>2. Buffers'
    BY <2>1, BuffersKept DEF IInv
  <2>3. pc' \in Over /\ why' \in Reasons /\ why' # "timeout" /\ firstRead' \in BOOLEAN
    BY <2>1 DEF Over, Reasons, IInv, Shape
  <2> QED
    BY <1>0, <2>1, <2>2, <2>3, Closes
<1>7. CASE verdict = "incomplete" /\ ~(Pending >= MaxBuffer)
  <2>1. StartRead("readBody", MaxBuffer)
    BY <1>1, <1>3, <1>7 DEF ParseLoop
  <2>2. Missing
    <3>1. Wire(script[Asked]) \in Nat /\ Pending < Wire(script[Asked])
      BY <1>1, <1>2, <1>7, WireType
    <3>2. End(Current) = consumed + Wire(script[Asked])
      BY <1>0, <1>1 DEF End, IInv, Phase
    <3> QED
      BY <1>1, <3>1, <3>2 DEF Missing
  <2>3. "readBody" \in Reading /\ "readBody" # "readHead"
    BY DEF Reading
  <2>4. Pending < MaxBuffer /\ MaxBuffer <= MaxBuffer
    BY <1>1, <1>7
  <2> QED
    BY <1>0, <1>1, <2>1, <2>2, <2>3, <2>4, ReadStarts
<1> QED
  BY <1>2, <1>4, <1>5, <1>6, <1>7

\* A read is over: the loop it was made for goes on.
LEMMA Resumes ==
  ASSUME IInv, pc \in Reading, pc' = Resume, Buffers', firstRead' = FALSE,
         UNCHANGED <<script, consumed, count, elapsed, stream, replies, why>>, gone' = gone,
         received' >= received
  PROVE  IInv'
<1>1. /\ pc \in Serving /\ pc' \in Serving /\ pc' \notin Reading /\ pc' # "dispatch"
      /\ why = "" /\ (pc' = "parse" => pc = "readBody")
  BY DEF IInv, Shape, Reading, Serving, Over, Resume
<1>2. Start(Asked)' = Start(Asked) /\ Asked' = Asked
  BY Places DEF Asked
<1>3. pc' \in {"parse", "readBody", "dispatch"} => pc' = "parse"
  BY <1>1 DEF Reading
<1>4. Phase'
  BY <1>1, <1>2, <1>3 DEF IInv, Phase
<1>5. Waits'
  BY <1>1 DEF Waits
<1> QED
  BY <1>1, <1>4, <1>5, MovesOn

\* The three ends of a wait.
LEMMA ReadSteps == ASSUME IInv, Read \/ ReadEnd \/ TimeOut PROVE IInv'
<1>0. /\ pc \in Reading /\ pc \in Serving
      /\ UNCHANGED <<script, sent, capacity, consumed, count, elapsed, stream, replies>>
      /\ gone' = gone
  BY DEF Read, ReadEnd, TimeOut, netVars, bufVars, reqVars, doneVars, Serving
<1>1. /\ sent \in Nat /\ received \in Nat /\ ahead \in Nat /\ ahead <= ReaderAhead
      /\ ReaderAhead \in Nat /\ received + ahead <= sent /\ capacity \in Nat
      /\ Pending \in Nat /\ Pending <= capacity /\ received = consumed + Pending
      /\ consumed \in Nat
  <2>1. ReaderAhead \in Nat /\ sent \in Nat /\ received \in Nat /\ capacity \in Nat
        /\ ahead \in 0..ReaderAhead /\ received + ahead <= sent
        /\ consumed \in 0..received /\ Pending <= capacity
    BY LimitsAssumption DEF IInv, Buffers
  <2> QED
    BY <2>1 DEF Pending
<1> DEFINE room == capacity - Pending
<1>2. room \in Nat
  BY <1>1
<1>3. ASSUME received' \in Nat, ahead' \in 0..ReaderAhead, received' >= received,
             received' + ahead' <= sent, received' - received <= room
      PROVE  Buffers'
  <2>1. Start(Len(script) + 1)' = Start(Len(script) + 1)
    BY <1>0, Places
  <2>2. Pending' = received' - consumed
    BY <1>0 DEF Pending
  <2>3. received' - received <= capacity - Pending /\ received' \in Nat
    BY <1>3
  <2>4. Pending' <= capacity
    <3>1. \A b, c, p, r, s \in Nat : r = c + p /\ s - r <= b - p => s - c <= b
      OBVIOUS
    <3>2. /\ capacity \in Nat /\ consumed \in Nat /\ Pending \in Nat /\ received \in Nat
          /\ received = consumed + Pending
      BY <1>1
    <3>3. received' - consumed <= capacity
      BY <2>3, <3>1, <3>2
    <3> QED
      BY <2>2, <3>3
  <2>5. consumed \in 0..received'
    BY <1>1, <1>3
  <2> QED
    BY <1>0, <1>3, <2>1, <2>4, <2>5 DEF IInv, Buffers
<1>4. CASE Read
  <2> DEFINE space == room - ahead + ReaderAhead
             taken == IF room > ahead THEN ahead + Min({Kernel, space}) ELSE ahead
             given == Min({room, taken})
  <2>1. /\ Kernel \in Nat /\ Kernel = sent - received - ahead
    BY <1>1 DEF Kernel
  <2>2. room > ahead => /\ space \in Nat
                        /\ Min({Kernel, space}) = IF Kernel <= space THEN Kernel ELSE space
    <3>1. room > ahead => space \in Nat
      BY <1>1, <1>2
    <3> HIDE DEF space
    <3> QED
      BY <2>1, <3>1, MinOfTwo
  <2>3. /\ taken \in Nat /\ taken <= ahead + Kernel /\ taken >= ahead
        /\ taken <= room + ReaderAhead \/ taken = ahead
    BY <1>1, <1>2, <2>1, <2>2
  <2>4. received' = received + given /\ ahead' = taken - given
    BY <1>4 DEF Read
  <2> HIDE DEF room, taken
  <2>5. given = IF room <= taken THEN room ELSE taken
    BY <1>2, <2>3, MinOfTwo
  <2> HIDE DEF given
  <2>6. /\ received' \in Nat /\ ahead' \in 0..ReaderAhead /\ received' >= received
        /\ received' + ahead' <= sent /\ received' - received <= room
    BY <1>1, <1>2, <2>1, <2>3, <2>4, <2>5
  <2>7. Buffers'
    BY <1>3, <2>6 DEF room
  <2>8. pc' = Resume /\ firstRead' = FALSE /\ why' = why
    BY <1>4 DEF Read, doneVars
  <2> QED
    BY <1>0, <2>6, <2>7, <2>8, Resumes
<1>5. CASE ReadEnd
  <2> DEFINE n == Min({room, ahead})
  <2>1. n = IF room <= ahead THEN room ELSE ahead
    <3> HIDE DEF room
    <3> QED
      BY <1>1, <1>2, MinOfTwo
  <2>2. /\ received' = received + n /\ ahead' = ahead - n /\ firstRead' = FALSE
        /\ IF n > 0 THEN pc' = Resume /\ why' = why
                    ELSE pc' = "closed" /\ why' = "peer"
    BY <1>5 DEF ReadEnd, Close
  <2> HIDE DEF room, n
  <2>3. /\ received' \in Nat /\ ahead' \in 0..ReaderAhead /\ received' >= received
        /\ received' + ahead' <= sent /\ received' - received <= room
    BY <1>1, <1>2, <2>1, <2>2
  <2>4. Buffers'
    BY <1>3, <2>3 DEF room
  <2>5. CASE n > 0
    BY <1>0, <2>2, <2>3, <2>4, <2>5, Resumes
  <2>6. CASE ~(n > 0)
    <3>1. received' = received
      BY <1>1, <1>2, <2>1, <2>2, <2>6
    <3>2. pc' \in Over /\ why' \in Reasons /\ why' # "timeout"
      BY <2>2, <2>6 DEF Over, Reasons
    <3> QED
      BY <1>0, <2>2, <2>4, <3>1, <3>2, Closes
  <2> QED
    BY <2>5, <2>6
<1>6. CASE TimeOut
  <2>1. /\ pc' = "closed" /\ why' = "timeout" /\ firstRead' = firstRead
        /\ UNCHANGED <<ahead, received>>
    BY <1>6 DEF TimeOut, Close, bufVars, reqVars
  <2>2. Buffers'
    BY <1>0, <2>1, BuffersKept DEF IInv
  <2>3. pc' \in Over /\ why' \in Reasons /\ firstRead' \in BOOLEAN
    BY <2>1 DEF Over, Reasons, IInv, Shape
  <2>4. Missing
    BY <1>0 DEF IInv, Waits
  <2> QED
    BY <1>0, <2>1, <2>2, <2>3, <2>4, Closes
<1> QED
  BY <1>4, <1>5, <1>6

\* A request that is dispatched is there, and within the limits.
LEMMA Dispatched ==
  ASSUME IInv, pc = "dispatch"
  PROVE  /\ pc \in Serving /\ Asked <= Len(script) /\ Current = Asked /\ ~Bad(script[Asked])
         /\ End(Asked) = Leftover /\ Start(Asked + 1) = End(Asked) /\ End(Asked) \in Nat
         /\ consumed <= Leftover /\ Leftover <= received /\ Leftover \in Nat
         /\ consumed \in Nat /\ received \in Nat
         /\ count \in Nat /\ count < MaxPerConnection /\ MaxPerConnection \in Nat
         /\ why = ""
<1>1. pc \in Serving
  BY DEF Serving
<1>2. /\ Asked <= Len(script) /\ consumed = Start(Asked) /\ consumed \in Nat /\ received \in Nat
      /\ Parse(script[Asked], Pending) = "ok"
  BY <1>1 DEF IInv, Phase, Buffers
<1>3. /\ Current = Asked /\ script[Asked] \in Requests /\ Pending \in Nat
      /\ received = consumed + Pending /\ Len(script) \in Nat /\ Asked \in Nat \ {0}
  BY <1>1, <1>2, Serves DEF IInv
<1>4. Pending >= Wire(script[Asked]) /\ ~Bad(script[Asked])
  BY <1>2, <1>3, Verdicts DEF Bad
<1>5. Wire(script[Asked]) \in Nat
  BY <1>3, WireType
<1>6. End(Asked) = consumed + Wire(script[Asked]) /\ Leftover = consumed + Wire(script[Asked])
  BY <1>2, <1>3 DEF End, Leftover
<1>7. Start(Asked + 1) = End(Asked)
  <2>1. Asked \in 1..Len(script)
    BY <1>2, <1>3
  <2> QED
    BY <2>1, Starts DEF IInv, Shape
<1>8. consumed <= Leftover /\ Leftover <= received /\ Leftover \in Nat
  BY <1>2, <1>3, <1>4, <1>5, <1>6
<1>9. /\ count \in Nat /\ count < MaxPerConnection /\ MaxPerConnection \in Nat
      /\ why = ""
  <2>1. pc \notin Over
    BY DEF Over
  <2>2. count \in 0..MaxPerConnection
    BY DEF IInv, Shape
  <2>3. MaxPerConnection \in Nat
    BY LimitsAssumption
  <2>4. count \in Nat
    BY <2>2, <2>3
  <2>5. why = "" /\ count < MaxPerConnection
    BY <2>1 DEF IInv, Shape
  <2> QED
    BY <2>3, <2>4, <2>5
<1> QED
  BY <1>1, <1>2, <1>3, <1>4, <1>6, <1>7, <1>8, <1>9

\* The dispatch, or a write, ends the connection without an answer.
LEMMA Leaves ==
  ASSUME IInv, pc = "dispatch", pc' \in Over, why' \in Reasons, why' # "timeout",
         UNCHANGED <<netVars, bufVars, reqVars, stream, replies>>
  PROVE  IInv'
<1>1. /\ UNCHANGED <<script, sent, ahead, received, capacity, consumed>>
      /\ UNCHANGED <<count, elapsed, stream, replies>>
      /\ gone' = gone /\ firstRead' = firstRead
  BY DEF netVars, bufVars, reqVars
<1>2. Buffers'
  BY <1>1, BuffersKept DEF IInv
<1>3. firstRead' \in BOOLEAN /\ pc \in Serving
  BY <1>1 DEF IInv, Shape, Serving
<1> QED
  BY <1>1, <1>2, <1>3, Closes

\* A buffered answer.
LEMMA Answered == ASSUME IInv, NEW keep \in BOOLEAN, Answer(keep) PROVE IInv'
<1>0. pc = "dispatch"
  BY DEF Answer
<1>b. CASE WriteBlocks
  BY <1>0, <1>b, Hangs
<1>1. CASE Close("peer") /\ UNCHANGED <<reqVars, replies>>
  <2>1. pc' \in Over /\ why' \in Reasons /\ why' # "timeout"
    BY <1>1 DEF Close, Over, Reasons
  <2>2. UNCHANGED <<netVars, bufVars, reqVars, stream, replies>>
    BY <1>1 DEF Answer
  <2> QED
    BY <1>0, <2>1, <2>2, Leaves
<1>2. CASE /\ replies' = Reply("buffered", keep)
           /\ count' = count + (IF keep THEN 1 ELSE 0)
           /\ IF keep /\ count + 1 < MaxPerConnection
              THEN NextRequest
              ELSE Close("answered") /\ UNCHANGED <<consumed, firstRead, elapsed>>
  <2>1. /\ UNCHANGED <<script, sent, ahead, received, capacity, stream>> /\ gone' = gone
        /\ replies' = Append(replies, [to |-> Current, form |-> "buffered", keep |-> keep])
    BY <1>2 DEF Answer, netVars, bufVars, Reply
  <2>2. /\ pc \in Serving /\ Asked <= Len(script) /\ Current = Asked /\ ~Bad(script[Asked])
        /\ received >= End(Asked)
    BY <1>0, Dispatched
  <2>3. "buffered" \in Forms /\ "buffered" \notin Refusals
    BY DEF Forms, Refusals
  <2>4. /\ Answers' /\ replies' \in Seq(ReplyType) /\ Len(replies') = Len(replies) + 1
        /\ Last(replies') = [to |-> Current, form |-> "buffered", keep |-> keep]
        /\ DOMAIN replies' = DOMAIN replies \cup {Asked}
        /\ \A i \in DOMAIN replies : replies'[i] = replies[i]
        /\ replies'[Asked] = [to |-> Current, form |-> "buffered", keep |-> keep]
    BY <2>1, <2>2, <2>3, AnswersAdded
  <2>5. ~Streamed'
    <3>1. Last(replies').form = "buffered"
      BY <2>4
    <3> QED
      BY <3>1 DEF Streamed
  <2>6. CASE keep /\ count + 1 < MaxPerConnection
    <3>1. /\ consumed' = Leftover /\ elapsed' = 0 /\ pc' = "head" /\ why' = why
          /\ firstRead' \in BOOLEAN /\ count' = count + 1
      BY <1>2, <2>6 DEF NextRequest
    <3>2. Shape'
      <4>1. count' \in 0..MaxPerConnection /\ count' < MaxPerConnection
        <5>1. count \in Nat /\ MaxPerConnection \in Nat
          BY <1>0, Dispatched
        <5> QED
          BY <2>6, <3>1, <5>1
      <4>2. elapsed' \in 0..TotalTimeout
        BY <3>1, LimitsAssumption
      <4>3. pc' \in Steps /\ why' = ""
        <5>1. why = ""
          BY <1>0, Dispatched
        <5> QED
          BY <3>1, <5>1 DEF Steps
      <4> QED
        BY <2>1, <2>4, <3>1, <4>1, <4>2, <4>3 DEF IInv, Shape, Reasons
    <3>3. Buffers'
      <4>1. consumed' \in 0..received /\ consumed' >= consumed /\ consumed' \in Nat
            /\ consumed \in Nat /\ received \in Nat
        <5>1. consumed \in Nat /\ received \in Nat /\ Leftover \in Nat
              /\ consumed <= Leftover /\ Leftover <= received
          BY <1>0, Dispatched
        <5>2. Leftover \in 0..received
          BY <5>1
        <5> QED
          BY <3>1, <5>1, <5>2
      <4>2. Pending' = received - consumed' /\ Pending = received - consumed
        BY <2>1 DEF Pending
      <4>3. capacity \in Nat /\ Pending <= capacity
        BY DEF IInv, Buffers
      <4>4. Pending' <= capacity
        <5>1. \A b, c, d, t \in Nat : d >= c /\ t - c <= b => t - d <= b
          OBVIOUS
        <5>2. received - consumed <= capacity
          BY <4>2, <4>3
        <5>3. received - consumed' <= capacity
          BY <4>1, <4>3, <5>1, <5>2
        <5> QED
          BY <4>2, <5>3
      <4>5. Start(Len(script) + 1)' = Start(Len(script) + 1)
        BY <2>1, Places
      <4> QED
        BY <2>1, <4>1, <4>4, <4>5 DEF IInv, Buffers
    <3>4. Phase'
      <4>1. Len(script) \in Nat /\ Len(replies) \in Nat /\ Asked = Len(replies) + 1
        BY <2>2, Serves DEF IInv, Asked
      <4>2. Asked' = Asked + 1 /\ Len(replies') <= Len(script')
        BY <2>1, <2>2, <2>4, <4>1 DEF Asked
      <4>3. Start(Asked)' = Start(Asked + 1)
        BY <2>1, <4>2 DEF Start
      <4>4. consumed' = Start(Asked)'
        BY <1>0, <3>1, <4>3, Dispatched
      <4>5. \A i \in DOMAIN replies' : replies'[i].keep /\ replies'[i].form = "buffered"
        <5>1. \A i \in DOMAIN replies : replies[i].keep /\ replies[i].form = "buffered"
          BY <2>2 DEF IInv, Phase
        <5>2. replies'[Asked].keep /\ replies'[Asked].form = "buffered"
          BY <2>4, <2>6
        <5> QED
          BY <2>4, <5>1, <5>2
      <4> QED
        BY <3>1, <4>2, <4>4, <4>5 DEF Phase
    <3>5. Waits'
      BY <1>0, <3>1, Dispatched DEF Waits, Reading
    <3>6. Streams'
      BY <2>1, <2>5, <3>1, StreamsQuiet DEF IInv
    <3> QED
      BY <2>4, <3>2, <3>3, <3>4, <3>5, <3>6 DEF IInv
  <2>7. CASE ~(keep /\ count + 1 < MaxPerConnection)
    <3>1. /\ pc' = "closed" /\ why' = "answered" /\ consumed' = consumed /\ elapsed' = elapsed
          /\ firstRead' = firstRead
      BY <1>2, <2>7 DEF Close
    <3>2. Shape'
      <4>1. count' \in 0..MaxPerConnection
        <5>1. count \in Nat /\ MaxPerConnection \in Nat /\ count < MaxPerConnection
          BY <1>0, Dispatched
        <5>2. count' = count + 1 \/ count' = count
          BY <1>2, <5>1
        <5> QED
          BY <5>1, <5>2
      <4>2. pc' \in Steps /\ pc' \in Over /\ why' \in Reasons
        BY <3>1 DEF Steps, Over, Reasons
      <4> QED
        BY <2>1, <2>4, <3>1, <4>1, <4>2 DEF IInv, Shape
    <3>3. Buffers'
      BY <2>1, <3>1, BuffersKept DEF IInv
    <3>4. Phase' /\ Waits'
      BY <3>1 DEF Phase, Waits, Serving, Reading
    <3>5. Streams'
      BY <2>1, <2>5, <3>1, StreamsQuiet DEF IInv
    <3> QED
      BY <2>4, <3>2, <3>3, <3>4, <3>5 DEF IInv
  <2> QED
    BY <2>6, <2>7
<1> QED
  BY <1>b, <1>1, <1>2 DEF Answer

\* The head of a streamed answer leaves.
LEMMA StreamStarts ==
  ASSUME IInv, NEW fixed \in BOOLEAN, NEW promised \in Nat, StartStream(fixed, promised)
  PROVE  IInv'
<1> DEFINE form == IF fixed THEN "fixed" ELSE "chunked"
<1>0. pc = "dispatch"
  BY DEF StartStream
<1>b. CASE WriteBlocks
  BY <1>0, <1>b, Hangs
<1>1. CASE Close("peer") /\ UNCHANGED <<replies, stream>>
  <2>1. pc' \in Over /\ why' \in Reasons /\ why' # "timeout"
    BY <1>1 DEF Close, Over, Reasons
  <2>2. UNCHANGED <<netVars, bufVars, reqVars, stream, replies>>
    BY <1>1 DEF StartStream
  <2> QED
    BY <1>0, <2>1, <2>2, Leaves
<1>2. CASE /\ pc' = "stream" /\ why' = why
           /\ stream' = [NoStream EXCEPT !.fixed = fixed, !.promised = promised]
           /\ replies' = Reply(form, FALSE)
  <2>1. /\ UNCHANGED <<script, sent, ahead, received, capacity, consumed, count, elapsed>>
        /\ gone' = gone /\ firstRead' = firstRead
        /\ replies' = Append(replies, [to |-> Current, form |-> form, keep |-> FALSE])
    BY <1>2 DEF StartStream, netVars, bufVars, reqVars, Reply
  <2>2. /\ pc \in Serving /\ Asked <= Len(script) /\ ~Bad(script[Asked])
        /\ received >= End(Asked) /\ why = ""
    BY <1>0, Dispatched
  <2>3. form \in {"fixed", "chunked"} /\ form \in Forms /\ form \notin Refusals
    BY DEF Forms, Refusals
  <2>4. /\ Answers' /\ replies' \in Seq(ReplyType) /\ replies' # <<>>
        /\ Last(replies') = [to |-> Current, form |-> form, keep |-> FALSE]
    <3> HIDE DEF form
    <3> QED
      BY <2>1, <2>2, <2>3, AnswersAdded
  <2>5. Last(replies').form = form /\ Streamed'
    <3>1. Last(replies').form = form
      BY <2>4
    <3> QED
      BY <2>3, <2>4, <3>1 DEF Streamed
  <2>6. /\ stream'.fixed = fixed /\ stream'.promised = promised /\ stream'.sent = 0
        /\ stream'.done = FALSE /\ stream' \in StreamType
    <3>1. stream' = [fixed |-> fixed, promised |-> promised, buffered |-> 0, sent |-> 0,
                     done |-> FALSE]
      BY <1>2 DEF NoStream
    <3>2. 0 \in 0..StreamBuffer /\ 0 \in Nat
      BY LimitsAssumption
    <3> QED
      BY <3>1, <3>2 DEF StreamType
  <2>7. Shape'
    <3>1. pc \notin Over /\ pc' \in Steps
      BY <1>0, <1>2 DEF Over, Steps
    <3> QED
      BY <1>2, <2>1, <2>2, <2>4, <2>6, <3>1 DEF IInv, Shape
  <2>8. Buffers'
    BY <2>1, BuffersKept DEF IInv
  <2>9. Phase' /\ Waits'
    BY <1>2, <2>2 DEF Phase, Waits, Serving, Reading
  <2>10. Streams'
    <3>1. 0 <= promised
      OBVIOUS
    <3> QED
      BY <1>2, <2>5, <2>6, <3>1 DEF Streams
  <2> QED
    BY <2>4, <2>7, <2>8, <2>9, <2>10 DEF IInv
<1> QED
  BY <1>b, <1>1, <1>2 DEF StartStream

\* The handler streams, or is back.
LEMMA StreamsOn ==
  ASSUME IInv, pc = "stream", pc' \in {"stream", "closed"},
         UNCHANGED <<netVars, bufVars, reqVars, replies>>,
         pc' = "stream" => why' = "", why' \in Reasons, why' # "timeout",
         stream' \in StreamType, stream'.fixed = stream.fixed,
         stream'.done => stream'.buffered = 0,
         stream'.fixed => stream'.sent <= stream'.promised,
         pc' = "closed" /\ why' # "peer" /\ ~stream'.fixed => stream'.done
  PROVE  IInv'
<1>1. /\ UNCHANGED <<script, sent, ahead, received, capacity, consumed, count, elapsed>>
      /\ gone' = gone /\ firstRead' = firstRead /\ replies' = replies
  BY DEF netVars, bufVars, reqVars
<1>2. Shape'
  <2>1. pc \notin Over /\ pc' \in Steps /\ (pc' \notin Over => pc' = "stream")
    BY DEF Over, Steps
  <2> QED
    BY <1>1, <2>1 DEF IInv, Shape
<1>3. Buffers'
  BY <1>1, BuffersKept DEF IInv
<1>4. Phase' /\ Waits'
  BY DEF Phase, Waits, Serving, Reading
<1>5. Answers'
  BY <1>1, AnswersSame DEF IInv, Shape, Buffers
<1>6. Streams'
  <2>1. Streamed' = Streamed /\ Last(replies') = Last(replies)
    BY <1>1 DEF Streamed
  <2> QED
    BY <1>1, <2>1 DEF IInv, Streams
<1> QED
  BY <1>2, <1>3, <1>4, <1>5, <1>6 DEF IInv

\* What is handed down is no more than was promised.
LEMMA DrainedType ==
  ASSUME stream \in StreamType, NEW n \in Nat, Drains(n)
  PROVE  /\ Drained(n) \in StreamType /\ Drained(n).fixed = stream.fixed
         /\ Drained(n).done = stream.done /\ Drained(n).buffered = 0
         /\ Drained(n).fixed => Drained(n).sent <= Drained(n).promised
         /\ [Drained(n) EXCEPT !.done = TRUE] \in StreamType
         /\ [Drained(n) EXCEPT !.done = TRUE].fixed = stream.fixed
         /\ [Drained(n) EXCEPT !.done = TRUE].buffered = 0
         /\ [Drained(n) EXCEPT !.done = TRUE].done
<1>1. stream.sent + n \in Nat /\ 0 \in 0..StreamBuffer
  BY LimitsAssumption DEF StreamType
<1>2. /\ Drained(n) \in StreamType /\ Drained(n).fixed = stream.fixed
      /\ Drained(n).done = stream.done /\ Drained(n).buffered = 0
      /\ Drained(n).sent = stream.sent + n /\ Drained(n).promised = stream.promised
  BY <1>1 DEF Drained, StreamType
<1>3. Drained(n).fixed => Drained(n).sent <= Drained(n).promised
  BY <1>2 DEF Drains
<1>4. /\ [Drained(n) EXCEPT !.done = TRUE] \in StreamType
      /\ [Drained(n) EXCEPT !.done = TRUE].fixed = stream.fixed
      /\ [Drained(n) EXCEPT !.done = TRUE].buffered = 0
      /\ [Drained(n) EXCEPT !.done = TRUE].done
  BY <1>2 DEF StreamType
<1> QED
  BY <1>2, <1>3, <1>4

\* While the handler is at it.
LEMMA StreamSteps ==
  ASSUME IInv, (\E n \in 1..MaxStream : Write(n)) \/ Flush \/ EndStream
  PROVE  IInv'
<1>1. pc = "stream" /\ stream.done = FALSE /\ stream \in StreamType
  BY DEF Write, Flush, EndStream, IInv, Shape, StreamType
<1>2. why = "" /\ why \in Reasons
  BY <1>1 DEF IInv, Shape, Over, Reasons
<1>3. stream.fixed => stream.sent <= stream.promised
  BY DEF IInv, Streams
<1>4. stream.buffered \in Nat /\ StreamBuffer \in Nat
  <2>1. StreamBuffer \in Nat
    BY LimitsAssumption
  <2>2. stream.buffered \in 0..StreamBuffer
    BY <1>1 DEF StreamType
  <2> QED
    BY <2>1, <2>2
<1>5. ASSUME NEW goesDown \in BOOLEAN, NEW written \in StreamType, written.fixed = stream.fixed,
             written.done => written.buffered = 0,
             written.fixed => written.sent <= written.promised,
             StreamWrite(goesDown, written)
      PROVE  IInv'
  <2>1. CASE WriteBlocks
    BY <1>1, <2>1, Hangs
  <2>2. CASE /\ stream' = written /\ pc' = pc /\ why' = why
             /\ UNCHANGED <<netVars, bufVars, reqVars, replies>>
    BY <1>1, <1>2, <1>5, <2>2, StreamsOn
  <2> QED
    BY <1>5, <2>1, <2>2 DEF StreamWrite
<1>6. ASSUME NEW n \in Nat, Drains(n), NEW goesDown \in BOOLEAN,
             StreamWrite(goesDown, Drained(n))
      PROVE  IInv'
  BY <1>1, <1>5, <1>6, DrainedType
<1>7. ASSUME NEW n \in 1..MaxStream, Write(n) PROVE IInv'
  <2>1. n \in Nat /\ stream.buffered + n \in Nat
    BY <1>4, LimitsAssumption
  <2>2. CASE stream.buffered + n <= StreamBuffer
    <3> DEFINE written == [stream EXCEPT !.buffered = @ + n]
    <3>1. StreamWrite(FALSE, written)
      BY <1>7, <2>2 DEF Write
    <3>2. stream.buffered + n \in 0..StreamBuffer
      BY <1>4, <2>1, <2>2
    <3>3. /\ written \in StreamType /\ written.fixed = stream.fixed
          /\ written.done = stream.done /\ written.sent = stream.sent
          /\ written.promised = stream.promised
      BY <1>1, <3>2 DEF StreamType
    <3> HIDE DEF written
    <3> QED
      BY <1>1, <1>3, <1>5, <3>1, <3>3
  <2>3. CASE ~(stream.buffered + n <= StreamBuffer)
    BY <1>6, <1>7, <2>1, <2>3 DEF Write
  <2> QED
    BY <2>2, <2>3
<1>8. CASE Flush
  BY <1>4, <1>6, <1>8 DEF Flush
<1>9. CASE EndStream
  <2>1. Drains(stream.buffered)
    BY <1>9 DEF EndStream
  <2>2. CASE StreamWrite(stream.buffered > 0, Drained(stream.buffered))
    <3>1. (stream.buffered > 0) \in BOOLEAN
      OBVIOUS
    <3> QED
      BY <1>4, <1>6, <2>1, <2>2, <3>1
  <2>3. CASE StreamWrite(TRUE, Ended) /\ ~stream.fixed
    <3>1. /\ Ended \in StreamType /\ Ended.fixed = stream.fixed /\ Ended.buffered = 0
      BY <1>1, <1>4, <2>1, DrainedType DEF Ended
    <3> QED
      BY <1>5, <2>3, <3>1
  <2> QED
    BY <1>9, <2>2, <2>3 DEF EndStream
<1> QED
  BY <1>7, <1>8, <1>9

\* The handler is back.
LEMMA StreamFinishes ==
  ASSUME IInv, NEW reason \in {"answered", "failed"}, FinishStream(reason)
  PROVE  IInv'
<1>0. pc = "stream"
  BY DEF FinishStream
<1>b. CASE WriteBlocks
  BY <1>0, <1>b, Hangs
<1> SUFFICES ASSUME ~WriteBlocks PROVE IInv'
  BY <1>b
<1>1. /\ pc = "stream" /\ pc' = "closed" /\ (why' = reason \/ why' = "peer")
      /\ UNCHANGED <<netVars, bufVars, reqVars, replies>>
  BY DEF FinishStream, Close
<1>2. why' \in Reasons /\ why' # "timeout" /\ stream \in StreamType
  BY <1>1 DEF IInv, Shape, Reasons
<1>3. /\ stream.fixed => stream.sent <= stream.promised
      /\ stream.done => stream.buffered = 0
  BY DEF IInv, Streams
<1>4. CASE why' = "peer" /\ stream' = stream
  BY <1>1, <1>2, <1>3, <1>4, StreamsOn
<1>5. CASE stream' = stream /\ (stream.fixed \/ stream.done)
  BY <1>1, <1>2, <1>3, <1>5, StreamsOn
<1>6. CASE ~stream.fixed /\ stream' = Ended
  <2>1. stream.buffered \in Nat /\ Drains(stream.buffered)
    BY <1>2, <1>6, LimitsAssumption DEF StreamType, Drains
  <2>2. /\ stream' \in StreamType /\ stream'.fixed = stream.fixed
        /\ stream'.buffered = 0 /\ stream'.done
    BY <1>2, <1>6, <2>1, DrainedType DEF Ended
  <2> QED
    BY <1>1, <1>2, <1>6, <2>2, StreamsOn
<1> QED
  BY <1>4, <1>5, <1>6 DEF FinishStream, Close

-----------------------------------------------------------------------------
(* The theorems                                                            *)

\* Every step of the connection keeps the invariant.
LEMMA IInvNext == IInv /\ [Next]_vars => IInv'
<1> SUFFICES ASSUME IInv, [Next]_vars PROVE IInv'
  OBVIOUS
<1>1. CASE Send \/ Hangup \/ Tick
  BY <1>1, PeerSteps
<1>2. CASE HeadLoop
  BY <1>2, HeadSteps
<1>3. CASE ParseLoop
  BY <1>3, ParseSteps
<1>4. CASE Read \/ ReadEnd \/ TimeOut
  BY <1>4, ReadSteps
<1>5. ASSUME NEW keep \in BOOLEAN, Answer(keep) PROVE IInv'
  BY <1>5, Answered
<1>6. CASE Upgrade \/ DispatchFails
  <2>1. /\ pc = "dispatch" /\ pc' \in Over /\ why' \in Reasons /\ why' # "timeout"
        /\ UNCHANGED <<netVars, bufVars, reqVars, stream, replies>>
    BY <1>6 DEF Upgrade, DispatchFails, Close, Over, Reasons
  <2> QED
    BY <2>1, Leaves
<1>7. ASSUME NEW promised \in 0..MaxStream, StartStream(TRUE, promised) PROVE IInv'
  <2>1. promised \in Nat
    BY LimitsAssumption
  <2> QED
    BY <1>7, <2>1, StreamStarts
<1>8. CASE StartStream(FALSE, 0)
  BY <1>8, StreamStarts
<1>9. CASE (\E n \in 1..MaxStream : Write(n)) \/ Flush \/ EndStream
  BY <1>9, StreamSteps
<1>10. ASSUME NEW reason \in {"answered", "failed"}, FinishStream(reason) PROVE IInv'
  BY <1>10, StreamFinishes
<1>12. CASE BlockedWriteFails
  BY <1>12, HungFails
<1>11. CASE UNCHANGED vars
  <2>1. /\ UNCHANGED <<script, ahead, received, capacity, consumed, firstRead, count, pc>>
        /\ UNCHANGED <<sent, elapsed, stream, replies, why>> /\ gone' = gone
    BY <1>11 DEF vars, netVars, bufVars, reqVars, doneVars
  <2>2. Shape'
    BY <2>1 DEF IInv, Shape
  <2>3. Buffers'
    BY <2>1, BuffersKept DEF IInv
  <2>4. Phase'
    <3>1. Start(Asked)' = Start(Asked) /\ Asked' = Asked
      BY <2>1, Places DEF Asked
    <3>2. Parse(script[Asked], Pending)' = Parse(script[Asked], Pending)
      BY <2>1 DEF Parse, SpoiltSeen, Spoilt, Pending, Body, Wire, Whole, Sums, Total, Asked
    <3> QED
      BY <2>1, <3>1, <3>2 DEF IInv, Phase
  <2>5. Waits'
    BY <2>1, WaitsKept DEF IInv
  <2>6. Answers'
    BY <2>1, AnswersSame DEF IInv, Shape, Buffers
  <2>7. Streams'
    BY <2>1 DEF IInv, Streams, Streamed
  <2> QED
    BY <2>2, <2>3, <2>4, <2>5, <2>6, <2>7 DEF IInv
<1> QED
  BY <1>1, <1>2, <1>3, <1>4, <1>5, <1>6, <1>7, <1>8, <1>9, <1>10, <1>11, <1>12
     DEF Next, Peer, Server, Handler

\* So it always holds.
LEMMA Held == Spec => []IInv
<1>1. Init => IInv
  BY IInvInit
<1>2. IInv /\ [Next]_vars => IInv'
  BY IInvNext
<1> QED
  BY <1>1, <1>2, PTL DEF Spec

\* The state of handleConnection keeps its types, whatever is sent.
THEOREM TypeCorrect == Spec => []TypeOK
BY Held, Implied, PTL

\* Requests that come together, in pieces, or behind a keep-alive answer are
\* answered one by one in the order they were sent, and none before it is whole.
THEOREM InTurn == Spec => []InOrder
BY Held, Implied, PTL

\* The limits are applied to each request by itself: exactly those beyond them,
\* or with a head that cannot be parsed, are refused, whatever came before.
THEOREM Limited == Spec => []LimitsHeld
BY Held, Implied, PTL

\* ensureReadCapacity and the two loops never ask for more than max_request_bytes,
\* max_body_bytes and the 4 bytes of slack: however often recv_buf grew, it is at
\* most what the allocator adds to one size asked beyond them.
THEOREM Bounded == Spec => []BufferBounded
BY Held, Implied, PTL

\* Every way out of a streaming handler ends a chunked response, and a
\* fixed-length writer never sends more than its Content-Length.
THEOREM Framed == Spec => []StreamsFramed
BY Held, Implied, PTL

\* No read is begun, and so none times out, while a whole request is in recv_buf.
THEOREM Served == Spec => []LeftoverServed
BY Held, Implied, PTL
=============================================================================
