------------------------- MODULE WasmDispatchProofs -------------------------
(***************************************************************************)
(* The chain of promises of WasmDispatchQueue is a FIFO lock, for any      *)
(* number of calls: it implements SerialCalls.                             *)
(***************************************************************************)
EXTENDS WasmDispatch, SequenceTheorems, TLAPS

States == {"waiting", "running", "released"}

Links == [prev : Nat, state : States]

ChainType == links \in Seq(Links) /\ tail \in Nat

\* Each link waits for the one before it; and whoever is past its wait was let past
\* by all before it.
Chain ==
    /\ tail = Len(links)
    /\ \A n \in 1..Len(links) : links[n].prev = n - 1

Ordered ==
    \A n \in 1..Len(links) : \A m \in 1..(n - 1) :
        links[n].state # "waiting" => links[m].state = "released"

DispatchInv == ChainType /\ Chain /\ Ordered

\* The invariant holds at the start.
LEMMA DispatchInvInit == DispatchInit => DispatchInv
BY DEF DispatchInit, DispatchInv, ChainType, Chain, Ordered, States

\* Link, Admit and Release keep it.
LEMMA DispatchInvNext == DispatchInv /\ [DispatchNext]_dispatchVars => DispatchInv'
<1> SUFFICES ASSUME DispatchInv, [DispatchNext]_dispatchVars PROVE DispatchInv'
  OBVIOUS
<1> USE DEF DispatchInv, ChainType, Chain, Ordered, States
<1>1. CASE Link
  <2> DEFINE new == [prev |-> tail, state |-> "waiting"]
  <2>1. links' = Append(links, new) /\ tail' = Len(links) + 1
    BY <1>1 DEF Link
  <2>2. new \in Links
    BY DEF Links
  <2>3. /\ links' \in Seq(Links)
        /\ Len(links') = Len(links) + 1
        /\ \A n \in 1..Len(links) : links'[n] = links[n]
        /\ links'[Len(links) + 1] = new
    BY <2>1, <2>2
  <2> QED
    BY <2>1, <2>3
<1>2. ASSUME NEW n \in DOMAIN links, Admit(n) PROVE DispatchInv'
  <2>1. /\ links[n].state = "waiting"
        /\ links' = [links EXCEPT ![n].state = "running"]
        /\ tail' = tail
    BY <1>2 DEF Admit
  <2>2. n \in 1..Len(links) /\ DOMAIN links = 1..Len(links)
    OBVIOUS
  <2>3. \A m \in 1..(n - 1) : links[m].state = "released"
    <3>1. CASE n = 1
      BY <3>1
    <3>2. CASE n # 1
      <4>1. n - 1 \in 1..Len(links) /\ links[n].prev = n - 1
        BY <2>2, <3>2
      <4>2. links[n - 1].state = "released"
        BY <1>2, <4>1 DEF Admit, Resolved
      <4> QED
        BY <4>1, <4>2
    <3> QED
      BY <3>1, <3>2
  <2>4. /\ links' \in Seq(Links)
        /\ Len(links') = Len(links)
        /\ \A m \in 1..Len(links) : links'[m].prev = links[m].prev
        /\ \A m \in 1..Len(links) : m # n => links'[m].state = links[m].state
        /\ links'[n].state = "running"
    <3> DEFINE new == [links[n] EXCEPT !.state = "running"]
    <3>1. links \in Seq(Links) /\ \A m \in 1..Len(links) : links[m] \in Links
      BY ElementOfSeq
    <3>2. new \in Links /\ new.prev = links[n].prev /\ new.state = "running"
      BY <2>2, <3>1 DEF Links
    <3>3. links' = [links EXCEPT ![n] = new]
      BY <2>1
    <3> HIDE DEF new
    <3>4. /\ links' \in Seq(Links) /\ Len(links') = Len(links)
          /\ \A m \in 1..Len(links) : links'[m] = IF m = n THEN new ELSE links[m]
      BY <2>2, <3>1, <3>2, <3>3, ExceptSeq
    <3> QED
      BY <2>2, <3>2, <3>4
  <2> QED
    BY <2>1, <2>2, <2>3, <2>4
<1>3. ASSUME NEW n \in DOMAIN links, Release(n) PROVE DispatchInv'
  <2>1. /\ links[n].state = "running"
        /\ links' = [links EXCEPT ![n].state = "released"]
        /\ tail' = tail
    BY <1>3 DEF Release
  <2>2. n \in 1..Len(links) /\ DOMAIN links = 1..Len(links)
    OBVIOUS
  <2>3. /\ links' \in Seq(Links)
        /\ Len(links') = Len(links)
        /\ \A m \in 1..Len(links) : links'[m].prev = links[m].prev
        /\ \A m \in 1..Len(links) : m # n => links'[m].state = links[m].state
        /\ links'[n].state = "released"
    <3> DEFINE new == [links[n] EXCEPT !.state = "released"]
    <3>1. links \in Seq(Links) /\ \A m \in 1..Len(links) : links[m] \in Links
      BY ElementOfSeq
    <3>2. new \in Links /\ new.prev = links[n].prev /\ new.state = "released"
      BY <2>2, <3>1 DEF Links
    <3>3. links' = [links EXCEPT ![n] = new]
      BY <2>1
    <3> HIDE DEF new
    <3>4. /\ links' \in Seq(Links) /\ Len(links') = Len(links)
          /\ \A m \in 1..Len(links) : links'[m] = IF m = n THEN new ELSE links[m]
      BY <2>2, <3>1, <3>2, <3>3, ExceptSeq
    <3> QED
      BY <2>2, <3>2, <3>4
  <2> QED
    BY <2>1, <2>2, <2>3
<1>4. CASE UNCHANGED dispatchVars
  BY <1>4 DEF dispatchVars
<1> QED
  BY <1>1, <1>2, <1>3, <1>4 DEF DispatchNext

-----------------------------------------------------------------------------
(* The refinement *)

PhaseOf(l) == [n \in DOMAIN l |-> l[n].state]
phaseBar == PhaseOf(links)

\* What a sequence of links says of its calls.
LEMMA PhaseProperties ==
  ASSUME NEW l \in Seq(Links)
  PROVE  /\ PhaseOf(l) \in Seq(States) /\ Len(PhaseOf(l)) = Len(l)
         /\ DOMAIN l = 1..Len(l)
         /\ \A n \in 1..Len(l) : PhaseOf(l)[n] = l[n].state
<1>1. /\ DOMAIN l = 1..Len(l) /\ Len(l) \in Nat
      /\ \A n \in 1..Len(l) : l[n] \in Links
  BY ElementOfSeq, LenProperties
<1>2. \A n \in 1..Len(l) : PhaseOf(l)[n] = l[n].state /\ l[n].state \in States
  BY <1>1 DEF PhaseOf, Links
<1>3. PhaseOf(l) \in [1..Len(l) -> States]
  BY <1>1, <1>2 DEF PhaseOf
<1>4. PhaseOf(l) \in Seq(States)
  BY <1>1, <1>3, SeqDef
<1>5. 1..Len(PhaseOf(l)) = 1..Len(l) /\ Len(PhaseOf(l)) \in Nat
  BY <1>3, <1>4, LenProperties
<1>6. Len(PhaseOf(l)) = Len(l)
  BY <1>1, <1>5
<1> QED
  BY <1>1, <1>2, <1>4, <1>6

\* A link whose state changes is one call whose phase does.
LEMMA PhaseExcept ==
  ASSUME NEW l \in Seq(Links), NEW n \in 1..Len(l), NEW v \in States
  PROVE  PhaseOf([l EXCEPT ![n].state = v]) = [PhaseOf(l) EXCEPT ![n] = v]
<1> DEFINE k == [l EXCEPT ![n].state = v]
<1>1. DOMAIN l = 1..Len(l) /\ DOMAIN k = DOMAIN l
  BY LenProperties
<1>2. \A m \in 1..Len(l) : l[m] \in Links
  BY ElementOfSeq
<1>3. \A m \in DOMAIN l : k[m].state = IF m = n THEN v ELSE l[m].state
  BY <1>1, <1>2 DEF Links
<1>4. PhaseOf(k) = [m \in DOMAIN l |-> IF m = n THEN v ELSE l[m].state]
  BY <1>1, <1>3 DEF PhaseOf
<1>5. [PhaseOf(l) EXCEPT ![n] = v] = [m \in DOMAIN l |-> IF m = n THEN v ELSE l[m].state]
  BY <1>1 DEF PhaseOf
<1> QED
  BY <1>4, <1>5

\* A new link is a call that waits.
LEMMA PhaseAppend ==
  ASSUME NEW l \in Seq(Links), NEW e \in Links
  PROVE  PhaseOf(Append(l, e)) = Append(PhaseOf(l), e.state)
<1> DEFINE k == Append(l, e)
<1>1. /\ k \in Seq(Links) /\ Len(k) = Len(l) + 1 /\ k[Len(l) + 1] = e
      /\ \A n \in 1..Len(l) : k[n] = l[n]
  BY AppendProperties
<1>2. e.state \in States /\ Len(l) \in Nat
  BY LenProperties DEF Links
<1> HIDE DEF k
<1>3. /\ PhaseOf(l) \in Seq(States) /\ Len(PhaseOf(l)) = Len(l)
      /\ \A n \in 1..Len(l) : PhaseOf(l)[n] = l[n].state
  BY PhaseProperties
<1>4. /\ PhaseOf(k) \in Seq(States) /\ Len(PhaseOf(k)) = Len(l) + 1
      /\ \A n \in 1..(Len(l) + 1) : PhaseOf(k)[n] = k[n].state
  BY <1>1, PhaseProperties
<1> DEFINE q == Append(PhaseOf(l), e.state)
<1>5. /\ q \in Seq(States) /\ Len(q) = Len(l) + 1 /\ q[Len(l) + 1] = e.state
      /\ \A n \in 1..Len(l) : q[n] = PhaseOf(l)[n]
  BY <1>2, <1>3, AppendProperties
<1> HIDE DEF q
<1>6. \A n \in 1..(Len(l) + 1) : PhaseOf(k)[n] = q[n]
  BY <1>1, <1>2, <1>3, <1>4, <1>5
<1>7. PhaseOf(k) = q
  BY <1>2, <1>4, <1>5, <1>6, SeqEqual
<1> QED
  BY <1>7 DEF k, q

\* Initial states map to initial states.
LEMMA SerialInit == DispatchInit => Serial!Init
<1> SUFFICES ASSUME DispatchInit PROVE phaseBar = <<>>
  BY DEF Serial!Init, phaseBar, PhaseOf
<1>1. links = <<>>
  BY DEF DispatchInit
<1> QED
  BY <1>1 DEF phaseBar, PhaseOf

\* Every step maps to a step or a stutter.
LEMMA SerialNext ==
    DispatchInv /\ [DispatchNext]_dispatchVars => [Serial!Next]_phaseBar
<1> SUFFICES ASSUME DispatchInv, [DispatchNext]_dispatchVars
             PROVE  [Serial!Next]_phaseBar
  OBVIOUS
<1>0. /\ links \in Seq(Links) /\ Len(links) \in Nat /\ DOMAIN links = 1..Len(links)
      /\ phaseBar = PhaseOf(links) /\ DOMAIN phaseBar = 1..Len(links)
      /\ \A n \in 1..Len(links) : phaseBar[n] = links[n].state
  BY PhaseProperties, LenProperties DEF DispatchInv, ChainType, phaseBar
<1>1. CASE Link
  <2> DEFINE new == [prev |-> tail, state |-> "waiting"]
  <2>1. links' = Append(links, new) /\ new \in Links
    BY <1>1 DEF Link, Links, States, DispatchInv, ChainType
  <2>2. new.state = "waiting"
    OBVIOUS
  <2> HIDE DEF new
  <2>3. phaseBar' = Append(phaseBar, "waiting")
    BY <1>0, <2>1, <2>2, PhaseAppend DEF phaseBar
  <2> QED
    BY <2>3 DEF Serial!Next, Serial!Arrive, phaseBar, PhaseOf
<1>2. ASSUME NEW n \in DOMAIN links, Admit(n) PROVE Serial!Next
  <2>1. /\ links[n].state = "waiting" /\ Resolved(links[n].prev)
        /\ links' = [links EXCEPT ![n].state = "running"]
    BY <1>2 DEF Admit
  <2>2. \A m \in 1..(n - 1) : phaseBar[m] = "released"
    <3>1. CASE n = 1
      BY <3>1
    <3>2. CASE n # 1
      <4>1. n - 1 \in 1..Len(links) /\ links[n].prev = n - 1
        BY <1>0, <3>2 DEF DispatchInv, Chain
      <4>2. links[n - 1].state = "released"
        BY <1>0, <2>1, <3>2, <4>1 DEF Resolved
      <4>3. \A m \in 1..(n - 2) : links[m].state = "released"
        BY <1>0, <4>1, <4>2 DEF DispatchInv, Ordered
      <4> QED
        BY <1>0, <4>1, <4>2, <4>3
    <3> QED
      BY <3>1, <3>2
  <2>3. phaseBar' = [phaseBar EXCEPT ![n] = "running"]
    BY <1>0, <2>1, PhaseExcept DEF phaseBar, States
  <2>4. n \in DOMAIN phaseBar /\ phaseBar[n] = "waiting"
    BY <1>0, <2>1
  <2> QED
    BY <2>2, <2>3, <2>4 DEF Serial!Next, Serial!Enter, phaseBar, PhaseOf
<1>3. ASSUME NEW n \in DOMAIN links, Release(n) PROVE Serial!Next
  <2>1. /\ links[n].state = "running"
        /\ links' = [links EXCEPT ![n].state = "released"]
    BY <1>3 DEF Release
  <2>2. phaseBar' = [phaseBar EXCEPT ![n] = "released"]
    BY <1>0, <2>1, PhaseExcept DEF phaseBar, States
  <2>3. n \in DOMAIN phaseBar /\ phaseBar[n] = "running"
    BY <1>0, <2>1
  <2> QED
    BY <2>2, <2>3 DEF Serial!Next, Serial!Leave, phaseBar, PhaseOf
<1>4. CASE UNCHANGED dispatchVars
  BY <1>4 DEF dispatchVars, phaseBar, PhaseOf
<1> QED
  BY <1>1, <1>2, <1>3, <1>4 DEF DispatchNext

\* One dispatch at a time, in the order of the calls: the two lines of run() before
\* its try are a FIFO lock (wasm_dispatch.mjs:1-3).
THEOREM Fifo == DispatchSpec => ImplementsSerial
<1>1. DispatchSpec => []DispatchInv
  BY DispatchInvInit, DispatchInvNext, PTL DEF DispatchSpec
<1>2. Serial!Spec <=> Serial!Init /\ [][Serial!Next]_phaseBar
  BY DEF Serial!Spec, phaseBar, PhaseOf
<1> QED
  BY <1>1, <1>2, SerialInit, SerialNext, PTL DEF DispatchSpec, ImplementsSerial
=============================================================================
