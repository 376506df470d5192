------------------------ MODULE ProcessHarnessProofs ------------------------
(***************************************************************************)
(* Theorems about ProcessHarness for every size of payload, output and     *)
(* pipe, and every order in which the child reads and writes.              *)
(***************************************************************************)
EXTENDS ProcessHarness, TLAPS

USE SizeAssumption DEF Streams, Endings, Ended

(* Each block that moves through a pipe keeps the counts within bounds.    *)
LEMMA FillCount ==
  ASSUME NEW n \in 0 .. Capacity, n < Capacity
  PROVE  n + 1 \in 0 .. Capacity
OBVIOUS

LEMMA DrainCount ==
  ASSUME NEW max \in Nat, NEW n \in 0 .. max, n > 0
  PROVE  n - 1 \in 0 .. max
OBVIOUS

(***************************************************************************)
(* The harness                                                             *)
(***************************************************************************)

LEMMA WriteKeeps ==
  ASSUME HarnessInv, Write
  PROVE  HarnessInv'
<1>1. CASE listening /\ stdin < Capacity /\ stdin' = stdin + 1 /\ payload' = payload - 1
  <2>1. stdin' \in 0 .. Capacity
    BY <1>1, FillCount DEF HarnessInv, TypeOK
  <2>2. payload' \in 0 .. MaxPayload
    BY <1>1, DrainCount DEF HarnessInv, TypeOK, Write
  <2> QED
    BY <1>1, <2>1, <2>2 DEF HarnessInv, TypeOK, AcceptedMeansSuccess, Write, Return, program
<1>2. CASE ~listening /\ Return("error") /\ UNCHANGED stdin
  BY <1>2 DEF HarnessInv, TypeOK, AcceptedMeansSuccess, Write, Return, program
<1> QED
  BY <1>1, <1>2 DEF Write

LEMMA WrittenKeeps ==
  ASSUME HarnessInv, Written
  PROVE  HarnessInv'
BY DEF HarnessInv, TypeOK, AcceptedMeansSuccess, Written, program

LEMMA DrainKeeps ==
  ASSUME HarnessInv, NEW s \in Streams, Drain(s)
  PROVE  HarnessInv'
<1>1. pipe' \in [Streams -> 0 .. Capacity]
  BY DrainCount DEF HarnessInv, TypeOK, Drain
<1> QED
  BY <1>1 DEF HarnessInv, TypeOK, AcceptedMeansSuccess, Drain, harness, program

(* The verdict is given on a child that has ended, with nothing of its     *)
(* output left in the pipes.                                               *)
LEMMA CollectKeeps ==
  ASSUME HarnessInv, Collect
  PROVE  HarnessInv'
BY DEF HarnessInv, TypeOK, AcceptedMeansSuccess, Collect, Return, Verdict, Succeeded, program

(***************************************************************************)
(* The child                                                               *)
(***************************************************************************)

LEMMA CallKeeps ==
  ASSUME HarnessInv, Call
  PROVE  HarnessInv'
BY DEF HarnessInv, TypeOK, AcceptedMeansSuccess, Call, harness

LEMMA ReadKeeps ==
  ASSUME HarnessInv, Read
  PROVE  HarnessInv'
<1>1. stdin' \in 0 .. Capacity
  BY DrainCount DEF HarnessInv, TypeOK, Read
<1> QED
  BY <1>1 DEF HarnessInv, TypeOK, AcceptedMeansSuccess, Read, harness

LEMMA OutputKeeps ==
  ASSUME HarnessInv, NEW s \in Streams, Output(s)
  PROVE  HarnessInv'
<1>1. CASE pc # "done"
  <2>1. pipe' \in [Streams -> 0 .. Capacity]
    <3>1. pipe \in [Streams -> 0 .. Capacity] /\ pipe[s] < Capacity
      BY <1>1 DEF HarnessInv, TypeOK, Output
    <3>2. pipe[s] + 1 \in 0 .. Capacity
      BY <3>1, FillCount
    <3> QED
      BY <1>1, <3>1, <3>2 DEF Output
  <2>2. todo' \in [Streams -> 0 .. MaxOutput]
    <3>1. todo \in [Streams -> 0 .. MaxOutput] /\ todo[s] > 0
      BY DEF HarnessInv, TypeOK, Output
    <3>2. todo[s] - 1 \in 0 .. MaxOutput
      BY <3>1, DrainCount
    <3> QED
      BY <1>1, <3>1, <3>2 DEF Output
  <2> QED
    BY <1>1, <2>1, <2>2 DEF HarnessInv, TypeOK, AcceptedMeansSuccess, Output, harness
<1>2. CASE pc = "done"
  BY <1>2 DEF HarnessInv, TypeOK, AcceptedMeansSuccess, Output, harness
<1> QED
  BY <1>1, <1>2

LEMMA ChildEndsKeeps ==
  ASSUME HarnessInv, CloseStdin \/ Exit \/ Signal
  PROVE  HarnessInv'
BY DEF HarnessInv, TypeOK, AcceptedMeansSuccess, CloseStdin, Exit, Signal, End, harness

LEMMA HarnessInvStep ==
  ASSUME HarnessInv, [Next]_vars
  PROVE  HarnessInv'
<1>1. CASE UNCHANGED vars
  BY <1>1 DEF vars, harness, program, HarnessInv, TypeOK, AcceptedMeansSuccess
<1> QED
  BY <1>1, WriteKeeps, WrittenKeeps, DrainKeeps, CollectKeeps, CallKeeps, ReadKeeps, OutputKeeps,
     ChildEndsKeeps DEF Next, Harness, Child

(* HarnessInv holds in every reachable state.                              *)
THEOREM HarnessInvariant == Spec => []HarnessInv
<1>1. Init => HarnessInv
  BY DEF Init, HarnessInv, TypeOK, AcceptedMeansSuccess
<1> QED
  BY <1>1, HarnessInvStep, PTL DEF Spec

(* The harness, the pipes and the child are well typed: no pipe holds more *)
(* than its capacity and no child writes more than it had to.              *)
THEOREM TypeCorrect == Spec => []TypeOK
BY HarnessInvariant, PTL DEF HarnessInv

(* The harness accepts only a child that had its whole payload, has ended  *)
(* as expected and whose output has been read to its end.                  *)
THEOREM AcceptanceIsEarned == Spec => []AcceptedMeansSuccess
BY HarnessInvariant, PTL DEF HarnessInv
=============================================================================
