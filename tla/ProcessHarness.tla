--------------------------- MODULE ProcessHarness ---------------------------
(***************************************************************************)
(* How src/runner_suite.rs and src/component_suite.rs run the binary under *)
(* test: spawn it with three pipes, write the whole payload to its stdin,  *)
(* then read its stdout and stderr to their ends, wait for it, and judge   *)
(* what came out.  There is no timeout.                                    *)
(*                                                                         *)
(* The child is any program that reads its stdin and writes its output in  *)
(* an order of its own, one block at a time.  A pipe holds Capacity blocks.*)
(***************************************************************************)
EXTENDS Integers

CONSTANTS
  Capacity,       \* blocks a pipe holds
  MaxPayload,     \* bound: blocks of the stdin payload
  MaxOutput       \* bound: blocks the child writes to one stream

ASSUME SizeAssumption ==
  Capacity \in Nat \ {0} /\ MaxPayload \in Nat /\ MaxOutput \in Nat

Streams == {"stdout", "stderr"}
Endings == {"exit 0", "exit 1", "signalled"}

VARIABLES
  pc,         \* the harness: "write", "wait" or "done"
  payload,    \* blocks write_all has still to write
  expect,     \* expect_success, and whether stdout must be (certain) JSON
  verdict,    \* what the harness returns
  stdin,      \* blocks in the stdin pipe
  listening,  \* the child holds the read end of its stdin
  child,      \* the child: "thinking", in a system call, or ended
  todo,       \* Streams -> blocks it would still write
  pipe,       \* Streams -> blocks in that pipe
  wellformed  \* its complete stdout would satisfy the JSON expectation

harness == <<pc, payload, expect, verdict>>
program == <<listening, child, todo, wellformed>>
vars == <<harness, stdin, program, pipe>>

(* A runner without a payload has no stdin; a component always has one.    *)
Init ==
  /\ pc \in {"write", "wait"}
  /\ payload \in IF pc = "write" THEN 0 .. MaxPayload ELSE {0}
  /\ expect \in [success : BOOLEAN, json : BOOLEAN]
  /\ verdict = "none"
  /\ stdin = 0 /\ pipe = [s \in Streams |-> 0]
  /\ listening = TRUE /\ child = "thinking"
  /\ todo \in [Streams -> 0 .. MaxOutput]
  /\ wellformed \in BOOLEAN

Ended == child \in Endings

(***************************************************************************)
(* The harness                                                             *)
(***************************************************************************)

Return(v) == pc' = "done" /\ verdict' = v /\ UNCHANGED <<payload, expect>>

FaultyWrite ==      \* a broken pipe is ignored
  /\ pc = "write" /\ payload > 0
  /\ \/ /\ listening /\ stdin < Capacity
        /\ stdin' = stdin + 1 /\ payload' = payload - 1
        /\ UNCHANGED <<pc, expect, verdict>>
     \/ ~listening /\ pc' = "wait" /\ UNCHANGED <<payload, expect, verdict, stdin>>
  /\ UNCHANGED <<program, pipe>>

(* stdin.write_all: blocks while the pipe is full, and fails (EPIPE) once  *)
(* the child has closed its stdin.  The child is neither killed nor waited *)
(* for then.                                                               *)
Write ==
  /\ pc = "write" /\ payload > 0
  /\ \/ /\ listening /\ stdin < Capacity
        /\ stdin' = stdin + 1 /\ payload' = payload - 1
        /\ UNCHANGED <<pc, expect, verdict>>
     \/ ~listening /\ Return("error") /\ UNCHANGED stdin
  /\ UNCHANGED <<program, pipe>>

(* wait_with_output closes the child's stdin first.                        *)
Written ==
  /\ pc = "write" /\ payload = 0
  /\ pc' = "wait"
  /\ UNCHANGED <<payload, expect, verdict, stdin, program, pipe>>

FaultyDrain(s) ==      \* stderr is read after the end of stdout
  /\ pc = "wait" /\ pipe[s] > 0
  /\ s = "stderr" => Ended /\ pipe["stdout"] = 0
  /\ pipe' = [pipe EXCEPT ![s] = @ - 1]
  /\ UNCHANGED <<harness, stdin, program>>

Drain(s) ==
  /\ pc = "wait" /\ pipe[s] > 0
  /\ pipe' = [pipe EXCEPT ![s] = @ - 1]
  /\ UNCHANGED <<harness, stdin, program>>

FaultySucceeded == child # "exit 1"      \* code().unwrap_or_default() = 0

Succeeded == child = "exit 0"

Verdict ==
  IF \/ expect.success /\ ~Succeeded
     \/ expect.json /\ ~(wellformed /\ todo["stdout"] = 0)
  THEN "error" ELSE "ok"

Collect ==
  /\ pc = "wait" /\ Ended /\ \A s \in Streams : pipe[s] = 0
  /\ Return(Verdict)
  /\ UNCHANGED <<stdin, program, pipe>>

Harness == Write \/ Written \/ (\E s \in Streams : Drain(s)) \/ Collect

(***************************************************************************)
(* The child                                                               *)
(***************************************************************************)

(* It commits to a system call, which may block.                           *)
Call ==
  /\ child = "thinking"
  /\ \/ listening /\ child' = "read"
     \/ \E s \in Streams : todo[s] > 0 /\ child' = s
  /\ UNCHANGED <<harness, stdin, listening, todo, wellformed, pipe>>

(* At the end of its stdin it stops reading.                               *)
Read ==
  /\ child = "read" /\ child' = "thinking"
  /\ \/ stdin > 0 /\ stdin' = stdin - 1 /\ UNCHANGED listening
     \/ stdin = 0 /\ pc # "write" /\ listening' = FALSE /\ UNCHANGED stdin
  /\ UNCHANGED <<harness, todo, wellformed, pipe>>

(* Once the harness has returned nobody reads: SIGPIPE.                    *)
Output(s) ==
  /\ child = s
  /\ \/ /\ pc # "done" /\ pipe[s] < Capacity
        /\ pipe' = [pipe EXCEPT ![s] = @ + 1]
        /\ todo' = [todo EXCEPT ![s] = @ - 1]
        /\ child' = "thinking" /\ UNCHANGED listening
     \/ /\ pc = "done"
        /\ child' = "signalled" /\ listening' = FALSE
        /\ UNCHANGED <<todo, pipe>>
  /\ UNCHANGED <<harness, stdin, wellformed>>

CloseStdin ==
  /\ child = "thinking" /\ listening
  /\ listening' = FALSE
  /\ UNCHANGED <<harness, stdin, child, todo, wellformed, pipe>>

End(how) ==
  /\ child' = how /\ listening' = FALSE
  /\ UNCHANGED <<harness, stdin, todo, wellformed, pipe>>

(* It exits when it likes, or a signal ends it.                            *)
Exit == child = "thinking" /\ \E how \in {"exit 0", "exit 1"} : End(how)

Signal == ~Ended /\ End("signalled")

Child == Call \/ Read \/ (\E s \in Streams : Output(s)) \/ CloseStdin \/ Exit

Next == Harness \/ Child \/ Signal

Spec == Init /\ [][Next]_vars

(* The harness runs whenever it is not blocked, and so does the child: a   *)
(* program that neither reads, writes nor ends is not what is tested here. *)
FairSpec == Spec /\ WF_vars(Harness) /\ WF_vars(Child)

(***************************************************************************)
(* Properties                                                              *)
(***************************************************************************)

(* The variables hold what they can, and nothing is read of the output     *)
(* before the payload has been written.                                    *)
TypeOK ==
  /\ pc \in {"write", "wait", "done"}
  /\ payload \in 0 .. MaxPayload /\ (pc = "wait" => payload = 0)
  /\ expect \in [success : BOOLEAN, json : BOOLEAN]
  /\ verdict \in {"none", "ok", "error"} /\ (verdict = "none" <=> pc # "done")
  /\ stdin \in 0 .. Capacity /\ pipe \in [Streams -> 0 .. Capacity]
  /\ listening \in BOOLEAN /\ wellformed \in BOOLEAN
  /\ child \in {"thinking", "read"} \cup Streams \cup Endings
  /\ todo \in [Streams -> 0 .. MaxOutput]

(* The harness accepts only a child that was given its whole payload, has  *)
(* ended (and, when success is expected, not by a signal or with an error  *)
(* code) and whose output has been read to the last block.                 *)
AcceptedMeansSuccess ==
  verdict = "ok" =>
    /\ payload = 0 /\ Ended /\ \A s \in Streams : pipe[s] = 0
    /\ expect.success => child = "exit 0"
    /\ expect.json => todo["stdout"] = 0

(* The inductive invariant behind both: a child that is about to write has *)
(* something to write, and one that has ended stays as it is.              *)
HarnessInv ==
  /\ TypeOK
  /\ child \in Streams => todo[child] > 0
  /\ AcceptedMeansSuccess

(* The harness returns, whatever the order in which the child reads and    *)
(* writes, provided the payload fits into a pipe or what the child writes  *)
(* does.  (If neither does, each can wait for the other for ever.)         *)
HarnessReturns ==
  (payload <= Capacity \/ \A s \in Streams : todo[s] <= Capacity) => <>(pc = "done")

(* src/runner_suite.rs:93, RunnerExpectation::success: it "simply checks   *)
(* for process success".                                                   *)
SuccessIsAccepted ==
  child = "exit 0" /\ ~expect.json => verdict # "error"
=============================================================================
