----------------------------- MODULE Invocation -----------------------------
(***************************************************************************)
(* What surrounds a run of a binary under test in src/runner_suite.rs and  *)
(* src/component_suite.rs: the checks before the spawn, the directory and  *)
(* the environment the binary gets, and the comparison of its output with  *)
(* the expected JSON.  The pipes in between are in ProcessHarness.         *)
(*                                                                         *)
(* Other processes may remove files at any time.                           *)
(***************************************************************************)
EXTENDS Integers, Sequences, FiniteSetsExt

CONSTANTS
  Settings,   \* what a call and its surroundings can be: set of records
  Values,     \* JSON values that are expected
  Outputs     \* JSON values a binary can print

None == "none"
NoJson == [kind |-> "no_JSON"]

(* JSON values: scalars, arrays and objects.                               *)
Scalar(v) == [kind |-> "scalar", value |-> v]
Array(s) == [kind |-> "array", items |-> s]
Object(f) == [kind |-> "object", fields |-> f]

Dirs == {"cwd", "work", "PATH"}
Names == {"program", "pack"}
Files == [dir : Dirs, name : Names]
Path == {"absolute", "relative"}      \* an absolute one is of a file in cwd
Disable == {"unset", "0", "1"}        \* GREENTIC_DISABLE_NETWORK

IsSetting(s) ==
  /\ s.tool \in {"runner", "component"} /\ s.program \in Path \cup {"name"} /\ s.pack \in Path
  /\ s.working_dir \in {"work", None, "missing"}
  /\ s.inherited \in Disable /\ s.given \in Disable
  /\ s.online \in {"unset", "0", "1", "TRUE"}
  /\ s.input \in {"json", "garbage"} /\ s.files \subseteq Files

(* The values inside a value.                                              *)
PartsOf(v) ==
  IF v.kind = "object" THEN {v.fields[key] : key \in DOMAIN v.fields}
  ELSE IF v.kind = "array" THEN {v.items[i] : i \in DOMAIN v.items}
  ELSE {}

(* How deeply a value is nested.                                           *)
Depth[v \in Values] == 1 + Max({0} \cup {Depth[part] : part \in PartsOf(v)})

(* What the parameters can be; Toolkit assumes it.  A value ends: what is  *)
(* inside of it is less deeply nested.                                     *)
SettingsAssumption ==
  /\ \A s \in Settings : IsSetting(s)
  /\ Outputs \subseteq Values
  /\ \A v \in Values :
       /\ v.kind \in {"scalar", "array", "object"} /\ PartsOf(v) \subseteq Values
       /\ Depth[v] \in Nat /\ \A part \in PartsOf(v) : Depth[part] < Depth[v]

VARIABLES
  call,      \* the setting of this call
  files,     \* files that exist
  pc,        \* "program", "argument", "spawn", "judge" or "end"
  child,     \* {what the binary runs with}, empty before the spawn
  exit,      \* {how it ended and what JSON it printed}, empty before that
  expected,  \* the expectation
  verdict

vars == <<call, files, pc, child, exit, expected, verdict>>

(* Success, that the output is JSON, and what is to be in it, each of them *)
(* or not; without an expectation nothing is asked.                        *)
Expectations == [success : BOOLEAN, json : BOOLEAN, egress : Values \cup {NoJson}]

Anything == [success |-> FALSE, json |-> FALSE, egress |-> NoJson]

Init ==
  /\ call \in Settings /\ files = call.files
  /\ pc = "program" /\ child = {} /\ exit = {}
  /\ expected = Anything /\ verdict = None

Remove(f) ==
  /\ pc # "end" /\ files' = files \ {f} /\ files' # files
  /\ UNCHANGED <<call, pc, child, exit, expected, verdict>>

Fail ==
  /\ pc' = "end" /\ verdict' = "error"
  /\ UNCHANGED <<call, files, child, exit, expected>>

(* Where a process that runs in dir finds a file of the call.              *)
In(dir, name) ==
  [dir |-> IF call[name] = "absolute" THEN "cwd" ELSE dir, name |-> name]

FaultyCheck(name) == TRUE      \* left to the spawn

(* Path::exists, in the directory of the harness.                          *)
Check(name) == In("cwd", name) \in files

CheckProgram ==
  /\ pc = "program"
  /\ IF Check("program")
     THEN pc' = "argument" /\ UNCHANGED <<call, files, child, exit, expected, verdict>>
     ELSE Fail

(* A runner gets a pack, a component its input.                            *)
CheckArgument ==
  /\ pc = "argument"
  /\ IF IF call.tool = "runner" THEN Check("pack") ELSE call.input = "json"
     THEN pc' = "spawn" /\ UNCHANGED <<call, files, child, exit, expected, verdict>>
     ELSE Fail

online_enabled == call.online \in {"1", "TRUE"}

(* What the binary sees of GREENTIC_DISABLE_NETWORK: the last setting      *)
(* counts.  A component is not told anything.                              *)
Network ==
  IF call.given # "unset" THEN call.given
  ELSE IF call.tool = "runner" /\ ~online_enabled THEN "1"
  ELSE call.inherited

RunsIn == IF call.working_dir = None THEN "cwd" ELSE call.working_dir

(* The working directory is entered before the program is looked for, and  *)
(* a mere name is looked for in PATH.                                      *)
Executed ==
  IF call.program = "name" THEN [dir |-> "PATH", name |-> "program"] ELSE In(RunsIn, "program")

Started == [program |-> Executed, pack |-> In(RunsIn, "pack"), network |-> Network]

Spawn ==
  /\ pc = "spawn"
  /\ IF RunsIn # "missing" /\ Executed \in files
     THEN /\ child' = {Started}
          /\ pc' = "judge" /\ UNCHANGED <<call, files, exit, expected, verdict>>
     ELSE Fail

json_contains[pair \in Values \X Values] ==
  LET actual == pair[1]
      wanted == pair[2]
  IN  IF actual.kind = "object" /\ wanted.kind = "object"
      THEN \A key \in DOMAIN wanted.fields :
             /\ key \in DOMAIN actual.fields
             /\ json_contains[<<actual.fields[key], wanted.fields[key]>>]
      ELSE IF actual.kind = "array" /\ wanted.kind = "array"
      THEN \A i \in DOMAIN wanted.items : \E j \in DOMAIN actual.items :
             json_contains[<<actual.items[j], wanted.items[i]>>]
      ELSE actual = wanted

Accepts(e, status, output) ==
  /\ e.success => status = 0
  /\ e.json \/ e.egress # NoJson => output # NoJson
  /\ e.egress # NoJson => json_contains[<<output, e.egress>>]

(* A component always expects success, and nothing in particular.          *)
Judge ==
  /\ pc = "judge" /\ pc' = "end"
  /\ \E e \in Expectations, status \in {0, 1}, output \in Outputs \cup {NoJson} :
       /\ call.tool = "component" => e.success /\ e.egress = NoJson
       /\ expected' = e /\ exit' = {[status |-> status, output |-> output]}
       /\ verdict' = IF Accepts(e, status, output) THEN "ok" ELSE "error"
  /\ UNCHANGED <<call, files, child>>

Next == CheckProgram \/ CheckArgument \/ Spawn \/ Judge \/ \E f \in Files : Remove(f)

Spec == Init /\ [][Next]_vars

(***************************************************************************)
(* Properties                                                              *)
(***************************************************************************)

(* The variables hold what they can; a verdict on an exit comes after one, *)
(* and a binary that has run was found in a directory there is.            *)
TypeOK ==
  /\ IsSetting(call) /\ files \subseteq call.files
  /\ pc \in {"program", "argument", "spawn", "judge", "end"}
  /\ \A c \in child : c.program \in call.files /\ c.pack.dir \in Dirs /\ c.network \in Disable
  /\ exit # {} => child # {}
  /\ expected \in Expectations
  /\ verdict \in {None, "ok", "error"} /\ (verdict = None <=> pc # "end")
  /\ verdict = "ok" => exit # {}

SaysTheSame(name) ==
  call[name] = "absolute" \/ (call[name] = "relative" /\ call.working_dir = None)

(* The program that runs is the one that was checked, and a runner starts  *)
(* on a pack that was there when it was called, if their paths say the     *)
(* same to the harness and to the child.  (A relative path with a working  *)
(* directory does not, nor does a mere name: the harness checks one file   *)
(* and the child is or opens another.)                                     *)
RunsWhatWasChecked ==
  \A c \in child :
    /\ SaysTheSame("program") => c.program = In("cwd", "program")
    /\ SaysTheSame("pack") /\ call.tool = "runner" => c.pack \in call.files

(* README.md:198: "The suites never enable network access implicitly".  A  *)
(* runner is told otherwise only by the caller or by                       *)
(* GREENTIC_ENABLE_ONLINE, and the caller has the last word.               *)
NetworkIsOptedIn ==
  \A c \in child : call.tool = "runner" =>
    /\ c.network = "1" \/ online_enabled \/ call.given = "0"
    /\ call.given # "unset" => c.network = call.given

Leaves[v \in Values] ==
  IF v.kind = "object"
  THEN UNION {{<<key>> \o l : l \in Leaves[v.fields[key]]} : key \in DOMAIN v.fields}
  ELSE IF v.kind = "array"
  THEN UNION {{<<"item">> \o l : l \in Leaves[v.items[i]]} : i \in DOMAIN v.items}
  ELSE {<<v.value>>}

(* Whatever is expected of the output, scalar by scalar, is in it at the   *)
(* place where it is expected, also when the run was allowed to fail;      *)
(* items may be elsewhere in their array.                                  *)
ExpectedScalarsAreThere ==
  verdict = "ok" /\ expected.egress # NoJson =>
    \A x \in exit : Leaves[expected.egress] \subseteq Leaves[x.output]

(* An output that meets an expectation meets every weaker one, and its own *)
(* value as an expectation, also when the run was allowed to fail: adding  *)
(* to an expectation only makes it stricter.                               *)
WeakerIsAccepted ==
  \A x \in exit :
    /\ x.output # NoJson /\ expected.egress = x.output =>
         (verdict = "ok") = (expected.success => x.status = 0)
    /\ verdict = "ok" /\ expected.egress # NoJson =>
         \A e \in Values : json_contains[<<expected.egress, e>>] =>
           Accepts([expected EXCEPT !.egress = e], x.status, x.output)

(* The checks that were passed stay true of what was there at the call.    *)
Prepared ==
  /\ child \subseteq {Started} /\ (pc = "judge" => child # {})
  /\ (pc = "spawn" \/ child # {}) /\ call.tool = "runner" => In("cwd", "pack") \in call.files

(* The verdict is on the output there was.                                 *)
Judged ==
  /\ exit # {} => pc = "end"
  /\ \A x \in exit :
       /\ x.output \in Outputs \cup {NoJson}
       /\ verdict = "ok" <=> Accepts(expected, x.status, x.output)

(* What every step preserves.                                              *)
CallInv == TypeOK /\ Prepared /\ Judged
=============================================================================
