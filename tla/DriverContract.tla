--------------------------- MODULE DriverContract ---------------------------
(***************************************************************************)
(* What a caller of ci/tools/run_rp_modules.py may rely on: the driver     *)
(* ends, and with 0 only when the suite lists some module of the plan with *)
(* an id and every such module has passed.  It says nothing of modules     *)
(* that are listed without one.  RpDriver implements it, and PlanRun is    *)
(* built on it.                                                            *)
(***************************************************************************)
CONSTANT Modules    \* modules of the plan

VARIABLES
  named,   \* modules that the suite lists with an id
  passed,  \* modules that ended in the suite with an acceptable result
  exit     \* "running", or how the driver ended

vars == <<named, passed, exit>>

Init == named \in SUBSET Modules /\ passed \in SUBSET Modules /\ exit = "running"

(* A result stays: the suite never takes one back.                         *)
Pass(m) == m \notin passed /\ passed' = passed \cup {m} /\ UNCHANGED <<named, exit>>

End ==
  /\ exit = "running"
  /\ exit' \in {"success", "failure", "crash"}
  /\ exit' = "success" => named # {} /\ named \subseteq passed
  /\ UNCHANGED <<named, passed>>

Next == End \/ \E m \in Modules : Pass(m)

Spec == Init /\ [][Next]_vars /\ <>(exit # "running")
=============================================================================
