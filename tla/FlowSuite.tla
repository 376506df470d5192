----------------------------- MODULE FlowSuite -----------------------------
(***************************************************************************)
(* src/flow_suite.rs: validate_flow_folder walks a folder and validates    *)
(* the flow documents it finds, one after the other; the first fault ends  *)
(* it.  An optional value is a set with at most one element.               *)
(***************************************************************************)
EXTENDS Integers, Sequences, FiniteSets, Functions

CONSTANTS
  Folders,    \* what there may be below the path: set of functions path -> entry
  Options     \* set of FlowValidationOptions

Handoff == {"worker.handoff", "worker.invoke"}
Mcp == {"mcp.call"}              \* kinds that start with "mcp."
Event == {"event.in"}            \* kinds that start with "event."
Kinds == {"blank", "end"} \cup Handoff \cup Mcp \cup Event
MetadataFields == {"tool", "action", "worker_id"}     \* given and not blank

IsSequence(s) == s \in Seq(Range(s))

(* FlowNode: metadata is absent, an object or another JSON value.          *)
IsNode(n) ==
  /\ DOMAIN n = {"id", "kind", "metadata", "fields", "route", "to"}
  /\ n.kind \in Kinds
  /\ n.metadata \in {"none", "object", "other"} /\ n.fields \subseteq MetadataFields
  /\ \A to \in n.to : n.to = {to} /\ IsSequence(to)
  /\ n.route \in {"none", "follow_graph", "to_node", "to_nodes", "reply_to_origin", "end_flow"}

(* FlowDocument                                                            *)
IsDocument(d) ==
  /\ DOMAIN d = {"id", "version", "type", "schema", "nodes"}
  /\ d.version \in {"none", "v1", "unknown"} /\ d.schema \in BOOLEAN
  /\ d.type \in {"none", "messaging", "events", "worker", "digital_worker"}
  /\ IsSequence(d.nodes) /\ \A i \in DOMAIN d.nodes : IsNode(d.nodes[i])

(* An entry the walk can meet.  A hidden one lies in a folder that cannot  *)
(* be read: the walk yields an error instead of it.                        *)
IsEntry(e) ==
  /\ DOMAIN e = {"kind", "ext", "text", "doc"}
  /\ e.kind \in {"file", "hidden_file", "folder"} /\ e.text \in {"json", "yaml", "garbage"}
  /\ IsDocument(e.doc)

(* What the parameters can be; Toolkit assumes it.                         *)
FoldersAssumption == \A f \in Folders : \A p \in DOMAIN f : IsEntry(f[p])
OptionsAssumption ==
  \A o \in Options : /\ DOMAIN o = {"allowed_extensions", "require_schema", "validators"}
                     /\ {o.require_schema, o.validators} \subseteq BOOLEAN

VARIABLES
  folder, options,
  pc,         \* step of validate_flow_folder
  visited,    \* entries the walk has come to
  any_files, flows,
  current,    \* the file that is validated
  at,         \* its node that is checked
  seen_ids,   \* ids of the nodes before it
  result      \* "running", "report", or the error

input == <<folder, options>>
walk == <<visited, any_files, flows>>
vars == <<input, pc, walk, current, at, seen_ids, result>>

Init ==
  /\ folder \in Folders /\ options \in Options
  /\ pc = "walk" /\ visited = {} /\ any_files = FALSE /\ flows = {}
  /\ current = "none" /\ at = 0 /\ seen_ids = {} /\ result = "running"

Flow == folder[current].doc

Return(how) == result' = how /\ pc' = "end"
Goto(label) == pc' = label /\ UNCHANGED result

(***************************************************************************)
(* The walk                                                                *)
(***************************************************************************)

Allowed(p) == folder[p].ext \in options.allowed_extensions

(* parse_flow_document: .json is read as JSON, others as YAML or JSON.     *)
Parses(p) ==
  \/ folder[p].text = "json"
  \/ folder[p].text = "yaml" /\ folder[p].ext # "json"

FaultySkip(p) ==      \* any file counts
  /\ folder[p].kind # "file" \/ ~Allowed(p)
  /\ any_files' = (folder[p].kind = "file")
  /\ UNCHANGED <<flows, pc, current, at, seen_ids, result>>

(* What is not a file with an allowed extension, and what the walk cannot  *)
(* read (.flatten() drops the error).                                      *)
Skip(p) ==
  /\ folder[p].kind # "file" \/ ~Allowed(p)
  /\ UNCHANGED <<any_files, flows, pc, current, at, seen_ids, result>>

Open(p) ==
  /\ folder[p].kind = "file" /\ Allowed(p)
  /\ any_files' = TRUE
  /\ \/ Parses(p) /\ current' = p /\ at' = 1 /\ seen_ids' = {} /\ Goto("header")
     \/ ~Parses(p) /\ Return("parse") /\ UNCHANGED <<current, at, seen_ids>>
     \/ Return("read") /\ UNCHANGED <<current, at, seen_ids>>
  /\ UNCHANGED flows

(* The entries of a folder come in any order.                              *)
Visit ==
  /\ pc = "walk"
  /\ \E p \in DOMAIN folder \ visited :
       visited' = visited \cup {p} /\ (Skip(p) \/ Open(p))
  /\ UNCHANGED input

WalkEnds ==
  /\ pc = "walk" /\ visited = DOMAIN folder
  /\ Return(IF DOMAIN folder = {} THEN "no_such_path"
            ELSE IF any_files THEN "report" ELSE "no_flows")
  /\ UNCHANGED <<input, walk, current, at, seen_ids>>

(***************************************************************************)
(* validate_flow                                                           *)
(***************************************************************************)

Header ==
  /\ pc = "header"
  /\ IF \/ Flow.version = "unknown"
        \/ Flow.id = "blank"
        \/ options.require_schema /\ ~Flow.schema
        \/ Flow.nodes = <<>>
     THEN Return("flow") ELSE Goto("node")
  /\ UNCHANGED <<input, walk, current, at, seen_ids>>

Ids(d) == {d.nodes[i].id : i \in DOMAIN d.nodes}

(* validate_routing: of the targets of to_node only the first one counts.  *)
Routes(d, n) ==
  /\ n.route = "to_node" => \E to \in n.to : to # <<>> /\ to[1] \in Ids(d)
  /\ n.route = "to_nodes" => \E to \in n.to : Range(to) \subseteq Ids(d)

(* What there is of metadata must be an object, with a tool and an action  *)
(* for a node that calls an MCP server.                                    *)
Metadata(n) ==
  /\ n.metadata # "other"
  /\ n.kind \in Mcp /\ n.metadata = "object" => {"tool", "action"} \subseteq n.fields

Node ==
  /\ pc = "node" /\ at <= Len(Flow.nodes)
  /\ LET n == Flow.nodes[at] IN
       IF n.id = "blank" \/ n.kind = "blank" \/ n.id \in seen_ids \/ ~Metadata(n) \/ ~Routes(Flow, n)
       THEN Return("flow") /\ UNCHANGED <<at, seen_ids>>
       ELSE seen_ids' = seen_ids \cup {n.id} /\ at' = at + 1 /\ Goto("node")
  /\ UNCHANGED <<input, walk, current>>

HasKind(d, kinds) == \E i \in DOMAIN d.nodes : d.nodes[i].kind \in kinds
NamesWorker(d) ==
  \E i \in DOMAIN d.nodes : d.nodes[i].metadata = "object" /\ "worker_id" \in d.nodes[i].fields

(* validate_flow_type                                                      *)
FitsType(d) ==
  /\ d.type = "messaging" => ~HasKind(d, Event)
  /\ d.type = "events" => ~HasKind(d, Kinds \ Event)
  /\ d.type \in {"worker", "digital_worker"} => HasKind(d, Handoff)
  /\ d.type = "digital_worker" => NamesWorker(d)

Type ==
  /\ pc = "node" /\ at > Len(Flow.nodes)
  /\ IF FitsType(Flow) THEN Goto("validators") ELSE Return("flow")
  /\ UNCHANGED <<input, walk, current, at, seen_ids>>

(* Validators of the caller may reject any document.                       *)
Validators ==
  /\ pc = "validators"
  /\ \/ flows' = flows \cup {current} /\ Goto("walk")
     \/ options.validators /\ Return("validator") /\ UNCHANGED flows
  /\ UNCHANGED <<input, visited, any_files, current, at, seen_ids>>

Next == Visit \/ WalkEnds \/ Header \/ Node \/ Type \/ Validators

Spec == Init /\ [][Next]_vars

(***************************************************************************)
(* Properties                                                              *)
(***************************************************************************)

(* The variables hold what the validation can.                             *)
TypeOK ==
  /\ pc \in {"walk", "header", "node", "validators", "end"}
  /\ visited \subseteq DOMAIN folder /\ flows \subseteq visited /\ any_files \in BOOLEAN
  /\ (pc \in {"header", "node", "validators"} =>
        current \in visited \ flows /\ at \in 1..Len(Flow.nodes) + 1 /\ seen_ids \subseteq Ids(Flow))
  /\ result \in {"running", "report", "no_such_path", "no_flows", "read", "parse", "flow",
                 "validator"}
  /\ (result = "running" <=> pc # "end")

Doc(p) == folder[p].doc
NodesOf(p) == Range(Doc(p).nodes)

(* Of a flow in the report, every id that a route names first, or names    *)
(* among several targets, is that of exactly one node: a router never has  *)
(* two nodes, or none, to go to.                                           *)
RoutesLeadToOneNode ==
  \A p \in flows : \A n \in NodesOf(p) : \A to \in n.to :
    LET targets == IF n.route = "to_node" THEN {to[1]}
                   ELSE IF n.route = "to_nodes" THEN Range(to)
                   ELSE {}
    IN \A t \in targets : Cardinality({i \in DOMAIN Doc(p).nodes : Doc(p).nodes[i].id = t}) = 1

(* A flow that is said to be for workers can hand over to one, and a       *)
(* digital worker is named; an event flow has nothing but events, and a    *)
(* messaging flow none.                                                    *)
FlowsDoWhatTheirTypeSays ==
  \A p \in flows :
    /\ Doc(p).type \in {"worker", "digital_worker"} => \E n \in NodesOf(p) : n.kind \in Handoff
    /\ Doc(p).type = "digital_worker" => \E n \in NodesOf(p) : "worker_id" \in n.fields
    /\ Doc(p).type = "events" => {n.kind : n \in NodesOf(p)} \subseteq Event
    /\ Doc(p).type = "messaging" => {n.kind : n \in NodesOf(p)} \cap Event = {}

ToValidate == {p \in DOMAIN folder : folder[p].kind = "file" /\ Allowed(p)}

(* A report covers every file of an allowed extension that the walk could  *)
(* see, and there is at least one.                                         *)
ReportCoversWhatIsVisible == result = "report" => flows = ToValidate /\ flows # {}

(* A folder is refused only for a fault of its own: for "no_flows" none    *)
(* could be seen, and a document that is refused breaks a rule.            *)
RefusalHasAFault ==
  /\ result = "no_flows" => ToValidate = {}
  /\ result = "parse" => \E p \in ToValidate \ flows : folder[p].text # "json"
  /\ result = "flow" =>
       \/ Flow.version = "unknown" \/ Flow.id = "blank" \/ Flow.nodes = <<>>
       \/ options.require_schema /\ ~Flow.schema
       \/ Cardinality(Ids(Flow)) < Len(Flow.nodes)
       \/ \E n \in NodesOf(current) :
            \/ "blank" \in {n.id, n.kind} \/ n.metadata = "other"
            \/ n.kind \in Mcp /\ ~({"tool", "action"} \subseteq n.fields)
            \/ n.route = "to_node" /\ n.to \subseteq {<<>>}
            \/ n.route = "to_nodes" /\ n.to = {}
            \/ \E to \in n.to : ~(Range(to) \subseteq Ids(Flow))
       \/ Flow.type = "messaging" /\ HasKind(Flow, Event)
       \/ Flow.type = "events" /\ HasKind(Flow, Kinds \ Event)
       \/ Flow.type \in {"worker", "digital_worker"}
            /\ ~(HasKind(Flow, Handoff) /\ (Flow.type = "worker" \/ NamesWorker(Flow)))

(* A node whose id is new and whose routes lead somewhere.                 *)
Fits(d, i) ==
  d.nodes[i].id \notin {d.nodes[j].id : j \in 1..i - 1} /\ Routes(d, d.nodes[i])

Sound(d) == FitsType(d) /\ \A i \in DOMAIN d.nodes : Fits(d, i)

(* The files come to so far have been validated, but for the one that      *)
(* is validated now.                                                       *)
Walked ==
  /\ any_files <=> ToValidate \cap visited # {}
  /\ pc = "walk" => flows = ToValidate \cap visited
  /\ pc \in {"header", "node", "validators"} =>
       current \in ToValidate /\ flows = (ToValidate \cap visited) \ {current}
  /\ pc = "header" => at = 1 /\ seen_ids = {}
  /\ pc = "node" =>
       /\ seen_ids = {Flow.nodes[i].id : i \in 1..at - 1}
       /\ \A i \in 1..at - 1 : Fits(Flow, i)
  /\ pc = "validators" => Sound(Flow)
  /\ \A p \in flows : Sound(Doc(p))

(* What every step preserves.                                              *)
FlowInv == folder \in Folders /\ TypeOK /\ Walked /\ ReportCoversWhatIsVisible /\ RefusalHasAFault
=============================================================================
