---------------------------- MODULE MCToolkit ----------------------------
(***************************************************************************)
(* Inputs for each part of Toolkit: those that differ from a plain one in  *)
(* a few respects at a time.                                               *)
(***************************************************************************)
EXTENDS Toolkit

(* At most two of S, in a sequence.                                        *)
UpToTwo(S) == UNION {[1..k -> S] : k \in 0..2}

(***************************************************************************)
(* FlowSuite: one file with one of many documents, or up to two entries    *)
(* of a folder, some of them hidden.                                       *)
(***************************************************************************)

Node(id, kind, metadata, fields, route, to) ==
  [id |-> id, kind |-> kind, metadata |-> metadata, fields |-> fields, route |-> route, to |-> to]

Targets == {{}, {<<>>}, {<<"a">>}, {<<"b">>}, {<<"a", "x">>}, {<<"a", "b">>}}

Nodes ==
  {Node(id, "end", "none", {}, "none", {}) : id \in {"blank", "a", "b"}}
  \cup {Node("a", kind, "none", {}, "none", {}) : kind \in {"blank", "worker.handoff", "mcp.call", "event.in"}}
  \cup {Node("b", "end", "none", {}, route, to) : route \in {"to_node", "to_nodes"}, to \in Targets}
  \cup {Node("a", "end", "none", {}, "reply_to_origin", {})}
  \cup {Node("b", "mcp.call", "object", fields, "none", {}) : fields \in {{"tool"}, {"tool", "action"}}}
  \cup {Node("b", "end", "object", {"worker_id"}, "none", {}),
        Node("b", "end", "other", {}, "none", {}), Node("b", "event.in", "none", {}, "none", {})}

Document(nodes, type) == [id |-> "f", version |-> "none", type |-> type, schema |-> TRUE, nodes |-> nodes]

Documents ==
  {Document(nodes, type) : nodes \in UpToTwo(Nodes),
                           type \in {"none", "messaging", "events", "worker", "digital_worker"}}
  \cup {[id |-> id, version |-> version, type |-> "none", schema |-> schema,
         nodes |-> <<Node("a", "end", "none", {}, "none", {})>>] :
           id \in {"blank", "f"}, version \in {"none", "v1", "unknown"}, schema \in BOOLEAN}

Entry(kind, ext, text, doc) == [kind |-> kind, ext |-> ext, text |-> text, doc |-> doc]

GoodFlow == Document(<<Node("a", "end", "none", {}, "none", {})>>, "none")
BadFlow == Document(<<>>, "none")

MCFolders ==
  {[p \in {"p"} |-> Entry("file", "yaml", "yaml", d)] : d \in Documents}
  \cup UNION {[paths -> [kind : {"file", "hidden_file", "folder"}, ext : {"json", "flow", "txt"},
                         text : {"json", "yaml", "garbage"}, doc : {GoodFlow}]
                        \cup {Entry("file", "json", "json", BadFlow)}] :
                paths \in {{}, {"p"}, {"p", "q"}}}

MCOptions ==
  {[allowed_extensions |-> {"ygtc", "yaml", "yml", "json"}, require_schema |-> FALSE, validators |-> FALSE],
   [allowed_extensions |-> {"ygtc", "yaml", "yml", "json", "flow"}, require_schema |-> TRUE, validators |-> TRUE]}

(***************************************************************************)
(* PackSuite                                                               *)
(***************************************************************************)

DefaultPack == [manifest_override |-> "none", require_flows |-> TRUE, adapter |-> FALSE,
                require_runtime_match |-> TRUE, require_signature |-> TRUE,
                require_artifacts_exist |-> FALSE, require_supply_chain |-> FALSE]

MCPackOptions ==
  {DefaultPack,
   [DefaultPack EXCEPT !.require_signature = FALSE],
   [DefaultPack EXCEPT !.adapter = TRUE],
   [DefaultPack EXCEPT !.require_supply_chain = TRUE, !.require_artifacts_exist = TRUE],
   [DefaultPack EXCEPT !.manifest_override = "override", !.require_signature = FALSE,
                       !.adapter = TRUE, !.require_runtime_match = FALSE, !.require_flows = FALSE]}

PackFlow(id) == [id |-> id, schema_ok |-> TRUE]

Usual == [id |-> "given", name |-> "none", version |-> "given", known_schema |-> TRUE,
          blank |-> FALSE, sbom |-> "given", attestations |-> "given", signature |-> "complete",
          flows |-> <<PackFlow("a")>>, paths |-> {}]

MCManifests ==
  {[Usual EXCEPT !.id = id, !.name = name] : id, name \in {"none", "blank"}}
  \cup {[Usual EXCEPT !.version = "none"], [Usual EXCEPT !.known_schema = FALSE], [Usual EXCEPT !.blank = TRUE],
        [Usual EXCEPT !.sbom = "blank"], [Usual EXCEPT !.id = "none", !.name = "given"]}
  \cup {[Usual EXCEPT !.signature = s, !.sbom = b, !.attestations = a] :
          s \in {"none", "incomplete", "complete"}, b, a \in {"none", "given"}}
  \cup {[Usual EXCEPT !.flows = f] : f \in {<<>>, <<PackFlow("blank")>>, <<PackFlow("a"), PackFlow("b")>>,
          <<PackFlow("a"), PackFlow("a")>>, <<[id |-> "a", schema_ok |-> FALSE]>>}}
  \cup {[Usual EXCEPT !.paths = {"artifact"}]}

MCExports == {<<>>, <<"a">>, <<"a", "b">>, <<"b">>, <<"a", "a">>}

MCFileSets ==
  {{}, {"override", "artifact", "pack.json"}, {"component.yaml", "pack.json"},
   {"override", "env", "component.json"}}

(***************************************************************************)
(* PolicySuite: secrets, messages or a schedule, with 3-bit integers.      *)
(***************************************************************************)

MCKeys == {"acme/db", "other/db"}

DefaultPolicy == [prefixes |-> {}, seeded |-> <<>>, denied |-> <<>>, messages |-> <<>>, duplicate |-> {},
                  attempts |-> 1, base |-> 1]

Message == [id : {"id-1", "id-2"}, kind : {"email", "sms"}]

MCConfigs ==
  {[DefaultPolicy EXCEPT !.prefixes = p, !.seeded = s, !.denied = d] :
     p \in {{}, {{"acme/db"}}, {{"acme/db"}, MCKeys}}, s \in UpToTwo(MCKeys), d \in UpToTwo(MCKeys)}
  \cup {[DefaultPolicy EXCEPT !.messages = m, !.duplicate = d] :
          m \in UpToTwo(Message), d \in {{}} \cup {{x} : x \in Message}}
  \cup {[DefaultPolicy EXCEPT !.attempts = a, !.base = b] : a \in 0..4, b \in 0..7}

(***************************************************************************)
(* CliVerdicts: packs of up to two flows and two components.               *)
(***************************************************************************)

CliFlow(id, files) == [id |-> id, files |-> files]
CliComponent(key, files) == [key |-> key, files |-> files]

MCPacks ==
  [meta_ok : {TRUE}, signature_ok : BOOLEAN, sbom_ok : BOOLEAN, warned : BOOLEAN,
   flows : {<<CliFlow("a", {"a.yaml"})>>, <<CliFlow("a", {"b.yaml"})>>, <<CliFlow("a", {"blank"})>>,
            <<CliFlow("a", {"a.yaml"}), CliFlow("a", {"b.yaml"})>>,
            <<CliFlow("a", {"a.yaml"}), CliFlow("b", {"a.yaml"})>>},
   components : {<<>>, <<CliComponent("c@1", {"c.wasm"}), CliComponent("c@1", {"c.wasm"})>>,
                 <<CliComponent("c@1", {"d.wasm"})>>},
   entry_flows : SUBSET {"a", "b"},
   sbom : {{"a.yaml", "c.wasm"}, {"a.yaml", "b.yaml", "c.wasm"}}]
  \cup [meta_ok : {FALSE}, signature_ok : {TRUE}, sbom_ok : {TRUE}, warned : {FALSE},
        flows : {<<CliFlow("a", {"a.yaml"})>>}, components : {<<>>}, entry_flows : {{"a"}}, sbom : {{"a.yaml"}}]

(***************************************************************************)
(* Invocation: where files and working directory are, the environment, and *)
(* nested JSON values over two scalars.  Files are removed as it runs.     *)
(***************************************************************************)

Names == {"program", "pack"}
Disable == {"unset", "0", "1"}

PlainCall == [tool |-> "runner", program |-> "absolute", pack |-> "absolute", working_dir |-> "none",
              inherited |-> "unset", given |-> "unset", online |-> "unset", input |-> "json",
              files |-> [dir : {"cwd"}, name : Names]]

Places == [dir : {"cwd", "work", "PATH"}, name : Names]

MCSettings ==
  {[PlainCall EXCEPT !.tool = t, !.program = p, !.pack = q, !.working_dir = w, !.input = i, !.files = Places] :
     t \in {"runner", "component"}, p \in {"absolute", "relative", "name"}, q \in {"absolute", "relative"},
     w \in {"work", "none", "missing"}, i \in {"json", "garbage"}}
  \cup {[PlainCall EXCEPT !.tool = t, !.pack = q, !.files = f] :
     t \in {"runner", "component"}, q \in {"absolute", "relative"}, f \in SUBSET [dir : {"cwd"}, name : Names]}
  \cup {[PlainCall EXCEPT !.tool = t, !.inherited = i, !.given = g, !.online = o] :
     t \in {"runner", "component"}, i, g \in Disable, o \in {"unset", "0", "1", "TRUE"}}

MCPlainSettings == {PlainCall}

Scalar(v) == [kind |-> "scalar", value |-> v]
Array(s) == [kind |-> "array", items |-> s]
Object(f) == [kind |-> "object", fields |-> f]

Scalars == {Scalar("x"), Scalar("y")}

Objects(vs) == {Object(f) : f \in UNION {[keys -> vs] : keys \in SUBSET {"a", "b"}}}
Arrays(vs) == {Array(s) : s \in UpToTwo(vs)}

MCValues ==
  Scalars \cup Objects({Scalar("x")}) \cup Arrays(Scalars)
  \cup Arrays({Object([a |-> Scalar("x")]), Object([b |-> Scalar("x")])})
  \cup {Object([a |-> v]) : v \in Arrays(Scalars)}

(***************************************************************************)
(* Records                                                                 *)
(***************************************************************************)

Descriptors == [pack_id : {"p", "q"}, pack_version : {"1"}, digest : {"none"}]
               \cup {[pack_id |-> "p", pack_version |-> "1", digest |-> "d"],
                     [pack_id |-> "p", pack_version |-> Blank, digest |-> "none"]}
Subscriptions == [user : {"u"}, pack_id : {"p", "q"}, pack_version : {"1"}, enabled : {TRUE}]
                 \cup {[user |-> Blank, pack_id |-> "p", pack_version |-> "1", enabled |-> FALSE]}
DistributorTargets == [pack_id : {"p", "q"}, pack_version : {"1"}, enabled : {TRUE}]
                      \cup {[pack_id |-> "p", pack_version |-> "1", enabled |-> FALSE]}

MCPublications ==
  [metadata : UpToTwo(Descriptors), subs : UpToTwo(Subscriptions), target : UpToTwo(DistributorTargets)]

EventProviders == [name : {"b", Blank}, kind : {"broker", Blank}]
EventNodes == [id : {"n"}, event : {TRUE}, provider : {{}, {"b"}, {"c"}, {Blank}}, topic : {"t"}]
              \cup {[id |-> "n", event |-> FALSE, provider |-> {"b"}, topic |-> "t"],
                    [id |-> Blank, event |-> TRUE, provider |-> {"b"}, topic |-> Blank]}

MCEventRecords ==
  [providers : UpToTwo(EventProviders), flow : [id : {"f", Blank}, nodes : UpToTwo(EventNodes)]]

(***************************************************************************)
(* MockServer: "m" is the client every builder starts with.  OAuthSuite    *)
(* has two providers in their built-in order.                              *)
(***************************************************************************)

MockClient == [id |-> "m", secret |-> "s"]

MCDefaultLive == <<"google", "github">>
=============================================================================
