------------------------------- MODULE Records -------------------------------
(***************************************************************************)
(* src/repo_store_suite.rs and src/events_suite.rs: validators of records  *)
(* that refer to one another.  A caller runs those it likes, in any order; *)
(* each stops at its first fault.  A blank text is the value Blank.        *)
(***************************************************************************)
EXTENDS Integers, Sequences, FiniteSets

CONSTANTS
  Blank,
  Publications,   \* sets of records [metadata, subs, target] of sequences
  EventRecords    \* and of records [providers, flow]

Items(s) == {s[i] : i \in DOMAIN s}

(* The provider of a node is a set with at most one element.               *)
IsEventRecord(e) == \A n \in Items(e.flow.nodes) : \A p, q \in n.provider : p = q

(* What the parameters can be; Toolkit assumes it.                         *)
RecordsAssumption == \A e \in EventRecords : IsEventRecord(e)

VARIABLES
  pub,      \* repository metadata, store subscriptions, distributor target
  events,   \* providers and an event flow
  said      \* validator -> "not_run", "ok" or "error"

vars == <<pub, events, said>>

Validators == {"repo", "store", "distributor", "providers", "event_flow"}

Init ==
  /\ pub \in Publications /\ events \in EventRecords
  /\ said = [v \in Validators |-> "not_run"]

Say(v, accepted) ==
  /\ said[v] = "not_run" /\ said' = [said EXCEPT ![v] = IF accepted THEN "ok" ELSE "error"]
  /\ UNCHANGED <<pub, events>>

Key(record) == <<record.pack_id, record.pack_version>>

(* A digest, a signature or an sbom tells no two entries apart.            *)
MetadataFits ==
  /\ \A d \in Items(pub.metadata) : Blank \notin {d.pack_id, d.pack_version}
  /\ \A i, j \in DOMAIN pub.metadata : Key(pub.metadata[i]) = Key(pub.metadata[j]) => i = j

ValidateRepoMetadata == Say("repo", MetadataFits)

SubscriptionsFit == \A s \in Items(pub.subs) : Blank \notin {s.user, s.pack_id, s.pack_version}

ValidateStoreSubscriptions == Say("store", SubscriptionsFit)

Enabled(records) == {r \in Items(records) : r.enabled}

FaultyTargetFits ==      \* targets that are not enabled count
  LET targets == {Key(t) : t \in Items(pub.target)}
  IN  /\ targets \subseteq {Key(m) : m \in Items(pub.metadata)}
      /\ {Key(s) : s \in Enabled(pub.subs)} \subseteq targets

(* Who subscribed to a pack does not matter here.                          *)
TargetFits ==
  LET targets == {Key(t) : t \in Enabled(pub.target)}
  IN  /\ targets \subseteq {Key(m) : m \in Items(pub.metadata)}
      /\ {Key(s) : s \in Enabled(pub.subs)} \subseteq targets

ValidateDistributorTarget == Say("distributor", TargetFits)

(* validate_provider, for each of them.                                    *)
ProvidersFit == \A p \in Items(events.providers) : Blank \notin {p.name, p.kind}

ValidateProviders == Say("providers", ProvidersFit)

(* The name of a provider may be blank here, and ids may repeat.           *)
EventFlowFits ==
  /\ events.flow.id # Blank /\ events.flow.nodes # <<>>
  /\ \A n \in Items(events.flow.nodes) :
       /\ n.id # Blank /\ n.event /\ n.topic # Blank
       /\ n.provider # {} /\ n.provider \subseteq {p.name : p \in Items(events.providers)}

ValidateEventFlow == Say("event_flow", EventFlowFits)

Next ==
  \/ ValidateRepoMetadata \/ ValidateStoreSubscriptions \/ ValidateDistributorTarget
  \/ ValidateProviders \/ ValidateEventFlow

Spec == Init /\ [][Next]_vars

(***************************************************************************)
(* Properties                                                              *)
(***************************************************************************)

(* Each validator has a verdict or none; one that has run on nothing finds *)
(* no fault.                                                               *)
TypeOK ==
  /\ IsEventRecord(events)
  /\ said \in [Validators -> {"not_run", "ok", "error"}]
  /\ said["store"] = "error" => pub.subs # <<>>
  /\ said["providers"] = "error" => events.providers # <<>>

Accepted(vs) == \A v \in vs : said[v] = "ok"

(* When repository, store and distributor agree, each enabled subscription *)
(* leads to one descriptor and an enabled target, and each enabled target  *)
(* to a pack that has a name and a version.                                *)
SubscriptionsAreDeliverable ==
  Accepted({"repo", "store", "distributor"}) =>
    /\ \A s \in Enabled(pub.subs) :
         /\ Cardinality({i \in DOMAIN pub.metadata : Key(pub.metadata[i]) = Key(s)}) = 1
         /\ \E t \in Enabled(pub.target) : Key(t) = Key(s)
    /\ \A t \in Enabled(pub.target) : Blank \notin {t.pack_id, t.pack_version}

(* Every node of an accepted event flow has a provider whose descriptor is *)
(* there and, the providers being accepted too, has a name and a kind.     *)
NodesHaveProviders ==
  Accepted({"providers", "event_flow"}) =>
    \A n \in Items(events.flow.nodes) :
      \E p \in Items(events.providers) : n.provider = {p.name} /\ Blank \notin {p.name, p.kind}

(* What every step preserves: an accepted record keeps to the rules of its *)
(* validator.                                                              *)
RecordsInv ==
  /\ TypeOK
  /\ said["repo"] = "ok" => MetadataFits
  /\ said["store"] = "ok" => SubscriptionsFit
  /\ said["distributor"] = "ok" => TargetFits
  /\ said["providers"] = "ok" => ProvidersFit
  /\ said["event_flow"] = "ok" => EventFlowFits
=============================================================================
