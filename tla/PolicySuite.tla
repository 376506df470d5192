---------------------------- MODULE PolicySuite ----------------------------
(***************************************************************************)
(* src/suites/policy.rs with src/env.rs: the tenant is detected, secrets   *)
(* are put and denied, messages are checked for duplicates and the backoff *)
(* schedule is computed, each loop one element at a time.                  *)
(*                                                                         *)
(* A prefix is the set of the keys that start with it.                     *)
(***************************************************************************)
EXTENDS Integers, Sequences, FiniteSets

CONSTANTS
  Keys,     \* keys of secrets
  Configs,  \* configurations of the suite
  Modulus   \* number of values of an integer of the schedule; 2^64 in the code

IsConfig(c) ==
  /\ c.prefixes \subseteq SUBSET Keys
  /\ c.seeded \in Seq(Keys) /\ c.denied \in Seq(Keys)
  /\ c.messages \in Seq({c.messages[n] : n \in DOMAIN c.messages})
  /\ \A n \in DOMAIN c.messages : DOMAIN c.messages[n] = {"id", "kind"}
  /\ Cardinality(c.duplicate) <= 1
  /\ c.attempts \in Nat /\ c.base \in 0..Modulus - 1

(* What the parameters can be; Toolkit assumes it.                         *)
PolicyAssumption ==
  /\ Modulus \in Nat \ {0}
  /\ \A c \in Configs : IsConfig(c)

Fields == {"TENANT_ID", "TEAM_ID", "USER_ID"}

VARIABLES
  config,
  ci,         \* the flag CI
  checked,    \* built with overflow checks
  tenant,     \* Fields -> "none" before, then "default" or "own"
  pc,
  i,          \* element the loop is at
  store,      \* backing_store: keys with a secret
  granted, denied, seen, duplicate_detected, schedule,
  result      \* "running", "report", "panic" or the step that failed

input == <<config, ci, checked>>
output == <<store, granted, denied, seen, duplicate_detected, schedule>>
vars == <<input, tenant, pc, i, output, result>>

Init ==
  /\ config \in Configs /\ ci \in BOOLEAN /\ checked \in BOOLEAN
  /\ tenant = [f \in Fields |-> "none"] /\ pc = "detect" /\ i = 1
  /\ store = {} /\ granted = <<>> /\ denied = <<>> /\ seen = {}
  /\ duplicate_detected = FALSE /\ schedule = <<>> /\ result = "running"

Return(how) == result' = how /\ pc' = "end" /\ UNCHANGED i
Goto(label) == pc' = label /\ i' = 1 /\ UNCHANGED result
Again == i' = i + 1 /\ UNCHANGED <<pc, result>>

(***************************************************************************)
(* TenantContext::detect                                                   *)
(***************************************************************************)

Settings == {"unset", "blank", "default", "own"}      \* of a variable

(* env_or_default: blank counts as unset.                                  *)
Value(setting) == IF setting = "own" THEN "own" ELSE "default"

(* In CI none may have its default, however it came by it.                 *)
Accepts(values) == ci => \A f \in Fields : Value(values[f]) # "default"

Detect ==
  /\ pc = "detect"
  /\ \E values \in [Fields -> Settings] :
       IF Accepts(values)
       THEN tenant' = [f \in Fields |-> Value(values[f])] /\ Goto("seed")
       ELSE UNCHANGED tenant /\ Return("tenant")
  /\ UNCHANGED <<input, output>>

(***************************************************************************)
(* AllowListSecrets                                                        *)
(***************************************************************************)

(* put does not look at the prefixes.                                      *)
Seed ==
  /\ pc = "seed"
  /\ IF i > Len(config.seeded) THEN Goto("deny") /\ UNCHANGED <<store, granted>>
     ELSE /\ store' = store \cup {config.seeded[i]}
          /\ granted' = Append(granted, config.seeded[i])
          /\ Again
  /\ UNCHANGED <<input, tenant, denied, seen, duplicate_detected, schedule>>

Get(key) ==
  IF key \notin UNION config.prefixes THEN "access_denied"
  ELSE IF key \in store THEN "secret" ELSE "missing"

(* Any error of get is a denial; a secret is noted and the suite goes on.  *)
Deny ==
  /\ pc = "deny"
  /\ IF i > Len(config.denied) THEN Goto("messages") /\ UNCHANGED denied
     ELSE denied' = Append(denied, Get(config.denied[i])) /\ Again
  /\ UNCHANGED <<input, tenant, store, granted, seen, duplicate_detected, schedule>>

(***************************************************************************)
(* assert_idempotent_send                                                  *)
(***************************************************************************)

Identity(m) == m.id

Messages ==
  /\ pc = "messages"
  /\ IF i > Len(config.messages) THEN Goto("duplicate") /\ UNCHANGED seen
     ELSE IF Identity(config.messages[i]) \in seen THEN Return("messages") /\ UNCHANGED seen
     ELSE seen' = seen \cup {Identity(config.messages[i])} /\ Again
  /\ UNCHANGED <<input, tenant, store, granted, denied, duplicate_detected, schedule>>

(* The messages, known to be distinct, and the duplicate once more.        *)
Duplicate ==
  /\ pc = "duplicate"
  /\ duplicate_detected' = \E m \in config.duplicate : Identity(m) \in seen
  /\ Goto("backoff")
  /\ UNCHANGED <<input, tenant, store, granted, denied, seen, schedule>>

(***************************************************************************)
(* compute_backoff_schedule                                                *)
(***************************************************************************)

FaultyDelay(base, n) == (base * 2^(n - 1)) % Modulus      \* grows exponentially

(* base_ms * (i + 1) in u64: it panics with overflow checks, wraps without.*)
Delay(base, n) == (base * n) % Modulus

Backoff ==
  /\ pc = "backoff"
  /\ IF i > config.attempts THEN Return("report") /\ UNCHANGED schedule
     ELSE IF checked /\ config.base * i >= Modulus THEN Return("panic") /\ UNCHANGED schedule
     ELSE schedule' = Append(schedule, Delay(config.base, i)) /\ Again
  /\ UNCHANGED <<input, tenant, store, granted, denied, seen, duplicate_detected>>

Next == Detect \/ Seed \/ Deny \/ Messages \/ Duplicate \/ Backoff

Spec == Init /\ [][Next]_vars

(***************************************************************************)
(* Properties                                                              *)
(***************************************************************************)

(* The variables hold what the suite can; the results keep step with their *)
(* loops.                                                                  *)
TypeOK ==
  /\ IsConfig(config)
  /\ ci \in BOOLEAN /\ checked \in BOOLEAN /\ duplicate_detected \in BOOLEAN
  /\ tenant \in [Fields -> {"none", "default", "own"}]
  /\ pc \in {"detect", "seed", "deny", "messages", "duplicate", "backoff", "end"}
  /\ (result = "running" <=> pc # "end") /\ i \in Nat \ {0}
  /\ store \subseteq Keys /\ granted \in Seq(Keys)
  /\ denied \in Seq({"access_denied", "secret", "missing"})
  /\ pc = "deny" => Len(denied) = i - 1
  /\ schedule \in Seq(0..Modulus - 1)

(* A tenant, team or user of a report made in CI is never a default, be    *)
(* its variable unset, blank or set to the default itself.                 *)
CiHasNoDefaults == ci /\ result = "report" => \A f \in Fields : tenant[f] = "own"

(* A key that was to be denied is reported as readable exactly when it is  *)
(* both under an allowed prefix and seeded: that a secret was seeded does  *)
(* not open its key, that a key is allowed does not make up a secret.      *)
DenialsTellAccess ==
  result = "report" =>
    \A n \in DOMAIN config.denied :
      denied[n] = "secret" <=>
        /\ \E p \in config.prefixes : config.denied[n] \in p
        /\ \E s \in DOMAIN config.seeded : config.seeded[s] = config.denied[n]

(* The messages of a report have different ids, whatever their kinds, and  *)
(* a duplicate is detected exactly when its id is that of a message.       *)
DuplicatesAreById ==
  result = "report" =>
    /\ \A m, n \in DOMAIN config.messages : m # n => config.messages[m].id # config.messages[n].id
    /\ duplicate_detected <=>
         \E d \in config.duplicate, n \in DOMAIN config.messages : d.id = config.messages[n].id

(* The schedule of a report grows by base_ms from attempt to attempt; only *)
(* a build without overflow checks, and only when the last delay is too    *)
(* large for the width, reports one that does not.                         *)
BackoffIsLinear ==
  result = "report" =>
    /\ Len(schedule) = config.attempts
    /\ (\A n \in DOMAIN schedule : schedule[n] = n * config.base)
         <=> (config.attempts * config.base < Modulus)
    /\ checked => config.attempts * config.base < Modulus

(* The suite is past the loops before these labels.                        *)
Past(labels) == pc \in labels \/ result = "report"

(* Only messages before this one have been seen, and they differ.          *)
Distinct(count) ==
  /\ seen = {Identity(config.messages[n]) : n \in 1..count}
  /\ \A m, n \in 1..count :
       Identity(config.messages[m]) = Identity(config.messages[n]) => m = n

(* Each loop has done what it does for the elements before i, and what it  *)
(* has done stays: the tenant is known, the store has what was seeded, an  *)
(* answer is that of Get, the messages seen differ.                        *)
Loops ==
  /\ ci /\ Past({"seed", "deny", "messages", "duplicate", "backoff"}) =>
       \A f \in Fields : tenant[f] = "own"
  /\ pc = "detect" => store = {} /\ seen = {} /\ i = 1 /\ denied = <<>> /\ schedule = <<>>
  /\ pc = "seed" =>
       /\ store = {config.seeded[n] : n \in 1..i - 1} /\ i <= Len(config.seeded) + 1
       /\ seen = {} /\ denied = <<>> /\ schedule = <<>>
  /\ Past({"deny", "messages", "duplicate", "backoff"}) =>
       /\ store = {config.seeded[n] : n \in DOMAIN config.seeded}
       /\ \A n \in DOMAIN denied : denied[n] = Get(config.denied[n])
  /\ pc = "deny" => i <= Len(config.denied) + 1 /\ seen = {} /\ schedule = <<>>
  /\ Past({"messages", "duplicate", "backoff"}) => Len(denied) = Len(config.denied)
  /\ pc = "messages" => Distinct(i - 1) /\ i <= Len(config.messages) + 1 /\ schedule = <<>>
  /\ Past({"duplicate", "backoff"}) => Distinct(Len(config.messages))
  /\ pc = "duplicate" => schedule = <<>>
  /\ Past({"backoff"}) =>
       (duplicate_detected <=> \E d \in config.duplicate : Identity(d) \in seen)

(* Delays computed so far, each without a panic.                           *)
Delays ==
  /\ pc = "backoff" => Len(schedule) = i - 1 /\ i <= config.attempts + 1
  /\ result = "report" => Len(schedule) = config.attempts
  /\ Past({"backoff"}) => \A n \in DOMAIN schedule :
       /\ schedule[n] = Delay(config.base, n)
       /\ checked => config.base * n < Modulus

(* What every step preserves.                                              *)
PolicyInv == TypeOK /\ Loops /\ Delays
=============================================================================
