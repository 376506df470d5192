\* Every part with every input of MCToolkit; a part that has ended stops.
SPECIFICATION Spec
CONSTANTS
  Folders <- MCFolders
  FlowOptions <- MCOptions
  PackOptions <- MCPackOptions
  Manifests <- MCManifests
  ExportLists <- MCExports
  FileSets <- MCFileSets
  MaxCalls = 2
  SecretKeys <- MCKeys
  Configs <- MCConfigs
  Modulus = 8
  Packs <- MCPacks
  DeployerOutputs = {o1, o2}
  CallSettings <- MCSettings
  PlainSettings <- MCPlainSettings
  Values <- MCValues
  Blank = Blank
  Publications <- MCPublications
  EventRecords <- MCEventRecords
  Clients = {"m", "n"}
  Secrets = {"s", "t"}
  BuiltIn <- MockClient
  Connections = {c1, c2}
  MaxClients = 1
  Providers = {"google", "github"}
  DefaultLive <- MCDefaultLive
  Runs = {r1, r2, r3}
  Plans = {p1, p2, p3}
  Stale = p0
  Modules = {m1, m2}
  PlansOfJob = 2
  WaitBudget = 2
  Nothing = Nothing
INVARIANTS
  FlowReportIsTrue
  PackReportIsTrue
  PolicyReportIsTrue
  VerdictsAreEarned
  CallIsAsChecked
  AcceptedRecordsFit
  HeldServerServes
  LaneOutcomesAreTrue
  OwnUnlessDisturbed
  GoodJobMeansNamedPassed
PROPERTIES
  ServersGoAway
  SuitesReturn
CHECK_DEADLOCK FALSE
