SPECIFICATION Spec
CONSTANTS
  l1 = l1
  l2 = l2
  r1 = r1
  Names = {"root", "alice"}
  Root = "root"
  Passwords = {"a"}
  Logins = {l1, l2}
  Requests = {r1, r2}
  PatchBodies <- MCBodies
  Keys = {"k"}
  MaxFailures = 2
  BlockFor = 2
  SessionTTL = 1
  TouchInterval = 1
  MaxClock = 5
  Handlers = {"h1", "h2"}
  MaxOutbox = 1
  Room = 2
  MaxProgress = 3
  NodeOrder <- MCNodes
  LinkOrder <- MCLinks
  Endpoints <- MCEndpoints
  K3s = "server"
  HasSetup = TRUE
  RemoveAttempts = 2
  Removers = {"destroy"}
  MachineOrder <- MCNodes
  NetOrder <- MCLinks
  SetupScript = TRUE
  Destroyers = {"destroy"}
  Width = 5
  Reserved <- MCReserved
  Labs <- MCLabs
  Openers = {"serve", "cli"}
  LastVersion = 3
  Statements = 2
  MaxCrashes = 2
  Past = {"p1", "p2"}
  Casts = {"c1", "c2"}
  Pruners = {"nightly"}
  PruneBatch = 1
  MaxPrunes = 2
INVARIANTS
  ServedIsEntitled
  GuessesLimited
  NothingLeaks
  BrowserIsCurrent
  ReportedRemovalIsReal
  ReadyIsWhole
  DestroyedIsGone
  ResolvedIsUsable
  SchemaIsVersioned
  HistoryIsWhole
CHECK_DEADLOCK FALSE
