CONSTANTS
    RunParts = {"access", "exchange", "webhook", "schema", "registry", "auth", "delegated", "mcp", "host", "permissions", "loader", "menu", "console", "shell", "drift", "codemods"}
    alice = alice  bob = bob  admin = admin  user = user  r = r  s = s  p1 = p1  k = k  one = one  two = two
    Users = {alice, bob}
    Roles = {admin, user, r, s}
    Permissions = {p1}
    Keys = {k}
    SystemRoles = {admin, user}
    Admin = admin
    UserRole = user
    FirstRoles = {admin, user, r}
    FirstUsers = {alice}
    NoUser = NoUser
    Procs = {one, two}
    Twins = {one, two}
    Kinds = {"createRole", "updateRole", "setPermissions", "removeRole", "createUser", "setRoles", "mark", "unmark", "removeUser", "createKey", "updateKey", "removeKey"}
    MaxWant = 1
    MaxRequests = 3
    MaxFaults = 1
    ThrottleWindow = 3  ThrottleLimit = 2  FailureThreshold = 2  CircuitCooldown = 2  LinesLimit = 1
    PolicyMaxExpires = 1  ThrottleTicks = 4  ThrottleCalls = 4
    WebhookEvents = {"e"}  DeliveryTimeout = 1  FreshWindow = 2  KeyOverlap = 2  ClockSkews <- OneTick
    DeliveryBudget = 3  DeliveryTicks = 6
    SchemaKeys = {"a", "b"}  SchemaValues <- SomeValues  ContractSchemas <- Objects
    MaxReleases = 2  MaxDocuments = 1
    CapabilityVersions = {1, 2}  PayloadSchemas = {"empty", "order"}
    PartyApps = {"provider-app", "caller-app"}  HandEdits = 4
    HostSelections <- Selected
    AuthRequests = {1}  HostedApps <- FourApps  AuthRoles = {"ADMIN", "READER"}  RoleGrants <- TwoGrants
    ReadPermissions <- OneRead  GuardedRoutes <- SixRoutes  PresentedCredentials <- SevenCredentials
    LoginAccounts <- ThreeAccounts  ApiKeyRows <- ThreeKeyRows  KeyLimit = 1  KeyWindow = 1
    AuthTicks = 1  AuthChanges = 1  AuthFaults = 1  AuthCalls = 2
    LoginEmails = {"e"}  Delegations <- FourDelegations  ExchangedTokens <- SixTokens  AgeCap = 2
    EventLimit = 1  EventWindow = 1
    DelegatedTicks = 1  DelegatedChanges = 1  DelegatedFaults = 1  DelegatedCalls = 2
    ToolLists <- TwoTools  ToolPrefixes = {"none", "app"}  StateKeys = {"none", "short", "k1", "k2"}
    KeyHolders = {1, 2}  HeldScopes <- TwoHolders  ToolCalls = {1}
    InputRounds = 2  StateTtl = 1  ToolTicks = 1  MaxStates = 3  MaxRestarts = 1
    PlanReleases <- UpToTwo  PlanGenerations = 2
    LoaderManifests <- Authored  LoaderParts <- UpToOne  LoaderHosts <- Loading
    PackageVersions = {1, 2}  PackageEdits = 2
    IndexNames = {"a", "b", "c"}  DriftEdits = 1  DriftMigrations = 2
    FoundApps <- TwoFiles  WrittenImports <- Imports  CodemodEdits = 1  CodemodRuns = 2
    MenuIds = {1, 2}  LinkedIds = {2}  ListLength = 2
    MenuLoads = 2  MenuMarks = 2  MenuFaults = 2  MenuReads = 1
    WidgetCalls = 2  RowEdits = 1
    NarrowBar = 1  WideBar = 4  FirstBar = 2  ShellWrites = 2
SYMMETRY Alike
SPECIFICATION SumSpec
INVARIANTS CommitsHold ThrottleHonest WebhooksEndRightly StoredStillRead GreenMeansPinned
    AnswersRightly DelegatedRightly McpRightly HostSound DeclaredAsFrozen PagesHonest AppKeepsUp
PROPERTIES AssignedRolesStay
CHECK_DEADLOCK FALSE
