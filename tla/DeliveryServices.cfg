SPECIFICATION MCSpec
CONSTANTS
  Parts = {"gateway", "plugins", "sessions", "mqtt", "http", "credentials",
           "payload", "publishers", "manager", "values", "stream", "feed"}
  None = None
  \* sessions
  Browsers = {"b", "c"}
  Passwords = {"A", "B", "C"}
  HistoryDepth = 2
  LockAfter = 1
  LockTime = 1
  Lifetime = 2
  MaxTokens = 2
  MaxBegun = 4
  MaxTime = 2
  NoUser = None
  NoToken = None
  \* mqtt
  QueueCapacity = 2
  Diagnostics = TRUE
  MaxMessages = 3
  MaxConnects = 2
  MaxFailures = 2
  \* gateway
  Callers = {"c", "d"}
  NoRow = None
  NoClient = None
  MaxVersions = 2
  MaxRuntimes = 2
  MaxMade = 2
  \* http
  Clients = {"c", "d"}
  MaxConnections = 1
  Modes = {"anonymous", "basic"}
  Policies = {"payload", "strict"}
  Requests <- HTTPRequests
  QualitySets <- HTTPSnapshots
  MaxPublished = 2
  MaxRequests = 1
  \* manager
  Pubs = {1, 2}
  Configs = {"p", "m"}
  Conflicts <- ListenerConflicts
  Disabled = None
  MaxJobs = 3
  MaxEdits = 1
  MaxRestarts = 1
  MayShutDown = FALSE
  \* plugins
  Instances = {"i", "j"}
  Operators = {"c", "d"}
  NoInstance = None
  NoPluginJob = None
  MaxConfigs = 2
  MaxCalls = 2
  \* credentials
  Profiles = {"f"}
  ProfileType <- CredentialType
  Publishers = {"p"}
  PublisherType <- CredentialPublisher
  SecretSlots <- CredentialSlots
  Needs <- CredentialNeeds
  Keys = {"a", "b"}
  Administrators = {"c", "d"}
  RotationBuffer = 1
  MaxMaterial = 2
  MaxAsks = 2
  MaxBoots = 1
  \* feed
  TagSources = {"a"}
  OutputSources = {"p", "q"}
  EventBuffer = 0
  UpstreamBuffer = 1
  MaxValues = 2
  \* values
  Tags = {"t", "u"}
  Subscribers = {"r"}
  HistoryLimit = 1
  TagEventBuffer = 2
  MaxSequence = 3
\* Every part may come to rest: its bounds are used up.
CHECK_DEADLOCK FALSE
INVARIANTS StatusTruthful SessionsEnd DeliveryAccounted SnapshotServed PublishersManaged
           PluginsManaged RotationApplied FeedSound ValuesAreWhole AcceptedCanRun StreamsAreWhole
