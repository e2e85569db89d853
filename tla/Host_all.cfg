\* Four calls of the host, a discovery pass among them.
CONSTANTS
    NoExecutor = NoExecutor
    NoService = NoService
    Library <- CoreLibrary
    WithExecutor = {"user_input", "llm_router"}
    Offered <- KindsOfHost
    Spellings <- HostSpellings
    Executors = {"mine"}
    NodeIds = {"n"}
    Packages <- PackagesFound
    PackageKind <- KindsOfPackages
    Capabilities = {"llm"}
    Services = {"s", "t"}
    MaxOps = 4
SPECIFICATION Spec
INVARIANTS
    EverySpellingOverridden
    WalkedPastOrRuns
    RegistriesAreSound
PROPERTIES
    DiscoveryIsTruthful
CHECK_DEADLOCK FALSE
