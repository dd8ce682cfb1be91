CONSTANTS
    RunParts = {"lifecycle", "resolver", "workspace", "artifacts", "dispatcher"}
    N = 3
    Fatal = {1}
    Hooks <- MostHooks
    Needs <- Chain
    Calls = {1}
    Resolutions <- Inputs
    Generations <- AllGenerations
    Packages = {a, b, c}
    Presets = {1, 2}
    Copies = {1, 2}
    Versions = {1, 2}
    Manifest <- Packaged
    PresetDoc <- Contributed
    Ambient = {"host"}
    Secrets = {"sk"}
    None <- NoFile
    FirstFile <- Opening
    MaxCommands = 2
    MaxEdits = 2
    NItems = 4
    a = a  b = b  c = c
    Broken = Broken  Absent = Absent
SPECIFICATION SumSpec
INVARIANTS HealthHonest CleanShutdownReleases ProvidersFirst CanonicalOrCyclic NoTwoOwners
    GeneratedSoundly BuildConverges DriftIsSeen
PROPERTIES StopsDependantsFirst EverythingReturns EveryDeliverySettles
CHECK_DEADLOCK FALSE
