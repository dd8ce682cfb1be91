CONSTANTS
    RunParts = {"lifecycle"}
    N = 1
    Fatal = {}
    Hooks <- AllHooks
    Needs <- Chain
    Calls = {1}
    Resolutions <- Inputs
    Generations <- AllGenerations
    Packages = {a, b, c}
    Presets = {1, 2}
    Copies = {1, 2}
    Versions = {1, 2}
    Manifest <- Packaged
    PresetDoc <- Contributed
    Ambient = {"host"}
    Secrets = {"sk"}
    None <- NoFile
    FirstFile <- Opening
    MaxCommands = 2
    MaxEdits = 2
    NItems = 2
    a = a  b = b  c = c
    Broken = Broken  Absent = Absent
SPECIFICATION SumSpec
INVARIANTS EveryOwnerReleased
CHECK_DEADLOCK FALSE
