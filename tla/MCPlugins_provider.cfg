CONSTANTS
    RunParts = {"lifecycle"}
    N = 2
    Fatal = {1, 2}
    Hooks <- AllHooks
    Needs <- Chain
    Calls = {1}
    Resolutions <- Inputs
    Generations <- AllGenerations
    Packages = {a, b, c}
    Presets = {1, 2}
    Copies = {1, 2}
    Versions = {1, 2}
    Manifest <- Packaged
    PresetDoc <- Contributed
    Ambient = {"host"}
    Secrets = {"sk"}
    None <- NoFile
    FirstFile <- Opening
    MaxCommands = 2
    MaxEdits = 2
    NItems = 2
    a = a  b = b  c = c
    Broken = Broken  Absent = Absent
SPECIFICATION SumSpec
PROPERTIES ProvidersReady
CHECK_DEADLOCK FALSE
