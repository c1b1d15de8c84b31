\* Setters that overlap, failing writes and crashes.
CONSTANTS
    Memory = Memory
    Gemini = Gemini
    Extractor = Extractor
    Providers = {Gemini}
    Domains = {Memory}
    Workers = {Extractor}
    Roles = {}
    Projects = {p1}
    Global = Global
    Deps <- ExtractorDeps
    Calls = {c1, c2, c3}
    MaxFaults = 1
    MaxCrashes = 1
SPECIFICATION Spec
INVARIANTS
    TypeOK
    RestoresAHeldTree
    CascadeAgrees
    PersistedWhenQuiet
CHECK_DEADLOCK FALSE
