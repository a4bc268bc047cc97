SPECIFICATION OftSpec
CONSTANTS
    Procs = {1, 2}
    Quiet = TRUE
    MaxTime = 3
INVARIANTS RecreateIfModified LoadedWhole
