SPECIFICATION OftSpec
CONSTANTS
    Procs = {1}
    Quiet = FALSE
    MaxTime = 2
INVARIANT RecreateIfModified
