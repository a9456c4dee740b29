SPECIFICATION Spec
CONSTANTS
    Subs = {s1, s2}
    MaxJobs = 1
    Aborted = {s1}
    MaxFailures = 0
INVARIANTS ReadyHasNone
