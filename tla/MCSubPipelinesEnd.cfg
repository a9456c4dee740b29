SPECIFICATION FairSpec
CONSTANTS
    Subs = {s1, s2}
    MaxJobs = 1
    Aborted = {s1}
    MaxFailures = 1
INVARIANTS TypeOK AnsweredOnce AnswerIsDue
PROPERTIES StopAllReturns EndedJobIsCleared
