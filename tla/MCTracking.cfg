\* One page with two clicks more than it needs for a job, two jobs, two versions,
\* two requests or answers that are lost.
SPECIFICATION FairSpec
CONSTANTS
    MaxVersions = 2
    Jobs <- MCJobs
    PageKeys <- MCPageKeys
    OtherKeys <- MCOtherKeys
    None = None
    MaxClicks = 3
    MaxFailures = 2
INVARIANT
    RetriesFindTheirJob
PROPERTIES
    StatusNeverStepsBack
    FollowedToTheEnd
CHECK_DEADLOCK FALSE
