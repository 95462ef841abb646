SPECIFICATION RemediationSpec
CONSTANTS
    None = None
    Tools <- MCTools
    Sigs <- MCSigs
    Schedules = {"hourly", "daily"}
    SlowTools = {"repo.test"}
    MaxErrorRate = 60
    LimitLatency = FALSE
    Algorithm = "thompson-llm"
    Estimate <- MCEstimate
    ModelAggregates = 2
    SamplePolicies <- MCSamplePolicies
    MaxRecords = 2
    MaxExports = 1
    MaxRuns = 1
    Sessions = {"s", "a1", "a2"}
    Files = {"go.mod"}
    Restricted = {}
    Admins = {}
    Allowed <- MCAllowed
    Capability <- MCCapability
    ToolOrder <- MCToolOrder
    Hints <- MCHints
    TopKs = {1}
    Samples = {0, 100}
    Batches = {60}
    Configs <- MCConfigs
    MaxInvocations = 1
    MaxAnswers = 1
    MaxChanges = 2
    Playbooks <- MCPlaybooks
    Alerts <- MCAlerts
    MaxAlerts = 2
CHECK_DEADLOCK FALSE
INVARIANTS
    AnnouncedIsStored
    BanditLearnsFromRuns
    AnswersAreEvidenced
PROPERTIES
    FeedbackIsEarned
