SPECIFICATION Spec
CONSTANTS
    NoFile = NoFile
    NoSubset = NoSubset
    Half = Half
    HalfRow = HalfRow
    TornLine = TornLine
    Absent = Absent
    HalfWritten = HalfWritten
    NoName = NoName
    Unread = Unread
    Broken = Broken
    NRungs = 4
    Wrapped <- Third
    MaxLadderRuns = 2
    Launchers = {l1, l2}
    Second = 1
    MaxStage = 2
    Grace = 1
    Interrupts = TRUE
    MaxKills = 2
    MaxTime = 4
    MaxSessions = 3
    Prompts = 2
    Sweeps <- Checkpoints
    MaxRuns = 2
    MaxSignals = 2
    Contents <- FixtureContents
    NamesIn <- NamesHeld
    RowsIn <- OneRowEach
    FixtureManifests <- FetchManifests
    Paths = {"q", "k", "x"}
    MaxFetches = 2
    Commits = {"c1", "c2"}
    Bundles <- TwoBundles
    MaxAttempts = 2
    PythonOnly = {"set"}
    Rows <- PoolRows
    Manifests <- PoolManifests
    Questions <- PoolQuestions
    Versions <- PoolVersions
    Superseded = "four"
    MaxSlips = 1
    Survivors <- ThreeTwo
    NPrompts = 3
    Target <- Targets
    Said <- Generable
    Samples = 2
    Weights <- ThreeTwo
    Proceed = 7000
    Cautious = 6000
    PerStep = 1
    StepLimit = 2
    MaxRedo = 2
    MaxLines = 5
    MaxFaults = 1
    DevQuestions <- Items
    Keys <- SubsetKeys
    Finals <- SubsetFinals
    DevManifests <- SubsetManifests
    DevVersions <- SubsetFiles
    DevBuckets <- ToolCounts
    Size = 2
    Order <- ByDigest
    MaxTouches = 1
    KeyFiles <- KeysHeld
    QuestionFiles <- QuestionsHeld
    Sweep <- KeySweeps
    Evidence <- Indexed
    Manifest <- KeyManifests
    Held <- FilesHeld
    Expected = {"sft", "dpo"}
    Reference = "sft"
    MaxSwaps = 1
    Hermes <- FromHermes
    XLam <- FromXLam
    HermesTarget = 1
    XLamTarget = 2
    FinalTarget = 3
    Similar <- NearDuplicates
    FakeTools = {"h"}
    Required <- RequiredArgs
    ExcludedIds = {"bad"}
    Nameless = Nameless
    MaxCommands = 5
    TrainingPrompts <- Trained
    Excluded = {"p2"}
    FailureType <- Wrong
    PerPrompt = 3
    BatchSize = 2
    MinPairs = 2
    MaxPairs = 2
    MaxStarts = 3
INVARIANTS
    TypesHold
    PassIsEarned
    VerdictIsFirstFault
    ResidueTellsWhere
    OneModelAtATime
    EnvelopeHolds
    OneRunPerDirectory
    CompleteIsBacked
    GreenExitHasEvidence
    FetchVouches
    LaunchReadyIsReviewed
    PairsArePreferences
    DecisionStands
    SubsetIsProportional
    ScoredIsPinned
    MinedIsScreened
    ReportsSupportClaims
    TaughtIsWrong
    OneSamplingPerPrompt
    HardestAreKept
PROPERTIES
    PaidRowsStay
    OnlyPinnedReplaces
    FailsClosed
CHECK_DEADLOCK FALSE
