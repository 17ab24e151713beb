SPECIFICATION Spec
CONSTANTS
    Parts = {"rows", "screen", "reader", "document", "subscription", "settings", "selections", "controller", "metrics", "wait"}
    grp = grp
    h = h
    a = a
    a2 = a2
    b = b
    uidP = uidP
    uidQ = uidQ
    n1 = n1
    n2 = n2
    note = note
    noteBlank = noteBlank
    subU = subU
    third = third
    pv = pv
    remoteNode = remoteNode
    compatible = compatible
    NoSearch = NoSearch
    NoUid = NoUid
    NoKey = NoKey
    GroupListings <- SomeGroups
    Preview <- RowPreview
    Measures <- RowMeasures
    Searches <- RowSearches
    Plain <- PlainNames
    Uids = {uidP, uidQ}
    Deltas = {"up", "last"}
    MaxRowKeys = 3
    NoQuery = NoQuery
    NoRow = NoRow
    NoSettings = NoSettings
    Listings <- PageListings
    Providers <- ProviderListings
    Queries <- PageFilters
    ShownSwitches = {"dns", "tun", "corelog"}
    Views <- AllViews
    MaxKeys = 3
    Streams <- SomeStreams
    NoFile = NoFile
    NoName = NoName
    IllShaped = IllShaped
    Inputs <- SomeInputs
    Chains <- SomeChains
    Trimmed <- TrimmedNames
    None = None
    NoEntry = NoEntry
    NoText = NoText
    NoDocument = NoDocument
    AsIs = AsIs
    Subscriptions = {subU}
    Entries <- SomeEntries
    Requests <- SomeRequests
    Bodies <- SomeBodies
    Headers <- SomeHeaders
    Times = {0, 3600, 10800}
    Segment = "segment"
    WordSize = 1048576
    Ports = {9090, 9097}
    DefaultControllerPort = 9097
    Foreign <- ForeignCores
    Absent = Absent
    Unreadable = Unreadable
    MaxChanges = 2
    Owners = {uidP, uidQ}
    NoOwner = NoOwner
    RuntimeOf <- SomeRuntimes
    Downloaded <- ProviderHas
    PlaceholderOf <- ProviderLines
    Compatible = compatible
    GlobalGroup = "GLOBAL"
    SavedBefore <- SavedEarlier
    MaxUserSteps = 2
    MaxUpdates = 1
    Answers <- SomeAnswers
    ReadSizes = {1, 4}
    Frames <- SomeFrames
    Memories = {7}
    NotKnown = NotKnown
    Summaries <- SomeSummaries
    Provided <- SomeProvided
    IMPORT_PROXY_READY_TIMEOUT = 30
    IMPORT_PROVIDER_PROXY_READY_TIMEOUT = 100
    MAX_AUTO_PROVIDER_REFRESHES = 2
INVARIANTS TypeOK RowsOfCurrent CursorOnShownRow CopyFollowsStore CutsDoNotShow LayersInOrder NamesResolve CanBeSteered SweepMatchesStatus FilesAreUsable ChoiceInForce FramesComeWhole TrafficIsOfNow WaitIsBounded
PROPERTIES StickyRowSurvives PinnedStatusSurvives ChoicesSurvive RevertedMeansRestored AppliedMeansInForce
CHECK_DEADLOCK FALSE
