SPECIFICATION Spec
CONSTANTS
    CR = CR
    LF = LF
    X = X
    HeadStreams <- MCHeadStreams
    MaxRequestLine = 2
    MaxHeader = 2
    MaxHeaderBlock = 4
    MaxHeaderCount = 1
    MaxStream = 7
    MaxFrameByte = 3
    FrameLimit = 2
    MaxInnerByte = 5
    FragmentLimit = 3
    MaxPadding = 4
    MaxBody = 6
    MaxHelloByte = 3
    MaxName = 4
    MaxLabel = 3
    Hellos <- MCHellos
    MaxSessionId = 2
    Requests <- RequestInputs
    Heads <- ResponseInputs
    Requested <- UpgradeInputs
    Inputs <- DerInputs
    Contents <- DerContents
    Numbers <- OidNumbers
    PemFiles <- PemInputs
    Ders <- PemDers
    PemLineWidth = 8
    ConfigFiles <- ConfigInputs
    ConfigHosts <- MCHosts
    NoPort = NoPort
    MaxNumber = 20
    MaxPort = 20
    FileLists <- IdentityInputs
    ServerNames <- NameInputs
    Parts = 2
    MaxCalls = 3
INVARIANTS
    HeadsAreExact
    FieldsKeepTheirMeaning
    TlsInputIsExact
    EncodingsAreExact
    KeyFileIsSafe
    ConfigurationIsFollowed
CHECK_DEADLOCK FALSE
