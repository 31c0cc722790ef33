SPECIFICATION Spec
CHECK_DEADLOCK FALSE
SYMMETRY MCSymmetry
CONSTANTS
    Request = {r1, r2}
    MaxEvents = 1
    skill = skill
    hook = hook
    Stored <- MCStored
    Kind = {skill, hook}
    NoKind = NoKind
    web = web
    db = db
    Container = {web, db}
    Files <- MCFiles
    NoEntry = NoEntry
    MaxLoads = 2
    Model = {m1, m2}
    Slot = {s1, s2}
    NoModel = NoModel
    MaxIterations = 2
    Dirs <- MCDirs
    Accepted <- MCAccepted
    InitAllowed <- MCInitAllowed
    Proc = {p1}
    Token = {t1, t2}
    NoToken = NoToken
    Image <- MCImage
    EngineContainer = {c1}
    Volume = {v1}
    Record = {b1}
    Layers <- MCLayers
    NoImage = NoImage
    Tier <- MCTier
    Process <- MCProcess
    BridgeName = {"relay"}
    Declared = {"db"}
    Entity <- MCEntities
    Rules <- MCRules
    Alike <- MCAlike
    Key = {"a", "b"}
    File <- MCFile
    KeyOf <- MCKeyOf
    Conventional <- MCConventional
    Home <- MCHome
    Cwd <- MCLib
    ExtraPaths <- MCExtraPaths
    HostDirs <- MCHostDirs
    ConfigDirNames = {".claude"}
    Shapes <- MCShapes
    MaxContainers = 2
    MaxChanges = 3
INVARIANTS
    TypeOK
    UnfilteredAnswers
    ActsOnNamed
    AnswerShown
    DrainHonest
    MutationHolds
    MarksMirror
    ActionsHold
    ConfirmCovers
    EstimateHonest
    CauseFound
    BadgeAgrees
    IndexSound
    SourcesUnique
