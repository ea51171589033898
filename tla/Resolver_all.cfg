SPECIFICATION ResolverSpec
CONSTANTS
    None = None
    Base = Base
    BaseRun = BaseRun
    Sub = Sub
    Make = Make
    Go = Go
    Sub2 = Sub2
    Other = Other
    OtherRun = OtherRun
    UtilF = UtilF
    UtilH = UtilH
    Main = Main
    DecoyF = DecoyF
    extends = extends
    chain = chain
    this = this
    missing = missing
    extends2 = extends2
    f1 = f1
    f2 = f2
    base = base
    sub = sub
    other = other
    util = util
    index = index
    app = app
    decoy = decoy
    Box = Box
    Open = Open
    Engine = Engine
    Run = Run
    New = New
    Use = Use
    GoMain = GoMain
    value = value
    static = static
    instance = instance
    made = made
    bare = bare
    fuzzy = fuzzy
    gin = gin
    Site = {extends, chain, this, missing, extends2, f1, f2, value, static, instance, made, bare, fuzzy}
    File = {base, sub, other, util, index, app, decoy, gin}
    Decl <- MCDecl
    Ref <- MCRef
    Family <- MCFamily
    SharedDirs <- NoneShared
    SharedWords <- NoWords
    Lower <- Lowered
    Capital <- Capitalised
    Content <- MCContent
    Disks <- MCDisks
    Orders <- MCOrders
    ScanOrders <- MCScanOrders
    BatchSizes = {1, 3}
    MaxEdits = 2
    MaxFaults = 1
INVARIANTS ResolutionComplete OneEdgePerSite
PROPERTIES ThisStaysInHierarchy ImportsLead
CHECK_DEADLOCK FALSE
