CONSTANTS
    Process = {a, b}
    Page = {0, 1}
    FirstPage = 0
    TextPage = 0
    StackPage = 1
    ZeroPage = {1}
    Frame = {f1, f2}
    FirstFrame = f1
    SwapFrame = {k1, k2, k3, k4}
    FirstSwapFrame = k1
    Executable = {prog}
    Image <- MCImage
    Value = {0, 1}
    Zero = 0
    Garbage = Garbage
    SwapFile = SwapFile
    NoFile = NoFile
    pageReplPolicy = "DUMB"
    DefaultWss = 2
    WssRange = {3}
SPECIFICATION Spec
INVARIANTS TypeOK MappingsMatchOwners FlagsMatchOwners SharersAgree SharedIsCow SwapMatchesOwners EvictionLosesNothing SwapSuffices
PROPERTY PagingIsInvisible
SYMMETRY Symmetry
VIEW MCView
CHECK_DEADLOCK FALSE
