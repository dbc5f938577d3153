CONSTANTS
    Process = {a, b}
    Page = {0, 1}
    FirstPage = 0
    TextPage = 0
    StackPage = 1
    ZeroPage = {1}
    Frame = {f1, f2}
    FirstFrame = f1
    SwapFrame = {k1, k2, k3, k4}
    FirstSwapFrame = k1
    prog1 = prog1
    prog2 = prog2
    Executable = {prog1, prog2}
    Image <- TwoImages
    Value = {0, 1}
    Zero = 0
    Garbage = Garbage
    SwapFile = SwapFile
    NoFile = NoFile
    pageReplPolicy = "DUMB"
    DefaultWss = 2
    WssRange = {}
SPECIFICATION SpecExec
INVARIANT ClearFlagMeansFree
VIEW MCView
CHECK_DEADLOCK FALSE
