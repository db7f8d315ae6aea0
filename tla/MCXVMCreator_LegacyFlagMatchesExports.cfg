CONSTANTS
    c1 = c1
    c2 = c2
    mInit = mInit
    mInvoke = mInvoke
    sym1 = sym1
    Contracts <- MCContracts
    Exports <- MCExports
    Initialize = mInit
    ExportPrefix = ExportPrefix
    Internal = {sym1}
    OptLevels <- MCOptLevels
    NoConfig = NoConfig
    MaxLeaks = 1
SPECIFICATION Spec
INVARIANT LegacyFlagMatchesExports
CHECK_DEADLOCK FALSE
