SPECIFICATION FairSpec
CONSTANTS
    Readers = {loop, r1, r2}
    Loop = loop
    NoReader = NoReader
    NotCached = NotCached
    Failed = Failed
    MaxVersion = 2
INVARIANTS
    ParsedOnce
    NoneNeedsWipe
    StaleNeedsRace
PROPERTY LoopFreed
