CONSTANTS
    c1 = c1
    c2 = c2
    Calls = {c1, c2}
    Steady = {c2}
    dir = dir
    other = other
    Directories = {dir, other}
    Split = Split
    Full = Full
    Efi = Efi
    Half = Half
    Blind = Blind
    Twice = Twice
    Odd = Odd
    Builds = {Split, Full, Efi, Half, Blind, Twice, Odd}
    Entries <- BuildEntries
    Setups <- SmallSetups
    ManifestSize = 5
    Names <- EntryNames
    None = None
    Torn = Torn
SPECIFICATION FairSpec
INVARIANTS
    TypeOK
    StagedIsVerified
    StagedIsBootable
    ParsersAgree
    StoredPairVerifies
    ManifestUnpacked
PROPERTIES
    FetchSucceeds
CHECK_DEADLOCK FALSE
