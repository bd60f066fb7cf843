SPECIFICATION Spec
CONSTANTS
    None = None
    Err = Err
    Corrupt = Corrupt
    Blank = Blank
    c1 = c1
    c2 = c2
    c3 = c3
    a1 = a1
    a2 = a2
    k1 = k1
    f1 = f1
    f2 = f2
    s1 = s1
    s2 = s2
    s3 = s3
    r1 = r1
    v1 = v1
    v2 = v2
    v3 = v3
    p1 = p1
    p2 = p2
    Calls = {c1, c2, c3}
    Accounts = {a1, a2}
    Keys = {k1}
    Fingerprints = {f1, f2}
    Hardware = "hardware"
    Elsewhere = "elsewhere"
    Entries <- MCEntries
    Worlds <- MCWorlds
    MaxBatch = 2
    MaxTime = 2
    MaxFaults = 1
    Codes = {p1, p2}
    PairingTtl = 1
    MaxRows = 1
    SellerPictures = {s1, s2}
    Galleries <- MCGalleries
    Restyled = {r1}
    MaxCandidates = 2
    Drafts <- MCDrafts
    SourceAttributes <- MCSourceAttributes
    DictionaryNames = {"colour"}
    FreeNames = {"note"}
    Pages <- MCPages
    MaxPages = 3
INVARIANTS
    SettingsAgree
    RegistryKeepsEntries
    FingerprintIsStable
    StatusIsTruthful
    GateHolds
    CodeIsOneTime
    DeliverableIsVerified
    GalleryIsKept
    CopyIsNotBlanked
    CopyIsAccountedFor
CHECK_DEADLOCK FALSE
