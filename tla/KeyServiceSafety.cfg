SPECIFICATION Spec
CONSTANTS
    a = a
    b = b
    Sessions = {s1, s2, s3}
    Ids = {a, b}
    SecretIds <- TwoIds
    PublicKeys = {k1, k2}
    Messages = {m1, m2}
    Listing = Listing
    NotLoaded = NotLoaded
    Unusable = Unusable
    NoMessage = NoMessage
SYMMETRY SessionSymmetry
INVARIANTS TypeOK OnePass NoRefetch NothingSkippedSilently LoggedOnce
PROPERTIES CacheStable ImplementsContract
