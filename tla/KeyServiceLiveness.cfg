SPECIFICATION FairSpec
CONSTANTS
    a = a
    b = b
    Sessions = {s1, s2, s3}
    Ids = {a, b}
    SecretIds <- TwoIds
    PublicKeys = {k1}
    Messages = {m1}
    Listing = Listing
    NotLoaded = NotLoaded
    Unusable = Unusable
    NoMessage = NoMessage
PROPERTIES EveryRequestAnswered LoadedKeyNeverWaits
