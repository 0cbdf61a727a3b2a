SPECIFICATION FairSpec
CONSTANTS
    a = a
    Sessions = {s1, s2}
    Ids = {a}
    SecretIds <- OneId
    PublicKeys = {k1, k2}
    Listing = Listing
    NotLoaded = NotLoaded
    Unusable = Unusable
    NoMessage = NoMessage
    DecodeErrors = {bad_format}
    Source = "keychain"
    Backoff = 1
    MaxLogins = 1
    NoSession = NoSession
    Unlock = Unlock
    Mode = "per_use"
    Factor = "touch_id"
    Window = 1
    Handover = 1
    ClockFaults <- NoFault
    MaxTime = 1
    MaxSleep = 0
    MaxSkew = 0
    Never = Never
INVARIANTS TypeOK CallsNest
PROPERTIES UseHasConsent ImplementsComponents EveryRequestAnswered
