SPECIFICATION Spec
CONSTANTS
    a = a
    Sessions = {s1}
    Ids = {a}
    SecretIds <- OneId
    PublicKeys = {k1}
    Listing = Listing
    NotLoaded = NotLoaded
    Unusable = Unusable
    NoMessage = NoMessage
    DecodeErrors = {bad_format}
    Source = "keychain"
    Backoff = 2
    MaxLogins = 1
    NoSession = NoSession
    Unlock = Unlock
    Mode = "per_use"
    Factor = "touch_id"
    Window = 1
    Handover = 2
    ClockFaults <- NoFault
    MaxTime = 2
    MaxSleep = 0
    MaxSkew = 0
    Never = Never
PROPERTY SameFailureLoggedOnce
