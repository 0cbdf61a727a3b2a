SPECIFICATION FairSpec
CONSTANTS
    Callers = {t1, t2, t3}
    Source = "keychain"
    Backoff = 1
    MaxTime = 2
    MaxLogins = 2
    NoSession = NoSession
    Never = Never
INVARIANTS TypeOK RetryOnlyAfterRefusal OneInside
PROPERTIES BackoffRespected NoNeedlessLogin GetReturns
