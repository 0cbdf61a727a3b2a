SPECIFICATION Spec
CONSTANTS
    Calls = {c1, c2}
    Fingerprints = {f1, f2}
    Unlock = Unlock
    Mode = "grace"
    Factor = "touch_id"
    Window = 2
    Handover = 1
    ClockFaults <- EitherFault
    MaxTime = 4
    MaxSleep = 3
    MaxSkew = 1
    Never = Never
SYMMETRY Symmetry
INVARIANT TypeOK
PROPERTIES ApprovalHasPresence UnlockNeverRides
