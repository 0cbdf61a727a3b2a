SPECIFICATION Spec
CONSTANTS
    Calls = {c1}
    Fingerprints = {f1}
    Unlock = Unlock
    Mode = "grace"
    Factor = "touch_id"
    Window = 2
    Handover = 0
    ClockFaults <- BothFaults
    MaxTime = 5
    MaxSleep = 3
    MaxSkew = 3
    Never = Never
PROPERTY ApprovalHasPresence
