SPECIFICATION SystemSpec
CONSTANTS
    x = x
    y = y
    Accounts = {x, y}
    Absent = Absent
    Urls <- FewUrls
    Vault <- MCVault
    AccountKdf <- MCAccountKdf
    Kdfs <- MCKdfs
    Answers <- MCAnswers
    HandWritten <- MCHandWritten
    SystemLines = {"ok", "fail"}
    Environments <- MCEnvironments
INVARIANTS SystemTypeOK SessionOfConfig
PROPERTIES DeclineLeavesPair WrittenConfigIsPaired WrittenConfigServes NoSilentSwitch DoctorVouches
