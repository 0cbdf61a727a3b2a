SPECIFICATION Spec
CONSTANTS
    x = x
    y = y
    Accounts = {x, y}
    Absent = Absent
    Urls <- MCUrls
    Vault <- MCVault
    AccountKdf <- MCAccountKdf
    Kdfs <- MCKdfs
    Answers <- MCAnswers
    HandWritten <- MCHandWritten
INVARIANT ConfigIsPaired
