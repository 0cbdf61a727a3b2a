SPECIFICATION FairSpec
CONSTANTS
    Terminals = {t1, t2}
    RemovalFits = TRUE
INVARIANT TypeOK
PROPERTIES StartedMeansLoaded CommandsReturn
