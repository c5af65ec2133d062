SPECIFICATION PppSpec
CONSTANTS
    Auth = TRUE
    MAX_RETRIES = 9
INVARIANTS LayersOrdered UpNotMissed
PROPERTY TerminationEnds
