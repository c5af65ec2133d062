SPECIFICATION Spec
CONSTANTS
    client = client
    server = server
    Quota <- MCQuota
    RXBSZ = 2
    TCP_RETRIES_MAX = 0
    ADV_MAX = 1
    DUP_ACKS = 1
    ServerFirst = FALSE
    MaxFault = 2
INVARIANT StreamIntegrity
CHECK_DEADLOCK FALSE
