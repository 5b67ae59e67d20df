CONSTANTS
    MaxRuns = 2
    Certs <- MCCerts
    Revoked <- MCRevoked
    Ids = {1, 2, 3, 4, 5, 6, 7, 8}
    Lagging = FALSE
    Cadence = 6
    Horizon = 12
    GenFaults = {}
    StashesPerFilter = 1
    PubFaults = {"attach"}
SPECIFICATION FairSpec
PROPERTY LatestRunSigned
