CONSTANTS
    MaxRuns = 2
    Certs <- MCCerts
    Revoked <- MCRevoked
    Ids = {1, 2, 3, 4, 5, 6}
    Lagging = TRUE
    Cadence = 6
    Horizon = 12
    GenFaults = {"diff", "upload"}
    StashesPerFilter = 1
    PubFaults = {"job", "attach", "kinto"}
SPECIFICATION Spec
INVARIANT PublishedRunsComplete
