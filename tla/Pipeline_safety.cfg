CONSTANTS
    MaxRuns = 4
    Certs <- MCCerts
    Revoked <- MCRevoked
    Ids = {1, 2, 3, 4, 5, 6, 7, 8}
    Lagging = FALSE
    Cadence = 6
    Horizon = 24
    GenFaults = {"generate", "diff"}
    StashesPerFilter = 1
    PubFaults = {"job", "attach", "kinto"}
SPECIFICATION Spec
PROPERTY ServesClients
INVARIANT SignedCovers
INVARIANT StashesOutweighNoFilter
PROPERTY SignedNeverOlder
PROPERTY NoRunRepublished
