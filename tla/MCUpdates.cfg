SPECIFICATION FairUpdates
CONSTANTS
    Submission = {r1, r2}
    MaxRelease = 2
    MaxUpsets = 2
    Upgrade = {r1, r2, r3}
    RetryOf <- Retries
    Versions = 2
    Injects = TRUE
    MaxFailures = 2
    Nobody = Nobody
    r1 = r1
    r2 = r2
    r3 = r3
    A = A
    B = B
    c1 = c1
CHECK_DEADLOCK FALSE
INVARIANTS  SchemaTruthful  RequestsTruthful SlotsKept
PROPERTIES SchemaFinal UpdatesSettle
