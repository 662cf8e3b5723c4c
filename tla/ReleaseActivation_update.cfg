CONSTANTS
    r1 = r1
    r2 = r2
    base = base
    t1 = t1
    t2 = t2
    Request = {r1, r2}
    TargetOf <- Targets
    First = base
    SchemaOf <- Schemas
    None = None
    Outlives = FALSE
    Repairs = FALSE
    MaxMishaps = 2
SPECIFICATION FairSpec
CHECK_DEADLOCK FALSE
 
PROPERTIES FirstCause ActivationEnds
