SPECIFICATION Spec
CONSTANTS
    create = create
    check = check
    delete = delete
    new = new
    old = old
    Nobody = Nobody
    Submission = {create, check, delete}
    KindOf <- Kinds
    ArtifactOf <- Artifacts
    Strays = FALSE
    MaxMishaps = 2
CHECK_DEADLOCK FALSE
 
PROPERTIES ReceiptsTruthful
