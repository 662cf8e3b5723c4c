SPECIFICATION Spec
CONSTANTS
    ItemCount = 2
    Worker = {a, b}
    a = a
    b = b
    NoWorker = NoWorker
    MaxRetryDepth = 1
    Mishaps = {"crash", "lease", "io", "corrupt", "permission", "space", "touch", "delete", "foreign"}
    MaxMishaps = 3
SYMMETRY WorkerSymmetry
CHECK_DEADLOCK FALSE
INVARIANTS CatalogueServed NothingForgotten
PROPERTIES ForeignFilesKept MovesSafely
