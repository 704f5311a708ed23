CONSTANT None = None
SPECIFICATION Spec
INVARIANTS
    TypeOK
    Precedence
    BaseExternalAsSpecified
    JobMatrix
    PathsKeepTheirFiles
    ArtifactsAsSpecified
CHECK_DEADLOCK FALSE
