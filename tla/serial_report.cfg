CONSTANTS
    JobList <- JobsOwnDirs
    DecodeOnly = FALSE
    Rerun = FALSE
    Workers = 0
    Absent = Absent
    NoEncodedOutput = NoEncodedOutput
    NoDecodedOutput = NoDecodedOutput
    NoSDKOutput = NoSDKOutput
SPECIFICATION Spec
INVARIANT NoCrash
