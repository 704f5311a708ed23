CONSTANTS
    JobList <- JobsOwnDirs
    DecodeOnly = FALSE
    Rerun = TRUE
    Workers = 1
    Absent = Absent
    NoEncodedOutput = NoEncodedOutput
    NoDecodedOutput = NoDecodedOutput
    NoSDKOutput = NoSDKOutput
SPECIFICATION Spec
INVARIANT Verdict
