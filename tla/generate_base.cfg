CONSTANTS
    JobList <- JobsGenerateBase
    DecodeOnly = FALSE
    Rerun = FALSE
    Workers = 1
    Absent = Absent
    NoEncodedOutput = NoEncodedOutput
    NoDecodedOutput = NoDecodedOutput
    NoSDKOutput = NoSDKOutput
SPECIFICATION Spec
INVARIANT NoCrash
