CONSTANTS
    JobList <- JobsSharedDirPlain
    DecodeOnly = FALSE
    Rerun = FALSE
    Workers = 2
    Absent = Absent
    NoEncodedOutput = NoEncodedOutput
    NoDecodedOutput = NoDecodedOutput
    NoSDKOutput = NoSDKOutput
SPECIFICATION Spec
INVARIANT NoCrash
