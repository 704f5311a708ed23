CONSTANTS
    JobList <- JobsSharedDir
    DecodeOnly = FALSE
    Rerun = FALSE
    Workers = 1
    Absent = Absent
    NoEncodedOutput = NoEncodedOutput
    NoDecodedOutput = NoDecodedOutput
    NoSDKOutput = NoSDKOutput
SPECIFICATION FairSpec
INVARIANTS TypeOK Verdict NoCrash
 
