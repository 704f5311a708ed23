CONSTANTS
    Package <- PackageWithSdk
    Base = "auto"
    Absent = Absent
    NoUserData = NoUserData
    Unset = Unset
SPECIFICATION Spec
INVARIANT ReportTruthful
