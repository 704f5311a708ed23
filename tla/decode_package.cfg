CONSTANTS
    Package <- PackageClean
    Base = "auto"
    Absent = Absent
    NoUserData = NoUserData
    Unset = Unset
SPECIFICATION Spec
INVARIANTS TypeOK DecodedWithOwnBase ReportTruthful
