CONSTANTS
    Package <- PackageUnknownName
    Base = "auto"
    Absent = Absent
    NoUserData = NoUserData
    Unset = Unset
SPECIFICATION Spec
INVARIANT DecodedWithOwnBase
