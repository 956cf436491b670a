\* Two publisher runs, one patch developed in the suite, one committed in the
\* member repository, one a merge there carries.
SPECIFICATION Spec
CONSTANTS
    Runs = {r1, r2}
    Changes = {c1}
    Strays = {s1}
    Resolutions = {m1}
    Base = Base
    Absent = Absent
    MaxMain = 4
    MaxOwn = 2
INVARIANTS
    TypeOK
    MirrorsSuite
PROPERTIES
    PushSafe
    OneRunSettles
\* When main is at its bound and the repository holds it, nothing is left to do.
CHECK_DEADLOCK FALSE
