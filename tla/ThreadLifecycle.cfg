\* Two API processes: a run and a deletion in the first; a run, a chat
\* creation, a resume, a save, a read and a repeated deletion in the second.
SPECIFICATION Spec
CONSTANTS
    Procs = {"api1", "api2"}
    Runs = {"run1"}
    Resumes = {"resume1"}
    Creates = {"create1"}
    Visits = {"visit1"}
    Deletes = {"delete1", "delete2"}
    At <- MCAt
    Filesystems = {TRUE, FALSE}
    Controls = {TRUE, FALSE}
    MaxCrashes = 1
INVARIANTS TypeOK DeletionAlone RowGoesLast
PROPERTIES NoRevival
CHECK_DEADLOCK FALSE
