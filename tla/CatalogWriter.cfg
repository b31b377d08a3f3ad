SPECIFICATION FairWriterSpec
CONSTANTS
    f1 = f1
    f2 = f2
    f3 = f3
    Writer = {w1, w2, w3}
    Files <- MCFiles
    Others = {other}
    Nobody = Nobody
    Before = Before
    Stranger = Stranger
INVARIANTS
    SuccessIsWhole
    FailureLeavesNothing
PROPERTIES
    TakenUntilRollback
    SomeRunSucceeds
\* A run of the command ends.
CHECK_DEADLOCK FALSE
