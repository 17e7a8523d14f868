SPECIFICATION Spec
CONSTANTS
    NoInstall = NoInstall
    i1 = i1
    i2 = i2
    e1 = e1
    e2 = e2
    c1 = c1
    c2 = c2
    p1 = p1
    r1 = r1
    r2 = r2
    Installs = {i1, i2}
    EnrolSlots = {e1, e2}
    ConfirmSlots = {c1, c2}
    PollSlots = {p1}
    StageSlots = {r1, r2}
    MaxTokens = 2
    MaxSecrets = 2
    MaxEdits = 1
SYMMETRY NodeSymmetry
INVARIANTS
    TypeOK
    NeverStranded
    OneInstallation
    AppliedMeansApplied
PROPERTIES
    StagedSecretStands
CHECK_DEADLOCK FALSE
