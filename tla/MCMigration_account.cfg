\* Five operations on the account, two crashes or failures, two migrations.
CONSTANTS
    a = a
    b = b
    w1 = w1
    w2 = w2
    fido = fido
    code = code
    Procs = {a, b}
    Passwords = {w1, w2}
    Iterations = {1}
    Factors = {fido, code}
    Fido = {fido}
    MaxOps = 5
    MaxTrouble = 2
    MaxRuns = 2
    Mine <- MCMine
    None = None
    Torn = Torn
SPECIFICATION MigrationSpec
INVARIANTS
    KeysOpen
    Recoverable
PROPERTIES
    MasterKept
CHECK_DEADLOCK FALSE
SYMMETRY Instances
