\* The manager, with a POSIX reader-writer lock for the metadata.
CONSTANTS
    t1 = t1  t2 = t2  t3 = t3  t4 = t4
    A = A  B = B  C = C
    ma = ma  mb = mb  ca = ca  cb = cb
    Threads = {t1, t2, t3, t4}
    Classes = {A, B, C}
    Methods = {ma, mb, ca, cb}
    Static = {ma, mb, ca, cb}
    Owner <- MCOwner
    Body <- MCBody
    CCtor <- MCCCtor
    BeforeFieldInit = {}
    Throws = {A}
    Jit = FALSE
    MetaLock = "rwlock"
    MaxCalls = 1
    NoThread = NoThread
    NoMethod = NoMethod
    NoClass = NoClass
    Broken = Broken
SPECIFICATION Spec
INVARIANTS
  TypeOK
  EntryAlive
  RunningIsExecuting
  InitialisedOnReturn
  NobodyStuck
SYMMETRY ThreadSymmetry
CHECK_DEADLOCK FALSE
