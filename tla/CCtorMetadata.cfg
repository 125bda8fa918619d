\* The metadata lock is a POSIX lock, which its writer loses to a read lock.
CONSTANTS
    t1 = t1  t2 = t2  t3 = t3  t4 = t4
    A = A  B = B  C = C
    ma = ma  mb = mb  ca = ca  cb = cb
    Threads = {t1, t2, t3}
    Classes = {A, B, C}
    Methods = {ma, mb, ca, cb}
    Static = {ma, mb, ca, cb}
    Owner <- MCOwner
    Body <- MCBody
    CCtor <- MCCCtor
    BeforeFieldInit = {}
    Throws = {A}
    Jit = FALSE
    MetaLock = "rwlock"
    MaxCalls = 2
    NoThread = NoThread
    NoMethod = NoMethod
    NoClass = NoClass
    Broken = Broken
SPECIFICATION Spec
SYMMETRY ThreadSymmetry
CHECK_DEADLOCK FALSE
INVARIANTS
  ConverterHasMetadata
