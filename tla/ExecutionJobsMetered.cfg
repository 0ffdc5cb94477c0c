CONSTANTS
    t1 = t1  t2 = t2  a1 = a1  a2 = a2  k1 = k1  k2 = k2
    chat = chat  speech = speech  sprite = sprite
    w1 = w1  w2 = w2  stellar = stellar
    Tenant = {t1, t2}
    Account = {a1, a2}
    Key = {k1, k2}
    Lane = {sprite}
    Capability = {chat, speech}
    Worker = {w1, w2}
    WorkerId = {stellar}
    Profile <- MCProfile
    NoLimit = NoLimit
    NoRequest = NoRequest
    NoOwner = NoOwner
    NoLease = NoLease
    Request <- MCRequest
    Limit <- MCLimit
    MaxJobs = 2
    MaxAttempts = 2
    ScanLimit = 2
    CandidateLimit = 2
SPECIFICATION Spec
INVARIANT AttemptedWasMetered
