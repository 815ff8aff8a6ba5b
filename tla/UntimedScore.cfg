\* An update without scoreTTL follows one with it.
SPECIFICATION Spec
CONSTANTS
    b1 = b1  b2 = b2  m1 = m1  m2 = m2
    r1 = r1  r2 = r2  r3 = r3  w1 = w1  w2 = w2
    None = None
    Invalid = Invalid
    Boards = {b1}
    Members = {m1}
    Requests = {r1, r2}
    Workers = {w1}
    Jobs <- TimedJobs
    ExpireAtOf <- NoSeason
    ExpirationLimitPerRun = 1
    MaxTime = 2
    MaxRemovals = 0
    MaxFaults = 0
PROPERTY UntimedScoresStay
