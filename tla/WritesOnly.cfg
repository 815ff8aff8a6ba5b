\* Three calls that only write: nothing removes a score.
SPECIFICATION Spec
CONSTANTS
    b1 = b1  b2 = b2  m1 = m1  m2 = m2
    r1 = r1  r2 = r2  r3 = r3  w1 = w1  w2 = w2
    None = None
    Invalid = Invalid
    Boards = {b1}
    Members = {m1, m2}
    Requests = {r1, r2, r3}
    Workers = {}
    Jobs <- RankedJobs
    ExpireAtOf <- NoSeason
    ExpirationLimitPerRun = 1
    MaxTime = 2
    MaxRemovals = 0
    MaxFaults = 0
SYMMETRY MCSymmetry
INVARIANTS NoCallFails TimedScoresHaveDeadlines
\* Without a worker, calls done and the clock at its bound, nothing is left to do.
CHECK_DEADLOCK FALSE
