CONSTANTS
    u1 = u1
    u2 = u2
    c1 = c1
    c2 = c2
    r1 = r1
    r2 = r2
    q1 = q1
    q2 = q2
    q3 = q3
    k1 = k1
    k2 = k2
    None = none
    Users = {u1, u2}
    Chars = {c1, c2}
    Regs = {r1, r2}
    Requests = {q1, q2}
    Callers = {k1, k2}
    MaxRotations = 1
    MaxFaults = 1
SPECIFICATION FairSpec
INVARIANTS TypeOK OneMainPerUser
PROPERTIES OneLoginPerLink ToldIsConfirmed TokenSurvives
CHECK_DEADLOCK FALSE
