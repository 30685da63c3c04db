CONSTANTS
    ann = ann
    bob = bob
    kim = kim
    c1 = c1
    c2 = c2
    c3 = c3
    c4 = c4
    c5 = c5
    c6 = c6
    o1 = o1
    o2 = o2
    o3 = o3
    r1 = r1
    r2 = r2
    r3 = r3
    wash = wash
    dry = dry
    None = None
    Users = {ann, kim}
    Adults = {ann}
    Chores = {c1, c2, c3, c4}
    Offers = {o1, o2}
    Requests = {r1, r2}
    Templates = {wash, dry}
    Recurring = {wash}
    FollowUps <- NoFollowUps
    Ops = {"submit", "approve", "reject", "start", "takeOver", "release", "cancel", "cancelOccurrence", "closeCycle", "ask", "accept", "expire", "fine"}
    Award = 2
    Penalty = 1
    Delta <- Price
    Households <- TwoRepeats
    MaxFailures = 0
SPECIFICATION FairSpec
PROPERTIES EveryCallReturns EveryWinSettles
