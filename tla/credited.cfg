CONSTANTS
    ann = ann
    bob = bob
    kim = kim
    c1 = c1
    c2 = c2
    c3 = c3
    c4 = c4
    c5 = c5
    c6 = c6
    o1 = o1
    o2 = o2
    o3 = o3
    r1 = r1
    r2 = r2
    r3 = r3
    wash = wash
    dry = dry
    None = None
    Users = {ann}
    Adults = {ann}
    Chores = {c1}
    Offers = {}
    Requests = {r1}
    Templates = {wash, dry}
    Recurring = {}
    FollowUps <- NoFollowUps
    Ops = {"submit"}
    Award = 2
    Penalty = 1
    Delta = 0
    Households <- OpenChore
    MaxFailures = 1
SPECIFICATION Spec
INVARIANTS LedgerExplainsBalances
