CONSTANTS
    ann = ann
    bob = bob
    kim = kim
    c1 = c1
    c2 = c2
    c3 = c3
    c4 = c4
    c5 = c5
    c6 = c6
    o1 = o1
    o2 = o2
    o3 = o3
    r1 = r1
    r2 = r2
    r3 = r3
    wash = wash
    dry = dry
    None = None
    Users = {ann, kim}
    Adults = {ann}
    Chores = {c1, c2, c3, c4}
    Offers = {}
    Requests = {r1, r2, r3}
    Templates = {wash, dry}
    Recurring = {}
    FollowUps <- NoFollowUps
    Ops = {"submit", "external", "approve", "reject", "release", "start", "quickLog", "cancel", "snooze", "list"}
    Award = 2
    Penalty = 1
    Delta = 0
    Households <- OneChore
    MaxFailures = 1
SPECIFICATION Spec
INVARIANTS TypeOK PaidOncePerCompletion PointsAccountedFor
PROPERTIES ChildNeverCompletes KeepsPromises
