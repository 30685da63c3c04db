CONSTANTS
    ann = ann
    kim = kim
    phone = phone
    timer = timer
    admin = admin
    request = request
    b1 = b1
    b2 = b2
    dishes = dishes
    dinner = dinner
    h1 = h1
    h2 = h2
    v1 = v1
    v2 = v2
    None = None
    NoOne = NoOne
    Members = {ann, kim}
    Parents = {ann}
    Devices = {phone}
    MonthlyLimit = 9
    MailWorks = TRUE
    Callers = {timer, admin}
    Endpoints = {request}
    MaxFaults = 1
    Limit = 1
    Policies = {TRUE, FALSE}
    MaxNotes = 2
    MaxRetries = 1
    Blocks = {b1, b2}
    Chores = {dishes}
    Bookings = {dinner}
    Askers = {h1, h2}
    LastDay = 2
    Viewers = {v1, v2}
    LastPeriod = 3
    MaxEarned = 1
    Scenes <- ServerScenes
    i1 = i1
    i2 = i2
    i3 = i3
    i4 = i4
    t1 = t1
    t2 = t2
    t3 = t3
    e1 = e1
    e2 = e2
    e3 = e3
    bob = bob
    s1 = s1
    p1 = p1
    p2 = p2
    mailHost = mailHost
    laundry = laundry
    ironing = ironing
    sweep = sweep
    mop = mop
    Clients = {1, 2, 3}
    Plans <- SomePlans
    TTL = 1
    Window = 1
    LastTick = 3
    People = {ann, kim, bob}
    Identities = {i1, i2, i3, i4}
    Tokens = {t1, t2, t3}
    Emails = {e1, e2, e3}
    Subjects = {s1}
    Passwords = {p1, p2}
    Hosts = {mailHost}
    Untested = Untested
    ForceLocal = FALSE
    Patches <- SomePatches
    Catalog = {laundry, ironing}
    Chains <- LaundryChain
    MaxTemplates = 6
    Editors = {1, 2, 3}
    Selections <- AnySelection
    Doers = {ann, kim}
    Tasks = {sweep, mop}
    Approvals = {1, 2, 3}
    Grown = {ann}
    Level1 = 1
    Level2 = 2
    Goal = 2
    Family = {ann, kim}
    Young = {kim}
    Nobody = Nobody
    MaxRev = 2
    MaxOffice = 1
    MaxRefreshes = 2
    Crew = {ann, kim, bob}
    Minors = {kim}
    Alphabet <- ByName
    NoneOfThem = NoneOfThem
    MaxTurns = 4
    OwnPoints = 2
    ErrandPoints = 3
    Months <- FourMonths
    Horizon = 180
    Steps = {1, 20}
    Profiles <- SomeProfiles
    Sessions = {1, 2}
    MaxLoads = 1
    Kids = {kim}
    Offered = {"skip_a_chore"}
    NewTerms <- Looser
    MaxWishes = 3
    LastDate = 2
    Spans = {1}
SPECIFICATION ServerSpec
INVARIANTS
    ServerTypeOK
    OneNoticePerTopic
    
    PlanRecent
    OldTokensDie
    SameSubjectSamePerson
    OwnRulesResolve
    PerfectDayNotMissed
    
    BoardFollows
    ShownFilesOpen
    TakesTurns
    EvenShares
    SweepSettles
    OnTheGrid
    EndsAsTold
    OneLoadAtATime
    FollowUpsComeUp
    
PROPERTIES
    KeepsAWayIn
    MembersVersionKept
    Cadence
