CONSTANTS
    ann = ann
    kim = kim
    phone = phone
    timer = timer
    admin = admin
    request = request
    b1 = b1
    b2 = b2
    dishes = dishes
    dinner = dinner
    h1 = h1
    h2 = h2
    v1 = v1
    v2 = v2
    None = None
    NoOne = NoOne
    Members = {ann, kim}
    Parents = {ann}
    Devices = {phone}
    MonthlyLimit = 9
    MailWorks = TRUE
    Callers = {timer, admin}
    Endpoints = {request}
    MaxFaults = 1
    Limit = 1
    Policies = {TRUE, FALSE}
    MaxNotes = 2
    MaxRetries = 1
    Blocks = {b1, b2}
    Chores = {dishes}
    Bookings = {dinner}
    Askers = {h1, h2}
    LastDay = 2
    Viewers = {v1, v2}
    LastPeriod = 3
    MaxEarned = 1
    Scenes <- DeliveryScenes
SPECIFICATION FairSpec
INVARIANTS
    EverySendAccounted
    FreshBoard
PROPERTIES
    ServedAfresh
    QueueDrains
