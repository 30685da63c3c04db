CONSTANTS
    ann = ann
    kim = kim
    tom = tom
    w1 = w1
    w2 = w2
    b1 = b1
    b2 = b2
    b3 = b3
    b4 = b4
    b5 = b5
    d1 = d1
    d2 = d2
    r1 = r1
    r2 = r2
    r3 = r3
    None = None
    Members = {ann, kim, tom}
    Adults = {ann}
    Rewards = {w1, w2}
    Bookings = {b1, b2, b3, b4}
    Dates = {d1, d2}
    Forms <- Menu
    Approvals = {TRUE, FALSE}
    Requests = {r1, r2, r3}
    Ops = {"redeem", "approve", "reject", "move", "create", "update", "toggle", "delete", "import"}
    Shops <- Starts
SPECIFICATION Spec
INVARIANTS TypeOK PaidExactly LedgerAgrees
SYMMETRY Alike
