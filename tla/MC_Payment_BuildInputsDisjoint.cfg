CONSTANTS
    o1 = o1
    o2 = o2
    a1 = a1
    n1 = n1
    n2 = n2
    srv = srv
    Orders = {o1, o2}
    OrderAccount <- MCOrderAccount
    PayAmount <- MCPayAmount
    Addresses = {a1}
    Accounts = {n1, n2}
    Cells = {1, 2, 3, 4, 5, 6}
    Cap <- MCCap
    Owner <- MCOwner
    Server = srv
    MinCellOccupiedCkb = 2
    MinCkbCapacity = 2
    MaxBuilds = 3
SPECIFICATION Spec
CHECK_DEADLOCK FALSE
INVARIANT BuildInputsDisjoint
