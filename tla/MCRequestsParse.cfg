SPECIFICATION Spec
CONSTANTS
    Devices = {d1, d2}
    Admins = {a1, a2}
    Ids = {i1, i2}
    Amounts = {1, 2}
    Limit = 2
    Day = 2
    Funds = 2
    MaxAttempts = 2
    MaxNow = 2
    MaxCredit = 0
INVARIANTS
    RequestsParse
