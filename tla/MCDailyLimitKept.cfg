SPECIFICATION Spec
CONSTANTS
    Devices = {d1}
    Admins = {a1}
    Ids = {i1, i2, i3}
    Amounts = {1, 2}
    Limit = 3
    Day = 2
    Funds = 5
    MaxAttempts = 2
    MaxNow = 1
    MaxCredit = 0
INVARIANTS
    DailyLimitKept
