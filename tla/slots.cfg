CONSTANTS
    User = {u1, u2}
    MaxSlots = 2
    a1 = a1
    a2 = a2
    Address = {a1, a2}
    PortOf <- TwoPorts
    Freed = Freed
    Options <- SomeOptions
    MaxStarts = 3
    MaxFinishes = 1
SPECIFICATION Spec
INVARIANTS
    SlotIsOwn
    ThreadIsOwn
    NobodyWaitsInVain
\* the calls are used up, or two of them have met
CHECK_DEADLOCK FALSE
