SPECIFICATION FairSpec
CONSTANTS
    Market = {vinted}
    Screen = {s1}
    Attempt = {a1, a2}
    Poll = {p1, p2}
    MaxChanges = 1
    MaxRestarts = 1
    Null = Null
PROPERTIES ConsoleCatchesUp SuccessLiftsTheError
CHECK_DEADLOCK FALSE
