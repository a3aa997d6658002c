SPECIFICATION Spec
CONSTANTS
    Task = {t1, t2, t3}
    Null = Null
    MaxBuffer = 2
    MaxEvents = 3
    MaxSessions = 3
    MaxChanges = 4
INVARIANTS EventsAreConserved HeldSessionIsOpen
CHECK_DEADLOCK FALSE
