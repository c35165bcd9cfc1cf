CONSTANTS
    first = first
    second = second
    Starts = {first, second}
    max_restarts = 2
    stop1 = stop1
    stop2 = stop2
    Stops = {stop1, stop2}
SPECIFICATION Spec
CHECK_DEADLOCK FALSE
INVARIANT
    StopHolds
