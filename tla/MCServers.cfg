SPECIFICATION ServersSpec
CONSTANTS
    Conns = {c1, c2, c3}
    Runs = {r1, r2}
    MaxStops = 3
INVARIANTS
    ReturnedMeansDrained
    NoStopLost
PROPERTIES
    HeardStopEnds
    BlockingHonoursContract
