SPECIFICATION Spec
CONSTANTS
    Conns = {c1}
PROPERTIES
    HonoursContract
CHECK_DEADLOCK FALSE
