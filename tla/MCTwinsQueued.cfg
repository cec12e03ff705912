\* A request for an instance of another raid.
SPECIFICATION Spec
CONSTANTS
    Ids = {q, n}
    AQ40 = {q}
    Bugs = {b1, b2}
    Doors = {entrance, exit}
    Catalogued = TRUE
    NoRequest = none
INVARIANTS QueuedIsAQ40
