\* Requests, recoveries, fights, loads and restarts.
SPECIFICATION Spec
CONSTANTS
    Ids = {q, n}
    AQ40 = {q}
    Bugs = {b1, b2}
    Doors = {entrance, exit}
    Catalogued = TRUE
    NoRequest = none
INVARIANTS StopsOnlyForSlow WaitsForLoad
PROPERTIES FightsUntouched CompletedIsWhole
