CONSTANTS
    Rings = {r1, r2}
    Torches = {t}
    Lasts = 2
    None = none
SPECIFICATION Spec
INVARIANTS Counted LastsAsLong
PROPERTIES OnlyWornGo WornOut
