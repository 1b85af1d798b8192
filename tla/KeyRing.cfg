SPECIFICATION Spec
CONSTANTS
    NSlots = 3
    Codes = {k1, k2, k3, k4, k5}
    NoCode = none
INVARIANTS OnceOnly NoneAhead
PROPERTIES NeverDeaf KeepsPromise
