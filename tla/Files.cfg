SPECIFICATION Spec
CONSTANTS
    NClusters = 4
    Bytes = 2
    Names = {f, g}
    NSlots = 3
    MaxSize = 3
    Foreign <- MCForeign
    Spares <- MCSpares
INVARIANTS OneOwner Accounted HintFree ReadsBack FoundIsThere ListsThem
