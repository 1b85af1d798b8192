SPECIFICATION Spec
CONSTANTS
    BUFFER_SIZE = 5
    ROW_LEN = 2
    COLUMN_LEN = 8
    CLUSTER = 3
    Plain = {"x"}
    Command = {"q", "w", "!"}
    InstMax = 3
    Files <- MCFiles
    LINE = 3
    Letters = {"v", "c"}
    PROMPT = 1
    TIME_COL = 7
    VGA_CHAR_MAX_COL = 10
INVARIANTS EndsInLine CursorShown LineShown
PROPERTIES SavedReloads ArgumentTyped
