SPECIFICATION StateSpec
CONSTANT MaxLag = 2
INVARIANTS NoneStuck OnlyPresses LampFollows
