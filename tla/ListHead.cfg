SPECIFICATION Spec
CONSTANTS
    Heads = {h1, h2}
    Nodes = {n1, n2, n3, n4}
    Poison = poison
INVARIANT Mutual
PROPERTY AreLists
