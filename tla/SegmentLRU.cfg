CONSTANTS
    Nodes = {n1, n2}
    None = None
    Sizes = {0, 1, 3}
    maxLruSize = 2
SPECIFICATION Spec
PROPERTY CleanupEnds
