\* Three slots, an emission inside another, and slots connected anew.
CONSTANTS
    Entry = {s1, s2, s3}
    Anchor = Anchor
    Closure = {c1, c2}
    None = None
    MaxDepth = 2
    MaxConnects = 4
SPECIFICATION Spec
SYMMETRY Symmetry
INVARIANTS Held Delivered LostByOwnSlot
CHECK_DEADLOCK FALSE
