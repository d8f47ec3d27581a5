\* Seven elements, enough for every case of insert and erase_color, recolouring
\* up to the root included; 3 and 4 have the same key.
CONSTANTS
    Node = {1, 2, 3, 4, 5, 6, 7}
    Null = 0
    Shared = 3
    KeyOf <- MCKeyOf
SPECIFICATION Spec
INVARIANTS RedBlack EndsRemembered NoneSkipped
PROPERTIES OrderedSpec
