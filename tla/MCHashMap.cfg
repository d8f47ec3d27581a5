\* Five elements, two of one key, and every size from two lists to eight.
CONSTANTS
    e1 = e1
    e2 = e2
    e3 = e3
    e4 = e4
    e5 = e5
    Elem <- MCElem
    Null = Null
    Slot <- MCSlot
    KeyOf <- MCKeyOf
    HashOf <- MCHashOf
    Sizes <- MCSizes
    MinOrder = 1
    MaxOrder = 3
SPECIFICATION HashSpec
INVARIANTS Chained OnlyGrownLost
PROPERTY Iterated
