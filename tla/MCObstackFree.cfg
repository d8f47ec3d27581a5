\* The client frees an object that is the first of the second chunk.
CONSTANTS
    Page = {1, 2, 3, 4}
    From <- MCFrom
    To <- MCTo
    Header = 2
    Align = 2
    Slack = 1
    Size = {0, 1, 3}
    MaxObjects = 3
SPECIFICATION Spec
INVARIANT FreeFinds
