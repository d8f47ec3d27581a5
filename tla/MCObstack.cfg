\* Pages in which an object of three cells fits, moves and fills a page, with room
\* for three chunks on the first.  Nothing is a step after a free that went wrong.
CONSTANTS
    Page = {1, 2, 3, 4}
    From <- MCFrom
    To <- MCTo
    Header = 2
    Align = 2
    Slack = 1
    Size = {0, 1, 3}
    MaxObjects = 3
SPECIFICATION Spec
CHECK_DEADLOCK FALSE
INVARIANTS GrowsInside ObjectsHeld ChunksUsed
PROPERTIES StackSpec
