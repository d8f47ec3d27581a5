\* Chunks of 8 nodes (16 system pages); requests of every kind: order 1, 2 and
\* 3, mapped below and above a chunk, a whole chunk, and the empty one.
CONSTANTS
    Page = {p1, p2, p3, p4}
    Area = {a1, a2}
    Chunk = {c1, c2}
    None = None
    MinOrder = 1
    MaxOrder = 4
    Span <- MCSpan
    Pages <- MCPages
    PageBytes = 4096
    Requests = {0, 1, 2, 3, 4, 5, 6, 7, 8, 9, 16, 17}
SPECIFICATION Spec
SYMMETRY Symmetry
INVARIANTS TypeOK LiveDisjoint TagsMatchLists Tiling Coalesced Reclaimed ChunkOwned
PROPERTIES StoreSpec AllocFits
