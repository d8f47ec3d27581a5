\* Two pages of 4 cells and one of 8; objects and strings that fit, just fit, and
\* need another page.
CONSTANTS
    Pool = {p1, p2}
    Handler = {h1, h2}
    None = None
    SmallPage = {s1, s2}
    LargePage = large
    Page <- MCPage
    Cap <- MCCap
    MinSize = 4
    Unit = 2
    Header = 1
    Stub = 1
    MinString = 2
    Size = {1, 3}
    Length = {3, 5}
    MaxUses = 2
SPECIFICATION Spec
SYMMETRY Symmetry
INVARIANTS TypeOK PagesOwned RoomiestNext
PROPERTIES ArenaSpec
