CONSTANTS
    Items = {i1, i2, i3}
    Nodes = {i1, i2, i3}
    Projects = {p1, p2}
    Plans = {r1}
    Titles = {t1, t2, t3}
    Kinds = {k1}
    Boards = {b1}
    None = None
SYMMETRY Symmetry
CONSTRAINT FewRecords
SPECIFICATION MCSpec
INVARIANT Acyclic
