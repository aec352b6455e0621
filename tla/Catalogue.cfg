\* Two requests, three videos, two titles, two genres.
SPECIFICATION Spec
CONSTANTS
    Videos = {v1, v2, v3}
    Titles = {t1, t2}
    Genres = {g1, g2}
    Names = {n1, n2}
    Requests = {r1, r2}
SYMMETRY Symmetry
INVARIANTS
    TypeOK
    TitleBound
    GenreKeysHold
CHECK_DEADLOCK FALSE
