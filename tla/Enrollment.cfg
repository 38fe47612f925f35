\* Two machines, one of which may start from an image of the other and be
\* enrolled by hand.
CONSTANTS
    Machine = {m1, m2}
    Answering = {m1, m2}
    Imaged = {m1, m2}
    Paired = {}
    Manned = {m2}
    Nobody = Nobody
    MaxOn = 2
    MaxByHand = 1
SPECIFICATION Spec
INVARIANTS
    TypeOK
    NoTakeover
