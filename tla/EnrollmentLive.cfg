\* One machine that runs: m1, new and with two units that may enroll side by
\* side, or m2, new or made from an image of m1.  Their identity sources may
\* fail to answer.
CONSTANTS
    Machine = {m1, m2}
    Answering = {}
    Imaged = {m2}
    Paired = {m1}
    Manned = {}
    Nobody = Nobody
    MaxOn = 1
    MaxByHand = 0
SPECIFICATION FairSpec
PROPERTY Heals
