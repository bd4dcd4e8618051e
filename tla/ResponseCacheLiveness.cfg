SPECIFICATION FairSpec
CONSTANTS
    Readers = {r1}
    Identities = {i1}
    Generations = {g1, g2}
    Tokens = {t1, t2}
    NoGeneration = NoGeneration
    NoToken = NoToken
    NoVersion = NoVersion
    MaxVersion = 2
PROPERTIES
    EveryRequestEnds
    StalenessEnds
