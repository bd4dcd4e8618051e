SPECIFICATION Spec
CONSTANTS
    Readers = {r1, r2}
    Identities = {i1}
    Generations = {g1, g2}
    Tokens = {t1, t2}
    NoGeneration = NoGeneration
    NoToken = NoToken
    NoVersion = NoVersion
    MaxVersion = 1
INVARIANT
    NoStaleAnswer
PROPERTY
    EntryNeverRegresses
SYMMETRY ReaderSymmetry
