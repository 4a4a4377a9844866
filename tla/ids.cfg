SPECIFICATION Spec
CONSTANTS
    c1 = c1  c2 = c2  f1 = f1
    Calls = {c1, c2}
    MaxSeq = 1
    MaxLost = 2
    Fields = {f1}
SYMMETRY Symmetric
INVARIANTS SequenceTypeOK UniqueIds DeliversOwn
