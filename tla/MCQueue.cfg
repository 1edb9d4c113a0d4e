SPECIFICATION Spec
CONSTANTS
    Items = {a, b}
    QLen = 3
    NoItem = NoItem
INVARIANTS TypeOK RingConsistent
PROPERTY FifoSpec
