\* Two buckets of three elements at first instead of 32 of ten.
SPECIFICATION Spec
CONSTANTS
    Elem = {1, 2, 3, 4, 5, 6, 7}
    KeyOf <- MCKeyOf
    Hash <- MCHash
    Rank <- MCRank
    HASH_INITIAL_NUM_BUCKETS = 2
    HASH_BKT_CAPACITY_THRESH = 3
    MaxRemovals = 2
INVARIANTS
    HASH_FSCK
    ChainsBounded
    FindsItem
PROPERTIES
    ImplementsMap
