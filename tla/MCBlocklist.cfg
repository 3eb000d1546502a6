CONSTANTS
    Addresses = {a1, a2, a3, a4}
    Owner = owner
    Callers = {owner, other}
    MaxBatch = 3
SYMMETRY AddressSymmetry
SPECIFICATION Spec
INVARIANTS
    QueryExact
PROPERTY
    ImplementsAddressSet
