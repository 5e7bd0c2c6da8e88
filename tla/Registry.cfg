SPECIFICATION Spec
CONSTANTS
    NoOwner = NoOwner
    None = None
    Names = {n1, n2, n3, n4, n5}
    Given <- ThreeKinds
    MaxTools = 5
SYMMETRY AnyName
INVARIANTS
    RegistryTypeOK
    RegistryMemory
    NamesUnique
PROPERTIES
    AddsOrNothing
