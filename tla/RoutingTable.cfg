SPECIFICATION Spec
CONSTANTS
    p1 = p1
    g1 = g1
    Nil = Nil
    Processes = {p1}
    Guids = {g1}
    Routes = {r1}
    NetInfos = {n1, n2}
    Domains = {d1}
    Epochs = {e1}
    TagIndexes = {1, 2}
    InstanceCounts = {1, 2}
    Keys <- OneKey
    ProcessOf <- MCProcessOf
    IndexOf <- MCIndexOf
INVARIANTS TypeOK NoStaleRegistration NoMissingRegistration
PROPERTIES RegistrySpec SwapKeepsUnfreshRegistrations NoRollback
SYMMETRY NetInfoSymmetry
