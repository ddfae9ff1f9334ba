SPECIFICATION Spec
CONSTANTS
    p1 = p1
    g1 = g1
    n1 = n1
    Nil = Nil
    Processes = {p1}
    Guids = {g1}
    Routes = {r1, r2}
    NetInfos = {n1}
    Domains = {d1}
    Epochs = {e1}
    TagIndexes = {1, 2}
    InstanceCounts = {1}
    Routables = {"yes"}
    Suspects = {FALSE}
    Keys <- OneKey
    ProcessOf <- MCProcessOf
    IndexOf <- MCIndexOf
    UriOf <- MCUriOf
    NetOf <- MCNetOf
PROPERTIES UpdatesKeepCacheApart FreshSyncSparesPairs
SYMMETRY RouteSymmetry
