SPECIFICATION FairSpec
CONSTANTS
    p1 = p1
    g1 = g1
    Nil = Nil
    Gone = Gone
    Processes = {p1}
    Guids = {g1}
    Routes = {r1}
    NetInfos = {n1}
    Domains = {d1}
    InstanceCounts = {1}
    Keys <- OneKey
    ProcessOf <- MCProcessOf
    IndexOf <- MCIndexOf
    Epochs <- MCEpochs
    TagIndexes <- MCTagIndexes
    LocalMode = TRUE
    Routables = {"yes", "no"}
    Suspects = {FALSE, TRUE}
    MaxChanges = 2
    MaxDisconnects = 1
    MaxRestarts = 1
    MaxFailures = 0
INVARIANT TypeOK
PROPERTIES WantedPairsRegistered DeadInstancesUnregistered
