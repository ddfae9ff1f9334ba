SPECIFICATION FairSpec
CONSTANTS
    p1 = p1
    g1 = g1
    Nil = Nil
    Gone = Gone
    Processes = {p1}
    Guids = {g1}
    Routes = {r1}
    NetInfos = {n1}
    Domains = {d1}
    InstanceCounts = {1}
    Keys <- OneKey
    ProcessOf <- MCProcessOf
    IndexOf <- MCIndexOf
    Epochs <- MCEpochs
    TagIndexes <- MCTagIndexes
    LocalMode = FALSE
    Routables = {"yes", "no"}
    Suspects = {FALSE}
    MaxChanges = 2
    MaxDisconnects = 1
    MaxRestarts = 0
    MaxFailures = 1
INVARIANT RoutersMirrorTable
PROPERTIES SyncInstallsAnswer WantedPairsRegistered DeadInstancesUnregistered StaleRoutesUnregistered
