SPECIFICATION Spec
CONSTANTS
    p1 = p1
    g1 = g1
    Nil = Nil
    Gone = Gone
    Processes = {p1}
    Guids = {g1}
    Routes = {r1}
    NetInfos = {n1}
    Domains = {d1}
    InstanceCounts = {1}
    Keys <- OneKey
    ProcessOf <- MCProcessOf
    IndexOf <- MCIndexOf
    Epochs <- MCEpochs
    TagIndexes <- MCTagIndexes
    LocalMode = FALSE
    Routables = {"yes"}
    Suspects = {FALSE}
    MaxChanges = 3
    MaxDisconnects = 0
    MaxRestarts = 0
    MaxFailures = 0

PROPERTY RemovalSparesNewerRoutes
