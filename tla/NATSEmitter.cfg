SPECIFICATION FairSpec
CONSTANTS
    Callers = {handler, sender}
    Sender = sender
    Workers = {w1, w2}
    Registrations = {reg}
    Unregistrations = {unreg}
    InternalRegistrations = {ireg}
    InternalUnregistrations = {iunreg}
    EmitInternalRoutes = TRUE
    None = None
INVARIANT TypeOK
PROPERTIES EmissionSpec EmitReturns
