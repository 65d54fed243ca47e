CONSTANTS
    alice = alice
    bob = bob
    bot = bot
    north = north
    south = south
    Items = {i1}
    Subjects <- MCSubjects
    Tenants <- MCTenants
    NoSubject = NoSubject
    NoSource = NoSource
    Principals <- MCPrincipals
    MaxRevision = 8
SPECIFICATION Spec
VIEW LifecycleView
INVARIANT GateInvariant
PROPERTIES NoLostUpdate ClosedIsFinal DutySpec
