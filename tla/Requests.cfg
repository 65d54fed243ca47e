CONSTANTS
    a1 = a1
    m1 = m1
    p1 = p1
    org = org
    own1 = own1
    own2 = own2
    foreign = foreign
    w1 = w1
    w2 = w2
    b1 = b1
    b2 = b2
    contributor = contributor
    approver = approver
    sysadmin = sysadmin
    NoPassword = NoPassword
    Users <- MCUsers
    DirectAdministrators <- MCDirect
    TeamAdministrators = {}
    Passwords <- MCPasswords
    OwnProjects <- MCOwn
    OtherProjects <- MCOther
    ProjectRoleIDs <- MCProjectRoles
    OtherRoleIDs <- MCOtherRoles
    Bindings <- MCBindings
    Tenant = org
    Operations <- MCOperations
    permissionOf <- MCPermissionOf
    requires <- MCRequires
    requiredScope <- MCRequiredScope
    Listing = {}
    Searching <- MCSearching
    projectOf <- MCProjectOf
    SystemAdministrator = sysadmin
    roleGrants <- MCRoleGrants
    AskedFor <- MCAskedFor
    MaxRevision = 2
    MaxPrepared = 1
    MaxRoleCalls = 2
    MaxRequests = 1
SPECIFICATION MCSpec
CONSTRAINT Small
SYMMETRY symmetry
CHECK_DEADLOCK FALSE
INVARIANT RequestsInvariant
PROPERTIES BindingsOnlyGrow AdmittedWasEntitled
