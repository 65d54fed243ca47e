CONSTANTS
    s1 = s1
    s2 = s2
    c1 = c1
    c2 = c2
    c3 = c3
    g1 = g1
    g2 = g2
    org = org
    own1 = own1
    own2 = own2
    w1 = w1
    NoCredential = NoCredential
    Accounts <- MCAccounts
    Credentials <- MCCredentials
    Grants <- MCGrants
    Grantable <- MCGrantable
    Tenant = org
    Operations <- MCOperations
    permissionOf <- MCPermissionOf
    requires <- MCRequires
    requiredScope <- MCRequiredScope
    Listing <- MCListing
    Searching = {}
    Owned <- MCOwned
    projectOf <- MCProjectOf
    Configured <- MCConfigured
    MaxTime = 1
    MaxPending = 3
    MaxRequests = 1
SPECIFICATION MCSpec
CONSTRAINT Small
SYMMETRY symmetry
CHECK_DEADLOCK FALSE
INVARIANT RequestsInvariant
PROPERTIES DeadStaysDead AdmittedWasEntitled
