SPECIFICATION Spec
CONSTANTS
    c1 = c1  c2 = c2  t1 = t1  t2 = t2  u1 = u1  v = v
    n1 = n1  n2 = n2  n3 = n3
    p1 = p1  p2 = p2  s1 = s1  s2 = s2  q1 = q1  q2 = q2
    Catalogs = {c1, c2}
    UserSecrets = {s1, s2}
    Unnamed = Unnamed
    Regional = {s1, s2}
    Options <- MCOptions
    Defaults <- MCDefaults
    Overrides <- MCOverrides
    NoPrefix = NoPrefix
    MaxTime = 1
    Lifetime = 1
    TokenLifetimes = {1}
    MaxFailures = 1
    Connections = {q1, q2}
    Tables = {t1, t2, u1, v}
    CatalogOf <- MCCatalogOf
    SchemaOf <- MCSchemaOf
    NameOf <- MCNameOf
    Location <- MCLocation
    Files <- MCFiles
    Lower <- MCLower
    Metadata = "metadata"
    Root <- MCRoot
    Delegations <- MCDelegations
    Queries <- MCQueries
    NoKeys = NoKeys
    NoTable = NoTable
    MaxQueries = 2
SYMMETRY MCSymmetry
INVARIANTS TypeOK ScanAuthorized 
CHECK_DEADLOCK FALSE
