CONSTANTS
    n1 = n1  v1 = v1  v2 = v2  c1 = c1  c2 = c2
    Nil = Nil
    NotFound = NotFound
    Names <- MCNames
    Versions <- MCVersions
    Clients <- MCClients
    MaxObjs = 4
SPECIFICATION Spec
INVARIANT TypeOK
PROPERTY CacheRefinement
