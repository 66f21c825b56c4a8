SPECIFICATION Spec
CONSTANTS
    d1 = d1 d2 = d2 d3 = d3 j1 = j1 j2 = j2 root = root shop = shop phone1 = phone1 phone2 = phone2
    pw1 = pw1 pw2 = pw2 main = main annex = annex code1 = code1
    Core = {"stores", "orders"}
    Later = {"users"}
    Deployers = {d1, d2, d3}
    None = None
    Nothing = Nothing
    StoreIds = {main, annex}
    Codes = {code1}
    Names = {root, shop}
    Phones = {phone1, phone2}
    Secrets = {pw1, pw2}
    Own = own
    Configs <- MCConfigs
    Jobs = {j1, j2}
    MaxPeople = 1
    Databases0 <- MCDatabases
    Environments <- MCEnvironments
    Primary = main
INVARIANTS
    DeploymentsRecover
    
    SeedIsSound
    InstallationResumes
PROPERTIES
    IdentitiesAreKept
    StopEnds
CHECK_DEADLOCK FALSE
