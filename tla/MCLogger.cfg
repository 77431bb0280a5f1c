SPECIFICATION Spec
CONSTANTS
    none = none
    acme = acme
    absent = absent
    Companies = {acme}
    NoCompany = none
    MaxLogFiles = 3
    CompanyFiles = 2
    InitLevels = {2}
    RecordLevels = {0, 5}
    SettableLevels = {6, 7}
    MaxLogTypes = 6
    DefaultLogLevel = 2
    NoValue = absent
    MaxDay = 5
INVARIANTS
    TypeOK
    RecordsReachTheirFile
    AtMostMaxFiles
PROPERTIES
    KeepsNewestFiles
