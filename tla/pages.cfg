CONSTANTS
    None = None
    Blank = Blank
    t1 = t1
    Texts = {t1}
    Items = {1, 2}
    Prices <- MCPrices
    Documents = 2
    MaxEdits = 2
    MaxSaves = 2
    MaxLost = 1
    MaxElsewhere = 1
    Contacts <- MCContacts
    AddressOwners <- MCAddressOwners
    ContactOwners <- MCContactOwners
    MaxRecords = 4
    FirstClients = 2
    MaxInputs = 2
    MaxStrokes = 2
    MaxPhotos = 2
    MaxFailures = 1
    HomeDays = 1
    ExpireDays = 1
    YearDays = 1
    LastDay = 3
    MaxProjects = 2
    MaxMoves = 3
    Employees = {ann, founder}
    Founders = {founder}
    Tabs = {first_tab, second_tab}
    MaxRequests = 4
    MaxSessions = 2
    NumberFields <- MCFields
    Numbers <- MCNumbers
    MaxTyped = 3
    Dates <- MCDates
    MonthLength <- MCMonthLength
    FirstWeekday <- MCFirstWeekday
    Datas <- MCDatas
    Words <- MCWords
    Includes <- MCIncludes
    Equals <- MCEquals
    oak = oak
    elm = elm
    ash = ash
    a_tree = a_tree
    an_ash = an_ash
    MaxEvents = 3
    k1 = k1
    k2 = k2
    v1 = v1
    v2 = v2
    Companies = {1, 2}
    RowKeys = {k1, k2}
    RowLists <- MCRows
    Values = {v1, v2}
    BatchSizes = {1, 2}
    MaxWrites = 3
    Callbacks <- MCCallbacks
    MaxCallbacks = 2
SPECIFICATION MCSpec
INVARIANTS DocumentHistoryIsTheProjects CleanFormIsStored LeadsAreOneClients PicturesShowTheirStrokes
    PipelineIsTrue LoggedOutIsOut LoggingInOpensTheApp FieldsShowTheirValues
PROPERTIES ClosingStoresTheForm OptionsArePickedAsShown WritesAreOwnAndComplete
\* Every page may be left alone once its bounds are reached.
CHECK_DEADLOCK FALSE
