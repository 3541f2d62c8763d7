CONSTANTS
    None = None
    Fees = {0, 50}
    Credits = {0, 200, 9999}
    TaxRate = 83
    Hours = {0, 1, 3}
    CrewSizes = {1, 3}
    Increments = {100, 500, 33}
    Services = {0, 333, 1000, 1167}
    Taxes = {0, 17, 28, 41, 83, 97}
    MaxLines = 3
    ann = ann
    bob = bob
    smith = smith
    jones = jones
    lee = lee
    s = s
    j = j
    l = l
    x = x
    MaxContacts = 2
    MaxTyped = 3
    MaxDepth = 4
    Runs = {ann, bob}
    Statements = 2
    MaxFiles = 3
    MaxStarts = 3
    Null = Null
    Schema <- MCSchema
    NonTenanted = {"permission"}
    BlacklistedTables = {"session"}
    Whitelist <- MCWhitelist
    Blacklist <- MCBlacklist
    Database <- MCDatabase
    Company = 1
    Tables <- MCTables
    Ons <- MCOns
    Wheres <- MCWheres
    Selects <- MCSelects
    Groups <- MCGroups
    Orders <- MCOrders
    Havings <- MCHavings
    MaxJoins = 1
    MaxWheres = 1
    MaxSelects = 1
    MaxCalls = 5
SPECIFICATION PartsSpec
INVARIANTS MoneyIsRight RowsAreFoundAndGrouped WhatIsAskedForIsChecked AnswersAreTheCompanys
    StatementsAreSafe NoMigrationIsSkipped
\* Every part may stop once its bound is reached.
CHECK_DEADLOCK FALSE
