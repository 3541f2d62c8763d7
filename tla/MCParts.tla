------------------------------ MODULE MCParts ------------------------------
(***************************************************************************)
(* The calculations and the helpers of the program side by side: a          *)
(* behaviour is one of the prices, of a search by name, of the grouping of  *)
(* rows, of the validators, of the migrations, or of Queries, what a        *)
(* company reads.                                                          *)
(***************************************************************************)
EXTENDS Migrations, Sequences

CONSTANTS
    None,                                                   \* a field without a value
    Fees, Credits, TaxRate, Hours, CrewSizes, Increments, Services, Taxes, MaxLines,  \* of Prices
    ann, bob,                                               \* of Migrations
    smith, jones, lee, s, j, l, x, MaxContacts, MaxTyped,           \* of NameSearch
    MaxDepth,                                               \* of Validators
    Null, Schema, NonTenanted, BlacklistedTables, Whitelist, Blacklist, Database, Company, Tables,  \* of Queries
    Ons, Wheres, Selects, Groups, Orders, Havings, MaxJoins, MaxWheres, MaxSelects, MaxCalls
VARIABLES
    side,
    sheet,  \* of Prices
    \* of NameSearch, Grouping and Validators
    search, tree, rows, validator, validated, depth,
    shape, throw_on_invalid_optional_values, allow_non_specified_values, parameters,
    \* of Queries
    stage, derived, transaction, sent, calls

-----------------------------------------------------------------------------
(* The values.                                                             *)

Line(quantity, price, discount, rate, taxable, declined) ==
    [quantity |-> quantity, price |-> price, discount |-> discount, discount_rate |-> rate,
     taxable |-> taxable, client_declined |-> declined]
MCLineItems ==
    {Line(10, 333, None, None, TRUE, FALSE), Line(25, 333, None, None, FALSE, FALSE),
     Line(10, 1000, None, None, TRUE, TRUE), Line(10, 1000, 100, None, TRUE, FALSE),
     Line(25, 105, None, 150, TRUE, FALSE), Line(10, -400, None, None, TRUE, FALSE),
     Line(10, -400, None, None, FALSE, FALSE)}
MCDiscounts == {<<None, None>>, <<100, None>>, <<5000, None>>, <<None, 105>>}
MCWorkSkills == {[hourly_rate |-> r, count |-> n] : r \in {5000, 7533}, n \in {1, 2}}
MCRatios == <<50, 83>>

MCStartsWith == {<<smith, s>>, <<jones, j>>, <<lee, l>>}
MCNames == {{smith}, {jones}, {lee, jones}}

MCTrees ==
    LET Of(contacts, addresses) == [contacts |-> contacts, addresses |-> addresses] IN
    {<<Of({1, 2}, {1, 2}), Of({}, {})>>, <<Of({1}, {}), Of({2, 3}, {1})>>}

MCShapes ==
    LET Cast(to, array, optional) == [to |-> to, array |-> array, optional |-> optional] IN
    {[id |-> Cast("bigint", FALSE, FALSE), tab |-> one] :
        one \in {Cast("one_of", FALSE, TRUE), Cast("integer", FALSE, FALSE), Cast("boolean", FALSE, TRUE),
                 Cast("bigint", TRUE, TRUE), Cast("string", FALSE, FALSE), Cast("fnum", FALSE, TRUE)}}
MCGiven == {[is |-> "string", of |-> word] : word \in {"12", "12x", "1.50", "true", "word"}}
           \cup {[is |-> "array", of |-> words] : words \in {<<>>, <<"12">>, <<"1", "word">>}}

-----------------------------------------------------------------------------

A == INSTANCE Prices WITH LineItems <- MCLineItems, Discounts <- MCDiscounts, WorkSkills <- MCWorkSkills,
        Ratios <- MCRatios
N == INSTANCE NameSearch WITH Names <- MCNames, Typed <- {s, j, l, x}, StartsWith <- MCStartsWith, Nobody <- None
G == INSTANCE Grouping WITH Trees <- MCTrees, Null <- None
V == INSTANCE Validators WITH Keys <- {"a", "b"}, value <- validated,
        Names <- {"id", "tab", "other"}, Shapes <- MCShapes, Given <- MCGiven
Q == INSTANCE Queries
ASSUME StatementsAssumption == MigrationsAssumption

of_prices == <<sheet>>
of_names == <<search>>
of_groups == <<tree, rows>>
of_validators == <<validator, validated, depth>>
of_params == <<shape, throw_on_invalid_optional_values, allow_non_specified_values, parameters>>
of_migrations == <<files, noted, done, run, starts>>
of_queries == <<stage, derived, transaction, sent, calls>>

\* The parts that a behaviour is not about have no value.
NoPrices == sheet = None
NoNames == search = None
NoGroups == tree = None /\ rows = None
NoValidators == validator = None /\ validated = None /\ depth = None
NoParams ==
    /\ shape = None /\ throw_on_invalid_optional_values = None /\ allow_non_specified_values = None
    /\ parameters = None
NoQueries == stage = None /\ derived = None /\ transaction = None /\ sent = None /\ calls = 0
NoMigrations == files = 0 /\ noted = {} /\ done = {} /\ run = [r \in Runs |-> Idle] /\ starts = 0

PartsInit ==
    /\ side \in {"prices", "names", "groups", "validators", "params", "migrations", "reads"}
    /\ IF side = "prices" THEN A!Init ELSE NoPrices
    /\ IF side = "names" THEN N!Init ELSE NoNames
    /\ IF side = "groups" THEN G!Init ELSE NoGroups
    /\ IF side = "validators" THEN V!Init ELSE NoValidators
    /\ IF side = "params" THEN V!ParamsInit ELSE NoParams
    /\ IF side = "migrations" THEN Init ELSE NoMigrations
    /\ IF side = "reads" THEN Q!Init ELSE NoQueries

PartsNext ==
    /\ UNCHANGED side
    /\ IF side = "prices" THEN A!Next ELSE UNCHANGED of_prices
    /\ IF side = "names" THEN N!Next ELSE UNCHANGED of_names
    /\ IF side = "groups" THEN G!Next ELSE UNCHANGED of_groups
    /\ IF side = "validators" THEN V!Next ELSE UNCHANGED of_validators
    /\ IF side = "params" THEN V!ParamsNext ELSE UNCHANGED of_params
    /\ IF side = "migrations" THEN Next ELSE UNCHANGED of_migrations
    /\ IF side = "reads" THEN Q!Next ELSE UNCHANGED of_queries
PartsSpec == PartsInit /\ [][PartsNext]_<<of_prices, of_names, of_groups, of_validators, of_params,
                                         of_migrations, of_queries, side>>

\* The properties of the parts are stated in their modules; each is about the behaviours of its part.
\* NoMigrationIsSkipped, of Migrations, holds of the others too, which have no files.
\* Stated in Prices: the invoice of what was accepted comes to what the estimate came to, nothing
\* is paid twice, an imported invoice keeps the tax that it had and an imported project its totals
\* and its rate, and the price of hours of work is the nearest multiple of the increment.
MoneyIsRight ==
    side = "prices" => /\ A!InvoiceOfAnEstimateIsItsTotal /\ A!NothingIsPaidTwice /\ A!ImportedTaxIsReproduced
                       /\ A!PriceIsTheNearestMultiple /\ A!ImportedProjectKeepsItsTotals
\* Stated in NameSearch and Grouping: a client is found by its name and the names of its contacts,
\* and the rows of a join become the tree that they were joined from.
RowsAreFoundAndGrouped ==
    /\ side = "names" => N!ClientIsFoundByItsPeople
    /\ side = "groups" => G!GroupedIsTheTree
\* Stated in Validators: there is a reason for every value that is refused, and a page
\* gets the parameters that it requires and is refused for nothing else.
WhatIsAskedForIsChecked ==
    /\ side = "validators" => V!EveryRefusalIsExplained
    /\ side = "params" => V!ResolvedPagesGetTheirParameters

\* Stated in Queries: a query is answered with rows of the company that asks alone.
AnswersAreTheCompanys == side = "reads" => Q!AnswersAreTheCompanys
\* Stated in Queries: values go to their placeholders, nothing forbidden is read, and nothing is
\* locked but in a transaction.
StatementsAreSafe ==
    side = "reads" => Q!PlaceholdersGetTheirValues /\ Q!NothingForbiddenIsRead /\ Q!LocksOnlyInTransactions

-----------------------------------------------------------------------------
(* A small schema, its rows, and the expressions that callers write.       *)

MCSchema == [client |-> {"k", "company_id"}, contact |-> {"k", "company_id", "photo"},
             permission |-> {"k"}, session |-> {"k", "company_id"}]
\* Company 1 asks.  Its client 2 has no contact, and each company has a client 1.
MCDatabase ==
    [client |-> {[k |-> 1, company_id |-> 1], [k |-> 2, company_id |-> 1], [k |-> 1, company_id |-> 2]},
     contact |-> {[k |-> 1, company_id |-> 1, photo |-> 7], [k |-> 1, company_id |-> 2, photo |-> 8],
                  [k |-> 2, company_id |-> 2, photo |-> 9]},
     permission |-> {[k |-> 1]}, session |-> {}]
MCTables == {"client", "contact", "permission", "session"}
MCWhitelist == [contact |-> {"k", "company_id"}]
MCBlacklist == [client |-> {}]

\* The nodes that the builder's callers write, as in Queries.
Of(source, column) == [is |-> "column", table |-> source, column |-> column]
Given(v) == [is |-> "value", value |-> v]
Alias(alias) == [is |-> "alias", alias |-> alias]
Compare(left, comparator, right) ==
    [is |-> "comparison", left |-> left, comparator |-> comparator, right |-> right]
Either(expressions) == [is |-> "or", expressions |-> expressions]
Item(source, column, alias) == [is |-> "column", table |-> source, column |-> column, alias |-> alias]
Called(function, arguments) == [is |-> "function", function |-> function, arguments |-> arguments]
Counted == [is |-> "function", function |-> "COUNT", arguments |-> <<>>, table |-> "a", alias |-> "n"]

MCOns == {Either(<<Compare(Of("a", "k"), "=", Of("b", "k")), Compare(Of("a", "k"), "=", Given(2))>>)}
MCWheres == {Either(<<Compare(Of("a", "k"), "=", Given(1)), Compare(Of("a", "company_id"), "!=", Given(1))>>),
             Compare(Called("IS_NULL", <<Of("b", "k")>>), "=", Given(1)),
             Compare(Of("a", "k"), "IN", [is |-> "array", values |-> <<1, 2>>])}
MCSelects == {Item("a", "k", None), Item("b", "k", "n"), Item("b", "photo", None), Counted}
MCGroups == {Item("a", "k", None)}
MCOrders == {Of("b", "photo"), Alias("n")}
MCHavings == {Compare(Alias("n"), "!=", Given(1))}
=============================================================================
