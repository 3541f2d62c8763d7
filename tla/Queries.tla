------------------------------- MODULE Queries -------------------------------
(***************************************************************************)
(* A SELECT from the typed builder to its rows: the stages of the builder  *)
(* (shared/sql_request/typed_query_builder.ts), the checks of the query's   *)
(* shape and names, the company filter that every query gets               *)
(* (make_tenanted_query.ts), its rendering as text with placeholders, and  *)
(* the rows that come back.  A query is JSON, and may come from a page     *)
(* (worker/server_functions/query.fns.ts) or from server code in or out of *)
(* a transaction.                                                          *)
(*                                                                         *)
(* Text is a sequence of tokens.  A comparison is one token; a placeholder *)
(* remembers the value it was written for, which the text itself does not.  *)
(* ORDER BY and LIMIT only reorder and cut what is answered, so the answer *)
(* is the set of rows before them.                                         *)
(***************************************************************************)
EXTENDS Integers, Sequences, FiniteSets, SequencesExt

CONSTANTS
    Schema,             \* table -> its columns
    NonTenanted,        \* tables without a company
    BlacklistedTables, Whitelist, Blacklist,
    Database,           \* table -> its rows
    Company,            \* the company that asks
    Tables,             \* tables a query may name, unknown ones too
    Ons, Wheres, Selects, Groups, Orders, Havings,  \* the expressions a caller may write
    MaxJoins, MaxWheres, MaxSelects, MaxCalls,   \* bounds on what one builder is asked, and all
    Null, None

VARIABLES
    stage,        \* the State of the builder, or None
    derived,      \* a query that was built before and may be used as a table, or None
    transaction,  \* of the connection that queries are run on: "none", or "active" and then "ended"
    sent,         \* what was sent to the database and came back, or None
    calls         \* of the builder's methods so far

vars == <<stage, derived, transaction, sent, calls>>

Column(table, column) == [is |-> "column", table |-> table, column |-> column]
Value(v) == [is |-> "value", value |-> v]
List(values) == [is |-> "array", values |-> values]
Call(name, arguments) == [is |-> "function", function |-> name, arguments |-> arguments]
AliasRef(alias) == [is |-> "alias", alias |-> alias]
Compare(left, comparator, right) ==
    [is |-> "comparison", left |-> left, comparator |-> comparator, right |-> right]
AllOf(expressions) == [is |-> "and", expressions |-> expressions]
AnyOf(expressions) == [is |-> "or", expressions |-> expressions]
IsGrouping(e) == e.is \in {"and", "or"}
IsDerived(source) == "subquery" \in DOMAIN source
Sources(query) == <<query.from>> \o query.joins
Aliases(query) == [i \in DOMAIN Sources(query) |-> Sources(query)[i].alias]

-----------------------------------------------------------------------------
(* The checks.                                                             *)

\* 'COUNT' takes no argument or one.
Arities == [COUNT |-> {0, 1}, MAX |-> {1}, IS_NULL |-> {1}, IFNULL |-> {2}]

RECURSIVE Operands(_)
\* Every operand that an expression, a select item or a clause holds.
Operands(e) ==
    CASE e.is \in {"and", "or"} -> UNION {Operands(e.expressions[i]) : i \in DOMAIN e.expressions}
      [] e.is = "comparison" -> Operands(e.left) \cup Operands(e.right)
      [] e.is = "function" -> {e} \cup UNION {Operands(e.arguments[i]) : i \in DOMAIN e.arguments}
      [] OTHER -> {e}

Clauses(query) ==
    ToSet(query.select) \cup ToSet(query.group_by) \cup ToSet(query.order_by)
    \cup UNION {ToSet(query.joins[i].on_clause) : i \in DOMAIN query.joins}
    \cup ToSet(query.where) \cup ToSet(query.having)
AllOperands(query) == UNION {Operands(e) : e \in Clauses(query)}

RECURSIVE WellShaped(_)
\* What the validator of the public endpoint demands beyond types.
WellShaped(query) ==
    /\ \A o \in AllOperands(query) : o.is = "array" => o.values # <<>>
    /\ \A i \in DOMAIN query.having : \A o \in Operands(query.having[i]) : o.is \in {"alias", "value"}
    /\ \A e \in ToSet(query.select) \cup ToSet(query.where) : \A o \in Operands(e) : o.is # "alias"
    /\ \A i \in DOMAIN Sources(query) :
         IsDerived(Sources(query)[i]) => WellShaped(Sources(query)[i].subquery)

RECURSIVE RequiresTransaction(_)
RequiresTransaction(query) ==
    \/ query.for_update
    \/ \E i \in DOMAIN Sources(query) :
         IsDerived(Sources(query)[i]) /\ RequiresTransaction(Sources(query)[i].subquery)

RECURSIVE NamesBlacklisted(_)
NamesBlacklisted(query) ==
    \E i \in DOMAIN Sources(query) :
       LET source == Sources(query)[i]
       IN  IF IsDerived(source) THEN NamesBlacklisted(source.subquery)
           ELSE source.table_name \in BlacklistedTables

\* The names of the columns that a SELECT puts out, in order.
SelectIdentifiers(select) ==
    [i \in DOMAIN select |-> IF select[i].is = "column" /\ select[i].alias = None
                             THEN select[i].column ELSE select[i].alias]

ReadableColumns(table) ==
    LET listed == IF table \in DOMAIN Whitelist THEN Whitelist[table] ELSE Schema[table]
        blocked == IF table \in DOMAIN Blacklist THEN Blacklist[table] ELSE {}
    IN  (Schema[table] \cap listed) \ blocked

SourceColumns(source) ==
    IF IsDerived(source) THEN ToSet(SelectIdentifiers(source.subquery.select))
    ELSE IF source.table_name \in DOMAIN Schema THEN ReadableColumns(source.table_name) ELSE {}

\* The last source of an alias is the one its columns are looked up in.
ColumnIsKnown(query, ref) ==
    LET named == {i \in DOMAIN Sources(query) : Sources(query)[i].alias = ref.table}
    IN  named # {} /\ ref.column \in SourceColumns(Sources(query)[Max(named)])

RECURSIVE NamesAreKnown(_)
NamesAreKnown(query) ==
    /\ \A i \in DOMAIN Sources(query) :
         LET source == Sources(query)[i]
         IN  IF IsDerived(source)
             THEN NamesAreKnown(source.subquery) /\ IsInjective(SelectIdentifiers(source.subquery.select))
             ELSE source.table_name \in DOMAIN Schema
    /\ \A o \in AllOperands(query) :
         /\ o.is = "column" => ColumnIsKnown(query, o)
         /\ o.is = "alias" => o.alias \in ToSet(SelectIdentifiers(query.select))
    /\ \A item \in ToSet(query.select) \cup ToSet(query.group_by) :
         item.is = "function" => item.table \in ToSet(Aliases(query))

\* A function that is given a number of arguments it has no text for throws.
RECURSIVE Renders(_)
Renders(query) ==
    /\ \A o \in AllOperands(query) : o.is = "function" => Len(o.arguments) \in Arities[o.function]
    /\ \A o \in AllOperands(query) : o.is = "array" => o.values # <<>>
    /\ \A i \in DOMAIN Sources(query) : IsDerived(Sources(query)[i]) => Renders(Sources(query)[i].subquery)

\* tenanted_query_builder throws, or the text cannot be made.
IsAccepted(query) == ~NamesBlacklisted(query) /\ NamesAreKnown(query) /\ Renders(query)

-----------------------------------------------------------------------------
(* The company filter.                                                     *)

Filter(source) == Compare(Column(source.alias, "company_id"), "=", Value(Company))
NeedsFilter(source) == ~IsDerived(source) /\ source.table_name \notin NonTenanted

RECURSIVE Tenanted(_)
TenantedSource(source) ==
    IF IsDerived(source) THEN [source EXCEPT !.subquery = Tenanted(@)] ELSE source
TenantedJoin(join) ==
    [TenantedSource(join) EXCEPT !.on_clause = IF NeedsFilter(join) THEN <<Filter(join)>> \o @ ELSE @]
\* (a mistake) the filter joins the expressions of the clause that is there
TenantedIntoClause(query) ==
    [query EXCEPT
       !.joins = [i \in DOMAIN @ |-> TenantedJoin(@[i])],
       !.where = IF ~NeedsFilter(query.from) THEN @
                 ELSE IF @ = <<>> THEN <<AllOf(<<Filter(query.from)>>)>>
                 ELSE <<[@[1] EXCEPT !.expressions = <<Filter(query.from)>> \o @]>>]

Tenanted(query) ==
    [query EXCEPT
       !.from = TenantedSource(@),
       !.joins = [i \in DOMAIN @ |-> TenantedJoin(@[i])],
       !.where = IF NeedsFilter(query.from) THEN <<AllOf(<<Filter(query.from)>> \o @)>> ELSE @]

-----------------------------------------------------------------------------
(* The text.                                                               *)

Chunk(sql, parameters) == [sql |-> sql, parameters |-> parameters]
Word(w) == [is |-> w]

RECURSIVE OperandChunk(_)
OperandChunk(o) ==
    CASE o.is = "value" -> Chunk(<<[is |-> "?", for |-> o.value]>>, <<o.value>>)
      [] o.is = "array" -> Chunk(<<[is |-> "?", for |-> o.values]>>, <<o.values>>)
      [] o.is = "function" ->
           LET arguments == [i \in DOMAIN o.arguments |-> OperandChunk(o.arguments[i])]
           IN  Chunk(<<Call(o.function, [i \in DOMAIN arguments |-> arguments[i].sql[1]])>>,
                     FlattenSeq([i \in DOMAIN arguments |-> arguments[i].parameters]))
      [] OTHER -> Chunk(<<o>>, <<>>)

ComparisonChunk(e) ==
    LET left == OperandChunk(e.left)
        right == OperandChunk(e.right)
    IN  Chunk(<<Compare(left.sql[1], e.comparator, right.sql[1])>>, left.parameters \o right.parameters)

MergeChunks(chunks, separator) ==
    Chunk(FlattenSeq([i \in DOMAIN chunks |-> (IF i > 1 THEN separator ELSE <<>>) \o chunks[i].sql]),
          FlattenSeq([i \in DOMAIN chunks |-> chunks[i].parameters]))

RECURSIVE BoolChunk(_)
\* A grouping inside of another one is put in parentheses, the outermost one is not.
GroupingChunk(e) == MergeChunks([i \in DOMAIN e.expressions |-> BoolChunk(e.expressions[i])], <<Word(e.is)>>)
BoolChunk(e) ==
    IF IsGrouping(e)
    THEN LET inner == GroupingChunk(e) IN Chunk(<<Word("(")>> \o inner.sql \o <<Word(")")>>, inner.parameters)
    ELSE IF e.is = "comparison" THEN ComparisonChunk(e) ELSE OperandChunk(e)

ListChunk(items) == MergeChunks([i \in DOMAIN items |-> BoolChunk(items[i])], <<Word(",")>>)
ClauseChunk(clause) == IF clause = <<>> THEN Chunk(<<>>, <<>>) ELSE GroupingChunk(clause[1])
OnChunk(on_clause) == MergeChunks([i \in DOMAIN on_clause |-> BoolChunk(on_clause[i])], <<Word("and")>>)

\* (a mistake) the values of the joins come after those of the WHERE clause
WhereBeforeJoins(select, from, joins, where, group_by, having, order_by) ==
    select \o from \o where \o joins \o group_by \o having \o order_by

\* The clauses in the order in which the text has them.
InTextOrder(select, from, joins, where, group_by, having, order_by) ==
    select \o from \o joins \o where \o group_by \o having \o order_by

RECURSIVE Statement(_)
SourceParameters(source) == IF IsDerived(source) THEN Statement(source.subquery).parameters ELSE <<>>
SourceText(source) == IF IsDerived(source) THEN Statement(source.subquery).text ELSE <<>>
Statement(query) ==
    LET select == [i \in DOMAIN query.select |-> BoolChunk(query.select[i])]
        ons == [i \in DOMAIN query.joins |-> OnChunk(query.joins[i].on_clause)]
        where == ClauseChunk(query.where)
        group_by == ListChunk(query.group_by)
        having == ClauseChunk(query.having)
        order_by == ListChunk(query.order_by)
        inner(source) == IF IsDerived(source) THEN <<Statement(source.subquery)>> ELSE <<>>
    IN  [query |-> query, from |-> inner(query.from),
         joins |-> [i \in DOMAIN ons |-> [statement |-> inner(query.joins[i]), on |-> ons[i].sql]],
         select |-> [i \in DOMAIN select |-> select[i].sql], where |-> where.sql,
         group_by |-> [i \in DOMAIN query.group_by |-> BoolChunk(query.group_by[i]).sql],
         having |-> having.sql,
         text |-> FlattenSeq([i \in DOMAIN select |-> select[i].sql]) \o SourceText(query.from)
                  \o FlattenSeq([i \in DOMAIN ons |-> SourceText(query.joins[i]) \o ons[i].sql])
                  \o where.sql \o group_by.sql \o having.sql \o order_by.sql,
         parameters |-> InTextOrder(
             FlattenSeq([i \in DOMAIN select |-> select[i].parameters]), SourceParameters(query.from),
             FlattenSeq([i \in DOMAIN ons |-> SourceParameters(query.joins[i]) \o ons[i].parameters]),
             where.parameters, group_by.parameters, having.parameters, order_by.parameters)]

RECURSIVE Placeholders(_)
\* The values that the placeholders of a token were written for, from left to right.
Placeholders(token) ==
    CASE token.is = "?" -> <<token.for>>
      [] token.is = "comparison" -> Placeholders(token.left) \o Placeholders(token.right)
      [] token.is = "function" ->
           FlattenSeq([i \in DOMAIN token.arguments |-> Placeholders(token.arguments[i])])
      [] OTHER -> <<>>

-----------------------------------------------------------------------------
(* What MySQL answers to a text.  AND binds more tightly than OR, NULL is   *)
(* neither true nor false, a LEFT JOIN keeps a row that has no match.      *)

Truth(v) == IF v = Null THEN Null ELSE IF v = 0 THEN 0 ELSE 1
Conjunction(vs) == IF 0 \in vs THEN 0 ELSE IF Null \in vs THEN Null ELSE 1
Disjunction(vs) == IF 1 \in vs THEN 1 ELSE IF Null \in vs THEN Null ELSE 0
Bit(b) == IF b THEN 1 ELSE 0

Comparison(comparator, l, r) ==
    IF comparator = "<=>" THEN Bit(l = r)
    ELSE IF l = Null \/ r = Null THEN Null
    ELSE CASE comparator = "=" -> Bit(l = r)
           [] comparator = "!=" -> Bit(l # r)
           [] comparator = "IN" -> Bit(l \in ToSet(r))
           [] comparator = "NOT IN" -> Bit(l \notin ToSet(r))

RECURSIVE TokenValue(_, _, _)
\* The value of a token over a group of joined rows, and of an alias in a row of the answer.
TokenValue(token, group, row) ==
    LET value(t, g) == TokenValue(t, g, row)
        of(i) == {value(token.arguments[i], {b}) : b \in group} \ {Null}
    IN  CASE token.is = "column" ->
               IF group = {} THEN Null ELSE (CHOOSE b \in group : TRUE)[token.table][token.column]
          [] token.is = "?" -> token.for
          [] token.is = "alias" -> row[token.alias]
          [] token.is = "comparison" ->
               Comparison(token.comparator, value(token.left, group), value(token.right, group))
          [] token.is = "function" ->
               CASE token.function = "COUNT" /\ token.arguments = <<>> -> Cardinality(group)
                 [] token.function = "COUNT" /\ token.arguments # <<>> ->
                      Cardinality({b \in group : value(token.arguments[1], {b}) # Null})
                 [] token.function = "MAX" -> IF of(1) = {} THEN Null ELSE Max(of(1))
                 [] token.function = "IS_NULL" -> Bit(value(token.arguments[1], group) = Null)
                 [] token.function = "IFNULL" ->
                      IF value(token.arguments[1], group) = Null THEN value(token.arguments[2], group)
                      ELSE value(token.arguments[1], group)

\* The tokens that are a given word and stand in no parentheses.
Outside(tokens, word) ==
    LET before(i, w) == Cardinality({j \in 1..(i - 1) : tokens[j].is = w})
    IN  {i \in DOMAIN tokens : tokens[i].is = word /\ before(i, "(") = before(i, ")")}
\* The pieces between them.
Pieces(tokens, cuts) ==
    {SubSeq(tokens, i + 1, Min({j \in cuts \cup {Len(tokens) + 1} : j > i}) - 1) : i \in cuts \cup {0}}

RECURSIVE TextValue(_, _, _)
TextValue(tokens, group, row) ==
    LET values(cuts) == {Truth(TextValue(piece, group, row)) : piece \in Pieces(tokens, cuts)}
    IN  IF Outside(tokens, "or") # {} THEN Disjunction(values(Outside(tokens, "or")))
        ELSE IF Outside(tokens, "and") # {} THEN Conjunction(values(Outside(tokens, "and")))
        ELSE IF tokens[1].is = "(" THEN TextValue(SubSeq(tokens, 2, Len(tokens) - 1), group, row)
        ELSE TokenValue(tokens[1], group, row)
Holds(tokens, group, row) == tokens = <<>> \/ Truth(TextValue(tokens, group, row)) = 1

Aggregates(query) == \E item \in ToSet(query.select) : \E o \in Operands(item) :
                        o.is = "function" /\ o.function \in {"COUNT", "MAX"}

RECURSIVE Answer(_, _)
\* The rows of a table or of a subquery, and the row that stands for no match.
RowsOf(source, inner, tables) ==
    IF ~IsDerived(source) THEN tables[source.table_name]
    ELSE {[c \in DOMAIN r.named \cup {"#"} |-> IF c = "#" THEN r.of ELSE r.named[c]] :
             r \in Answer(inner[1], tables)}
NoMatch(source) ==
    [c \in IF IsDerived(source) THEN ToSet(SelectIdentifiers(source.subquery.select)) \cup {"#"}
           ELSE Schema[source.table_name] |-> Null]
Answer(statement, tables) ==
    LET query == statement.query
        matches(binding, join, text) ==
            {b \in {binding @@ (join.alias :> r) : r \in RowsOf(join, text.statement, tables)} :
                Holds(text.on, {b}, <<>>)}
        joined[i \in 0..Len(query.joins)] ==
            IF i = 0 THEN {query.from.alias :> r : r \in RowsOf(query.from, statement.from, tables)}
            ELSE UNION {LET found == matches(b, query.joins[i], statement.joins[i])
                        IN  IF found = {} /\ query.joins[i].left
                            THEN {b @@ (query.joins[i].alias :> NoMatch(query.joins[i]))}
                            ELSE found : b \in joined[i - 1]}
        rows == {b \in joined[Len(query.joins)] : Holds(statement.where, {b}, <<>>)}
        key(b) == [i \in DOMAIN statement.group_by |-> TextValue(statement.group_by[i], {b}, <<>>)]
        groups == IF query.group_by # <<>> THEN {{b \in rows : key(b) = key(c)} : c \in rows}
                  ELSE IF Aggregates(query) THEN {rows}
                  ELSE {{b} : b \in rows}
        names == SelectIdentifiers(query.select)
        answered(g) ==
            LET values == [i \in DOMAIN names |-> TextValue(statement.select[i], g, <<>>)]
            IN  [of |-> g, values |-> values,
                 named |-> [n \in ToSet(names) |-> values[Max({i \in DOMAIN names : names[i] = n})]]]
    IN  {r \in {answered(g) : g \in groups} : Holds(statement.having, {}, r.named)}

-----------------------------------------------------------------------------
(* The builder, and what sends its queries.                                *)

Init == /\ stage = None /\ derived = None /\ sent = None /\ calls = 0
        /\ transaction \in {"none", "active"}

Building == stage # None /\ sent = None
Called == calls < MaxCalls /\ calls' = calls + 1
\* Whether a builder may write FOR UPDATE: it may when its connection was in a transaction as the
\* builder was made, which may then outlive the transaction.
Allows == CASE transaction = "none" -> {FALSE}
            [] transaction = "active" -> {TRUE}
            [] transaction = "ended" -> BOOLEAN

From(source, allows) ==
    /\ stage = None /\ sent = None /\ Called
    /\ IsDerived(source) => allows \/ ~RequiresTransaction(source.subquery)
    /\ stage' = [from |-> source, joins |-> <<>>, wheres |-> <<>>, selects |-> <<>>, group_bys |-> <<>>,
                 order_bys |-> <<>>, havings |-> <<>>, for_update |-> FALSE, allows |-> allows]
    /\ UNCHANGED <<derived, transaction, sent>>

Join(source, on, left) ==
    /\ Building /\ Len(stage.joins) < MaxJoins /\ Called
    /\ IsDerived(source) => stage.allows \/ ~RequiresTransaction(source.subquery)
    /\ stage' = [stage EXCEPT !.joins = Append(@, source @@ [on_clause |-> <<on>>, left |-> left])]
    /\ UNCHANGED <<derived, transaction, sent>>

\* where, select, group_by, order_by and having append to the lists of the stage.
Add(list, item) ==
    /\ Building /\ Called
    /\ stage' = [stage EXCEPT ![list] = Append(@, item)]
    /\ UNCHANGED <<derived, transaction, sent>>
Where(e) == Building /\ Len(stage.wheres) < MaxWheres /\ Add("wheres", e)
Select(item) == Building /\ Len(stage.selects) < MaxSelects /\ Add("selects", item)
GroupBy(column) == Building /\ stage.group_bys = <<>> /\ Add("group_bys", column)
OrderBy(o) == Building /\ stage.order_bys = <<>> /\ Add("order_bys", o)
Having(e) == Building /\ stage.havings = <<>> /\ Add("havings", e)

ForUpdate ==
    /\ Building /\ stage.allows /\ ~stage.for_update /\ Called
    /\ stage' = [stage EXCEPT !.for_update = TRUE]
    /\ UNCHANGED <<derived, transaction, sent>>

\* Several expressions become one AND, a lone grouping stands for itself.
Clause(expressions) ==
    IF expressions = <<>> THEN <<>>
    ELSE IF Len(expressions) = 1 /\ IsGrouping(expressions[1]) THEN expressions
    ELSE <<AllOf(expressions)>>

Build ==
    [select |-> stage.selects, from |-> stage.from, joins |-> stage.joins, where |-> Clause(stage.wheres),
     group_by |-> stage.group_bys, order_by |-> stage.order_bys, having |-> Clause(stage.havings),
     for_update |-> stage.for_update]

\* A query that is built is used as a table of the next one.
UseAsTable ==
    /\ Building /\ stage.selects # <<>> /\ derived = None
    /\ derived' = Build /\ stage' = None
    /\ UNCHANGED <<transaction, sent, calls>>

\* The connection of a transaction refuses all once it has ended: what is left is the plain one.
EndTransaction ==
    /\ transaction = "active" /\ sent = None
    /\ transaction' = "ended"
    /\ UNCHANGED <<stage, derived, sent, calls>>

\* Each column of a row under the table and the name that its item gives it.
ResponseColumns == [i \in DOMAIN stage.selects |-> [table |-> stage.selects[i].table,
                                                    name |-> SelectIdentifiers(stage.selects)[i]]]
PositionalRowToNamed(columns, values) ==
    [t \in {columns[i].table : i \in DOMAIN columns} |->
       [n \in {columns[i].name : i \in {j \in DOMAIN columns : columns[j].table = t}} |->
          values[Max({i \in DOMAIN columns : columns[i] = [table |-> t, name |-> n]})]]]

\* The statement that is sent, with its values, and what comes back.
Execute(query) ==
    LET statement == Statement(Tenanted(query))
        rows == IF IsInjective(Aliases(query)) THEN Answer(statement, Database) ELSE {}
    IN  [query |-> query, text |-> statement.text, parameters |-> statement.parameters,
         rows |-> rows, transaction |-> transaction,
         named |-> {PositionalRowToNamed(ResponseColumns, r.values) : r \in rows}]

\* Server code runs a query on its connection.
MayRun(query) == RequiresTransaction(query) => transaction = "active"
Send ==
    /\ Building /\ stage.selects # <<>>
    /\ MayRun(Build) /\ IsAccepted(Build)
    /\ sent' = Execute(Build)
    /\ UNCHANGED <<stage, derived, transaction, calls>>

\* A page sends it to the endpoint, whose connection is in no transaction.
SendFromPage ==
    /\ Building /\ stage.selects # <<>> /\ transaction # "active"
    /\ WellShaped(Build) /\ ~RequiresTransaction(Build) /\ IsAccepted(Build)
    /\ sent' = Execute(Build)
    /\ UNCHANGED <<stage, derived, transaction, calls>>

TableSources(alias) ==
    {[table_name |-> t, alias |-> alias] : t \in Tables}
    \cup IF derived = None THEN {} ELSE {[subquery |-> derived, alias |-> alias]}

Next ==
    \/ \E source \in TableSources("a"), allows \in Allows : From(source, allows)
    \/ \E source \in TableSources("b"), on \in Ons, left \in BOOLEAN : Join(source, on, left)
    \/ \E e \in Wheres : Where(e)
    \/ \E item \in Selects : Select(item)
    \/ \E column \in Groups : GroupBy(column)
    \/ \E o \in Orders : OrderBy(o)
    \/ \E e \in Havings : Having(e)
    \/ ForUpdate \/ UseAsTable \/ EndTransaction \/ Send \/ SendFromPage

Spec == Init /\ [][Next]_vars

-----------------------------------------------------------------------------
(* Properties.                                                             *)

Executed == sent # None

(* Whatever is asked, and however tables, subqueries, LEFT JOINs and ORs   *)
(* are combined, the answer is what the query as it was written would give *)
(* on a database that holds nothing but the rows of the company.           *)
Own == [t \in DOMAIN Database |->
          IF t \in NonTenanted THEN Database[t] ELSE {r \in Database[t] : r.company_id = Company}]
AnswersAreTheCompanys ==
    Executed /\ IsInjective(Aliases(sent.query))
    => sent.rows = Answer(Statement(sent.query), Own)

(* The values that are sent with a text are those its placeholders were     *)
(* written for, in their order, subqueries and the filters that are added   *)
(* included: a value that slips by one place is compared to another column. *)
PlaceholdersGetTheirValues ==
    Executed => sent.parameters = FlattenSeq([i \in DOMAIN sent.text |-> Placeholders(sent.text[i])])

(* No column that is sent for, in whatever clause and however deep in a     *)
(* subquery, is one of those that queries must not read.                   *)
RECURSIVE Reads(_)
Reads(query) ==
    LET tables(alias) == {i \in DOMAIN Sources(query) : Sources(query)[i].alias = alias}
        base == {i \in DOMAIN Sources(query) : ~IsDerived(Sources(query)[i])}
    IN  UNION {Reads(Sources(query)[i].subquery) : i \in DOMAIN Sources(query) \ base}
        \cup {<<Sources(query)[i].table_name, o.column>> :
                 <<i, o>> \in {<<i, o>> \in base \X {o \in AllOperands(query) : o.is = "column"} :
                                  i \in tables(o.table)}}
NothingForbiddenIsRead ==
    Executed => \A read \in Reads(sent.query) :
                   read[1] \notin BlacklistedTables /\ read[2] \in ReadableColumns(read[1])

(* Rows are only locked inside of a transaction that is still running: a    *)
(* FOR UPDATE anywhere in a query that was built in a transaction does not  *)
(* outlive it.                                                             *)
RECURSIVE Locks(_)
Locks(query) ==
    query.for_update \/ \E i \in DOMAIN Sources(query) :
                           IsDerived(Sources(query)[i]) /\ Locks(Sources(query)[i].subquery)
LocksOnlyInTransactions == Executed /\ Locks(sent.query) => sent.transaction = "active"
=============================================================================
