----------------------------- MODULE Validators -----------------------------
(***************************************************************************)
(* What the program checks before it uses it.                               *)
(*                                                                         *)
(* json_validator.ts: validators are composed of smaller ones, and each has *)
(* two functions, one that says whether a value is valid and one that says  *)
(* why it is not.  A behaviour (Init, Next) builds a validator and a value  *)
(* together.  They are trees, so the definitions are recursive.             *)
(*                                                                         *)
(* param_validator.ts: the parameters of a page's address are cast to what  *)
(* the page says that it takes, before its resolve function sees them       *)
(* (client/index.ts).  A behaviour (ParamsInit, ParamsNext) is an address   *)
(* that gets its parameters.                                               *)
(***************************************************************************)
EXTENDS Integers, Sequences, FiniteSets, SequencesExt, TLC

CONSTANTS
    Keys,      \* property names
    MaxDepth,  \* bound on the steps of the composition
    Names,     \* the names of parameters
    Shapes,    \* per name that a page takes: [cast, optional]
    Given      \* what a parameter may be given as: a string, or a sequence of strings

VARIABLES
    validator, value, depth,
    shape,                             \* what the page takes
    throw_on_invalid_optional_values,
    allow_non_specified_values,
    parameters                         \* what it is given: a function of some names

\* Values.  "word" and "digits" are strings, "fraction" and "integer" are numbers.
Leaves == {"word", "digits", "fraction", "integer", "bigint", "true", "date", "null", "undefined"}
Leaf(name) == [is |-> "leaf", of |-> name]
Undefined == Leaf("undefined")
\* To JavaScript an array and a date are objects too; the keys of an array are its indexes.
IsObject(v) == v.is # "leaf" \/ v.of = "date"
IndexName == <<"0", "1", "2">>
KeysOf(v) == IF v.is = "object" THEN DOMAIN v.of
             ELSE IF v.is = "array" THEN {IndexName[i] : i \in DOMAIN v.of} ELSE {}
Get(v, key) == IF key \notin KeysOf(v) THEN Undefined
               ELSE IF v.is = "object" THEN v.of[key] ELSE v.of[CHOOSE i \in DOMAIN v.of : IndexName[i] = key]

\* The validators of single values, with what they take and with what they have nothing to say of.
Accepts == [is_string |-> {"word", "digits"}, is_number |-> {"fraction", "integer"}, is_integer |-> {"integer"},
            is_bigint |-> {"bigint"}, is_boolean |-> {"true"}, is_date |-> {"date"}, is_null |-> {"null"},
            is_undefined |-> {"undefined"}, regex |-> {"digits"}, exact |-> {"word"}]
Excuses == [Accepts EXCEPT !.is_integer = Accepts.is_number]
Takes(table, w, v) == v.is = "leaf" /\ v.of \in table[w.of]

Single(name) == [is |-> "single", of |-> name]
optional(w) == [is |-> "one_of", of |-> <<w, Single("is_undefined")>>]
nullable(w) == [is |-> "one_of", of |-> <<w, Single("is_null")>>]

RECURSIVE IsValid(_, _)
IsValid(w, v) ==
    CASE w.is = "single" -> Takes(Accepts, w, v)
      [] w.is = "object" -> /\ IsObject(v) /\ KeysOf(v) \subseteq DOMAIN w.of
                            /\ \A key \in DOMAIN w.of : IsValid(w.of[key], Get(v, key))
      [] w.is = "array" -> v.is = "array" /\ \A i \in DOMAIN v.of : IsValid(w.of, v.of[i])
      [] w.is = "object_values" -> IsObject(v) /\ \A key \in KeysOf(v) : IsValid(w.of, Get(v, key))
      [] w.is = "one_of" -> \E i \in DOMAIN w.of : IsValid(w.of[i], v)

\* (a mistake) Nothing is said of properties that the shape has not.
NoSurplus(described, v) == {}
\* keys_that_dont_exist_in_shape.
Surplus(described, v) == KeysOf(v) \ DOMAIN described

\* get_messages: the paths that something is said of.
RECURSIVE Messages(_, _, _)
Messages(w, v, path) ==
    CASE w.is = "single" -> IF Takes(Excuses, w, v) THEN {} ELSE {path}
      [] w.is = "object" -> IF ~IsObject(v) THEN {path}
            ELSE {Append(path, key) : key \in Surplus(w.of, v)}
                 \cup UNION {Messages(w.of[key], Get(v, key), Append(path, key)) : key \in DOMAIN w.of}
      [] w.is = "array" -> IF v.is # "array" THEN {path}
            ELSE UNION {Messages(w.of, v.of[i], Append(path, IndexName[i])) : i \in DOMAIN v.of}
      [] w.is = "object_values" -> IF ~IsObject(v) THEN {path}
            ELSE UNION {Messages(w.of, Get(v, key), Append(path, key)) :
                            key \in {k \in KeysOf(v) : ~IsValid(w.of, Get(v, k))}}
      [] w.is = "one_of" -> IF IsValid(w, v) THEN {} ELSE {path}

-----------------------------------------------------------------------------

Steps == depth < MaxDepth /\ depth' = depth + 1

\* Both are put into an object, an array, or the values of an object, ...
PutUnder(key) ==
    /\ Steps
    /\ validator' = [is |-> "object", of |-> (key :> validator)]
    /\ value' = [is |-> "object", of |-> (key :> value)]
PutIntoArray ==
    /\ Steps
    /\ validator' = [is |-> "array", of |-> validator]
    /\ value' = [is |-> "array", of |-> <<value>>]
PutAmongValues(key) ==
    /\ Steps
    /\ validator' = [is |-> "object_values", of |-> validator]
    /\ value' = [is |-> "object", of |-> (key :> value)]
\* ... the value gets another element or property, or loses all, ...
Add(key, leaf) ==
    /\ Steps /\ UNCHANGED validator
    /\ CASE value.is = "object" -> value' = [value EXCEPT !.of = (key :> Leaf(leaf)) @@ @]
         [] value.is = "array" -> Len(value.of) < Len(IndexName) /\ value' = [value EXCEPT !.of = Append(@, Leaf(leaf))]
         [] OTHER -> value' = [is |-> "array", of |-> <<>>]
Replace(leaf) == Steps /\ UNCHANGED validator /\ value' = Leaf(leaf)
\* ... and the validator gets another property or another choice.
AddToShape(key, name) ==
    /\ Steps /\ UNCHANGED value /\ validator.is = "object"
    /\ validator' = [validator EXCEPT !.of = (key :> Single(name)) @@ @]
Optional == Steps /\ UNCHANGED value /\ validator' = optional(validator)
Nullable == Steps /\ UNCHANGED value /\ validator' = nullable(validator)

Init ==
    /\ \E name \in DOMAIN Accepts : validator = Single(name)
    /\ \E leaf \in Leaves : value = Leaf(leaf)
    /\ depth = 0
\* What is added is one of a few values and validators.
Next ==
    \/ \E key \in Keys :
        \/ PutUnder(key) \/ PutAmongValues(key)
        \/ \E leaf \in {"word", "undefined"} : Add(key, leaf)
        \/ \E name \in {"is_string", "is_null"} : AddToShape(key, name)
    \/ PutIntoArray \/ Optional \/ Nullable
    \/ \E leaf \in {"null", "undefined", "date"} : Replace(leaf)

\* A value is refused exactly when there is a reason to tell the caller, at any depth of the
\* composition (call_server_function joins the messages into its answer).  It is not so for
\* is_integer, whose reason is is_number's: a fraction is refused without one.
RECURSIVE HasInteger(_)
HasInteger(w) ==
    CASE w.is = "single" -> w.of = "is_integer"
      [] w.is \in {"object", "one_of"} -> \E key \in DOMAIN w.of : HasInteger(w.of[key])
      [] OTHER -> HasInteger(w.of)
EveryRefusalIsExplained ==
    HasInteger(validator) \/ (IsValid(validator, value) <=> Messages(validator, value, <<>>) = {})

-----------------------------------------------------------------------------
(* The parameters of a page.                                               *)

\* The strings that each cast of a single string takes: parseInt reads the digits that come first.
Casts == [integer |-> {"12", "12x", "1", "1.50"}, bigint |-> {"12", "1"}, boolean |-> {"true", "1"},
          string |-> {"12", "12x", "1", "1.50", "true", "word"}, one_of |-> {"word"}, regex |-> {"word"},
          fnum |-> {"1.50"}]
IsArray(input) == input.is = "array"

\* What the casts throw for: nothing was given, an array was, or a string that they do not take.
Throws(cast, given, input) ==
    IF ~given THEN ~cast.optional
    ELSE IF cast.array THEN \E s \in (IF IsArray(input) THEN ToSet(input.of) ELSE {input.of}) : s \notin Casts[cast.to]
    ELSE IsArray(input) \/ input.of \notin Casts[cast.to]
ThrowsFor(name) == Throws(shape[name], name \in DOMAIN parameters, parameters[name])

\* can_ignore_errors.
CanIgnoreErrors(cast) == ~throw_on_invalid_optional_values /\ cast.optional

Refused == \E name \in DOMAIN shape : ThrowsFor(name) /\ ~CanIgnoreErrors(shape[name])
\* The names that the page gets a value for: those that were cast, and the others if it takes them.
Validated ==
    {name \in DOMAIN shape : name \in DOMAIN parameters /\ ~ThrowsFor(name)}
    \cup (IF allow_non_specified_values THEN DOMAIN parameters \ DOMAIN shape ELSE {})

Give(name, input) ==
    /\ name \notin DOMAIN parameters
    /\ parameters' = parameters @@ (name :> input)
    /\ UNCHANGED <<shape, throw_on_invalid_optional_values, allow_non_specified_values>>

ParamsInit ==
    /\ shape \in Shapes
    /\ throw_on_invalid_optional_values \in BOOLEAN /\ allow_non_specified_values \in BOOLEAN
    /\ parameters = <<>>
ParamsNext == \E name \in Names, input \in Given : Give(name, input)

\* A page that is resolved gets every parameter that it requires, cast, whatever else was given
\* wrongly; and it is refused only for a parameter that is missing or wrong, an optional one only
\* if it asked for that (make_validator).
Good(cast, input) == ToSet(IF IsArray(input) THEN input.of ELSE <<input.of>>) \subseteq Casts[cast.to]
                     /\ (IsArray(input) => cast.array)
ResolvedPagesGetTheirParameters ==
    LET Right(name) == name \in DOMAIN parameters /\ Good(shape[name], parameters[name])
        Required == {name \in DOMAIN shape : ~shape[name].optional}
        Wrong == {name \in DOMAIN shape \cap DOMAIN parameters : ~Right(name)}
    IN  /\ ~Refused => (\A name \in Required : Right(name)) /\ Required \subseteq Validated /\ Validated \cap Wrong = {}
        /\ Refused => \/ \E name \in Required : ~Right(name)
                      \/ throw_on_invalid_optional_values /\ Wrong # {}
        /\ Validated \ DOMAIN shape # {} => allow_non_specified_values
=============================================================================
