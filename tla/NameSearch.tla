----------------------------- MODULE NameSearch -----------------------------
(***************************************************************************)
(* The search for a client by name, client_name_search.ts: what is typed    *)
(* may name the client and one of its contacts at once.  A behaviour is a   *)
(* client that gets its contacts and a search that gets its words.          *)
(***************************************************************************)
EXTENDS Integers, Sequences, FiniteSets, SequencesExt, FiniteSetsExt

CONSTANTS
    Names,       \* the sets of words that a client or a contact may be named with
    Typed,       \* the words that may be typed
    StartsWith,  \* <<word, typed>>: the word starts with what was typed
    Nobody,
    MaxContacts, MaxTyped  \* bounds

VARIABLE search
\* [client_name, contacts, input]: a contact's place is its sort.

matches_token(index_tokens, input_token) == \E t \in index_tokens : <<t, input_token>> \in StartsWith
count_matching_tokens(input, index_tokens) ==
    Cardinality({i \in DOMAIN input : matches_token(index_tokens, input[i])})

AllTokens(s) == s.client_name \cup UNION ToSet(s.contacts)
ContactOnly(s) == {t \in ToSet(s.input) : ~matches_token(s.client_name, t)}

\* (a mistake) One of the words is enough.
AnyContact(s) == {c \in DOMAIN s.contacts :
    ContactOnly(s) = {} \/ \E t \in ContactOnly(s) : matches_token(s.contacts[c], t)}
\* The contacts that have all the words which the client's own name has not.
MatchingContacts(s) == {c \in DOMAIN s.contacts : \A t \in ContactOnly(s) : matches_token(s.contacts[c], t)}

\* ranked: the most words, and then the first place.
Ranks(s, c) == count_matching_tokens(s.input, s.contacts[c])
Ranked(s, found) == Min({c \in found : \A d \in found : Ranks(s, c) >= Ranks(s, d)})

\* search_clients_by_name for one client: nothing, or the contact (or nobody) that it is found with.
SearchClient(s) ==
    IF s.input = <<>> \/ \E t \in ToSet(s.input) : ~matches_token(AllTokens(s), t) THEN {}
    ELSE IF MatchingContacts(s) = {} THEN IF ContactOnly(s) = {} THEN {Nobody} ELSE {}
    ELSE {Ranked(s, MatchingContacts(s))}

AddContact(words) ==
    /\ Len(search.contacts) < MaxContacts
    /\ search' = [search EXCEPT !.contacts = Append(@, words)]
\* tokenize_string: upper and lower case and the blanks between words make no difference.
TypeWord(t) ==
    /\ Len(search.input) < MaxTyped
    /\ search' = [search EXCEPT !.input = Append(@, t)]

Init == \E words \in Names : search = [client_name |-> words, contacts |-> <<>>, input |-> <<>>]
Next == (\E words \in Names : AddContact(words)) \/ (\E t \in Typed : TypeWord(t))

\* A client is found exactly when somebody can be greeted for it: its name together with one
\* contact, or by itself, has every word that was typed; and no contact of which this is true has
\* more of the words, or as many and an earlier place, than the one it is found with
\* (search_clients_by_name).
Greeted(s, c) == \A t \in ToSet(s.input) : matches_token(s.client_name \cup (IF c = Nobody THEN {} ELSE s.contacts[c]), t)
ClientIsFoundByItsPeople ==
    LET found == SearchClient(search)
        people == {c \in DOMAIN search.contacts : Greeted(search, c)}
    IN  /\ found = {} <=> search.input = <<>> \/ (people = {} /\ ~Greeted(search, Nobody))
        /\ \A c \in found : IF people = {} THEN c = Nobody
             ELSE c \in people /\ \A d \in people :
                 \/ Ranks(search, d) < Ranks(search, c)
                 \/ Ranks(search, d) = Ranks(search, c) /\ d >= c
=============================================================================
