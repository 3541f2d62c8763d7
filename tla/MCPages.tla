------------------------------- MODULE MCPages -------------------------------
(***************************************************************************)
(* Pages and what they stand on, side by side: a behaviour is one of        *)
(* EstimatePage, of ClientForm, of LeadForm, of PhotoMarkup, of the lists   *)
(* of Pipeline, of Sessions, the tabs of a browser, of an input of a form,  *)
(* or of Writes or Transactions, what the server functions do for a page    *)
(* on their connections.                                                   *)
(***************************************************************************)
EXTENDS EstimatePage

CONSTANTS t1, Texts, Blank, Contacts, AddressOwners, ContactOwners, MaxRecords, FirstClients, MaxInputs,
          MaxStrokes, MaxPhotos, MaxFailures,
          HomeDays, ExpireDays, YearDays, LastDay, MaxProjects, MaxMoves,  \* of Pipeline
          Employees, Founders, Tabs, MaxRequests, MaxSessions,             \* of Sessions
          NumberFields, Numbers, MaxTyped,                                \* of NumberField
          Dates, MonthLength, FirstWeekday,                               \* of DateRange
          Datas, Words, Includes, Equals, MaxEvents,                      \* of DropdownSearch
          oak, elm, ash, a_tree, an_ash,                                  \* its items and words
          Companies, RowKeys, Values, RowLists, BatchSizes, MaxWrites, k1, k2, v1, v2,  \* of Writes
          Callbacks, MaxCallbacks                                         \* of Transactions
VARIABLES
    side,
    \* of ClientForm
    records, rows, focused_row_key, ids_in_db, client_save, client_contacts, referenced, last_id,
    client_saves, client_lost,
    \* of LeadForm
    client, address, contact, selected_client, different, contact_draft, billing_address, billing_draft,
    lead_save, refused, clients, addresses, contacts, projects, lead_saves, inputs,
    \* of PhotoMarkup
    photo_page, item, image, going, strokes, drawing, overlay, save, items, images, last_stroke, failures,
    \* of Pipeline
    today, listed, document_history, seen, moves,
    \* of Sessions
    registered, sessions, cookie, requests, tab_page, shown, promise, resolving, started, result,
    submits, trouble, out,
    \* of NumberField
    field, value, text, focused, typed,
    \* of DateRange
    start, end, down, mouseover, visible, pressed,
    \* of DropdownSearch
    keeps, data, search_text, selected_option, active_option_index, show_dropdown,
    should_look_like_a_select, saved_search_text, focus, pressed_item, picked, events,
    \* of Writes
    table, settings, last_row_id, writes, begun,
    \* of Transactions
    callbacks, phase, outcome, stages, branches, active, queue, connected, open, written, committed

Lead(document, estimated, over, dated, days) ==
    [document |-> document, estimated |-> estimated, over |-> over, dated |-> dated, days |-> days]
MCLeads ==
    {Lead("unqualified", FALSE, FALSE, TRUE, <<1, 1, 1>>), Lead("qualified", FALSE, FALSE, FALSE, <<1, 1, 1>>),
     Lead("proposal", TRUE, FALSE, TRUE, <<1, 1, 1>>), Lead("proposal", TRUE, FALSE, FALSE, <<1, 1, 1>>),
     Lead("proposal", TRUE, TRUE, TRUE, <<1, 2, 2>>), Lead("declined", TRUE, TRUE, TRUE, <<1, 1, 2>>),
     Lead("void", FALSE, TRUE, TRUE, <<1, 1, 2>>), Lead("work order", FALSE, FALSE, TRUE, <<1, 1, 1>>),
     Lead("work order", TRUE, TRUE, TRUE, <<1, 1, 2>>)}
C == INSTANCE ClientForm WITH FirstContacts <- Contacts, pending <- client_save,
        contacts <- client_contacts, saves <- client_saves, lost <- client_lost
L == INSTANCE LeadForm WITH FirstAddresses <- AddressOwners, FirstContacts <- ContactOwners,
        pending <- lead_save, saves <- lead_saves
P == INSTANCE PhotoMarkup WITH page <- photo_page, history <- strokes
W == INSTANCE Pipeline WITH Clients <- {1}, Leads <- MCLeads, projects <- listed, history <- document_history
S == INSTANCE Sessions WITH page <- tab_page
MCNumbers == {-1, 0, 2, 3, 4}
MCFields == {[kind |-> "integer", nullable |-> TRUE, min |-> 2], [kind |-> "integer", nullable |-> FALSE, min |-> 2],
             [kind |-> "number", nullable |-> FALSE, min |-> 0]}

Date(year, month, day) == [year |-> year, month |-> month, day |-> day]
MCDates == {Date(2020, 12, 31), Date(2021, 1, 1), Date(2021, 1, 31), Date(2021, 2, 28)}
Month(year, month) == [year |-> year, month |-> month]
MCMonths == {Month(2020, 12), Month(2021, 1), Month(2021, 2)}
\* December 2020 begins on a Tuesday, January on a Friday, and February on a Monday.
MCMonthLength == [m \in MCMonths |-> IF m.month = 2 THEN 28 ELSE 31]
MCFirstWeekday == [m \in MCMonths |-> IF m.month = 12 THEN 2 ELSE IF m.month = 1 THEN 5 ELSE 1]

MCDatas == {<<oak, elm>>, <<elm, oak, ash>>, <<ash>>}
MCIncludes == {<<oak, a_tree>>, <<elm, a_tree>>, <<ash, an_ash>>}
MCEquals == {<<ash, an_ash>>}
MCWords == {a_tree, an_ash, None}

F == INSTANCE NumberField WITH Fields <- NumberFields, Empty <- None, MaxInputs <- MaxTyped, inputs <- typed
D == INSTANCE DateRange WITH NoDate <- None
O == INSTANCE DropdownSearch WITH Texts <- Words, Nothing <- None, pressed <- pressed_item
\* Nothing, two rows, and three of which two have one key.
Row(key, of) == [key |-> key, value |-> of]
MCRows == {<<>>, <<Row(k2, v1), Row(k1, v2)>>, <<Row(k1, v1), Row(k2, v1), Row(k1, v2)>>}
R == INSTANCE Writes WITH Keys <- RowKeys, rows <- table, Inputs <- RowLists, last_id <- last_row_id
\* One after the other, side by side with some branches that write more, and several stages
\* of which one is side by side (create_company, update_line_item).
MCCallbacks == {<<<<1>>, <<2, 3>>>>, <<<<1, 1>>>>, <<<<1>>, <<1>>>>}
T == INSTANCE Transactions WITH calls <- callbacks, stage <- stages, MaxCalls <- MaxCallbacks, stored <- committed
ASSUME PagesAssumption == L!LeadAssumption /\ P!MarkupAssumption /\ C!FormAssumption /\ W!ListsAssumption
                          /\ S!SessionsAssumption /\ F!FieldAssumption /\ D!RangeAssumption
                          /\ O!DropdownAssumption /\ R!WritesAssumption /\ T!TransactionsAssumption

of_client == <<records, rows, focused_row_key, ids_in_db, client_save, client_contacts, referenced,
               last_id, client_saves, client_lost>>
of_lead == <<client, address, contact, selected_client, different, contact_draft, billing_address,
             billing_draft, lead_save, refused, clients, addresses, contacts, projects, lead_saves, inputs>>
of_photo == <<photo_page, item, image, going, strokes, drawing, overlay, save, items, images,
              last_stroke, failures>>
of_lists == <<today, listed, document_history, seen, moves>>

of_sessions == <<registered, sessions, cookie, requests, tab_page, shown, promise, resolving, started, result,
                 submits, trouble, out>>
of_field == <<field, value, text, focused, typed>>
of_dates == <<start, end, down, mouseover, visible, pressed>>
of_dropdown == <<keeps, data, search_text, selected_option, active_option_index, show_dropdown,
                 should_look_like_a_select, saved_search_text, focus, pressed_item, picked, events>>
of_inputs == <<of_field, of_dates, of_dropdown>>
of_writes == <<table, settings, last_row_id, writes, begun>>
of_transactions == <<callbacks, phase, outcome, stages, branches, active, queue, connected, open, written, committed>>
of_pages == <<vars, of_client, of_lead, of_photo, of_lists>>
of_others == <<of_sessions, of_inputs, of_writes, of_transactions>>

Pages == {"estimate", "client", "lead", "photo", "lists"}
\* The inputs, of which there are many, have no value in the behaviours of others.
NoField == field = None /\ value = None /\ text = None /\ focused = None /\ typed = None
NoDates == start = None /\ end = None /\ down = None /\ mouseover = None /\ visible = None /\ pressed = None
NoDropdown ==
    /\ keeps = None /\ data = None /\ search_text = None /\ selected_option = None
    /\ active_option_index = None /\ show_dropdown = None /\ should_look_like_a_select = None
    /\ saved_search_text = None /\ focus = None /\ pressed_item = None /\ picked = None /\ events = None

MCInit ==
    /\ side \in Pages \cup {"sessions", "field", "dates", "dropdown", "writes", "transactions"}
    /\ Init /\ C!Init /\ L!Init /\ P!Init /\ W!Init /\ S!Init /\ R!Init /\ T!Init
    /\ side # "photo" => items = 0
    /\ side # "sessions" => sessions = <<>>
    \* The sizes are alike to the page, so that two of them are enough to begin with.
    /\ \A f \in Fields \ {Document} : stored[f] \in (IF side = "estimate" THEN {Unset, 1} ELSE {Unset})
    /\ IF side = "field" THEN F!Init ELSE NoField
    /\ IF side = "dates" THEN D!Init ELSE NoDates
    /\ IF side = "dropdown" THEN O!Init ELSE NoDropdown
PageNext ==
    \/ side = "estimate" /\ Next /\ UNCHANGED <<of_client, of_lead, of_photo, of_lists>>
    \/ side = "client" /\ C!Next /\ UNCHANGED <<vars, of_lead, of_photo, of_lists>>
    \/ side = "lead" /\ L!Next /\ UNCHANGED <<vars, of_client, of_photo, of_lists>>
    \/ side = "photo" /\ P!Next /\ UNCHANGED <<vars, of_client, of_lead, of_lists>>
    \/ side = "lists" /\ W!Next /\ UNCHANGED <<vars, of_client, of_lead, of_photo>>
OtherNext ==
    \/ side = "sessions" /\ S!Next /\ UNCHANGED <<of_inputs, of_writes, of_transactions>>
    \/ side = "field" /\ F!Next /\ UNCHANGED <<of_sessions, of_dates, of_dropdown, of_writes, of_transactions>>
    \/ side = "dates" /\ D!Next /\ UNCHANGED <<of_sessions, of_field, of_dropdown, of_writes, of_transactions>>
    \/ side = "dropdown" /\ O!Next /\ UNCHANGED <<of_sessions, of_field, of_dates, of_writes, of_transactions>>
    \/ side = "writes" /\ R!Next /\ UNCHANGED <<of_sessions, of_inputs, of_transactions>>
    \/ side = "transactions" /\ T!Next /\ UNCHANGED <<of_sessions, of_inputs, of_writes>>
MCNext ==
    /\ UNCHANGED side
    /\ \/ PageNext /\ UNCHANGED of_others
       \/ OtherNext /\ UNCHANGED of_pages
MCSpec == MCInit /\ [][MCNext]_<<of_pages, of_others, side>>

\* Stated in ClientForm: a form that says that nothing needs to be saved shows what is stored.
CleanFormIsStored == C!CleanFormIsStored
\* Stated in LeadForm: the address and the contact of a lead are its client's.
LeadsAreOneClients == L!LeadsAreOneClients
\* Stated in Pipeline: the lists and the metrics of the pages are true of the projects.
PipelineIsTrue == side = "lists" => W!PipelineIsTrue
\* Stated in PhotoMarkup: the files of a photo show the strokes that are stored for it.
PicturesShowTheirStrokes == P!PicturesShowTheirStrokes
\* Stated in Sessions: a session that was logged out of runs no call any more.
LoggedOutIsOut == side = "sessions" => S!LoggedOutIsOut
\* Stated in Sessions: a log in that succeeded opens the app.
LoggingInOpensTheApp == side = "sessions" => S!LoggingInOpensTheApp
\* Stated in NumberField and DateRange: a field that nobody is in shows a value that it accepts,
\* and a range never ends before it starts.
FieldsShowTheirValues ==
    /\ side = "field" => F!FieldShowsItsValue
    /\ side = "dates" => D!RangeIsOrdered
\* Stated in DropdownSearch: the active option is one of the options, and a click picks the option
\* that the mouse went down on, however the list changed.
OptionsArePickedAsShown == [](side = "dropdown" => O!ActiveIsAnOption) /\ O!PickedIsThePressed
\* Stated in Writes: a step that is not a company's own leaves its rows alone, the ids that a
\* bulk insert returns are those of its rows, and a write that returned has done all of it.
\* Stated in Transactions: what was committed is whole, a callback that writes one statement after
\* the other stores all or nothing, and no callback writes into the transaction of the next one.
WritesAreOwnAndComplete ==
    /\ R!OnlyOwnRows /\ [](side = "writes" => R!IdsNameTheirRows /\ R!WritesAreComplete)
    /\ [](side = "transactions" => T!CommittedIsWhole /\ T!StrayWritesEnd)

MCPrices == <<5, 7>>
MCContacts == <<t1>>
MCAddressOwners == <<1, 2>>
MCContactOwners == <<1>>
=============================================================================
