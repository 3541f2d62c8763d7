--------------------------- MODULE DropdownSearch ---------------------------
(***************************************************************************)
(* The input with a list of options below: DropdownSearchInput.svelte and   *)
(* Dropdown.svelte, with the options of BetterDataList.svelte and           *)
(* ProjectSelector.svelte.  The options are derived anew whenever the text  *)
(* or the data changes, and with them the active one; keys and clicks come  *)
(* at any moment between.                                                  *)
(***************************************************************************)
EXTENDS Integers, Sequences, FiniteSets

CONSTANTS
    Datas,      \* the lists that the data may be: sequences of items
    Texts,      \* what may be typed, Nothing among it
    Includes,   \* <<item, text>>: the name of the item includes the text
    Equals,     \* <<item, text>>: the name of the item is the text
    Nothing,    \* the empty text, no option and no index
    MaxEvents   \* bound on what the user types and on the changes of the data
\* Assumed by the module that gives the constants their values.
DropdownAssumption ==
    /\ \A items \in Datas : items \in Seq({items[i] : i \in DOMAIN items})
    /\ Nothing \in Texts /\ Nothing \notin Nat

VARIABLES
    keeps,           \* whether the owner keeps what was picked (a lead source), or takes it away (a client)
    data,            \* the items
    search_text,
    selected_option,
    active_option_index,
    show_dropdown,
    should_look_like_a_select,
    saved_search_text,
    focus,           \* "input", "item" or "elsewhere"
    pressed,         \* the item that the mouse went down on
    picked,          \* the item that the owner was given last
    events           \* how often something was typed or changed (a bound)
vars == <<keeps, data, search_text, selected_option, active_option_index, show_dropdown,
          should_look_like_a_select, saved_search_text, focus, pressed, picked, events>>
keyboard == <<keeps, data, focus, pressed, saved_search_text>>

\* matched: the items that include the text, in the order of the data.
Matched(items, text) ==
    LET kept == {i \in DOMAIN items : <<items[i], text>> \in Includes}
    IN  [n \in 1 .. Cardinality(kept) |-> items[CHOOSE i \in kept : Cardinality({j \in kept : j <= i}) = n]]
\* And the offer to add what was typed: that is the item [add |-> text].
Options(items, text) ==
    IF text = Nothing THEN items
    ELSE Matched(items, text)
         \o (IF keeps /\ ~ \E i \in DOMAIN items : <<items[i], text>> \in Equals THEN <<[add |-> text]>> ELSE <<>>)
options == Options(data, search_text)

TopOf(list) == IF Len(list) > 0 THEN 1 ELSE Nothing
\* The first option is the active one of a list that was derived anew.
ActiveAfter(list) == TopOf(list)
ActiveFollows ==
    active_option_index' = IF data' # data \/ search_text' # search_text
                           THEN ActiveAfter(Options(data', search_text')) ELSE active_option_index

\* set_item_by_index: the option of that place, or none.
SetItem(list, index) ==
    /\ picked' = IF index \in DOMAIN list THEN list[index] ELSE Nothing
    /\ selected_option' = IF keeps THEN picked' ELSE Nothing
    /\ search_text' = Nothing
    /\ show_dropdown' = FALSE
    /\ should_look_like_a_select' = TRUE

Visible == show_dropdown /\ Len(options) > 0

Type(text, backspace) ==
    /\ focus = "input" /\ events < MaxEvents
    /\ search_text' = text
    /\ show_dropdown' = TRUE
    /\ should_look_like_a_select' = (should_look_like_a_select /\ ~backspace)
    /\ events' = events + 1
    /\ UNCHANGED <<keyboard, selected_option, picked>>
    /\ ActiveFollows

\* ArrowDown and ArrowUp.
Move(by) ==
    /\ focus = "input" /\ Visible
    /\ active_option_index' = IF by > 0 THEN IF active_option_index < Len(options) THEN active_option_index + 1 ELSE Len(options)
                              ELSE IF active_option_index > 1 THEN active_option_index - 1 ELSE 1
    /\ UNCHANGED <<keyboard, search_text, selected_option, show_dropdown, should_look_like_a_select, picked, events>>

Enter ==
    /\ focus = "input" /\ Visible
    /\ SetItem(options, active_option_index)
    /\ UNCHANGED <<keyboard, events>>
    /\ ActiveFollows

Escape ==
    /\ focus = "input" /\ Visible
    /\ show_dropdown' = FALSE /\ search_text' = Nothing
    /\ UNCHANGED <<keyboard, selected_option, should_look_like_a_select, picked, events>>
    /\ ActiveFollows

\* on_input_focus: the text that was put aside comes back.
Focused == saved_search_text' = Nothing /\ focus' = "input"
FocusedText == IF focus # "input" /\ saved_search_text # Nothing THEN saved_search_text ELSE search_text
Focus ==
    /\ focus = "elsewhere" /\ pressed = Nothing
    /\ Focused
    /\ search_text' = FocusedText
    /\ show_dropdown' = TRUE /\ should_look_like_a_select' = FALSE
    /\ UNCHANGED <<keeps, data, selected_option, pressed, picked, events>>
    /\ ActiveFollows

\* on_input_blur: with something picked, the text is put aside, unless the focus goes to an option.
Blur ==
    /\ focus = "input"
    /\ focus' = "elsewhere"
    /\ IF selected_option # Nothing
       THEN saved_search_text' = search_text /\ search_text' = Nothing /\ should_look_like_a_select' = TRUE
       ELSE UNCHANGED <<saved_search_text, search_text, should_look_like_a_select>>
    /\ UNCHANGED <<keeps, data, selected_option, show_dropdown, pressed, picked, events>>
    /\ ActiveFollows

\* The click or the key that took the focus away closes the list, in Dropdown.svelte.
CloseList ==
    /\ focus = "elsewhere" /\ show_dropdown
    /\ show_dropdown' = FALSE
    /\ UNCHANGED <<keyboard, search_text, selected_option, active_option_index, should_look_like_a_select, picked, events>>

\* The mouse goes down on an option, which takes the focus and becomes the active one, ...
Press(index) ==
    /\ pressed = Nothing /\ Visible /\ index \in DOMAIN options
    /\ focus' = "item"
    /\ active_option_index' = index
    /\ pressed' = options[index]
    /\ UNCHANGED <<keeps, data, search_text, selected_option, show_dropdown, should_look_like_a_select, saved_search_text, picked, events>>

\* (a mistake) The option that is active is picked.
ActivePlace == active_option_index
\* An option's element goes with its item: its click knows the place where that is now.
PlaceOfThePressed == CHOOSE i \in DOMAIN options : options[i] = pressed

\* ... and the click of the element, when it is still there, picks it.
Click ==
    /\ pressed # Nothing
    /\ pressed' = Nothing
    /\ IF Visible /\ (\E i \in DOMAIN options : options[i] = pressed)
       THEN /\ Focused
            /\ SetItem(Options(data, FocusedText), PlaceOfThePressed)
       ELSE UNCHANGED <<selected_option, picked, search_text, show_dropdown, should_look_like_a_select, saved_search_text, focus>>
    /\ UNCHANGED <<keeps, data, events>>
    /\ ActiveFollows

\* The element of the option goes away, and the focus with it.
LoseItem ==
    /\ focus = "item" /\ ~(Visible /\ \E i \in DOMAIN options : options[i] = pressed)
    /\ focus' = "elsewhere"
    /\ UNCHANGED <<keeps, data, search_text, selected_option, active_option_index, show_dropdown,
                   should_look_like_a_select, saved_search_text, pressed, picked, events>>

\* The client cache was refreshed.
Refresh(items) ==
    /\ items # data /\ events < MaxEvents
    /\ data' = items
    /\ events' = events + 1
    /\ UNCHANGED <<keeps, search_text, selected_option, show_dropdown, should_look_like_a_select, saved_search_text, focus, pressed, picked>>
    /\ ActiveFollows

Init ==
    /\ keeps \in BOOLEAN
    /\ data \in Datas
    /\ search_text = Nothing /\ selected_option = Nothing /\ saved_search_text = Nothing
    /\ active_option_index = TopOf(data)
    /\ show_dropdown = FALSE /\ should_look_like_a_select = FALSE
    /\ focus = "elsewhere" /\ pressed = Nothing /\ picked = Nothing /\ events = 0

Next ==
    \/ \E text \in Texts, backspace \in BOOLEAN : Type(text, backspace)
    \/ \E by \in {-1, 1} : Move(by)
    \/ Enter \/ Escape \/ Focus \/ Blur \/ CloseList \/ Click \/ LoseItem
    \/ \E index \in 1 .. 4 : Press(index)
    \/ \E items \in Datas : Refresh(items)

\* Whenever a key or a click reads the active option, it is one of the options that are there now,
\* however often the text and the data changed since it became active (the derived
\* active_option_index).
ActiveIsAnOption ==
    IF Len(options) = 0 THEN active_option_index = Nothing
    ELSE active_option_index # Nothing /\ active_option_index \in DOMAIN options

\* A click on an option picks that option, though the list may have been derived anew since the
\* mouse went down on it, and never another one.  (Not so when the click's own focus brings back a
\* text that was put aside: then the place is read in the list of that text.)
PickedIsThePressed ==
    [][pressed # Nothing /\ pressed' = Nothing /\ FocusedText = search_text
        => picked' \in {pressed, picked} /\ (Visible /\ (\E i \in DOMAIN options : options[i] = pressed) => picked' = pressed)]_vars
=============================================================================
