------------------------------ MODULE Sessions ------------------------------
(***************************************************************************)
(* Logging in and out: the tabs of one browser, which share a cookie, and   *)
(* the endpoints of the worker.  A tab keeps the promise of its session     *)
(* (client/lib/session.ts), the states login and app wait for it before     *)
(* they are shown (Login.State.svelte, App.State.svelte), and the worker    *)
(* reads and writes employee_session in several statements.                 *)
(***************************************************************************)
EXTENDS Naturals, Sequences, FiniteSets

CONSTANTS
    Employees,    \* by the name that they log in with
    Founders,     \* those of them whose company is yet to be created
    Tabs,
    None,         \* nobody
    MaxRequests,  \* bound on the requests of a behaviour
    MaxSessions   \* bound on the rows of employee_session
\* Assumed by the module that gives the constants their values.
SessionsAssumption == Founders \subseteq Employees /\ None \notin Employees \cup Tabs

VARIABLES
    registered,   \* the employees of the database
    sessions,     \* employee_session: [employee, invalidated]; the identifier is the index
    cookie,       \* the identifier in the browser's cookie, or 0
    requests,     \* what was asked of the worker, the number of a request is its index
    page,         \* per tab: "none" (blank), "login" or "app"
    shown,        \* per tab: the employee that the app is shown for
    promise,      \* per tab: the request that the session is read by, or 0
    resolving,    \* per tab: the resolve functions that wait: [to, request, alive]
    started,      \* per tab: whether the client cache was started
    result,       \* per tab: what the log in form says
    submits,      \* per tab: how often that form was sent
    trouble,      \* per tab: whether a request or a state of the router failed
    out           \* the sessions that were logged out

of_tabs == <<page, shown, promise, resolving, started, result, submits, trouble>>
of_worker == <<registered, sessions>>
vars == <<registered, sessions, cookie, requests, of_tabs, out>>

Request(tab, kind, who, right) ==
    [tab |-> tab, kind |-> kind, who |-> who, right |-> right, cookie |-> cookie, at |-> "sent",
     is |-> None, session |-> 0, late |-> FALSE]
Ask(tab, kind, who, right) ==
    /\ Len(requests) < MaxRequests
    /\ requests' = Append(requests, Request(tab, kind, who, right))
Waits(tab, kind) == \E n \in DOMAIN requests :
    requests[n].tab = tab /\ requests[n].kind = kind /\ requests[n].at # "over"

-----------------------------------------------------------------------------
(* The worker.  Every request has a connection of its own (worker/index.ts);*)
(* it may break at every statement, and what was committed stays.           *)

\* validate_session: the employee of the session that is not invalidated.
Validated(n) ==
    LET c == requests[n].cookie IN
    IF c # 0 /\ ~sessions[c].invalidated THEN sessions[c].employee ELSE None

Answer(n, request) == requests' = [requests EXCEPT ![n] = request]
Got(n, kind, at) == requests[n].kind = kind /\ requests[n].at = at

\* GET /api/session.
ReadSession(n) ==
    /\ Got(n, "session", "sent")
    /\ Answer(n, [requests[n] EXCEPT !.at = "answered", !.is = Validated(n)])
    /\ UNCHANGED <<of_worker, cookie, of_tabs, out>>

\* A server function runs for the employee of the session, as it is when the call comes.
CallFunction(n) ==
    /\ Got(n, "call", "sent")
    /\ Answer(n, [requests[n] EXCEPT !.at = "answered", !.is = Validated(n), !.late = @ \/ requests[n].cookie \in out])
    /\ UNCHANGED <<of_worker, cookie, of_tabs, out>>

\* create_company commits the company with its owner at once, and the owner is logged in then.
\* The unique key of employee.email refuses it a second time.  The default numbers, payment
\* methods, reasons and roles of the company come and go with that transaction.
CreateCompany(n) ==
    /\ Got(n, "create company", "sent")
    /\ IF requests[n].who \in registered
       THEN Answer(n, [requests[n] EXCEPT !.at = "refused"]) /\ registered' = registered
       ELSE /\ registered' = registered \cup {requests[n].who}
            /\ Answer(n, [requests[n] EXCEPT !.kind = "log in"])
    /\ UNCHANGED <<sessions, cookie, of_tabs, out>>

\* log_in: the employee is read and the password compared, ...
CheckPassword(n) ==
    /\ Got(n, "log in", "sent")
    /\ Answer(n, [requests[n] EXCEPT !.at = IF requests[n].who \in registered /\ requests[n].right
                                            THEN "checked" ELSE "refused"])
    /\ UNCHANGED <<of_worker, cookie, of_tabs, out>>

\* ... and the session is inserted.
InsertSession(n) ==
    /\ Got(n, "log in", "checked")
    /\ Len(sessions) < MaxSessions
    /\ sessions' = Append(sessions, [employee |-> requests[n].who, invalidated |-> FALSE])
    /\ Answer(n, [requests[n] EXCEPT !.at = "answered", !.session = Len(sessions')])
    /\ UNCHANGED <<registered, cookie, of_tabs, out>>

\* (a mistake) It is enough to take the cookie away.
Uninvalidated(row) == row
\* log_out: the row of the identifier is read and then invalidated.
Invalidated(row) == [row EXCEPT !.invalidated = TRUE]

LogOut(n) ==
    /\ Got(n, "log out", "sent")
    /\ LET c == requests[n].cookie IN
       /\ sessions' = IF c = 0 THEN sessions ELSE [sessions EXCEPT ![c] = Invalidated(@)]
       /\ out' = out \cup ({c} \ {0})
    /\ Answer(n, [requests[n] EXCEPT !.at = "answered"])
    /\ UNCHANGED <<registered, cookie, of_tabs>>

-----------------------------------------------------------------------------
(* The tab.                                                                *)

\* The page is loaded, at the one or the other route: all that the tab knew is gone, and the
\* answers that it waits for are not heard any more.
Forgotten(t) == [n \in DOMAIN requests |-> IF requests[n].tab = t THEN [requests[n] EXCEPT !.at = "over"]
                                           ELSE requests[n]]
Loaded(t, to, new_cookie) ==
    /\ Len(requests) < MaxRequests
    /\ requests' = Append(Forgotten(t), [Request(t, "session", None, FALSE) EXCEPT !.cookie = new_cookie])
    /\ cookie' = new_cookie
    /\ promise' = [promise EXCEPT ![t] = Len(requests')]
    /\ resolving' = [resolving EXCEPT ![t] = {[to |-> to, request |-> Len(requests'), alive |-> TRUE]}]
    /\ page' = [page EXCEPT ![t] = "none"] /\ shown' = [shown EXCEPT ![t] = None]
    /\ started' = [started EXCEPT ![t] = FALSE] /\ result' = [result EXCEPT ![t] = "none"]
    /\ submits' = [submits EXCEPT ![t] = 0] /\ trouble' = [trouble EXCEPT ![t] = FALSE]
Load(t, to) ==
    /\ trouble[t] \/ (page[t] = "none" /\ resolving[t] = {})
    /\ Loaded(t, to, cookie)
    /\ UNCHANGED <<of_worker, out>>

\* session.get: every state waits for the promise that is there, or for a new request.
GetSession(t, known, asked) ==
    /\ known = 0 => Len(asked) < MaxRequests
    /\ requests' = IF known # 0 THEN asked
                   ELSE Append(asked, [Request(t, "session", None, FALSE) EXCEPT !.cookie = cookie'])
    /\ promise' = [promise EXCEPT ![t] = IF known # 0 THEN known ELSE Len(requests')]

\* The state router goes on when the session is there: to the other state, or into this one.
\* The resolve function of a transition that was replaced runs on, but shows nothing.
Answered(r) == requests[r.request].at = "over"
Redirect(t, r) ==
    /\ r \in resolving[t] /\ Answered(r)
    /\ LET logged_in == requests[r.request].is # None IN r.to = (IF logged_in THEN "login" ELSE "app")
    /\ r.alive
    /\ cookie' = cookie
    /\ GetSession(t, promise[t], requests)
    /\ resolving' = [resolving EXCEPT ![t] = (@ \ {r}) \cup
                        {[to |-> IF r.to = "login" THEN "app" ELSE "login", request |-> promise'[t], alive |-> TRUE]}]
    /\ UNCHANGED <<of_worker, page, shown, started, result, submits, trouble, out>>

Enter(t, r) ==
    /\ r \in resolving[t] /\ Answered(r)
    /\ LET logged_in == requests[r.request].is # None
           goes_on == r.to = IF logged_in THEN "app" ELSE "login"
           fails == r.to = "app" /\ logged_in /\ started[t]
       IN  /\ goes_on \/ ~r.alive
           /\ started' = [started EXCEPT ![t] = @ \/ (r.to = "app" /\ logged_in)]
           /\ page' = IF r.alive /\ ~fails THEN [page EXCEPT ![t] = r.to] ELSE page
           /\ shown' = IF r.alive /\ ~fails THEN [shown EXCEPT ![t] = requests[r.request].is] ELSE shown
           /\ trouble' = [trouble EXCEPT ![t] = @ \/ (r.alive /\ fails)]
    /\ resolving' = [resolving EXCEPT ![t] = @ \ {r}]
    /\ UNCHANGED <<of_worker, cookie, requests, promise, result, submits, out>>

\* A state below app cannot be resolved: the transition ends, and the cache stays started.
ChildFails(t, r) ==
    /\ r \in resolving[t] /\ r.alive /\ Answered(r)
    /\ r.to = "app" /\ requests[r.request].is # None
    /\ started' = [started EXCEPT ![t] = TRUE]
    /\ trouble' = [trouble EXCEPT ![t] = TRUE]
    /\ resolving' = [resolving EXCEPT ![t] = @ \ {r}]
    /\ UNCHANGED <<of_worker, cookie, requests, page, shown, promise, result, submits, out>>

Submit(t, who, right) ==
    /\ page[t] = "login" /\ submits[t] < 2
    /\ Ask(t, "log in", who, right)
    /\ submits' = [submits EXCEPT ![t] = @ + 1]
    /\ UNCHANGED <<of_worker, cookie, page, shown, promise, resolving, started, result, trouble, out>>

\* No page asks for a company: its owner calls the endpoint from outside of the browser.
\* A bound: only among the first two requests.
AskForACompany(who) ==
    /\ Len(requests) < 2
    /\ Ask(None, "create company", who, TRUE)
    /\ UNCHANGED <<of_worker, cookie, of_tabs, out>>

Call(t) ==
    /\ page[t] = "app" /\ ~Waits(t, "call")
    /\ Ask(t, "call", None, FALSE)
    /\ UNCHANGED <<of_worker, cookie, of_tabs, out>>

ClickLogOut(t) ==
    /\ page[t] = "app" /\ ~Waits(t, "log out")
    /\ Ask(t, "log out", None, FALSE)
    /\ UNCHANGED <<of_worker, cookie, of_tabs, out>>

-----------------------------------------------------------------------------
(* The answers.                                                            *)

Over(n) == [requests EXCEPT ![n].at = "over"]

SessionAnswer(n) ==
    /\ Got(n, "session", "answered")
    /\ requests' = Over(n)
    /\ UNCHANGED <<of_worker, cookie, of_tabs, out>>

CallAnswer(n) ==
    /\ Got(n, "call", "answered")
    /\ requests' = Over(n)
    /\ UNCHANGED <<of_worker, cookie, of_tabs, out>>

\* (a mistake) What is known of the session stays.
KeptPromise(t) == promise
\* session.clear.
ClearedPromise(t) == [promise EXCEPT ![t] = 0]

\* The cookie of a log in is set; the form says so, forgets the session and goes to the app.
\* A tab that shows the app already stays in it.
LogInAnswer(n) ==
    LET t == requests[n].tab IN
    /\ Got(n, "log in", "answered") /\ t # None
    /\ cookie' = requests[n].session
    /\ result' = [result EXCEPT ![t] = "success"]
    /\ IF page[t] = "app"
       THEN requests' = Over(n) /\ promise' = ClearedPromise(t) /\ resolving' = resolving
       ELSE /\ GetSession(t, ClearedPromise(t)[t], Over(n))
            /\ resolving' = [resolving EXCEPT ![t] = {[r EXCEPT !.alive = FALSE] : r \in @}
                                \cup {[to |-> "app", request |-> promise'[t], alive |-> TRUE]}]
    /\ UNCHANGED <<of_worker, page, shown, started, submits, trouble, out>>

Refused(n) ==
    /\ requests[n].at = "refused" /\ requests[n].tab # None
    /\ requests' = Over(n)
    /\ result' = [result EXCEPT ![requests[n].tab] = "error"]
    /\ UNCHANGED <<of_worker, cookie, page, shown, promise, resolving, started, submits, trouble, out>>

\* The founder's cookie is none of this browser's; that connection may break as well.
FounderAnswer(n) ==
    /\ requests[n].tab = None /\ requests[n].at # "over"
    /\ requests' = Over(n)
    /\ UNCHANGED <<of_worker, cookie, of_tabs, out>>

\* The cookie is taken away and the page loaded again.
LogOutAnswer(n) ==
    LET t == requests[n].tab IN
    /\ Got(n, "log out", "answered")
    /\ Loaded(t, "app", 0)
    /\ UNCHANGED <<of_worker, out>>

\* The connection breaks before the request comes or before its answer does.  A session that
\* could not be read is forgotten, so that it is read again.
Break(n) ==
    LET t == requests[n].tab IN
    /\ requests[n].at # "over" /\ t # None
    /\ requests' = Over(n)
    /\ promise' = IF promise[t] = n \/ requests[n].kind = "session" THEN [promise EXCEPT ![t] = 0] ELSE promise
    /\ resolving' = [resolving EXCEPT ![t] = {r \in @ : r.request # n}]
    /\ result' = IF requests[n].kind = "log in" THEN [result EXCEPT ![t] = "error"] ELSE result
    /\ trouble' = [trouble EXCEPT ![t] = TRUE]
    /\ UNCHANGED <<of_worker, cookie, page, shown, started, submits, out>>

-----------------------------------------------------------------------------

Init ==
    /\ registered = Employees \ Founders
    \* Somebody may still be logged in from before.
    /\ sessions \in {<<>>} \cup {<<[employee |-> e, invalidated |-> FALSE]>> : e \in registered}
    /\ cookie = Len(sessions) /\ requests = <<>> /\ out = {}
    /\ page = [t \in Tabs |-> "none"] /\ shown = [t \in Tabs |-> None]
    /\ promise = [t \in Tabs |-> 0] /\ resolving = [t \in Tabs |-> {}]
    /\ started = [t \in Tabs |-> FALSE] /\ result = [t \in Tabs |-> "none"]
    /\ submits = [t \in Tabs |-> 0] /\ trouble = [t \in Tabs |-> FALSE]

Next ==
    \/ \E t \in Tabs :
        \/ \E to \in {"login", "app"} : Load(t, to)
        \/ \E r \in resolving[t] : Redirect(t, r) \/ Enter(t, r) \/ ChildFails(t, r)
        \/ \E who \in Employees, right \in BOOLEAN : Submit(t, who, right)
        \/ Call(t) \/ ClickLogOut(t)
    \/ \E who \in Founders : AskForACompany(who)
    \/ \E n \in DOMAIN requests :
        \/ ReadSession(n) \/ CallFunction(n) \/ CreateCompany(n)
        \/ CheckPassword(n) \/ InsertSession(n) \/ LogOut(n)
        \/ SessionAnswer(n) \/ CallAnswer(n) \/ LogInAnswer(n) \/ Refused(n) \/ FounderAnswer(n) \/ LogOutAnswer(n) \/ Break(n)
Spec == Init /\ [][Next]_vars

-----------------------------------------------------------------------------

\* Once a session was logged out, no call that still carries it, from whichever tab, runs for its
\* employee (log_out.ts, validate_session.ts).
LoggedOutIsOut == \A n \in DOMAIN requests : requests[n].late => requests[n].is = None

\* A log in that was sent once and succeeded opens the app, whatever the tab knew of the session
\* before: when nothing is under way, nothing failed and nobody logged out, the app is shown
\* (session.clear in Login.State.svelte).
Quiet(t) == resolving[t] = {} /\ \A n \in DOMAIN requests : requests[n].tab = t => requests[n].at = "over"
LoggingInOpensTheApp ==
    \A t \in Tabs : result[t] = "success" /\ submits[t] = 1 /\ Quiet(t) /\ ~trouble[t]
        /\ cookie # 0 /\ (\A i \in DOMAIN sessions : ~sessions[i].invalidated) => page[t] = "app"
=============================================================================
