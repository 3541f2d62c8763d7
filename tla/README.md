# TreeBzns: a verification project

TreeBzns is the web application of a tree service business: clients and leads, estimates and their
documents, photos of trees, crews and invoices, and the import of all that from ArboStar. These
TLA+ modules model its logic, TLC checks them on small instances, and TLAPS proves the properties
that matter most for every value of the constants.

Paths below are relative to `src/src/` of the repository unless they start with `src/`.

## 1. The system

A browser client (Svelte, one abstract-state-router page per screen) talks to a Cloudflare worker by
HTTP. The worker opens one MySQL connection for each request and runs each server function that
writes in one transaction (`shared/mysql/helpers.ts`, `worker/lib/make_context.ts`). Photos are objects
in an S3 store, named by rows in the database. There are no foreign keys and no background jobs;
scripts that are run by hand migrate the schema, export the data of ArboStar and import it.

| Component | State | Operations | Talks to |
|---|---|---|---|
| Pending saves (`client/lib/tracked_record*.ts`, `form_saver`) | form values, values in the database, known ids, saving flags | edit, `start_save`, `commit`, `discard` | the forms |
| Line item page (`line_item_edit/`, `line_item_form*`) | one record, its work skill rows, its price | edit, add, remove, revert, save, next, reload | `upsert_line_item` |
| Estimate page (`line_items/`) | a project and its line items | edit, save, close, move to the next document | `update_estimate` |
| Client and lead forms (`client_form`, `create_a_lead`, `list_input`) | records; rows that come and go with the focus | type, pick, clear, remove, save | `update_client`, `create_lead` |
| Photo pages (`photo_markup/`, `line_item_camera`, `line_item_photo`) | strokes, undo history, a canvas | take, draw, undo, save | the queue, `create_line_item_image` |
| Photo upload queue (`shared/promise_queue.ts`, `photo_upload_queue`) | running flag, waiting list, counter, progress | enqueue, progress, end, failure | XMLHttpRequest |
| Project image upload (`worker/bare_endpoints/project_image/`) | a row, three objects, ETags | put, commit, delete | the store, the database |
| Camera service (`client/lib/camera_service/`) | stream, consumers, timer, opens that run | open, close, hide, show, choose a device | `getUserMedia` |
| Client cache (`client/lib/client_cache*`) | a copy of the clients, a snapshot of counts and times | refresh, poll | `query` |
| Sessions, employees, companies (`client/lib/session.ts`, `worker/`) | a cookie, `employee_session`, a promise per tab | load, log in, log out, create | the database |
| Server functions (`worker/server_functions/`) | the rows of a company | `create_lead`, `update_client`, `upsert_line_item`, `update_estimate` | the database |
| Query builders, write helper, tenancy (`shared/sql_request`) | a query under construction; batches | select, insert, update, delete | every query |
| Project document history, lists and metrics (`shared/treebzns_db`, Home, Lead, Proposal pages) | history rows, the project's document | move, list, count | estimates, import |
| Invoice and price arithmetic (`shared/invoice`, `shared/estimate`) | none | functions on decimals | forms, import |
| Validators and parameters (`shared/json_validator.ts`, `shared/param_validator.ts`) | none | compose, validate, explain, cast | server functions, pages |
| Inputs (`client/component/`) | a text or a range beside a value | focus, type, press, pick | forms |
| ArboStar export (`src/scripts/arbostar`) | files on disk, `.part` files | read pages, download, start again | ArboStar |
| ArboStar import and schedule (`shared/arbostar`) | correlations of imported rows | one transaction per phase, uploads between | the database, the store |
| Migrations (`src/scripts/migrate.ts`) | the table `migration` | run the pending files | the database |

What is hard in it, and what must hold:

* **Forms.** The user edits while a save is in flight; ids come back by position; a refused or lost
  save must leave the form ready for the next one. What the form says is stored must be stored.
* **Uploads.** Promises settle some microtasks before anyone hears of it. One upload at a time, in
  order, none forgotten.
* **Photos.** Objects are overwritten before the row says so and deleted after it has stopped to.
  Every photo must have its files, and its pictures must show its strokes.
* **Transactions.** Plain reads see the snapshot of the transaction, writes and locking reads see
  what is committed. Without foreign keys nothing but the order of the statements keeps references,
  sort columns and project numbers right.
* **Tenancy.** One database holds all companies; a filter that is added to each query and each write keeps
  them apart, through joins, subqueries and batches.
* **The import.** It may crash anywhere, is run again and again, and the users of both systems work
  on in the meantime. It must bring every row once and leave alone what was made in the app.
* **Reading while others write.** The export reads lists that change under it; the client cache
  reads a database whose times have a grain of a second.
* **Camera.** Opening takes two awaits and anything may happen before each.

`PROJECT.json` lists every component with its status, and every hazard at its line with the
properties that cover it.

## 2. The modules

A **component** module has VARIABLES, one action per operation or statement, `Next` and `Spec`. An
**MC** module extends one of them for TLC. Several small components are checked in one run: the MC
module then adds a variable `side` that says which part the behaviour is about, so the parts lie
side by side and their states are not multiplied. `MCArbostar` extends
`MCArbostarImport`. A module whose constants a cfg can give is checked without one.

| Module | Models | Checked by |
|---|---|---|
| `LineItemForm` | the line item page, its pending saves and `upsert_line_item` | its own runs |
| `SavedView` | what a form that saves promises: the abstract specification that `LineItemForm` implements | |
| `PhotoUploadQueue` | the promise queue, counter and bar, the requests | `MCPhotos` |
| `ProjectImages` | one photo: pages, requests, objects, row | `MCPhotos`, a run of its own |
| `PhotoViews` | `ProjectImages` while a browser shows the photo, with its cache and ETags | `MCPhotos` |
| `CameraService` | the camera service and the cameras on screen | `MCBackground` |
| `ClientCache` | refreshes and polls over a database whose transactions commit late | `MCBackground` |
| `Database` | InnoDB under REPEATABLE READ as the transaction helper uses it (external) | |
| `ClientRecords` | `create_lead` and `update_client`, statement by statement, on `Database` | its own runs |
| `EstimatePage` | the estimate page, `update_estimate`, the document and its history | `MCPages` |
| `ClientForm` | a list on the client page | `MCPages` |
| `LeadForm` | the page that creates a lead | `MCPages` |
| `PhotoMarkup` | the photo pages | `MCPages` |
| `Pipeline` | what the lists and metrics say of projects | `MCPages` |
| `Prices` | line items, estimates, invoices, the tax of imported invoices | `MCParts` |
| `Sessions` | tabs, cookie, session endpoints, the router states that wait for them | `MCPages` |
| `NumberField`, `DateRange`, `DropdownSearch` | inputs that keep a text or a range beside a value | `MCPages` |
| `NameSearch` | finding a client by name | `MCParts` |
| `Grouping` | joined rows become a tree again | `MCParts` |
| `Validators` | request validation, the parameters of a page | `MCParts` |
| `Migrations` | the migration script | `MCParts` |
| `Queries` | a SELECT from the builder to its rows | `MCParts` |
| `Writes` | inserts, updates and deletes in batches | `MCPages` |
| `Transactions` | the transaction helper and what a callback does on its connection | `MCPages`, a run of its own |
| `ListExports` | the ways a list of ArboStar is read page by page | `MCArbostar` |
| `ExportRun` | the order of the export scripts, and the downloads | `MCArbostar` |
| `LineItemExport` | the exports that ask for one record at a time | `MCArbostar` |
| `TreeExport` | the export of the tree inventory and its catalogs | `MCArbostar` |
| `ArbostarImport` | the import, phase by phase | `MCArbostarImport`, `MCArbostar` |
| `Schedule` | the import of the crew schedule | `MCArbostar` |
| `PagesProofs` | the theorems about `EstimatePage`, `LeadForm`, `ClientForm`, `PhotoMarkup`, `Pipeline`, `Sessions`, `NumberField`, `DateRange`, `DropdownSearch` | |
| `FoundationsProofs` | the theorems about `Writes`, `Transactions` | |
| `ProjectImagesProofs` | the theorems about `PhotoUploadQueue`, `ProjectImages`, `PhotoViews` | |
| the other `*Proofs` | the theorems about `LineItemForm`, `CameraService`, `ClientRecords`, `Migrations`, `ArbostarImport` | |

Components interact in the modules where the interaction is what could go wrong: `LineItemForm` and
`EstimatePage` contain the server function they call; `ClientRecords` runs on `Database`;
`ProjectImages` has pages, requests, store and row; `ArbostarImport` has the users of the app.
`PhotoMarkup` ends where a file is queued, `PhotoUploadQueue` takes it from there.

Definitions whose comment starts with "(a mistake)" are mutations of the definition next to them.
No specification uses them: each one stands in for its neighbour in a run that must then fail, which
shows that the property it belongs to says something about the code. `PROJECT.json` pairs them.

### State and actions

**LineItemForm.** `record`, `rows` and `made` are the `tracked_record`s the page has made;
`work_skills`, `ids_in_db` and `array_saving` the `tracked_record_array`; `price` and `price_in_db`
the price; `pending` the one save in flight (the form saver's promise and its request); `db` the two
tables; `late` the requests the page has given up but the server may still apply. `EditCrew`,
`EditPrice`, `AddWorkSkill`, `RemoveWorkSkill`, `Revert` are the user's (`line_item_form.svelte.ts:83-184`);
`Save` is `start_save` together with sending; `ServerStores` and `ServerRefuses` the transaction;
`Saved` and `Refused` what the page does with the answer; `Timeout` and `LateStore` the lost
answers; `Reopen` loads the page again. `Saved` takes the commit and the page that is loaded after it for one step: between
them the code waits for the router (`LineItemEdit.State.svelte:114-120`), and what is typed there is lost with the
form, as what is typed while the save travels is (section 5). `upsert_line_item` is one step: all its statements touch rows of one line item and its
only concurrent writer is a save of the same line item that the page has given up, which its row
locks put before or after. `SavedView` promises that a save stores exactly what the form showed when
it began; the refinement maps what the form shows, and what the server would make of the payload in flight.

**EstimatePage.** Fields are the document of the project, its crew size, and the crew size and price of each item.
`form` and `in_db` are the tracked records, `stored` the tables, `pending` the save.
`Submit`, `SaveAndClose`, `SaveAsNextProjectDocument` and `FollowLink` are the buttons and the link.
`SaveAndClose` is also the click on a photo, which can come while a save travels: as a record has one save at a
time, the click is then refused, or it has nothing to save and leaves. `UpdateEstimate` is the transaction
(answered or not), `SaveFails` the failure, `Elsewhere` another page that changes a field of the same project.

**ClientForm** and **LeadForm.** Focus, typing, removing, the clean-up of empty rows, saving, and the
server's transaction; picks and clears in the lead form. Effects run before the next event and are part of
each action (`Settle` in the client form), timers are actions of their own.

**PhotoMarkup.** The pages (`live`, `capturing`, `marking`, `photo`), the stroke under the pointer,
the undo history, the canvas; a save goes `Compose`, `Composed`, `CreateLineItem`,
`CreateLineItemImage` or `UpdateProjectImage`, `Enqueue`, in the order of the awaits.

**PhotoUploadQueue.** An upload is `new`, `waiting`, `sent`, then `failed` or `resolved` when its
request has ended, and `rejected` once the queue has said so. `GoOn`, `GiveUp` and `FinishOne` are
actions of their own, as they are microtasks of their own; enqueuing may come between any two.

**ProjectImages.** `Enqueue`, `SaveStrokes` and `Discard` are the page's; a request goes through
`queued`, `delivered`, `putting` (each `Put` one of its files, in any order), the transaction
`Commit`, `DeleteStaleDisplay`, and `ReadAgain`. `Break` fails a request at any of these;
`Disconnect` cuts its connection, after which the server goes on and the page may send the next.

**PhotoViews** adds a browser: `ReadRow` is the endpoint up to its answer of 404 or 304, `GetObject` the read of the object
the row had named; `cache` keeps the body under the ETag that was read before it. `beside` notes
whether an upload was under way meanwhile.

**Database** and **ClientRecords.** `Database` has what is committed, and for each transaction its snapshot,
its own writes and its locks. `View` is what a plain SELECT reads, `Current` what a write or a
`FOR UPDATE` reads; `Execute` waits (is not enabled) while another transaction has one of the locks.
`ClientRecords` has one action for each statement that another transaction can tell apart, in the
order of the code (`lead.fns.ts:121-205`, `client.fns.ts:152-183`). A transaction may be rolled back
at any step, which covers failed assertions, lost connections and the victims of deadlocks.

**Transactions.** What `Database` abstracts from: one connection with its queue of statements, the wrapper that is
`active`, and callbacks whose stages write on several branches (`Promise.all`). `Ask` sends a statement, `Settle`
ends a branch, well or not; `Answer...` and `Fail...` are the database's answers, in the order of the queue. The
program goes on with all that an answer makes possible before the next one comes. `Lose` breaks the
connection before or after the database has done what it was asked.

**CameraService.** `opens[i]` is the i-th call of `open_once` and how far it is; `fresh` the open whose
`this_open` equals `open_count`; `live` the streams that are on. `Mount`, `Unmount`, `TryAgain`,
`SetDevice` and `NoteResult` are the component; `Hide` and `Show` the visibility listener.

**ClientCache.** `stored` is what is committed, `open` what was written and is not; `Tick` the
second; a refresh is asked, selected and answered, a poll three requests of which each is answered by
itself; `Fail` loses any of them.

**Pipeline.** Projects with their histories, made in the app or imported (again), moved by pages that
may be old while days pass; the lists and the metrics are operators over them, as the queries are.

**Queries** and **Writes.** The stages of the builder are actions; checking, the company's filter, the text
with placeholders, and the answer are operators, one for each function of the code. `Writes` has one
action per batch, between which another company's batches come.

**ArbostarImport.** `Start` reads the context (the rows earlier runs left), each phase is one
transaction (`ImportStep`), uploads lie between, `Crash` ends a run anywhere, and `AppAction` is a user of
the app. **Schedule** reads in two steps and commits in one. **ListExports** has the list, the script that
reads it (preflight, pages, verification) and the people who change it; **ExportRun** the scripts, their
files and the runners of the download. **LineItemExport** has `Claim`, `Serve` and `Receive` of each runner, and
`WriteFiles` with its two assertions; **TreeExport** the walk over the numbers of the sets, the sets, and the
pages of a catalog. In all of them `Edit` and the like are the users of ArboStar.

**Prices, Sessions, the inputs, NameSearch, Grouping, Validators, Migrations.** Pure functions are operators
with the names of the code; the behaviour builds their input step by step (a sheet gets lines, a
validator is composed, a search gets words). `Sessions` has one action per statement of
an endpoint and one per answer that a tab hears. `Migrations` has reading the pending files, each statement,
noting, and breaking off.

## 3. The runs

| Run | Bounds | What it shows |
|---|---|---|
| `line_item_edit` | 2 skills, 2 prices, 2 rows made, 1 stored item, every request answered | the form knows what the database holds (`CleanMeansStored`, `PageKnowsTheRows`) and the page implements `SavedView` (`StoresWhatWasShown`) |
| `line_item_lost_answer` | 2 skills, 1 price, 2 items, 1 lost answer | flags match the save, ids go to their rows, only a lost answer makes a duplicate |
| `photos` | 4 uploads in a queue; or 1 photo, 3 file uploads, 2 drawings, 1 failure, 1 cut; or that photo with 2 views, 1 drawing and no cut | one at a time, in order, every upload settles; the photo's files are there, a browser is shown what the row says, and the files show one drawing when all is quiet |
| `project_image_two_pages` (finding) | 2 pages, 4 uploads, nothing fails | one page's undo deletes the other's display |
| `client_records` | 2 leads, 1 update, 1 address, 1 contact | places and project numbers are distinct without a gap; requests that overlap no other keep references |
| `client_in_use_is_deleted` (finding) | 1 lead, 1 update, 2 addresses, 1 contact | a row in use is deleted |
| `background` | 2 cameras, 3 opens, 2 stops; or 3 rows in 2 tables, 2 seconds, 1 write beside a transaction that is underway, 1 failure, 1 poll, 2 refreshes | only the shown stream is on, an unused camera goes off; the cache catches up |
| `pages` | 2 items, 2 documents, 2 edits, 2 saves, 1 lost answer, 1 change elsewhere; or 4 records in a list; or 2 clients and 2 inputs; or 2 strokes, 2 photos, 1 failure; or 2 projects, 3 moves, 3 days; or 2 employees, 2 tabs, 4 requests, 2 sessions; or 3 inputs or events; or 2 companies, 2 keys, 2 values, batches of 1 or 2, 3 writes; or 2 callbacks of up to 5 statements | clean forms show what is stored, leads are of one client, lists and pictures are true; a log out holds and a log in opens the app; inputs show what they hold; writes are the company's own, batches and committed transactions are complete |
| `arbostar` | 4 exports, 2 runs, 1 step of a user; or lists of 0 or 3 rows, pages of 2, 2 changes; or 2 photos and 2 runners; or 3 schedule imports of 6 and 1 removal; or 3 leads, 2 runners and 1, and 1 edit; or 2 trees in 5 sets, a gap limit of 2, 3 catalog rows and 1 edit | reruns are accepted, imports mirror the export, what the app made stays, exports are whole |
| `arbostar_line_removed` (finding) | the import alone | a removed line makes every later run fail |
| `parts` | 1 join, 1 condition, 1 selected column for each builder and 5 calls; sheets of 3 lines; 2 contacts, 3 words; trees of depth 4; 3 migration files of 2 statements, 3 starts of 2 runs | answers are the company's own, values go to their placeholders; the properties of the calculations and helpers |
| `failed_transaction` (finding) | 2 callbacks of `create_company`'s shape | a branch writes behind the ROLLBACK |

Why the bounds are enough. *Line item*: two rows and two skills are what it takes for a row to be
removed, added again and confused with another, and for ids to be given in the wrong order; a second
stored item is a duplicate. *Photos*: four uploads are one that ends, one that fails, one that waits
behind it and one that comes while the failure is being told; three on one photo are the first
upload and two markups, an undo between drawings. *Client*: two leads and an update give every
pair of functions that overlap; with the second address there is one that may be deleted. *Camera*:
three opens are one that is overtaken, the one that overtakes it, and one that the page's return
starts. *Cache*: two refreshes and a poll are what it takes for an old answer to overwrite a new one and
to be found out. *Tenancy*: one join, condition and column each, with a query that was built before
as a table of the next, reach every clause at two levels. *Transactions*: two callbacks with a stage of two branches, of two
and three statements, are a branch that fails, one that goes on, and the transaction after them. *Writes*: three rows of which two have one
key, in batches of two, are refused in the second batch. *Pages*: two saves are one that fails or whose
answer is lost and its retry. *Pipeline*: each limit of days is one, so that three days pass each of them.
*Import*: a second run meets what any of the first one's phases left behind; the four exports hold
every change that the import treats apart (the comments of `MCArbostarImport` name them). *Lists*: three rows in
pages of two are a full page, a last page and a change between them. *Trees*: five sets and a limit of two are gaps below, at and
above the limit. *Migrations*: three files are
one that is noted, one in the middle and one that comes meanwhile.

Deadlock is checked in the line item runs. In the others the system really may stop, once its
requests have ended and nobody does anything; each cfg says so.

**Fairness.** Users, other people and the database owe nothing anywhere. `PhotoUploadQueue`: the
browser reports the end or the failure of each request it has sent, and the event loop runs what is
ready (`WF` of `Succeed \/ Fail`, `GoOn`, `GiveUp` and each `FinishOne`); the code sets no timeout on the
request, so this is all that ends a hanging upload. `CameraService`: the timer that is set fires and
a settled promise is heard of (`WF` of `IdleClose`, `Followed`); `getUserMedia` has no fairness,
as the user may never answer the permission prompt. `ClientCache`: the browser keeps its interval and
requests are answered or fail (`WF` of `Poll`, `PollTable`, `Answered`, `Select`, `Refreshed`); a transaction may
stay open for ever. No other module states liveness.

**Findings.** Four runs end in a violation, each of a sentence of the repository:

1. `project_image_two_pages`: `notes/project_image_rules.md:5` says every uploaded photo has its
   three files. The display object is deleted after the commit, under a key another request has
   meanwhile put and committed.
2. `client_in_use_is_deleted`: `shared/treebzns_db/client_relationships.ts:7-8` says that what is
   used cannot be deleted. The uses are read from a snapshot.
3. `arbostar_line_removed`: `shared/arbostar/import_arbostar_export.ts:98-100` says that a rerun
   recovers from a crash. An imported photo whose line a user removed is not seen by the
   context, is inserted again, and the unique key refuses it on every run.
4. `failed_transaction`: a test (`shared/mysql/helpers.test.ts:112`) is called "transaction rolls back callback
   failures". When one branch of a `Promise.all` fails, `ROLLBACK` is sent while another
   branch waits for its answer; the statement that this branch asks for next runs behind it and commits by
   itself. What was committed is whole (`CommittedIsWhole`), and no more than these stray statements get through
   (`StrayWritesEnd`).

## 4. What is proved

`tlapm` checks every proof from nothing. The only assumptions are the `ASSUME`s of the modules
(`ConstantsAssumption`, `OnePageAssumption`, `CameraAssumption`, `RecordsAssumption`, `NoRowAssumption`,
`EstimateAssumption`, `PagesAssumption`, `MigrationsAssumption`, and `ImportAssumption`, `ExportsAssumption` and
`GapAssumption` of `ArbostarImport`): bounds are naturals, model
values are distinct, sets of actors are finite, document numbers and prices are positive, an export is a
finite file, and ArboStar gives out fewer than `Gap` numbers between any two of the exports
(`GapAssumption`, the code's own premise at `import_projects.ts:202`). TLC evaluates each of them.
`OnePageAssumption` and `PagesAssumption` are what the modules that `MCPhotos` and `MCPages` instantiate assume
of their constants (`QueueAssumption`, `ImagesAssumption`, `ViewsAssumption`; `LeadAssumption`, `FormAssumption`,
`MarkupAssumption`, `ListsAssumption`, `SessionsAssumption`, `FieldAssumption`, `RangeAssumption`,
`DropdownAssumption`, `WritesAssumption`, `TransactionsAssumption`), and that photos are sent from one page; `ImagesAssumption` and
`ViewsAssumption` are hypotheses where `ProjectImages` is proved about directly. The theorems over `MCSpec` hold for any
texts, records, photos, leads, people, tabs, fields, calendars, options, companies, rows, callbacks and bounds that satisfy these; that several parts lie side by side in an MC
module takes nothing from them, for `MCSpec` only says that one of the parts moves while the others stay.

| Theorem | States |
|---|---|
| `LineItemFormProofs!TypeCorrect` | `Spec => []TypeOK` |
| `LineItemFormProofs!FlagsMatch` | `Spec => []FlagsMatchTheSave` |
| `LineItemFormProofs!OwnIds` | `Spec => []IdsBelongToTheirRows` |
| `LineItemFormProofs!DuplicatesAreLost` | `Spec => []DuplicatesNeedALostAnswer` |
| `LineItemFormProofs!PageKnows` | `Spec => [](lost = 0 => PageKnowsTheRows)` |
| `LineItemFormProofs!CleanIsStored` | `Spec => [](lost = 0 => CleanMeansStored)` |
| `LineItemFormProofs!SavesKeepTheirPromise` | `Spec /\ [](lost = 0) => StoresWhatWasShown` |
| `ProjectImagesProofs!SendsOneAtATime` | `MCSpec => []OneAtATime` |
| `ProjectImagesProofs!SendsInOrder` | `MCSpec => []SentInOrder` |
| `ProjectImagesProofs!CountsTheUploads` | `MCSpec => []Q!CountShowsTheUploads` |
| `ProjectImagesProofs!TypeCorrect` | `ImagesAssumption` implies `Spec => []TypeOK` |
| `ProjectImagesProofs!FilesStay` | with `Pages = {Camera}`: `Spec => []FilesStayWhileConnected` |
| `ProjectImagesProofs!QuietIsWhole` | with `Pages = {Camera}`: `Spec => []QuietPhotoIsWhole` |
| `ProjectImagesProofs!FilesAreFound` | with `Pages = {Camera}`: `ViewsSpec => RowsFilesAreFound` |
| `ProjectImagesProofs!ShownIsTrue` | with `Pages = {Camera}`: `ViewsSpec => ShownIsWhatTheRowSays` |
| `ProjectImagesProofs!QuietPhotosAreWhole` | `MCSpec => []QuietPhotoIsWhole` |
| `ProjectImagesProofs!PhotosAreFound` | `MCSpec => PhotosAreThere` |
| `CameraServiceProofs!TypeCorrect` | `Spec => []TypeOK` |
| `CameraServiceProofs!TimerIsRight` | `Spec => []TimerRunsWhileUnused` |
| `CameraServiceProofs!OneStream` | `Spec => []OnlyTheShownStreamIsOn` |
| `CameraServiceProofs!ClosedIsOff` | `Spec => []ClosedMeansOff` |
| `CameraServiceProofs!NobodyIsRejected` | `Spec => []RejectedOnlyWhenStopped` |
| `ClientRecordsProofs!TypeCorrect` | `Spec => []TypeOK` |
| `ClientRecordsProofs!PlacesAndNumbers` | `Spec => []PlacesAndNumbersAreRight` |
| `ClientRecordsProofs!References` | `Spec => SerialRequestsKeepReferences` |
| `PagesProofs!HistoryIsRight` | `Spec => []DocumentHistoryIsTheProjects` |
| `PagesProofs!ClosingIsStoring` | `Spec => ClosingStoresTheForm` |
| `PagesProofs!LeadsBelongTogether` | `MCSpec => []LeadsAreOneClients` |
| `PagesProofs!CleanIsStored` | `MCSpec => []CleanFormIsStored` |
| `PagesProofs!PicturesAreTrue` | `MCSpec => []PicturesShowTheirStrokes` |
| `PagesProofs!ListsAreTrue` | `MCSpec => []PipelineIsTrue` |
| `PagesProofs!LogOutsHold` | `MCSpec => []LoggedOutIsOut` |
| `PagesProofs!LogInsOpenTheApp` | `MCSpec => []LoggingInOpensTheApp` |
| `PagesProofs!FieldsHold` | `MCSpec => []FieldsShowTheirValues` |
| `PagesProofs!OptionsHold` | `MCSpec => OptionsArePickedAsShown` |
| `FoundationsProofs!WritesAndTransactionsHold` | `MCSpec => WritesAreOwnAndComplete` |
| `MigrationsProofs!NothingIsSkipped` | `Spec => []NoMigrationIsSkipped` |
| `ArbostarImportProofs!PhotosKeepTheirObjects` | `Spec => []UploadedPhotosHaveObjects` |
| `ArbostarImportProofs!AppRowsStay` | `Spec => InAppRowsStay` |
| `ArbostarImportProofs!ProjectsPast` | `Spec => ProjectsKeepTheirPast` |

**LineItemForm.** `TypeOK` is not inductive: committing reads `reply.ids[k]`, so the answer must have
an id for every added row of the payload it answers. The inductive invariant is
`IInv == TypeOK /\ ReplyFitsThePayload`. The heart of it is `PlaceIsInThePayload`: the place of an
added row among the added rows, which the code gets from the index in an array, is within the length
of the answer; it is an argument on cardinalities. With `IInv`, `FlagsMatchTheSave` is inductive:
the flags of rows are raised and lowered by the same set, `SavedRow`, read once from the payload,
even if the rows have left the form since. `NewLineItemHasNoStoredSkills` needs `NothingStoredYet`:
while the line item has no id, no row of the page has one and `ids_in_db` is empty.

**What the line item page knows.** Four layers, each inductive given those below it:

1. `RInv` holds whatever is lost. The tables give out ids in order and have one row for each skill
   (`TablesAreNumbered`, `UniqueKeys`); a payload adds a row once; the form, what it would revert to, and
   what it has sent have one row for each skill; the rows that a save adds wait for their ids
   (`SentRowsWait`); and an answer gives each of them the id of a row with its skill, unless that row is
   gone (`ReplyIsTrue`). `IdsBelongToTheirRows` is part of it: it is not inductive alone, as it is the answer
   under way that puts the ids into the rows.
2. `OthersWereLost` counts: the line items stored, and the requests that may still store one, are at most
   the page's own and one for each answer that was lost.
3. `TrueUnlessLost`: as long as no answer was lost, no request is late, what the page takes for
   stored is what is stored, before the server has stored the payload (`SentIsKnown`) and after it
   (`SentIsStored`, which compares the table with what the page will know once it has heard the answer).
   `PageKnowsTheRows` and `CleanMeansStored` follow. After a lost answer they are false
   (section 5), hence `lost = 0`; the run that checks them loses none.
4. `RoomUnlessLost`: the bound on row ids, which only the model has, never stops a save, for each row
   stored was made on a page first. So a save of the model ends as the code's would.

The refinement maps the initial state and each step to one of `SavedView` or a stutter; `ServerStores` is the
step that stores, and that it stores what the form showed when the save began is read off the payload,
which by layer 3 differs from the tables in just what was shown.

**PhotoUploadQueue.** `QueueInv == TypeOK /\ ListIsTheTail /\ RunningIsTheLastStarted`: the waiting list
is exactly the last `Len(waiting)` uploads that were enqueued, in order, and while the queue runs the
current upload is the one before them. Order and exclusion follow from it at once. The counter needs,
besides, that `finished` only holds uploads that were enqueued, so that each `FinishOne` takes one away.

**ProjectImages**, for one page (with two `EveryFileExists` fails, section 3) and any number of uploads,
drawings and failures. `TypeOK` holds on any number of pages; it contains the check constraint of the row.
`FilesInv` holds until a connection breaks: the server works on the upload at the head of the queue only
(`OneIsWorked`), which has put the files it no longer has to put (`PutsAreThere`), and an upload that deletes the
display finds the row on the original (`DeletedIsStale`). So no upload deletes what another one put, and a commit
names only objects that are there; puts that go on after a failure only add.
`QuietInv` holds until something fails as well. `InOrder` places each upload by the length of the queue: those before
the head are done, those behind it wait. The row is that of the last upload that committed (`RowIsTheLast`), so
each upload finds the row as its kind demands and none is refused; the objects are that upload's while none puts
its own (`ObjectsAreTheLast`), the answer and the ETags are those of the upload they answer, and the row's
strokes are those of the last upload made or of the page that is about to make one (`StrokesAreUploaded`).
Once all is quiet, all of these speak of one upload.

**PhotoViews**, on these invariants. What a browser reads changes only while an upload runs
(`OnlyUploadsChangeTheFiles`); a request that saw none between its reads of the row and of the object finds the object
(`FileIsThere`), and it is the one the row names (`ReadIsTrue`, from `RowNamesItsObject`); so what the browser keeps
is of the drawing that its ETag names (`CacheIsTrue`), and still is when an undo brings that ETag back.
`FilesAreFound`, `ShownIsTrue` and `FilesStay` together are `PhotosAreThere`, the property of the run; `PhotosAreFound` and
`QuietPhotosAreWhole` carry the argument over to `MCPhotos`, where uploads, requests and the queue lie side by side.

**CameraService.** `IInv == TypeOK /\ OpensAreNumbered /\ OnlyMountedWait`: no open after the newest
has begun, an open only follows one that exists, an active service has begun one, and only cameras on
screen wait. The timer needs `consumers = Cardinality(mounted)`, for only a camera on screen can offer
"Try again", so that `activate` is never reached with the timer running. `OneStream` needs
`ShownIsFresh` besides: what is shown belongs to the fresh open and that one has its stream, so when
a stream is granted to the fresh open none is on. `NobodyIsRejected` needs `OnlyStopsOutdate`: until
something stops the camera the newest open is fresh, so an overtaken one is not the newest.

**ClientRecords.** `IInv == TypeOK /\ (\A list \in Lists : PlacesAreRight(list)) /\ NumbersAreLocked`,
for any number of leads and updates. `TypeOK` contains what the locks mean: whatever a
transaction has written it has locked, and no row is locked by two. `PlacesAreRight` says of a list of
addresses or contacts that its committed places differ, and that each transaction either keeps the
places as they are committed, or has locked the whole list and its own view of it has distinct places:
what it commits is then what it saw. `NumbersAreLocked` says that the committed projects have the numbers below
the allocator's, and that a transaction has taken no number or the very next one, with the allocator locked.
Each statement is one of a few kinds (`OrdinaryStatement`, taking a number, moving the list), and the
invariant is shown kind by kind.

No lock protects references, so `RInv` is about what a request has read. A transaction has *met* a row that it
wrote or that is in its snapshot. What its writes refer to it has met, unless the old row referred to it already
(`RefersToMet`); so has a lead the address and the contact it picked (`PicksAreMet`); and an update that removes
rows knows all that its own view refers to, and removes none of that (`RemovesUnused`). When its snapshot is what
is stored, its own view is what it commits, and a row it has met is there unless it removed it itself: that is
`References`. When others have committed since, neither holds, and that is the violation of
`InUseIsNeverDeleted` (section 5).

**EstimatePage.** `IInv` adds to `DocumentHistoryIsTheProjects` that the form, the payload and the tables have
a value for each field they may have: the transaction compares the document it is sent with the stored one, so
it needs that the sent one is a document. `ClosingStoresTheForm` needs `CInv`: while no answer was lost the page
knows what is stored in each field that nobody else changed; a save on its way sends what is shown as long
as nothing is typed; and a page that has moved the project on shows the document it moved to. The page that closes
with nothing left to save relies on the first, the one that closes after its save on the other two.

**LeadForm.** `LeadInv` is about a page none of whose records threw: putting something into a record that is being
saved throws (`tracked_record.svelte.ts:112`) and leaves the page half changed (section 5). Besides its types
it has `PickedRowsAreTheClients` (an address or contact with an id is a row of the client on the form, so none is left
when the client is cleared), `SaveIsOfThePicked` (a save on its way is of the same rows as the form, which is
what the records' own flag `saving` is for) and `ContactFollows`. The server puts the ids it was sent into the new
project, so `LeadsAreWhole` needs the first two; `PageStepsKeepLeads` deals with all steps that leave the tables alone.

**ClientForm.** `FormInv` holds until the answer of a save that was done gets lost. `RecordsKnowTheirRows`,
`RecordsHaveTheirIds` and `PageKnowsTheContacts` say what the page knows: each record with an id knows the text of its row,
no two have one id, and `ids_in_db` are the ids that are stored. The answer gives the added records ids by their place
(`PlacesInOrder`), so they get different ones. A page that has nothing to save then shows what is stored.

**PhotoMarkup.** `PhotoInv` follows a save from the canvas to the queue: the canvas shows the strokes of the history
(`CanvasIsTheHistory`), the picture that is composed is of the strokes that are sent with it unless someone draws
in between (`SaveIsOfItsStrokes`), and the only photo whose files may lag behind its strokes is the one whose
files are about to be queued (`FilesShowTheStrokes`).

**Pipeline.** `ListInv` says, project by project, that its last change is the latest of its history
(`ChangeIsLatest`), and that one made in the app which is worked or known as a proposal has been a proposal
(`WorkWasProposed`: pages work only with documents that they have seen). What the lists say follows from these by the
arithmetic of days.

**Sessions**, for any people, tabs and bounds. `OutInv` is about the worker: what was logged out of is invalidated and
stays so (`OutIsInvalidated`), and a call that is still on its way when its session ends is answered for nobody
(`RequestsAreRight`): that is `LoggedOutIsOut`. `TabsInv` follows one tab at a time. Until its log in has succeeded it
enters one state after it was loaded and stays in it, so the promise that it keeps is no other's; the log in forgets
that promise before it opens the app, so the request which the app then waits for is sent with a cookie that is there
(`FindsSession`) and finds its employee unless somebody logged out. `OpensTheApp` is the invariant: the tab shows the app, or
waits for such a request. It needs that nothing else is under way (`resolving`), which is why a form that was sent
twice, or another tab that logs out, is excepted (section 5).

**The inputs.** `FieldInv` says that a field holds what it accepts (`Held`) and, unless the user is in it, shows it; that
leaving an empty field gives an accepted value is where `FieldAssumption` is used (section 5). `DateInv` orders the range
whichever end is clicked first and through the preview under the mouse; that every day of a month has one cell
under its weekday (`CellsHaveTheirDays`) is arithmetic modulo 7, for any calendar. `DropdownInv` keeps the active option
among the options, which follow from the data and the text at every step, and `ClickPicksThePressed` is about a step: the
list is keyed by its items, so the place of the pressed item is looked up when the click comes.

**Writes and transactions.** `WritesInv` says what each write has done of the rows it was asked for so far: the inserted ones
are there under the ids it will return, what matches an updated one has the value of the last row that
asks for it, what matches a deleted one is gone. A batch of another company changes none of that, since it leaves the
rows of this one alone (`SameRowsOf`). `TxInv` follows a transaction through the queue of its connection: a branch
has at most one statement on its way, and it is the last one it sent (`QueueIsRight`); until one fails, what is written is
just what was answered (`WrittenIsRight`), so a COMMIT finds all that was asked for. Of a branch that goes on
behind the ROLLBACK only the last row it sent and the one before it can get through (`StraysAreRight`, `StoredIsRight`).

**Migrations.** `IInv` adds that a run has executed its file up to its next statement, and that what
is before a pending file is noted or pending too. That the file of a run is the first of its pending ones
rests on the lemma `SmallestNumber`, from the well-foundedness of `<`.

**ArbostarImport**, for any exports, crashes anywhere, and any number of runs and steps of users. `RunIsSound`: the
phases of a run end in the order that `Awaits` demands, and the objects that it stored are in the store.
`IdsAreGivenOnce`: ids are at most `last_id`, also those that the run remembers of rows that are gone, and a
photo that the context knows is the same one still; so what a run deletes or marks later is what it read
before, whatever users did meanwhile. `PhotosAreSound`: a row whose objects are being deleted is gone, and an uploaded
photo has its object, which is `UploadedPhotosHaveObjects`. `ProjectsAreSound`: until the phase of the projects the
context's closing dates are those of the table, for only imports close projects, and a history ends at its document
unless some export has no date of creation for the lead. `LateNumbersAreTheApps`: once an import
has raised the allocator it is above every number of every export, which is where `GapAssumption` is used, so
a lead made afterwards is in none of them. The steps that leave the projects or photos alone are dealt with in one lemma.

Only model-checked, and why:

* liveness (`EveryUploadSettles`, `UnusedCameraGoesOff`, `CacheCatchesUp`): out of the proof system's reach;
* `ImportIsNotRefused`: which employee a user of the export becomes is a recursive function over the
  list of the users, and that it gives no row twice is an induction over data. The proofs about the import
  use only that it yields at most one row for each user;
* `Queries`, `Validators` and the folds of `Prices`, whose trees and sums are recursive, for the same reason; no
  module with a proof reaches a `RECURSIVE` operator;
* `ClientCache`, the export scripts and the schedule, which have no proof module.

## 5. What the properties except

A property names the cases in which the code does not do what it says elsewhere; they were met while
modelling and are part of the models.

* *Forms.* An edit made while a save runs is dropped where the page replaces its form when the answer comes
  (line item page), or where it closes after it (estimate page). So is one that a photo, which can be opened while a
  save runs, finds typed back to the values from before that save. A save
  whose answer was lost and whose work skills were stored is refused by the unique key when it is
  repeated (`notes/pending_saves.md:274` expects a second row). If the user instead types the old values
  back, the page takes the save for undone and leaves the new ones in the database. A page that was loaded before others
  moved the document moves it back. A "Save as next document" that fails keeps the document it was
  about to have on the form. "Previous item" leaves without saving. Crew sizes follow the project's at each keystroke,
  so an item that passes through an equal size follows from then on. A contact that is referenced after
  the page was loaded makes each later save that removes it fail until the page is loaded again. Picking a client,
  address or contact during a save throws (`tracked_record.svelte.ts:112`). A second click on
  "Create the lead" or "Save photo" while the next page loads saves again. When `create_line_item_image`
  fails after the line item was made, a retry makes another.
* *Leads.* A request with a lead source that another transaction has just inserted cannot read it from
  its older snapshot and is refused (`lead_source.ts:20-28`).
* *Photos.* A photo whose upload fails keeps its old pictures beside its new strokes; `notes/todo.md:12`
  names failed uploads as still to be handled. A browser that asks while an upload runs may
  keep a body of one drawing under the ETag of another, and shows it as long as the row has that ETag; one that asks
  while an undo deletes the display is told "not found" once.
* *Client cache.* Changes that keep the number of rows and the second of the latest one are never
  noticed; addresses without a client are not in the copy, as it is read by an inner join.
* *Sessions.* A tab goes on showing one employee when another tab logs in as somebody else. A form that was
  sent twice, or a child state that fails, ends in the assertion of `client_cache.start`. A log in name that is
  another employee's email address is ambiguous.
* *Inputs.* Leaving a number input that must not be empty gives 0 even when its minimum is more. An option that is
  pressed while the text was put aside is picked from the restored list. `is_integer` gives
  no message of its own for a fraction.
* *Metrics.* A project's age is looked for in the last 45 days only. Imported leads without a date of
  creation have no history, and are never listed as proposals; imported work orders without
  estimates count as accepted though never proposed.
* *Migrations.* A file with a number below the largest noted one is skipped without notice, and a file
  whose run ended in its middle starts over.
* *Export.* Datatable exports skip rows when others are deleted or reordered in the middle, and write
  a row twice when it comes again; the payments script ends at the total and only warns; a count can agree
  though a row was lost and another came. A failed lead of `export_line_items` does not fail it, and a run in which nothing was fetched overwrites
  three files with nothing before its assertion fails (`export_line_items.ts:199-202`). The export of trees ends at the
  first gap of `EMPTY_RUN_LIMIT` set numbers, also when a gap has come about by felling; a row deleted from a
  catalog while it is paged hides another one.
* *Import.* A photo moved away from a line that the same run deletes comes back with the next run only;
  a line that is missing from `line_items.js` but known to the context leaves its photo's link dangling; payments
  that left the export lose their allocations (`import_payments.ts:253-256`); a
  client that was imported without contacts has two primary contacts once they come; a lead made in the app
  between reading the context and raising the allocator collides; a second ArboStar user of one name takes over the
  employee (`import_employees.ts:73`). A taxed invoice whose services come to zero leaves its project not taxable.
  Events of the schedule that trade their places, or take the place of a visit that was planned in the app, refuse the import on
  every rerun (single `UPDATE`s under a unique key), and an adopted visit goes with its event. A line that the
  main import deletes keeps its links to visits until the next schedule import.

## 6. What is not modelled, and the plan

Not modelled: state router glue (a library that forwards events; the pages that resolve or leave are
modelled), generated types and the schema (their unique keys are used), layout, galleries, colours,
the design system, the conversions of fields in the export scripts, the discovery of endpoints, crew roles
and taxes of the import, the rows that a new company is filled with, employee and company settings (single
statements), password hashing, SQL types and escaping.
Names, texts and addresses are model values; amounts are integers of their smallest unit.

What is left, in order:

1. `Transactions`: that serial callbacks implement the atomic steps that `Database` takes them for.
2. A proof of `InvoiceStatusesAreTrue`, which is about the sums of an import.
3. Removing line items in `update_estimate`, beside the edits of the same page.
