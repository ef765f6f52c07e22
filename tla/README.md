# A TLA+ verification of Binbin

Binbin is a desktop inventory program (`src/Software/Binbin Dashboard/`: a Flask
server, its window and an embedded PostgreSQL server, started by one process) and an
ESP32 firmware that brings a device onto a Wi-Fi network (`src/Firmware/NetConnect/`).
The repository has no tests and a two-line README: every definition here is read off
the source. Below, `app.py`, `main.py`, `pg_manager.py`, `migrate.py`, the templates
and `database/` are those of the dashboard, `NetConnect.cpp` is
`src/Firmware/NetConnect/lib/Netconnect/NetConnect.cpp`.

## 1. Inventory

| Component | Source | State | Operations | Hard part | Correct when |
|---|---|---|---|---|---|
| Request handling | `app.py:16-25`, `main.py:42-43` | one connection and one READ COMMITTED transaction per request | every route, in a thread of its own | statements of several requests interleave; a row waited for may change or go; deadlock detection | a request takes effect in one piece or not at all, and ends |
| Image gallery | `app.py:350-416` | `items_images.is_primary` | upload, remove, replace, make primary | check-then-act across statements; multi-row locks; forms of stale pages | an item with images has exactly one primary image |
| Specs and catalog | `app.py:121-246, 284-340, 451-475`, `edit_specs.html`, `schema.sql` | `items.specs` (JSONB), `spec_field_definitions` | create an item, add / edit / remove a field, create fields on the fly, show a page | concurrent merges; lock order chosen by the user; a page is two reads | no change is lost, the catalog keeps first labels, every key shown has its field |
| New-item page | `new_item.html`, `app.py:177-212` | rows of the form, the item picked, loads under way | add, remove, toggle a row; search, pick and load a base item; submit | parallel arrays, disabled inputs, answers out of order | what is submitted is what is shown |
| Embedded PostgreSQL and start | `pg_manager.py`, `main.py` | data directory, password file, configuration, server process, ports, window and Flask thread of each instance | first-time setup, probe, start, wait, migrate, open, stop, exit | kills and power losses between steps; time limits that expire on a server that comes up; two windows with one server; a server that is still stopping; a port taken by others | a program that serves is ready; what is stored fits together; every later launch works |
| Migrations | `migrate.py`, `schema.sql` | `schema_version`, the schema | baseline, each pending file | overlapping runs; a kill between file and version | none skipped, none twice |
| NetConnect firmware | `NetConnect.cpp`, `NetConnect.h`, `src/main.cpp` | flash credentials, flags, routes, LED | boot, join, access point, loop, save, reset, LED | link changes at any time; routes registered twice; power loss between two writes; requests lost or overtaken | always a way to new credentials, and onto a network that stays |
| Catalog page and filters | `app.py:30-117`, `index.html` | the filters in the URL, the page under construction | show, filter, clear, reload | a statement with its own snapshot per filter; casts of text to numbers; parameters named after fields | list and filters are right about every item that did not change meanwhile; only a limit can make the page fail |
| Datasheets | `app.py:230-241, 418-449, 499-515` | `items_datasheets` | add, remove, replace, serve | none: single statements on single rows | not modelled |
| Settings page | `app.py:547-563` | none | show two lists | none | not modelled |
| One-off scripts, firmware examples, bundled PostgreSQL | see `PROJECT.json` | | | | not modelled |

The components meet in three places. Handlers and migrations share the database
(`PgTable` states what they rely on). `main.py` runs setup, migrations and the server
in that order (`Lifecycle`; its one step `RunAll` is `Migrate` in detail). The pages
in the browser feed the handlers with what they knew when they were made: stale image
ids (`StalePages` in `Images`), removed fields (`EditField` in `Specs`), misaligned
arrays (`NewItemForm`), filters of fields that are gone (`Reload` in `Catalog`), pages of an earlier boot (`page` in `NetConnect`).

## 2. Modules

| Module | Models | Notes |
|---|---|---|
| `PgTable` | PostgreSQL as the handlers see it (external) | committed rows `table`, uncommitted and locked rows `buf`, rows a running statement has still to lock `want`; publishing, rollback, deadlock |
| `Gallery` | abstract: an item's images, each form in one step | `OnePrimary` is part of its initial condition and preserved by each of its actions |
| `Images` | the four image handlers, one action per SQL statement and row lock | `pc` is the statement a thread is at, `flag` is `has_images` / `was_primary`, `nextId` the id sequence |
| `ImagesProofs` | theorems about `Images` | section 5 |
| `SpecStore` | abstract: catalog and items, each form in one step | |
| `Specs` | `new_item` and the spec forms; the page reads | `todo[w]` is the list of statements request `w` has still to run, built by one operator per handler |
| `SpecsProofs` | theorems about `Specs` | section 5 |
| `Catalog` | `index`, the form of `index.html` | `picked` is what the user entered, `url` what the browser makes of it by the inputs' names: the properties compare the page with the former. A URL holds, for each parameter name, the values that the inputs of each field give it: `GetList` and `Get` read it by the name alone. `left` are the filters still to be made, in the catalog's order (`First`). `Conditions`, `Raises`, `Holds` are the SQL filter with its three outcomes |
| `CatalogProofs` | theorems about `Catalog` | section 5 |
| `Lifecycle` | `main`, `pg_manager` | one step per effect on disk or on a server, for each instance; `InitdbBegin`/`End` and `WriteConfigBegin`/`End` because a crash may come in between; `server` is also `"starting"` and `"stopping"`; `Unanswered`, `StartTimesOut` and `WaitTimesOut` are the time limits, each beside the step it races with; `together`, `bereft` and `late` remember what the exceptions of the properties name |
| `LifecycleProofs` | theorems about `Lifecycle` | section 5 |
| `Migrate` | `migrate.run_all` in several windows | `applied[m]` counts commits of a migration, `first` is the release whose baseline made the tables and so has its changes already (`There`) |
| `MigrateProofs` | theorems about `Migrate` | section 5 |
| `NewItemForm` | the spec rows of `new_item.html`, the base item loaded into them, and the zip of `new_item` | |
| `NetConnect` | the firmware, the Wi-Fi driver, networks, user | flash memory is `saved`; everything `Reboot` resets is RAM or driver; `pc` cuts `loop()` between `WiFi.status()` and `handleClient()`; `held` is the LED button in the user's hand, `strayed` remembers a release that the device will not hear after its press |
| `NetConnectProofs` | theorems about `NetConnect` | section 5 |
| `MC*` | the instances TLC runs | |

An action stands for a whole statement or step with its guards. Definitions whose
comment begins with *Mutant* are not part of any specification: they are the wrong
versions each property was tried against (`PROJECT.json`, `mutants`).

## 3. Runs

| Run | Question | Instance |
|---|---|---|
| `images_serial` | With one request at a time, does every form do what `Gallery` says, crashes included? | 1 thread, 4 ids |
| `images_races` | With two requests on any pages: does choosing a primary image repair the marks, and does every request end? | 2 threads, 3 ids, stale pages |
| `images_two_uploads` | Two first uploads at once. **Violation**: two primary images (`app.py:356`) | 2 threads |
| `specs` | Do concurrent forms lose a change of an item, or relabel a field; do failing and colliding creations leave nothing behind, and end; does a page find the label of each key? | 2 threads, 1 SKU, an ordinary and the blank field key, 2 labels, up to 2 new fields per form in either order |
| `catalog` | While other pages change items between the statements of the home page: are its list and filters right about the others, and what makes it fail? | 2 items, a number and a text field, plain, exotic and non-numeric texts, 2 changes |
| `catalog_clash` | The same with a text field named like the other's limit. **Violation**: a list without items for filters with nothing checked (`app.py:101`) | no changes |
| `lifecycle` | Launches next to each other or in turn, killed or without power at any step, without the server's port, or given up by any of their time limits: is what is stored and served consistent, is the server stopped, and does the program come back? | 2 windows, 3 crashes (about 200,000 states) |
| `lifecycle_first_launch` | Does the first launch work? **Violation**: `_create_database` connects before the server runs (`pg_manager.py:142`) | 1 window, no crash |
| `migrate` | Overlapping and killed runs over several releases, first installed at any of them: anything skipped or applied twice; when does a run fail; do runs wait for each other? | 2 windows, 3 migrations, 2 kills |
| `netconnect` | Whatever the link, the power and the requests do: does the device serve, offer a way out, forget what it should, light its LED when the button is let go, and end on the network that stays? | 2 networks, 2 requests in flight, 1 fault (about 180,000 states) |
| `netconnect_setup_page` | Is the setup page what an access point shows? **Violation** after a loss of network (`NetConnect.cpp:225`) | as above, safety only |
| `new_item_form` | Are chosen fields saved with the values beside them? **Violation** with a new field above (`app.py:184`) | 2 rows, 2 fields, 2 loads |

What the violations do *not* say: `images_two_uploads` is about requests that overlap
(two browser tabs, or one user and a slow upload). With one request at a time the
promise holds (`images_serial`, and for any number of rows `QuietAtMostOnePrimary`); and
whatever state a race leaves, the next choice of a primary image repairs it
(`PrimaryChoiceHeals` in `images_races`, proved for any number of threads).

### Bounds, and why they are enough

* *Threads, windows*: every race found or excluded is between two transactions; the
  locking rules of `PgTable` are pairwise but for deadlock cycles, which two threads
  with two rows already form.
* *Ids, rows, fields*: removal needs one image to delete, one to promote and one to be
  passed over; two keys make the smallest lock-order conflict. `RoomToAdd` (ids),
  `MaxNew` (fields of a form), `MaxRows` are guards that cut only longer histories.
  `images_serial` may use its ids up and stop, hence `CHECK_DEADLOCK FALSE`;
  `new_item_form` stops after the submission.
* *Crashes, kills, faults*: budgets (`MaxCrashes`, `MaxFaults`). Three crashes cover
  one crash in the setup, one in the start that follows and one in the recovery; a
  theft of the port counts as one. Time limits have no budget. In `netconnect` one fault can be a power loss
  between the two credential writes, and the network may change at any time without a
  budget.
* *Catalog*: two changes, so that one item can change before and after the statement
  that reads it, or two items in turn; `Entered` has a text of each kind the query
  tells apart: two plain decimals, a number that is not plain, a text that is none,
  and the empty one.
* *Migrations*: three, so that a run can be one ahead and one behind another one;
  `applied` is counted up to 2 (`Twice`).
* Symmetry only in `catalog` (its items), which checks no liveness.

### Fairness, and why the code justifies it

* Handler steps: weak (`Step`, `Answer`): the Flask thread and psycopg2 go on. Row
  locks: strong (`LockRow`, `Change`; `Run` of `Migrate`): PostgreSQL serves waiting
  transactions first come, first served. Deadlock victims: weak: the detector runs
  after `deadlock_timeout`.
* `Lifecycle`: weak per step of an instance and for the server that starts or stops; weak for a
  launch when no window is open: the user closes a window some time and starts the
  program again. `ServesAgain` is about that user. Strong for a Flask thread that is
  ready before its window (`RunFlask` while the window loads): the window is not the
  faster one every time. Strong also for each event that races a time limit: an
  answer within the second of the probe, a server up within the 30 seconds of
  `pg_ctl`, a connection within the 15 seconds of the wait. A limit may end any number
  of launches, but not every one for ever; a machine on which it does never serves, as
  TLC shows when any of the three is dropped. Nothing is fair about a second window, a kill, or another
  program giving a port back; the property names what then may stay.
* `NetConnect`, `DeviceFairness`: the processor runs (weak); `handleClient` does not
  pass over the next request for ever (strong: it is called in every loop); the driver
  joins a network that it can join (weak), and among infinitely many boots not always
  after the ten seconds (strong). Without the last, a user who saves the right
  credentials again after every time-out reboots the device for ever just as it
  connects: TLC shows that behaviour. `PersistentUser`: reloads the page, presses
  Reset when shown the control page, submits right credentials when shown the setup
  page, as long as the device is not connected. `Provisioned` is a promise to that
  user only.

## 4. What the code does that its texts do not say

Each has a run and is listed under `findings`: the race of two first uploads, the
first launch, the control page in access-point mode, the pairing of spec rows, and the
filter whose name is another field's limit. Met while modelling, without a run of
their own:

* Two removals of images at the same time can leave images without a primary one: the
  second read its row before the first promoted it, and promotes nothing although
  `app.py:383` says "Promote another remaining image to primary, if any are left"
  (`SomePrimary` with two threads and `remove_image` only).
* A fresh install of a release with migration files would execute them all on top of a
  baseline that has their changes already, since `schema.sql:51` always starts at
  version 1; `migrate.py:4-8` says that the baseline is the latest and the migrations
  are for those who upgrade. Where a file raises when repeated, that install never
  starts (`Raise` with `m <= first`; the exception in `OnceIfAlone`).
* One value that is not a number makes the home page fail as soon as its field has a
  limit (`app.py:95`), or not, by the order in which the server evaluates the
  conditions (`MustRaise`, `MayRaise`). The range shown counts plain decimals only
  ("Get min/max across all items for this field", `app.py:48`): "1e1" is filtered as a
  number and is outside of it (the `Plain` in `FiltersFitList`).
* Closing one window stops the server of the other (`bereft` in `ServingIsReady`).
* A form from a stale page can name a removed image; `set_primary_image` then takes
  every mark away and gives none (`StalePages = TRUE` with `SomePrimary`).
* A crash between the creation of the data directory and the last byte of the
  configuration blocks every later launch, and so does a configuration whose password
  does not open the cluster, which two simultaneous first launches may leave, as they
  share `_initpw.tmp`. `ServesAgain` excepts these states by name (`HalfSetUp`,
  `WrongPassword`), so that the run shows they are the only ones.
* A launch that fails between the start of the server and `main.py:51`, where
  `stop_postgres` is registered, leaves the server running. Two that share the setup
  can do so, one that is killed, and any launch by a time limit alone: `pg_ctl start -w
  -t 30` with `check=True` raises although the server goes on starting
  (`pg_manager.py:168-177`), the wait gives up after 15 seconds (`pg_manager.py:208`),
  and a probe that is not answered within its second (`pg_manager.py:218`) makes
  `pg_ctl` try to start a second server and fail. `main.py:10` says "Stop Postgres
  cleanly when the window closes"; there is no window then. These are the exceptions of
  `NoOrphanServer` for a failed launch, and the run shows that there are no others and
  that the next window to be closed stops such a server.
* A release of the LED button that is lost, arrives before its press, or is never
  sent (the mouse leaves the button before it is let go) leaves the LED dark although
  the hint says "Status LED turns off while button is held" (`NetConnect.cpp:70`). It
  stays so until the next press and release, a restart or a loss of the network
  (`strayed` in `DarkOnlyWhileHeld`).
* The value of a loaded base item is put into `value="..."` as it is
  (`new_item.html:214`): a text with a quote is cut there (`AttributeText`).
* Overlapping runs of migrations can execute a file twice and move `schema_version`
  backwards; `OnceIfAlone` excepts them by name (`overlapped`). There is no migration
  file in the repository yet.
* In access-point mode with the control page, the way to new credentials is
  *Reset* (`WayBack`), which the user must guess.

## 5. Proofs

Every invariant and every safety property of a step that a passing run checks is also
proved, for every value of the constants that the assumptions allow. Each inductive
invariant was an invariant of a run first.

`ImagesProofs`, for every set of threads, ids and initial images:

* `TypeCorrect`: the type invariant. `LocksExclusive`: no row is held by two open
  transactions. Its invariant `LockInv` adds that ids not handed out yet are neither
  stored nor written, without which an insert could meet another's row.
* `PrimaryChoiceHealsAlways`, without any condition on what overlaps: a transaction that
  chooses has taken the mark off each row it holds before it sets the new one
  (`ChoosingInv`), so the commit leaves one mark on the rows it holds; the property
  itself asks that these are all.
* `QuietImplementsGallery`, `QuietAtMostOnePrimary`, `QuietSomePrimary`: if requests
  come one at a time, or only replace and choose (`Quiet`), `Images` implements
  `Gallery`, and an item with images has exactly one primary. The inductive invariant
  `IInv` says what the transaction of each thread has written at each statement
  (`WorkerInv`, by `Expected` and `Target`): nothing weaker tells what a commit
  publishes. `CommitEffect` maps each commit to an upload, a removal with promotion, a
  choice or a stutter; every other step leaves the committed rows alone. Without
  `Quiet` the statements are false: `images_two_uploads`, and section 4.

`SpecsProofs`, for every set of threads, fields, items and texts, and forms with any
number of new fields, with no condition on what overlaps:

* `ImplementsSpecStoreAlways`: the forms implement `SpecStore`. What a commit publishes
  depends on statements long past, so the invariant follows the list of statements that
  a request has left (`WorkerInv`): it is new fields, then one change of an item, then
  `COMMIT` (`Changing`), or the reads of a page (`Reading`); until the change, only
  fields have been written; and each field written is new. After the change, the item's row
  is the committed one with this one change (`Created`, `Merged`, `Dropped`). For a
  transaction that waits, another one may have changed the row: that the change is
  made to the row as it is then, and that nobody can write it before the commit
  (`Exclusive`), is why no change is lost. `Covered` (the keys of items are in the
  catalog) must be part of it: `SpecStore` lets a form use no field that is not there.
* `PageLabelledAlways`: between the two reads of a page the catalog only grows, so with
  `Covered` the keys read first have a label then (`PageInv`).
* `TypeCorrect`. The assumption that no text is one of the marks `Absent` and `Clean`
  of `PgTable` says only that the marks are marks.

`LifecycleProofs`, for every number of windows and every bound on crashes:

* The inductive invariant has five parts. `DiskInv`: from the end of `initdb` on the
  data directory is complete, and whoever goes on with a configuration relies on that.
  `SetupInv`: while no two setups were shared, one instance at most is in the setup, and
  the password it made is in the file, in the cluster and at last in the configuration,
  in this order (`OwnSetup`). `ConnectedInv`: whoever holds a connection has a server to
  answer it, and whoever has a window the database and its schema, until another process
  ends under it. `FlaskInv`: a Flask thread comes with a window. `CareInv`: a server that
  starts or runs without any crash has somebody who will stop it or is about to register
  that (`Caretaker`), unless a launch has given up on this very server (`late`), and
  one that is starting has a `pg_ctl` that waits for it.
* `ConfigOpensClusterAlways` follows from the first two, `ServingIsReadyAlways` from
  `ConnectedInv`, the action property `NoOrphanServerAlways` from `CareInv`; `TypeCorrect`.
* The assumption that there are more passwords than places for one
  (`Cardinality(Password) > Cardinality(Instance) + 3`) stands for
  `secrets.token_urlsafe`: a new password is none of those in use (`PasswordIsNew`).

`CatalogProofs`, for every catalog, any items and texts, and any number of changes:

* `TypeCorrect`, `FiltersFitListAlways`: `PageInv` says of every filter made so far that
  it fits the items that did not change since the request began, although each filter is
  a statement of its own, and that the filters still to be made are empty. `RangeHolds`
  is the lemma about `RangeOf`: the plain numbers of finitely many items have a minimum
  and a maximum (`Extremes`, by well-founded minimality of the sizes of sets), and each
  of them lies between.
* `ListsMatchingAlways`, `FailsOnlyByLimitAlways` assume `NoClash`: no text field has the
  name of a limit of a number field. The first is false without it (`catalog_clash`), and `app.py` does
  nothing to ensure it; the field names of an ordinary catalog fulfil it, as do those of
  `catalog`. The invariant is that the URL says what the user entered (`Says`), through
  reloads and fields that come and go; with `NoClash` reading it by names gives that
  back (`CheckedRead`, `LimitsRead`), so the conditions of the query are those of the
  filters (`ConditionsRead`) and hold of what the filters accept (`ConditionsAccept`).
* Assumed: finitely many items; numbers are integers, in a unit of which all are multiples;
  no two number fields have a limit of one name; `Absent` (SQL's NULL) is no text.

`NetConnectProofs`, for every set of networks and every bound on requests and faults:

* `TypeCorrect`, `WayBackAlways`: the inductive invariant adds to the types that the
  server has no route before `begin` has ended and a home page that leads out
  afterwards (`RoutesOK`), and that a loop which has just seen no network has started
  the access point. `SetupOn` and `ControlOn` are the facts about registering over
  existing routes: the first handler stays, so the pair of page and handler stays
  whole.
* `RunsOnSavedAlways`: inductive as it stands.
* `DarkOnlyWhileHeldAlways`: the invariant `LedInv` looks ahead to what the button's
  requests on their way will do: the LED will be dark when the last of them is a press,
  or when there is none and `manualOverride` is set (`WillBeDark`), and then the button
  is held or its release went astray. For a device connected now, a dark LED is
  `manualOverride`, and that comes with the handler of the release (`LedRoutes`).
  `TailLed`, `AppendLed`, `LoseLed` and `DelayLed` say what each change of the inbox does
  to its last word.

`MigrateProofs`, for every number of windows and migrations and every bound on kills:

* `TypeCorrect`, `NothingSkippedAlways`, `ServesUpToDateAlways`: `NothingSkipped` is not
  inductive, for a commit sets the version to its own file whatever the others did. The
  invariant adds that every migration before the file a run is at has its change in
  place (`PassedInv`), so a slow run moves the version back but never past the truth,
  and that a run is at a file of the installed release or past all of them (`PlaceInv`).
* `OnceIfAloneAlways`: until two runs overlap, the version stands right before the file
  the one run is at, and nothing above it has been applied (`AloneInv`).

The assumptions are those named `...Assumption` in the modules; TLC evaluates them in
the runs. Only model-checked: all liveness (`EveryRequestEnds` of `Images` and of
`Specs`, `ServesAgain`, `EveryRunEnds`, `AlwaysServes`, `Provisioned`), which the provers
cannot do. `NewItemForm`, `LaunchSucceeds` and `SetupPageInApMode` are refuted by their
runs, and nothing about them is proved.

## 6. Not modelled, and why

*Datasheets* (`app.py:230-241, 418-449, 501-515`): independent rows, each statement
touches one row by its id, and nothing relates two of them; a form of a stale page
matches no row. *Settings page* (`app.py:545-556`): one SELECT. *One-off scripts* were
run once by hand against the server before the embedded one; the *firmware examples*
are earlier versions of what `NetConnect.cpp` does; *PostgreSQL* is third-party, and
`PgTable` states what the handlers see of it. Nearly all lines of the repository are
PostgreSQL's headers.

Within the modelled parts: how long anything takes (each time limit is a step of its own
that may win or lose any race, in `Lifecycle` as in `NetConnect`), what a name derives
to as a field key (a name has a key, several may share one, and it may be blank), the
HTML, except where it decides what is submitted, the sort order of fields, file names
and images' bytes. `PROJECT.json` lists each part with its reason, and each hazard that
no property covers with a note.

## 7. Plan

1. Done: every component of section 1 that is modelled has its module, its runs and,
   but for `NewItemForm`, the proofs of its safety properties.
2. Next, proofs: what *is* true of the new-item page. While every row submits both its
   field and its value, `SelectSeq` drops nothing and each chosen field is saved with the
   value beside it; a misaligned form must have a row with a new field or a loaded one
   that is not in the catalog.
3. Later: the exact exception of `SomePrimary` when requests overlap (two removals, or a
   page that shows a removed image); an abstract specification of provisioning that
   `NetConnect` implements.
