# HouseHub in TLA+

HouseHub is a self-hosted organiser for a household. Every household has one
document (people, chores, events, lists, notes), sealed in the browser under a
key the server never sees; a Node/PostgreSQL server stores the ciphertext, the
memberships and one wrapped copy of the key per member and per wall display, and
runs the services around it: accounts, billing, calendars, cameras, a connection
to Home Assistant, an activity log, upgrades of itself.

The modules here follow that division:

1. the **vault**: an optimistic compare-and-swap on the sealed document with a
   bounded undo history, key rotation, the sync loop in each browser, the merge;
2. the **household**: who is a member, who is an admin, who holds which key,
   which screens may show the document, and what takes everybody's consent;
3. the **services** of the server, each with the requests, background jobs and
   crashes that meet in its tables;
4. the **document** itself: chores and whose turn it is, projects, timers,
   reminders, lists, groceries, meals, the evening's check-in, what is brought over
   from the old HouseHub; and the browser that signs in to open it.

Paths are relative to the repository root.

## Inventory

| component | state it keeps | operations | hard because | module |
|---|---|---|---|---|
| vault routes, `server/src/routes/vault.js`, `displays.js` | `vault_documents`, `vault_revisions` | GET, PUT, revision | the epoch is read before the transaction; saves race, answers get lost | `VaultServer` |
| key rotation, `households.js` | `households.key_epoch`, `household_keys`, the document | rotate-key | must reach everyone, races with joins and saves | `VaultServer`, `Household`, `VaultSync` |
| session and sync loop, `web/src/lib/session.js`, `App.jsx` | key, `state.version`, `data`, `latest`, `dirty`, timer | load, save, poll, flush, import, hide, reload | every `await` lets other callbacks in | `VaultSync` |
| merge, `web/src/api.js` | none | `mergeDocuments` | three kinds of parts, merged in three ways | `DocumentMerge` |
| households, invites, displays | members, keys, invites, displays, approvals | roles, grants, rotation, proposals of screens | counts without locks; an open browser may hold an old key | `Household` |
| consent: `proposals.js`, `privacy.js` | proposals, votes, accounts | propose, decide, apply, erase, delete | unanimity over admins who come and go | `Consent` |
| accounts and sessions, `auth.js` | `users`, `sessions` | sign in, lock out, change password, second factor | read in one statement, written in another | `Accounts` |
| rate limits, `middleware/ratelimit.js` | `rate_limits` | consume, refund, sweep | the refund is a statement of its own | `RateLimit` |
| audit log, `services/audit.js` | `audit_log`, a hash chain | append, verify | appends side by side, failures swallowed | `Audit` |
| billing, `services/billing.js` | `invoices`, `subscriptions`, `wallet_config` | invoice, watch, pay, expire | late and partial payments, overlapping sweeps | `Billing` |
| upgrades, `services/upgrades.js` | `upgrade_jobs` | queue, run, review, publish | a detached job, two reviewers, restarts | `Upgrades` |
| calendar push, `services/caldav-sync.js` | `caldav_pushed` (uid, etag, text) | plan, PUT, DELETE | phones edit the same calendar; a crash before the etag is kept | `CalDavPush` |
| calendar feeds, `services/calendars.js` | `calendar_feeds`, their names in the document | add, remove, refresh | a batch per pass, passes overlap; server and document change one after the other | `Feeds` |
| cameras, `services/camwatch.js` | one connection, one cached session | connect, watch | requests share the session across a change of address | `Cameras` |
| home assistant, `home.js` | connection, names, cached states | connect, organise, control | caches older than a control | `HomeDevices` |
| remembered devices, `lib/remember.js`, `Shell.jsx` | a cookie and a key record per browser | sign in, resume, policy | two tabs, one record | `Browser` |
| chores, `lib/completion.js`, `rotation.js`, `cadence.js` | marks, pauses, moves, the archive | tick, skip, correct, move, pause | marks and archive must agree; boundaries of days | `Chores` |
| projects, `App.jsx`, `lib/project-events.js` | days, stages, progress | plan, bump, edit | derived and stored values mixed | `Projects` |
| timers, `lib/timers.js`, `lib/timer-voice.js` | timers, the screen's next look | set, pause, extend, stop | the screen sleeps until the soonest end | `Timers` |
| reminders, `lib/relay.js`, `lib/alerts.js` | what was relayed | send, record, snooze | several screens, one phone | `Reminders` |
| maintenance, `jobs/maintenance.js` | none of its own | sweeps | ticks overlap, crash between statements | in the modules above |
| AI, `services/ai-providers.js`, `AiPanel.jsx` | providers, a household's choice and consent | offer, choose, agree, ask | the choice is read before the question is sent; panels go stale | `Assistant` |
| the evening's question, `lib/checkin.js`, `useCheckinPrompt.js` | the cached questions, what each screen shows | ask, cache, turn to another evening | answers arrive late and out of order | `Evening` |
| lists, `lib/lists.js`, `App.jsx` | lists and their items, what each screen has open | add, tick, clear, remove, answer "adding as" | a display asks for a name before it writes | `Lists` |
| groceries, date jars, second row, `App.jsx`, `SecondBlock.jsx` | groceries by store, ideas by jar, picks per screen | add, buy, clear, remove a store or jar, draw | what a removed place held must go somewhere | `Shelves` |
| meals, `App.jsx` | meals per day | edit a day in a dialog, copy to others | a dialog writes the whole day | `Kitchen` |
| nightly check-in and agenda, `App.jsx`, `lib/checkin.js` | the agenda, what each night filed, walkthroughs open | open by itself, step, skip, go back, file | steps depend on a document that others edit; midnight | `Nightly` |
| import, `lib/legacy-import.js`, `lib/document.js`, `ImportPanel.jsx` | the file that was picked, what was found in it, additions under way | pick, read, add, start over | ids of two documents meet; additions wait for the server over a copy of the document |
| the old database, `lib/sqlite.js` | none; the two files of the old server | open a copy, replay the log | the files are copied while a server writes them |
| start-up, `db/migrate.js`, `index.js` | `schema_migrations`, an advisory lock | boot, migrate, listen, stop | servers of different builds, killed between steps | `Startup` |
| health and error texts, cryptography, voice, user interface, deployment | | | | see *Not modelled* |

The components call each other through HTTP (browser to server), through rows
of PostgreSQL (handler to handler, handler to maintenance) and through React
callbacks (within a browser). `PROJECT.json` lists under `hazards` the lines
where that could go wrong, with the property that would show it.

## Modules

A definition is mapped to the lines it stands for; the `...Next` of a component of the
document is mapped to the JSX that offers its controls, whose conditions decide which
actions a person can take.

An auxiliary variable is named as such where it is declared; it records what
happened for a property to speak of and never enables anything.

| module | composed in | proofs |
|---|---|---|
| `VaultRegister` (abstract: a numbered log with compare-and-swap writes) | refined by `VaultServer` | `VaultServerProofs` |
| `VaultServer` | `MCVaultServer` | `VaultServerProofs` |
| `VaultSync`, over `VaultServer` by `INSTANCE` | `MCVaultSync` | `VaultSyncProofs` |
| `Household` | `MCHousehold` | `HouseholdProofs` |
| `Billing` | `MCServices` | `BillingProofs` |
| `RateLimit`, `Audit`, `Accounts`, `Consent`, `Upgrades`, `Startup` | `MCServices` | `ServerProofs` |
| `CalDavPush`, `Feeds`, `HomeDevices`, `Cameras` | `MCServices` | `HomeProofs` |
| `DocumentMerge`, `Projects`, `Timers`, `Shelves`, `Nightly` | `MCDocument` | `DocumentProofs` |
| `Lists` and `Kitchen`, over `Sublists`, `Import` and `OldDatabase`, together in `ListsAndMeals` | `MCDocument` | `DocumentProofs` |
| `Chores`, `Reminders`, `Browser`, `Assistant`, `Evening` | `MCDocument` | `ScreenProofs` |

### VaultServer

`document` and `revisions` are the two tables, `householdEpoch` is
`households.key_epoch`, `req` the requests in progress, `history` an auxiliary
record of every ciphertext stored. A request is `issued` by any client with any
contents, `admitted` by its middleware (`LoadHousehold` copies the epoch, as
`loadHousehold` and `loadDisplay` do), handled in one step and `answered`. One
step is right for the handlers that write: PUT holds the document's row `FOR
UPDATE` until it commits, rotation holds the household's row and updates the
document's. A save and a rotation can block each other (the INSERT of a
revision needs the household's row for its foreign key); PostgreSQL then aborts
one of the two, which is `Fail`. `LoseAnswer` is a handler that committed and a
client that saw an error. A display's PUT archives and never trims, as the code
does, and its GET does not compare epochs. Versions are bounded by `MaxVersion`,
rotations by `MaxEpoch`, in the guards.

Properties: `VersionNamesOneDocument`; `RevisionsWhole`, which is three things: all rows
are filed under the current epoch (`EpochsAgree`), no version between is missing
(`RevisionsContiguous`), and every save that was acknowledged and is kept is filed under
the epoch it was admitted in (`FiledAsAdmitted`). An epoch here is the label of a row: the
server cannot see which key a ciphertext was sealed with, and `sync_old_key` shows that it
need not be that epoch's. Further `RecoveryPath` (no save destroys the only copy of what
was there), and `ImplementsRegister`: with the middleware, epochs and revisions forgotten,
every behaviour is one of `VaultRegister`.

### VaultSync

Each device has a session (key, version), the screen's state (`data`, `latest`,
`dirty`, `timer` are the variables of `App.jsx`), one load slot and one or more
save slots. `saveVault` is three steps, split at its two awaits: the version to
seal for is fixed in the first (`Sealing`), the base version is read again in
the second (`SendPut`), and the answer is the third. `loadVault` takes the
version over before it opens the document (`LoadAnswered`), and the page takes
the document later or drops it (`ApplyLoad`, `LeavesDocument`). A document is
the set of its rows; sealing binds key and version, so `Opens` fails when either
differs. `basis` and `onScreen` are auxiliary: the stored version that a
document in memory really contains, whatever `state.version` says.

Abstractions: one list stands for all lists of a document, and a row has no
fields. A device has one load at a time, and reloads only when its load slot is
free; `restoreRevision`, signing in and out and the rest of `session.js` are
left out. Rotation is the sequence of calls of `server/test/e2e.test.js` and
`journeys.test.js`: docs/SELF-HOSTING.md:139 mentions a "Rotate key" screen,
and no screen of the web client calls the route.

### Household

A request is let in by `Send` (role and epoch are read), checked in a second
step and written in a third; several are in progress at once, and `Refuse` ends
one at any point, keeping what it has committed. Rotation is the only handler
that locks the household's row (`HouseholdLocked`): every INSERT with a foreign
key to that row waits for it, so grants, managed accounts, first-time joins,
proposals and activations do; updates of a role, removals and extensions do
not. A grant is an upsert: over a key row that is there already (`SpareRow`: a rotation
stores every row it is handed, also one for somebody removed since its list was made) it
updates that row, takes no lock on the household, and goes through in the middle of a
rotation. `overlooked` (auxiliary) names who came in that way. Activation holds the display's row from its first read to its commit and is
one step. Revocation is three statements without a transaction; the second and
third touch different tables, nothing reads between them, and they are one step.
`held` is the key in each browser's memory; it changes only when the household
is opened again. Extending sets a later expiry only; an expiry in the past
changes nothing that `TimePasses` cannot.

Left out: creating, archiving and deleting a household, settings, scopes,
`max_displays`, `canWrite`, links handed out again, the signatures of approvals.
Roles are admin and adult; the other two have the same rights in these handlers.

### DocumentMerge

`VaultSync` treats a document as a set of rows without contents; this module is
about what a merge makes of the contents. The parts of a document are merged in
three ways (`api.js:82-126`): rows and days by their key (`Keyed`), settings as
a whole (`Settings`), and everything the merge does not name, which is theirs
(`Leftover`: the archive, the calendars, what was relayed). Each save is one
request here, retried after a conflict as `saveVault` does. `own`, `touched` and
`over` are auxiliary: what was written on this device, and the version that was
merged last. `MergesKeepData` says what a chain of conflicts keeps: what was written here
to rows, days and settings, and every row of the document merged with. Of `Leftover` it
says that the stored document has what the other one had, which is to say that what was
written to the archive or to the record of relays here is lost. A row deleted here may
come back, as the code says of itself.

### Household's neighbours: Consent

Admins propose to wipe the completion archive, everybody else votes, a second
call applies it, and the archive panel wipes what was approved; meanwhile people
are removed, demoted, promoted or erased. `call` is a request between its
statements; `late` (auxiliary) names who became an admin while the votes were
counted. Erasing an account and deleting a household count the others first, and
so are in here too, as is the orphan sweep. `WipeNeedsEveryAdmin`,
`GoingSparesTheOthers`.

### Billing, RateLimit, Audit, Accounts

- `Billing`: a sweep lists the open invoices, asks a node about one after the
  other and writes what it was told. The tick does not wait for the sweep before
  it, and `check-now` starts another. One asset stands for three, and one
  household's invoices for all. `InvoicesStandApart` is two things:
  `ExtendedOncePerInvoice` holds as long as sweeps do not overlap (`overlapped` is
  auxiliary), `AddressesAreFresh` always. `NoMoneyGoesUnrecorded` is the liveness property of the watcher.
  Invoices age whenever they like (`GrowOld`), between a payment and the answer of a node as
  well; what the property leaves out is an invoice that expired before it was ever
  detected (`ExpiredUnnoticed`; `noticed` is auxiliary).
- `RateLimit`: one bucket whose tokens are those of `updated_at`; `credit` is
  what time has added since. `FairBucket` is a bound from any moment on
  (`Observe` starts the count anywhere) and a bound on the debt.
- `Audit`: an entry is appended under an advisory lock in a transaction of its
  own, and its failure is swallowed. The hash of an entry is the entry; the log
  is a set of rows with their ids, as the table is.
- `Accounts`: a login, a password change, a change of policy or of the second
  factor is a read, a verification and a write. `crossed` (auxiliary) tells when
  two of them ran side by side, which is when the properties may fail.

### CalDavPush, Feeds, HomeDevices, Cameras, Upgrades, Startup

- `CalDavPush`: an event's text is a number and etags are never repeated. Phones
  edit the same calendar, pushes overlap, the server may stop anywhere. `CleanPushIsTrue`
  is about every event of a clean push but those it takes for unchanged because an earlier
  push wrote them and did not note it (`TakenForUnchanged`).
- `Feeds`: a pass takes the due rows, oldest first and no more than a batch, and
  reads one after the other, in any order. Nothing waits for it to end: `Passes` are slots
  for as many as overlap. Anybody may have one row read now. A pass that broke off counts for
  nothing, nor does one that began before the last that counted had ended (`left`, `missed`).
  Who was read before whom is a relation between the rows (`syncedBefore`) in place
  of their time stamps. A client adds or
  removes at the server and then in the document, and may not live to do both.
- `HomeDevices`: states are counters of how often a device was switched, so that
  an older answer shows. Names are merged by a read and a write.
- `Cameras`: one stored connection and one cached session, which requests share.
- `Upgrades`: the job runs detached; reviewers approve, reject and push, each in
  several statements, and the server stops anywhere.
- `Startup`: servers of four builds on one database. A build is what it ships:
  the checksum of each migration. The lock goes with the connection of whoever
  dies; `UpMeansMigrated` is what a server that listens may rely on.

### Chores, Projects, Timers, Reminders, Browser, Assistant, Evening

- `Chores`: one chore, its marks per day and its archive. `OnDay`, `AssigneeFor`,
  `Missed` and the rest are functions of the chore and the day, as in
  `lib/cadence.js`, `lib/rotation.js`, `lib/completion.js`; every button of a
  chore row is an action. The editor writes cadence, rotation and pause at once
  from the copy it opened with; here each is an action. Monthly cadences and
  pauses that come back every year are left out.
- `Projects`: days and progress stored, or derived from stages.
- `Timers`: the screen looks when the document changes and when the soonest end
  has come; `NoSilentFinish` is what that must be enough for.
- `Reminders`: two screens awake over one document, the send before the record. What was
  recorded has no date in its key, so it stays until a screen that is awake tidies it away
  (`Pruned`); `delivered` is what reached the push service today, `yesterdays` and
  `crossing` (auxiliary) are records and sends that midnight fell upon.
- `Browser`: tabs, the cookie they share, the one key record, the policy.
- `Assistant`: providers by their address, a household's choice, consent by
  provider, two admins' panels and one question on its way. `blurred` (auxiliary)
  names a provider whose address has changed since it was last judged local or
  not, `confirmed` whom an admin has agreed to.
- `Evening`: the effect of `useCheckinPrompt` on every screen, with answers that
  are late, refused, or meant for a date the screen has turned from.

### Lists, Shelves, Kitchen, Nightly, Import

- `Sublists`: what `filter` leaves of an array, as the entries at the places of a set
  (`AtPlaces`), which can be reasoned about without induction over sequences.
- `Lists`: the lists of the household and what each screen has open of them. A
  display asks who is adding before it writes (`asking`), and answers go to the
  list that is open then. `EntriesStand` says what an entry survives.
- `Shelves`: three things that are kept in places. Groceries stand under a store
  (`AnyStore` when under none), date ideas in a jar, and the second row shows what
  each screen picked. Removing a store or a jar moves what was in it.
  `NothingOutOfSight` is one sentence for the three, and says of a jar that a tab draws
  no idea of it twice while it has others. `astray` (auxiliary) is what was written to a
  place that was not there: a removed store that a form still has chosen or that "Bought
  before" remembers, a store spelled otherwise, a removed jar the second row still
  has, a choice of the kind before. It is left out until it is moved, or the place is there.
- `Kitchen`: a dialog holds a day's meals while it is open and writes them as a whole;
  copying writes other days. `took` and `unseen` (auxiliary) are what the dialog took
  off, and what others put there since. `PlansStand`.
- `Import`: a household and a file are sets of people, jars, rows, meals and scores
  that name each other by id; `MergeImport` is `mergeImport`, id by id, with the fresh
  ids (`Numberings`) chosen among those nobody has. An "owner" is any of the fields
  that name a person. `PressAdd` and `AddIsDone` are the two halves of `apply`, split
  where it waits for the calendars: the second writes what it makes of the document the
  first one saw. `imported`, `stands` and `mixed` are auxiliary. `ImportsStand` is what
  the panel says of itself (`ImportsOnlyAdd`) and that it offers the file it lists
  (`OfferedIsPicked`). What a row says (`says`) is its title, or its text where it has
  none: two rows without a title count as the same title, which is how entries are taken
  for others (`SameTitle`, `PassedOver`); prompts are strings, which `{ ...raw }` takes apart
  (`Unpacked`). Assumed of a file is what the old HouseHub kept: ids are of one
  thing, references are to somebody, names differ, and one entry without an id stands
  for all of them. The counts of the grocery history and calendar subscriptions are left out.
- `OldDatabase`: the main file, the frames of its log and the header's generation, with
  the old server's writes, rollbacks, checkpoints and restarts of the log as actions of
  an external program (SQLite's WAL mode), and one copy, of which some frames may be
  missing or damaged. A frame's checksum is the frame that it continues. The two files
  are copied at one moment. `CopiesReadWhole`.
- `ListsAndMeals`: the four side by side, for the one promise they share:
  `WhatIsWrittenStands` is `EntriesStand`, `PlansStand`, `ImportsStand` and
  `CopiesReadWhole`.
- `Nightly`: the check-in of an evening, its steps a function of the document when
  it was opened, on a screen whose clock goes on; the agenda that it works off, and
  the opening by itself. `WalkthroughHolds`.

What these hold is edits of one document, so that several screens are several
dialogs open over it; that their documents may differ is the business of
`VaultSync` and `DocumentMerge`.

## Runs

| run | question | instance |
|---|---|---|
| `vault_server` | do the routes keep their promise whatever clients send | a member's and a display's request at a time, 2 documents, versions to 4, epochs to 2, 2 revisions kept |
| `sync_mishaps` | what survives overlapping saves, and one mishap around a rotation | a browser and a writing display, 2 save slots each, versions to 4; in each of its two scenarios only one of the two polls |
| `sync_settles` | do saves end and screens agree | 2 devices, 2 rows, with fairness |
| `household` | rotation, last admin, dark displays | 2 admins, a guest, a display, an invitation, 2 requests at a time, 5 sent, 3 keys |
| `services` | the services and their start | 18 topics, below |
| `document` | the document, the merge, the browser, the assistant, imports | 20 topics, below |
| `sync_lost_update`, `sync_old_key`, `sync_no_retry`, `merge_untouched`, `household_no_admin`, `household_keyless` | six statements of the repository that the code does not keep | small instances |

Why the bounds are enough: each hazard needs two actors, at most two requests
each, and one thing going wrong in between. Two revisions kept and four versions
is the smallest instance where trimming drops a row that a display's writes
piled up. Two overlapping saves per device are what `flush` can have in flight
between a hidden page and its timer. Five requests sent to a household are two
changes of membership, a rotation around them, and one more. `Topics` in
`MCHousehold` splits a household's life into four mixes of requests, each of
which is explored completely, instead of one mix with shorter behaviours.
Symmetry is used for rows, founders and request slots, and never in a run with
liveness.

`MCServices` and `MCDocument` compose modules that share no state: a behaviour
chooses a topic, and what belongs to the others stands still, so nothing is lost
by it but time. Within a topic, conditions on the steps keep the instance small.
What each of them leaves out:

- `payments`: one invoice that is paid in two parts, two sweeps
  (`OneInvoice`); `quotes`: two invoices, and no sweep (`NoSweep`).
- `password`, `remembered`, `sessions`, `factor`: the pairs of requests that
  read and write the same columns, two visits at a time. Sessions grow old only
  in `sessions`, which has one visit at a time (`TimeStands`, `OneVisit`).
- `proposals`: one proposal and three people of whom the first never changes;
  one browser applies (`StayAsTheyAre`, `GoneIsGone`: who is out stays out).
  `erasure`: two admins who end things and a third person who does not; no
  proposal, and one deletion at a time (`OnlyParentsEnd`, `OneEnding`).
- `push`: one event, two pushes at a time, edits between pushes
  (`EditsBetweenPushes`: a push has its set from its request), switched on once.
- `names`: organisers only. `switches`: controls, polls and displays, no names.
- `feeds`: three rows, a batch of two, two passes at a time, over calendars that
  do not change then (`OverlapsAlone`). The third may be an imported file and
  stays; rows come and go while nobody reads (`ListedBetweenReads`); the first is
  the one that changes and is read by hand (`FirstIsWatched`).
- `connect`: two admins who connect, systems up. `watch`: one admin and one who
  watches, one password. Faces are the same session and are left out.
- `record`: two days of one chore, every button of its row and the archive.
  `turns`: three people, five days, rotation and cadence changed under way.
  `pausing` and `moving`: a pause of two days or without end; one occurrence
  that is moved.
- `reminders`: two reminders, two screens; the second is only snoozed and sent by
  the tablet, which stays up. `browser`: sign-ins one after the other
  (`~disturbed`), the second tab never gets into a household.
- `merging`: two devices, one part of each kind, three edits, of which the last is
  made while a merged save is under way (`FewEdits`).
- `assistant`: two admins of whom one at a time changes something, the server's
  own provider and a hosted one, and one question, which alone moves while it is
  under way (`FewProviders`). `evening`: two evenings, one of them
  kept, one question under way per screen, three answers.
- `lists`: a phone that stays on the first list and ticks its first item only, and a
  wall used by somebody else or by nobody who says so (`FewEntries`). `shopping` and
  `rows`: nothing is left out. `jars`: ideas are drawn as long as no jar was added,
  the two ways of asking the assistant come at one moment each, one idea is retired at
  a time (`FewIdeas`). `meals`: two dialogs, each on a day of its own that the other
  may copy to; the second edits only a meal for everyone (`FewMeals`).
- `nightly`: one screen, two nights, work that ends on the first or never; one step is
  skipped, a walkthrough is closed where it starts or ends (`FewNights`). `agenda`:
  what is raised and removed before the first check-in (`FewTopics`).
- `import`: a household of one person and one jar, two files, one that has the same ids
  for others, rows with and without titles, archived agendas and prompts, and one of the
  older kind; seventeen ids. One row is written or removed by hand while
  what was found waits; two additions or two readings are under way together only before
  the first is done; fresh ids are given out in order, which changes nothing, as ids
  are only compared (`FewImports`). `copies`: two pages, four writes, and every set of
  frames may arrive.
- `startup`: two servers, three migrations; one build with the first file, this
  one, one with a file missing, one with the first file edited.

`CHECK_DEADLOCK FALSE` is given where the system may stop: a household with no
requests left to send, devices that cannot open the document any more, a service
whose requests are answered, a document whose days have run out. `vault_server`
checks for deadlock: there somebody can always send something.

Fairness. `VaultSync!Fairness`: a device's timers fire, its promises settle, its
polls run, and the server handles what it was sent: one weak fairness condition
per device, save slot or request, which is what an event loop gives. Nobody has
to edit, reload, hide a page or rotate. `SavesSettle` needs nothing more: a
conflict means that some other save went through. `BillingFairness`: the interval
starts sweeps and their promises settle (one condition per sweep, which has one
step at a time it can take), a node that is asked about an invoice again
and again answers at times (strong fairness: another sweep may come in between),
and the server is not restarted for ever. Nothing is assumed of time: invoices grow old
and expire at any moment, so that `NoMoneyGoesUnrecorded` says of money that it is recorded,
or that its invoice expired without having been detected, or was a day beyond its hour.

## What is proved

TLAPS checks these for every value of the constants, from the named assumptions
of the modules alone. `PROJECT.json` says of each theorem what it establishes.

| module | theorem | what makes it inductive |
|---|---|---|
| `VaultServerProofs` | `TypeCorrect`, `VersionsName`, `OneEpoch`, `HistoryIsWhole`, `HistoryIsFiled`, `SavesCanBeUndone`, `Implements` (`Spec => Register!Spec`) | `IInv`, below |
| `VaultSyncProofs` | `DevicesUseTheRoutes` (every step is one of `VaultServer` or leaves it alone), `FreshSaves`, `SealedSavesOpen` | `SyncInv`, below |
| `HouseholdProofs` | `HouseholdTypes`, `CutScreensStayDark`, `RotationsReachEveryone`, `UndisturbedLeaveAnAdmin` | `HouseholdInv`: what each request has been promised by what it checked; who is active behind a rotation's list was granted a key over a spare row |
| `BillingProofs` | `AddressesStayFresh`, `OncePerInvoice`, `InvoicesApart` | an index is given out once; what the only sweep has at hand nobody has settled, and it has it at hand once |
| `ServerProofs` | `BucketsAreFair` | what is still owed: tokens below zero are refunds due or lost, and what a bucket has with what it gets back never exceeds what it held plus what time earned less what was admitted |
| | `TheChainVerifies` | whoever holds the lock follows the last row, and its own id will be above all |
| | `CutOffSessions`, `OnePassword`, `CodesAreProven` | a login on its way carries the hash the account has unless a change overtook it, and a change that was to cut sessions off has marked every login that was on its way |
| | `EveryAdminAgreed`, `OthersAreSpared` | one decision on a proposal at a time is recorded and not resolved; whoever counts counts everybody there is, or remembers who came after |
| | `ReviewedBeforeItGoesOut` | what is under review has passed gate and tests; what was refused is worked on only by those who began before |
| | `ServingMeansMigrated` | who holds the lock has read what the ledger says; what a server found there when it began to listen stays |
| `HomeProofs` | `StoredConnectionsWereProven` | what a request brings back from a system is a pair that was accepted, and it is stored whole |
| | `GivenNamesStick`, `AnsweredControlsShow` | whoever organises alone holds what is stored; what a poll was told before it is marked older is at least as new as what was answered |
| | `CleanPushes`, `PhonesAreHeard` | the etag of an object as a phone left it is known to nobody; what a push noted is what is there, unless it went astray, and a push sends again whatever went astray and differs from what it takes for sent |
| | `EveryFeedHasItsTurn` | the passes that left a row out, and the rows before it, are together fewer than the rows, and by one more while a pass that counts has none of those rows left to read |
| `DocumentProofs` | `NoTimerFinishesInSilence` | the screen never sleeps past the soonest end |
| | `MergesKeepWhatTheyMerge` | a save under way still says what was written here, and has everything of the version it was merged with |
| | `PlannedDaysLand` | an open project with stages has one still to do: the share of the done ones rounds to a hundred only when all are |
| | `NothingIsHidden` | what is written down is in a place that is there, unless it was sent astray and has not been moved since; the bought and the retired move as well |
| | `WalksHold` | who has not gone back has skipped fewer steps than lie before the one shown; a page that has opened the check-in this night knows that it did |
| | `EverythingWrittenStands` | what is asked about is written nowhere and asked about by one screen; a draft has what its day stands to have, took it off, or was opened before it came |
| | `ImportsAlwaysStand` | what was found in a file and what is here are in order; who comes gets an id nobody has; once a file was added, the household has whatever the same file would add again and can tell, until somebody takes of it |
| | `CopiesAreReadWhole` | the frames since the log began continue each other and no commit behind them does; a commit that the main file is not beyond is the pages up to there |
| `ScreenProofs` | `ArchivesAgree`, `TurnsAreKept` | a day has one entry in the archive, and what a tap leaves of it are those of the other days |
| | `ScreensShowTheSame` | every question is a new one, so the document never goes back to one it had before; who rendered what it still keeps shows it |
| | `WhatIsRecordedWasSent` | the step a screen is going to write is the one it sent, or midnight fell between |
| | `QuestionsStayHome` | consent beside a provider, in a panel, a request or the row, is consent to that provider; an address that is away was judged so, unless it is blurred |
| | `RecordsWereGranted` | between a sign-in's cookie and its key record, the cookie is its own or has been cleared |

`VaultServerProofs`. Neither `VersionNamesOneDocument` nor the facts about epochs and
revisions are inductive. `IInv` is: `TypeOK`, what every sighting of a version says
is what `history` says of it and the document is its last entry
(`HistoryAgrees`), `EpochsAgree`, `FiledAsAdmitted`, `RevisionsContiguous`, and that a waiting
request carries no answer (`WaitingIsBlank`). `HistoryAgrees` turns the property
about pairs of sightings into one about each sighting, which a step can preserve:
only PUT and rotation append, and both use the next number. `WaitingIsBlank` is
there for the refinement, since a pending operation of the register has no answer.
`RecoveryPath` counts rows. The revisions being one unbroken run of numbers, the
rows later than one that is trimmed are matched one to one with those that are kept
(`RowsAreNumbered`, `PutKeepsAWayBack`).

`VaultSyncProofs`. The devices do nothing to the server but ask and collect, so `IInv`
holds of the composition and is part of `SyncInv`. The rest says of every document in
memory (the screen's, the next save's, the one a save has sealed, merged or sent) that
it contains the rows of the stored version it is based on, save those deleted since
(`Took`), and of every request that it carries what its slot holds. A save whose base
is the version it names then contains the stored document.

`DocumentProofs`, on lists and meals. The code filters arrays: it drops ticked
items, unnamed meals, copies that are there already. That is stated of places:
of a set of places the k-th is the one of rank k, every rank up to the size of the set is
somebody's (`EveryPlaceIsThere`, by counting), and so what stays keeps its entries, each
once (`WhatStays`). On that rest `ListsInv` (an entry that nobody took off stands once,
on the list it was entered on, or is asked about by one screen that still shows
that list) and `KitchenInv` (`DraftKnows`: a dialog's draft knows what was meant for its day,
so that writing the whole day drops nothing that was not taken off or put there
while it was open).

`DocumentProofs`, on imports. `ImportInv` rests on three lemmas about `MergeImport`: the
document it makes is in order again (`MergeIsSound`), what it adds says who it said in the
file (`MergeIsRight`, from `FollowIs`: a person or a jar of the file is exactly one of the
household's, of that name), and a household that has everything of a file gets
nothing more from it (`SameAgain`). The last needs that an idea already here keeps its jar, although
`mergeImport` renames the jar of every idea, the household's own too (`RowsStay`): an id
that both documents give to a jar is one of the three everyone starts with. On the
old database, `DatabaseInv` says where a replay stops: behind the last commit lie frames
of an open or rolled-back transaction, or of an earlier generation, and none of them is
at once a commit, of this generation, and a sequel of what lies before it (`NoCommitBehind`).

`HouseholdProofs`. A request checks in one step and writes in another, so what it was
told must be said of the request, as things stand now: a rotation that holds
the lock has everybody active on its list who was not let in over a spare row (`Covers`), a screen whose link is about to
go is neither new nor waiting (`Withdraws`), and as long as no other change of
a membership was committed, who asked is who they were and whoever takes an
admin away knows of another (`Stands`).

TLC has checked all of these invariants as well, on the instances of the
runs. The proofs go action by action, one lemma each, and one step for each part
that the action disturbs. `OwedUntilDone`, `PlanningLands`, `PhoneEditsStand` and
`RecoveryPath` are about steps; their theorems follow from the invariant beside them.

Every property of a passing run is stated by a theorem, but for these, which are only
model-checked:

- `NoMoneyGoesUnrecorded`, `SavesSettle`, `ScreensConverge`: liveness under fairness.
- The counterexamples of the six runs that end in one.

Types are proved where a theorem of the same module needs them, which is in every proof
module.

## Disagreements

Six runs end in a counterexample; `PROJECT.json` quotes the sentences.

- `sync_lost_update`: `loadVault` moves `state.version` to a document the screen
  never takes in (an edit landed during the poll, or a flush merged on a
  conflict and never showed the result). The next save names that version, is
  accepted, and drops the other device's row without a conflict.
- `sync_old_key`: PUT compares two epochs the server itself read. After a
  rotation, a device that still holds the old key learns the new version from
  its failing poll and then overwrites the rotated document.
- `sync_no_retry`: a failed flush leaves the edit unsaved; nothing retries it
  and nothing polls (`App.jsx:832`, `856`), although the server is back.
- `merge_untouched`: a merge takes every row, day and setting from this device,
  edited here or not: a tick on one is undone by an unrelated edit on another.
- `household_no_admin`: the last-admin count and the UPDATE are not one step.
- `household_keyless`: a grant files whatever key the admin's browser holds
  under the epoch of the moment.

Met while modelling, without a run of their own. Several are written into a
property as the case it excepts, and the comment there names the line.

*The vault.* A load between seal and request makes the ciphertext name a version
it is not stored as (`session.js:335-342`). Rotation names no base version and
undoes a save admitted while it prepared its document. A flush clears `dirty`
while a later edit waits for its timer, so a poll may take that edit off the
screen for a while (`App.jsx:589` says it cannot). A display's PUT never trims,
although `vault.js:176` trims so that the table does not grow. In a merge of
meals, "per date, then per slot" (`api.js:107`) is the whole date of this device;
`lists` counts as one setting, so another device's items go as a whole; the
archive and the record of relays take theirs (`api.js:82`), so a tick's mark can stay while
its entry goes, although 67-68 take "the remote copy only for things we did not touch" and 78
is "biased toward keeping data".

*The household.* A grant over a key row that is there already waits for no rotation
(`households.js:479-491`), so a member can become active behind a rotation's list and be
left without the new key, although 649 means to "refuse rather than lock someone out". The
row is there when a rotation stored one for somebody who was removed after the list was
made (653). An expired display loses its key in a rotation, and extending
it (`displays.js:395`, "should actually revive it") makes it active without one;
`max_displays` is counted in one statement and the display inserted in another.
A sole admin's proposal cannot pass through the panel; an admin's leaving never
tallies the votes again; approved and not wiped after a crash is never retried;
two open proposals of one kind are possible (`proposals.js:76`).

*Accounts.* A login writes back the hash it read (`auth.js:320-324`) over a
password changed meanwhile; a login in flight when the policy is switched off
opens a remembered session afterwards; starting a second factor while it is
enabled leaves a secret nobody has proven; `failed_logins` is read, increased and
written (`auth.js:286`), so guesses side by side count once. Remembered devices
end after `SESSION_IDLE_HOURS` all the same. The sign-in form never passes its
"remember" tick on (`auth-ui.jsx:103`).

*Billing.* Overlapping sweeps extend a subscription twice; a sweep may write
"detected" over "paid"; `expireInvoices` (`maintenance.js:43-48`) runs before payments are
looked at and takes every pending invoice whose hour is over, so the 24 hours of grace
(`billing.js:237`) are only for one that was detected, and money that comes late is not looked
for, although `billing.js:258-259` says that discarding it silently is unacceptable;
an underpaid one is never looked at again; nothing makes a subscription past due,
so `freezeOverdue` has nothing to do (`docs/SELF-HOSTING.md:255` says it
freezes); saving a wallet without `enabled` switches it off.

*Other services.* `calendars.js` calls `audit` with a request as its first
argument (`routes/calendars.js:118`). The interval of the maintenance does not wait for its
async body, and all callbacks share one `tick` (`maintenance.js:111-116`): a task that takes more
than a minute makes the tasks after it be skipped, or run twice. If the server stops between a
PUT and `rememberPush` (`caldav-sync.js:163-165`), an event that is put back to what its row
says, or dropped before it had a row, stays wrong on the calendar while later pushes report
clean, although the set is "the complete set of events that should be on that calendar"
(130-132). A forgotten etag makes a DELETE
unconditional (`caldav-sync.js:13-14` says every write is conditional) and a PUT
fail for ever (168-170 say the next pass updates it). Twenty-five imported files
starve every subscription behind them: they are picked and never stamped, though
`calendars.js:31-34` says they are skipped; a feed is due every second pass. A
second approval of a pushed upgrade marks it failed, and it can then be rejected
with its branch out. A save of the Home Assistant panel that leaves
`controlEnabled` out switches control off (`home.js:144-150`); one of the camera
panel resets which faces and alerts are shown.

*The assistant.* An update that names a provider of kind `ollama` and leaves its
address out marks it local while the stored remote address stays. A hosted
provider with a blank address is called at `OLLAMA_URL`, although
`SuperAdminPanel.jsx:282` says blank is the provider's default. Consent survives
a change of the provider's address, and another admin's stale panel agrees again
to what was withdrawn (`chooseModel`). With privacy `full` the context carries
`agendaTitles`, which the strict schema refuses, so the answer is always the
fallback. An answer for another evening lands on a screen that has turned
meanwhile, and a late fallback replaces a question the document has.

*Start-up.* The ledger is made before the lock is taken, so two first boots may
collide, and one ends. The lock is waited for no longer than a statement may take.

*The document.* A skip walks through a pause and marks days before it. A moved
occurrence is hidden during a pause, though the comment on `dueOn` puts moved
ones first. "Move this one" on an overdue row adds an occurrence and leaves the
overdue one. Ticking a skipped row and taking it back loses the skip. Planning a
carried project with stages rewrites the past day of its first open stage
(`App.jsx:276-280` says past days are history). A failed reminder is not sent
again "on the next tick" (`App.jsx:1031-1032`), only when its step changes; and as the record
of what was sent has no date (`relay.js:61-62`), yesterday's keeps today's step from the phones
unless a screen was awake to tidy it away while the reminder was silent.
Groceries are grouped by the names of the stores there are: one written under a
store spelled otherwise (3525-3528), or under a removed one, which a form and "Bought
before" (3734-3738) still offer, is in no group. Ticking in
the second row leaves no purchase history, although `App.jsx:3442` says that checking
off records the date. The second row keeps the ideas of a removed jar, offers the
choices of the kind it had until the new ones are there, and may draw again what
another screen has just drawn. `App.jsx:4683` says that nothing is sent anywhere
else, though a hosted provider may have been chosen. "Adding as ... change" begins a
new list once it is answered, and an item that waits for a name lands on the list
that is open then, or is lost. Saving a day's meals writes all of it, and with that
drops what others put there since the dialog was opened; a day of one's own can be
chosen in this week only. A check-in that is finished after midnight is filed
under the new day, whose evening then counts as done; opening by itself takes the
place of any dialog and loses its draft; Back and then Skip counts a step as skipped
twice, so that `covered` may be less than nothing; moving one slider records the
default for the two others. `stop` by voice silences timers that still run. `syncHouseholdName` never
retries; `resume` may forget another account's record.

*Imports.* The panel says that "importing the same file twice changes nothing"
(`ImportPanel.jsx:193`), and so do `ImportPanel.jsx:17` and `legacy-import.js:390`;
not so for calendar subscriptions, which every import, and every retry of one that
failed, adds again (101-113), the counts of the grocery history, added up again
(`legacy-import.js:492`), meals from before meals had ids, which get a new one at
each reading (`document.js:51`), and archived agendas and prompts, which have none: they
come again each time, or, once the household has one itself, not at all (393). Notes,
agenda entries and date ideas have no title, so the titles compared at 393 are the same for
any two, and one is skipped for another that has its id by coincidence. Prompts are strings
(`App.jsx:4156`), which `{ ...raw }` spreads into an object of their letters (382).
`apply` merges into the document the button was pressed over, after it waited for the
calendars, and what was changed meanwhile is overwritten on the screen (119-124);
after Cancel, or another file, a new button is there and a second addition can be
started. A file that is read late replaces what was found in the one picked after it
(80). Who is named in the log of check-ins, in archived agendas and by a calendar is
not followed (105, 483). Of two old households, an entry of the second is skipped if
an entry of the first came with its id (392). A log that was cut below what the main
file has been brought up to gives a mixture of two commits, which
`web/test/legacy-import.test.js:248-249` says never happens; an empty log that was
supplied is reported as missing.

## Not modelled, and why

- *Cryptography* is taken as perfect. *Parsing and formatting* (iCalendar, time
  zones, the records inside an SQLite page, what a spoken sentence means) has no state
  and good tests.
- *The AI's words*: prompts, their context and what a language model answers.
- *The user interface*: the callbacks that change the document or the session
  are actions; what is drawn is not. `App.jsx` is more than a quarter of the
  program and mostly that, which is why the map covers a small share of all
  lines and most of the lines that change state. Notes, tasks, events with a date
  and the settings of people are edits of one row and are left out.
- *Deployment, the mocks, the penetration test, the preflight* are not part of
  the program.
- `freezeOverdue` is unreachable. Prices, plans, and the arithmetic of wallets.

## What is left

Tasks, notes and dates as functions of the document, and the panels that edit from
stale copies. Liveness stays with TLC.
