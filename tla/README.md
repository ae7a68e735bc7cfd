# Verification of the Proton Wallet app

TLA+ models of the parts of the Proton Wallet application (Flutter front end in
`lib/`, Rust core in `rust/src/`) where several asynchronous tasks, two
languages, a server and process kills meet, the TLC configurations that check
them on small instances, and TLAPS proofs of what holds for every instance.
Paths below are relative to the repository.

Contents: [the system](#the-system), [modules](#the-modules),
[runs](#the-runs-and-what-they-show), [bounds](#bounds),
[fairness](#fairness-and-assumptions-about-the-environment),
[proofs](#proofs), [disagreements found](#disagreements-between-the-code-and-what-it-says),
[not modelled](#what-is-not-modelled), [plan](#plan).

## The system

The app is one process with a single-threaded Dart side (interleaving only at
`await`) and a multi-threaded Rust side (tokio). Dart owns the screens, the
managers registered in `ManagerFactory`, the sqflite database, the preferences
and the secure storage; Rust owns the HTTP client (muon), the auth store and a
second set of providers with their own SQLite database. Rust calls back into
Dart for the secure storage and for a refreshed session.

| Component | State it keeps | Operations | Talks to | What is hard |
|---|---|---|---|---|
| Authenticated session (`wallet_auth_store.rs`, `proton_api_service.rs`, `proton_api.rs`, `api.service.manager.dart`, `user.manager.dart`, sign-in and home screens) | auth store of each client, `PROTON_API`, `_apiService`, the Dart callback, `API_CLIENT_INITIALIZING`, session fields in the secure storage | start, sign in (native or form), refresh, notify, save, restore, log out | server, secure storage, every API call | fields saved and read one await at a time by unordered tasks; un-awaited save and logout; kills between fields |
| Wallet keys provider, Rust (`provider/wallet_keys.rs`, `storage/wallet_key.rs`) | cache behind a mutex, secure store through callbacks | `get_locked_wallet_key`, `clear`, `reset` | server, Dart callbacks | values read before the lock is taken and used after it; a lock held over a callback |
| Wallet keys provider, Dart (`wallet.keys.provider.dart`) | the same cache for the Dart side | the same | secure storage, server | the same overwrite after an await |
| User keys provider (`provider/user_keys.rs`, `storage/user_key.rs`) | its table of user keys | `get_user_key`, `get_primary_key`, `get_user_keys`, load from the server, default key | server, callbacks | a load cut short leaves a table that is never checked again; an empty table is an error for one call and a reason to load for another |
| Event loop and wallets (`event.loop.manager.dart`, `wallet.data.provider.dart`) | event id in memory, preferences and on disk; wallet and account tables; `walletsData` | fetch an id, collect, apply one event after another, remember; load the wallets once | server, database, home screen | several fetches at once; state read before an await; kills between an effect and its record; a load that stops half way |
| Rust wallet provider and DAOs (`provider/wallet.rs`, `storage/wallet_mnemonic.rs`, `db/dao/*`) | ten tables behind one connection, the mnemonics in the secure store | upsert, delete, load from server, look up a wallet or a mnemonic, next derivation path | server, callbacks | upsert takes the connection for each statement; check-then-act; a load that stops half way; a failed query taken for an absent row |
| Settings features (`features/proton_recovery.rs`, `password_scope.rs`, `twofa.rs`, `backup_mnemonic.rs`; the recovery bloc and page; the 2FA, view-seed and delete-wallet screens) | password scope and recovery phrase on the server; spinner, switch, sheet and words on the page | load, enable, reactivate, disable; the other features that unlock the scope | server, SRP, gopenpgp | several requests, each may fail; one scope for all jobs; jobs that outlive their page |
| Databases and migrations (`app_database.rs`, `migration_container.rs`, `db/database/*`; `app.migration.manager.dart`) | the schema; no stored version in Rust | find a path, run its migrations statement by statement | file system | kills and ignored errors |
| Bitcoin synchronisation (`bdk.transaction.data.provider.dart`, `clear.cache.bloc.dart`, `bdk.library.dart`, `storage.rs`) | which accounts are syncing, marks of full scans, error counter and timer, the files of bdk | full and partial sync, clear the cache | Esplora, preferences, file system | marks and files erased one after the other under a running sync; a kill or an error between a mark and what it stands for; 2^attempt past 2^32 inside an error handler |
| Application state and services (`app.state.manager.dart`, `service.dart`) | error counters, `_isRunning` | start, stop, back off | every service | stop and start while asleep |
| Cryptography (`crypto/*`, `transition_layer.rs`) | one global lock | encrypt, decrypt, sign, relock | gopenpgp | a lock that relocking does not take |
| API clients, screens, generated bindings | none that matters here | | | |

Interaction in one paragraph: the session component gives every other component
its authenticated client and takes it away at logout. The event loop polls the
server with that client and hands each event to the wallets provider; the
wallets provider loads the tables once when the home screen opens and then
lives on the events. The keys providers are asked whenever a screen has to show
or sign something, while the event loop and the creation of wallets reset them.
A logout erases the storage, the preferences and the tables and drops the
providers, but cannot stop work that is already past an `await`.

What makes each modelled component correct:

- *Session*: the Rust and the Dart side use one client; a refreshed token is
  never forgotten (the server has already invalidated the previous one); a login
  hands over the fields of one session, not of two; a logout leaves nothing.
- *Wallet keys*: memory and store are never changed in opposite orders; a key is
  reported missing only for a reason; a reset shows the server's answer; no call
  waits for ever.
- *Wallets, user keys, accounts in Rust*: a row exists once; an upsert that
  nobody disturbs is what is read afterwards; the user keys are all of them or
  known to be a part; a derivation path that is requested is free; a mnemonic
  belongs to a wallet of the table.
- *Database*: whatever a kill left behind, the next start builds the whole schema.
- *Settings*: the recovery phrase the server accepts is one the user has seen; the
  page shows what the server has; the scope that a job opens it closes; Go is
  entered by one thread at a time; no job hangs.
- *Bitcoin synchronisation*: one sync writes to an account's file at a time; a mark
  that says an account has been scanned is true of the file it has now, and of
  the far indexes too; whatever fails, an account is scanned in the end.
- *Event loop*: the remembered event id is never ahead of the tables, in memory
  or after a kill; the memory copy follows the tables; accounts follow wallets;
  the id and the copy reach the server's state.

`PROJECT.json` lists under `hazards` each place in the code where one of these
could fail, with the property that watches it or the reason none does yet.

## The modules

| Module | Models | Length of the code it stands for |
|---|---|---|
| `AuthSession` | the session component | 12 files in both languages |
| `MCAuthSession` | the bounds of its runs, one for each platform | |
| `AuthSessionProofs`, `AuthSessionSafety` | its theorems: types and handles; logout, login and refreshes | |
| `WalletKeys` | the Rust wallet keys provider | 4 files |
| `KeyService` | what that provider promises: the abstract specification `WalletKeys` implements | |
| `WalletKeysProofs` | its theorems, the refinement among them | |
| `LocalDatabase` | the Rust database: building the schema, the ten tables and their DAOs | 25 files |
| `WalletStore` | EXTENDS it: the providers of wallets, mnemonics, user keys and accounts, the server they load from, kills | 6 files |
| `WalletStoreProofs` | the theorems of both | |
| `SecureSettings` | the recovery feature, its bloc and page, and everything that shares the password scope or the gopenpgp lock with it | 16 files in both languages |
| `SecureSettingsProofs` | its theorems | |
| `WalletSync` | event loop, wallets provider, load of the home screen, kill, logout and login again | 4 files |
| `WalletSyncProofs`, `WalletSyncSafety` | its theorems: types and events; event ids, copy and accounts | |
| `BitcoinSync` | `syncWallet`, its error back-off, the clearing of the cache, logout and login again, kills | 5 files |
| `BitcoinSyncProofs` | its theorems | |

In all of them, one action stands for the code between two awaits (or between two
lock operations in Rust). Variables such as `history`, `disturbed`, `excused`,
`partial`, `stale`, `writer`, `lost`, `reasons`, `overlap` and `cut` record mishaps as
they happen; they never appear in a guard, so they restrict no behaviour, and
serve to say under which circumstances a property is promised. A section
"Faulty variants" holds operators no specification uses: each is what a slip in
the code would turn the definition named beside it into, and is there to show
that the properties notice it.

### AuthSession

Credentials are three fields (`sessionId`, `accessToken`, `refreshToken`); a
token is its generation number, and 0 is the empty string. The user name,
display name and the like are saved and erased alongside and never read by a
session flow, and are left out; so are `userId` and `scopes`, which repeat
what `sessionId` says.

| State | Code |
|---|---|
| `auth[c]` | credentials in the `CallbackWalletAuthStore` of client `c` |
| `answer[c]`, `changed[c]` | a server answer muon has not stored yet; a stored one not yet reported (`set_auth` before `notify_auth_session_changed`) |
| `savers` | spawned tasks in `refresh_auth_credential` → `saveSession`, with the field each has come to |
| `callback`, `initializing` | `GLOBAL_SESSION_DART_CALLBACK`, `API_CLIENT_INITIALIZING` |
| `protonApi`, `apiService` | `PROTON_API` in Rust, `_apiService` in Dart |
| `writer` | `UserManager.trySaveUserInfo` |
| `pc`, `caller`, `pos`, `got`, `form` | the Dart main flow and `initalOldApiService`'s reads, one per await |
| `logout` | `ManagerFactory.logout`, which nobody awaits |
| `storage` | the secure storage |
| `platform` | "mobile" (the native screens hand over a session) or "desktop" (the sign-in form); chosen at the start and never changed |

`Refresh`, `RefreshLost` and the answers are the server and muon, which are not
in the repository: they are modelled from how `wallet_auth_store.rs` is called
(a refresh needs the server's latest refresh token and rotates both tokens).
Because muon serializes the refreshes of one store, a client has at most one
answer in flight. `Restart` is a kill of the process at any point.

### WalletKeys

`server`, `store` and `cache` are the sets of wallets whose key each place has.
A call of `get_locked_wallet_key` is the sequence memory, store, memory,
server, memory of the source, with a step per lock acquisition and per await.
`lock` is only visible while it is held across an await, which happens in
`save_api_wallet_keys`. `World` is the rest: other clients that create and delete
wallets, the logout that erases the storage, and the Dart side that sets and
clears the callbacks. Decrypting the key found is left out: it has no state.

`KeyServiceSpec` is the refinement. `KeyService` knows neither cache nor store nor
lock: a key is known or forgotten, only the creation of a wallet makes one known,
and a caller that waits is given the key it asked for only if that key is known.
The mapping takes as known what the server, the store, the memory or a task
between its read and its write holds, and as waiting the tasks with a `pc`. It
says that no interleaving of reading, merging, overwriting and clearing makes up
a key, brings one back that every place has forgotten, answers twice, or hands
out another wallet's.

### LocalDatabase and WalletStore

`LocalDatabase` follows one table, any of the ten (`table` is chosen in `Init`
among `Daos`): the statements of different tables do not affect each other. A
table is described by what its constraints keep unique, by what the WHERE clause of
its update compares, by whether its DAO deletes, and by whether migration 2→3
adds a column to it.

| State | Code |
|---|---|
| `rows`, `ids` | the table and SQLite's automatic ids, in the order of insertion |
| `schema`, `plan` | "none", "base" or "full"; the statements of `build_database` still to run |
| `step[t]`, `item[t]`, `outcome[t]` | the upsert a task is in: lookup, insert or update, readback, each with the connection taken anew |
| `server`, `past` | what the server has, and every set of keys it ever had |
| `frame[t]` | the provider call of a task: find, load, fill, save, find again, default, request |
| `mnemonics` | the list in the secure store, replaced as a whole by each save |
| `answer[t]` | how the last call ended |

Decisions a reader should know:

- the process always starts with `build_database(1)` (`wallet.rs:34`), and the
  first migration drops every table: a start of the app empties the Rust
  database, which is modelled as it is;
- the result of each migration is dropped by `let _ =`, so a failed statement
  ends its migration and not the build, which goes on with the next one
  (`EndMigration`); only `DROP COLUMN` is logged and passed;
- `CREATE INDEX IF NOT EXISTS idx_<column>` names an index once for the whole
  database, so a second table with that column does not get one. An index changes
  no answer, and the model has none;
- `get_by_column_id` returns `Ok(None)` when the query fails (`result.ok()`): a
  lookup with a fault goes on as if there were no row (`excused`);
- the callback of the app for mnemonics keeps nothing and returns an empty list
  (`proton.wallet.manager.dart`); `Save` allows both that and a callback
  that keeps what it is given, `FindMnemonic` reads what was kept;
- `create_wallet_account` is modelled from the choice of the path; the wallet key
  it needs first is the business of `WalletKeys`. The table is not told of the new
  account: a later upsert of the caller does that.

### SecureSettings

| State | Code |
|---|---|
| `server` | whether the password scope is open, `MnemonicStatus`, and the phrase it was set with |
| `ui`, `open`, `attached` | the `ProtonRecoveryState` of the open page, its sheet, and which jobs belong to its bloc |
| `job[t]`, `todo[t]`, `words[t]` | what a task runs, the requests it has left, the phrase it generated |
| `go` | tasks inside a call of gopenpgp |
| `writer`, `opener`, `seen`, `lost`, `reasons` | what happened: who changed the phrase last without the page knowing, whose scope it is, which phrases were shown, which ones may never be, why a spinner may stay |

A feature is the list of its requests (`Enable`, `Reactivate`, `Disable`,
`EnableTwofa`, `ViewSeed`, ...), read off the Rust feature or the Dart screen that
reimplements it; requests that change nothing (`auth_info`, the modulus, the user
keys) are one with the step after them, which may fail without effect. An answer
whose server proofs are wrong is a request that had its effect and failed
(`Lost`). The recovery coordinator makes a bloc per page and nobody closes it, so
a job goes on after its page: it is no longer in `attached`. `lock` after `set` is
only sent by enabling; reactivating, 2FA, viewing the seed and deleting a wallet
leave the scope to expire (`Change`). A phrase is a number; numbers that nothing
holds any more are reused, so that `Phrases` can be finite.

### WalletSync

The server's events are a log; an event id is a place in it, 0 the empty string.
A wallet's data is the number of the last event that wrote it, so "older than"
is visible. `rows`, `accounts`, `cache` are the wallet table, the account table
and `walletsData`; `cursor`, `prefs`, `disk` are `latestEventId`, the preferences
in memory and what of them is on disk (`setString` is not awaited, so a kill may
lose it). A task of `Fetchers` runs `fetchEvents`: the loop itself, and the
direct calls from the send screen, the RBF screen and connectivity changes.
`Home` runs `getWallets`.

Modelling decisions a reader should know:

- an event carries the wallet as it was at that event (external assumption);
- the find-then-insert-or-update of the DAO is one step: with sqflite's
  `ConflictAlgorithm.replace` and a single Dart thread, every interleaving with
  another task's write ends in the same table;
- `_getFromDB` is one read step, and its assignment to `walletsData` a second:
  the copy may be stale when assigned;
- the guards of `onUpdate` on background state and connectivity only skip a
  round and are covered by not scheduling the fetch;
- a direct fetch with an empty id is answered by an error and changes nothing;
- `Relogin` is the logout and the next login of the same user: the tables and
  preferences are empty and the provider is new, but `EventLoop`, its id and a
  fetch already running survive (`Outlived`). A different user is future work.

`history` has "overlap" (two tasks worked with the copy at once), "partial" (the
load stopped before its last wallet, or an event was applied to an empty copy
before any load), "gap" (the loop started at an id past what the tables know)
and "cut" (a kill between the two halves of a deletion). Each of them is
reachable; the safety properties say what is promised without them, which is
also what the code relies on, and `sync_fetchers` says what survives overlaps.
`covered` is the id before which the tables know every event: a load sets it,
events extend it. It decides "partial" and "gap" and is never read by a guard.

### BitcoinSync

| State | Code |
|---|---|
| `call[t]` | a running `_syncWalletUnlocked`: its step, account, arguments, how far it scans, whether its file was deleted under it (`lost`) or its provider replaced (`old`) |
| `isWalletSyncing`, `lastSynced` | the provider's tables; `lastSynced` says whether `lastSyncedTime` is within `reSyncTime` |
| `fullSynced`, `serverStopgap` | the preferences `bdkFullSyncedPrefix...` and the same with `_ServerStopgap` |
| `errorCount`, `errorTimer` | `syncErrorCount`; whether `syncErrorTimer` is in the future |
| `files` | how far the bdk file of an account has been scanned: not, with the user's stop gap, with the server's |
| `erasure` | the step `ClearCacheBloc` or the logout has come to: files, then marks, then stop gaps and counters; or preferences, then files |

The arguments are reduced to the three callers' cases: forced, a new block
(`heightChanged`), neither. An error of the bridge goes through `updateErrorCount`,
where `BackoffThrows` says that `Random.nextInt` refuses `pow(2, n) + 1`: the
exception leaves the handler, past the timer, and only `finally` still runs. Any
other error counts without a timer. `BdkLibrary` deletes what it can and ignores
what it cannot (`kept`); where an open file can be deleted, its owner goes on
writing to a file that is gone. A call that outlives a logout writes to the tables
of the old provider and to the preferences of the next login.

Two sets say what the properties cannot promise. `overlap`: the account was
synchronised while an erasure was under way, or a kill left files without marks
being erased; `cut`: the one scan that used the server's stop gap failed or was
killed. Both are reachable, and the section on disagreements says what follows.
What comes after a successful sync (the stop gap reported to the server, the
metrics) is left out: none of it is read by a later sync.

## The runs and what they show

| Run | Module | States | Shows |
|---|---|---|---|
| `session_races` | MCAuthSession | 1,283,785 | Both sign-in flows, two sessions, two clients, one kill: `OneClient`; `LogoutLeavesNothing`; `LoginReadsWholeSession`; `NoLostRefresh`; and, under fairness, `StoredTokensCatchUp`: the stored refresh token is, again and again, the one the server accepts, so a kill at a quiet moment costs no session |
| `session_late_refresh` | MCAuthSession | violated | see F1 below |
| `session_unawaited_save` | MCAuthSession | violated | see F2 |
| `keys_races` | WalletKeys | 604,265 | Two tasks, three calls, one change elsewhere: `SaverHoldsCache`, `NotFoundIsJustified`, `ResetIsFresh`, the refinement `KeyServiceSpec`, and `CallsReturn` under fairness |
| `keys_not_found` | WalletKeys | violated | see F3 |
| `store_races` | WalletStore | 700,614 | Each of the ten tables with two tasks and two calls: `DuplicatesNeedRace`, `UpsertTakesEffect`, `WholeKeysUnlessPartial`, `RequestedPathIsFree`, `MnemonicsHaveRows`, `CleanStartHasSchema`, and `CallsReturn` under fairness |
| `store_get_wallet` | WalletStore | violated | see F5 |
| `settings_jobs` | SecureSettings | 453,923 | Two jobs at once, two openings of the page, one failed request or one change from elsewhere: `PhraseReachesUser`, `ShownPhraseIsServers`, `FlagFollowsServer`, `SpinnerHasReason`, `EnableClosesItsScope`, `GoCallsOverlapOnlyUnlocked`, and `JobsEnd` under fairness |
| `sync_faults` | WalletSync | 4,676,077 | One loop beside the home screen with a failed request, a kill and a logout at any point: `NoEventSkipped`, `CacheFollowsDb`, `NoOrphanAccount` |
| `sync_fetchers` | WalletSync | 1,438,409 | Two concurrent fetches that set the id back and overwrite each other: under fairness `CursorCatchesUp`, and `CopyConverges` when no mishap happened |
| `sync_cut_deletion` | WalletSync | violated | see F4 |
| `bitcoin_sync` | BitcoinSync | 312,456 | Two calls for one account, a failed request, a cleared cache or a logout, a kill, from every error count: `MarkMeansScanned`, `OneSyncPerAccount`, `FarIndexesFound`, and `CatchesUp` under fairness |

Deadlock checking is off everywhere: the counters that bound the models run
out, after which a model legitimately stops. That nobody waits for ever is
stated as `CallsReturn`, `JobsEnd`, `StoredTokensCatchUp`, `CursorCatchesUp` and
`CatchesUp` instead.

## Bounds

- *AuthSession*: the hazards need two different sessions (log out, log in), at
  least three generations of tokens beside the sign-in ones (an old refresh saved
  after a newer one, and one in flight at the logout), and a second client.
  `MaxLogins = 2`, `MaxClients = 2`, `MaxRestarts = 1`, and `MaxTokens` five on mobile
  and two on the desktop (`TokensOfRun`): there the form exercises the client
  that precedes the session and retries for ever, and every sign-in takes a
  generation too, so two are one session that is refreshed or two sessions.
- *WalletKeys*: a stale overwrite needs one task to read the store, a second to
  merge and save, and the first to overwrite: two tasks, two wallets (one in the
  store, one not), three calls so that a reset can follow or meet a lookup, one
  change on the server or the store (`MaxChanges`).
- *WalletStore*: the races need two writers of one key (`Tasks`, two keys, two
  calls); a partial load needs two things on the server; two groups are two
  derivation paths, the second the last; one fault is one failed statement, failed
  query or kill, at any step; one change is one addition, removal or deletion.
  Every table is an initial state, so `store_races` is ten models in one.
- *SecureSettings*: an overlap needs two jobs, a job that outlives its page two
  openings of it; one event (`MaxEvents`) is a failure or a change elsewhere.
- *WalletSync*: three events are a creation, a change and a deletion of one wallet
  or two of one and one of another; a kill, a failure and a logout may each come
  once, at any step. Two fetchers are checked with one wallet and two events:
  enough for one to apply the first event after the other applied both.
- *BitcoinSync*: accounts only share the counter, the timer and the erasure, so one
  account with two calls meets every race; one failure, one erasure and one kill,
  each at any step. Two erasures need too many states for TLC; the safety properties are
  proved for any number of calls, accounts, failures, erasures and kills. Integers have 2 bits and
  `nextInt` takes 1 (instead of 64 and 32), so that the error counts 0, 1 and 2 are
  a back-off that works, one that throws, and one past the width; `errorCount`
  starts anywhere, as loads that failed earlier may have left it.

No symmetry reduction is used.

## Fairness and assumptions about the environment

- *AuthSession*: weak fairness on storing and reporting an answer muon holds, on
  each spawned save, and on every awaited step of the Dart flow: these are ready
  futures which the executors poll. Never on users, refreshes, lost answers,
  failures or kills.
- *WalletKeys*: strong fairness on a task's steps. A step is enabled only while
  the cache is free, so weak fairness would let a waiter be overtaken for ever;
  tokio's mutex queues its waiters in order, which is what strong fairness
  abstracts.
- *WalletStore*: weak fairness on the build, which the start awaits, and on the
  steps of each task: a statement is enabled whenever its task is at it, as the
  connection is only held for one statement.
- *SecureSettings*: weak fairness on the steps of each task. A request is answered
  or times out, and a call of gopenpgp returns. The lock is a `std` mutex without
  an order, yet weak fairness is enough: jobs use it a bounded number of times and
  `JobsEnd` is about the jobs of the page, none of which takes it.
- *WalletSync*: weak fairness on each fetch as a whole (the loop runs again and
  again) and on the load of the home screen. Failures are bounded, so retries
  succeed eventually; events, flushes, kills and logouts are not forced.
- *BitcoinSync*: weak fairness on the steps of each call (a request is answered or
  times out), on the steps of an erasure, on the passing of time, and on a call for
  each account: while the app is in the foreground `home.viewmodel.dart:403-413` has
  the accounts of the wallet on the screen synchronised, with `heightChanged`, at
  each new block. Failures, kills and erasures are not forced.
- `PatientUser = TRUE`: nobody signs in while a logout is still running.
  `home.coordinator.dart:254` does not await it, and the welcome screen is shown
  at once; with `PatientUser = FALSE` `OneClient` fails: a quick native sign-in
  builds on the old client, and `ProtonApiServiceManager.logout` then clears the
  API under the home screen. The last steps of the logout take milliseconds and
  a sign-in takes a person's time, so the runs and the theorems assume it, and the
  hazard stays listed.
- A save or a read of the secure storage does not fail; the code handles no such
  failure.

## Proofs

Every safety property and every action property of the passing runs is a theorem
of its specification, for every value of the constants. TLC checked each
inductive invariant on the instance of the run before it was proved.

| Module | Theorem | Property |
|---|---|---|
| `AuthSessionProofs` | `TypeCorrect`, `OneClientAlways` | `TypeOK`, `OneClient` |
| `AuthSessionSafety` | `LogoutErasesAll`, `LoginReadsOneSession`, `RefreshesKept` | `LogoutLeavesNothing`, `LoginReadsWholeSession`, `NoLostRefresh` |
| `WalletKeysProofs` | `TypeCorrect`, `SaverHoldsCacheAlways`, `NotFoundAlwaysJustified`, `ResetAlwaysFresh`, `ImplementsKeyService` | `TypeOK`, `SaverHoldsCache`, `NotFoundIsJustified`, `ResetIsFresh`, `KeyServiceSpec` |
| `WalletStoreProofs` | `TypeCorrect`, `StartBuildsSchema`, `RowsAreUnique`, `UpsertsWork`, `PathsAreFree`, `MnemonicsFollowRows`, `KeysAreWhole` | `TypeOK`, `CleanStartHasSchema`, `DuplicatesNeedRace`, `UpsertTakesEffect`, `RequestedPathIsFree`, `MnemonicsHaveRows`, `WholeKeysUnlessPartial` |
| `SecureSettingsProofs` | `TypeCorrect`, `PhraseKept`, `ShownPhraseWorks`, `SwitchIsRight`, `SpinnerExplained`, `ScopeClosed`, `GoCallsLocked` | `TypeOK`, `PhraseReachesUser`, `ShownPhraseIsServers`, `FlagFollowsServer`, `SpinnerHasReason`, `EnableClosesItsScope`, `GoCallsOverlapOnlyUnlocked` |
| `WalletSyncProofs` | `TypeCorrect` | `TypeOK` |
| `WalletSyncSafety` | `EventsNotSkipped`, `CacheCorrect`, `AccountsNotOrphaned` | `NoEventSkipped`, `CacheFollowsDb`, `NoOrphanAccount` |
| `BitcoinSyncProofs` | `TypeCorrect`, `OneSyncPerAccountAlways`, `MarkMeansScannedAlways`, `FarIndexesFoundAlways` | `TypeOK`, `OneSyncPerAccount`, `MarkMeansScanned`, `FarIndexesFound` |

**Types.** `TypeCorrect` in each module is the type invariant. In `WalletSync` it is
more than types: `FetchOK` says that a fetch only asks from an id it has and only
applies an event the server has published. It rests on four lemmas: ids and the
log's length (`LatestIsId`), what `_getFromDB` can return (`ViewsOfTables`), what
the load can be told (`ServerAnswer`), and where an applied event leaves a fetch
(`EventApplied`).

**AuthSession** (all theorems but the types assume `PatientUser = TRUE`).
`OneClientAlways`: the Rust and the Dart handle name the same client. `OneClient` alone
is not inductive: `ClientInv` adds where the handles stand in each phase of the
main flow and of the logout (the client being published is `_apiService`, no
logout is under way while a client is built or used, and the form's client is the
live one). The other three are one induction over `IInv` (`SafetyInductive`).
A logout leaves nothing because only the live client ever has credentials
(`LiveInv`), and nobody who could still write outlives a logout (`QuietInv`), both
but for a refresh that was on its way. A login reads one session because the
tasks that write field by field all write the same one and each owns the fields
it has passed (`StorageInv`), and nobody writes while it reads (`ReadInv`); both
need that the server's answers are sessions (`AnswersInv`) and that a new process
has nothing under way (`StartInv`). A refresh is kept because what the client
holds is stored, being saved or reported from the moment it is built (`KeptInv`).

**WalletKeys** (any sets of tasks and wallets). `SaverHoldsCacheAlways`,
`NotFoundAlwaysJustified` and `ResetAlwaysFresh` follow from one inductive invariant
`KeysInv`, which adds to the three properties what they depend on: merged keys
stay in the cache until the task that merged them has looked again or is marked
disturbed (`MergeSurvives`), what a reset cleared stays empty until it merges or
is marked (`ClearSurvives`), and the third look in memory belongs to a lookup
(`LookupsAreGets`). `KeysInvInductive` has a step per action.

`ImplementsKeyService`: every behaviour of the provider is one of `KeyService`. The
proof says of each step that it is silent (`SilentStep`: nothing is learnt, nobody
is answered), that it answers one caller (`AnswerStep`), or that it is a call or a
creation; `GoToIsSilent` and `ReturnAnswers` are the two lemmas that cover the ends of
all operations, and the type invariant is all the invariant it needs.

**LocalDatabase and WalletStore** (every table, any tasks, keys, paths, calls,
failures and kills). `BuildPlan` finds what `build_database(1)` runs: the two
migrations, whatever the version search could have chosen. `StartBuildsSchema` then
needs, for each place in that plan, the schema reached so far (`PlanInv`): after
the first statement nothing depends on what an earlier start left. The
properties of the tables are inductive only together: rows have automatic ids of
their own (`IdsInv`), a model with an id has the key of its row (`ItemInv`), an
upsert that is about to insert has seen no row of its key unless it is marked
(`InsertInv`), and nothing runs during a build (`BuildInv`). `KeysAreWhole` depends on
the server never taking a user key back, so that its states form a chain, of which
the table has one link and what the loads under way have added (`UserKeysInv`);
`MnemonicsFollowRows` on what a load has still to upsert (`FillInv`). `DbKinds`,
`CallKinds` and `ServerKinds` sort the steps into the few kinds of change that the
parts of the invariant tell apart, so that each part is proved once per kind and
not once per action.

**SecureSettings** (any finite set of jobs, any number of pages, failures and
phrases). `StageInv` says how far each job can be when given requests are left,
which the other parts refer to. The phrase is followed from its generation to
the page: each enabling job has a phrase of its own which the server has only
before the lock (`WordsInv`), a job about to lock has set it (`SetInv`). The page has
one job at a time, under its spinner, and shows a sheet or words only when it has
ended (`PageInv`); its switch is wrong only before a load has set it (`FlagInv`), and
it enables only what the switch says is not enabled (`SwitchInv`). `ScopeInv` says
which requests still close a scope that enabling has opened. That phrases are
finitely many numbers, reused once nothing holds them, needs a lemma that a free one
is always left; it is why the set of tasks must be finite.

**WalletSync** (any wallets, any number of fetches, and all bounds). The three
theorems are one induction (`SafetyInductive`). While no tasks overlap, one task at
a time works with the copy (`AloneInv`), so what it has read is still true
(`HomeInv`), the three copies of the event id are in order, and the event being
applied is the next one (`OrderInv`). No event is skipped because every id the loop may
start from is at most `covered` (`KnownInv`), and the tables know all events before
that (`KnowsInv`), or will once the running load has stored the server's answer
(`LoadInv`). The copy follows because only a fetch that has changed a table and not
yet read it again makes it differ (`CacheInv`), and `OrphanInv` says the same of an
account whose wallet has just gone. `LogInv` is what the server guarantees of the
order of a wallet's events.

The first attempt at this proof failed for a good reason: applying a deletion to
tables that were never loaded made `covered` leave 0, after which an event that wrote
a wallet into these tables was not counted as "partial". Events now extend `covered`
only once a load has set it.

**BitcoinSync** (any calls, accounts, failures, erasures and kills). None of the three
properties is inductive. `SyncInv` adds what they depend on: during an erasure every
account with a running call is in `overlap` (`ErasureNoticed`); a call outside it
holds its account's entry in `isWalletSyncing`, its file and its provider
(`OwnersMarked`); what an erasure took does not come back before it is over
(`ErasedStays`); a call about to mark has left a scanned file (`ScansReach`); a noted
stop gap is being scanned for, has been reached, or was cut short (`GapUsed`), so a
scan without it works on a file that needs no more (`FarScans`). The proof treats a
step of a call by what it does to its own account (`CallIsTidy`, `StepTidies`) and
to the others (`StepFrame`), and every step of an erasure by one lemma on the calls
(`AllNoticed`) and one on the marks.

**Assumptions.** Beside `PatientUser`, only the ASSUMEs on the constants, which TLC
evaluates in the runs: bounds are natural numbers, sets that must have a member have
one, a marker ("nobody", `NoTask`, `Home`) is not a task, the tasks of the settings are
finitely many, and the paths are numbers with 0 among them, which is the first
account's path and the one group the rows of the other tables are in.

**Left to TLC.** The liveness properties: `StoredTokensCatchUp`, `CallsReturn` (of
`WalletKeys` and of `WalletStore`), `JobsEnd`, `CursorCatchesUp`, `CopyConverges`,
`CatchesUp`. They rest on fairness and ENABLED, which are out of the prover's reach.
The violated runs are counterexamples and need no proof.

## Disagreements between the code and what it says

- **F1, `session_late_refresh`.** `api.service.manager.dart:106-107` calls the
  logout a "global clean up in rust layer" that resets the auth store.
  A refresh answered afterwards is stored again by `set_auth`, and the callback
  saves it in the secure storage: the next start finds a session.
- **F2, `session_unawaited_save`.** `api.service.manager.dart:50` says the save and
  the reads of the session "make sure await each other". `signin.viewmodel.dart:68`
  calls `flutterLogin` without `await`, and the login reads fields that are
  still being written.
- **F3, `keys_not_found`.** `wallet_keys.rs:97` promises a key "from memory, secure
  store, or server". A lookup that read the store earlier replaces the cache
  after another has merged the server's keys, whose last look then fails with
  `WalletKeyNotFound`.
- **F4, `sync_cut_deletion`.** `event.loop.manager.dart:208` says a wallet's deletion
  "Will also delete account". A kill after the wallet row is gone leaves the
  accounts, and the replayed event finds no wallet and does nothing.
- **F5, `store_get_wallet`.** `provider/wallet.rs:187` says that an upsert "updates
  or inserts", `:41` that `get_wallet` fails "if no wallet is found". Wallets
  loaded from the server have id 0 (`db/model/wallet_model.rs:43`), and an update
  selects by id (`wallet_dao.rs:141`): as soon as one wallet is in the table,
  loading again ends with `NoChangedRows` before the wanted wallet is inserted or a
  mnemonic is saved.

Seen while modelling, and stated as what does hold rather than as a run that
fails:

- `crypto/pgp_lock.rs:5` "Serializes all gopenpgp (Go) calls", but
  `enable_recovery` and `reactive_recovery` relock the user keys without it
  (`proton_recovery.rs:80,170`). `GoCallsOverlapOnlyUnlocked` says that this is the
  only way two calls overlap.
- A recovery phrase is set before it is shown: if the lock request or an answer
  fails, or the page is closed, the server keeps a phrase nobody has seen
  (`lost` in `PhraseReachesUser`).
- The spinner of the recovery page stays when `recoveryStatus` or `twoFaStatus`
  fails (they are outside the `try`), when the phrase has been set elsewhere
  meanwhile (status 3 has no branch), and when the sheet is dragged away
  (`reasons` in `SpinnerHasReason`).
- `get_user_key` returns the default key, which may be another one, when the server
  does not have the key either, but an error when the table is empty: with an
  empty table neither the load nor the fallback is reached (`user_keys.rs:75`).
- The server's stop gap is for the "first full sync so we can find transactions in
  far index" (`bdk.transaction.data.provider.dart:318-320`), but its use is noted
  before the scan (327): if that scan fails or is killed, the next one takes the
  user's gap only, and then marks the account (`cut` in `FarIndexesFound`).
- Clearing the cache empties `isWalletSyncing` under running syncs, and deletes
  files before marks (`clear.cache.bloc.dart:67-76`): two syncs of one account may
  overlap, and after a kill in between an account stays marked whose file is empty
  (`overlap` in `MarkMeansScanned`).
- `anyFullSyncedDone` ("at lease one full sync done", 197) also matches the key of a
  used stop gap, so it is true once a full sync has started.
- With 32 to 63 errors counted the back-off throws inside the error handler: no
  timer and no error state, so each new block tries again at once, until a success
  or the 64th error. `CatchesUp` holds all the same.
- `lastSyncTimeCheck` compares milliseconds with seconds, and `getSyncErrorCoount`
  reads one counter and writes another; nothing calls either.
- `provider/wallet.rs:97` speaks of at most 10,000 accounts and lets 10,001 pass.

## What is not modelled

- Screens, widgets, localisation, generated bindings, the native Android and iOS
  projects: they hold no state of the protocols above, or only show it. Where a
  screen drives a manager (sign-in, home, send) its calls are actions.
- The content of cryptographic operations and of API answers: single library
  calls and conversions.
- The schema of the Dart database: `app.database.dart` searches a path over its
  migrations as the Rust side does, adds a column only where it is missing, and
  stores the version last, so that a migration cut short is repeated;
  `app.migration.manager.dart` rebuilds caches. `ramp_countries_dao.rs`, which nothing uses; the passphrase callbacks, which are
  plain reads.
- `create_wallet`: encryption followed by one request; the wallet it makes enters
  the models as any other client's does.
- The bdk/Esplora libraries, muon, sqflite and gopenpgp: external.
- Everything `PROJECT.json` lists as `not_modelled` with "Planned" in its note.

## Plan

Done so far: the session on both platforms, the wallet keys with their abstract
service, the event loop and the wallets, the database with its providers, the
settings, the Bitcoin synchronisation, and the proofs of all their safety
properties. What follows, most important first:

1. `WalletSync`: a second user after a logout, whose events are asked for after the
   previous user's id; the mnemonics that `saveWalletMnemonics` merges.
2. The service loop: the flags of `service.dart`, started again while the loop
   sleeps; the connectivity subscription that is not set up again;
   `getEventloopDuration`, which counts every round as an error until a fetch
   succeeds.
3. Two clients built at once (`API_CLIENT_INITIALIZING`).
4. The Dart twin of the wallet keys provider, as another refinement of `KeyService`.
