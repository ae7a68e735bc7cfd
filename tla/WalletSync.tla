---- MODULE WalletSync ----
(***************************************************************************)
(* The local copy of a user's wallets.  It is loaded once from the server  *)
(* and then kept up to date by the event loop, which asks the server for   *)
(* the events after the last one it applied and applies them in order.     *)
(* The copy lives in the database, with a second copy in memory, and the   *)
(* event id in memory and in the preferences.  Several fetches may run at  *)
(* once (the loop, a connectivity change, a transaction just sent), beside *)
(* the load of the home screen, and all of them interleave at every await. *)
(***************************************************************************)
EXTENDS Naturals, Sequences

CONSTANTS
    Wallets,       \* wallets the user may own
    Fetchers,      \* concurrent runs of fetchEvents
    Home,          \* the home screen, which calls getWallets
    MaxEvents,     \* bound: events of the user on the server
    MaxFailures,   \* bound: requests that fail
    MaxRestarts,   \* bound: kills of the process
    MaxLogouts     \* bound: logouts followed by a login of the same user

ASSUME ConstantsAssumption ==
    /\ Home \notin Fetchers
    /\ MaxEvents \in Nat /\ MaxFailures \in Nat
    /\ MaxRestarts \in Nat /\ MaxLogouts \in Nat

VARIABLES
    log,           \* the events of the user, as the server keeps them
    rows,          \* rows[w]: event whose wallet data the wallet table has, 0 for no row
    accounts,      \* wallets whose account is in the account table
    cache,         \* walletsData: the copy in memory
    cursor,        \* latestEventId in memory, 0 for the empty string
    prefs, disk,   \* the same id in the preferences, and on disk
    pc,            \* where each task is
    at, upto,      \* the events a fetch has still to apply are at..upto-1
    snap,          \* what a task read from the database for the cache
    seen,          \* what the load read from the server and has not stored
    covered,       \* every event before this id is known to the database; 0
                   \* before the first load
    failures, restarts, logouts,   \* bounded counters
    history        \* what has gone wrong so far (observes, never guards)

vars == <<log, rows, accounts, cache, cursor, prefs, disk, pc, at, upto, snap,
          seen, covered, failures, restarts, logouts, history>>

Tasks == Fetchers \union {Home}
Versions == 0..MaxEvents
Ids == 0..(MaxEvents + 1)

\* A wallet is created with its account, changed, or deleted.
Events == [kind : {"create", "update", "drop"}, wallet : Wallets]

\* An id names the place before an event: the event log[i] comes after id i.
Latest == Len(log) + 1

\* What getWallets shows: nothing but wallets that have a row.
Views == [rows : [Wallets -> Versions], accounts : SUBSET Wallets]
Rowless == [w \in Wallets |-> 0]
NoView == [rows |-> Rowless, accounts |-> {}]

\* _getFromDB, null (NoView) when there is no row.
View(r, a) == [rows |-> r, accounts |-> {w \in a : r[w] # 0}]
DbView == View(rows, accounts)

\* The wallets the server has, each with the last event that wrote it.
Drops(w) == {i \in DOMAIN log : log[i] = [kind |-> "drop", wallet |-> w]}
Puts(w) == {i \in DOMAIN log : log[i].wallet = w /\ log[i].kind # "drop"}
LastPut(w) == {i \in Puts(w) : \A j \in Puts(w) : j <= i}
Owned == {w \in Wallets : LastPut(w) # {} /\ Drops(w) = {}}
ServerRows == [w \in Wallets |->
    IF w \in Owned THEN CHOOSE i \in LastPut(w) : TRUE ELSE 0]

Larger(a, b) == IF a < b THEN b ELSE a

----
(* What can have gone wrong, recorded as it happens: "overlap" two tasks   *)
(* worked with the copy at once, or a logout caught one at work; "partial" *)
(* a load ended before its last wallet, or an event came before any load;  *)
(* "gap" the loop started at an id past what the database knows; "cut" a   *)
(* deletion lost its second half.                                          *)

Mishaps == {"overlap", "partial", "gap", "cut"}

\* A fetch that has an answer to apply, a load that has read something.
Applying == {"store", "unlink", "unlinkOld", "account", "read", "assign", "read2",
             "assign2", "advance"}
Loading == {"ask", "load", "loadAccount"}
Holding == Applying \union Loading \union {"peeked"}

Busy(t) == pc[t] \in Holding
Note(event, happened) == IF happened THEN {event} ELSE {}
OthersBusy(t) == \E u \in Tasks \ {t} : Busy(u)

dbVars == <<rows, accounts>>
idVars == <<cursor, prefs, disk>>
countVars == <<failures, restarts, logouts>>

Init ==
    /\ log = <<>>
    /\ rows = Rowless /\ accounts = {} /\ cache = NoView
    /\ cursor = 0 /\ prefs = 0 /\ disk = 0
    /\ pc = [t \in Tasks |-> IF t = Home THEN "peek" ELSE "idle"]
    /\ at = [f \in Fetchers |-> 0] /\ upto = [f \in Fetchers |-> 0]
    /\ snap = [t \in Tasks |-> NoView] /\ seen = Rowless
    /\ covered = 0
    /\ failures = 0 /\ restarts = 0 /\ logouts = 0
    /\ history = {}

----
(* Faulty variants: what a plausible slip in the code would turn the      *)
(* definition named beside it into.  The specification never uses them.   *)

SavedForBatch(f) == upto[f]                                  \* AppliedUpTo
SavedTooFar(f) == at[f] + 2                                  \* AppliedUpTo
SavedNotPast(f) == at[f]                                     \* AppliedUpTo
OnlyInserted(w, i) ==                                        \* Stored
    IF rows[w] = 0 THEN [rows EXCEPT ![w] = i] ELSE rows
AccountsLeft(w) == accounts                                  \* Unlinked
OnlyFirstRead(t) == IF cache = NoView THEN snap[t] ELSE cache  \* Refreshed

----
GoTo(t, label) == pc' = [pc EXCEPT ![t] = label]

(* The server: other clients create, change and delete wallets. *)

Publish(kind, w) ==
    /\ Len(log) < MaxEvents
    /\ IF kind = "create" THEN Puts(w) = {} ELSE w \in Owned
    /\ log' = Append(log, [kind |-> kind, wallet |-> w])
    /\ UNCHANGED <<dbVars, cache, idVars, pc, at, upto, snap, seen, covered,
                   countVars, history>>

----
(* The event loop: onUpdate and fetchEvents. *)

\* The fetch ends; what it held is gone.
EndFetch(f) ==
    /\ GoTo(f, "idle")
    /\ at' = [at EXCEPT ![f] = 0] /\ upto' = [upto EXCEPT ![f] = 0]

\* onUpdate fetches an event id if it has none; fetchEvents asks for the
\* events after the one it has.
StartFetch(f) ==
    /\ pc[f] = "idle"
    /\ IF cursor = 0
       THEN GoTo(f, "fetchid") /\ UNCHANGED at
       ELSE GoTo(f, "asked") /\ at' = [at EXCEPT ![f] = cursor]
    /\ UNCHANGED <<log, dbVars, cache, idVars, upto, snap, seen, covered,
                   countVars, history>>

\* fetchEventID: the id in the preferences, or else the server's latest one.
FetchEventId(f) ==
    /\ pc[f] = "fetchid"
    /\ LET id == IF prefs # 0 THEN prefs ELSE Latest
       IN  /\ at' = [at EXCEPT ![f] = id]
           /\ history' = history \union Note("gap", covered # 0 /\ covered < id)
    /\ GoTo(f, "setid")
    /\ UNCHANGED <<log, dbVars, cache, idVars, upto, snap, seen, covered, countVars>>

\* ... stored in memory, not in the preferences; then fetchEvents asks.
SetEventId(f) ==
    /\ pc[f] = "setid"
    /\ cursor' = at[f]
    /\ history' = history \union Note("overlap", cursor # 0)
    /\ GoTo(f, "asked")
    /\ UNCHANGED <<log, dbVars, cache, prefs, disk, at, upto, snap, seen,
                   covered, countVars>>

\* collectEvents answers every event after the one it was asked about.
Collect(f) ==
    /\ pc[f] = "asked"
    /\ IF at[f] < Latest
       THEN GoTo(f, "store") /\ upto' = [upto EXCEPT ![f] = Latest] /\ UNCHANGED at
       ELSE EndFetch(f)
    /\ history' = history \union
           Note("overlap", at[f] < Latest /\ (OthersBusy(f) \/ at[f] # cursor))
    /\ UNCHANGED <<log, dbVars, cache, idVars, snap, seen, covered, countVars>>

\* A request of the fetch fails: fetchEvents returns and keeps its place.
FetchFails(f) ==
    /\ failures < MaxFailures
    /\ pc[f] \in {"fetchid", "asked", "store"}
    /\ failures' = failures + 1
    /\ EndFetch(f)
    /\ UNCHANGED <<log, dbVars, cache, idVars, snap, seen, covered, restarts, logouts,
                   history>>

\* insertOrUpdateWallet looks for the row and then inserts it, replacing one
\* inserted meanwhile, or updates it unless it was deleted meanwhile; either
\* way the table is as if both happened at once.
Stored(w, i) == [rows EXCEPT ![w] = i]

\* The wallet part of the event: write the wallet, or delete its row ...
ApplyWallet(f) ==
    /\ pc[f] = "store"
    /\ LET event == log[at[f]] IN
       IF event.kind = "drop"
       THEN /\ rows' = [rows EXCEPT ![event.wallet] = 0]
            /\ GoTo(f, IF rows[event.wallet] = 0 THEN "advance" ELSE "unlink")
       ELSE /\ rows' = Stored(event.wallet, at[f])
            /\ GoTo(f, "read")
    /\ history' = history \union
           Note("partial", covered = 0 /\ log[at[f]].kind # "drop")
    /\ covered' = IF at[f] < covered THEN at[f] ELSE covered
    /\ UNCHANGED <<log, accounts, cache, idVars, at, upto, snap, seen, countVars>>

\* ... and then, deleteWallet, the account that belonged to it.
Unlinked(w) == accounts \ {w}

Unlink(f) ==
    /\ pc[f] \in {"unlink", "unlinkOld"}
    /\ accounts' = Unlinked(log[at[f]].wallet)
    /\ GoTo(f, IF pc[f] = "unlink" THEN "read" ELSE "advance")
    /\ UNCHANGED <<log, rows, cache, idVars, at, upto, snap, seen, covered,
                   countVars, history>>

\* The account part of an event that creates a wallet: insertOrUpdateAccount.
ApplyAccount(f) ==
    /\ pc[f] = "account"
    /\ accounts' = accounts \union {log[at[f]].wallet}
    /\ GoTo(f, "read2")
    /\ UNCHANGED <<log, rows, cache, idVars, at, upto, snap, seen, covered,
                   countVars, history>>

\* `walletsData = await _getFromDB()`: read the tables ...
ReadDb(f) ==
    /\ pc[f] \in {"read", "read2"}
    /\ snap' = [snap EXCEPT ![f] = DbView]
    /\ GoTo(f, IF pc[f] = "read" THEN "assign" ELSE "assign2")
    /\ UNCHANGED <<log, dbVars, cache, idVars, at, upto, seen, covered, countVars,
                   history>>

\* ... and assign the copy that was read.
Refreshed(t) == snap[t]

\* What comes after the wallet part, and after the account part.
AfterCache(f) ==
    IF pc[f] \in {"read", "assign"} /\ log[at[f]].kind = "create" THEN "account"
    ELSE "advance"

AssignCache(f) ==
    /\ pc[f] \in {"assign", "assign2"}
    /\ cache' = Refreshed(f)
    /\ snap' = [snap EXCEPT ![f] = NoView]
    /\ GoTo(f, AfterCache(f))
    /\ UNCHANGED <<log, dbVars, idVars, at, upto, seen, covered, countVars, history>>

\* The event is applied: remember its id, in memory and in the preferences.
AppliedUpTo(f) == at[f] + 1

Advance(f) ==
    /\ pc[f] = "advance"
    /\ cursor' = AppliedUpTo(f)
    /\ prefs' = AppliedUpTo(f)
    /\ covered' = IF covered = 0 THEN 0 ELSE Larger(covered, at[f] + 1)
    /\ IF at[f] + 1 < upto[f]
       THEN GoTo(f, "store") /\ at' = [at EXCEPT ![f] = at[f] + 1] /\ UNCHANGED upto
       ELSE EndFetch(f)
    /\ UNCHANGED <<log, dbVars, cache, disk, snap, seen, countVars, history>>

\* setString is not awaited: the preferences reach the disk later.
Flush ==
    /\ disk # prefs
    /\ disk' = prefs
    /\ UNCHANGED <<log, dbVars, cache, cursor, prefs, pc, at, upto, snap, seen,
                   covered, countVars, history>>

----
(* The home screen: WalletsDataProvider.getWallets. *)

\* A reader finds nothing in memory and looks in the database.
GetWallets ==
    /\ pc[Home] = "idle" /\ cache = NoView
    /\ GoTo(Home, "peek")
    /\ UNCHANGED <<log, dbVars, cache, idVars, at, upto, snap, seen, covered,
                   countVars, history>>

Peek ==
    /\ pc[Home] = "peek"
    /\ snap' = [snap EXCEPT ![Home] = DbView]
    /\ history' = history \union Note("overlap", OthersBusy(Home))
    /\ GoTo(Home, "peeked")
    /\ UNCHANGED <<log, dbVars, cache, idVars, at, upto, seen, covered, countVars>>

\* What was found is kept; only an empty database makes it ask the server.
KeepPeeked ==
    /\ pc[Home] = "peeked"
    /\ cache' = Refreshed(Home)
    /\ snap' = [snap EXCEPT ![Home] = NoView]
    /\ GoTo(Home, IF snap[Home] = NoView THEN "ask" ELSE "idle")
    /\ UNCHANGED <<log, dbVars, idVars, at, upto, seen, covered, countVars, history>>

\* _fetchFromServer: the wallets of the server ...
AskWallets ==
    /\ pc[Home] = "ask"
    /\ seen' = ServerRows
    /\ covered' = Larger(covered, Latest)
    /\ GoTo(Home, "load")
    /\ UNCHANGED <<log, dbVars, cache, idVars, at, upto, snap, countVars, history>>

NextSeen == CHOOSE w \in Wallets : seen[w] # 0

\* ... are stored one by one ...
LoadWallet ==
    /\ pc[Home] = "load" /\ seen # Rowless
    /\ rows' = Stored(NextSeen, seen[NextSeen])
    /\ GoTo(Home, "loadAccount")
    /\ UNCHANGED <<log, accounts, cache, idVars, at, upto, snap, seen, covered,
                   countVars, history>>

\* ... each followed by the account the server has for it by then.
LoadAccount ==
    /\ pc[Home] = "loadAccount" /\ NextSeen \in Owned
    /\ accounts' = accounts \union {NextSeen}
    /\ seen' = [seen EXCEPT ![NextSeen] = 0]
    /\ GoTo(Home, "load")
    /\ UNCHANGED <<log, rows, cache, idVars, at, upto, snap, covered, countVars,
                   history>>

\* getWallets throws, with what is stored left behind.
EndLoad ==
    /\ seen' = Rowless
    /\ history' = history \union {"partial"}
    /\ GoTo(Home, "idle")
    /\ UNCHANGED <<log, dbVars, cache, idVars, at, upto, snap, covered, restarts,
                   logouts>>

\* The wallet is gone by then: the server refuses to list its accounts.
LoadRefused ==
    /\ pc[Home] = "loadAccount" /\ NextSeen \notin Owned
    /\ EndLoad /\ UNCHANGED failures

\* A request of the load fails.
LoadFails ==
    /\ pc[Home] \in Loading /\ failures < MaxFailures
    /\ failures' = failures + 1
    /\ EndLoad

\* Every wallet is stored: `walletsData = await _getFromDB()`.
LoadRead ==
    /\ pc[Home] = "load" /\ seen = Rowless
    /\ snap' = [snap EXCEPT ![Home] = DbView]
    /\ GoTo(Home, "read")
    /\ UNCHANGED <<log, dbVars, cache, idVars, at, upto, seen, covered, countVars,
                   history>>

LoadDone ==
    /\ pc[Home] = "read"
    /\ cache' = Refreshed(Home)
    /\ snap' = [snap EXCEPT ![Home] = NoView]
    /\ history' = history \ {"partial"}
    /\ GoTo(Home, "idle")
    /\ UNCHANGED <<log, dbVars, idVars, at, upto, seen, covered, countVars>>

----
(* The end of the session, and of the process. *)

\* A fetch that was running goes on; what it would still have written to the
\* copy in memory goes to the provider of the old session.
Outlived(t) ==
    CASE t = Home -> "peek"
      [] t # Home /\ pc[t] \in {"read", "assign", "read2", "assign2"} -> AfterCache(t)
      [] t # Home /\ pc[t] = "unlink" -> "unlinkOld"
      [] OTHER -> pc[t]

\* HomeViewModel.logout clears the preferences and the tables, and the same
\* user logs in again: the provider is new, the event loop and its id are not.
Relogin ==
    /\ logouts < MaxLogouts
    /\ logouts' = logouts + 1
    /\ rows' = Rowless /\ accounts' = {} /\ cache' = NoView
    /\ prefs' = 0 /\ disk' = 0
    /\ pc' = [t \in Tasks |-> Outlived(t)]
    /\ snap' = [t \in Tasks |-> NoView] /\ seen' = Rowless
    /\ covered' = 0
    /\ history' = IF \A t \in Tasks : pc[t] = "idle" THEN {} ELSE history \union {"overlap"}
    /\ UNCHANGED <<log, cursor, at, upto, failures, restarts>>

\* The process is killed and started again: the tables and the disk survive.
Restart ==
    /\ restarts < MaxRestarts
    /\ restarts' = restarts + 1
    /\ cache' = NoView /\ cursor' = 0 /\ prefs' = disk
    /\ pc' = [t \in Tasks |-> IF t = Home THEN "peek" ELSE "idle"]
    /\ at' = [f \in Fetchers |-> 0] /\ upto' = [f \in Fetchers |-> 0]
    /\ snap' = [t \in Tasks |-> NoView] /\ seen' = Rowless
    /\ history' = history
           \union Note("partial", pc[Home] \in Loading)
           \union Note("cut", \E f \in Fetchers : pc[f] \in {"unlink", "unlinkOld"})
    /\ UNCHANGED <<log, dbVars, disk, covered, failures, logouts>>

----
Apply(f) ==
    \/ Collect(f) \/ ApplyWallet(f) \/ Unlink(f) \/ ApplyAccount(f)
    \/ ReadDb(f) \/ AssignCache(f) \/ Advance(f)

Fetch(f) == StartFetch(f) \/ FetchEventId(f) \/ SetEventId(f) \/ Apply(f)

LoadHome ==
    \/ GetWallets \/ Peek \/ KeepPeeked \/ AskWallets \/ LoadWallet
    \/ LoadAccount \/ LoadRefused \/ LoadRead \/ LoadDone

Next ==
    \/ \E k \in {"create", "update", "drop"}, w \in Wallets : Publish(k, w)
    \/ \E f \in Fetchers : Fetch(f) \/ FetchFails(f)
    \/ LoadHome \/ LoadFails
    \/ Flush \/ Relogin \/ Restart

Spec == Init /\ [][Next]_vars

\* The loop runs again and again and awaited calls return; changes, failures,
\* writes to the disk, logouts and kills are never forced.
FairSpec == Spec /\ (\A f \in Fetchers : WF_vars(Fetch(f))) /\ WF_vars(LoadHome)

----
Labels == Holding \union {"idle", "fetchid", "setid", "asked", "peek"}

ServerOK == log \in Seq(Events) /\ Len(log) <= MaxEvents
DbOK ==
    /\ rows \in [Wallets -> Versions] /\ seen \in [Wallets -> Versions]
    /\ accounts \subseteq Wallets
ViewsOK == cache \in Views /\ snap \in [Tasks -> Views]
IdsOK == cursor \in Ids /\ prefs \in Ids /\ disk \in Ids /\ covered \in Ids
PlacesOK == at \in [Fetchers -> Ids] /\ upto \in [Fetchers -> Ids]

\* A fetch asks from a place it knows and applies events that are there.
FetchOK(f) ==
    /\ upto[f] <= Latest
    /\ pc[f] \in {"setid", "asked"} => at[f] # 0
    /\ pc[f] \in Applying => at[f] \in DOMAIN log /\ at[f] < upto[f]
TasksOK == pc \in [Tasks -> Labels] /\ \A f \in Fetchers : FetchOK(f)
CountsOK ==
    /\ failures \in Nat /\ restarts \in Nat /\ logouts \in Nat
    /\ history \subseteq Mishaps

TypeOK == ServerOK /\ DbOK /\ ViewsOK /\ IdsOK /\ PlacesOK /\ TasksOK /\ CountsOK

\* The database has everything before event id c.
Reflects(c) ==
    \A i \in DOMAIN log : i < c =>
        LET w == log[i].wallet IN
        IF log[i].kind = "drop" THEN rows[w] = 0
        ELSE rows[w] >= i \/ Drops(w) # {}

\* No event is skipped: whatever id the loop would ask from next, in this
\* process or after a kill, the database already has every event before it,
\* unless two tasks overlapped, a load was cut short or an id was missing.
NoEventSkipped ==
    (pc[Home] = "idle" /\ history \intersect {"overlap", "partial", "gap"} = {}) =>
        Reflects(cursor) /\ Reflects(disk)

\* When nobody works on the tables, the copy in memory is what they hold.
CacheFollowsDb ==
    ((\A t \in Tasks : ~Busy(t)) /\ cache # NoView /\ "overlap" \notin history) =>
        cache = DbView

\* A wallet that is gone leaves no account behind, unless a kill came
\* between the two deletions or two tasks overlapped.
NoOrphanAccount ==
    ((\A t \in Tasks : ~Busy(t)) /\ history \intersect {"overlap", "cut"} = {}) =>
        \A w \in accounts : rows[w] # 0

\* However the fetches overlap and set the event id back, none is stuck: once
\* the changes end, the id in memory is the server's latest for good.
CursorCatchesUp == <>[](cursor = Latest)

\* Once the changes end, the database and the memory hold what the server has,
\* unless something went wrong on the way.
CopyConverges ==
    <>[](history = {} => rows = ServerRows /\ cache = DbView)

----
\* event.loop.manager.dart, of the wallet's deletion: it "Will also delete
\* account".  So once every event is applied no account is without its wallet.
DeletionTakesAccounts ==
    ( /\ \A t \in Tasks : ~Busy(t)
      /\ cursor = Latest
      /\ history \intersect {"overlap", "gap"} = {} ) =>
        \A w \in accounts : rows[w] # 0
====
