---- MODULE WalletStore ----
(***************************************************************************)
(* The providers of the Rust core that keep a copy of the server's data in *)
(* the local database: wallets with their mnemonics, user keys, accounts.  *)
(* A provider looks into the table, asks the server when it does not find  *)
(* what it wants, upserts the answer row by row and looks again; creating  *)
(* an account takes the next derivation path from the table.  Tasks share  *)
(* the providers, and a row is written by three separate statements.       *)
(***************************************************************************)
EXTENDS LocalDatabase

CONSTANTS
    Loaded,        \* the value of a row that comes from the server
    MaxCalls,      \* bound: calls made to the providers
    MaxChanges     \* bound: changes on the server

ASSUME StoreAssumption ==
    /\ Loaded \in Vals /\ MaxCalls \in Nat /\ MaxChanges \in Nat
    /\ Groups \subseteq Nat /\ 0 \in Groups

VARIABLES
    server,        \* what the server has: a set of [key, group]
    past,          \* every set of keys the server has had
    mnemonics,     \* wallets whose mnemonic is in the secure store
    gone,          \* keys whose row has been deleted
    frame,         \* the call each task is in and how far it is
    answer,        \* how the last call ended
    partial,       \* the table's keys need not be a whole answer of the server
    stale,         \* tasks whose path was chosen without all the server's accounts
    calls, changes \* bounded counters

worldVars == <<server, past, gone, changes>>
storeVars == <<server, past, mnemonics, gone, frame, answer, partial, stale, calls, changes>>
vars == <<dbVars, storeVars>>

Things == [key : Keys, group : Groups]
Ops == {"none", "upsert", "get_wallet", "get_wallet_mnemonic", "get_user_key",
        "get_user_keys", "create_wallet_account"}
Phases == {"idle", "upsert", "find", "load", "fill", "save", "refind", "default", "request"}
Answers == {"none", "found", "done", "notfound", "network", "nokeys", "nocallback",
            "database", "full", "taken"}

\* Outside a call; a call has the key and the path it is about, the server's
\* reply and the part of it not upserted yet.
Idle == [phase |-> "idle", op |-> "none", want |-> Blank.key, path |-> 0,
         reply |-> {}, left |-> {}]

KeysOf(things) == {x.key : x \in things}
GroupsOf(things) == {x.group : x \in things}

\* Accounts have paths of their own; the rows of the other tables belong to
\* one user.
GroupsUsed == IF table = AccountDao THEN Groups ELSE {0}

\* The calls each table serves beside DataProvider::upsert.
Lookups ==
    CASE table = WalletDao -> {"get_wallet", "get_wallet_mnemonic"}
      [] table = ProtonUserKeyDao -> {"get_user_key", "get_user_keys"}
      [] table = AccountDao -> {"create_wallet_account"}
      [] OTHER -> {}

\* Nothing on the server has the key, nor the path, of x.
New(x) ==
    /\ Lookups # {} /\ x.key \notin KeysOf(server) /\ x.group \in GroupsUsed
    /\ table = AccountDao => x.group \notin GroupsOf(server)

Init ==
    /\ DbInit
    /\ server \in {{}, IF Lookups = {} THEN {} ELSE {[key |-> Blank.key, group |-> 0]}}
    /\ past = {KeysOf(server)}
    /\ mnemonics = {} /\ gone = {}
    /\ frame = [t \in Tasks |-> Idle]
    /\ answer = [t \in Tasks |-> "none"]
    /\ partial = FALSE /\ stale = {}
    /\ calls = 0 /\ changes = 0

----
(* Faulty variants, see the definitions named beside them.                 *)
DropLast(t) == Cardinality(frame[t].left) <= 1                  \* Filled
NextPath(used) == {Cardinality(used)}                           \* NewPath
PathAfterCount(used) == {Cardinality(used) + 1}                 \* NewPath
SaveFirst == "save"                                             \* AfterLoad
WaitForever(t, next) == UNCHANGED <<frame, answer>>             \* GoTo

----
At(t, phase) == frame[t].phase = phase

Return(t, how) ==
    /\ frame' = [frame EXCEPT ![t] = Idle]
    /\ answer' = [answer EXCEPT ![t] = how]

GoTo(t, next) ==
    /\ frame' = [frame EXCEPT ![t].phase = next]
    /\ UNCHANGED answer

Begin(t, op, phase, k) ==
    /\ calls < MaxCalls /\ calls' = calls + 1
    /\ Up /\ At(t, "idle")
    /\ frame' = [frame EXCEPT ![t] = [Idle EXCEPT !.phase = phase, !.op = op, !.want = k]]
    /\ answer' = [answer EXCEPT ![t] = "none"]
    /\ UNCHANGED <<worldVars, mnemonics, stale>>

\* upsert of a provider, with a model that is new or was read before.
Upsert(t, k) ==
    /\ Begin(t, "upsert", "upsert", k)
    /\ partial' = (table = ProtonUserKeyDao)
    /\ \E id \in {0} \union {i \in DOMAIN ids : ids[i] = k}, g \in GroupsUsed, v \in Vals \ {Loaded} :
           StartUpsert(t, [id |-> id, key |-> k, group |-> g, val |-> v])

UpsertEnds(t) ==
    /\ At(t, "upsert") /\ Take(t)
    /\ Return(t, IF outcome[t] = "ok" THEN "done" ELSE "database")
    /\ UNCHANGED <<worldVars, mnemonics, partial, stale, calls>>

\* Every other call looks into the table, or the store, first.
Look(t, op, k) ==
    /\ op \in Lookups
    /\ Begin(t, op, "find", k)
    /\ UNCHANGED <<dbVars, partial>>

\* A query of the table, which may fail.
Query(fault) ==
    /\ Fault(fault)
    /\ UNCHANGED <<table, rows, ids, schema, plan, step, item, outcome, disturbed,
                   excused, failed>>

Searching(t, op) == frame[t].phase \in {"find", "refind"} /\ frame[t].op = op

\* Not found: ask the server, or give up when that has been done.
NotFound(t) == IF At(t, "find") THEN GoTo(t, "load") ELSE Return(t, "notfound")

\* get_wallet; a query that fails finds nothing.
FindWallet(t) ==
    /\ Searching(t, "get_wallet")
    /\ \E fault \in BOOLEAN :
        /\ Query(fault)
        /\ IF schema = "none" THEN Return(t, "database")
           ELSE IF ~fault /\ First(frame[t].want) # {} THEN Return(t, "found")
           ELSE NotFound(t)
    /\ UNCHANGED <<worldVars, mnemonics, partial, stale, calls>>

\* get_wallet_mnemonic looks into the store only, through a Dart callback.
FindMnemonic(t) ==
    /\ Searching(t, "get_wallet_mnemonic")
    /\ \/ Return(t, "nocallback")
       \/ IF frame[t].want \in mnemonics THEN Return(t, "found") ELSE NotFound(t)
    /\ UNCHANGED <<dbVars, worldVars, mnemonics, partial, stale, calls>>

\* get_user_key, and get_primary_key for the primary one: an empty table is an
\* error, another table without the key is not.
FindUserKey(t) ==
    /\ Searching(t, "get_user_key")
    /\ \E fault \in BOOLEAN :
        /\ Query(fault)
        /\ IF schema = "none" \/ fault THEN Return(t, "database")
           ELSE IF rows = {} THEN Return(t, "nokeys")
           ELSE IF First(frame[t].want) # {} THEN Return(t, "found")
           ELSE GoTo(t, "load")
    /\ UNCHANGED <<worldVars, mnemonics, partial, stale, calls>>

\* get_user_keys: whatever the table has, if it has anything.
FindUserKeys(t) ==
    /\ Searching(t, "get_user_keys")
    /\ \E fault \in BOOLEAN :
        /\ Query(fault)
        /\ IF schema = "none" \/ fault \/ rows = {} THEN GoTo(t, "load")
                                                    ELSE Return(t, "found")
    /\ UNCHANGED <<worldVars, mnemonics, partial, stale, calls>>

\* What comes after the server's answer: the rows, then the mnemonics.
AfterLoad == "fill"

\* load_from_server and load_user_keys_from_server: the server is asked ...
Load(t) ==
    /\ At(t, "load")
    /\ \/ /\ frame' = [frame EXCEPT ![t].phase = AfterLoad, ![t].reply = server,
                                    ![t].left = server]
          /\ UNCHANGED answer
       \/ Return(t, "network")
       \/ table = ProtonUserKeyDao /\ server = {} /\ Return(t, "nokeys")
    /\ UNCHANGED <<dbVars, worldVars, mnemonics, partial, stale, calls>>

Filled(t) == frame[t].left = {}

\* ... and its answer upserted row by row, each as a model without an id ...
Fill(t) ==
    /\ At(t, "fill") /\ outcome[t] \in {"none", "ok"} /\ ~Filled(t)
    /\ \E x \in frame[t].left :
        /\ frame' = [frame EXCEPT ![t].left = frame[t].left \ {x}]
        /\ StartUpsert(t, [id |-> 0, key |-> x.key, group |-> x.group, val |-> Loaded])
    /\ UNCHANGED <<worldVars, answer, mnemonics, partial, stale, calls>>

\* ... until one fails ...
FillFails(t) ==
    /\ At(t, "fill") /\ outcome[t] \notin {"none", "ok"} /\ Take(t)
    /\ Return(t, "database")
    /\ partial' = (table = ProtonUserKeyDao)
    /\ UNCHANGED <<worldVars, mnemonics, stale, calls>>

\* ... or all are in the table: keys are returned as the server gave them, and
\* the default key stands in for one the server does not have either.
FillEnds(t) ==
    /\ At(t, "fill") /\ outcome[t] \in {"none", "ok"} /\ Filled(t) /\ Take(t)
    /\ CASE table = WalletDao -> GoTo(t, "save")
         [] frame[t].op = "get_user_keys" -> Return(t, "found")
         [] frame[t].op = "get_user_key" ->
                IF frame[t].want \in KeysOf(frame[t].reply) THEN Return(t, "found")
                                                            ELSE GoTo(t, "default")
    /\ UNCHANGED <<worldVars, mnemonics, partial, stale, calls>>

\* save_api_wallet_mnemonics: the callback of the app keeps nothing, one that
\* does keep the list replaces the one before.
Save(t) ==
    /\ At(t, "save")
    /\ \/ Return(t, "nocallback") /\ UNCHANGED mnemonics
       \/ GoTo(t, "refind") /\ mnemonics' \in {mnemonics, KeysOf(frame[t].reply)}
    /\ UNCHANGED <<dbVars, worldVars, partial, stale, calls>>

\* get_default_user_key asks Dart.
Default(t) ==
    /\ At(t, "default")
    /\ Return(t, "found") \/ Return(t, "nocallback")
    /\ UNCHANGED <<dbVars, worldVars, mnemonics, partial, stale, calls>>

\* The first path that no account of the table has; none beyond the last.
NewPath(used) == {g \in Groups \ used : \A h \in Groups \ used : g <= h}

\* create_wallet_account, once it has the wallet key: get_new_derivation_path ...
ChoosePath(t) ==
    /\ Searching(t, "create_wallet_account")
    /\ \E fault \in BOOLEAN :
        /\ Query(fault)
        /\ IF schema = "none" \/ fault THEN Return(t, "database") /\ UNCHANGED stale
           ELSE \/ /\ NewPath(GroupsOf(rows)) = {}
                   /\ Return(t, "full") /\ UNCHANGED stale
                \/ \E g \in NewPath(GroupsOf(rows)) :
                   /\ frame' = [frame EXCEPT ![t].phase = "request", ![t].path = g]
                   /\ stale' = IF GroupsOf(server) \subseteq GroupsOf(rows)
                               THEN stale ELSE stale \union {t}
                   /\ UNCHANGED answer
    /\ UNCHANGED <<worldVars, mnemonics, partial, calls>>

\* The server has one thing more, and the others who chose a path do not know.
Grow(x, by) ==
    /\ server' = server \union {x}
    /\ past' = past \union {KeysOf(server')}
    /\ stale' = (stale \union {u \in Tasks : At(u, "request")}) \ by

\* ... and the request with it, which may be lost on either way.  The table is
\* not told; a later upsert of the account does that.
Request(t) ==
    /\ At(t, "request")
    /\ \/ \E k \in Keys :
              /\ New([key |-> k, group |-> frame[t].path])
              /\ Grow([key |-> k, group |-> frame[t].path], {t})
              /\ Return(t, "done") \/ Return(t, "network")
       \/ /\ \/ frame[t].path \in GroupsOf(server) /\ Return(t, "taken")
             \/ Return(t, "network")
          /\ stale' = stale \ {t} /\ UNCHANGED <<server, past>>
    /\ UNCHANGED <<dbVars, mnemonics, gone, partial, calls, changes>>

----
(* Other clients, deletions, and the end of the process.                   *)

ServerAdds(x) ==
    /\ changes < MaxChanges /\ changes' = changes + 1
    /\ New(x) /\ Grow(x, {})
    /\ UNCHANGED <<dbVars, mnemonics, gone, frame, answer, partial, calls>>

ServerRemoves(x) ==
    /\ changes < MaxChanges /\ changes' = changes + 1
    /\ x \in server /\ table.deletes
    /\ server' = server \ {x} /\ past' = past \union {KeysOf(server')}
    /\ UNCHANGED <<dbVars, mnemonics, gone, frame, answer, partial, stale, calls>>

\* delete_by_wallet_id and its like: the rows of one key, or all of a wallet.
DeleteRows(doomed) ==
    /\ changes < MaxChanges /\ changes' = changes + 1
    /\ Delete(doomed)
    /\ gone' = gone \union KeysOf(doomed)
    /\ UNCHANGED <<server, past, mnemonics, frame, answer, partial, stale, calls>>

World ==
    \/ \E x \in Things : ServerAdds(x) \/ ServerRemoves(x)
    \/ \E k \in Keys : DeleteRows({r \in rows : r.key = k})
    \/ DeleteRows(rows)

Build ==
    /\ RunStatement \/ EndMigration
    /\ partial' = (partial /\ rows' # {})
    /\ UNCHANGED <<worldVars, mnemonics, frame, answer, stale, calls>>

StartAgain ==
    /\ Restart
    /\ frame' = [t \in Tasks |-> Idle] /\ answer' = [t \in Tasks |-> "none"]
    /\ partial' = (partial \/ \E t \in Tasks : At(t, "fill"))
    /\ stale' = {}
    /\ UNCHANGED <<worldVars, mnemonics, calls>>

Step(t) ==
    \/ DbStep(t) /\ UNCHANGED storeVars
    \/ UpsertEnds(t) \/ FindWallet(t) \/ FindMnemonic(t) \/ FindUserKey(t)
    \/ FindUserKeys(t) \/ Load(t) \/ Fill(t) \/ FillFails(t) \/ FillEnds(t)
    \/ Save(t) \/ Default(t) \/ ChoosePath(t) \/ Request(t)

Next ==
    \/ \E t \in Tasks, k \in Keys : Upsert(t, k) \/ \E op \in Ops : Look(t, op, k)
    \/ \E t \in Tasks : Step(t)
    \/ World \/ Build \/ StartAgain

Spec == Init /\ [][Next]_vars

\* The runtime polls every woken task; the build is awaited by the start.
FairSpec == Spec /\ WF_vars(Build) /\ \A t \in Tasks : WF_vars(Step(t))

----
TypeOK ==
    /\ table \in Daos /\ schema \in {"none", "base", "full"}
    /\ rows \subseteq Rows /\ \A i \in DOMAIN ids : ids[i] \in Keys
    /\ step \in [Tasks -> Steps] /\ item \in [Tasks -> Rows]
    /\ outcome \in [Tasks -> Outcomes]
    /\ disturbed \subseteq Tasks /\ excused \in BOOLEAN /\ failed \in BOOLEAN
    /\ server \subseteq Things /\ past \subseteq SUBSET Keys
    /\ mnemonics \subseteq Keys /\ gone \subseteq Keys
    /\ frame \in [Tasks -> [phase : Phases, op : Ops, want : Keys, path : Groups,
                            reply : SUBSET Things, left : SUBSET Things]]
    /\ answer \in [Tasks -> Answers]
    /\ partial \in BOOLEAN /\ stale \subseteq Tasks
    /\ faults \in Nat /\ calls \in Nat /\ changes \in Nat

\* get_user_keys answers from the table with all the keys the server had at
\* one time, although they are upserted one by one and an answer from the
\* table is never checked: only a load that is under way, one that ended half
\* way, or the upsert of a single key can make it give a part.
WholeKeysUnlessPartial ==
    [][\A t \in Tasks :
        /\ Searching(t, "get_user_keys") /\ answer'[t] = "found"
        /\ ~partial /\ \A u \in Tasks : ~At(u, "fill")
        => KeysOf(rows) \in past]_vars

\* A mnemonic is kept only for a wallet that is in the table, or was deleted
\* from it: the rows are written before the mnemonics.
MnemonicsHaveRows == [][mnemonics' \subseteq mnemonics \union KeysOf(rows) \union gone]_vars

\* A path that is about to be requested is free on the server, unless it was
\* chosen without knowing all the server's accounts or another one has been
\* created since.
RequestedPathIsFree ==
    \A t \in Tasks :
        At(t, "request") /\ frame[t].path \in GroupsOf(server) => t \in stale

\* Every call returns, whatever fails and whoever shares the tables: as calls are
\* bounded, a call that never did would keep its task from being idle for ever.
CallsReturn == []<>(\A t \in Tasks : At(t, "idle"))

----
\* provider/wallet.rs: get_wallet "Returns an error if no wallet is found".
\* When the server has just listed the wallet, no query fails and nobody else
\* writes, it must not end in an error of the database.
GetWalletFindsServerWallet ==
    \A t \in Tasks :
        /\ At(t, "fill") /\ frame[t].op = "get_wallet"
        /\ frame[t].want \in KeysOf(frame[t].reply)
        => outcome[t] # "unchanged" \/ t \in disturbed
====
