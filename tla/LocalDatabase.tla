---- MODULE LocalDatabase ----
(***************************************************************************)
(* The Rust core's database: how its tables are built when the process     *)
(* starts, and the upsert every table's DAO offers.  An upsert takes the   *)
(* connection once for each of its statements, so the statements of two    *)
(* tasks interleave; the statements of different tables do not touch each  *)
(* other, so the module follows one table, any of them.                    *)
(***************************************************************************)
EXTENDS Naturals, FiniteSets, Sequences

CONSTANTS
    Tasks,         \* tasks that share the connection
    Keys,          \* what the DAO looks a row up by
    Groups,        \* what a row belongs to: a wallet's path, a user
    Vals,          \* the rest of a row
    MaxFaults      \* bound: failed statements, failed reads and restarts

ASSUME DatabaseAssumption ==
    Keys # {} /\ Groups # {} /\ Vals # {} /\ MaxFaults \in Nat

VARIABLES
    table,         \* the table and its DAO
    rows,          \* what is in the table
    ids,           \* the key of the row each automatic id was given to
    schema,        \* "none", "base" or, with the column added later, "full"
    plan,          \* migrations left to run, as lists of statements
    step,          \* where each task's upsert is
    item,          \* what it upserts
    outcome,       \* how it ended
    disturbed,     \* upserts during which somebody else wrote
    excused,       \* a disturbed upsert has inserted, or a read has failed
    failed,        \* a statement of this start has failed
    faults         \* bounded counter

dbVars == <<table, rows, ids, schema, plan, step, item, outcome,
            disturbed, excused, failed, faults>>

Rows == [id : Nat, key : Keys, group : Groups, val : Vals]
Blank == CHOOSE r \in [id : {0}, key : Keys, group : Groups, val : Vals] : TRUE
Steps == {"none", "lookup", "insert", "update", "readback"}
Outcomes == {"none", "ok", "conflict", "unchanged", "nocolumn"}

----
(* Faulty variants, see the definitions named beside them.                 *)
AlwaysInsert(t) == "insert"                                     \* Found
ForgetValue(t, r) == r                                          \* Updated
NoPath(old, end) == {}                                          \* MigrationPath

----
(* The tables: what may not occur twice, which row an update changes, and  *)
(* whether rows can be deleted and a later migration adds a column.        *)

Table(unique, match, deletes) ==
    [unique |-> unique, match |-> match, deletes |-> deletes, grows |-> FALSE]

AccountUnique == {"group"}              \* UNIQUE (wallet_id, derivation_path)
WalletUnique == {"key"}                 \* UNIQUE (wallet_id)
ProtonUserKeyUnique == {"key", "group"} \* PRIMARY KEY (key_id, user_id)
WalletUserSettingsUnique == {"key"}     \* PRIMARY KEY (user_id)
ProtonUserUnique == {}                  \* nothing but an automatic id
AddressUnique == {}
BitcoinAddressUnique == {}
ContactsUnique == {}
ExchangeRateUnique == {}
TransactionUnique == {}

AccountDao == [Table(AccountUnique, "id", TRUE) EXCEPT !.grows = TRUE]
WalletDao == Table(WalletUnique, "id", TRUE)
ProtonUserKeyDao == Table(ProtonUserKeyUnique, "key", FALSE)
WalletUserSettingsDao == Table(WalletUserSettingsUnique, "key", FALSE)
ProtonUserDao == Table(ProtonUserUnique, "none", FALSE)
AddressDao == Table(AddressUnique, "id", TRUE)
BitcoinAddressDao == Table(BitcoinAddressUnique, "id", TRUE)
ContactsDao == Table(ContactsUnique, "id", TRUE)
ExchangeRateDao == Table(ExchangeRateUnique, "id", FALSE)
TransactionDao == Table(TransactionUnique, "id", TRUE)

Daos == {AccountDao, WalletDao, ProtonUserKeyDao, WalletUserSettingsDao,
         ProtonUserDao, AddressDao, BitcoinAddressDao, ContactsDao,
         ExchangeRateDao, TransactionDao}

----
(* Building the tables.                                                    *)

Version == 3

\* build_migration: the migrations there are, and what each does to a table.
Migrations == {<<1, 2>>, <<2, 3>>}
Statements(migration) ==
    IF migration = <<1, 2>> THEN <<"drop", "create", "index">>
    ELSE IF table.grows THEN <<"dropcolumn", "addcolumn">> ELSE <<>>

\* find_migration_path: from every version the nearest one ahead; no path at
\* all, {}, once a version has none.
MigrationPath(old, end) ==
    LET Ahead(v) == {m \in Migrations : m[1] = v /\ v < m[2] /\ m[2] <= end}
        path[v \in old..end] ==
            IF v = end THEN {<<>>}
            ELSE UNION {{<<m>> \o rest : rest \in path[m[2]]} :
                            m \in {m \in Ahead(v) : \A n \in Ahead(v) : m[2] <= n[2]}}
    IN  path[old]

\* build_database; without a path there is nothing to migrate.
BuildDatabase(old) ==
    IF MigrationPath(old, Version) = {} THEN <<>>
    ELSE LET path == CHOOSE p \in MigrationPath(old, Version) : TRUE
         IN  [i \in DOMAIN path |-> Statements(path[i])]

Up == plan = <<>>
Complete == schema = IF table.grows THEN "full" ELSE "base"

DbInit ==
    /\ table \in Daos
    /\ schema \in {"none", "base", "full"} /\ rows = {} /\ ids = <<>>
    /\ plan = BuildDatabase(1)
    /\ step = [t \in Tasks |-> "none"]
    /\ item = [t \in Tasks |-> Blank]
    /\ outcome = [t \in Tasks |-> "none"]
    /\ disturbed = {} /\ excused = FALSE /\ failed = FALSE /\ faults = 0

\* Something may go wrong, within the bound.
Fault(happens) ==
    /\ happens => faults < MaxFaults
    /\ faults' = IF happens THEN faults + 1 ELSE faults

\* SQLite refuses a statement that does not fit the table.
Fits(s) ==
    CASE s = "index" -> schema # "none"
      [] s = "dropcolumn" -> schema = "full"
      [] s = "addcolumn" -> schema = "base"
      [] OTHER -> TRUE

\* The next statement of the build.  An error ends its migration, not the
\* build; the one of dropping the column is only logged.
RunStatement ==
    /\ ~Up /\ Head(plan) # <<>>
    /\ LET s == Head(Head(plan)) IN \E fault \in BOOLEAN :
        LET works == Fits(s) /\ ~fault IN
        /\ Fault(fault) /\ failed' = (failed \/ fault)
        /\ schema' = IF ~works THEN schema
                     ELSE CASE s = "drop" -> "none"
                            [] s = "create" /\ schema = "none" -> "base"
                            [] s = "dropcolumn" -> "base"
                            [] s = "addcolumn" -> "full"
                            [] OTHER -> schema
        /\ rows' = IF works /\ s = "drop" THEN {} ELSE rows
        /\ ids' = IF works /\ s = "drop" THEN <<>> ELSE ids
        /\ plan' = [plan EXCEPT ![1] = IF works \/ s = "dropcolumn"
                                       THEN Tail(Head(plan)) ELSE <<>>]
        /\ excused' = (excused /\ rows' # {})
    /\ UNCHANGED <<table, step, item, outcome, disturbed>>

\* The build goes on with the next migration; some have no statement for the
\* table.
EndMigration ==
    /\ ~Up /\ Head(plan) = <<>> /\ plan' = Tail(plan)
    /\ UNCHANGED <<table, rows, ids, schema, step, item, outcome, disturbed, excused,
                   failed, faults>>

\* The process is killed at any moment; at the next start FrbProtonWallet::new
\* builds the database from version 1, whatever is in the file.
Restart ==
    /\ Fault(TRUE)
    /\ plan' = BuildDatabase(1) /\ failed' = FALSE
    /\ step' = [t \in Tasks |-> "none"]
    /\ outcome' = [t \in Tasks |-> "none"]
    /\ item' = [t \in Tasks |-> Blank] /\ disturbed' = {}
    /\ UNCHANGED <<table, rows, ids, schema, excused>>

----
(* The DAO.                                                                *)

\* get_by_column_id: the first row with the key.
First(key) == {r \in rows : r.key = key /\ \A s \in rows : s.key = key => r.id <= s.id}

\* Upserts of others that are under way while t writes.
Others(t) == disturbed \union {u \in Tasks \ {t} : step[u] # "none"}

End(t, how) ==
    /\ step' = [step EXCEPT ![t] = "none"]
    /\ outcome' = [outcome EXCEPT ![t] = how]

\* upsert is called; users_table has only an insert.
StartUpsert(t, r) ==
    /\ Up /\ step[t] = "none"
    /\ step' = [step EXCEPT ![t] = IF table.match = "none" THEN "insert" ELSE "lookup"]
    /\ item' = [item EXCEPT ![t] = r]
    /\ outcome' = [outcome EXCEPT ![t] = "none"]
    /\ disturbed' = disturbed \ {t}
    /\ UNCHANGED <<table, rows, ids, schema, plan, excused, failed, faults>>

\* The caller takes the outcome of an upsert that has ended.
Take(t) ==
    /\ step[t] = "none"
    /\ outcome' = [outcome EXCEPT ![t] = "none"]
    /\ item' = [item EXCEPT ![t] = Blank]
    /\ disturbed' = disturbed \ {t}
    /\ UNCHANGED <<table, rows, ids, schema, plan, step, excused, failed, faults>>

\* Which statement follows the lookup.
Found(t) == IF First(item[t].key) = {} THEN "insert" ELSE "update"

\* A query that fails is taken for one that finds nothing.
Lookup(t) ==
    /\ step[t] = "lookup"
    /\ IF schema = "none"
       THEN End(t, "nocolumn") /\ UNCHANGED <<excused, faults>>
       ELSE \E fault \in BOOLEAN :
            /\ Fault(fault) /\ excused' = (excused \/ fault)
            /\ step' = [step EXCEPT ![t] = IF fault THEN "insert" ELSE Found(t)]
            /\ UNCHANGED outcome
    /\ UNCHANGED <<table, rows, ids, schema, plan, item, disturbed, failed>>

\* Another row has what the table keeps unique.
Clash(r, others) ==
    table.unique # {} /\ \E s \in others : \A c \in table.unique : s[c] = r[c]

Insert(t) ==
    /\ step[t] = "insert"
    /\ LET r == [item[t] EXCEPT !.id = Len(ids) + 1] IN
       IF ~Complete \/ Clash(r, rows)
       THEN /\ End(t, IF Complete THEN "conflict" ELSE "nocolumn")
            /\ UNCHANGED <<rows, ids, disturbed, excused>>
       ELSE /\ rows' = rows \union {r} /\ ids' = Append(ids, r.key)
            /\ disturbed' = Others(t)
            /\ excused' = (excused \/ t \in disturbed)
            /\ IF table.match = "none" THEN End(t, "ok")
               ELSE step' = [step EXCEPT ![t] = "readback"] /\ UNCHANGED outcome
    /\ UNCHANGED <<table, schema, plan, item, failed, faults>>

\* The rows the WHERE clause of the update selects.
Matched(t) == {r \in rows : IF table.match = "id" THEN r.id = item[t].id
                                                  ELSE r.key = item[t].key}

\* A selected row after the update.
Updated(t, r) == [item[t] EXCEPT !.id = r.id]

Update(t) ==
    /\ step[t] = "update"
    /\ LET old == Matched(t)
           new == {Updated(t, r) : r \in old} IN
       IF ~Complete \/ old = {} \/ \E r \in new : Clash(r, rows \ old)
       THEN /\ End(t, IF ~Complete THEN "nocolumn"
                      ELSE IF old = {} THEN "unchanged" ELSE "conflict")
            /\ UNCHANGED <<rows, disturbed>>
       ELSE /\ rows' = (rows \ old) \union new
            /\ disturbed' = Others(t)
            /\ step' = [step EXCEPT ![t] = "readback"] /\ UNCHANGED outcome
    /\ UNCHANGED <<table, ids, schema, plan, item, excused, failed, faults>>

Readback(t) ==
    /\ step[t] = "readback"
    /\ End(t, "ok")
    /\ UNCHANGED <<table, rows, ids, schema, plan, item, disturbed, excused, failed, faults>>

\* delete_by_... a column.
Delete(doomed) ==
    /\ Up /\ schema # "none" /\ table.deletes
    /\ rows' = rows \ doomed
    /\ disturbed' = disturbed \union {u \in Tasks : step[u] # "none"}
    /\ UNCHANGED <<table, ids, schema, plan, step, item, outcome, excused,
                   failed, faults>>

DbStep(t) == Lookup(t) \/ Insert(t) \/ Update(t) \/ Readback(t)

----
\* However the last process ended, a start in which no statement fails leaves
\* the whole schema: no migration relies on what an earlier start left.
CleanStartHasSchema == Up /\ ~failed => Complete

\* No table gets a second row for a key, although most of them have no
\* constraint against it, unless a writer came between the lookup and the
\* insert of an upsert or a query failed.
DuplicatesNeedRace ==
    table.match # "none" =>
        \A r, s \in rows : r.key = s.key => r = s \/ excused

\* An upsert that has written, and that nobody disturbed, reads back what it
\* wrote: its row is the first of its key.
UpsertTakesEffect ==
    \A t \in Tasks :
        step[t] = "readback" /\ t \notin disturbed /\ ~excused =>
            {<<r.group, r.val>> : r \in First(item[t].key)} = {<<item[t].group, item[t].val>>}
====
