---- MODULE WalletKeys ----
(***************************************************************************)
(* The wallet keys provider of the Rust core: a cache in memory, filled    *)
(* from the secure store (reached through Dart callbacks) and from the     *)
(* server.  The provider is shared by tasks that run concurrently; each of *)
(* its operations locks the cache for a moment, except a save, which keeps *)
(* the lock while it awaits the store.  Everything a task read before it   *)
(* takes the lock may be stale when it uses it.                            *)
(***************************************************************************)
EXTENDS Naturals, FiniteSets

CONSTANTS
    Tasks,         \* tasks that share the provider
    Wallets,       \* wallets a key can belong to
    NoTask,        \* nobody
    MaxCalls,      \* bound: calls made to the provider
    MaxChanges     \* bound: changes on the server and in the store by others

ASSUME ConstantsAssumption ==
    /\ NoTask \notin Tasks /\ Wallets # {}
    /\ MaxCalls \in Nat /\ MaxChanges \in Nat

VARIABLES
    server,        \* wallets the server knows; each has its key
    store,         \* wallets whose key is in the secure store
    cache,         \* wallets whose key is in memory; {} also stands for None
    lock,          \* the task that holds the cache over an await, or NoTask
    callbacks,     \* the Dart callbacks of the secure store are set
    pc,            \* where each task is
    op,            \* what each task was called for
    want,          \* the wallet it looks for
    seen,          \* what it last read from the store or from the server
    result,        \* the outcome of its last call
    disturbed,     \* tasks whose work on the cache another task has undone
    calls, changes \* bounded counters

vars == <<server, store, cache, lock, callbacks, pc, op, want, seen, result,
          disturbed, calls, changes>>

Labels == {"idle", "memory1", "store", "overwrite", "memory2", "clear",
           "server", "merge", "save", "memory3"}
Ops == {"get", "clear", "reset"}
Results == {"none", "found", "done", "notfound", "empty", "nocallback", "network"}

worldVars == <<server, callbacks, changes>>

Init ==
    /\ server \in SUBSET Wallets
    /\ store \in SUBSET server
    /\ cache = {} /\ lock = NoTask
    /\ callbacks = TRUE
    /\ pc = [t \in Tasks |-> "idle"]
    /\ op = [t \in Tasks |-> "get"]
    /\ want = [t \in Tasks |-> CHOOSE w \in Wallets : TRUE]
    /\ seen = [t \in Tasks |-> {}]
    /\ result = [t \in Tasks |-> "none"]
    /\ disturbed = {}
    /\ calls = 0 /\ changes = 0

----
(* Faulty variants: what a plausible slip in the code would turn the      *)
(* definition named beside it into.  The specification never uses them.   *)

MergeUnlocked == TRUE                                           \* CacheFree
AnyInMemory(t) == cache # {}                                    \* InMemory
KeysPushed(answer) == cache \union {answer}                     \* Merged
KeysDropped(answer) == cache                                    \* Merged
LockKept(t) == lock                                             \* Unlocked
ResetKeepsCache == cache                                        \* Cleared

----
\* The cache can be locked.
CacheFree == lock = NoTask

\* A call is over: its task is idle again and remembers the outcome.
Return(t, outcome) ==
    /\ pc' = [pc EXCEPT ![t] = "idle"]
    /\ result' = [result EXCEPT ![t] = outcome]

GoTo(t, label) ==
    /\ pc' = [pc EXCEPT ![t] = label]
    /\ UNCHANGED result

\* Tasks that count on what they or the reset they run put in the cache.
Relying == {t \in Tasks :
    \/ pc[t] = "memory3"
    \/ op[t] = "reset" /\ pc[t] \in {"server", "merge"}}

\* get_locked_wallet_key, clear and reset are called.
Call(t, o, w) ==
    /\ calls < MaxCalls /\ pc[t] = "idle"
    /\ calls' = calls + 1
    /\ op' = [op EXCEPT ![t] = o]
    /\ want' = [want EXCEPT ![t] = w]
    /\ seen' = [seen EXCEPT ![t] = {}]
    /\ disturbed' = disturbed \ {t}
    /\ GoTo(t, IF o = "get" THEN "memory1" ELSE "clear")
    /\ UNCHANGED <<worldVars, store, cache, lock>>

\* The key that is asked for is in memory.
InMemory(t) == want[t] \in cache

\* find_from_memory, three times in get_locked_wallet_key.
FindFromMemory(t) ==
    /\ pc[t] \in {"memory1", "memory2", "memory3"}
    /\ CacheFree
    /\ IF InMemory(t) THEN Return(t, "found")
       ELSE CASE pc[t] = "memory1" -> GoTo(t, "store")
              [] pc[t] = "memory2" -> GoTo(t, "server")
              [] pc[t] = "memory3" -> Return(t, "notfound")
    /\ UNCHANGED <<worldVars, store, cache, lock, op, want, seen, disturbed, calls>>

\* load_wallet_keys_from_store awaits the callback ...
ReadStore(t) ==
    /\ pc[t] = "store"
    /\ IF callbacks
       THEN /\ seen' = [seen EXCEPT ![t] = store]
            /\ GoTo(t, "overwrite")
       ELSE /\ Return(t, "nocallback")
            /\ UNCHANGED seen
    /\ UNCHANGED <<worldVars, store, cache, lock, op, want, disturbed, calls>>

\* ... and only then locks the cache and replaces what is in it.
OverwriteCache(t) ==
    /\ pc[t] = "overwrite"
    /\ CacheFree
    /\ cache' = seen[t]
    /\ disturbed' = disturbed \union (Relying \ {t})
    /\ GoTo(t, "memory2")
    /\ UNCHANGED <<worldVars, store, lock, op, want, seen, calls>>

\* fetch_from_server: get_wallets is answered, or fails.
AskServer(t) ==
    /\ pc[t] = "server"
    /\ \/ /\ seen' = [seen EXCEPT ![t] = server]
          /\ GoTo(t, "merge")
       \/ /\ Return(t, "network")
          /\ UNCHANGED seen
    /\ UNCHANGED <<worldVars, store, cache, lock, op, want, disturbed, calls>>

\* The keys of the cache with those of a server answer over them.
Merged(answer) == cache \union answer

\* save_api_wallet_keys: an empty answer is an error; otherwise the merged
\* keys are put in the cache, which stays locked ...
MergeCache(t) ==
    /\ pc[t] = "merge"
    /\ IF seen[t] = {}
       THEN /\ Return(t, "empty")
            /\ UNCHANGED <<cache, lock, disturbed>>
       ELSE /\ CacheFree
            /\ cache' = Merged(seen[t])
            /\ lock' = t
            /\ disturbed' = disturbed \union
                   {u \in Relying \ {t} : op[u] = "reset"}
            /\ GoTo(t, "save")
    /\ UNCHANGED <<worldVars, store, op, want, seen, calls>>

AfterSave(t) == IF op[t] = "get" THEN "memory3" ELSE "idle"

\* The lock is dropped on return, with an error or without.
Unlocked(t) == NoTask

\* ... until the store has saved the keys of the answer over what it held.
SaveStore(t) ==
    /\ pc[t] = "save"
    /\ lock' = Unlocked(t)
    /\ IF callbacks
       THEN /\ store' = seen[t]
            /\ pc' = [pc EXCEPT ![t] = AfterSave(t)]
            /\ result' = [result EXCEPT ![t] =
                              IF op[t] = "get" THEN result[t] ELSE "done"]
       ELSE /\ Return(t, "nocallback")
            /\ UNCHANGED store
    /\ UNCHANGED <<worldVars, cache, op, want, seen, disturbed, calls>>

\* What clear leaves in the cache.
Cleared == {}

\* clear, which reset calls first.
ClearCache(t) ==
    /\ pc[t] = "clear"
    /\ CacheFree
    /\ cache' = Cleared
    /\ disturbed' = disturbed \union
           {u \in Relying \ {t} : pc[u] = "memory3"}
    /\ IF op[t] = "clear" THEN Return(t, "done") ELSE GoTo(t, "server")
    /\ UNCHANGED <<worldVars, store, lock, op, want, seen, calls>>

----
(* The rest of the world: other clients of the same account, the logout    *)
(* that erases the secure storage, the Dart side setting and clearing the  *)
(* callbacks.                                                              *)

CreateWallet(w) ==
    /\ changes < MaxChanges /\ changes' = changes + 1
    /\ server' = server \union {w}
    /\ UNCHANGED <<store, cache, lock, callbacks, pc, op, want, seen, result,
                   disturbed, calls>>

DeleteWallet(w) ==
    /\ changes < MaxChanges /\ changes' = changes + 1
    /\ server' = server \ {w}
    /\ UNCHANGED <<store, cache, lock, callbacks, pc, op, want, seen, result,
                   disturbed, calls>>

EraseStore ==
    /\ changes < MaxChanges /\ changes' = changes + 1
    /\ store' = {}
    /\ UNCHANGED <<server, cache, lock, callbacks, pc, op, want, seen, result,
                   disturbed, calls>>

SetCallbacks(set) ==
    /\ changes < MaxChanges /\ changes' = changes + 1
    /\ callbacks' = set
    /\ UNCHANGED <<server, store, cache, lock, pc, op, want, seen, result,
                   disturbed, calls>>

World ==
    \/ \E w \in Wallets : CreateWallet(w) \/ DeleteWallet(w)
    \/ EraseStore
    \/ \E set \in BOOLEAN : SetCallbacks(set)

Step(t) ==
    \/ FindFromMemory(t) \/ ReadStore(t) \/ OverwriteCache(t)
    \/ AskServer(t) \/ MergeCache(t) \/ SaveStore(t) \/ ClearCache(t)

Next ==
    \/ \E t \in Tasks, o \in Ops, w \in Wallets : Call(t, o, w)
    \/ \E t \in Tasks : Step(t)
    \/ World

Spec == Init /\ [][Next]_vars

\* A task that can run does, and the lock is granted in turn: the runtime
\* polls every woken task and its mutex queues the waiters.
FairSpec == Spec /\ \A t \in Tasks : SF_vars(Step(t))

----
TypeOK ==
    /\ server \subseteq Wallets
    /\ store \subseteq Wallets /\ cache \subseteq Wallets
    /\ lock \in Tasks \union {NoTask}
    /\ callbacks \in BOOLEAN
    /\ pc \in [Tasks -> Labels] /\ op \in [Tasks -> Ops]
    /\ want \in [Tasks -> Wallets]
    /\ seen \in [Tasks -> SUBSET Wallets]
    /\ result \in [Tasks -> Results]
    /\ disturbed \subseteq Tasks
    /\ calls \in Nat /\ changes \in Nat

\* A task that saves to the store holds the cache, and the cache holds every
\* key it is saving: memory and store cannot be changed in opposite orders.
SaverHoldsCache ==
    \A t \in Tasks : pc[t] = "save" => lock = t /\ seen[t] \subseteq cache

\* A call says WalletKeyNotFound only if the server's answer did not have the
\* wallet, or another task overwrote or cleared the cache after the merge.
NotFoundIsJustified ==
    \A t \in Tasks : result[t] = "notfound" /\ pc[t] = "idle" =>
        want[t] \notin seen[t] \/ t \in disturbed

\* After a reset the cache is exactly what the server answered, unless
\* another task put older keys back in between.
ResetIsFresh ==
    \A t \in Tasks :
        pc[t] = "save" /\ op[t] = "reset" /\ t \notin disturbed => cache = seen[t]

\* Every call returns.
CallsReturn == \A t \in Tasks : pc[t] # "idle" ~> pc[t] = "idle"

\* The provider implements the abstract key service.  A key is known while the
\* server, the store, the memory or a task that has just read one of them
\* holds it: the four copies are read, merged and replaced at different
\* moments, yet none of these steps makes up a key or hands out another one.
KS == INSTANCE KeyService WITH
          known <- server \union store \union cache \union UNION {seen[t] : t \in Tasks},
          busy <- {t \in Tasks : pc[t] # "idle"},
          asked <- want,
          answer <- [t \in Tasks |-> IF result[t] = "found" THEN "key" ELSE "other"]

KeyServiceSpec == KS!Spec

----
\* wallet_keys.rs: get_locked_wallet_key is to "Fetch the locked wallet key
\* from memory, secure store, or server".  While nobody clears or resets the
\* provider, a key the server has just sent must not be reported as missing.
FetchFindsServerKey ==
    (\A t \in Tasks : op[t] = "get") =>
        \A t \in Tasks :
            result[t] = "notfound" /\ pc[t] = "idle" => want[t] \notin seen[t]
====
