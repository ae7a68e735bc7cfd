---- MODULE BitcoinSync ----
(***************************************************************************)
(* The synchronisation of the accounts with the Bitcoin network            *)
(* (bdk.transaction.data.provider.dart): a full scan marks the account in   *)
(* the preferences, and a marked account is only synchronised partially.    *)
(* Any number of calls run at once, beside the clearing of the cache, the   *)
(* logout and the next login of the same user, which erase the marks and    *)
(* the files of bdk.  The mark, the error counter and the timer are kept in *)
(* the preferences, the table of running syncs in the provider, which every *)
(* login makes anew.  What follows a successful sync (the stop gap and the  *)
(* metrics reported to the server) changes nothing of this.                 *)
(***************************************************************************)
EXTENDS Integers, FiniteSets, FiniteSetsExt

CONSTANTS
    Tasks,         \* calls of syncWallet that can run at the same time
    Accounts,
    RandBits,      \* 32: Random.nextInt takes a bound of at most 2^RandBits
    IntBits,       \* 64: the width of an integer
    MaxFaults,     \* bound: loads and requests that fail
    MaxErasures,   \* bound: cleared caches and logouts
    MaxKills       \* bound: the process is killed

ASSUME SyncAssumption ==
    /\ RandBits \in Nat /\ IntBits \in Nat /\ 0 < RandBits /\ RandBits <= IntBits
    /\ {MaxFaults, MaxErasures, MaxKills} \subseteq Nat

VARIABLES
    call,          \* what each task is doing
    isWalletSyncing, lastSynced,   \* of the provider; lastSynced: within reSyncTime
    fullSynced, serverStopgap, errorCount, errorTimer,  \* preferences
    files,         \* how far the file of each account was scanned
    erasure,       \* the step a clearing of the cache or a logout has come to
    overlap,       \* accounts synchronised during an erasure, or one was cut short
    cut,           \* accounts whose scan with the server's stop gap was cut short
    faults, erasures, kills        \* bounded counters

preferences == <<fullSynced, serverStopgap, errorCount, errorTimer>>
provider == <<isWalletSyncing, lastSynced>>
counters == <<faults, erasures, kills>>
vars == <<call, provider, preferences, files, erasure, overlap, cut, counters>>

\* How far a scan goes: nothing, the user's own stop gap, or the larger one
\* the server has for the account.
None == 0
Custom == 1
Server == 2

Reasons == {"plain", "height", "force"}   \* the arguments heightChanged and forceSync
Idle == [at |-> "idle"]

Init ==
    /\ call = [t \in Tasks |-> Idle]
    /\ isWalletSyncing = [a \in Accounts |-> FALSE] /\ lastSynced = [a \in Accounts |-> FALSE]
    /\ fullSynced = [a \in Accounts |-> FALSE] /\ serverStopgap = [a \in Accounts |-> FALSE]
    /\ errorCount \in 0..IntBits   \* loads that failed before the first sync
    /\ errorTimer = FALSE
    /\ files = [a \in Accounts |-> None]
    /\ erasure = "none" /\ overlap = {} /\ cut = {}
    /\ faults = 0 /\ erasures = 0 /\ kills = 0

----
\* pow(2, attempt) in the width of an integer, and whether nextInt takes it.
Power(attempt) == IF attempt >= IntBits THEN 0
                  ELSE IF attempt = IntBits - 1 THEN -(2 ^ attempt) ELSE 2 ^ attempt
BackoffThrows(attempt) == Power(attempt) + 1 \notin 1..2 ^ RandBits

Running == {t \in Tasks : call[t] # Idle}
Busy == {call[t].account : t \in Running}

\* A write to the provider's own tables: a task that has outlived its
\* provider writes to the old ones.
Note(t, table, value) ==
    IF call[t].old THEN table ELSE [table EXCEPT ![call[t].account] = value]

(* Faulty variants, see the definitions named beside them.                 *)
SetLater(a) == Cardinality({t \in Running : call[t].account = a}) < 2     \* MayStart
EndUnlessThrown(t) ==
    /\ call' = [call EXCEPT ![t] = Idle]
    /\ isWalletSyncing' = IF call[t].at = "failed" /\ BackoffThrows(errorCount)
                          THEN isWalletSyncing ELSE Note(t, isWalletSyncing, FALSE)  \* End
BothGaps(a) == IF serverStopgap[a] THEN Custom ELSE Custom + Server        \* StopGap
UserGap(a) == IF a \in Accounts THEN Custom ELSE None                      \* StopGap
MarksKept == fullSynced                                                    \* MarksErased

\* The file a task has opened, and which may since have been deleted.
Open(t) == call[t] # Idle /\ call[t].at # "load"

MayStart(a) == ~isWalletSyncing[a]

\* syncWallet; a call that finds its account syncing changes nothing and is
\* left out.  No await separates the test from the mark.
Call(t, a, why) ==
    /\ call[t] = Idle /\ erasure # "out" /\ MayStart(a)
    /\ call' = [call EXCEPT ![t] = [at |-> "load", account |-> a, why |-> why, scan |-> None,
                                    lost |-> FALSE, old |-> FALSE]]
    /\ isWalletSyncing' = [isWalletSyncing EXCEPT ![a] = TRUE]
    /\ overlap' = IF erasure = "none" THEN overlap ELSE overlap \cup {a}
    /\ UNCHANGED <<lastSynced, preferences, files, erasure, cut, counters>>

GoTo(t, step) == call' = [call EXCEPT ![t].at = step]

\* The finally branch, and the two early returns.
End(t) ==
    /\ call' = [call EXCEPT ![t] = Idle]
    /\ isWalletSyncing' = Note(t, isWalletSyncing, FALSE)

Load(t) ==
    /\ call[t].at = "load" /\ GoTo(t, "check")
    /\ UNCHANGED <<provider, preferences, files, erasure, overlap, cut, counters>>

\* loadWalletWithID answers null (the passphrase is not known) or throws: an
\* error that is not the bridge's is counted, without a timer.
CountUp == Min({errorCount + 1, IntBits})   \* beyond, one count behaves as any other

LoadFails(t) ==
    /\ call[t].at = "load" /\ faults < MaxFaults
    /\ faults' = faults + 1
    /\ errorCount' \in {errorCount, CountUp}
    /\ End(t)
    /\ UNCHANGED <<lastSynced, fullSynced, serverStopgap, errorTimer, files, erasure,
                   overlap, cut, erasures, kills>>

Cancelled(t) ==
    \/ call[t].why # "force" /\ errorTimer
    \/ call[t].why = "plain" /\ lastSynced[call[t].account]

NeedsFull(t) == ~fullSynced[call[t].account] \/ call[t].why = "force"

Cancel(t) ==
    /\ call[t].at = "check" /\ Cancelled(t)
    /\ End(t)
    /\ UNCHANGED <<lastSynced, preferences, files, erasure, overlap, cut, counters>>

\* The arguments of the call are not used any more.
Decide(t, step) == call' = [call EXCEPT ![t].at = step, ![t].why = "plain"]

\* A full scan takes the mark away before it starts.
Check(t) ==
    /\ call[t].at = "check" /\ ~Cancelled(t)
    /\ IF NeedsFull(t)
       THEN Decide(t, "gap") /\ fullSynced' = [fullSynced EXCEPT ![call[t].account] = FALSE]
       ELSE Decide(t, "partial") /\ UNCHANGED fullSynced
    /\ lastSynced' = Note(t, lastSynced, FALSE)
    /\ UNCHANGED <<isWalletSyncing, serverStopgap, errorCount, errorTimer, files, erasure,
                   overlap, cut, counters>>

\* The server's stop gap is for the first full scan, and its use is noted
\* before the scan.
StopGap(a) == IF serverStopgap[a] THEN Custom ELSE Max({Custom, Server})

ChooseGap(t) ==
    /\ call[t].at = "gap"
    /\ call' = [call EXCEPT ![t].at = "full", ![t].scan = StopGap(call[t].account)]
    /\ serverStopgap' = [serverStopgap EXCEPT ![call[t].account] = TRUE]
    /\ UNCHANGED <<provider, fullSynced, errorCount, errorTimer, files, erasure, overlap,
                   cut, counters>>

FullSync(t) ==
    /\ call[t].at = "full" /\ GoTo(t, "partial")
    /\ files' = IF call[t].lost THEN files
                ELSE [files EXCEPT ![call[t].account] = Max({@, call[t].scan})]
    /\ UNCHANGED <<provider, preferences, erasure, overlap, cut, counters>>

PartialSync(t) ==
    /\ call[t].at = "partial"
    /\ GoTo(t, IF call[t].scan = None THEN "done" ELSE "mark")
    /\ UNCHANGED <<provider, preferences, files, erasure, overlap, cut, counters>>

Mark(t) ==
    /\ call[t].at = "mark" /\ GoTo(t, "done")
    /\ fullSynced' = [fullSynced EXCEPT ![call[t].account] = TRUE]
    /\ UNCHANGED <<provider, serverStopgap, errorCount, errorTimer, files, erasure, overlap,
                   cut, counters>>

Done(t) ==
    /\ call[t].at = "done"
    /\ lastSynced' = Note(t, lastSynced, TRUE)
    /\ errorCount' = 0 /\ errorTimer' = FALSE
    /\ End(t)
    /\ UNCHANGED <<fullSynced, serverStopgap, files, erasure, overlap, cut, counters>>

Scanning(t) == call[t] # Idle /\ call[t].at = "full" /\ call[t].scan = Server

\* An error of the bridge has a handler of its own; any other is only counted.
SyncFails(t) ==
    /\ call[t].at \in {"full", "partial"} /\ faults < MaxFaults
    /\ faults' = faults + 1
    /\ \/ GoTo(t, "failed") /\ UNCHANGED <<isWalletSyncing, errorCount>>
       \/ End(t) /\ errorCount' = CountUp
    /\ cut' = IF Scanning(t) THEN cut \cup {call[t].account} ELSE cut
    /\ UNCHANGED <<lastSynced, fullSynced, serverStopgap, errorTimer, files, erasure, overlap,
                   erasures, kills>>

\* updateErrorCount: the back-off of the old count may throw, out of the
\* handler, past the timer.
CountError(t) ==
    /\ call[t].at = "failed"
    /\ errorCount' = CountUp
    /\ errorTimer' = (errorTimer \/ ~BackoffThrows(errorCount))
    /\ End(t)
    /\ UNCHANGED <<lastSynced, fullSynced, serverStopgap, files, erasure, overlap, cut, counters>>

----
\* Clearing the cache takes the files, then the marks of the accounts with
\* their stop gaps; a logout the preferences, then the files.

NothingSyncing == [a \in Accounts |-> FALSE]

\* anyFullSyncedDone also finds the key of a stop gap.
HasCache == \E a \in Accounts : fullSynced[a] \/ serverStopgap[a]

StartClearing ==
    /\ erasure = "none" /\ erasures < MaxErasures /\ HasCache
    /\ erasures' = erasures + 1
    /\ isWalletSyncing' = NothingSyncing /\ lastSynced' = NothingSyncing
    /\ erasure' = "files" /\ overlap' = overlap \cup Busy
    /\ UNCHANGED <<call, preferences, files, cut, faults, kills>>

\* Where an open file cannot be deleted it is kept, without an error;
\* elsewhere who has it open goes on writing to a file that is gone.
EraseFiles ==
    /\ erasure \in {"files", "logout_files"}
    /\ \E kept \in SUBSET {call[t].account : t \in {u \in Tasks : Open(u)}} :
          /\ files' = [a \in Accounts |-> IF a \in kept THEN files[a] ELSE None]
          /\ call' = [t \in Tasks |-> IF Open(t) /\ call[t].account \notin kept
                                      THEN [call[t] EXCEPT !.lost = TRUE] ELSE call[t]]
    /\ erasure' = IF erasure = "files" THEN "marks" ELSE "out"
    /\ overlap' = overlap \cup Busy
    /\ UNCHANGED <<provider, preferences, cut, counters>>

MarksErased == [a \in Accounts |-> FALSE]

EraseMarks ==
    /\ erasure = "marks" /\ erasure' = "gaps"
    /\ fullSynced' = MarksErased
    /\ overlap' = overlap \cup Busy
    /\ UNCHANGED <<call, provider, serverStopgap, errorCount, errorTimer, files, cut, counters>>

EraseGaps ==
    /\ erasure = "gaps" /\ erasure' = "none"
    /\ serverStopgap' = MarksErased
    /\ errorCount' = 0 /\ errorTimer' = FALSE
    /\ overlap' = overlap \cup Busy /\ cut' = {}
    /\ UNCHANGED <<call, provider, fullSynced, files, counters>>

StartLogout ==
    /\ erasure = "none" /\ erasures < MaxErasures
    /\ erasures' = erasures + 1
    /\ fullSynced' = MarksErased /\ serverStopgap' = MarksErased
    /\ errorCount' = 0 /\ errorTimer' = FALSE
    /\ erasure' = "logout_files" /\ overlap' = overlap \cup Busy /\ cut' = {}
    /\ UNCHANGED <<call, provider, files, faults, kills>>

\* The next login of the user, with a provider of its own.
Login ==
    /\ erasure = "out" /\ erasure' = "none"
    /\ isWalletSyncing' = NothingSyncing /\ lastSynced' = NothingSyncing
    /\ call' = [t \in Tasks |-> IF call[t] = Idle THEN Idle ELSE [call[t] EXCEPT !.old = TRUE]]
    /\ overlap' = overlap \cup Busy
    /\ UNCHANGED <<preferences, files, cut, counters>>

\* The process is killed and started again.
Restart ==
    /\ kills < MaxKills /\ kills' = kills + 1
    /\ call' = [t \in Tasks |-> Idle]
    /\ isWalletSyncing' = NothingSyncing /\ lastSynced' = NothingSyncing
    /\ erasure' = IF erasure = "out" THEN "out" ELSE "none"
    /\ overlap' = IF erasure = "marks" THEN Accounts ELSE overlap
    /\ cut' = cut \cup {call[t].account : t \in {u \in Tasks : Scanning(u)}}
                  \cup (IF erasure = "gaps" THEN Accounts ELSE {})
    /\ UNCHANGED <<preferences, files, faults, erasures>>

\* Time passes: the error timer, and the interval of lastSyncedTime.
TimePasses ==
    /\ errorTimer' = FALSE /\ lastSynced' = [a \in Accounts |-> FALSE]
    /\ errorTimer \/ \E a \in Accounts : lastSynced[a]
    /\ UNCHANGED <<call, isWalletSyncing, fullSynced, serverStopgap, errorCount, files, erasure,
                   overlap, cut, counters>>

Step(t) ==
    /\ t \in Running
    /\ \/ Load(t) \/ Cancel(t) \/ Check(t) \/ ChooseGap(t) \/ FullSync(t) \/ PartialSync(t)
       \/ Mark(t) \/ Done(t) \/ CountError(t)

Fault(t) == t \in Running /\ (LoadFails(t) \/ SyncFails(t))

Erase == EraseFiles \/ EraseMarks \/ EraseGaps

Next ==
    \/ \E t \in Tasks, a \in Accounts, why \in Reasons : Call(t, a, why)
    \/ \E t \in Tasks : Step(t) \/ Fault(t)
    \/ StartClearing \/ StartLogout \/ Erase \/ Login \/ Restart \/ TimePasses

Spec == Init /\ [][Next]_vars

\* Requests are answered or fail, an erasure goes on, time passes, and each
\* new block has the accounts of the wallet on the screen synchronised again.
FairSpec ==
    /\ Spec
    /\ \A t \in Tasks : WF_vars(Step(t))
    /\ WF_vars(Erase) /\ WF_vars(TimePasses)
    /\ \A a \in Accounts : WF_vars(\E t \in Tasks : Call(t, a, "height"))

----
Depths == {None, Custom, Server}
Steps == {"load", "check", "gap", "full", "partial", "mark", "done", "failed"}
Calls == [at : Steps, account : Accounts, why : Reasons, scan : Depths, lost : BOOLEAN,
          old : BOOLEAN]

\* The type of the state of syncWallet, the preferences and the erasures.
TypeOK ==
    /\ call \in [Tasks -> Calls \cup {Idle}]
    /\ {isWalletSyncing, lastSynced, fullSynced, serverStopgap} \subseteq [Accounts -> BOOLEAN]
    /\ errorCount \in 0..IntBits /\ errorTimer \in BOOLEAN
    /\ files \in [Accounts -> Depths]
    /\ erasure \in {"none", "files", "marks", "gaps", "logout_files", "out"}
    /\ overlap \subseteq Accounts /\ cut \subseteq Accounts
    /\ faults \in 0..MaxFaults /\ erasures \in 0..MaxErasures /\ kills \in 0..MaxKills

\* syncWallet trusts the mark of a full scan and then looks for nothing new:
\* an account that is marked has been scanned into the file it has now, unless
\* it was synchronised while the cache was erased, or the erasure was cut short.
MarkMeansScanned ==
    erasure # "marks" =>
        \A a \in Accounts \ overlap : fullSynced[a] => files[a] # None

\* isWalletSyncing keeps two syncs from writing to one account's file at a
\* time; only an erasure or a login, which clears it under a running sync, lets
\* a second one in.
OneSyncPerAccount ==
    \A t, u \in Running :
        t # u /\ call[t].account = call[u].account => call[t].account \in overlap

\* The server's stop gap is used for the first full scan so that transactions
\* at far indexes are found: a marked account has been scanned that far,
\* unless the one scan that used it failed or was killed, since nothing
\* repeats it.
FarIndexesFound ==
    erasure # "marks" =>
        \A a \in Accounts \ (overlap \cup cut) : fullSynced[a] => files[a] = Server

\* Whatever fails, also the computation of the back-off inside the error
\* handler, an account that a logged-in user looks at is marked as scanned again
\* and again.
CatchesUp == \A a \in Accounts : []<>(fullSynced[a] \/ erasure = "out")
====
