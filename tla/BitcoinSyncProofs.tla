---- MODULE BitcoinSyncProofs ----
(***************************************************************************)
(* What the run of BitcoinSync checks for two calls and one account, proved *)
(* for any number of calls, accounts, errors, erasures and kills.           *)
(***************************************************************************)
EXTENDS BitcoinSync, TLAPS

\* The two bounds the module takes from its library.
LEMMA MaxOfTwo ==
    ASSUME NEW a \in Int, NEW b \in Int
    PROVE  Max({a, b}) = IF a >= b THEN a ELSE b
<1>1. \A x \in {a, b} : (IF a >= b THEN a ELSE b) >= x
  OBVIOUS
<1>2. \A m \in {a, b} : (\A x \in {a, b} : m >= x) => m = IF a >= b THEN a ELSE b
  OBVIOUS
<1> QED
  BY <1>1, <1>2 DEF Max

\* The same for the smaller of two.
LEMMA MinOfTwo ==
    ASSUME NEW a \in Int, NEW b \in Int
    PROVE  Min({a, b}) = IF a <= b THEN a ELSE b
<1>1. \A x \in {a, b} : (IF a <= b THEN a ELSE b) <= x
  OBVIOUS
<1>2. \A m \in {a, b} : (\A x \in {a, b} : m <= x) => m = IF a <= b THEN a ELSE b
  OBVIOUS
<1> QED
  BY <1>1, <1>2 DEF Min

\* The counter of errors stays within the width of an integer.
LEMMA CountStays ==
    ASSUME errorCount \in 0..IntBits
    PROVE  CountUp \in 0..IntBits
  BY SyncAssumption, MinOfTwo DEF CountUp

\* A full scan looks at least as far as the user asked for.
LEMMA GapFacts ==
    ASSUME NEW a \in Accounts
    PROVE  /\ StopGap(a) \in {Custom, Server}
           /\ ~serverStopgap[a] => StopGap(a) = Server
  BY MaxOfTwo DEF StopGap, Custom, Server

\* A scan never shortens what the file has reached.
LEMMA ScanFacts ==
    ASSUME NEW d \in Depths, NEW s \in Depths
    PROVE  /\ Max({d, s}) \in Depths
           /\ s # None => Max({d, s}) # None
           /\ s = Server \/ d = Server => Max({d, s}) = Server
  BY MaxOfTwo DEF Depths, None, Custom, Server

\* A call that is running is a record of a call, not the idle one.
LEMMA RunningCall ==
    ASSUME TypeOK, NEW t \in Running
    PROVE  t \in Tasks /\ call[t] \in Calls /\ call[t].account \in Accounts
  BY DEF TypeOK, Running, Calls, Idle

\* Writes to the provider's tables keep them tables.
LEMMA NoteTyped ==
    ASSUME TypeOK, NEW t \in Running, NEW table \in [Accounts -> BOOLEAN], NEW v \in BOOLEAN
    PROVE  Note(t, table, v) \in [Accounts -> BOOLEAN]
  BY RunningCall DEF Note

\* A step of a call, or its failure, keeps the types.
LEMMA StepTyped ==
    ASSUME TypeOK, NEW t \in Tasks, t \in Running, Step(t) \/ Fault(t)
    PROVE  TypeOK'
<1> DEFINE c == call[t]
<1>1. c \in Calls /\ c.account \in Accounts /\ Idle \notin Calls
  BY RunningCall DEF Calls, Idle
<1>2. /\ Note(t, isWalletSyncing, FALSE) \in [Accounts -> BOOLEAN]
      /\ Note(t, lastSynced, FALSE) \in [Accounts -> BOOLEAN]
      /\ Note(t, lastSynced, TRUE) \in [Accounts -> BOOLEAN]
  BY NoteTyped DEF TypeOK
<1>3. CountUp \in 0..IntBits
  BY CountStays DEF TypeOK
<1>4. StopGap(c.account) \in Depths /\ Max({files[c.account], c.scan}) \in Depths
  BY <1>1, GapFacts, ScanFacts DEF TypeOK, Calls, Depths
<1>5. call' \in [Tasks -> Calls \cup {Idle}]
  <2>1. CASE Load(t)
    BY <1>1, <1>4, <2>1 DEF TypeOK, Load, GoTo, Calls, Steps, Reasons, Depths, None
  <2>2. CASE Cancel(t)
    BY <1>1, <1>4, <2>2 DEF TypeOK, Cancel, End, Calls, Steps, Reasons, Depths, None
  <2>3. CASE Check(t)
    BY <1>1, <1>4, <2>3 DEF TypeOK, Check, Decide, NeedsFull, Calls, Steps, Reasons, Depths, None
  <2>4. CASE ChooseGap(t)
    BY <1>1, <1>4, <2>4 DEF TypeOK, ChooseGap, Calls, Steps, Reasons, Depths, None
  <2>5. CASE FullSync(t)
    BY <1>1, <1>4, <2>5 DEF TypeOK, FullSync, GoTo, Calls, Steps, Reasons, Depths, None
  <2>6. CASE PartialSync(t)
    BY <1>1, <1>4, <2>6 DEF TypeOK, PartialSync, GoTo, Calls, Steps, Reasons, Depths, None
  <2>7. CASE Mark(t)
    BY <1>1, <1>4, <2>7 DEF TypeOK, Mark, GoTo, Calls, Steps, Reasons, Depths, None
  <2>8. CASE Done(t)
    BY <1>1, <1>4, <2>8 DEF TypeOK, Done, End, Calls, Steps, Reasons, Depths, None
  <2>9. CASE CountError(t)
    BY <1>1, <1>4, <2>9 DEF TypeOK, CountError, End, Calls, Steps, Reasons, Depths, None
  <2>10. CASE LoadFails(t)
    BY <1>1, <1>4, <2>10 DEF TypeOK, LoadFails, End, Calls, Steps, Reasons, Depths, None
  <2>11. CASE SyncFails(t)
    <3>1. CASE GoTo(t, "failed")
      BY <1>1, <3>1 DEF TypeOK, GoTo, Calls, Steps
    <3>2. CASE End(t)
      BY <3>2 DEF TypeOK, End
    <3> QED
      BY <2>11, <3>1, <3>2 DEF SyncFails
  <2> QED
    BY <2>1, <2>2, <2>3, <2>4, <2>5, <2>6, <2>7, <2>8, <2>9, <2>10, <2>11 DEF Step, Fault
<1>6. /\ isWalletSyncing' \in [Accounts -> BOOLEAN] /\ lastSynced' \in [Accounts -> BOOLEAN]
      /\ fullSynced' \in [Accounts -> BOOLEAN] /\ serverStopgap' \in [Accounts -> BOOLEAN]
      /\ errorCount' \in 0..IntBits /\ errorTimer' \in BOOLEAN
      /\ files' \in [Accounts -> Depths]
  <2>1. CASE Load(t)
    BY <1>1, <1>2, <1>3, <1>4, <2>1, SyncAssumption DEF TypeOK, Load, provider, preferences
  <2>2. CASE Cancel(t)
    BY <1>1, <1>2, <1>3, <1>4, <2>2, SyncAssumption DEF TypeOK, Cancel, End, provider, preferences
  <2>3. CASE Check(t)
    <3>1. fullSynced' \in [Accounts -> BOOLEAN]
      BY <1>1, <2>3 DEF TypeOK, Check
    <3>2. lastSynced' \in [Accounts -> BOOLEAN]
      BY <1>2, <2>3 DEF Check
    <3> QED
      BY <2>3, <3>1, <3>2 DEF TypeOK, Check
  <2>4. CASE ChooseGap(t)
    BY <1>1, <1>2, <1>3, <1>4, <2>4, SyncAssumption DEF TypeOK, ChooseGap, provider, preferences
  <2>5. CASE FullSync(t)
    <3>1. files' \in [Accounts -> Depths]
      BY <1>1, <1>4, <2>5 DEF TypeOK, FullSync
    <3> QED
      BY <2>5, <3>1 DEF TypeOK, FullSync, provider, preferences
  <2>6. CASE PartialSync(t)
    BY <1>1, <1>2, <1>3, <1>4, <2>6, SyncAssumption DEF TypeOK, PartialSync, provider, preferences
  <2>7. CASE Mark(t)
    <3>1. fullSynced' \in [Accounts -> BOOLEAN]
      BY <1>1, <2>7 DEF TypeOK, Mark
    <3> QED
      BY <2>7, <3>1 DEF TypeOK, Mark, provider
  <2>8. CASE Done(t)
    <3>1. isWalletSyncing' \in [Accounts -> BOOLEAN] /\ lastSynced' \in [Accounts -> BOOLEAN]
      BY <1>2, <2>8 DEF Done, End
    <3>2. errorCount' = 0 /\ 0 \in 0..IntBits
      BY <2>8, SyncAssumption DEF Done
    <3>3. errorTimer' \in BOOLEAN
      BY <2>8 DEF Done
    <3>4. UNCHANGED <<fullSynced, serverStopgap, files>>
      BY <2>8 DEF Done
    <3> QED
      BY <3>1, <3>2, <3>3, <3>4 DEF TypeOK
  <2>9. CASE CountError(t)
    BY <1>1, <1>2, <1>3, <1>4, <2>9, SyncAssumption DEF TypeOK, CountError, End, provider, preferences
  <2>10. CASE LoadFails(t)
    BY <1>1, <1>2, <1>3, <1>4, <2>10, SyncAssumption DEF TypeOK, LoadFails, End, provider, preferences
  <2>11. CASE SyncFails(t)
    <3>1. isWalletSyncing' \in [Accounts -> BOOLEAN] /\ errorCount' \in 0..IntBits
      BY <1>2, <1>3, <2>11 DEF TypeOK, SyncFails, End
    <3> QED
      BY <2>11, <3>1 DEF TypeOK, SyncFails
  <2> QED
    BY <2>1, <2>2, <2>3, <2>4, <2>5, <2>6, <2>7, <2>8, <2>9, <2>10, <2>11 DEF Step, Fault
<1>7. /\ erasure' \in {"none", "files", "marks", "gaps", "logout_files", "out"}
      /\ overlap' \subseteq Accounts /\ cut' \subseteq Accounts
      /\ faults' \in 0..MaxFaults /\ erasures' \in 0..MaxErasures /\ kills' \in 0..MaxKills
  <2>1. CASE Load(t)
    BY <1>1, <2>1, SyncAssumption DEF TypeOK, Load, counters
  <2>2. CASE Cancel(t)
    BY <1>1, <2>2, SyncAssumption DEF TypeOK, Cancel, counters
  <2>3. CASE Check(t)
    BY <1>1, <2>3, SyncAssumption DEF TypeOK, Check, counters
  <2>4. CASE ChooseGap(t)
    BY <1>1, <2>4, SyncAssumption DEF TypeOK, ChooseGap, counters
  <2>5. CASE FullSync(t)
    BY <1>1, <2>5, SyncAssumption DEF TypeOK, FullSync, counters
  <2>6. CASE PartialSync(t)
    BY <1>1, <2>6, SyncAssumption DEF TypeOK, PartialSync, counters
  <2>7. CASE Mark(t)
    BY <1>1, <2>7, SyncAssumption DEF TypeOK, Mark, counters
  <2>8. CASE Done(t)
    BY <1>1, <2>8, SyncAssumption DEF TypeOK, Done, counters
  <2>9. CASE CountError(t)
    BY <1>1, <2>9, SyncAssumption DEF TypeOK, CountError, counters
  <2>10. CASE LoadFails(t)
    BY <1>1, <2>10, SyncAssumption DEF TypeOK, LoadFails, counters
  <2>11. CASE SyncFails(t)
    BY <1>1, <2>11, SyncAssumption DEF TypeOK, SyncFails, counters
  <2> QED
    BY <2>1, <2>2, <2>3, <2>4, <2>5, <2>6, <2>7, <2>8, <2>9, <2>10, <2>11 DEF Step, Fault
<1> QED
  BY <1>5, <1>6, <1>7 DEF TypeOK

\* The actions of the outside: the call, the erasures, the login, the end of
\* the process and the passing of time.
Outside ==
    \/ \E t \in Tasks, a \in Accounts, why \in Reasons : Call(t, a, why)
    \/ StartClearing \/ StartLogout \/ Erase \/ Login \/ Restart \/ TimePasses

\* Only accounts are being synchronised.
LEMMA BusyAccounts == ASSUME TypeOK PROVE Busy \subseteq Accounts
  BY RunningCall DEF Busy

\* Every action of the outside keeps the types.
LEMMA OutsideTyped ==
    ASSUME TypeOK, Outside
    PROVE  TypeOK'
<1>1. ASSUME NEW t \in Tasks, NEW a \in Accounts, NEW why \in Reasons, Call(t, a, why)
      PROVE  TypeOK'
  <2>1. call' \in [Tasks -> Calls \cup {Idle}]
    <3>1. [at |-> "load", account |-> a, why |-> why, scan |-> None, lost |-> FALSE,
           old |-> FALSE] \in Calls
      BY DEF Calls, Steps, Depths
    <3> QED
      BY <1>1, <3>1 DEF Call, TypeOK
  <2>2. isWalletSyncing' \in [Accounts -> BOOLEAN]
    BY <1>1 DEF Call, TypeOK
  <2>3. overlap' \subseteq Accounts
    BY <1>1 DEF Call, TypeOK
  <2> QED
    BY <1>1, <2>1, <2>2, <2>3 DEF Call, TypeOK, preferences, counters
<1>2. CASE StartClearing
  <2>1. isWalletSyncing' \in [Accounts -> BOOLEAN] /\ lastSynced' \in [Accounts -> BOOLEAN]
    BY <1>2 DEF StartClearing, NothingSyncing
  <2>2. overlap' \subseteq Accounts /\ erasures' \in 0..MaxErasures
    BY <1>2, BusyAccounts, SyncAssumption DEF StartClearing, TypeOK
  <2> QED
    BY <1>2, <2>1, <2>2 DEF StartClearing, TypeOK, preferences
<1>3. CASE StartLogout
  <2>1. fullSynced' \in [Accounts -> BOOLEAN] /\ serverStopgap' \in [Accounts -> BOOLEAN]
    BY <1>3 DEF StartLogout, MarksErased
  <2>2. errorCount' = 0 /\ 0 \in 0..IntBits
    BY <1>3, SyncAssumption DEF StartLogout
  <2>3. overlap' \subseteq Accounts /\ erasures' \in 0..MaxErasures
    BY <1>3, BusyAccounts, SyncAssumption DEF StartLogout, TypeOK
  <2>4. errorTimer' \in BOOLEAN /\ cut' \subseteq Accounts
    BY <1>3 DEF StartLogout
  <2> QED
    BY <1>3, <2>1, <2>2, <2>3, <2>4 DEF StartLogout, TypeOK, provider
<1>4. CASE EraseFiles
  <2>1. PICK kept : /\ files' = [a \in Accounts |-> IF a \in kept THEN files[a] ELSE None]
                    /\ call' = [t \in Tasks |-> IF Open(t) /\ call[t].account \notin kept
                                                THEN [call[t] EXCEPT !.lost = TRUE] ELSE call[t]]
    BY <1>4 DEF EraseFiles
  <2>2. files' \in [Accounts -> Depths]
    BY <2>1 DEF TypeOK, Depths
  <2>3. call' \in [Tasks -> Calls \cup {Idle}]
    <3>1. \A t \in Tasks : Open(t) => [call[t] EXCEPT !.lost = TRUE] \in Calls
      BY DEF TypeOK, Open, Calls
    <3> QED
      BY <2>1, <3>1 DEF TypeOK
  <2>4. overlap' \subseteq Accounts
    BY <1>4, BusyAccounts DEF EraseFiles, TypeOK
  <2>5. erasure' \in {"marks", "out"}
    BY <1>4 DEF EraseFiles
  <2> QED
    BY <1>4, <2>2, <2>3, <2>4, <2>5 DEF EraseFiles, TypeOK, provider, preferences, counters
<1>5. CASE EraseMarks
  <2>1. fullSynced' \in [Accounts -> BOOLEAN]
    BY <1>5 DEF EraseMarks, MarksErased
  <2>2. overlap' \subseteq Accounts
    BY <1>5, BusyAccounts DEF EraseMarks, TypeOK
  <2> QED
    BY <1>5, <2>1, <2>2 DEF EraseMarks, TypeOK, provider, counters
<1>6. CASE EraseGaps
  <2>1. serverStopgap' \in [Accounts -> BOOLEAN]
    BY <1>6 DEF EraseGaps, MarksErased
  <2>2. errorCount' = 0 /\ 0 \in 0..IntBits
    BY <1>6, SyncAssumption DEF EraseGaps
  <2>3. errorTimer' \in BOOLEAN /\ cut' \subseteq Accounts
    BY <1>6 DEF EraseGaps
  <2>4. overlap' \subseteq Accounts
    BY <1>6, BusyAccounts DEF EraseGaps, TypeOK
  <2> QED
    BY <1>6, <2>1, <2>2, <2>3, <2>4 DEF EraseGaps, TypeOK, provider, counters
<1>7. CASE Login
  <2>1. isWalletSyncing' \in [Accounts -> BOOLEAN] /\ lastSynced' \in [Accounts -> BOOLEAN]
    BY <1>7 DEF Login, NothingSyncing
  <2>2. call' \in [Tasks -> Calls \cup {Idle}]
    <3>1. \A t \in Tasks : call[t] # Idle => [call[t] EXCEPT !.old = TRUE] \in Calls
      BY DEF TypeOK, Calls
    <3> QED
      BY <1>7, <3>1 DEF Login, TypeOK
  <2>3. overlap' \subseteq Accounts
    BY <1>7, BusyAccounts DEF Login, TypeOK
  <2> QED
    BY <1>7, <2>1, <2>2, <2>3 DEF Login, TypeOK, preferences, counters
<1>8. CASE Restart
  <2>1. isWalletSyncing' \in [Accounts -> BOOLEAN] /\ lastSynced' \in [Accounts -> BOOLEAN]
    BY <1>8 DEF Restart, NothingSyncing
  <2>2. call' \in [Tasks -> Calls \cup {Idle}]
    BY <1>8 DEF Restart
  <2>3. overlap' \subseteq Accounts /\ cut' \subseteq Accounts
    <3>1. {call[t].account : t \in {u \in Tasks : Scanning(u)}} \subseteq Accounts
      BY RunningCall DEF Scanning, Running
    <3> QED
      BY <1>8, <3>1 DEF Restart, TypeOK
  <2>4. kills' \in 0..MaxKills
    BY <1>8, SyncAssumption DEF Restart, TypeOK
  <2>5. erasure' \in {"none", "out"}
    BY <1>8 DEF Restart
  <2> QED
    BY <1>8, <2>1, <2>2, <2>3, <2>4, <2>5 DEF Restart, TypeOK, preferences
<1>9. CASE TimePasses
  <2>1. lastSynced' \in [Accounts -> BOOLEAN] /\ errorTimer' \in BOOLEAN
    BY <1>9 DEF TimePasses
  <2> QED
    BY <1>9, <2>1 DEF TimePasses, TypeOK, counters
<1> QED
  BY <1>1, <1>2, <1>3, <1>4, <1>5, <1>6, <1>7, <1>8, <1>9 DEF Outside, Erase

\* A step is a call's own, one of the outside, or none.
LEMMA NextSplits ==
    ASSUME [Next]_vars
    PROVE  \/ \E t \in Running : t \in Tasks /\ (Step(t) \/ Fault(t))
           \/ Outside
           \/ UNCHANGED vars
  BY DEF Next, Outside, Step, Fault

\* The types hold at the start.
LEMMA InitTyped == Init => TypeOK
<1> SUFFICES ASSUME Init PROVE TypeOK
  OBVIOUS
<1>1. call \in [Tasks -> Calls \cup {Idle}]
  BY DEF Init
<1>2. /\ isWalletSyncing \in [Accounts -> BOOLEAN] /\ lastSynced \in [Accounts -> BOOLEAN]
      /\ fullSynced \in [Accounts -> BOOLEAN] /\ serverStopgap \in [Accounts -> BOOLEAN]
  BY DEF Init
<1>3. files \in [Accounts -> Depths] /\ errorTimer \in BOOLEAN
  BY DEF Init, Depths
<1>4. faults \in 0..MaxFaults /\ erasures \in 0..MaxErasures /\ kills \in 0..MaxKills
  BY SyncAssumption DEF Init
<1>5. /\ errorCount \in 0..IntBits /\ erasure = "none"
      /\ overlap \subseteq Accounts /\ cut \subseteq Accounts
  BY DEF Init
<1> QED
  BY <1>1, <1>2, <1>3, <1>4, <1>5 DEF TypeOK

\* Every variable stays within its type, for any number of calls, accounts and
\* errors: the width of an integer bounds the error counter.
THEOREM TypeCorrect == Spec => []TypeOK
<1>1. Init => TypeOK
  BY InitTyped
<1>2. TypeOK /\ [Next]_vars => TypeOK'
  <2> SUFFICES ASSUME TypeOK, [Next]_vars PROVE TypeOK'
    OBVIOUS
  <2>1. CASE UNCHANGED vars
    BY <2>1 DEF vars, provider, preferences, counters, TypeOK
  <2> QED
    BY <2>1, NextSplits, StepTyped, OutsideTyped
<1> QED
  BY <1>1, <1>2, PTL DEF Spec

----
\* What the three properties rest on.  Once an erasure is under way, every
\* account that is being synchronised is in overlap ...
ErasureNoticed == erasure # "none" => Busy \subseteq overlap

\* ... and any other that is synchronised has its own entry, file and provider.
OwnersMarked ==
    \A t \in Running :
        \/ call[t].account \in overlap
        \/ isWalletSyncing[call[t].account] /\ ~call[t].lost /\ ~call[t].old

\* What an erasure has taken does not come back before it is over.
ErasedStays ==
    \A a \in Accounts \ overlap :
        /\ erasure \in {"gaps", "logout_files"} => ~fullSynced[a]
        /\ erasure = "logout_files" => ~serverStopgap[a]

\* A call that has made a full scan, and is about to mark it.
Scanned(t) == call[t].at = "mark" \/ (call[t].at = "partial" /\ call[t].scan # None)

\* A full scan has a depth, and leaves a file that is scanned.
ScansReach ==
    \A t \in Running :
        /\ call[t].at = "full" => call[t].scan \in {Custom, Server}
        /\ call[t].account \notin overlap /\ Scanned(t) => files[call[t].account] # None

\* The server's stop gap is noted when its scan starts: until that is cut short
\* it is under way or has reached the far indexes.
GapUsed ==
    erasure \notin {"marks", "gaps"} =>
        \A a \in Accounts \ (overlap \cup cut) :
            serverStopgap[a] => \/ files[a] = Server
                                \/ \E t \in Running : call[t].account = a /\ Scanning(t)

\* So a scan that does without it works on a file that needs no more.
FarScans ==
    \A t \in Running :
        \/ call[t].account \in overlap \cup cut
        \/ files[call[t].account] = Server
        \/ ~Scanned(t) /\ ~(call[t].at = "full" /\ call[t].scan = Custom)

SyncInv ==
    /\ TypeOK /\ ErasureNoticed /\ OwnersMarked /\ OneSyncPerAccount
    /\ MarkMeansScanned /\ ErasedStays /\ ScansReach
    /\ FarIndexesFound /\ GapUsed /\ FarScans

\* What a call keeps true of its account a, were it the only one.
Tidy(t, a) ==
    /\ call[t].at = "full" => call[t].scan \in {Custom, Server}
    /\ a \notin overlap => (fullSynced[a] \/ Scanned(t) => files[a] # None)
    /\ a \notin overlap \cup cut =>
         /\ fullSynced[a] \/ Scanned(t) \/ (call[t].at = "full" /\ call[t].scan = Custom)
              => files[a] = Server
         /\ serverStopgap[a] => files[a] = Server \/ Scanning(t)

\* A call of an account no erasure has met is alone on it, and keeps it tidy.
LEMMA CallIsTidy ==
    ASSUME SyncInv, NEW t \in Running, NEW a, a = call[t].account, a \notin overlap
    PROVE  /\ a \in Accounts /\ erasure = "none" /\ ~call[t].lost /\ ~call[t].old
           /\ \A u \in Running : call[u].account = a => u = t
           /\ Tidy(t, a)
<1>1. a \in Accounts
  BY RunningCall DEF SyncInv
<1>2. erasure = "none"
  BY DEF SyncInv, ErasureNoticed, Busy
<1>3. ~call[t].lost /\ ~call[t].old
  BY DEF SyncInv, OwnersMarked
<1>4. \A u \in Running : call[u].account = a => u = t
  BY DEF SyncInv, OneSyncPerAccount
<1>5. call[t].at = "full" => call[t].scan \in {Custom, Server}
  BY DEF SyncInv, ScansReach
<1>6. fullSynced[a] \/ Scanned(t) => files[a] # None
  BY <1>1, <1>2 DEF SyncInv, ScansReach, MarkMeansScanned
<1>7. ASSUME a \notin cut
      PROVE  /\ fullSynced[a] \/ Scanned(t) \/ (call[t].at = "full" /\ call[t].scan = Custom)
                  => files[a] = Server
             /\ serverStopgap[a] => files[a] = Server \/ Scanning(t)
  <2>1. fullSynced[a] => files[a] = Server
    BY <1>1, <1>2, <1>7 DEF SyncInv, FarIndexesFound
  <2>2. Scanned(t) \/ (call[t].at = "full" /\ call[t].scan = Custom) => files[a] = Server
    BY <1>7 DEF SyncInv, FarScans
  <2>3. serverStopgap[a] => files[a] = Server \/ Scanning(t)
    BY <1>1, <1>2, <1>4, <1>7 DEF SyncInv, GapUsed
  <2> QED
    BY <2>1, <2>2, <2>3
<1> QED
  BY <1>1, <1>2, <1>3, <1>4, <1>5, <1>6, <1>7 DEF Tidy

\* A step of a call touches its own account only.
LEMMA StepFrame ==
    ASSUME TypeOK, NEW t \in Running, Step(t) \/ Fault(t), NEW a, a = call[t].account
    PROVE  /\ erasure' = erasure /\ overlap' = overlap /\ cut \subseteq cut'
           /\ \A u \in Tasks : u # t => call'[u] = call[u]
           /\ \A b \in Accounts : b # a =>
                /\ isWalletSyncing'[b] = isWalletSyncing[b] /\ fullSynced'[b] = fullSynced[b]
                /\ serverStopgap'[b] = serverStopgap[b] /\ files'[b] = files[b]
           /\ \/ call'[t] = Idle
              \/ /\ call'[t] # Idle /\ call'[t].account = a
                 /\ call'[t].lost = call[t].lost /\ call'[t].old = call[t].old
                 /\ isWalletSyncing' = isWalletSyncing
<1>1. t \in Tasks /\ call[t] \in Calls /\ a \in Accounts
  BY RunningCall
<1>2. TypeOK'
  BY <1>1, StepTyped
<1>3. CASE Load(t)
  BY <1>1, <1>3 DEF TypeOK, Load, GoTo, Calls, Idle, provider, preferences
<1>4. CASE Cancel(t)
  BY <1>1, <1>4 DEF TypeOK, Cancel, End, Note, Calls, Idle, provider, preferences
<1>5. CASE Check(t)
  BY <1>1, <1>5 DEF TypeOK, Check, Decide, Calls, Idle, provider, preferences
<1>6. CASE ChooseGap(t)
  BY <1>1, <1>6 DEF TypeOK, ChooseGap, Calls, Idle, provider, preferences
<1>7. CASE FullSync(t)
  BY <1>1, <1>7 DEF TypeOK, FullSync, GoTo, Calls, Idle, provider, preferences
<1>8. CASE PartialSync(t)
  BY <1>1, <1>8 DEF TypeOK, PartialSync, GoTo, Calls, Idle, provider, preferences
<1>9. CASE Mark(t)
  BY <1>1, <1>9 DEF TypeOK, Mark, GoTo, Calls, Idle, provider, preferences
<1>10. CASE Done(t)
  BY <1>1, <1>10 DEF TypeOK, Done, End, Note, Calls, Idle, provider, preferences
<1>11. CASE CountError(t)
  BY <1>1, <1>11 DEF TypeOK, CountError, End, Note, Calls, Idle, provider, preferences
<1>12. CASE LoadFails(t)
  BY <1>1, <1>12 DEF TypeOK, LoadFails, End, Note, Calls, Idle, provider, preferences
<1>13. CASE SyncFails(t)
  BY <1>1, <1>13 DEF TypeOK, SyncFails, GoTo, End, Note, Calls, Idle, provider, preferences
<1> QED
  BY <1>3, <1>4, <1>5, <1>6, <1>7, <1>8, <1>9, <1>10, <1>11, <1>12, <1>13 DEF Step, Fault

\* Whatever a call does, it leaves its account tidy.
LEMMA StepTidies ==
    ASSUME SyncInv, NEW t \in Running, Step(t) \/ Fault(t), NEW a, a = call[t].account,
           a \notin overlap
    PROVE  Tidy(t, a)'
<1>1. t \in Tasks /\ call[t] \in Calls /\ a \in Accounts
  BY RunningCall DEF SyncInv
<1>2. call \in [Tasks -> Calls \cup {Idle}] /\ Idle.at = "idle"
  BY DEF SyncInv, TypeOK, Idle
<1>3. Tidy(t, a) /\ ~call[t].lost
  BY CallIsTidy
<1>4. overlap' = overlap /\ cut \subseteq cut'
  BY StepFrame DEF SyncInv
<1>5. files \in [Accounts -> Depths] /\ fullSynced \in [Accounts -> BOOLEAN]
      /\ serverStopgap \in [Accounts -> BOOLEAN]
  BY DEF SyncInv, TypeOK
<1>6. /\ StopGap(a) \in {Custom, Server} /\ (~serverStopgap[a] => StopGap(a) = Server)
      /\ Max({files[a], call[t].scan}) \in Depths
      /\ call[t].scan # None => Max({files[a], call[t].scan}) # None
      /\ call[t].scan = Server \/ files[a] = Server => Max({files[a], call[t].scan}) = Server
  BY <1>1, <1>5, GapFacts, ScanFacts DEF Calls
<1> USE DEF Tidy, Scanned, Scanning
<1>7. CASE Load(t)
  BY <1>1, <1>2, <1>3, <1>4, <1>5, <1>6, <1>7 DEF Load, GoTo, provider, preferences, Calls, None, Custom, Server
<1>8. CASE Cancel(t)
  BY <1>1, <1>2, <1>3, <1>4, <1>5, <1>6, <1>8 DEF Cancel, End, provider, preferences, Calls, None, Custom, Server
<1>9. CASE Check(t)
  BY <1>1, <1>2, <1>3, <1>4, <1>5, <1>6, <1>9 DEF Check, Decide, NeedsFull, provider, preferences, Calls, None, Custom, Server
<1>10. CASE ChooseGap(t)
  <2>1. call'[t].at = "full" /\ call'[t].scan = StopGap(a) /\ call'[t] # Idle
    BY <1>1, <1>2, <1>10 DEF ChooseGap, Calls
  <2>2. /\ UNCHANGED <<files, fullSynced, overlap, cut>>
        /\ call[t].at = "gap"
    BY <1>10 DEF ChooseGap, provider
  <2>3. a \notin overlap \cup cut =>
          /\ call'[t].scan = Custom => files[a] = Server
          /\ files[a] = Server \/ call'[t].scan = Server
    BY <1>3, <1>6, <2>1, <2>2 DEF Custom, Server
  <2> QED
    BY <1>3, <1>6, <2>1, <2>2, <2>3
<1>11. CASE FullSync(t)
  BY <1>1, <1>2, <1>3, <1>4, <1>5, <1>6, <1>11 DEF FullSync, GoTo, provider, preferences, Calls, None, Custom, Server
<1>12. CASE PartialSync(t)
  BY <1>1, <1>2, <1>3, <1>4, <1>5, <1>6, <1>12 DEF PartialSync, GoTo, provider, preferences, Calls, None, Custom, Server
<1>13. CASE Mark(t)
  BY <1>1, <1>2, <1>3, <1>4, <1>5, <1>6, <1>13 DEF Mark, GoTo, provider, preferences, Calls, None, Custom, Server
<1>14. CASE Done(t)
  BY <1>1, <1>2, <1>3, <1>4, <1>5, <1>6, <1>14 DEF Done, End, provider, preferences, Calls, None, Custom, Server
<1>15. CASE CountError(t)
  BY <1>1, <1>2, <1>3, <1>4, <1>5, <1>6, <1>15 DEF CountError, End, provider, preferences, Calls, None, Custom, Server
<1>16. CASE LoadFails(t)
  BY <1>1, <1>2, <1>3, <1>4, <1>5, <1>6, <1>16 DEF LoadFails, End, provider, preferences, Calls, None, Custom, Server
<1>17. CASE SyncFails(t)
  <2>1. call'[t].at \in {"failed", "idle"}
    BY <1>1, <1>2, <1>17 DEF SyncFails, GoTo, End, Calls
  <2>2. UNCHANGED <<files, fullSynced, serverStopgap, overlap>>
    BY <1>17 DEF SyncFails
  <2>3. a \notin cut' => ~Scanning(t)
    BY <1>17 DEF SyncFails
  <2> QED
    BY <1>3, <1>4, <2>1, <2>2, <2>3
<1> QED
  BY <1>7, <1>8, <1>9, <1>10, <1>11, <1>12, <1>13, <1>14, <1>15, <1>16, <1>17 DEF Step, Fault

\* A call that starts a full scan knows how far to look.
LEMMA StepDepth ==
    ASSUME SyncInv, NEW t \in Running, Step(t) \/ Fault(t)
    PROVE  call'[t].at = "full" => call'[t].scan \in {Custom, Server}
<1>1. t \in Tasks /\ call[t] \in Calls /\ call[t].account \in Accounts
  BY RunningCall DEF SyncInv
<1>2. call \in [Tasks -> Calls \cup {Idle}] /\ Idle.at = "idle"
  BY DEF SyncInv, TypeOK, Idle
<1>3. CASE ChooseGap(t)
  BY <1>1, <1>2, <1>3, GapFacts DEF ChooseGap, Calls
<1>4. CASE Load(t) \/ FullSync(t) \/ PartialSync(t) \/ Mark(t)
  BY <1>1, <1>2, <1>4 DEF Load, FullSync, PartialSync, Mark, GoTo, Calls
<1>5. CASE Check(t)
  BY <1>1, <1>2, <1>5 DEF Check, Decide, Calls
<1>6. CASE Cancel(t) \/ Done(t) \/ CountError(t) \/ LoadFails(t)
  BY <1>1, <1>2, <1>6 DEF Cancel, Done, CountError, LoadFails, End
<1>7. CASE SyncFails(t)
  BY <1>1, <1>2, <1>7 DEF SyncFails, GoTo, End, Calls
<1> QED
  BY <1>3, <1>4, <1>5, <1>6, <1>7 DEF Step, Fault

\* A call keeps the invariant: its own account it leaves tidy, and no other
\* changes.
LEMMA StepKeepsSync ==
    ASSUME SyncInv, NEW t \in Running, Step(t) \/ Fault(t)
    PROVE  SyncInv'
<1>0. PICK a : a = call[t].account
  OBVIOUS
<1>1. TypeOK /\ TypeOK' /\ t \in Tasks /\ a \in Accounts
  BY <1>0, StepTyped, RunningCall DEF SyncInv
<1>2. /\ erasure' = erasure /\ overlap' = overlap /\ cut \subseteq cut'
      /\ \A u \in Tasks : u # t => call'[u] = call[u]
      /\ \A b \in Accounts : b # a =>
           /\ isWalletSyncing'[b] = isWalletSyncing[b] /\ fullSynced'[b] = fullSynced[b]
           /\ serverStopgap'[b] = serverStopgap[b] /\ files'[b] = files[b]
      /\ \/ call'[t] = Idle
         \/ /\ call'[t] # Idle /\ call'[t].account = a
            /\ call'[t].lost = call[t].lost /\ call'[t].old = call[t].old
            /\ isWalletSyncing' = isWalletSyncing
  BY <1>0, <1>1, StepFrame
<1>3. a \notin overlap => erasure = "none" /\ Tidy(t, a)'
  BY <1>0, CallIsTidy, StepTidies
\* Another call of the account would be in overlap, and so would the account.
<1>4. ASSUME NEW u \in Running', call'[u].account \notin overlap
      PROVE  /\ u \in Running /\ call[u].account = call'[u].account
             /\ u # t => call'[u] = call[u] /\ call[u].account # a
             /\ erasure = "none"
  <2>1. u \in Running /\ call[u].account = call'[u].account /\ (u # t => call'[u] = call[u])
    BY <1>0, <1>2 DEF Running
  <2>2. u # t => call[u].account # a
    BY <1>0, <2>1, <1>4 DEF SyncInv, OneSyncPerAccount
  <2>3. erasure = "none"
    BY <2>1, <1>4 DEF SyncInv, ErasureNoticed, Busy
  <2> QED
    BY <2>1, <2>2, <2>3
<1>5. ErasureNoticed'
  BY <1>2, <1>4 DEF SyncInv, ErasureNoticed, Busy
<1>6. OwnersMarked'
  <2> SUFFICES ASSUME NEW u \in Running', call'[u].account \notin overlap
               PROVE  isWalletSyncing'[call'[u].account] /\ ~call'[u].lost /\ ~call'[u].old
    BY <1>2 DEF OwnersMarked
  <2>1. isWalletSyncing[call[u].account] /\ ~call[u].lost /\ ~call[u].old
    BY <1>4 DEF SyncInv, OwnersMarked
  <2>2. CASE u = t
    BY <1>2, <1>4, <2>1, <2>2 DEF Running
  <2>3. CASE u # t
    <3>1. call[u].account \in Accounts
      BY <1>1, <1>4, RunningCall
    <3> QED
      BY <1>2, <1>4, <2>1, <2>3, <3>1
  <2> QED
    BY <2>2, <2>3
<1>7. OneSyncPerAccount'
  <2> SUFFICES ASSUME NEW u \in Running', NEW v \in Running', u # v,
                      call'[u].account = call'[v].account, call'[u].account \notin overlap
               PROVE  FALSE
    BY <1>2 DEF OneSyncPerAccount
  <2> QED
    BY <1>4 DEF SyncInv, OneSyncPerAccount
<1>8. MarkMeansScanned'
  <2> SUFFICES ASSUME erasure # "marks", NEW b \in Accounts, b \notin overlap, fullSynced'[b]
               PROVE  files'[b] # None
    BY <1>2 DEF MarkMeansScanned
  <2>1. CASE b = a
    BY <1>2, <1>3, <2>1 DEF Tidy
  <2>2. CASE b # a
    BY <1>2, <2>2 DEF SyncInv, MarkMeansScanned
  <2> QED
    BY <2>1, <2>2
<1>9. ErasedStays'
  <2> SUFFICES ASSUME NEW b \in Accounts, b \notin overlap
               PROVE  /\ erasure \in {"gaps", "logout_files"} => ~fullSynced'[b]
                      /\ erasure = "logout_files" => ~serverStopgap'[b]
    BY <1>2 DEF ErasedStays
  <2>1. CASE b = a
    BY <1>3, <2>1
  <2>2. CASE b # a
    BY <1>2, <2>2 DEF SyncInv, ErasedStays
  <2> QED
    BY <2>1, <2>2
<1>10. ScansReach'
  <2> SUFFICES ASSUME NEW u \in Running'
               PROVE  /\ call'[u].at = "full" => call'[u].scan \in {Custom, Server}
                      /\ call'[u].account \notin overlap /\ Scanned(u)' => files'[call'[u].account] # None
    BY <1>2 DEF ScansReach
  <2>1. CASE u = t
    <3>1. call'[t].at = "full" => call'[t].scan \in {Custom, Server}
      BY <1>1, StepDepth
    <3>2. a \notin overlap /\ Scanned(t)' => files'[a] # None
      BY <1>2, <1>3 DEF Tidy
    <3> QED
      BY <1>2, <2>1, <3>1, <3>2 DEF Running
  <2>2. CASE u # t
    <3>1. u \in Running /\ call'[u] = call[u] /\ call[u].account \in Accounts
      BY <1>1, <1>2, <2>2, RunningCall DEF Running
    <3>2. call[u].account \notin overlap => files'[call[u].account] = files[call[u].account]
      BY <1>2, <1>4, <2>2, <3>1
    <3> QED
      BY <3>1, <3>2 DEF SyncInv, ScansReach, Scanned
  <2> QED
    BY <2>1, <2>2
<1>11. FarIndexesFound'
  <2> SUFFICES ASSUME erasure # "marks", NEW b \in Accounts, b \notin overlap, b \notin cut',
                      fullSynced'[b]
               PROVE  files'[b] = Server
    BY <1>2 DEF FarIndexesFound
  <2>1. CASE b = a
    BY <1>2, <1>3, <2>1 DEF Tidy
  <2>2. CASE b # a
    BY <1>2, <2>2 DEF SyncInv, FarIndexesFound
  <2> QED
    BY <2>1, <2>2
<1>12. GapUsed'
  <2> SUFFICES ASSUME erasure \notin {"marks", "gaps"}, NEW b \in Accounts, b \notin overlap,
                      b \notin cut', serverStopgap'[b], files'[b] # Server
               PROVE  \E u \in Running' : call'[u].account = b /\ Scanning(u)'
    BY <1>2 DEF GapUsed
  <2>1. CASE b = a
    <3>1. Scanning(t)'
      BY <1>2, <1>3, <2>1 DEF Tidy
    <3>2. t \in Running' /\ call'[t].account = a
      BY <1>1, <1>2, <3>1 DEF Scanning, Running
    <3> QED
      BY <2>1, <3>1, <3>2
  <2>2. CASE b # a
    <3>1. PICK u \in Running : call[u].account = b /\ Scanning(u)
      BY <1>2, <2>2 DEF SyncInv, GapUsed
    <3>2. u \in Running' /\ call'[u] = call[u]
      BY <1>0, <1>2, <2>2, <3>1 DEF Running
    <3> QED
      BY <3>1, <3>2 DEF Scanning
  <2> QED
    BY <2>1, <2>2
<1>13. FarScans'
  <2> SUFFICES ASSUME NEW u \in Running', call'[u].account \notin overlap, call'[u].account \notin cut'
               PROVE  \/ files'[call'[u].account] = Server
                      \/ ~Scanned(u)' /\ ~(call'[u].at = "full" /\ call'[u].scan = Custom)
    BY <1>2 DEF FarScans
  <2>1. CASE u = t
    BY <1>0, <1>2, <1>3, <1>4, <2>1 DEF Tidy, Scanned
  <2>2. CASE u # t
    <3>1. /\ u \in Running /\ call'[u] = call[u] /\ call[u].account \in Accounts
          /\ files'[call[u].account] = files[call[u].account]
      BY <1>1, <1>2, <1>4, <2>2, RunningCall
    <3> QED
      BY <1>2, <3>1 DEF SyncInv, FarScans, Scanned
  <2> QED
    BY <2>1, <2>2
<1> QED
  BY <1>1, <1>5, <1>6, <1>7, <1>8, <1>9, <1>10, <1>11, <1>12, <1>13 DEF SyncInv

\* A step of an erasure puts every running call's account in overlap, so of
\* the calls only what holds everywhere is left to say.
LEMMA AllNoticed ==
    ASSUME SyncInv, overlap \cup Busy \subseteq overlap',
           \A t \in Running' : /\ t \in Running /\ call'[t].account = call[t].account
                               /\ call'[t].at = call[t].at /\ call'[t].scan = call[t].scan
    PROVE  (ErasureNoticed /\ OwnersMarked /\ OneSyncPerAccount /\ ScansReach /\ FarScans)'
<1>1. \A t \in Running' : call'[t].account \in overlap'
  BY DEF Busy
<1>2. \A t \in Running' : call'[t].at = "full" => call'[t].scan \in {Custom, Server}
  BY DEF SyncInv, ScansReach
<1>3. ErasureNoticed'
  BY <1>1 DEF ErasureNoticed, Busy
<1>4. OwnersMarked' /\ OneSyncPerAccount' /\ FarScans'
  BY <1>1 DEF OwnersMarked, OneSyncPerAccount, FarScans
<1>5. ScansReach'
  BY <1>1, <1>2 DEF ScansReach
<1> QED
  BY <1>3, <1>4, <1>5

\* With no call on it, an account whose stop gap is noted has been scanned.
LEMMA GapKept ==
    ASSUME SyncInv, erasure \notin {"marks", "gaps"},
           NEW a \in Accounts, a \notin overlap \cup Busy, a \notin cut, serverStopgap[a]
    PROVE  files[a] = Server
  BY DEF SyncInv, GapUsed, Busy

\* The steps of an erasure: what they take is gone outside overlap, and it is
\* over only when nothing is left that speaks of a file that was taken.
LEMMA EraseKeepsSync ==
    ASSUME SyncInv, Erase
    PROVE  SyncInv'
<1>1. TypeOK /\ TypeOK'
  BY OutsideTyped DEF Outside, SyncInv
<1>2. overlap' = overlap \cup Busy
  BY DEF Erase, EraseFiles, EraseMarks, EraseGaps
<1>3. \A t \in Running' : /\ t \in Running /\ call'[t].account = call[t].account
                          /\ call'[t].at = call[t].at /\ call'[t].scan = call[t].scan
  <2>1. CASE EraseFiles
    <3> SUFFICES ASSUME NEW t \in Tasks, call'[t] # Idle
                 PROVE  /\ call[t] # Idle /\ call'[t].account = call[t].account
                        /\ call'[t].at = call[t].at /\ call'[t].scan = call[t].scan
      BY DEF Running
    <3>1. call'[t] = call[t] \/ (Open(t) /\ call'[t] = [call[t] EXCEPT !.lost = TRUE])
      BY <2>1 DEF EraseFiles
    <3>2. Open(t) => call[t] \in Calls
      BY <1>1 DEF Open, TypeOK
    <3> QED
      BY <3>1, <3>2 DEF Open, Calls
  <2>2. CASE EraseMarks \/ EraseGaps
    BY <2>2 DEF EraseMarks, EraseGaps, Running
  <2> QED
    BY <2>1, <2>2 DEF Erase
<1>4. (ErasureNoticed /\ OwnersMarked /\ OneSyncPerAccount /\ ScansReach /\ FarScans)'
  BY <1>2, <1>3, AllNoticed
<1>5. (MarkMeansScanned /\ ErasedStays /\ FarIndexesFound /\ GapUsed)'
  <2>1. CASE EraseFiles
    <3>1. CASE erasure = "files"
      BY <2>1, <3>1 DEF EraseFiles, MarkMeansScanned, ErasedStays, FarIndexesFound, GapUsed
    <3>2. CASE erasure = "logout_files"
      <4>1. \A b \in Accounts \ overlap' : ~fullSynced'[b] /\ ~serverStopgap'[b]
        BY <1>2, <2>1, <3>2 DEF SyncInv, ErasedStays, EraseFiles, preferences
      <4>2. erasure' = "out"
        BY <2>1, <3>2 DEF EraseFiles
      <4> QED
        BY <4>1, <4>2 DEF MarkMeansScanned, ErasedStays, FarIndexesFound, GapUsed
    <3> QED
      BY <2>1, <3>1, <3>2 DEF EraseFiles
  <2>2. CASE EraseMarks
    <3>1. \A b \in Accounts : ~fullSynced'[b]
      BY <2>2 DEF EraseMarks, MarksErased
    <3>2. erasure' = "gaps"
      BY <2>2 DEF EraseMarks
    <3> QED
      BY <3>1, <3>2 DEF MarkMeansScanned, ErasedStays, FarIndexesFound, GapUsed
  <2>3. CASE EraseGaps
    <3>1. \A b \in Accounts \ overlap' : ~fullSynced'[b] /\ ~serverStopgap'[b]
      BY <1>2, <2>3 DEF SyncInv, ErasedStays, EraseGaps, MarksErased
    <3>2. erasure' = "none"
      BY <2>3 DEF EraseGaps
    <3> QED
      BY <3>1, <3>2 DEF MarkMeansScanned, ErasedStays, FarIndexesFound, GapUsed
  <2> QED
    BY <2>1, <2>2, <2>3 DEF Erase
<1> QED
  BY <1>1, <1>4, <1>5 DEF SyncInv

\* The start of an erasure, and the login after a logout.
LEMMA StartKeepsSync ==
    ASSUME SyncInv, StartClearing \/ StartLogout \/ Login
    PROVE  SyncInv'
<1>1. TypeOK /\ TypeOK'
  BY OutsideTyped DEF Outside, SyncInv
<1>2. overlap' = overlap \cup Busy
  BY DEF StartClearing, StartLogout, Login
<1>3. \A t \in Running' : /\ t \in Running /\ call'[t].account = call[t].account
                          /\ call'[t].at = call[t].at /\ call'[t].scan = call[t].scan
  <2>1. CASE Login
    <3> SUFFICES ASSUME NEW t \in Tasks, call'[t] # Idle
                 PROVE  /\ call[t] # Idle /\ call'[t].account = call[t].account
                        /\ call'[t].at = call[t].at /\ call'[t].scan = call[t].scan
      BY DEF Running
    <3>1. call[t] # Idle /\ call'[t] = [call[t] EXCEPT !.old = TRUE]
      BY <2>1 DEF Login
    <3>2. call[t] \in Calls
      BY <1>1, <3>1 DEF TypeOK
    <3> QED
      BY <3>1, <3>2 DEF Calls
  <2>2. CASE StartClearing \/ StartLogout
    BY <2>2 DEF StartClearing, StartLogout, Running
  <2> QED
    BY <2>1, <2>2
<1>4. (ErasureNoticed /\ OwnersMarked /\ OneSyncPerAccount /\ ScansReach /\ FarScans)'
  BY <1>2, <1>3, AllNoticed
<1>5. (MarkMeansScanned /\ ErasedStays /\ FarIndexesFound /\ GapUsed)'
  <2>1. CASE StartLogout
    <3>1. \A b \in Accounts : ~fullSynced'[b] /\ ~serverStopgap'[b]
      BY <2>1 DEF StartLogout, MarksErased
    <3> QED
      BY <3>1 DEF MarkMeansScanned, ErasedStays, FarIndexesFound, GapUsed
  <2>2. CASE StartClearing \/ Login
    <3>1. /\ erasure \in {"none", "out"} /\ erasure' \in {"files", "none"}
          /\ UNCHANGED <<fullSynced, serverStopgap, files, cut>>
      BY <2>2 DEF StartClearing, Login, preferences
    <3>2. MarkMeansScanned' /\ FarIndexesFound'
      BY <1>2, <3>1 DEF SyncInv, MarkMeansScanned, FarIndexesFound
    <3>3. ErasedStays'
      BY <3>1 DEF ErasedStays
    <3>4. GapUsed'
      BY <1>2, <3>1, GapKept DEF GapUsed
    <3> QED
      BY <3>2, <3>3, <3>4
  <2> QED
    BY <2>1, <2>2
<1> QED
  BY <1>1, <1>4, <1>5 DEF SyncInv

\* A restart ends every call; what it cuts short it leaves in overlap and cut.
LEMMA RestartKeepsSync ==
    ASSUME SyncInv, Restart
    PROVE  SyncInv'
<1>1. TypeOK /\ TypeOK'
  BY OutsideTyped DEF Outside, SyncInv
<1>2. Running' = {}
  BY DEF Restart, Running
<1>3. (ErasureNoticed /\ OwnersMarked /\ OneSyncPerAccount /\ ScansReach /\ FarScans)'
  BY <1>2 DEF ErasureNoticed, Busy, OwnersMarked, OneSyncPerAccount, ScansReach, FarScans
<1>4. UNCHANGED <<fullSynced, serverStopgap, files>> /\ erasure' \in {"none", "out"}
  BY DEF Restart, preferences
<1>5. overlap \subseteq overlap' /\ cut \subseteq cut'
  BY <1>1 DEF Restart, TypeOK
<1>6. /\ erasure = "marks" => overlap' = Accounts
      /\ erasure = "gaps" => Accounts \subseteq cut'
      /\ \A t \in Tasks : Scanning(t) => call[t].account \in cut'
  BY DEF Restart
<1>7. MarkMeansScanned' /\ FarIndexesFound'
  BY <1>4, <1>5, <1>6 DEF SyncInv, MarkMeansScanned, FarIndexesFound
<1>8. ErasedStays'
  BY <1>4 DEF ErasedStays
<1>9. GapUsed'
  <2> SUFFICES ASSUME NEW b \in Accounts, b \notin overlap', b \notin cut', serverStopgap'[b]
               PROVE  files'[b] = Server
    BY DEF GapUsed
  <2>1. erasure \notin {"marks", "gaps"} /\ b \notin overlap /\ b \notin cut
    BY <1>5, <1>6
  <2>2. ~ \E t \in Running : call[t].account = b /\ Scanning(t)
    BY <1>6 DEF Running
  <2> QED
    BY <1>4, <2>1, <2>2 DEF SyncInv, GapUsed
<1> QED
  BY <1>1, <1>3, <1>7, <1>8, <1>9 DEF SyncInv

\* A call that is let in finds no other of its account, or an erasure.
LEMMA CallKeepsSync ==
    ASSUME SyncInv, NEW t \in Tasks, NEW a \in Accounts, NEW why \in Reasons, Call(t, a, why)
    PROVE  SyncInv'
<1>1. TypeOK /\ TypeOK'
  BY OutsideTyped DEF Outside, SyncInv
<1>2. /\ call[t] = Idle /\ ~isWalletSyncing[a] /\ isWalletSyncing'[a]
      /\ \A b \in Accounts : b # a => isWalletSyncing'[b] = isWalletSyncing[b]
      /\ \A u \in Tasks : u # t => call'[u] = call[u]
      /\ UNCHANGED <<fullSynced, serverStopgap, files, erasure, cut>>
      /\ overlap \subseteq overlap' /\ overlap' \subseteq overlap \cup {a}
      /\ erasure # "none" => a \in overlap'
  BY <1>1 DEF Call, MayStart, TypeOK, preferences
<1>3. /\ call'[t].at = "load" /\ call'[t].account = a /\ call'[t] # Idle
      /\ ~call'[t].lost /\ ~call'[t].old
  BY <1>1 DEF Call, TypeOK, Idle
<1>4. /\ t \in Running' /\ t \notin Running
      /\ \A u \in Running' : u # t => u \in Running /\ call'[u] = call[u] /\ call[u].account \in Accounts
      /\ \A u \in Running : u \in Running' /\ call'[u] = call[u] /\ u # t
  BY <1>1, <1>2, <1>3, RunningCall DEF Running
<1>5. \A u \in Running : call[u].account = a => a \in overlap
  BY <1>2 DEF SyncInv, OwnersMarked
<1>6. ErasureNoticed'
  BY <1>2, <1>3, <1>4 DEF SyncInv, ErasureNoticed, Busy
<1>7. OwnersMarked'
  BY <1>2, <1>3, <1>4, <1>5 DEF SyncInv, OwnersMarked
<1>8. OneSyncPerAccount'
  BY <1>2, <1>3, <1>4, <1>5 DEF SyncInv, OneSyncPerAccount
<1>9. (MarkMeansScanned /\ ErasedStays /\ FarIndexesFound)'
  BY <1>2 DEF SyncInv, MarkMeansScanned, ErasedStays, FarIndexesFound
<1>10. ScansReach' /\ FarScans'
  BY <1>2, <1>3, <1>4 DEF SyncInv, ScansReach, FarScans, Scanned
<1>11. GapUsed'
  <2> SUFFICES ASSUME erasure \notin {"marks", "gaps"}, NEW b \in Accounts, b \notin overlap,
                      b \notin cut, serverStopgap[b], files[b] # Server
               PROVE  \E u \in Running' : call'[u].account = b /\ Scanning(u)'
    BY <1>2 DEF GapUsed
  <2>1. PICK u \in Running : call[u].account = b /\ Scanning(u)
    BY DEF SyncInv, GapUsed
  <2> QED
    BY <1>4, <2>1 DEF Scanning
<1> QED
  BY <1>1, <1>6, <1>7, <1>8, <1>9, <1>10, <1>11 DEF SyncInv

\* The timers say nothing of marks and files.
LEMMA TimeKeepsSync ==
    ASSUME SyncInv, TimePasses \/ UNCHANGED vars
    PROVE  SyncInv'
<1>1. TypeOK'
  BY OutsideTyped DEF Outside, SyncInv, vars, provider, preferences, counters, TypeOK
<1>2. UNCHANGED <<call, isWalletSyncing, fullSynced, serverStopgap, files, erasure, overlap, cut>>
  BY DEF TimePasses, vars, provider, preferences
<1> QED
  BY <1>1, <1>2 DEF SyncInv, ErasureNoticed, OwnersMarked, OneSyncPerAccount, MarkMeansScanned,
     ErasedStays, ScansReach, FarIndexesFound, GapUsed, FarScans, Running, Busy, Scanned, Scanning

\* The calls, the erasures and the restarts together keep the table of running
\* syncs, the marks, the stop gaps and the files in agreement.
THEOREM SyncInvariant == Spec => []SyncInv
<1>1. Init => SyncInv
  <2> SUFFICES ASSUME Init PROVE SyncInv
    OBVIOUS
  <2>1. TypeOK
    BY InitTyped
  <2>2. Running = {} /\ erasure = "none"
    BY DEF Init, Running
  <2>3. \A a \in Accounts : ~fullSynced[a] /\ ~serverStopgap[a]
    BY DEF Init
  <2> QED
    BY <2>1, <2>2, <2>3 DEF SyncInv, ErasureNoticed, OwnersMarked, OneSyncPerAccount,
       MarkMeansScanned, ErasedStays, ScansReach, FarIndexesFound, GapUsed, FarScans
<1>2. SyncInv /\ [Next]_vars => SyncInv'
  <2> SUFFICES ASSUME SyncInv, [Next]_vars PROVE SyncInv'
    OBVIOUS
  <2>1. CASE \E t \in Running : t \in Tasks /\ (Step(t) \/ Fault(t))
    BY <2>1, StepKeepsSync
  <2>2. CASE Outside
    BY <2>2, CallKeepsSync, EraseKeepsSync, StartKeepsSync, RestartKeepsSync, TimeKeepsSync
       DEF Outside
  <2>3. CASE UNCHANGED vars
    BY <2>3, TimeKeepsSync
  <2> QED
    BY <2>1, <2>2, <2>3, NextSplits
<1> QED
  BY <1>1, <1>2, PTL DEF Spec

\* isWalletSyncing lets two syncs of one account run at once only where an
\* erasure or a login cleared it under a running one.
THEOREM OneSyncPerAccountAlways == Spec => []OneSyncPerAccount
<1>1. SyncInv => OneSyncPerAccount
  BY DEF SyncInv
<1> QED
  BY <1>1, SyncInvariant, PTL

\* An account marked as scanned has been scanned into the file it has, for any
\* number of failures, erasures and kills, if no erasure met its sync.
THEOREM MarkMeansScannedAlways == Spec => []MarkMeansScanned
<1>1. SyncInv => MarkMeansScanned
  BY DEF SyncInv
<1> QED
  BY <1>1, SyncInvariant, PTL

\* ... and as far as the server's stop gap, if the scan that used it was not
\* cut short.
THEOREM FarIndexesFoundAlways == Spec => []FarIndexesFound
<1>1. SyncInv => FarIndexesFound
  BY DEF SyncInv
<1> QED
  BY <1>1, SyncInvariant, PTL
====
