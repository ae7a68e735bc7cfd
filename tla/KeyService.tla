---- MODULE KeyService ----
(***************************************************************************)
(* What the wallet keys provider promises, without its cache, its store,   *)
(* its lock and the steps in between: a key is known somewhere or it is    *)
(* not, only the creation of a wallet makes one known, and a call answers  *)
(* with the key it was asked for only if that key is known.                *)
(***************************************************************************)

CONSTANTS
    Tasks,         \* callers of the provider
    Wallets        \* wallets a key can belong to

VARIABLES
    known,         \* wallets whose key somebody still holds
    busy,          \* callers that wait for an answer
    asked,         \* the wallet each caller asked for last
    answer         \* "key" if its last call gave the key, "other" if not

vars == <<known, busy, asked, answer>>

Init ==
    /\ known \in SUBSET Wallets
    /\ busy = {}
    /\ asked \in [Tasks -> Wallets]
    /\ answer = [t \in Tasks |-> "other"]

----
\* Somebody creates a wallet and with it a key.
Create(w) ==
    /\ known' = known \union {w}
    /\ UNCHANGED <<busy, asked, answer>>

\* A key may be forgotten at any step; it does not come back by itself.
Forgetful == known' \subseteq known

Forget == Forgetful /\ UNCHANGED <<busy, asked, answer>>

Ask(t, w) ==
    /\ t \notin busy /\ busy' = busy \union {t}
    /\ asked' = [asked EXCEPT ![t] = w]
    /\ Forgetful /\ UNCHANGED answer

\* The key is given, or anything else is said, to a caller that waits.
Answer(t) ==
    /\ t \in busy /\ busy' = busy \ {t}
    /\ \/ asked[t] \in known /\ answer' = [answer EXCEPT ![t] = "key"]
       \/ answer' = [answer EXCEPT ![t] = "other"]
    /\ Forgetful /\ UNCHANGED asked

Next ==
    \/ \E w \in Wallets : Create(w)
    \/ Forget
    \/ \E t \in Tasks, w \in Wallets : Ask(t, w)
    \/ \E t \in Tasks : Answer(t)

Spec == Init /\ [][Next]_vars
====
