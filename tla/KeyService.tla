----------------------------- MODULE KeyService -----------------------------
(***************************************************************************)
(* What a KMS client promises to its callers, without the KMS: one caller  *)
(* at a time asks for the key of a URI and gets that key or an error, and  *)
(* the keys that are kept are right ones, few enough.  RustKmsClient       *)
(* implements it; RustActivity relies on it.                               *)
(***************************************************************************)
EXTENDS Naturals, FiniteSets

CONSTANTS
    Tasks, Uris,
    NoUri,   \* no URI: nothing is asked, no key is kept
    Limit    \* MAX_KEY_CACHE_SIZE

VARIABLES
    asked,   \* asked[t]: the URI whose key t waits for
    keys     \* keys[u]: the URI whose key is kept under u

serviceVars == <<asked, keys>>

NoKeys == [u \in Uris |-> NoUri]
Held == {u \in Uris : keys[u] # NoUri}

Init ==
    /\ asked = [t \in Tasks |-> NoUri]
    /\ keys = NoKeys

\* A caller asks for a key; too many kept keys are dropped first.
Ask(t, u) ==
    /\ \A s \in Tasks : asked[s] = NoUri
    /\ asked' = [asked EXCEPT ![t] = u]
    /\ keys' = IF Cardinality(Held) > Limit THEN NoKeys ELSE keys

\* A caller that is turned away at once may also drop them.
TurnAway ==
    /\ Cardinality(Held) > Limit
    /\ keys' = NoKeys
    /\ UNCHANGED asked

\* The key that was asked for is returned and kept,
Answer(t) ==
    /\ asked[t] # NoUri
    /\ Cardinality(Held) <= Limit
    /\ keys' = [keys EXCEPT ![asked[t]] = asked[t]]
    /\ asked' = [asked EXCEPT ![t] = NoUri]

\* or an error is, or a bad answer is the end of the caller.
Fail(t) ==
    /\ asked[t] # NoUri
    /\ asked' = [asked EXCEPT ![t] = NoUri]
    /\ UNCHANGED keys

Next ==
    \/ \E t \in Tasks : (\E u \in Uris : Ask(t, u)) \/ Answer(t) \/ Fail(t)
    \/ TurnAway

Spec == Init /\ [][Next]_serviceVars
=============================================================================
