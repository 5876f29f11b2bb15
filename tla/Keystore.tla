------------------------------ MODULE Keystore ------------------------------
(***************************************************************************)
(* What the keystore (src/src/accounts.rs) promises its user, whatever     *)
(* fails or crashes: a key that can be read back is given up only when its *)
(* account is removed, a new account takes nobody's place, and what signs  *)
(* for an account is that account's own key.                               *)
(***************************************************************************)
CONSTANTS Ids, Keys, None

VARIABLES
    kept,       \* the keys a start of the program finds, by account id
    listed,     \* the accounts on offer
    active,     \* the one in use
    usable      \* the keys that listed accounts sign with

keystore == <<kept, listed, active, usable>>

Nobody == [id \in Ids |-> None]

\* Any account may follow, as long as there is one.
Successors(l) ==
    IF l = Nobody THEN {None} ELSE {id \in Ids : l[id] # None}

\* The program starts, and can list all the keys kept or none.
Start(k) ==
    /\ listed' \in {k, Nobody}
    /\ active' \in Successors(listed')
    /\ usable' = Nobody

Init ==
    /\ kept \in [Ids -> Keys \cup {None}]
    /\ listed = kept
    /\ active \in Successors(listed)
    /\ usable = Nobody

Restart == Start(kept) /\ UNCHANGED kept

Add(id, key) ==
    /\ kept[id] = None
    /\ \A other \in Ids : listed[other] # key
    /\ kept' = [kept EXCEPT ![id] = key]
    /\ listed' = [listed EXCEPT ![id] = key]
    /\ active' = id
    /\ UNCHANGED usable

\* The program dies once the key is kept, and is started again.
AddUnseen(id, key) ==
    /\ kept[id] = None
    /\ kept' = [kept EXCEPT ![id] = key]
    /\ Start(kept')

Remove(id) ==
    /\ listed[id] # None
    /\ kept' = [kept EXCEPT ![id] = None]
    /\ listed' = [listed EXCEPT ![id] = None]
    /\ active' \in IF active = id THEN Successors(listed') ELSE {active}
    /\ usable' = [usable EXCEPT ![id] = None]

Select(id) ==
    /\ listed[id] # None
    /\ active' = id
    /\ UNCHANGED <<kept, listed, usable>>

Unlock(id) ==
    /\ listed[id] # None
    /\ usable' = [usable EXCEPT ![id] = listed[id]]
    /\ UNCHANGED <<kept, listed, active>>

Lock(id) ==
    /\ usable' = [usable EXCEPT ![id] = None]
    /\ UNCHANGED <<kept, listed, active>>

Next ==
    \/ Restart
    \/ \E id \in Ids :
        \/ \E key \in Keys : Add(id, key) \/ AddUnseen(id, key)
        \/ Remove(id) \/ Select(id) \/ Unlock(id) \/ Lock(id)

Spec == Init /\ [][Next]_keystore
=============================================================================
