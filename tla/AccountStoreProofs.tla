------------------------- MODULE AccountStoreProofs -------------------------
(***************************************************************************)
(* Proofs about the keystore for any number of files, keys and tasks.  The *)
(* inductive invariant says what the safety properties leave unsaid: ids   *)
(* that were not issued hold nothing, a listed account's file holds the    *)
(* listed key, and a task that has its answer holds the key of its file.   *)
(***************************************************************************)
EXTENDS AccountStore, TLAPS, WellFoundedInduction

\* Ids from the clock on are blank everywhere, and no task or dialog has one.
UnissuedBlank ==
    /\ \A id \in Ids : id >= clock => /\ disk[id] = None
                                      /\ accounts[id] = None
                                      /\ unlocked_signers[id] = None
    /\ unlock_target_id # None => unlock_target_id < clock

\* A listed account is backed by its file, whether or not the directory could
\* be listed at start.
ListedIsOnDisk == \A id \in Ids : accounts[id] # None => disk[id] = accounts[id]

\* A task belongs to an issued id and to an open dialog, and its answer is the
\* key of its account.
TasksSound ==
    \A t \in Tasks : tasks[t].stage # "idle" =>
        /\ tasks[t].id \in Ids /\ tasks[t].id < clock
        /\ unlock_target_id # None
        /\ tasks[t].signer # None /\ accounts[tasks[t].id] # None
           => tasks[t].signer = accounts[tasks[t].id]

KeystoreInv ==
    /\ TypeOK
    /\ UnissuedBlank
    /\ ListedIsOnDisk
    /\ RestartKeepsAccounts
    /\ SignerMatchesEntry
    /\ TasksSound
    /\ NeverStuckUnlocking
    /\ ActiveIsListed
----------------------------------------------------------------------------
\* The least-number principle, from the well-foundedness of < on Nat.
LEMMA LeastNatural ==
    ASSUME NEW S \in SUBSET Nat, S # {}
    PROVE  \E m \in S : \A n \in S : m <= n
<1> DEFINE R == OpToRel(<, Nat)
<1>1. IsWellFoundedOn(R, Nat)
    BY NatLessThanWellFounded
<1>2. \E m \in S : \A n \in S : ~ (<<n, m>> \in R)
    <2> HIDE DEF R
    <2> QED BY <1>1, WFMin
<1>3. ASSUME NEW m \in S, NEW n \in S, ~ (<<n, m>> \in R) PROVE m <= n
    <2>1. ~ (n < m)
        BY <1>3 DEF OpToRel
    <2> QED BY <2>1
<1> QED BY <1>2, <1>3

Blank(acc) == \A id \in Ids : acc[id] = None

\* accounts.first() of a list is one of its entries, and None only for an
\* empty list: the minimum of the sort order always exists.
LEMMA FirstOfListed ==
    ASSUME NEW acc \in [Ids -> Keys \cup {None}], NEW first \in FirstOf(acc)
    PROVE  /\ first \in Ids \cup {None}
           /\ IF Blank(acc) THEN first = None ELSE first # None /\ acc[first] # None
<1> DEFINE firsts == {id \in Ids : /\ acc[id] # None
                                   /\ \A other \in Ids : acc[other] = None \/ acc[id] <= acc[other]}
           held == {acc[id] : id \in {i \in Ids : acc[i] # None}}
<1>1. None \notin Ids
    BY KeystoreAssumption DEF Ids
<1>2. CASE Blank(acc)
    <2>1. firsts = {}
        BY <1>2 DEF Blank
    <2> QED BY <1>2, <2>1 DEF FirstOf
<1>3. CASE ~ Blank(acc)
    <2>1. held \in SUBSET Nat /\ held # {}
        BY <1>3, KeystoreAssumption DEF Blank
    <2>2. PICK least \in held : \A n \in held : least <= n
        BY <2>1, LeastNatural
    <2>3. PICK id \in Ids : acc[id] # None /\ acc[id] = least
        BY <2>2
    <2>4. id \in firsts
        BY <2>2, <2>3
    <2>5. firsts # {}
        BY <2>4
    <2>6. first \in firsts
        BY <2>5 DEF FirstOf
    <2> QED BY <1>1, <1>3, <2>6
<1> QED BY <1>2, <1>3

\* What a directory lists is well typed and backed by the directory.
LEMMA ListedSound ==
    ASSUME NEW d \in [Ids -> Keys \cup {None, Torn}]
    PROVE  /\ Listed(d) \in [Ids -> Keys \cup {None}]
           /\ \A id \in Ids : Listed(d)[id] # None => d[id] = Listed(d)[id]
           /\ \A id \in Ids : d[id] = None => Listed(d)[id] = None
BY KeystoreAssumption DEF Listed
----------------------------------------------------------------------------
\* The first state, and every state after a load, satisfies the invariant.
LEMMA InitKeystore == Init => KeystoreInv
<1> SUFFICES ASSUME Init PROVE KeystoreInv
    OBVIOUS
<1> USE KeystoreAssumption DEF Init
<1>1. /\ Listed(disk) \in [Ids -> Keys \cup {None}]
      /\ \A id \in Ids : Listed(disk)[id] # None => disk[id] = Listed(disk)[id]
      /\ \A id \in Ids : disk[id] = None => Listed(disk)[id] = None
    BY ListedSound
<1>2. /\ active_account_id \in Ids \cup {None}
      /\ IF Blank(accounts) THEN active_account_id = None
         ELSE active_account_id # None /\ accounts[active_account_id] # None
    BY <1>1, FirstOfListed
<1>3. TypeOK
    BY <1>1, <1>2 DEF TypeOK, Nothing, AllIdle, IdleTask, TaskRecord
<1>4. UnissuedBlank
    BY <1>1 DEF UnissuedBlank, Nothing, Issued, Ids
<1>5. ListedIsOnDisk /\ RestartKeepsAccounts /\ SignerMatchesEntry
    BY <1>1 DEF ListedIsOnDisk, RestartKeepsAccounts, SignerMatchesEntry, Nothing
<1>6. TasksSound /\ NeverStuckUnlocking
    BY DEF TasksSound, NeverStuckUnlocking, AllIdle, IdleTask
<1>7. ActiveIsListed
    BY <1>2 DEF ActiveIsListed, Blank
<1> QED BY <1>3, <1>4, <1>5, <1>6, <1>7 DEF KeystoreInv

\* Loading a directory establishes the invariant about it.
LEMMA LoadKeystore ==
    ASSUME NEW d \in [Ids -> Keys \cup {None, Torn}], LoadAccountStore(d), disk' = d,
           clock' \in 1..(MaxFiles + 1), \A id \in Ids : id >= clock' => d[id] = None
    PROVE  KeystoreInv'
<1> USE KeystoreAssumption
<1>1. /\ Listed(d) \in [Ids -> Keys \cup {None}]
      /\ \A id \in Ids : Listed(d)[id] # None => d[id] = Listed(d)[id]
      /\ \A id \in Ids : d[id] = None => Listed(d)[id] = None
    BY ListedSound
<1>2. /\ unlocked_signers' = Nothing
      /\ unlock_target_id' = None
      /\ unlocking' = FALSE
      /\ tasks' = AllIdle
      /\ message' \in {"none", "notice", "error"}
    BY DEF LoadAccountStore
<1>3. \/ /\ accounts_dir' = "read"
         /\ accounts' = Listed(d)
         /\ active_account_id' \in FirstOf(Listed(d))
      \/ /\ accounts_dir' \in {"unavailable", "unread"}
         /\ accounts' = Nothing
         /\ active_account_id' = None
    BY DEF LoadAccountStore
<1>4. /\ accounts' \in [Ids -> Keys \cup {None}]
      /\ \A id \in Ids : accounts'[id] # None => d[id] = accounts'[id]
      /\ \A id \in Ids : d[id] = None => accounts'[id] = None
      /\ accounts_dir' \in {"unavailable", "unread", "read"}
      /\ accounts_dir' = "read" => accounts' = Listed(d)
    BY <1>1, <1>3 DEF Nothing
<1>5. /\ active_account_id' \in Ids \cup {None}
      /\ IF Blank(accounts') THEN active_account_id' = None
         ELSE active_account_id' # None /\ accounts'[active_account_id'] # None
    <2>1. CASE accounts' = Nothing /\ active_account_id' = None
        BY <2>1 DEF Nothing, Blank
    <2>2. CASE accounts' = Listed(d) /\ active_account_id' \in FirstOf(Listed(d))
        BY <2>2, <1>1, FirstOfListed
    <2> QED BY <1>3, <2>1, <2>2
<1>6. TypeOK'
    BY <1>2, <1>4, <1>5 DEF TypeOK, Nothing, AllIdle, IdleTask, TaskRecord
<1>7. UnissuedBlank'
    BY <1>2, <1>4 DEF UnissuedBlank, Nothing
<1>8. ListedIsOnDisk' /\ RestartKeepsAccounts' /\ SignerMatchesEntry'
    BY <1>2, <1>4 DEF ListedIsOnDisk, RestartKeepsAccounts, SignerMatchesEntry, Nothing
<1>9. TasksSound' /\ NeverStuckUnlocking'
    BY <1>2 DEF TasksSound, NeverStuckUnlocking, AllIdle, IdleTask
<1>10. ActiveIsListed'
    BY <1>5 DEF ActiveIsListed, Blank
<1> QED BY <1>6, <1>7, <1>8, <1>9, <1>10 DEF KeystoreInv
----------------------------------------------------------------------------
\* Creating an account, in its three outcomes.
LEMMA CreateKeystore ==
    ASSUME KeystoreInv, NEW key \in Keys,
           CreateAccount(key) \/ CreateWriteFails(key) \/ CrashInCreate(key)
    PROVE  KeystoreInv'
<1> USE KeystoreAssumption DEF KeystoreInv
<1>1. clock \in Ids /\ clock \in Nat /\ clock + 1 \in 1..(MaxFiles + 1)
    BY DEF TypeOK, Ids, CreateAccount, CreateWriteFails, CrashInCreate, CanCreate
<1>2. None \notin Ids /\ \A id \in Ids : id \in Nat
    BY DEF Ids
<1>3. CASE CreateAccount(key)
    <2> USE <1>1, <1>2, <1>3 DEF CreateAccount
    <2>1. TypeOK'
        BY DEF TypeOK, dialog
    <2>2. UnissuedBlank'
        BY DEF TypeOK, UnissuedBlank, dialog
    <2>3. ListedIsOnDisk'
        BY DEF TypeOK, ListedIsOnDisk
    <2>4. RestartKeepsAccounts'
        <3>1. accounts_dir = "read" => accounts' = Listed(disk')
            BY DEF TypeOK, RestartKeepsAccounts, Listed
        <3> QED BY <3>1 DEF RestartKeepsAccounts
    <2>5. SignerMatchesEntry'
        BY DEF TypeOK, SignerMatchesEntry, UnissuedBlank
    <2>6. TasksSound'
        <3>1. tasks' = tasks /\ unlock_target_id' = unlock_target_id
            BY DEF dialog
        <3>2. ASSUME NEW t \in Tasks, tasks[t].stage # "idle"
              PROVE  accounts'[tasks[t].id] = accounts[tasks[t].id] /\ tasks[t].id < clock'
            <4>1. tasks[t].id \in Ids /\ tasks[t].id < clock
                BY <3>2 DEF TasksSound
            <4>2. \A i \in Ids : i < clock => i # clock /\ i < clock'
                OBVIOUS
            <4>3. \A i \in Ids : i # clock => accounts'[i] = accounts[i]
                BY DEF TypeOK
            <4> HIDE DEF KeystoreInv, CreateAccount
            <4> QED BY <4>1, <4>2, <4>3
        <3> QED BY <3>1, <3>2 DEF TasksSound
    <2>7. NeverStuckUnlocking'
        BY DEF NeverStuckUnlocking, dialog
    <2>8. ActiveIsListed'
        BY DEF TypeOK, ActiveIsListed
    <2> QED BY <2>1, <2>2, <2>3, <2>4, <2>5, <2>6, <2>7, <2>8
<1>4. CASE CreateWriteFails(key)
    <2> USE <1>1, <1>2, <1>4 DEF CreateWriteFails
    <2>1. TypeOK'
        BY DEF TypeOK, dialog
    <2>2. UnissuedBlank'
        BY DEF TypeOK, UnissuedBlank, dialog
    <2>3. ListedIsOnDisk'
        BY DEF TypeOK, ListedIsOnDisk, UnissuedBlank
    <2>4. RestartKeepsAccounts'
        <3>1. Listed(disk') = Listed(disk)
            BY DEF TypeOK, Listed, UnissuedBlank
        <3> QED BY <3>1 DEF RestartKeepsAccounts
    <2>5. TasksSound'
        <3>1. UNCHANGED <<tasks, unlock_target_id, accounts>>
            BY DEF dialog
        <3>2. ASSUME NEW t \in Tasks, tasks[t].stage # "idle"
              PROVE  tasks[t].id \in Ids /\ tasks[t].id < clock'
            <4>1. tasks[t].id \in Ids /\ tasks[t].id < clock
                BY <3>2 DEF TasksSound
            <4> QED BY <4>1
        <3> QED BY <3>1, <3>2 DEF TasksSound
    <2>6. SignerMatchesEntry' /\ NeverStuckUnlocking' /\ ActiveIsListed'
        BY DEF SignerMatchesEntry, NeverStuckUnlocking, ActiveIsListed, dialog
    <2> QED BY <2>1, <2>2, <2>3, <2>4, <2>5, <2>6
<1>5. CASE CrashInCreate(key)
    <2>1. /\ disk' \in [Ids -> Keys \cup {None, Torn}]
          /\ LoadAccountStore(disk')
          /\ clock' \in 1..(MaxFiles + 1)
        BY <1>1, <1>5 DEF CrashInCreate, TypeOK
    <2>2. \A id \in Ids : id >= clock' => disk'[id] = None
        BY <1>1, <1>2, <1>5 DEF CrashInCreate, TypeOK, UnissuedBlank
    <2>3. \A d : disk' = d /\ d \in [Ids -> Keys \cup {None, Torn}] /\ LoadAccountStore(d)
                 /\ (\A id \in Ids : id >= clock' => d[id] = None) => KeystoreInv'
        BY <2>1, LoadKeystore
    <2> QED BY <2>1, <2>2, <2>3
<1> QED BY <1>3, <1>4, <1>5

\* Restarting: what was on disk before is on disk after.
LEMMA RestartKeystore == ASSUME KeystoreInv, Restart PROVE KeystoreInv'
<1>1. /\ disk \in [Ids -> Keys \cup {None, Torn}]
      /\ clock \in 1..(MaxFiles + 1)
      /\ \A id \in Ids : id >= clock => disk[id] = None
    BY DEF KeystoreInv, TypeOK, UnissuedBlank
<1> QED BY <1>1, LoadKeystore DEF Restart, files
----------------------------------------------------------------------------
\* Deleting an account: the next active account is one that is left.
LEMMA DeleteKeystore ==
    ASSUME KeystoreInv, NEW id \in Ids, DeleteAccount(id)
    PROVE  KeystoreInv'
<1> USE KeystoreAssumption DEF KeystoreInv, DeleteAccount
<1>1. accounts' \in [Ids -> Keys \cup {None}]
    BY DEF TypeOK
<1>2. None \notin Ids
    BY DEF Ids
<1>3. /\ active_account_id' \in Ids \cup {None}
      /\ IF Blank(accounts') THEN active_account_id' = None
         ELSE active_account_id' # None /\ accounts'[active_account_id'] # None
    <2>1. CASE active_account_id = id
        BY <1>1, <2>1, FirstOfListed
    <2>2. CASE active_account_id # id
        BY <1>2, <2>2 DEF TypeOK, ActiveIsListed, Blank
    <2> QED BY <2>1, <2>2
<1>4. TypeOK'
    BY <1>1, <1>3 DEF TypeOK, dialog
<1>5. UnissuedBlank'
    BY DEF TypeOK, UnissuedBlank, dialog
<1>6. ListedIsOnDisk' /\ SignerMatchesEntry'
    BY DEF TypeOK, ListedIsOnDisk, SignerMatchesEntry
<1>7. RestartKeepsAccounts'
    <2>1. accounts_dir = "read" => accounts' = Listed(disk')
        BY DEF TypeOK, RestartKeepsAccounts, Listed
    <2> QED BY <2>1 DEF RestartKeepsAccounts
<1>8. TasksSound'
    <2>1. UNCHANGED <<tasks, unlock_target_id, clock>>
        BY DEF dialog
    <2>2. \A i \in Ids : accounts'[i] # None => accounts'[i] = accounts[i]
        BY DEF TypeOK
    <2> HIDE DEF DeleteAccount
    <2> QED BY <2>1, <2>2 DEF TasksSound
<1>9. NeverStuckUnlocking'
    BY DEF NeverStuckUnlocking, dialog
<1>10. ActiveIsListed'
    BY <1>3 DEF ActiveIsListed, Blank
<1> QED BY <1>4, <1>5, <1>6, <1>7, <1>8, <1>9, <1>10

\* The handlers that leave the files and the list alone.
LEMMA HandlersKeystore ==
    ASSUME KeystoreInv, NEW id \in Ids, id < clock,
           \/ SelectActiveAccount(id) \/ LockAccount(id) \/ RejectDelete(id)
           \/ OpenUnlock(id) \/ CloseUnlock
    PROVE  KeystoreInv'
<1> USE KeystoreAssumption DEF KeystoreInv, files, store, dialog
<1>1. None \notin Ids
    BY DEF Ids
<1>2. CASE SelectActiveAccount(id)
    <2> USE <1>2 DEF SelectActiveAccount
    <2>1. TypeOK' /\ UnissuedBlank' /\ ListedIsOnDisk'
        BY DEF TypeOK, UnissuedBlank, ListedIsOnDisk
    <2>2. RestartKeepsAccounts' /\ SignerMatchesEntry' /\ TasksSound' /\ NeverStuckUnlocking'
        BY DEF RestartKeepsAccounts, SignerMatchesEntry, TasksSound, NeverStuckUnlocking
    <2>3. ActiveIsListed'
        BY <1>1 DEF TypeOK, ActiveIsListed
    <2> QED BY <2>1, <2>2, <2>3
<1>3. CASE LockAccount(id)
    <2> USE <1>3 DEF LockAccount
    <2>1. TypeOK' /\ UnissuedBlank' /\ ListedIsOnDisk'
        BY DEF TypeOK, UnissuedBlank, ListedIsOnDisk
    <2>2. SignerMatchesEntry'
        BY DEF TypeOK, SignerMatchesEntry
    <2>3. RestartKeepsAccounts' /\ TasksSound' /\ NeverStuckUnlocking' /\ ActiveIsListed'
        BY DEF RestartKeepsAccounts, TasksSound, NeverStuckUnlocking, ActiveIsListed
    <2> QED BY <2>1, <2>2, <2>3
<1>4. CASE RejectDelete(id)
    <2> USE <1>4 DEF RejectDelete
    <2>1. TypeOK' /\ UnissuedBlank' /\ ListedIsOnDisk'
        BY DEF TypeOK, UnissuedBlank, ListedIsOnDisk
    <2>2. /\ RestartKeepsAccounts' /\ SignerMatchesEntry' /\ TasksSound'
          /\ NeverStuckUnlocking' /\ ActiveIsListed'
        BY DEF RestartKeepsAccounts, SignerMatchesEntry, TasksSound, NeverStuckUnlocking,
               ActiveIsListed
    <2> QED BY <2>1, <2>2
<1>5. CASE OpenUnlock(id)
    <2> USE <1>5 DEF OpenUnlock
    <2>1. TypeOK' /\ UnissuedBlank' /\ ListedIsOnDisk'
        BY DEF TypeOK, UnissuedBlank, ListedIsOnDisk
    <2>2. TasksSound' /\ NeverStuckUnlocking'
        BY <1>1 DEF TasksSound, NeverStuckUnlocking
    <2>3. RestartKeepsAccounts' /\ SignerMatchesEntry' /\ ActiveIsListed'
        BY DEF RestartKeepsAccounts, SignerMatchesEntry, ActiveIsListed
    <2> QED BY <2>1, <2>2, <2>3
<1>6. CASE CloseUnlock
    <2> USE <1>6 DEF CloseUnlock
    <2>1. TypeOK'
        BY DEF TypeOK, AllIdle, IdleTask, TaskRecord
    <2>2. UnissuedBlank' /\ ListedIsOnDisk'
        BY DEF UnissuedBlank, ListedIsOnDisk
    <2>3. TasksSound' /\ NeverStuckUnlocking'
        BY DEF TasksSound, NeverStuckUnlocking, AllIdle, IdleTask
    <2>4. RestartKeepsAccounts' /\ SignerMatchesEntry' /\ ActiveIsListed'
        BY DEF RestartKeepsAccounts, SignerMatchesEntry, ActiveIsListed
    <2> QED BY <2>1, <2>2, <2>3, <2>4
<1> QED BY <1>2, <1>3, <1>4, <1>5, <1>6
----------------------------------------------------------------------------
\* The life of an unlock task.
LEMMA UnlockKeystore ==
    ASSUME KeystoreInv, NEW t \in Tasks,
           \/ \E right \in BOOLEAN : SubmitUnlock(t, right)
           \/ ReadAndDecrypt(t) \/ FinishUnlock(t) \/ FailUnlock(t)
    PROVE  KeystoreInv'
<1> USE KeystoreAssumption DEF KeystoreInv, files, store
<1>1. None \notin Ids
    BY DEF Ids
<1>2. ASSUME NEW right \in BOOLEAN, SubmitUnlock(t, right) PROVE KeystoreInv'
    <2> USE <1>2 DEF SubmitUnlock
    <2>1. unlock_target_id \in Ids
        BY DEF TypeOK
    <2>2. TypeOK'
        BY <2>1 DEF TypeOK, TaskRecord
    <2>3. UnissuedBlank' /\ ListedIsOnDisk'
        BY DEF UnissuedBlank, ListedIsOnDisk
    <2>4. TasksSound'
        BY <2>1 DEF TypeOK, TasksSound, UnissuedBlank
    <2>5. NeverStuckUnlocking'
        BY DEF TypeOK, NeverStuckUnlocking
    <2>6. RestartKeepsAccounts' /\ SignerMatchesEntry' /\ ActiveIsListed'
        BY DEF RestartKeepsAccounts, SignerMatchesEntry, ActiveIsListed
    <2> QED BY <2>2, <2>3, <2>4, <2>5, <2>6
<1>3. CASE ReadAndDecrypt(t)
    <2> DEFINE held == disk[tasks[t].id]
               signer == IF tasks[t].right /\ held \in Keys THEN held ELSE None
    <2>1. /\ tasks[t].stage = "running"
          /\ tasks' = [tasks EXCEPT ![t] = [@ EXCEPT !.stage = "answered", !.signer = signer]]
          /\ UNCHANGED <<files, store, unlock_target_id, unlocking>>
        BY <1>3 DEF ReadAndDecrypt
    <2>2. signer \in Keys \cup {None}
        OBVIOUS
    <2>3. signer # None => signer = held
        OBVIOUS
    <2>4. TypeOK'
        <3> HIDE DEF signer
        <3>1. tasks[t] \in TaskRecord
            BY DEF TypeOK
        <3>2. [tasks[t] EXCEPT !.stage = "answered", !.signer = signer] \in TaskRecord
            BY <2>2, <3>1 DEF TaskRecord
        <3> QED BY <2>1, <3>2 DEF TypeOK
    <2>5. UnissuedBlank' /\ ListedIsOnDisk'
        BY <2>1 DEF UnissuedBlank, ListedIsOnDisk
    <2>6. TasksSound'
        <3>1. tasks[t].id \in Ids /\ tasks[t].id < clock /\ unlock_target_id # None
            BY <2>1 DEF TasksSound
        <3>2. signer # None /\ accounts[tasks[t].id] # None => signer = accounts[tasks[t].id]
            BY <2>3, <3>1 DEF ListedIsOnDisk
        <3> HIDE DEF signer
        <3>3. ASSUME NEW u \in Tasks, u # t PROVE tasks'[u] = tasks[u]
            BY <2>1, <3>3 DEF TypeOK
        <3>4. tasks'[t].id = tasks[t].id /\ tasks'[t].signer = signer
            BY <2>1 DEF TypeOK, TaskRecord
        <3> QED BY <2>1, <3>1, <3>2, <3>3, <3>4 DEF TasksSound
    <2>7. NeverStuckUnlocking'
        <3> HIDE DEF signer
        <3>1. tasks'[t].stage = "answered"
            BY <2>1 DEF TypeOK, TaskRecord
        <3> QED BY <2>1, <3>1 DEF TasksSound, NeverStuckUnlocking
    <2>8. RestartKeepsAccounts' /\ SignerMatchesEntry' /\ ActiveIsListed'
        BY <2>1 DEF RestartKeepsAccounts, SignerMatchesEntry, ActiveIsListed
    <2> QED BY <2>4, <2>5, <2>6, <2>7, <2>8
<1>4. CASE FinishUnlock(t)
    <2> DEFINE id == tasks[t].id
               key == tasks[t].signer
    <2>1. /\ id \in Ids /\ id < clock
          /\ accounts[id] # None => key = accounts[id]
          /\ key \in Keys
        BY <1>4 DEF FinishUnlock, TasksSound, TypeOK, TaskRecord
    <2>2. /\ unlocked_signers' = [unlocked_signers EXCEPT ![id] = key]
          /\ message' = "notice"
          /\ unlock_target_id' = None
          /\ unlocking' = FALSE
          /\ tasks' = AllIdle
          /\ UNCHANGED <<disk, clock, accounts_dir, accounts, active_account_id>>
        BY <1>4 DEF FinishUnlock
    <2> HIDE DEF id, key
    <2>3. TypeOK'
        BY <2>1, <2>2 DEF TypeOK, AllIdle, IdleTask, TaskRecord
    <2>4. UnissuedBlank' /\ ListedIsOnDisk'
        BY <2>1, <2>2 DEF TypeOK, UnissuedBlank, ListedIsOnDisk, Ids
    <2>5. SignerMatchesEntry'
        BY <2>1, <2>2 DEF TypeOK, SignerMatchesEntry
    <2>6. TasksSound' /\ NeverStuckUnlocking'
        BY <2>2 DEF TasksSound, NeverStuckUnlocking, AllIdle, IdleTask
    <2>7. RestartKeepsAccounts' /\ ActiveIsListed'
        BY <2>2 DEF RestartKeepsAccounts, ActiveIsListed
    <2> QED BY <2>3, <2>4, <2>5, <2>6, <2>7
<1>5. CASE FailUnlock(t)
    <2> USE <1>5 DEF FailUnlock
    <2>1. TypeOK'
        BY DEF TypeOK, IdleTask, TaskRecord
    <2>2. UnissuedBlank' /\ ListedIsOnDisk'
        BY DEF UnissuedBlank, ListedIsOnDisk
    <2>3. TasksSound' /\ NeverStuckUnlocking'
        BY DEF TypeOK, TasksSound, NeverStuckUnlocking, IdleTask
    <2>4. RestartKeepsAccounts' /\ SignerMatchesEntry' /\ ActiveIsListed'
        BY DEF RestartKeepsAccounts, SignerMatchesEntry, ActiveIsListed
    <2> QED BY <2>1, <2>2, <2>3, <2>4
<1> QED BY <1>2, <1>3, <1>4, <1>5
----------------------------------------------------------------------------
\* Every step keeps the invariant.
LEMMA NextKeystore == KeystoreInv /\ [Next]_vars => KeystoreInv'
<1> SUFFICES ASSUME KeystoreInv, [Next]_vars PROVE KeystoreInv'
    OBVIOUS
<1>1. CASE Restart
    BY <1>1, RestartKeystore
<1>2. CASE RejectCreate
    <2> USE <1>2 DEF RejectCreate, KeystoreInv, files, dialog
    <2>1. TypeOK' /\ UnissuedBlank' /\ ListedIsOnDisk' /\ TasksSound'
        BY DEF TypeOK, UnissuedBlank, ListedIsOnDisk, TasksSound
    <2>2. /\ RestartKeepsAccounts' /\ SignerMatchesEntry'
          /\ NeverStuckUnlocking' /\ ActiveIsListed'
        BY DEF RestartKeepsAccounts, SignerMatchesEntry, NeverStuckUnlocking, ActiveIsListed
    <2> QED BY <2>1, <2>2
<1>3. ASSUME NEW key \in Keys, CreateAccount(key) \/ CreateWriteFails(key) \/ CrashInCreate(key)
      PROVE  KeystoreInv'
    BY <1>3, CreateKeystore
<1>4. ASSUME NEW id \in Issued,
             \/ SelectActiveAccount(id) \/ LockAccount(id)
             \/ RejectDelete(id) \/ OpenUnlock(id)
      PROVE  KeystoreInv'
    BY <1>4, HandlersKeystore DEF Issued
<1>5. ASSUME NEW id \in Issued, DeleteAccount(id) PROVE KeystoreInv'
    BY <1>5, DeleteKeystore DEF Issued
<1>6. CASE CloseUnlock
    <2>1. unlock_target_id \in Ids /\ unlock_target_id < clock
        BY <1>6 DEF CloseUnlock, KeystoreInv, TypeOK, UnissuedBlank
    <2> QED BY <1>6, <2>1, HandlersKeystore
<1>7. ASSUME NEW t \in Tasks,
             \/ \E right \in BOOLEAN : SubmitUnlock(t, right)
             \/ ReadAndDecrypt(t) \/ FinishUnlock(t) \/ FailUnlock(t)
      PROVE  KeystoreInv'
    BY <1>7, UnlockKeystore
<1>8. CASE UNCHANGED vars
    <2> USE <1>8 DEF vars, files, store, dialog, KeystoreInv
    <2>1. TypeOK' /\ UnissuedBlank' /\ ListedIsOnDisk' /\ TasksSound'
        BY DEF TypeOK, UnissuedBlank, ListedIsOnDisk, TasksSound
    <2>2. /\ RestartKeepsAccounts' /\ SignerMatchesEntry'
          /\ NeverStuckUnlocking' /\ ActiveIsListed'
        BY DEF RestartKeepsAccounts, SignerMatchesEntry, NeverStuckUnlocking, ActiveIsListed
    <2> QED BY <2>1, <2>2
<1> QED BY <1>1, <1>2, <1>3, <1>4, <1>5, <1>6, <1>7, <1>8 DEF Next

\* So it always holds.
LEMMA KeystoreAlways == Spec => []KeystoreInv
BY InitKeystore, NextKeystore, PTL DEF Spec

\* Every variable keeps its type, for any number of files, keys and tasks.
THEOREM TypeCorrect == Spec => []TypeOK
<1>1. KeystoreInv => TypeOK
    BY DEF KeystoreInv
<1> QED BY <1>1, KeystoreAlways, PTL

\* A listed account's signer signs for that account: an unlock that finishes
\* after selections, deletions and restarts never puts another key under it.
THEOREM SignersAreSound == Spec => []SignerMatchesEntry
<1>1. KeystoreInv => SignerMatchesEntry
    BY DEF KeystoreInv
<1> QED BY <1>1, KeystoreAlways, PTL

\* The list in memory is the list a restart would load, whatever write or
\* remove failed and wherever the process crashed.
THEOREM ListMatchesDisk == Spec => []RestartKeepsAccounts
<1>1. KeystoreInv => RestartKeepsAccounts
    BY DEF KeystoreInv
<1> QED BY <1>1, KeystoreAlways, PTL

\* The active account is a listed one, and there is one whenever there can be.
THEOREM ActiveAccountExists == Spec => []ActiveIsListed
<1>1. KeystoreInv => ActiveIsListed
    BY DEF KeystoreInv
<1> QED BY <1>1, KeystoreAlways, PTL

\* The dialog never shows a disabled button that no task will enable again.
THEOREM DialogNotStuck == Spec => []NeverStuckUnlocking
<1>1. KeystoreInv => NeverStuckUnlocking
    BY DEF KeystoreInv
<1> QED BY <1>1, KeystoreAlways, PTL

\* No step unlocks an account while no dialog is open: closing the dialog
\* cancels what it started.
THEOREM CancelIsFinal == Spec => NoUnlockAfterCancel
<1> DEFINE Quiet == \A id \in Ids : unlocked_signers[id] = None /\ unlocked_signers'[id] # None
                                    => unlock_target_id # None
<1>1. KeystoreInv /\ [Next]_vars => [Quiet]_vars
    <2> SUFFICES ASSUME KeystoreInv, Next PROVE Quiet
        OBVIOUS
    <2>1. CASE \E t \in Tasks : FinishUnlock(t)
        BY <2>1 DEF FinishUnlock, KeystoreInv, TasksSound
    <2>2. CASE ~ \E t \in Tasks : FinishUnlock(t)
        <3>1. unlocked_signers' = Nothing \/ UNCHANGED unlocked_signers
              \/ \E id \in Ids : unlocked_signers' = [unlocked_signers EXCEPT ![id] = None]
            BY <2>2 DEF Next, Restart, LoadAccountStore, RejectCreate, CreateAccount,
                        CreateWriteFails, CrashInCreate, SelectActiveAccount, LockAccount,
                        DeleteAccount, RejectDelete, OpenUnlock, CloseUnlock, SubmitUnlock,
                        ReadAndDecrypt, FailUnlock, store, Issued
        <3> QED BY <3>1 DEF KeystoreInv, TypeOK, Nothing
    <2> QED BY <2>1, <2>2
<1> QED BY <1>1, KeystoreAlways, PTL DEF Spec, NoUnlockAfterCancel
----------------------------------------------------------------------------
(* The store implements Keystore, action by action.                        *)

\* The first entry of a list is one that Keystore allows.
LEMMA FirstIsSuccessor ==
    ASSUME NEW acc \in [Ids -> Keys \cup {None}], NEW first \in FirstOf(acc)
    PROVE  first \in Promise!Successors(acc)
<1>1. /\ first \in Ids \cup {None}
      /\ IF Blank(acc) THEN first = None ELSE first # None /\ acc[first] # None
    BY FirstOfListed
<1>2. Blank(acc) <=> acc = Promise!Nobody
    BY DEF Blank, Promise!Nobody
<1> QED BY <1>1, <1>2 DEF Promise!Successors

\* With no signers in the store no account is usable.
LEMMA NoSignersNoneUsable ==
    ASSUME accounts \in [Ids -> Keys \cup {None}], unlocked_signers = Nothing
    PROVE  Usable = Promise!Nobody
BY DEF Usable, Nothing, Promise!Nobody

\* Loading a directory is a start from the keys it lists.
LEMMA LoadIsStart ==
    ASSUME NEW d \in [Ids -> Keys \cup {None, Torn}], LoadAccountStore(d)
    PROVE  Promise!Start(Listed(d))
<1>1. Listed(d) \in [Ids -> Keys \cup {None}]
    BY ListedSound
<1>2. Nothing = Promise!Nobody
    BY DEF Nothing, Promise!Nobody
<1>3. Usable' = Promise!Nobody
    BY DEF LoadAccountStore, Usable, Nothing, Promise!Nobody
<1>4. accounts' \in {Listed(d), Promise!Nobody} /\ active_account_id' \in Promise!Successors(accounts')
    <2>1. CASE accounts' = Listed(d) /\ active_account_id' \in FirstOf(Listed(d))
        BY <1>1, <2>1, FirstIsSuccessor
    <2>2. CASE accounts' = Nothing /\ active_account_id' = None
        BY <1>2, <2>2 DEF Promise!Successors
    <2> QED BY <2>1, <2>2 DEF LoadAccountStore
<1> QED BY <1>3, <1>4 DEF Promise!Start

\* The program starts with what the directory lists.
LEMMA InitIsPromised == Init => Promise!Init
<1> SUFFICES ASSUME Init PROVE Promise!Init
    OBVIOUS
<1>1. Listed(disk) \in [Ids -> Keys \cup {None}] /\ accounts = Listed(disk)
    BY ListedSound DEF Init
<1>2. active_account_id \in Promise!Successors(accounts)
    BY <1>1, FirstIsSuccessor DEF Init
<1>3. Usable = Promise!Nobody
    BY <1>1, NoSignersNoneUsable DEF Init
<1> QED BY <1>1, <1>2, <1>3 DEF Promise!Init

\* A restart finds the keys kept.
LEMMA RestartIsPromised ==
    ASSUME KeystoreInv, Restart
    PROVE  Promise!Next
<1>1. disk \in [Ids -> Keys \cup {None, Torn}] /\ disk' = disk
    BY DEF KeystoreInv, TypeOK, Restart, files
<1>2. Promise!Start(Listed(disk)) /\ Listed(disk') = Listed(disk)
    BY <1>1, LoadIsStart DEF Restart
<1> QED BY <1>2 DEF Promise!Restart, Promise!Next

\* A write to the file of the next stamp keeps every other key.
LEMMA WriteKeeps ==
    ASSUME KeystoreInv, clock \in Ids, NEW held \in Keys \cup {Torn}
    PROVE  /\ [disk EXCEPT ![clock] = held] \in [Ids -> Keys \cup {None, Torn}]
           /\ Listed(disk)[clock] = None
           /\ held \in Keys => Listed([disk EXCEPT ![clock] = held])
                                = [Listed(disk) EXCEPT ![clock] = held]
           /\ held = Torn => Listed([disk EXCEPT ![clock] = held]) = Listed(disk)
<1>1. disk \in [Ids -> Keys \cup {None, Torn}] /\ disk[clock] = None
    BY KeystoreAssumption DEF KeystoreInv, TypeOK, UnissuedBlank, Ids
<1> QED BY <1>1, KeystoreAssumption DEF Listed

\* Creating an account adds one, adds one that is not seen before the next start,
\* or changes nothing.
LEMMA CreateIsPromised ==
    ASSUME KeystoreInv, NEW key \in Keys,
           CreateAccount(key) \/ CreateWriteFails(key) \/ CrashInCreate(key)
    PROVE  Promise!Next \/ UNCHANGED Promise!keystore
<1>1. clock \in Ids /\ (\A id \in Ids : accounts[id] # key)
    BY DEF CreateAccount, CreateWriteFails, CrashInCreate, CanCreate
<1>2. /\ [disk EXCEPT ![clock] = key] \in [Ids -> Keys \cup {None, Torn}]
      /\ [disk EXCEPT ![clock] = Torn] \in [Ids -> Keys \cup {None, Torn}]
      /\ Listed(disk)[clock] = None
      /\ Listed([disk EXCEPT ![clock] = key]) = [Listed(disk) EXCEPT ![clock] = key]
      /\ Listed([disk EXCEPT ![clock] = Torn]) = Listed(disk)
    BY <1>1, WriteKeeps
<1>3. CASE CreateAccount(key)
    <2>1. Listed(disk') = [Listed(disk) EXCEPT ![clock] = key]
        BY <1>2, <1>3 DEF CreateAccount
    <2>2. accounts[clock] = None /\ unlocked_signers[clock] = None
        BY <1>1 DEF KeystoreInv, UnissuedBlank, Ids
    <2>3. Usable' = Usable
        BY <1>1, <1>3, <2>2 DEF Usable, CreateAccount, KeystoreInv, TypeOK
    <2>4. Promise!Add(clock, key)
        BY <1>1, <1>2, <1>3, <2>1, <2>3 DEF CreateAccount, Promise!Add
    <2> QED BY <1>1, <2>4 DEF Promise!Next
<1>4. CASE CreateWriteFails(key)
    <2>1. Listed(disk') = Listed(disk)
        BY <1>2, <1>4 DEF CreateWriteFails
    <2> QED BY <1>4, <2>1 DEF CreateWriteFails, Usable, Promise!keystore
<1>5. CASE CrashInCreate(key)
    <2>1. CASE disk' = [disk EXCEPT ![clock] = key]
        <3>1. Promise!Start(Listed([disk EXCEPT ![clock] = key]))
            BY <1>2, <1>5, <2>1, LoadIsStart DEF CrashInCreate
        <3>2. Promise!AddUnseen(clock, key)
            BY <1>2, <2>1, <3>1 DEF Promise!AddUnseen
        <3> QED BY <1>1, <3>2 DEF Promise!Next
    <2>2. CASE disk' = [disk EXCEPT ![clock] = Torn]
        <3>1. Promise!Start(Listed(disk)) /\ Listed(disk') = Listed(disk)
            BY <1>2, <1>5, <2>2, LoadIsStart DEF CrashInCreate
        <3> QED BY <3>1 DEF Promise!Restart, Promise!Next
    <2> QED BY <1>5, <2>1, <2>2 DEF CrashInCreate
<1> QED BY <1>3, <1>4, <1>5

\* Deleting an account takes its key, and no other.
LEMMA DeleteIsPromised ==
    ASSUME KeystoreInv, NEW id \in Ids, DeleteAccount(id)
    PROVE  Promise!Next
<1>1. /\ disk \in [Ids -> Keys \cup {None, Torn}]
      /\ accounts' \in [Ids -> Keys \cup {None}]
    BY DEF KeystoreInv, TypeOK, DeleteAccount
<1>2. Listed(disk') = [Listed(disk) EXCEPT ![id] = None]
    BY <1>1, KeystoreAssumption DEF DeleteAccount, Listed
<1>3. Usable' = [Usable EXCEPT ![id] = None]
    BY DEF DeleteAccount, Usable, KeystoreInv, TypeOK
<1>4. active_account_id' \in IF active_account_id = id THEN Promise!Successors(accounts')
                             ELSE {active_account_id}
    BY <1>1, FirstIsSuccessor DEF DeleteAccount
<1>5. Promise!Remove(id)
    BY <1>2, <1>3, <1>4 DEF DeleteAccount, Promise!Remove
<1> QED BY <1>5 DEF Promise!Next

\* Selecting and locking, and a deletion that is rejected.
LEMMA HandlersArePromised ==
    ASSUME KeystoreInv, NEW id \in Ids,
           SelectActiveAccount(id) \/ LockAccount(id) \/ RejectDelete(id)
    PROVE  Promise!Next \/ UNCHANGED Promise!keystore
<1>1. CASE SelectActiveAccount(id)
    <2>1. UNCHANGED <<Listed(disk), accounts, Usable>>
        BY <1>1 DEF SelectActiveAccount, files, Usable
    <2>2. CASE accounts[id] = None
        BY <1>1, <2>1, <2>2 DEF SelectActiveAccount, Promise!keystore
    <2>3. CASE accounts[id] # None
        BY <1>1, <2>1, <2>3 DEF SelectActiveAccount, Promise!Select, Promise!Next
    <2> QED BY <2>2, <2>3
<1>2. CASE LockAccount(id)
    <2>1. UNCHANGED <<Listed(disk), accounts, active_account_id>>
        BY <1>2 DEF LockAccount, files
    <2>2. Usable' = [Usable EXCEPT ![id] = None]
        BY <1>2 DEF LockAccount, Usable, KeystoreInv, TypeOK
    <2> QED BY <2>1, <2>2 DEF Promise!Lock, Promise!Next
<1>3. CASE RejectDelete(id)
    BY <1>3 DEF RejectDelete, files, Usable, Promise!keystore
<1> QED BY <1>1, <1>2, <1>3

\* An answer unlocks the account it was asked for, or nothing that is on offer.
LEMMA FinishIsPromised ==
    ASSUME KeystoreInv, NEW t \in Tasks, FinishUnlock(t)
    PROVE  Promise!Next \/ UNCHANGED Promise!keystore
<1> DEFINE id == tasks[t].id
           key == tasks[t].signer
<1>1. id \in Ids /\ (accounts[id] # None => key = accounts[id])
    BY DEF FinishUnlock, KeystoreInv, TasksSound, TypeOK, TaskRecord
<1>2. /\ unlocked_signers' = [unlocked_signers EXCEPT ![id] = key]
      /\ UNCHANGED <<disk, accounts, active_account_id>>
    BY DEF FinishUnlock, files
<1> HIDE DEF id, key
<1>3. UNCHANGED <<Listed(disk), accounts, active_account_id>>
    BY <1>2
<1>4. CASE accounts[id] = None
    <2>1. Usable' = Usable
        BY <1>1, <1>2, <1>4 DEF Usable, KeystoreInv, TypeOK
    <2> QED BY <1>3, <2>1 DEF Promise!keystore
<1>5. CASE accounts[id] # None
    <2>1. Usable' = [Usable EXCEPT ![id] = accounts[id]]
        BY <1>1, <1>2, <1>5 DEF Usable, KeystoreInv, TypeOK
    <2>2. Promise!Unlock(id)
        BY <1>3, <1>5, <2>1 DEF Promise!Unlock
    <2> QED BY <1>1, <2>2 DEF Promise!Next
<1> QED BY <1>4, <1>5

\* The dialog by itself changes nothing of what is promised.
LEMMA DialogStutters ==
    ASSUME \/ (\E id \in Ids : OpenUnlock(id)) \/ CloseUnlock \/ UNCHANGED vars
           \/ \E t \in Tasks : \/ \E right \in BOOLEAN : SubmitUnlock(t, right)
                              \/ ReadAndDecrypt(t) \/ FailUnlock(t)
    PROVE  UNCHANGED Promise!keystore
<1>1. UNCHANGED <<disk, accounts, active_account_id, unlocked_signers>>
    BY DEF OpenUnlock, CloseUnlock, SubmitUnlock, ReadAndDecrypt, FailUnlock, vars, files, store
<1> QED BY <1>1 DEF Promise!keystore, Usable

\* Files, store and dialog keep the promises of Keystore: every step is one of its
\* actions or a stutter, whichever write fails, wherever the process dies and
\* however late an unlock task answers.
THEOREM StoreImplementsKeystore == Spec => ImplementsKeystore
<1>1. KeystoreInv /\ [Next]_vars => [Promise!Next]_(Promise!keystore)
    <2> SUFFICES ASSUME KeystoreInv, [Next]_vars
                 PROVE  Promise!Next \/ UNCHANGED Promise!keystore
        OBVIOUS
    <2>1. Issued \subseteq Ids
        BY DEF Issued
    <2>2. CASE RejectCreate
        BY <2>2 DEF RejectCreate, files, Usable, Promise!keystore
    <2>3. ASSUME NEW id \in Issued,
                 \/ SelectActiveAccount(id) \/ LockAccount(id)
                 \/ DeleteAccount(id) \/ RejectDelete(id) \/ OpenUnlock(id)
          PROVE  Promise!Next \/ UNCHANGED Promise!keystore
        BY <2>1, <2>3, HandlersArePromised, DeleteIsPromised, DialogStutters
    <2>4. ASSUME NEW t \in Tasks,
                 \/ \E right \in BOOLEAN : SubmitUnlock(t, right)
                 \/ ReadAndDecrypt(t) \/ FinishUnlock(t) \/ FailUnlock(t)
          PROVE  Promise!Next \/ UNCHANGED Promise!keystore
        BY <2>4, FinishIsPromised, DialogStutters
    <2> QED BY <2>2, <2>3, <2>4, RestartIsPromised, CreateIsPromised, DialogStutters DEF Next
<1> QED BY InitIsPromised, KeystoreAlways, <1>1, PTL
        DEF Spec, ImplementsKeystore, Promise!Spec
----------------------------------------------------------------------------
\* A file, readable or torn, stays as it was written until the account it lists is
\* deleted, and its name is not used again: a stale click on an account that is gone
\* never meets another one.
FilesArePermanent ==
    [][\A id \in Issued :
        \/ disk'[id] = disk[id]
        \/ accounts[id] # None /\ accounts'[id] = None /\ disk'[id] = None]_vars

\* No step overwrites a file, tears one that was written, or takes its name.
THEOREM FilesStay == Spec => FilesArePermanent
<1>1. ASSUME KeystoreInv, Next, NEW id \in Issued
      PROVE  \/ disk'[id] = disk[id]
             \/ accounts[id] # None /\ accounts'[id] = None /\ disk'[id] = None
    <2>1. id \in Ids /\ id < clock /\ clock \in Nat
        BY <1>1, KeystoreAssumption DEF Issued, KeystoreInv, TypeOK
    <2>2. \/ disk' = disk
          \/ \E held : disk' = [disk EXCEPT ![clock] = held]
          \/ \E other \in Issued : DeleteAccount(other)
        BY <1>1 DEF Next, Restart, RejectCreate, CreateAccount, CreateWriteFails, CrashInCreate,
                    SelectActiveAccount, LockAccount, RejectDelete, OpenUnlock, CloseUnlock,
                    SubmitUnlock, ReadAndDecrypt, FinishUnlock, FailUnlock, files
    <2>3. ASSUME NEW other \in Issued, DeleteAccount(other)
          PROVE  \/ disk'[id] = disk[id]
                 \/ accounts[id] # None /\ accounts'[id] = None /\ disk'[id] = None
        BY <1>1, <2>1, <2>3 DEF DeleteAccount, KeystoreInv, TypeOK
    <2>4. ASSUME NEW held, disk' = [disk EXCEPT ![clock] = held] PROVE disk'[id] = disk[id]
        BY <1>1, <2>1, <2>4 DEF KeystoreInv, TypeOK
    <2> QED BY <2>2, <2>3, <2>4
<1>2. KeystoreInv /\ [Next]_vars =>
        [\A id \in Issued :
            \/ disk'[id] = disk[id]
            \/ accounts[id] # None /\ accounts'[id] = None /\ disk'[id] = None]_vars
    BY <1>1
<1> QED BY <1>2, KeystoreAlways, PTL DEF Spec, FilesArePermanent
=============================================================================
