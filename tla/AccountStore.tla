---------------------------- MODULE AccountStore ----------------------------
(***************************************************************************)
(* The local keystore (src/src/accounts.rs) together with the tasks that   *)
(* the unlock dialog of the sidebar spawns on it (src/src/views/navbar.rs) *)
(* and the directory of keystore files it persists to.                     *)
(*                                                                         *)
(* An account file is named "<slug>-<milliseconds>.json" and that name is  *)
(* the account's id, so an id is a creation stamp here.  What a file holds *)
(* is a key: a number that stands for the account's (name, address) pair   *)
(* in the order sort_accounts gives it.  Handlers take any id issued so    *)
(* far and not only the listed ones: a click rendered before a state       *)
(* change may arrive after it.                                             *)
(***************************************************************************)
EXTENDS Naturals

CONSTANTS
    MaxFiles,   \* bound: how many keystore files are ever written
    Keys,       \* the (name, address) pairs, as ranks in the sort order
    Tasks,      \* identities of unlock tasks that may run at one time
    None,       \* Rust's Option::None, and "nothing under this name"
    Torn        \* a file that load_accounts_from_directory skips

ASSUME KeystoreAssumption ==
    /\ MaxFiles \in Nat
    /\ Keys \subseteq Nat
    /\ None \notin Keys \cup Nat
    /\ Torn \notin Keys \cup {None}

Ids == 1..MaxFiles

VARIABLES
    disk,               \* the accounts directory: what each file holds
    clock,              \* the stamp the next file gets
    accounts_dir,       \* was the directory found, and was it listed at start?
    accounts,           \* AccountStore.accounts, by id
    active_account_id,
    unlocked_signers,   \* AccountStore.unlocked_signers: the key each signer signs with
    message,            \* which of notice_message / error_message is set
    unlock_target_id,   \* the account the open unlock dialog is about
    unlocking,          \* the dialog's "Unlocking..." flag
    tasks               \* the dialog's unlock tasks

store == <<accounts_dir, accounts, active_account_id, unlocked_signers, message>>
files == <<disk, clock>>
dialog == <<unlock_target_id, unlocking, tasks>>
vars == <<files, store, dialog>>

Issued == {id \in Ids : id < clock}
Nothing == [id \in Ids |-> None]

IdleTask == [stage |-> "idle", id |-> None, right |-> FALSE, signer |-> None]
TaskRecord == [stage : {"idle", "running", "answered"}, id : Ids \cup {None},
               right : BOOLEAN, signer : Keys \cup {None}]
AllIdle == [t \in Tasks |-> IdleTask]
----------------------------------------------------------------------------
(* Loading the store, at start and after a restart.                        *)

\* Mutant of Listed: an unreadable file is listed with default fields.
ListedWithTorn(d) == [id \in Ids |-> IF d[id] = Torn THEN 0 ELSE d[id]]

\* What load_accounts_from_directory makes of a directory.
Listed(d) == [id \in Ids |-> IF d[id] \in Keys THEN d[id] ELSE None]

\* The ids that accounts.first() may return once the list is sorted; two files
\* with the same name and address keep the order the directory gave them.
FirstOf(acc) ==
    LET firsts == {id \in Ids : /\ acc[id] # None
                                /\ \A other \in Ids : acc[other] = None \/ acc[id] <= acc[other]}
    IN  IF firsts = {} THEN {None} ELSE firsts

LoadAccountStore(d) ==
    /\ unlocked_signers' = Nothing
    /\ unlock_target_id' = None
    /\ unlocking' = FALSE
    /\ tasks' = AllIdle
    /\ \/ /\ accounts_dir' = "read"
          /\ accounts' = Listed(d)
          /\ active_account_id' \in FirstOf(Listed(d))
          /\ message' = IF \E id \in Ids : d[id] = Torn THEN "notice" ELSE "none"
       \/ \* no home directory, or the directory can be neither created nor listed
          /\ accounts_dir' \in {"unavailable", "unread"}
          /\ accounts' = Nothing
          /\ active_account_id' = None
          /\ message' \in IF accounts_dir' = "unread" THEN {"error", "none"} ELSE {"error"}

Restart == LoadAccountStore(disk) /\ UNCHANGED files
----------------------------------------------------------------------------
(* Handlers of the sidebar and of the account pages.                       *)

SelectActiveAccount(id) ==
    /\ IF accounts[id] = None
       THEN message' = "error" /\ UNCHANGED active_account_id
       ELSE message' = "notice" /\ active_account_id' = id
    /\ UNCHANGED <<files, dialog, accounts_dir, accounts, unlocked_signers>>

\* An empty name or password, or no directory to write to.
RejectCreate ==
    /\ message' = "error"
    /\ UNCHANGED <<files, dialog, accounts_dir, accounts, active_account_id, unlocked_signers>>

CanCreate(key) ==
    /\ accounts_dir # "unavailable"
    /\ \A id \in Ids : accounts[id] # key
    /\ clock \in Ids

\* Mutant of CreateAccount: a file name without the time may be another account's.
CreateAccountByName(key) ==
    \E id \in Ids :
        /\ CanCreate(key)
        /\ id <= clock
        /\ disk' = [disk EXCEPT ![id] = key]
        /\ clock' = clock + 1
        /\ accounts' = [accounts EXCEPT ![id] = key]
        /\ active_account_id' = id
        /\ message' = "notice"
        /\ UNCHANGED <<dialog, accounts_dir, unlocked_signers>>

CreateAccount(key) ==
    /\ CanCreate(key)
    /\ disk' = [disk EXCEPT ![clock] = key]
    /\ clock' = clock + 1
    /\ accounts' = [accounts EXCEPT ![clock] = key]
    /\ active_account_id' = clock
    /\ message' = "notice"
    /\ UNCHANGED <<dialog, accounts_dir, unlocked_signers>>

\* fs::write fails, before or after it created the file.
CreateWriteFails(key) ==
    /\ CanCreate(key)
    /\ disk' \in {disk, [disk EXCEPT ![clock] = Torn]}
    /\ clock' = clock + 1
    /\ message' = "error"
    /\ UNCHANGED <<dialog, accounts_dir, accounts, active_account_id, unlocked_signers>>

\* The process dies inside create_account and is started again.
CrashInCreate(key) ==
    /\ CanCreate(key)
    /\ disk' \in {[disk EXCEPT ![clock] = key], [disk EXCEPT ![clock] = Torn]}
    /\ clock' = clock + 1
    /\ LoadAccountStore(disk')

LockAccount(id) ==
    /\ unlocked_signers' = [unlocked_signers EXCEPT ![id] = None]
    /\ message' = IF accounts[id] = None THEN message ELSE "notice"
    /\ UNCHANGED <<files, dialog, accounts_dir, accounts, active_account_id>>

\* Mutant of DeleteAccount: no other account is made active.
DeleteAccountKeepingActive(id) ==
    /\ accounts[id] # None
    /\ disk' = [disk EXCEPT ![id] = None]
    /\ accounts' = [accounts EXCEPT ![id] = None]
    /\ unlocked_signers' = [unlocked_signers EXCEPT ![id] = None]
    /\ message' = "notice"
    /\ UNCHANGED <<clock, dialog, accounts_dir, active_account_id>>

DeleteAccount(id) ==
    /\ accounts[id] # None
    /\ disk' = [disk EXCEPT ![id] = None]
    /\ accounts' = [accounts EXCEPT ![id] = None]
    /\ unlocked_signers' = [unlocked_signers EXCEPT ![id] = None]
    /\ IF active_account_id = id
       THEN active_account_id' \in FirstOf(accounts')
       ELSE UNCHANGED active_account_id
    /\ message' = "notice"
    /\ UNCHANGED <<clock, dialog, accounts_dir>>

\* Mutant of RejectDelete: the entry goes although its file could not.
RejectDeleteDropsEntry(id) ==
    /\ message' = "error"
    /\ accounts' = [accounts EXCEPT ![id] = None]
    /\ active_account_id' \in FirstOf(accounts')
    /\ UNCHANGED <<files, dialog, accounts_dir, unlocked_signers>>

\* The account is gone already, or fs::remove_file fails.
RejectDelete(id) ==
    /\ message' = "error"
    /\ UNCHANGED <<files, dialog, accounts_dir, accounts, active_account_id, unlocked_signers>>
----------------------------------------------------------------------------
(* The unlock dialog.  Its tasks are scoped to it: they die when it        *)
(* closes.  Opening it for another account while it is open reuses it.     *)

OpenUnlock(id) ==
    /\ unlocked_signers[id] = None
    /\ unlock_target_id' = id
    /\ UNCHANGED <<files, store, unlocking, tasks>>

\* Mutant of CloseUnlock: the tasks outlive the dialog.
CloseUnlockDetached ==
    /\ unlock_target_id # None
    /\ unlock_target_id' = None
    /\ unlocking' = FALSE
    /\ UNCHANGED <<files, store, tasks>>

CloseUnlock ==
    /\ unlock_target_id # None
    /\ unlock_target_id' = None
    /\ unlocking' = FALSE
    /\ tasks' = AllIdle
    /\ UNCHANGED <<files, store>>

\* Submitting a password by the button or by Enter spawns the same task.  The
\* button is disabled while unlocking, Enter is not: together they have no
\* such guard, and several tasks may run at one time.
SubmitUnlock(t, right) ==
    /\ unlock_target_id # None
    /\ accounts[unlock_target_id] # None
    /\ tasks[t].stage = "idle"
    /\ tasks' = [tasks EXCEPT ![t] = [stage |-> "running", id |-> unlock_target_id,
                                      right |-> right, signer |-> None]]
    /\ unlocking' = TRUE
    /\ UNCHANGED <<files, store, unlock_target_id>>

\* unlock_account_blocking on its own thread: read the file, decrypt it.
ReadAndDecrypt(t) ==
    /\ tasks[t].stage = "running"
    /\ LET held == disk[tasks[t].id]
           signer == IF tasks[t].right /\ held \in Keys THEN held ELSE None
       IN  tasks' = [tasks EXCEPT ![t] = [@ EXCEPT !.stage = "answered", !.signer = signer]]
    /\ UNCHANGED <<files, store, unlock_target_id, unlocking>>

\* Mutant of FinishUnlock: the signer goes to the account active by now.
FinishUnlockOfActive(t) ==
    /\ tasks[t].stage = "answered"
    /\ tasks[t].signer # None
    /\ active_account_id # None
    /\ unlocked_signers' = [unlocked_signers EXCEPT ![active_account_id] = tasks[t].signer]
    /\ message' = "notice"
    /\ unlock_target_id' = None
    /\ unlocking' = FALSE
    /\ tasks' = AllIdle
    /\ UNCHANGED <<files, accounts_dir, accounts, active_account_id>>

\* apply_unlock_result with a signer; on_close then takes the dialog away.
FinishUnlock(t) ==
    /\ tasks[t].stage = "answered"
    /\ tasks[t].signer # None
    /\ unlocked_signers' = [unlocked_signers EXCEPT ![tasks[t].id] = tasks[t].signer]
    /\ message' = "notice"
    /\ unlock_target_id' = None
    /\ unlocking' = FALSE
    /\ tasks' = AllIdle
    /\ UNCHANGED <<files, accounts_dir, accounts, active_account_id>>

\* Mutant of FailUnlock: the error path forgets unlocking.set(false).
FailUnlockKeepingFlag(t) ==
    /\ tasks[t].stage = "answered"
    /\ tasks[t].signer = None
    /\ message' = "error"
    /\ tasks' = [tasks EXCEPT ![t] = IdleTask]
    /\ UNCHANGED <<files, accounts_dir, accounts, active_account_id, unlocked_signers,
                   unlock_target_id, unlocking>>

\* Mutant of FailUnlock: an answer for another account than the one shown is
\* left unhandled.
FailUnlockOfShown(t) ==
    /\ tasks[t].id = unlock_target_id
    /\ tasks[t].stage = "answered"
    /\ tasks[t].signer = None
    /\ message' = "error"
    /\ unlocking' = FALSE
    /\ tasks' = [tasks EXCEPT ![t] = IdleTask]
    /\ UNCHANGED <<files, accounts_dir, accounts, active_account_id, unlocked_signers,
                   unlock_target_id>>

\* apply_unlock_result with an error; the dialog stays for another try.
FailUnlock(t) ==
    /\ tasks[t].stage = "answered"
    /\ tasks[t].signer = None
    /\ message' = "error"
    /\ unlocking' = FALSE
    /\ tasks' = [tasks EXCEPT ![t] = IdleTask]
    /\ UNCHANGED <<files, accounts_dir, accounts, active_account_id, unlocked_signers,
                   unlock_target_id>>
----------------------------------------------------------------------------
\* The program starts on whatever earlier sessions left in the directory.
Init ==
    /\ clock \in 1..(MaxFiles + 1)
    /\ disk \in [Ids -> Keys \cup {None, Torn}]
    /\ \A id \in Ids \ Issued : disk[id] = None
    /\ accounts_dir = "read"
    /\ accounts = Listed(disk)
    /\ active_account_id \in FirstOf(accounts)
    /\ unlocked_signers = Nothing
    /\ message = IF \E id \in Ids : disk[id] = Torn THEN "notice" ELSE "none"
    /\ unlock_target_id = None
    /\ unlocking = FALSE
    /\ tasks = AllIdle

Next ==
    \/ Restart
    \/ RejectCreate
    \/ \E key \in Keys : CreateAccount(key) \/ CreateWriteFails(key) \/ CrashInCreate(key)
    \/ \E id \in Issued : \/ SelectActiveAccount(id) \/ LockAccount(id)
                          \/ DeleteAccount(id) \/ RejectDelete(id) \/ OpenUnlock(id)
    \/ CloseUnlock
    \/ \E t \in Tasks : \/ \E right \in BOOLEAN : SubmitUnlock(t, right)
                        \/ ReadAndDecrypt(t) \/ FinishUnlock(t) \/ FailUnlock(t)

Spec == Init /\ [][Next]_vars

\* The thread pool runs every job, and the executor polls every woken task.
Fairness ==
    \A t \in Tasks : /\ WF_vars(ReadAndDecrypt(t))
                     /\ WF_vars(FinishUnlock(t) \/ FailUnlock(t))

FairSpec == Spec /\ Fairness
----------------------------------------------------------------------------
(* Properties.                                                             *)

TypeOK ==
    /\ disk \in [Ids -> Keys \cup {None, Torn}]
    /\ clock \in 1..(MaxFiles + 1)
    /\ accounts_dir \in {"unavailable", "unread", "read"}
    /\ accounts \in [Ids -> Keys \cup {None}]
    /\ active_account_id \in Ids \cup {None}
    /\ unlocked_signers \in [Ids -> Keys \cup {None}]
    /\ message \in {"none", "notice", "error"}
    /\ unlock_target_id \in Ids \cup {None}
    /\ unlocking \in BOOLEAN
    /\ tasks \in [Tasks -> TaskRecord]

\* There is an active account exactly when there is an account, and it is a
\* listed one: deletions, restarts and stale clicks never leave the views with
\* an active id that active_account() cannot find.
ActiveIsListed ==
    IF \E id \in Ids : accounts[id] # None
    THEN active_account_id # None /\ accounts[active_account_id] # None
    ELSE active_account_id = None

\* Whatever failed or crashed, the list shown is the one a restart would load:
\* nothing listed is missing on disk and no readable file is unlisted.
RestartKeepsAccounts == accounts_dir = "read" => accounts = Listed(disk)

\* The signer found under a listed account's id signs for that account's
\* address, however unlock tasks, selections and deletions interleave.
SignerMatchesEntry ==
    \A id \in Ids : /\ accounts[id] # None
                    /\ unlocked_signers[id] # None
                    => unlocked_signers[id] = accounts[id]

\* The Unlock button is disabled only while a task that will enable it again
\* is under way: concurrent tasks (Enter ignores the flag) never leave it stuck.
NeverStuckUnlocking ==
    unlocking => /\ unlock_target_id # None
                 /\ \E t \in Tasks : tasks[t].stage # "idle"

\* Once the dialog is closed nothing becomes unlocked: a password whose check
\* was cancelled has no late effect on the store.
NoUnlockAfterCancel ==
    [][\A id \in Ids : unlocked_signers[id] = None /\ unlocked_signers'[id] # None
                       => unlock_target_id # None]_vars

\* What an account on offer signs with: a signer left under an id that is no
\* longer listed is out of reach of the views.
Usable == [id \in Ids |-> IF accounts[id] = None THEN None ELSE unlocked_signers[id]]

Promise == INSTANCE Keystore WITH
    kept <- Listed(disk), listed <- accounts, active <- active_account_id, usable <- Usable

\* The store, its files and the unlock dialog keep the promises of Keystore: no
\* failed write or crash costs a key or an entry, no id is taken twice, and an
\* answer that comes late unlocks nothing but the account it was asked for.
ImplementsKeystore == Promise!Spec

\* Every submitted password is answered or its dialog is closed.
UnlockAnswered ==
    \A t \in Tasks : tasks[t].stage = "running" ~> tasks[t].stage = "idle"
=============================================================================
