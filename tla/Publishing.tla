----------------------------- MODULE Publishing -----------------------------
(***************************************************************************)
(* save_profile (src/src/profile.rs), publish_feed (feed.rs) and           *)
(* publish_post (post.rs): encode, upload to IPFS, sign and submit, wait   *)
(* for finality, verify the events.  A form runs one of them at a time,    *)
(* with the account store it had when its button was clicked.  A           *)
(* submission outlives the task that made it.                              *)
(***************************************************************************)
EXTENDS Naturals, Sequences, FiniteSets

CONSTANTS
    Accounts,       \* the accounts in the store, all of them unlocked
    None,           \* Option::None
    MaxItems,       \* bound: items on the chain
    MaxRevisions,   \* bound: revisions of an item
    Slots           \* bound: submissions whose fate is open

ASSUME PublishingAssumption ==
    /\ None \notin Accounts \cup Nat
    /\ MaxItems \in Nat
    /\ MaxRevisions \in Nat \ {0}
    /\ None \notin Slots

VARIABLES
    items, profile, listed,     \* the chain: see ContentRegistry
    pool,                       \* submitted, neither included nor refused yet
    publishing,                 \* the task of the form on display
    active                      \* the active account of the account store

Registry == INSTANCE ContentRegistry

chain == <<items, profile, listed, pool>>

Kinds == {"profile", "feed", "post"}
ItemIds == 1..MaxItems
Idle == [at |-> "idle"]
Free == [kind |-> "free"]

\* revises: existing_item_id of a profile.
Requests == [kind : Kinds, signer : Accounts, revises : ItemIds \cup {None}]

\* is_saving is set first thing in the spawned task and cleared at its end.
is_saving == publishing # Idle

PublishingInit ==
    /\ Registry!Init
    /\ pool = [s \in Slots |-> Free]
    /\ publishing = Idle
----------------------------------------------------------------------------
\* Mutant of StartPublishing: the button stays enabled while a save is under way.
StartPublishingAgain(request) ==
    /\ publishing' = [at |-> "prepare", request |-> request]
    /\ UNCHANGED chain

\* The click: the request and the signer are of this moment.
StartPublishing(request) ==
    /\ ~is_saving
    /\ publishing' = [at |-> "prepare", request |-> request]
    /\ UNCHANGED chain

\* Mutant of Submit: the account store is read again before signing.
SubmitAsActive(s) ==
    /\ publishing.at = "prepare" /\ active # None
    /\ pool[s] = Free
    /\ LET request == [publishing.request EXCEPT !.signer = active]
       IN  /\ pool' = [pool EXCEPT ![s] = request]
           /\ publishing' = [at |-> "submitted", request |-> publishing.request, slot |-> s]
    /\ UNCHANGED <<items, profile, listed>>

\* The image, the payload and the item id are made and the node has taken the
\* extrinsic: publish_item alone or in a batch_all, or publish_revision.
Submit(s) ==
    /\ publishing.at = "prepare"
    /\ pool[s] = Free
    /\ pool' = [pool EXCEPT ![s] = publishing.request]
    /\ publishing' = [at |-> "submitted", request |-> publishing.request, slot |-> s]
    /\ UNCHANGED <<items, profile, listed>>

Watched(s) == publishing.at = "submitted" /\ publishing.slot = s

\* What the task learns when its submission is decided.
Decide(s, at, i) ==
    /\ pool' = [pool EXCEPT ![s] = Free]
    /\ publishing' = IF Watched(s)
                     THEN [at |-> at, request |-> publishing.request, item |-> i]
                     ELSE publishing

\* Mutant of IncludeNew: the calls are submitted one by one, without the batch.
IncludeNewUnbatched(s) ==
    /\ pool[s] # Free
    /\ pool[s].revises = None
    /\ Len(items) < MaxItems
    /\ LET request == pool[s]
           new == Len(items) + 1
       IN  /\ items' = Append(items, [owner |-> request.signer, kind |-> request.kind, revisions |-> 1])
           /\ UNCHANGED <<profile, listed>>
           /\ Decide(s, "landed", new)

\* publish_item with, for a profile, set_profile and, for a feed, add_item:
\* batch_all applies all of its calls or none.
IncludeNew(s) ==
    /\ pool[s] # Free
    /\ pool[s].revises = None
    /\ Len(items) < MaxItems
    /\ LET request == pool[s]
           new == Len(items) + 1
       IN  /\ items' = Append(items, [owner |-> request.signer, kind |-> request.kind, revisions |-> 1])
           /\ profile' = IF request.kind = "profile"
                         THEN [profile EXCEPT ![request.signer] = new] ELSE profile
           /\ listed' = IF request.kind = "feed"
                        THEN [listed EXCEPT ![request.signer] = @ \cup {new}] ELSE listed
           /\ Decide(s, "landed", new)

\* publish_revision, which the chain takes from the owner of the item only.
IncludeRevision(s) ==
    /\ pool[s] # Free
    /\ pool[s].revises # None
    /\ LET i == pool[s].revises
       IN  /\ items[i].owner = pool[s].signer
           /\ items[i].revisions < MaxRevisions
           /\ items' = [items EXCEPT ![i].revisions = @ + 1]
           /\ Decide(s, "landed", i)
    /\ UNCHANGED <<profile, listed>>

\* Invalid, not paid for, or not the owner.
Refuse(s) ==
    /\ pool[s] # Free
    /\ Decide(s, "refused", None)
    /\ UNCHANGED <<items, profile, listed>>

ChainNext ==
    \E s \in Slots : Submit(s) \/ IncludeNew(s) \/ IncludeRevision(s) \/ Refuse(s)
----------------------------------------------------------------------------
\* May what the task was asked to do be on the chain, or still get there?
MayHaveLanded == publishing.at \in {"submitted", "landed"}

Items == [owner : Accounts, kind : Kinds, revisions : 1..MaxRevisions]

PublishingTypeOK ==
    /\ items \in Seq(Items)
    /\ Len(items) <= MaxItems
    /\ profile \in [Accounts -> ItemIds \cup {None}]
    /\ listed \in [Accounts -> SUBSET ItemIds]
    /\ pool \in [Slots -> Requests \cup {Free}]
    /\ publishing \in {Idle} \cup [at : {"prepare"}, request : Requests]
                      \cup [at : {"submitted"}, request : Requests, slot : Slots]
                      \cup [at : {"landed", "refused"}, request : Requests,
                            item : ItemIds \cup {None}]
=============================================================================
