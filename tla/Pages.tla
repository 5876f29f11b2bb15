-------------------------------- MODULE Pages --------------------------------
(***************************************************************************)
(* The pages that load and publish: ProfileView and ProfileEdit            *)
(* (src/src/views/profile/), PublishFeed and PublishPost                   *)
(* (src/src/views/).  The router mounts one page at a time; leaving it     *)
(* drops its signals and its tasks, but not what they have submitted.      *)
(* Drafts, images, fees and messages have no part in the properties.       *)
(***************************************************************************)
EXTENDS Publishing

CONSTANT LoadTasks      \* bound: loads under way at a time

VARIABLES
    client,     \* is there an indexer client?
    route,      \* the page, and the feed of a publish-post route
    page,       \* the signals and the loading tasks of the page
    doubtful    \* history: the accounts that may have two profile items

vars == <<chain, publishing, active, client, route, page, doubtful>>

Accounted == {"view", "edit"}   \* their effect reads the active address
Forms == {"edit", "feed", "post"}
Routes == [on : {"view", "edit", "feed", "other"}, feed : {None}]
          \cup [on : {"post"}, feed : ItemIds]

\* of: whose profile it is.  item: current_item_id, or the post page's feed_item_id.
Blank == [of |-> None, item |-> None]

Loads == [for : Accounts, at : {"pointer"}]
         \cup [for : Accounts \cup {None}, at : {"revision"}, item : ItemIds]

ASSUME LoadAssumption == None \notin Loads

Pages == [loads : [LoadTasks -> Loads \cup {None}],
          is_loading : BOOLEAN,
          loaded : [of : Accounts \cup {None}, item : ItemIds \cup {None}],
          raced : BOOLEAN]  \* history: the view's effect ran while a load was under way

NewPage(on) == [loads |-> [t \in LoadTasks |-> None], is_loading |-> on = "post",
                loaded |-> Blank, raced |-> FALSE]

Init ==
    /\ PublishingInit
    /\ active \in Accounts \cup {None}
    /\ client \in BOOLEAN
    /\ route = [on |-> "other", feed |-> None]
    /\ page = NewPage("other")
    /\ doubtful = {}
----------------------------------------------------------------------------
LoadsOf(p) == {t \in LoadTasks : p.loads[t] # None}

\* Only the view's property asks.
Racing(r, p) == p.raced \/ (r.on = "view" /\ LoadsOf(p) # {})

Spawn(r, p, load) ==
    IF LoadsOf(p) = LoadTasks THEN {}
    ELSE LET t == CHOOSE t \in LoadTasks : p.loads[t] = None
         IN  {[p EXCEPT !.loads[t] = load, !.is_loading = TRUE, !.raced = Racing(r, p)]}

\* What the page's effect makes of the page: no account clears it, no client
\* leaves it, else one more load is spawned.  The post page knows its item.
Effect(r, address, connected, p) ==
    IF r.on \in Accounted /\ address = None 
         THEN {[p EXCEPT !.loaded = Blank, !.raced = Racing(r, p)]}
    ELSE IF r.on \in Accounted /\ connected
         THEN Spawn(r, p, [for |-> address, at |-> "pointer"])
    ELSE IF r.on = "post" /\ connected
         THEN Spawn(r, p, [for |-> None, at |-> "revision", item |-> r.feed])
    ELSE {p}

\* Given up, a first profile of account a may still land.
Abandoned(a) ==
    /\ MayHaveLanded
    /\ publishing.request.kind = "profile" /\ publishing.request.revises = None
    /\ publishing.request.signer = a

Doubt == doubtful' = doubtful \cup {a \in Accounts : Abandoned(a)}

\* Mutant of Open: the signals and tasks of the page before stay.
OpenKeeping(r) ==
    /\ r.on = "post" => r.feed <= Len(items) /\ items[r.feed].kind = "feed"
    /\ route' = r
    /\ page' \in Effect(r, active, client, page)

\* The feed of a publish-post link was loaded by the item page.
Open(r) ==
    /\ r.on = "post" => r.feed <= Len(items) /\ items[r.feed].kind = "feed"
    /\ route' = r
    /\ page' \in Effect(r, active, client, NewPage(r.on))

Navigate(r) ==
    /\ r # route
    /\ Open(r)
    /\ publishing' = Idle
    /\ Doubt
    /\ UNCHANGED <<chain, active, client>>

SelectAccount(a) ==
    /\ a # active
    /\ active' = a
    /\ page' \in IF route.on \in Accounted THEN Effect(route, a, client, page) ELSE {page}
    /\ UNCHANGED <<chain, publishing, client, route, doubtful>>

ClientChanges ==
    /\ client' = ~client
    /\ page' \in Effect(route, active, client', page)
    /\ UNCHANGED <<chain, publishing, active, route, doubtful>>

Refresh ==
    /\ route.on = "edit" /\ ~page.is_loading /\ active # None
    /\ page' \in Effect(route, active, client, page)
    /\ UNCHANGED <<chain, publishing, active, client, route, doubtful>>
----------------------------------------------------------------------------
Finished(t) == [page EXCEPT !.loads[t] = None, !.is_loading = FALSE]

OtherThanPage == <<chain, publishing, active, client, route, doubtful>>

\* fetch_profile_item_id, from the chain; without a pointer the profile is a
\* default one.
PointerRead(t) ==
    /\ page.loads[t] # None /\ page.loads[t].at = "pointer"
    /\ LET a == page.loads[t].for
       IN  page' = IF profile[a] = None
                   THEN [Finished(t) EXCEPT !.loaded = [of |-> a, item |-> None]]
                   ELSE [page EXCEPT !.loads[t] =
                            [for |-> a, at |-> "revision", item |-> profile[a]]]
    /\ UNCHANGED OtherThanPage

\* The latest revision's hash from the indexer, its content from IPFS.
LoadSucceeds(t) ==
    /\ page.loads[t] # None /\ page.loads[t].at = "revision"
    /\ page' = [Finished(t) EXCEPT !.loaded =
                    [of |-> page.loads[t].for, item |-> page.loads[t].item]]
    /\ UNCHANGED OtherThanPage

\* Mutant of LoadFails: the view keeps the profile on display.
LoadFailsKeeping(t) ==
    /\ page.loads[t] # None
    /\ page' = Finished(t)
    /\ UNCHANGED OtherThanPage

\* Mutant of LoadFails: an early return before is_loading.set(false).
LoadFailsLoading(t) ==
    /\ page.loads[t] # None
    /\ page' = [page EXCEPT !.loads[t] = None]
    /\ UNCHANGED OtherThanPage

\* At either request: an item may not be indexed yet.  The view drops what it shows,
\* the forms keep theirs.
LoadFails(t) ==
    /\ page.loads[t] # None
    /\ page' = IF route.on = "view" THEN [Finished(t) EXCEPT !.loaded = Blank] ELSE Finished(t)
    /\ UNCHANGED OtherThanPage
----------------------------------------------------------------------------
\* The account is unlocked and can pay.
Click(kind, revises) ==
    /\ active # None
    /\ StartPublishing([kind |-> kind, signer |-> active, revises |-> revises])
    /\ UNCHANGED <<active, client, route, page>>

\* "Save profile": revises the item on hand.  Whether there is none because the
\* active account has no profile depends on the last load.
ClickSave ==
    /\ route.on = "edit" /\ ~page.is_loading
    /\ Click("profile", page.loaded.item)
    /\ doubtful' = IF page.loaded.item = None /\ page.loaded.of # active
                   THEN doubtful \cup {active} ELSE doubtful

ClickPublishFeed ==
    /\ route.on = "feed"
    /\ Click("feed", None)
    /\ UNCHANGED doubtful

ClickPublishPost ==
    /\ route.on = "post" /\ page.loaded.item # None
    /\ Click("post", None)
    /\ UNCHANGED doubtful

\* The events are as expected: a profile is applied and shown on its page, the
\* other items on the item page.
Published ==
    /\ publishing.at = "landed"
    /\ Open([on |-> IF publishing.request.kind = "profile" THEN "view" ELSE "other", feed |-> None])
    /\ publishing' = Idle
    /\ UNCHANGED <<chain, active, client, doubtful>>

\* Anything may fail before the submission, and the connection that watches it,
\* the decoding of its events or the preview after it.
PublishFails ==
    /\ is_saving
    /\ publishing' = Idle
    /\ Doubt
    /\ UNCHANGED <<chain, active, client, route, page>>

ChainStep == ChainNext /\ UNCHANGED <<active, client, route, page, doubtful>>

UserNext ==
    \/ \E r \in Routes : Navigate(r)
    \/ \E a \in Accounts \cup {None} : SelectAccount(a)
    \/ Refresh \/ ClickSave \/ ClickPublishFeed \/ ClickPublishPost

LoadStep(t) == PointerRead(t) \/ LoadSucceeds(t) \/ LoadFails(t)

Next ==
    \/ UserNext \/ ClientChanges \/ ChainStep
    \/ \E t \in LoadTasks : LoadStep(t)
    \/ Published \/ PublishFails

Spec == Init /\ [][Next]_vars
----------------------------------------------------------------------------
\* Types, with the pages that hold a load or a publishing task.
TypeOK ==
    /\ PublishingTypeOK
    /\ active \in Accounts \cup {None}
    /\ client \in BOOLEAN
    /\ route \in Routes
    /\ page \in Pages
    /\ doubtful \subseteq Accounts
    /\ LoadsOf(page) # {} => route.on \in {"view", "edit", "post"}
    /\ is_saving => route.on \in Forms
    /\ \A t \in LoadsOf(page) : page.loads[t].for = None <=> route.on = "post"

\* Whatever overtakes what, the chain changes as the publish flows promise: by
\* whole batches, and an item only by its owner (batch_all in profile.rs, feed.rs).
ImplementsRegistry == Registry!Spec

\* An account whose first saves all followed a load that found no profile of it,
\* and were seen to their end, has no profile item but the one its pointer names: two
\* saves never both take the first-save path of save_profile.
OneProfilePerAccount ==
    \A a \in Accounts \ doubtful : \A i \in DOMAIN items :
        items[i].kind = "profile" /\ items[i].owner = a => profile[a] = i

\* With a client, when all loads have ended and none overtook another, the view
\* shows the active account's profile or nothing (view.rs: a failing load drops
\* the profile of the account before).
ViewShowsActive ==
    route.on = "view" /\ client /\ LoadsOf(page) = {} /\ ~page.raced
        => page.loaded.of \in {active, None}

\* is_loading disables the edit form: it is set only while a load that resets it
\* is under way.  The post page starts loading, and waits for a client.
SpinnersMeanWork ==
    page.is_loading => LoadsOf(page) # {} \/ (route.on = "post" /\ page.loaded = Blank)

\* What the task takes for published is on the chain as it was asked for: signed by
\* the account of the click, and found from that account.
LandedIsComplete ==
    publishing.at = "landed" =>
        LET request == publishing.request
            i == publishing.item
        IN  /\ items[i].owner = request.signer
            /\ items[i].kind = request.kind
            /\ request.kind = "feed" => i \in listed[request.signer]
            /\ request.kind = "profile" /\ request.signer \notin doubtful
                 => profile[request.signer] = i
=============================================================================
