------------------------------ MODULE ItemView ------------------------------
(***************************************************************************)
(* The item page (src/src/views/item_view/mod.rs) with load_item           *)
(* (loader.rs) and publish_item_revision (item.rs), beside the chain that  *)
(* holds the revisions and the indexer that lists them.                    *)
(*                                                                         *)
(* The page outlives a change of its route, and so do the tasks it has     *)
(* spawned: a load, a change of revision and a save may all be under way   *)
(* while the user goes on.  Each of their actions runs from one await to   *)
(* the next.  An IPFS hash is the item and revision that it was published  *)
(* as; a content is what the properties tell apart of a payload.           *)
(***************************************************************************)
EXTENDS Naturals, Sequences

CONSTANTS
    Items,          \* the items there are links to
    Feeds,          \* those that carry the type marker of a feed
    Owned,          \* those of the active, unlocked account
    None,           \* Option::None
    MaxRevisions,   \* bound: revisions per item
    Tasks           \* bound: the page's tasks at one time

ASSUME ItemAssumption ==
    /\ Feeds \subseteq Items
    /\ Owned \subseteq Items
    /\ None \notin Items
    /\ MaxRevisions \in Nat \ {0}

VARIABLES
    revisions,      \* per item, the contents published on the chain
    indexed,        \* per item, how many of them the indexer lists
    client,         \* is there an IndexerClient in the signal?
    route,          \* encoded_item_id
    loaded,
    revision_history,
    chain_latest_revision_id,
    is_loading, revision_switching, posts_loading, comments_loading, is_saving,
    error_message,  \* is it set?
    active_tab,
    draft,          \* the item whose text is in the edit form
    selected_image, \* has another image been chosen?
    tasks,
    overtaken       \* history: some change of route overtook a task

chain == <<revisions, indexed>>
page == <<loaded, revision_history, chain_latest_revision_id>>
form == <<active_tab, draft, selected_image>>
spinners == <<is_loading, revision_switching, posts_loading, comments_loading, is_saving>>
vars == <<chain, client, route, page, form, spinners, error_message, tasks, overtaken>>

RevisionIds == 0..(MaxRevisions - 1)
Kind(i) == IF i \in Feeds THEN "Feed" ELSE "Content"

\* The item the text was written for, the revision that brought the image,
\* and the type marker.
Contents == [text : Items, image : RevisionIds, kind : {"Feed", "Content"}]
Hashes == [item : Items, revision : RevisionIds]
Content(hash) == revisions[hash.item][hash.revision + 1]

Histories == [item : Items, count : 1..MaxRevisions]
LoadedItems == [item : Items, hash : Hashes, revision_id : RevisionIds, is_owner : BOOLEAN]

ASSUME NoneAssumption ==
    None \notin RevisionIds \cup Hashes \cup Histories \cup LoadedItems

Idle == [does |-> "idle"]
Fetching(does, id, hash) == [does |-> does, at |-> "query", id |-> id, hash |-> hash]

\* A link comes from what the indexer lists, or from the form that has just
\* published the item.
Init ==
    /\ revisions = [i \in Items |-> <<[text |-> i, image |-> 0, kind |-> Kind(i)]>>]
    /\ indexed \in [Items -> 0..1]
    /\ \A i \in Items \ Owned : indexed[i] = 1
    /\ client = FALSE
    /\ route \in Items
    /\ loaded = None
    /\ revision_history = None
    /\ chain_latest_revision_id = 0
    /\ is_loading = FALSE
    /\ revision_switching = FALSE
    /\ posts_loading = FALSE
    /\ comments_loading = FALSE
    /\ is_saving = FALSE
    /\ error_message = FALSE
    /\ active_tab = "View"
    /\ draft = None
    /\ selected_image = FALSE
    /\ tasks = [t \in Tasks |-> Idle]
    /\ overtaken = FALSE
----------------------------------------------------------------------------
(* The load effect: it runs again for another route, another client and    *)
(* every tick, and never stops the task it spawned before.                 *)

\* The spawned task, which clears the page before its first await; without a
\* client it returns at once.  t is free, or ends in the same step.
LoadEffect(t) ==
    IF client'
    THEN /\ tasks' = [tasks EXCEPT ![t] = Fetching("load", route', None)]
         /\ error_message' = FALSE
         /\ revision_history' = None
         /\ is_loading' = TRUE
    ELSE /\ tasks' = [tasks EXCEPT ![t] = Idle]
         /\ UNCHANGED <<error_message, revision_history, is_loading>>

EffectUnchanged ==
    UNCHANGED <<chain, loaded, chain_latest_revision_id, form, revision_switching,
                posts_loading, comments_loading>>

Navigate(t, i) ==
    /\ tasks[t] = Idle
    /\ route # i
    /\ route' = i
    /\ overtaken' = (overtaken \/ \E u \in Tasks : tasks[u] # Idle)
    /\ UNCHANGED client
    /\ LoadEffect(t)
    /\ EffectUnchanged
    /\ UNCHANGED is_saving

\* The App task copies another client, or None, out of the watch channel.
ClientChanges(t, present) ==
    /\ tasks[t] = Idle
    /\ client \/ present
    /\ client' = present
    /\ UNCHANGED <<route, overtaken>>
    /\ LoadEffect(t)
    /\ EffectUnchanged
    /\ UNCHANGED is_saving

\* A comment of the user was published: reload_tick goes up.
CommentPublished(t) ==
    /\ tasks[t] = Idle
    /\ loaded # None
    /\ UNCHANGED <<route, overtaken, client>>
    /\ LoadEffect(t)
    /\ EffectUnchanged
    /\ UNCHANGED is_saving
----------------------------------------------------------------------------
(* load_item, for a load or for a change of revision.                      *)

\* The indexer's history and the chain's item state are both there.  Without
\* the state the latest revision is taken to be 0 and the owner unknown; the
\* latest one that is not indexed yet is replaced by the newest that is.
QueryAnswered(t) ==
    /\ tasks[t].does \in {"load", "switch"}
    /\ tasks[t].at = "query"
    /\ LET id == tasks[t].id
           count == indexed[id]
       IN  /\ count > 0
           /\ \E state_known \in BOOLEAN :
                LET latest == IF state_known THEN Len(revisions[id]) - 1 ELSE 0
                    newest == IF latest < count THEN latest ELSE count - 1
                    hash == IF tasks[t].hash # None THEN tasks[t].hash
                            ELSE [item |-> id, revision |-> newest]
                    listed == hash.item = id /\ hash.revision < count
                IN  tasks' = [tasks EXCEPT ![t] =
                        [does |-> tasks[t].does, at |-> "content", latest |-> latest,
                         history |-> [item |-> id, count |-> count],
                         result |-> [item |-> id, hash |-> hash,
                                     revision_id |-> IF listed THEN hash.revision ELSE 0,
                                     is_owner |-> state_known /\ id \in Owned]]]
    /\ UNCHANGED <<chain, client, route, page, form, spinners, error_message, overtaken>>

\* What a load and a change of revision both show.
ShowResult(t) ==
    /\ chain_latest_revision_id' = tasks[t].latest
    /\ revision_history' = tasks[t].history
    /\ loaded' = tasks[t].result

\* The content came from IPFS: the page and the form are filled, and the
\* task goes on to the posts of a feed or to the comments.
ItemLoaded(t) ==
    /\ tasks[t].does = "load"
    /\ tasks[t].at = "content"
    /\ ShowResult(t)
    /\ draft' = Content(tasks[t].result.hash).text
    /\ selected_image' = FALSE
    /\ active_tab' = "View"
    /\ is_loading' = FALSE
    /\ IF Content(tasks[t].result.hash).kind = "Feed"
       THEN /\ tasks' = [tasks EXCEPT ![t] = [does |-> "load", at |-> "posts"]]
            /\ posts_loading' = TRUE
            /\ UNCHANGED comments_loading
       ELSE /\ tasks' = [tasks EXCEPT ![t] = [does |-> "load", at |-> "comments"]]
            /\ comments_loading' = TRUE
            /\ UNCHANGED posts_loading
    /\ UNCHANGED <<chain, client, route, revision_switching, is_saving, error_message, overtaken>>

\* Mutant of LoadFails: the error is dropped.
LoadFailsSilently(t) ==
    /\ tasks[t].does = "load"
    /\ tasks[t].at \in {"query", "content"}
    /\ loaded' = None
    /\ is_loading' = FALSE
    /\ tasks' = [tasks EXCEPT ![t] = Idle]
    /\ UNCHANGED <<chain, client, route, revision_history, chain_latest_revision_id, form,
                   revision_switching, posts_loading, comments_loading, is_saving,
                   error_message, overtaken>>

LoadFails(t) ==
    /\ tasks[t].does = "load"
    /\ tasks[t].at \in {"query", "content"}
    /\ loaded' = None
    /\ error_message' = TRUE
    /\ is_loading' = FALSE
    /\ tasks' = [tasks EXCEPT ![t] = Idle]
    /\ UNCHANGED <<chain, client, route, revision_history, chain_latest_revision_id, form,
                   revision_switching, posts_loading, comments_loading, is_saving, overtaken>>

\* load_feed_posts came back, well or not.
PostsLoaded(t) ==
    /\ tasks[t] = [does |-> "load", at |-> "posts"]
    /\ tasks' = [tasks EXCEPT ![t].at = "comments"]
    /\ posts_loading' = FALSE
    /\ comments_loading' = TRUE
    /\ UNCHANGED <<chain, client, route, page, form, is_loading, revision_switching, is_saving,
                   error_message, overtaken>>

\* load_comments_for_item came back, well or not.
CommentsLoaded(t) ==
    /\ tasks[t] = [does |-> "load", at |-> "comments"]
    /\ tasks' = [tasks EXCEPT ![t] = Idle]
    /\ comments_loading' = FALSE
    /\ UNCHANGED <<chain, client, route, page, form, is_loading, revision_switching,
                   posts_loading, is_saving, error_message, overtaken>>
----------------------------------------------------------------------------
(* The View tab: another revision.                                         *)

Viewing == ~is_loading /\ loaded # None /\ active_tab = "View"

\* The handlers take the hash from the history on display, the id from the
\* route.  Without a client the spinner is turned off as soon as on.
Switch(t, hash) ==
    /\ Viewing
    /\ tasks[t] = Idle
    /\ client
    /\ tasks' = [tasks EXCEPT ![t] = Fetching("switch", route, hash)]
    /\ revision_switching' = TRUE
    /\ UNCHANGED <<chain, client, route, page, form, is_loading, posts_loading, comments_loading,
                   is_saving, error_message, overtaken>>

\* The banner of an older revision; its button stays enabled meanwhile.
ViewLatest(t) ==
    /\ loaded # None
    /\ loaded.revision_id < chain_latest_revision_id
    /\ Switch(t, None)

\* Mutant of SelectRevision: the entry after the one selected.
SelectNextRevision(t, r) ==
    /\ ~revision_switching
    /\ revision_history # None
    /\ revision_history.count > 1
    /\ r < revision_history.count
    /\ Switch(t, IF r = chain_latest_revision_id THEN None
                 ELSE [item |-> revision_history.item, revision |-> r + 1])

\* The revision selector; the latest revision is looked up afresh.
SelectRevision(t, r) ==
    /\ ~revision_switching
    /\ revision_history # None
    /\ revision_history.count > 1
    /\ r < revision_history.count
    /\ Switch(t, IF r = chain_latest_revision_id THEN None
                 ELSE [item |-> revision_history.item, revision |-> r])

\* Mutant of Switched: the history on display is kept.
SwitchedKeepingHistory(t) ==
    /\ tasks[t].does = "switch"
    /\ tasks[t].at = "content"
    /\ chain_latest_revision_id' = tasks[t].latest
    /\ loaded' = tasks[t].result
    /\ revision_switching' = FALSE
    /\ tasks' = [tasks EXCEPT ![t] = Idle]
    /\ UNCHANGED <<chain, client, route, revision_history, form, is_loading, posts_loading,
                   comments_loading, is_saving, error_message, overtaken>>

\* The form keeps what the last load put there.
Switched(t) ==
    /\ tasks[t].does = "switch"
    /\ tasks[t].at = "content"
    /\ ShowResult(t)
    /\ revision_switching' = FALSE
    /\ tasks' = [tasks EXCEPT ![t] = Idle]
    /\ UNCHANGED <<chain, client, route, form, is_loading, posts_loading, comments_loading,
                   is_saving, error_message, overtaken>>

\* Mutant of SwitchFails: the error path leaves the selector disabled.
SwitchFailsSwitching(t) ==
    /\ tasks[t].does = "switch"
    /\ error_message' = TRUE
    /\ tasks' = [tasks EXCEPT ![t] = Idle]
    /\ UNCHANGED <<chain, client, route, page, form, spinners, overtaken>>

SwitchFails(t) ==
    /\ tasks[t].does = "switch"
    /\ error_message' = TRUE
    /\ revision_switching' = FALSE
    /\ tasks' = [tasks EXCEPT ![t] = Idle]
    /\ UNCHANGED <<chain, client, route, page, form, is_loading, posts_loading, comments_loading,
                   is_saving, overtaken>>
----------------------------------------------------------------------------
(* The Edit tab.                                                           *)

\* The tab bar is there for the owner of what is loaded.
OpenTab(tab) ==
    /\ loaded # None
    /\ loaded.is_owner
    /\ active_tab # tab
    /\ active_tab' = tab
    /\ UNCHANGED <<chain, client, route, page, draft, selected_image, spinners, error_message,
                   tasks, overtaken>>

Editing == ~is_loading /\ loaded # None /\ active_tab = "Edit" /\ ~is_saving

CancelEdit ==
    /\ Editing
    /\ active_tab' = "View"
    /\ UNCHANGED <<chain, client, route, page, draft, selected_image, spinners, error_message,
                   tasks, overtaken>>

ChooseImage ==
    /\ Editing
    /\ ~selected_image
    /\ selected_image' = TRUE
    /\ UNCHANGED <<chain, client, route, page, active_tab, draft, spinners, error_message, tasks,
                   overtaken>>

\* Mutant of Save: the type marker is not carried over.
SavePlain(t) ==
    /\ Editing
    /\ tasks[t] = Idle
    /\ tasks' = [tasks EXCEPT ![t] =
            [does |-> "save", at |-> "submit", id |-> loaded.item, text |-> draft,
             image |-> IF selected_image THEN None ELSE Content(loaded.hash).image,
             kind |-> "Content"]]
    /\ is_saving' = TRUE
    /\ UNCHANGED <<chain, client, route, page, form, is_loading, revision_switching,
                   posts_loading, comments_loading, error_message, overtaken>>

\* "Save changes" captures the draft, and the rest from what is loaded.
Save(t) ==
    /\ Editing
    /\ tasks[t] = Idle
    /\ tasks' = [tasks EXCEPT ![t] =
            [does |-> "save", at |-> "submit", id |-> loaded.item, text |-> draft,
             image |-> IF selected_image THEN None ELSE Content(loaded.hash).image,
             kind |-> Content(loaded.hash).kind]]
    /\ is_saving' = TRUE
    /\ UNCHANGED <<chain, client, route, page, form, is_loading, revision_switching,
                   posts_loading, comments_loading, error_message, overtaken>>

\* The chain takes the revision, from the owner of the item only.
SaveLands(t) ==
    /\ tasks[t].does = "save"
    /\ tasks[t].at = "submit"
    /\ tasks[t].id \in Owned
    /\ LET id == tasks[t].id
           next == Len(revisions[id])
       IN  /\ next < MaxRevisions
           /\ revisions' = [revisions EXCEPT ![id] = Append(@,
                [text |-> tasks[t].text, kind |-> tasks[t].kind,
                 image |-> IF tasks[t].image = None THEN next ELSE tasks[t].image])]
    /\ tasks' = [tasks EXCEPT ![t] = [does |-> "save", at |-> "landed"]]
    /\ UNCHANGED <<indexed, client, route, page, form, spinners, error_message, overtaken>>

\* Finality was reported: reload_tick goes up.
SaveFinished(t) ==
    /\ tasks[t] = [does |-> "save", at |-> "landed"]
    /\ is_saving' = FALSE
    /\ UNCHANGED <<route, overtaken, client>>
    /\ LoadEffect(t)
    /\ EffectUnchanged

\* An error, which may come after the chain has taken the revision.
SaveFails(t) ==
    /\ tasks[t].does = "save"
    /\ is_saving' = FALSE
    /\ tasks' = [tasks EXCEPT ![t] = Idle]
    /\ UNCHANGED <<chain, client, route, page, form, is_loading, revision_switching,
                   posts_loading, comments_loading, error_message, overtaken>>
----------------------------------------------------------------------------
IndexRevision(i) ==
    /\ indexed[i] < Len(revisions[i])
    /\ indexed' = [indexed EXCEPT ![i] = @ + 1]
    /\ UNCHANGED <<revisions, client, route, page, form, spinners, error_message, tasks,
                   overtaken>>

Advance(t) ==
    \/ QueryAnswered(t) \/ ItemLoaded(t) \/ LoadFails(t) \/ PostsLoaded(t) \/ CommentsLoaded(t)
    \/ Switched(t) \/ SwitchFails(t)
    \/ SaveLands(t) \/ SaveFinished(t) \/ SaveFails(t)

Next ==
    \/ \E t \in Tasks : \/ Advance(t)
                        \/ \E i \in Items : Navigate(t, i)
                        \/ \E present \in BOOLEAN : ClientChanges(t, present)
                        \/ CommentPublished(t)
                        \/ ViewLatest(t)
                        \/ \E r \in RevisionIds : SelectRevision(t, r)
                        \/ Save(t)
    \/ \E tab \in {"View", "Edit"} : OpenTab(tab)
    \/ CancelEdit \/ ChooseImage
    \/ \E i \in Items : IndexRevision(i)

Spec == Init /\ [][Next]_vars

\* Every request of a task comes back, well or not.
FairSpec == Spec /\ \A t \in Tasks : WF_vars(Advance(t))
----------------------------------------------------------------------------
TaskStates ==
    {Idle} \cup [does : {"load", "switch"}, at : {"query"}, id : Items, hash : Hashes \cup {None}]
    \cup [does : {"load", "switch"}, at : {"content"}, latest : RevisionIds, history : Histories,
          result : LoadedItems]
    \cup [does : {"load"}, at : {"posts", "comments"}]
    \cup [does : {"save"}, at : {"submit"}, id : Items, text : Items,
          image : RevisionIds \cup {None}, kind : {"Feed", "Content"}]
    \cup [does : {"save"}, at : {"landed"}]

TypeOK ==
    /\ \A i \in Items : /\ DOMAIN revisions[i] \in {1..n : n \in 1..MaxRevisions}
                        /\ \A n \in DOMAIN revisions[i] : revisions[i][n] \in Contents
                        /\ indexed[i] \in 0..Len(revisions[i])
    /\ client \in BOOLEAN
    /\ route \in Items
    /\ loaded \in LoadedItems \cup {None}
    /\ loaded # None => loaded.hash.revision < Len(revisions[loaded.hash.item])
    /\ revision_history \in Histories \cup {None}
    /\ chain_latest_revision_id \in RevisionIds
    /\ {is_loading, revision_switching, posts_loading, comments_loading, is_saving,
        error_message, selected_image, overtaken} \subseteq BOOLEAN
    /\ active_tab \in {"View", "Edit"}
    /\ draft \in Items \cup {None}
    /\ loaded # None => draft # None
    /\ \A t \in Tasks : tasks[t] \in TaskStates

At(does, places) == \E t \in Tasks : tasks[t].does = does /\ tasks[t].at \in places

\* A spinner turns, and a selector or button is disabled, only while a task
\* that will undo it is under way, however tasks overtake each other.
SpinnersMeanWork ==
    /\ is_loading => At("load", {"query", "content"})
    /\ revision_switching => At("switch", {"query", "content"})
    /\ posts_loading => At("load", {"posts"})
    /\ comments_loading => At("load", {"comments"})
    /\ is_saving => At("save", {"submit", "landed"})

\* The selector lists the history of the item on display, with the revision
\* on display in it, whichever task answered last.
HistoryOfLoaded ==
    loaded # None /\ revision_history # None
        => /\ revision_history.item = loaded.item
           /\ loaded.revision_id < revision_history.count

\* "Item not found" is shown only where there was no indexer to ask.
NotFoundMeansNoClient == ~is_loading /\ loaded = None /\ ~error_message => ~client

\* As long as no change of route overtakes a task: what is shown and edited is
\* the item of the route, and no item gets the text or the type of another.
CalmIsCoherent ==
    ~overtaken =>
        /\ client /\ ~is_loading /\ loaded # None => loaded.item = route
        /\ loaded # None => loaded.hash.item = loaded.item /\ draft = loaded.item
        /\ \A i \in Items : \A n \in DOMAIN revisions[i] :
               revisions[i][n].text = i /\ revisions[i][n].kind = Kind(i)

\* Whatever is started ends: no spinner turns for ever.
SpinnersStop ==
    /\ is_loading ~> ~is_loading
    /\ revision_switching ~> ~revision_switching
    /\ is_saving ~> ~is_saving

\* loader.rs:20: load_item "loads an item, optionally loading a specific
\* revision" of it: what is shown as a revision of the item is one.
ShowsRevisionOfItem == loaded # None => loaded.hash.item = loaded.item

\* item.rs:35-37: without a new image the one "from the current published
\* revision" is retained.
SaveKeepsCurrentImage ==
    [][\A i \in Items : Len(revisions'[i]) > Len(revisions[i])
        => LET next == Len(revisions[i]) IN
           revisions'[i][next + 1].image \in {next, revisions[i][next].image}]_revisions
=============================================================================
