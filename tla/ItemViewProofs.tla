--------------------------- MODULE ItemViewProofs ---------------------------
(***************************************************************************)
(* Proofs about the item page, for any items, revisions and number of      *)
(* tasks under way.  What the properties leave unsaid is what a task       *)
(* carries from one await to the next: that a result agrees with its       *)
(* history, and that, unless a change of route overtook a task, all of     *)
(* them work for the item of the route.                                    *)
(***************************************************************************)
EXTENDS ItemView, SequenceTheorems, TLAPS

Exists(hash) == hash.revision < Len(revisions[hash.item])

\* The chain and the indexer.
ChainTypes ==
    /\ revisions \in [Items -> Seq(Contents)]
    /\ \A i \in Items : Len(revisions[i]) \in 1..MaxRevisions
    /\ indexed \in [Items -> Nat]
    /\ \A i \in Items : indexed[i] <= Len(revisions[i])

Asks(k) == k.does \in {"load", "switch"} /\ k.at = "query"
Answered(k) == k.does \in {"load", "switch"} /\ k.at = "content"
Submits(k) == k.does = "save" /\ k.at = "submit"

\* What task k asks for exists, and what it was answered agrees with the history.
TaskSound(k) ==
    /\ k \in TaskStates
    /\ Asks(k) /\ k.hash # None => Exists(k.hash)
    /\ Answered(k) => /\ Exists(k.result.hash)
                      /\ k.history.item = k.result.item
                      /\ k.history.count <= indexed[k.history.item]
                      /\ k.result.revision_id < k.history.count

TasksSound ==
    /\ tasks \in [Tasks -> TaskStates]
    /\ \A t \in Tasks : TaskSound(tasks[t])

\* The form was filled before any change of revision.
SwitchesHaveDraft == \A t \in Tasks : tasks[t].does = "switch" => draft # None

PageTypes ==
    /\ client \in BOOLEAN /\ route \in Items /\ overtaken \in BOOLEAN
    /\ loaded \in LoadedItems \cup {None}
    /\ loaded # None => Exists(loaded.hash) /\ draft # None
    /\ revision_history \in Histories \cup {None}
    /\ revision_history # None => revision_history.count <= indexed[revision_history.item]
    /\ chain_latest_revision_id \in RevisionIds
    /\ is_loading \in BOOLEAN /\ revision_switching \in BOOLEAN
    /\ posts_loading \in BOOLEAN /\ comments_loading \in BOOLEAN
    /\ is_saving \in BOOLEAN /\ error_message \in BOOLEAN /\ selected_image \in BOOLEAN
    /\ active_tab \in {"View", "Edit"}
    /\ draft \in Items \cup {None}

\* Task k on route r with draft d, when no change of route has overtaken a task.
TaskCalm(k, r, d) ==
    /\ Asks(k) => k.id = r /\ (k.hash # None => k.hash.item = r)
    /\ Answered(k) => k.result.item = r /\ k.result.hash.item = r
    /\ k.does = "switch" => d = r
    /\ Submits(k) => k.text = k.id /\ k.kind = Kind(k.id)

ContentsCalm ==
    \A i \in Items : \A n \in DOMAIN revisions[i] :
        revisions[i][n].text = i /\ revisions[i][n].kind = Kind(i)

Calm ==
    /\ client /\ ~is_loading /\ loaded # None => loaded.item = route
    /\ loaded # None => loaded.hash.item = loaded.item /\ draft = loaded.item
    /\ ContentsCalm
    /\ \A t \in Tasks : TaskCalm(tasks[t], route, draft)

ItemInv ==
    /\ ChainTypes /\ TasksSound /\ PageTypes /\ SwitchesHaveDraft
    /\ SpinnersMeanWork /\ HistoryOfLoaded /\ NotFoundMeansNoClient
    /\ ~ overtaken => Calm
----------------------------------------------------------------------------
\* What the fields of a task hold at each of its places.
LEMMA TaskFields ==
    ASSUME NEW k \in TaskStates
    PROVE  /\ Asks(k) => k.id \in Items /\ k.hash \in Hashes \cup {None}
           /\ Answered(k) => /\ k.latest \in RevisionIds /\ k.history \in Histories
                             /\ k.result \in LoadedItems
           /\ Submits(k) => /\ k.id \in Items /\ k.text \in Items
                            /\ k.image \in RevisionIds \cup {None} /\ k.kind \in {"Feed", "Content"}
           /\ k.does \in {"idle", "load", "switch", "save"}
BY DEF TaskStates, Idle, Asks, Answered, Submits

\* New tasks: free, asking, or done with what is asked for.
LEMMA PlainTasks ==
    /\ Idle \in TaskStates /\ TaskSound(Idle) /\ Idle.does = "idle"
    /\ \A d \in {"load", "switch"}, i \in Items, h \in Hashes \cup {None} :
        LET k == Fetching(d, i, h)
        IN  /\ k \in TaskStates /\ Asks(k) /\ k.does = d /\ k.at = "query" /\ k.id = i /\ k.hash = h
            /\ ~ Answered(k) /\ ~ Submits(k)
            /\ h = None => TaskSound(k)
            /\ Exists(h) => TaskSound(k)
    /\ TaskSound([does |-> "load", at |-> "posts"])
    /\ TaskSound([does |-> "load", at |-> "comments"])
    /\ TaskSound([does |-> "save", at |-> "landed"])
<1>1. Idle \in TaskStates /\ Idle.does = "idle" /\ TaskSound(Idle)
    BY DEF Idle, TaskStates, TaskSound, Asks, Answered
<1>2. ASSUME NEW d \in {"load", "switch"}, NEW i \in Items, NEW h \in Hashes \cup {None}
      PROVE  LET k == Fetching(d, i, h)
             IN  /\ k \in TaskStates /\ Asks(k) /\ k.does = d /\ k.at = "query" /\ k.id = i /\ k.hash = h
                 /\ ~ Answered(k) /\ ~ Submits(k)
                 /\ h = None => TaskSound(k)
                 /\ Exists(h) => TaskSound(k)
    <2> DEFINE k == Fetching(d, i, h)
    <2>1. k \in TaskStates /\ k.does = d /\ k.at = "query" /\ k.id = i /\ k.hash = h
        BY DEF Fetching, TaskStates
    <2> HIDE DEF k
    <2>2. Asks(k) /\ ~ Answered(k) /\ ~ Submits(k)
        BY <2>1 DEF Asks, Answered, Submits
    <2>3. h = None \/ Exists(h) => TaskSound(k)
        BY <2>1, <2>2 DEF TaskSound
    <2> QED BY <2>1, <2>2, <2>3 DEF k
<1>3. TaskSound([does |-> "load", at |-> "posts"]) /\ TaskSound([does |-> "load", at |-> "comments"])
    BY DEF TaskStates, TaskSound, Asks, Answered
<1>4. TaskSound([does |-> "save", at |-> "landed"])
    BY DEF TaskStates, TaskSound, Asks, Answered
<1> QED BY <1>1, <1>2, <1>3, <1>4

\* Task t goes on as k, the others as they were.
Becomes(t, k) == tasks' = [tasks EXCEPT ![t] = k]

\* What a task's next state changes and what it leaves alone.
LEMMA BecomesFacts ==
    ASSUME tasks \in [Tasks -> TaskStates], NEW t \in Tasks, NEW k, Becomes(t, k)
    PROVE  /\ tasks'[t] = k
           /\ \A u \in Tasks \ {t} : tasks'[u] = tasks[u]
           /\ k \in TaskStates => tasks' \in [Tasks -> TaskStates]
BY DEF Becomes

\* Tasks stay sound when only task t goes on, and soundly.
LEMMA TasksStaySound ==
    ASSUME TasksSound, UNCHANGED chain, NEW t \in Tasks, NEW k, TaskSound(k), Becomes(t, k)
    PROVE  TasksSound'
<1>1. /\ tasks'[t] = k /\ k \in TaskStates
      /\ \A u \in Tasks \ {t} : tasks'[u] = tasks[u]
      /\ tasks' \in [Tasks -> TaskStates]
    BY BecomesFacts DEF TasksSound, TaskSound
<1>2. \A u \in Tasks : TaskSound(tasks'[u])
    BY <1>1 DEF TasksSound
<1>3. \A u \in Tasks : TaskSound(tasks[u])'
    BY <1>2 DEF TaskSound, Exists, chain
<1> QED BY <1>1, <1>3 DEF TasksSound

\* A place some task is at is left by the task that goes on only.
LEMMA PlacesKept ==
    ASSUME tasks \in [Tasks -> TaskStates], NEW t \in Tasks, NEW k, Becomes(t, k),
           NEW does, NEW places, At(does, places),
           ~ (tasks[t].does = does /\ tasks[t].at \in places) \/ (k.does = does /\ k.at \in places)
    PROVE  At(does, places)'
<1>1. tasks'[t] = k /\ \A u \in Tasks \ {t} : tasks'[u] = tasks[u]
    BY BecomesFacts
<1>2. PICK u \in Tasks : tasks[u].does = does /\ tasks[u].at \in places
    BY DEF At
<1> QED BY <1>1, <1>2 DEF At

\* A place is taken by the task that goes there.
LEMMA PlaceTaken ==
    ASSUME tasks \in [Tasks -> TaskStates], NEW t \in Tasks, NEW k, Becomes(t, k),
           NEW does, NEW places, k.does = does, k.at \in places
    PROVE  At(does, places)'
BY BecomesFacts DEF At
----------------------------------------------------------------------------
\* The chain and the page do not change when tasks alone do.
LEMMA ChainTypesKept == ChainTypes /\ UNCHANGED chain => ChainTypes'
BY DEF ChainTypes, chain

\* The load effect, in whichever action it runs: the new load is for the route,
\* and a change of route that leaves the page calm finds no task.
LEMMA LoadEffectKeeps ==
    ASSUME ItemInv, NEW t \in Tasks, LoadEffect(t), EffectUnchanged,
           \/ tasks[t] = Idle /\ is_saving' = is_saving
           \/ tasks[t] = [does |-> "save", at |-> "landed"] /\ is_saving' = FALSE,
           client' \in BOOLEAN, route' \in Items, overtaken' \in BOOLEAN,
           \/ route' = route /\ overtaken' = overtaken
           \/ tasks[t] = Idle /\ overtaken' = (overtaken \/ \E u \in Tasks : tasks[u] # Idle)
    PROVE  ItemInv'
<1> DEFINE k == IF client' THEN Fetching("load", route', None) ELSE Idle
<1>1. /\ Becomes(t, k) /\ TaskSound(k) /\ k.does \in {"idle", "load"}
      /\ ~ Answered(k) /\ ~ Submits(k) /\ k.does # "switch"
      /\ Asks(k) => k.id = route' /\ k.hash = None
      /\ client' => k.does = "load" /\ k.at = "query"
      /\ k \in TaskStates
    <2>1. Becomes(t, k)
        BY DEF LoadEffect, Becomes
    <2>2. CASE client'
        BY <2>1, <2>2, PlainTasks DEF Fetching
    <2>3. CASE ~ client'
        BY <2>1, <2>3, PlainTasks DEF Asks, Answered, Submits
    <2> QED BY <2>2, <2>3
<1> HIDE DEF k
<1>2. /\ UNCHANGED <<chain, loaded, chain_latest_revision_id, active_tab, draft, selected_image>>
      /\ UNCHANGED <<revision_switching, posts_loading, comments_loading>>
    BY DEF EffectUnchanged, form
<1>3. IF client' THEN error_message' = FALSE /\ revision_history' = None /\ is_loading' = TRUE
      ELSE UNCHANGED <<error_message, revision_history, is_loading>>
    BY DEF LoadEffect
<1>4. tasks \in [Tasks -> TaskStates]
    BY DEF ItemInv, TasksSound
<1>5. ChainTypes' /\ TasksSound'
    BY <1>1, <1>2, ChainTypesKept, TasksStaySound DEF ItemInv
<1>6. PageTypes'
    BY <1>2, <1>3 DEF ItemInv, PageTypes, Exists, chain
<1>7. SpinnersMeanWork'
    <2>1. \A does, places : At(does, places) /\ does \in {"load", "switch"} => At(does, places)'
        <3>1. tasks[t].does \notin {"load", "switch"}
            BY DEF Idle
        <3> QED BY <1>1, <1>4, <3>1, PlacesKept
    <2>2. client' => At("load", {"query", "content"})'
        BY <1>1, <1>4, PlaceTaken
    <2>3. is_saving' => At("save", {"submit", "landed"})'
        <3>1. CASE is_saving'
            <4>1. tasks[t] = Idle /\ At("save", {"submit", "landed"})
                BY <3>1 DEF ItemInv, SpinnersMeanWork
            <4>2. tasks[t].does # "save"
                BY <4>1 DEF Idle
            <4> QED BY <1>1, <1>4, <4>1, <4>2, PlacesKept
        <3> QED BY <3>1
    <2> QED BY <1>2, <1>3, <2>1, <2>2, <2>3 DEF ItemInv, SpinnersMeanWork
<1>8. HistoryOfLoaded' /\ NotFoundMeansNoClient'
    BY <1>2, <1>3 DEF ItemInv, HistoryOfLoaded, NotFoundMeansNoClient
<1>9. ASSUME ~ overtaken' PROVE Calm'
    <2>1. Calm
        BY <1>9 DEF ItemInv
    <2>2. ContentsCalm'
        BY <1>2, <2>1 DEF Calm, ContentsCalm, chain
    <2>3. ASSUME NEW u \in Tasks PROVE TaskCalm(tasks'[u], route', draft')
        <3>1. CASE u = t
            <4>1. tasks'[u] = k
                BY <1>1, <1>4, <3>1, BecomesFacts
            <4> QED BY <1>1, <4>1 DEF TaskCalm, Asks, Answered, Submits
        <3>2. CASE u # t
            <4>1. tasks'[u] = tasks[u]
                BY <1>1, <1>4, <3>2, BecomesFacts
            <4>2. CASE route' = route
                BY <1>2, <2>1, <4>1, <4>2 DEF Calm, TaskCalm
            <4>3. CASE route' # route
                <5>1. tasks'[u] = Idle
                    BY <1>9, <4>1, <4>3
                <5> QED BY <5>1 DEF TaskCalm, Asks, Answered, Submits, Idle
            <4> QED BY <4>2, <4>3
        <3> QED BY <3>1, <3>2
    <2>4. /\ (client /\ ~is_loading /\ loaded # None => loaded.item = route)'
          /\ (loaded # None => loaded.hash.item = loaded.item /\ draft = loaded.item)'
        BY <1>2, <1>3, <2>1 DEF Calm
    <2> QED BY <2>2, <2>3, <2>4 DEF Calm
<1>10. SwitchesHaveDraft'
    BY <1>1, <1>2, <1>4, BecomesFacts DEF ItemInv, SwitchesHaveDraft
<1> QED BY <1>5, <1>6, <1>7, <1>8, <1>9, <1>10 DEF ItemInv

\* The actions that run the load effect.
LEMMA EffectActionsKeep ==
    ASSUME ItemInv, NEW t \in Tasks,
           \/ \E i \in Items : Navigate(t, i)
           \/ \E present \in BOOLEAN : ClientChanges(t, present)
           \/ CommentPublished(t)
           \/ SaveFinished(t)
    PROVE  ItemInv'
<1>1. client \in BOOLEAN /\ route \in Items /\ overtaken \in BOOLEAN
    BY DEF ItemInv, PageTypes
<1> QED BY <1>1, LoadEffectKeeps DEF Navigate, ClientChanges, CommentPublished, SaveFinished
----------------------------------------------------------------------------
\* What an action other than those owes when task t goes on as k: the rest follows.
LEMMA TaskStep ==
    ASSUME ItemInv, UNCHANGED <<chain, client, route, overtaken>>,
           NEW t \in Tasks, NEW k, Becomes(t, k), TaskSound(k),
           PageTypes', SpinnersMeanWork', HistoryOfLoaded', NotFoundMeansNoClient',
           draft' # None \/ (draft' = draft /\ k.does # "switch"),
           ~ overtaken /\ Calm =>
               /\ TaskCalm(k, route', draft')
               /\ draft' \in {draft, route}
               /\ (client /\ ~is_loading /\ loaded # None => loaded.item = route)'
               /\ (loaded # None => loaded.hash.item = loaded.item /\ draft = loaded.item)'
    PROVE  ItemInv'
<1>1. tasks'[t] = k /\ \A u \in Tasks \ {t} : tasks'[u] = tasks[u]
    BY BecomesFacts DEF ItemInv, TasksSound
<1>2. ChainTypes' /\ TasksSound'
    BY ChainTypesKept, TasksStaySound DEF ItemInv
<1>3. ASSUME ~ overtaken' PROVE Calm'
    <2>1. Calm
        BY <1>3 DEF ItemInv
    <2>2. ContentsCalm'
        BY <2>1 DEF Calm, ContentsCalm, chain
    <2>3. ASSUME NEW u \in Tasks \ {t} PROVE TaskCalm(tasks'[u], route', draft')
        BY <1>1, <1>3, <2>1, <2>3 DEF Calm, TaskCalm
    <2>4. TaskCalm(tasks'[t], route', draft')
        BY <1>1, <1>3, <2>1 DEF TaskCalm
    <2> QED BY <1>3, <2>1, <2>2, <2>3, <2>4 DEF Calm
<1>4. SwitchesHaveDraft'
    BY <1>1 DEF ItemInv, SwitchesHaveDraft
<1> QED BY <1>2, <1>3, <1>4 DEF ItemInv

\* What is answered to a query is there, in the history, and of the item asked for.
LEMMA QueryAnsweredKeeps ==
    ASSUME ItemInv, NEW t \in Tasks, QueryAnswered(t)
    PROVE  ItemInv'
<1> DEFINE id == tasks[t].id
           count == indexed[id]
<1>1. /\ tasks \in [Tasks -> TaskStates] /\ Asks(tasks[t]) /\ TaskSound(tasks[t])
      /\ id \in Items /\ tasks[t].hash \in Hashes \cup {None}
      /\ count \in 1..Len(revisions[id]) /\ Len(revisions[id]) \in 1..MaxRevisions
    <2>1. tasks \in [Tasks -> TaskStates] /\ Asks(tasks[t]) /\ TaskSound(tasks[t])
        BY DEF ItemInv, TasksSound, QueryAnswered, Asks
    <2>2. id \in Items /\ tasks[t].hash \in Hashes \cup {None}
        BY <2>1, TaskFields
    <2> QED BY <2>1, <2>2 DEF ItemInv, ChainTypes, QueryAnswered
<1>2. PICK state_known \in BOOLEAN :
        LET latest == IF state_known THEN Len(revisions[id]) - 1 ELSE 0
            newest == IF latest < count THEN latest ELSE count - 1
            hash == IF tasks[t].hash # None THEN tasks[t].hash
                    ELSE [item |-> id, revision |-> newest]
            listed == hash.item = id /\ hash.revision < count
        IN  tasks' = [tasks EXCEPT ![t] =
                [does |-> tasks[t].does, at |-> "content", latest |-> latest,
                 history |-> [item |-> id, count |-> count],
                 result |-> [item |-> id, hash |-> hash,
                             revision_id |-> IF listed THEN hash.revision ELSE 0,
                             is_owner |-> state_known /\ id \in Owned]]]
    BY DEF QueryAnswered
<1> DEFINE latest == IF state_known THEN Len(revisions[id]) - 1 ELSE 0
           newest == IF latest < count THEN latest ELSE count - 1
           hash == IF tasks[t].hash # None THEN tasks[t].hash
                   ELSE [item |-> id, revision |-> newest]
           listed == hash.item = id /\ hash.revision < count
           history == [item |-> id, count |-> count]
           result == [item |-> id, hash |-> hash,
                      revision_id |-> IF listed THEN hash.revision ELSE 0,
                      is_owner |-> state_known /\ id \in Owned]
           k == [does |-> tasks[t].does, at |-> "content", latest |-> latest,
                 history |-> history, result |-> result]
<1>3. latest \in RevisionIds /\ newest \in RevisionIds /\ newest < count /\ newest < Len(revisions[id])
    BY <1>1, ItemAssumption DEF RevisionIds
<1>4. hash \in Hashes /\ Exists(hash) /\ (tasks[t].hash = None => hash.item = id)
    <2> HIDE DEF newest, latest
    <2>1. CASE tasks[t].hash # None
        BY <1>1, <2>1 DEF TaskSound
    <2>2. CASE tasks[t].hash = None
        BY <1>1, <1>3, <2>2 DEF Hashes, Exists
    <2> QED BY <2>1, <2>2
<1>5. history \in Histories /\ history.item = id /\ history.count = count
    BY <1>1, ItemAssumption DEF Histories
<1>6. /\ result \in LoadedItems /\ result.item = id /\ result.hash = hash
      /\ result.revision_id < count
    <2> HIDE DEF hash, newest, latest
    <2>1. hash.revision \in RevisionIds /\ 0 \in RevisionIds
        BY <1>4, ItemAssumption DEF Hashes, RevisionIds
    <2> QED BY <1>1, <1>4, <2>1 DEF LoadedItems
<1> HIDE DEF latest, newest, hash, listed, history, result
<1>7. /\ k \in TaskStates /\ Answered(k) /\ ~ Asks(k) /\ ~ Submits(k) /\ k.does = tasks[t].does
      /\ k.history = history /\ k.result = result /\ k.at = "content"
    <2>1. tasks[t].does \in {"load", "switch"}
        BY DEF QueryAnswered
    <2> QED BY <1>3, <1>5, <1>6, <2>1 DEF TaskStates, Answered, Asks, Submits
<1>8. Becomes(t, k)
    BY <1>2 DEF Becomes, latest, newest, hash, listed, history, result
<1> HIDE DEF k
<1>9. TaskSound(k)
    BY <1>1, <1>4, <1>5, <1>6, <1>7 DEF TaskSound
<1>10. UNCHANGED <<chain, client, route, page, form, spinners, error_message, overtaken>>
    BY DEF QueryAnswered
<1> USE DEF page, form, spinners
<1>11. PageTypes'
    BY <1>10 DEF ItemInv, PageTypes, Exists, chain
<1>12. SpinnersMeanWork'
    <2>1. tasks[t].at = "query"
        BY DEF QueryAnswered
    <2>2. At("load", {"query", "content"}) => At("load", {"query", "content"})'
        BY <1>1, <1>7, <1>8, PlacesKept
    <2>3. At("switch", {"query", "content"}) => At("switch", {"query", "content"})'
        BY <1>1, <1>7, <1>8, PlacesKept
    <2>4. At("load", {"posts"}) => At("load", {"posts"})'
        BY <1>1, <1>8, <2>1, PlacesKept
    <2>5. At("load", {"comments"}) => At("load", {"comments"})'
        BY <1>1, <1>8, <2>1, PlacesKept
    <2>6. At("save", {"submit", "landed"}) => At("save", {"submit", "landed"})'
        BY <1>1, <1>8, <2>1, PlacesKept
    <2> QED BY <1>10, <2>2, <2>3, <2>4, <2>5, <2>6 DEF ItemInv, SpinnersMeanWork
<1>13. HistoryOfLoaded' /\ NotFoundMeansNoClient'
    BY <1>10 DEF ItemInv, HistoryOfLoaded, NotFoundMeansNoClient
<1>14. ASSUME ~ overtaken, Calm
       PROVE  /\ TaskCalm(k, route', draft') /\ draft' \in {draft, route}
              /\ (client /\ ~is_loading /\ loaded # None => loaded.item = route)'
              /\ (loaded # None => loaded.hash.item = loaded.item /\ draft = loaded.item)'
    <2>1. TaskCalm(tasks[t], route, draft)
        BY <1>14 DEF Calm
    <2>2. result.item = route /\ hash.item = route
        BY <1>1, <1>4, <1>6, <2>1 DEF TaskCalm, hash
    <2>3. TaskCalm(k, route', draft')
        BY <1>6, <1>7, <1>10, <2>1, <2>2 DEF TaskCalm, Asks, Answered, Submits
    <2> QED BY <1>10, <1>14, <2>3 DEF Calm
<1>15. draft' # None \/ (draft' = draft /\ k.does # "switch")
    BY <1>7, <1>10 DEF ItemInv, SwitchesHaveDraft
<1> QED BY <1>8, <1>9, <1>10, <1>11, <1>12, <1>13, <1>14, <1>15, TaskStep
----------------------------------------------------------------------------
\* What a task with an answer knows, and what its content says when all is calm.
LEMMA AnswerFacts ==
    ASSUME ItemInv, NEW t \in Tasks, Answered(tasks[t])
    PROVE  LET r == tasks[t].result IN
           /\ r \in LoadedItems /\ r # None /\ r.hash \in Hashes /\ Exists(r.hash)
           /\ Content(r.hash) \in Contents
           /\ tasks[t].latest \in RevisionIds
           /\ tasks[t].history \in Histories /\ tasks[t].history # None
           /\ tasks[t].history.item = r.item
           /\ tasks[t].history.count <= indexed[r.item] /\ r.revision_id < tasks[t].history.count
           /\ ~ overtaken => r.item = route /\ r.hash.item = route /\ Content(r.hash).text = route
<1> DEFINE r == tasks[t].result
<1>1. tasks[t] \in TaskStates /\ TaskSound(tasks[t])
    BY DEF ItemInv, TasksSound
<1>2. r \in LoadedItems /\ tasks[t].history \in Histories /\ tasks[t].latest \in RevisionIds
    BY <1>1, TaskFields
<1>3. r.hash \in Hashes /\ Exists(r.hash)
    BY <1>1, <1>2 DEF LoadedItems, TaskSound
<1>4. r.hash.revision + 1 \in DOMAIN revisions[r.hash.item] /\ Content(r.hash) \in Contents
    <2>1. r.hash.item \in Items /\ r.hash.revision \in Nat
        BY <1>3, ItemAssumption DEF Hashes, RevisionIds
    <2>2. revisions[r.hash.item] \in Seq(Contents)
        BY <2>1 DEF ItemInv, ChainTypes
    <2>3. Len(revisions[r.hash.item]) \in Nat
        BY <2>2
    <2>4. r.hash.revision + 1 \in 1..Len(revisions[r.hash.item])
        BY <1>3, <2>1, <2>3 DEF Exists
    <2> QED BY <2>2, <2>4 DEF Content
<1>5. ASSUME ~ overtaken
      PROVE  r.item = route /\ r.hash.item = route /\ Content(r.hash).text = route
    <2>1. Calm
        BY <1>5 DEF ItemInv
    <2>2. r.item = route /\ r.hash.item = route
        BY <2>1 DEF Calm, TaskCalm
    <2>3. route \in Items
        BY DEF ItemInv, PageTypes
    <2> QED BY <1>4, <2>1, <2>2, <2>3 DEF Calm, ContentsCalm, Content
<1> QED BY <1>1, <1>2, <1>3, <1>4, <1>5, NoneAssumption DEF TaskSound

\* The first page of a load that ends.
LEMMA ItemLoadedKeeps ==
    ASSUME ItemInv, NEW t \in Tasks, ItemLoaded(t)
    PROVE  ItemInv'
<1> DEFINE r == tasks[t].result
           is_feed == Content(r.hash).kind = "Feed"
           k == IF is_feed THEN [does |-> "load", at |-> "posts"] ELSE [does |-> "load", at |-> "comments"]
<1>1. tasks \in [Tasks -> TaskStates] /\ Answered(tasks[t]) /\ tasks[t].does = "load" /\ tasks[t].at = "content"
    BY DEF ItemInv, TasksSound, ItemLoaded, Answered
<1>2. /\ r \in LoadedItems /\ r # None /\ r.hash \in Hashes /\ Exists(r.hash)
      /\ Content(r.hash) \in Contents
      /\ tasks[t].latest \in RevisionIds
      /\ tasks[t].history \in Histories /\ tasks[t].history.item = r.item
      /\ tasks[t].history.count <= indexed[r.item] /\ r.revision_id < tasks[t].history.count
      /\ ~ overtaken => r.item = route /\ r.hash.item = route /\ Content(r.hash).text = route
    BY <1>1, AnswerFacts
<1>3. /\ Becomes(t, k) /\ TaskSound(k) /\ k.does = "load" /\ k.at = IF is_feed THEN "posts" ELSE "comments"
      /\ is_feed => posts_loading' = TRUE /\ comments_loading' = comments_loading
      /\ ~ is_feed => comments_loading' = TRUE /\ posts_loading' = posts_loading
    <2>1. CASE is_feed
        <3>1. k = [does |-> "load", at |-> "posts"]
            BY <2>1
        <3> QED BY <2>1, <3>1, PlainTasks DEF ItemLoaded, Becomes
    <2>2. CASE ~ is_feed
        <3>1. k = [does |-> "load", at |-> "comments"]
            BY <2>2
        <3> QED BY <2>2, <3>1, PlainTasks DEF ItemLoaded, Becomes
    <2> QED BY <2>1, <2>2
<1>4. /\ chain_latest_revision_id' = tasks[t].latest
      /\ revision_history' = tasks[t].history
      /\ loaded' = r /\ draft' = Content(r.hash).text /\ selected_image' = FALSE
      /\ active_tab' = "View" /\ is_loading' = FALSE
      /\ UNCHANGED <<chain, client, route, revision_switching, is_saving, error_message, overtaken>>
    BY DEF ItemLoaded, ShowResult
<1> HIDE DEF k, r, is_feed
<1>5. PageTypes'
    <2>1. draft' \in Items /\ draft' # None
        BY <1>2, <1>4, ItemAssumption DEF Contents
    <2>2. is_feed \in BOOLEAN
        BY DEF is_feed
    <2> QED BY <1>2, <1>3, <1>4, <2>1, <2>2 DEF ItemInv, PageTypes, Exists, chain
<1>6. SpinnersMeanWork'
    <2>1. At("switch", {"query", "content"}) => At("switch", {"query", "content"})'
        BY <1>1, <1>3, PlacesKept
    <2>2. At("load", {"posts"}) => At("load", {"posts"})'
        BY <1>1, <1>3, PlacesKept
    <2>3. At("load", {"comments"}) => At("load", {"comments"})'
        BY <1>1, <1>3, PlacesKept
    <2>4. At("save", {"submit", "landed"}) => At("save", {"submit", "landed"})'
        BY <1>1, <1>3, PlacesKept
    <2>5. is_feed => At("load", {"posts"})'
        BY <1>1, <1>3, PlaceTaken
    <2>6. ~ is_feed => At("load", {"comments"})'
        BY <1>1, <1>3, PlaceTaken
    <2> QED BY <1>3, <1>4, <2>1, <2>2, <2>3, <2>4, <2>5, <2>6 DEF ItemInv, SpinnersMeanWork
<1>7. HistoryOfLoaded' /\ NotFoundMeansNoClient'
    BY <1>2, <1>4 DEF HistoryOfLoaded, NotFoundMeansNoClient
<1>8. TaskCalm(k, route', draft')
    BY <1>3 DEF TaskCalm, Asks, Answered, Submits
<1>9. draft' # None
    BY <1>2, <1>4, ItemAssumption DEF Contents
<1> QED BY <1>2, <1>3, <1>4, <1>5, <1>6, <1>7, <1>8, <1>9, TaskStep

\* A task that ends, for better or worse, or takes up the comments.
LEMMA TaskEndKeeps ==
    ASSUME ItemInv, NEW t \in Tasks,
           LoadFails(t) \/ PostsLoaded(t) \/ CommentsLoaded(t) \/ SwitchFails(t) \/ SaveFails(t)
    PROVE  ItemInv'
<1> USE DEF page, form, spinners
<1>0. tasks \in [Tasks -> TaskStates]
    BY DEF ItemInv, TasksSound
<1>1. /\ UNCHANGED <<chain, client, route, overtaken, revision_history, chain_latest_revision_id>>
      /\ UNCHANGED <<active_tab, draft, selected_image>>
    BY DEF LoadFails, PostsLoaded, CommentsLoaded, SwitchFails, SaveFails
<1>2. /\ loaded' = loaded \/ loaded' = None
      /\ error_message' \in BOOLEAN /\ is_loading' \in BOOLEAN /\ revision_switching' \in BOOLEAN
      /\ posts_loading' \in BOOLEAN /\ comments_loading' \in BOOLEAN /\ is_saving' \in BOOLEAN
    BY DEF LoadFails, PostsLoaded, CommentsLoaded, SwitchFails, SaveFails, ItemInv, PageTypes
<1>3. PageTypes'
    BY <1>1, <1>2 DEF ItemInv, PageTypes, Exists, chain
<1>4. HistoryOfLoaded' /\ NotFoundMeansNoClient'
    <2>1. (loaded' = loaded /\ is_loading' = is_loading /\ (error_message' \/ error_message' = error_message))
          \/ error_message'
        BY DEF LoadFails, PostsLoaded, CommentsLoaded, SwitchFails, SaveFails
    <2> QED BY <1>1, <1>2, <2>1 DEF ItemInv, HistoryOfLoaded, NotFoundMeansNoClient
<1>5. Calm => /\ draft' \in {draft, route}
              /\ (client /\ ~is_loading /\ loaded # None => loaded.item = route)'
              /\ (loaded # None => loaded.hash.item = loaded.item /\ draft = loaded.item)'
    <2>1. loaded' = None \/ is_loading' = is_loading
        BY DEF LoadFails, PostsLoaded, CommentsLoaded, SwitchFails, SaveFails
    <2> QED BY <1>1, <1>2, <2>1 DEF Calm
<1>6. CASE PostsLoaded(t)
    <2> DEFINE k == [does |-> "load", at |-> "comments"]
    <2>1. Becomes(t, k) /\ tasks[t].does = "load" /\ tasks[t].at = "posts"
        <3>1. [tasks[t] EXCEPT !.at = "comments"] = k
            BY <1>6 DEF PostsLoaded
        <3>2. tasks' = [tasks EXCEPT ![t] = [tasks[t] EXCEPT !.at = "comments"]]
            BY <1>0, <1>6 DEF PostsLoaded
        <3>3. tasks[t].does = "load" /\ tasks[t].at = "posts"
            BY <1>6 DEF PostsLoaded
        <3> HIDE DEF k
        <3> QED BY <3>1, <3>2, <3>3 DEF Becomes
    <2>2. TaskSound(k) /\ k.does = "load" /\ k.at = "comments"
        BY PlainTasks
    <2> HIDE DEF k
    <2>3. TaskCalm(k, route', draft')
        BY <2>2 DEF TaskCalm, Asks, Answered, Submits
    <2>4. SpinnersMeanWork'
        <3>1. At("load", {"query", "content"}) => At("load", {"query", "content"})'
            BY <1>0, <2>1, PlacesKept
        <3>2. At("switch", {"query", "content"}) => At("switch", {"query", "content"})'
            BY <1>0, <2>1, PlacesKept
        <3>3. At("load", {"comments"})'
            BY <1>0, <2>1, <2>2, PlaceTaken
        <3>4. At("save", {"submit", "landed"}) => At("save", {"submit", "landed"})'
            BY <1>0, <2>1, PlacesKept
        <3> QED BY <1>6, <3>1, <3>2, <3>3, <3>4 DEF PostsLoaded, ItemInv, SpinnersMeanWork
    <2> QED BY <1>1, <1>3, <1>4, <1>5, <2>1, <2>2, <2>3, <2>4, TaskStep
<1>7. CASE ~ PostsLoaded(t)
    <2>1. Becomes(t, Idle) /\ TaskSound(Idle) /\ Idle.does # "switch"
        BY <1>7, PlainTasks DEF Becomes, LoadFails, CommentsLoaded, SwitchFails, SaveFails
    <2>2. TaskCalm(Idle, route', draft')
        BY DEF TaskCalm, Asks, Answered, Submits, Idle
    <2>3. SpinnersMeanWork'
        <3>1. ASSUME NEW does, NEW places, At(does, places),
                     ~ (tasks[t].does = does /\ tasks[t].at \in places)
              PROVE  At(does, places)'
            BY <1>0, <2>1, <3>1, PlacesKept
        <3>2. CASE LoadFails(t)
            BY <3>1, <3>2 DEF LoadFails, ItemInv, SpinnersMeanWork
        <3>3. CASE CommentsLoaded(t)
            BY <3>1, <3>3 DEF CommentsLoaded, ItemInv, SpinnersMeanWork
        <3>4. CASE SwitchFails(t)
            BY <3>1, <3>4 DEF SwitchFails, ItemInv, SpinnersMeanWork
        <3>5. CASE SaveFails(t)
            BY <3>1, <3>5 DEF SaveFails, ItemInv, SpinnersMeanWork
        <3> QED BY <1>7, <3>2, <3>3, <3>4, <3>5
    <2> QED BY <1>1, <1>3, <1>4, <1>5, <2>1, <2>2, <2>3, TaskStep
<1> QED BY <1>6, <1>7
----------------------------------------------------------------------------
\* A change of revision asks for an entry of the history, or for the latest.
LEMMA SwitchKeeps ==
    ASSUME ItemInv, NEW t \in Tasks, NEW hash \in Hashes \cup {None}, Switch(t, hash),
           hash # None => /\ Exists(hash) /\ revision_history # None
                          /\ hash.item = revision_history.item
    PROVE  ItemInv'
<1> USE DEF page, form
<1> DEFINE k == Fetching("switch", route, hash)
<1>1. /\ tasks[t] = Idle /\ client /\ ~is_loading /\ loaded # None
      /\ Becomes(t, k) /\ revision_switching' = TRUE
      /\ UNCHANGED <<chain, client, route, page, form, is_loading, posts_loading, comments_loading,
                     is_saving, error_message, overtaken>>
    BY DEF Switch, Viewing, Becomes
<1>2. route \in Items /\ tasks \in [Tasks -> TaskStates] /\ tasks[t].does = "idle"
    BY <1>1 DEF ItemInv, PageTypes, TasksSound, Idle
<1>3. /\ TaskSound(k) /\ Asks(k) /\ ~ Answered(k) /\ ~ Submits(k)
      /\ k.does = "switch" /\ k.at = "query" /\ k.id = route /\ k.hash = hash
    <2>1. "switch" \in {"load", "switch"}
        OBVIOUS
    <2> QED BY <1>2, <2>1, PlainTasks
<1> HIDE DEF k
<1>4. PageTypes'
    BY <1>1 DEF ItemInv, PageTypes, Exists, chain
<1>5. SpinnersMeanWork'
    <2>1. ASSUME NEW does \in {"load", "save", "switch"}, NEW places, At(does, places)
          PROVE  At(does, places)'
        BY <1>1, <1>2, <2>1, PlacesKept
    <2>2. At("switch", {"query", "content"})'
        BY <1>1, <1>2, <1>3, PlaceTaken
    <2> QED BY <1>1, <2>1, <2>2 DEF ItemInv, SpinnersMeanWork
<1>6. HistoryOfLoaded' /\ NotFoundMeansNoClient'
    BY <1>1 DEF ItemInv, HistoryOfLoaded, NotFoundMeansNoClient
<1>7. ASSUME Calm
      PROVE  /\ TaskCalm(k, route', draft') /\ draft' \in {draft, route}
             /\ (client /\ ~is_loading /\ loaded # None => loaded.item = route)'
             /\ (loaded # None => loaded.hash.item = loaded.item /\ draft = loaded.item)'
    <2>1. loaded.item = route /\ draft = route
        BY <1>1, <1>7 DEF Calm
    <2>2. hash # None => hash.item = route
        BY <1>1, <2>1 DEF ItemInv, HistoryOfLoaded
    <2>3. TaskCalm(k, route', draft')
        BY <1>1, <1>3, <2>1, <2>2 DEF TaskCalm
    <2> QED BY <1>1, <1>7, <2>3 DEF Calm
<1>8. draft' # None
    BY <1>1 DEF ItemInv, PageTypes
<1> QED BY <1>1, <1>3, <1>4, <1>5, <1>6, <1>7, <1>8, TaskStep

\* The banner and the selector.
LEMMA SelectsKeep ==
    ASSUME ItemInv, NEW t \in Tasks,
           ViewLatest(t) \/ \E r \in RevisionIds : SelectRevision(t, r)
    PROVE  ItemInv'
<1>1. CASE ViewLatest(t)
    BY <1>1, SwitchKeeps DEF ViewLatest
<1>2. CASE \E r \in RevisionIds : SelectRevision(t, r)
    <2>1. PICK r \in RevisionIds : SelectRevision(t, r)
        BY <1>2
    <2> DEFINE hash == [item |-> revision_history.item, revision |-> r]
    <2>2. /\ revision_history \in Histories /\ r < revision_history.count
          /\ revision_history.count <= indexed[revision_history.item]
          /\ revision_history.item \in Items /\ revision_history.count \in 1..MaxRevisions
          /\ revision_history # None
        BY <2>1 DEF SelectRevision, ItemInv, PageTypes, Histories
    <2>3. hash \in Hashes /\ Exists(hash) /\ hash.item = revision_history.item
        BY <2>2, ItemAssumption DEF Hashes, Exists, ItemInv, ChainTypes, RevisionIds
    <2>4. Switch(t, None) \/ Switch(t, hash)
        BY <2>1 DEF SelectRevision
    <2> HIDE DEF hash
    <2> QED BY <2>2, <2>3, <2>4, SwitchKeeps
<1> QED BY <1>1, <1>2

\* The answer to a change of revision is shown with its own history.
LEMMA SwitchedKeeps ==
    ASSUME ItemInv, NEW t \in Tasks, Switched(t)
    PROVE  ItemInv'
<1> USE DEF form
<1> DEFINE r == tasks[t].result
<1>1. tasks \in [Tasks -> TaskStates] /\ Answered(tasks[t])
      /\ tasks[t].does = "switch" /\ tasks[t].at = "content"
    BY DEF ItemInv, TasksSound, Switched, Answered
<1>2. /\ r \in LoadedItems /\ r # None /\ Exists(r.hash)
      /\ tasks[t].latest \in RevisionIds
      /\ tasks[t].history \in Histories /\ tasks[t].history.item = r.item
      /\ tasks[t].history.count <= indexed[r.item] /\ r.revision_id < tasks[t].history.count
      /\ ~ overtaken => r.item = route /\ r.hash.item = route
    BY <1>1, AnswerFacts
<1>3. /\ chain_latest_revision_id' = tasks[t].latest
      /\ revision_history' = tasks[t].history /\ loaded' = r
      /\ revision_switching' = FALSE /\ Becomes(t, Idle)
      /\ UNCHANGED <<chain, client, route, form, is_loading, posts_loading, comments_loading,
                     is_saving, error_message, overtaken>>
    BY DEF Switched, ShowResult, Becomes
<1> HIDE DEF r
<1>4. draft # None /\ draft' = draft
    BY <1>1, <1>3 DEF ItemInv, SwitchesHaveDraft
<1>5. PageTypes'
    BY <1>2, <1>3, <1>4 DEF ItemInv, PageTypes, Exists, chain
<1>6. SpinnersMeanWork'
    <2>1. ASSUME NEW does \in {"load", "save"}, NEW places, At(does, places)
          PROVE  At(does, places)'
        BY <1>1, <1>3, <2>1, PlacesKept
    <2> QED BY <1>3, <2>1 DEF ItemInv, SpinnersMeanWork
<1>7. HistoryOfLoaded' /\ NotFoundMeansNoClient'
    BY <1>2, <1>3 DEF HistoryOfLoaded, NotFoundMeansNoClient
<1>8. ASSUME ~ overtaken, Calm
      PROVE  /\ draft' \in {draft, route}
             /\ (client /\ ~is_loading /\ loaded # None => loaded.item = route)'
             /\ (loaded # None => loaded.hash.item = loaded.item /\ draft = loaded.item)'
    <2>1. draft = route
        BY <1>1, <1>8 DEF Calm, TaskCalm
    <2> QED BY <1>2, <1>3, <1>8, <2>1
<1>9. TaskCalm(Idle, route', draft')
    BY DEF TaskCalm, Asks, Answered, Submits, Idle
<1>10. TaskSound(Idle)
    BY PlainTasks
<1> QED BY <1>3, <1>4, <1>5, <1>6, <1>7, <1>8, <1>9, <1>10, TaskStep
----------------------------------------------------------------------------
\* Saving takes the draft and the type of what is loaded, which are those of one
\* item when all is calm.
LEMMA SaveKeeps ==
    ASSUME ItemInv, NEW t \in Tasks, Save(t)
    PROVE  ItemInv'
<1> USE DEF page, form
<1> DEFINE c == Content(loaded.hash)
           k == [does |-> "save", at |-> "submit", id |-> loaded.item, text |-> draft,
                 image |-> IF selected_image THEN None ELSE c.image, kind |-> c.kind]
<1>1. /\ tasks[t] = Idle /\ loaded # None /\ ~is_loading /\ Becomes(t, k) /\ is_saving' = TRUE
      /\ UNCHANGED <<chain, client, route, page, form, is_loading, revision_switching,
                     posts_loading, comments_loading, error_message, overtaken>>
    BY DEF Save, Editing, Becomes
<1>2. /\ tasks \in [Tasks -> TaskStates] /\ tasks[t].does = "idle"
      /\ loaded \in LoadedItems /\ Exists(loaded.hash) /\ draft \in Items /\ draft # None
    BY <1>1 DEF ItemInv, PageTypes, TasksSound, Idle
<1>3. /\ loaded.hash.item \in Items /\ loaded.item \in Items
      /\ loaded.hash.revision + 1 \in DOMAIN revisions[loaded.hash.item] /\ c \in Contents
    <2>1. loaded.hash.item \in Items /\ loaded.item \in Items /\ loaded.hash.revision \in Nat
        BY <1>2, ItemAssumption DEF LoadedItems, Hashes, RevisionIds
    <2>2. revisions[loaded.hash.item] \in Seq(Contents) /\ Len(revisions[loaded.hash.item]) \in Nat
        BY <2>1 DEF ItemInv, ChainTypes
    <2>3. loaded.hash.revision + 1 \in 1..Len(revisions[loaded.hash.item])
        BY <1>2, <2>1, <2>2 DEF Exists
    <2> QED BY <2>1, <2>2, <2>3 DEF Content
<1>4. /\ k \in TaskStates /\ k.does = "save" /\ k.at = "submit"
      /\ k.id = loaded.item /\ k.text = draft /\ k.kind = c.kind
    <2> HIDE DEF c
    <2>1. c.image \in RevisionIds /\ c.kind \in {"Feed", "Content"}
        BY <1>3 DEF Contents
    <2> QED BY <1>2, <1>3, <2>1 DEF TaskStates
<1> HIDE DEF k, c
<1>5. TaskSound(k)
    BY <1>4 DEF TaskSound, Asks, Answered
<1>6. PageTypes'
    BY <1>1 DEF ItemInv, PageTypes, Exists, chain
<1>7. SpinnersMeanWork'
    <2>1. ASSUME NEW does \in {"load", "save", "switch"}, NEW places, At(does, places)
          PROVE  At(does, places)'
        BY <1>1, <1>2, <2>1, PlacesKept
    <2>2. At("save", {"submit", "landed"})'
        BY <1>1, <1>2, <1>4, PlaceTaken
    <2> QED BY <1>1, <2>1, <2>2 DEF ItemInv, SpinnersMeanWork
<1>8. HistoryOfLoaded' /\ NotFoundMeansNoClient'
    BY <1>1 DEF ItemInv, HistoryOfLoaded, NotFoundMeansNoClient
<1>9. ASSUME Calm
      PROVE  /\ TaskCalm(k, route', draft') /\ draft' \in {draft, route}
             /\ (client /\ ~is_loading /\ loaded # None => loaded.item = route)'
             /\ (loaded # None => loaded.hash.item = loaded.item /\ draft = loaded.item)'
    <2>1. loaded.hash.item = loaded.item /\ draft = loaded.item
        BY <1>1, <1>9 DEF Calm
    <2>2. c.kind = Kind(loaded.item)
        BY <1>3, <1>9, <2>1 DEF Calm, ContentsCalm, Content, c
    <2>3. TaskCalm(k, route', draft')
        BY <1>4, <2>1, <2>2 DEF TaskCalm, Asks, Answered, Submits
    <2> QED BY <1>1, <1>9, <2>3 DEF Calm
<1>10. draft' # None
    BY <1>1, <1>2
<1> QED BY <1>1, <1>5, <1>6, <1>7, <1>8, <1>9, <1>10, TaskStep
----------------------------------------------------------------------------
\* The chain and the indexer only grow: what exists goes on to.
ChainGrows ==
    /\ \A i \in Items : /\ Len(revisions[i]) <= Len(revisions'[i])
                        /\ indexed[i] <= indexed'[i]
    /\ ChainTypes /\ ChainTypes'

\* A chain that grows keeps every task sound: what it has read is still a prefix.
LEMMA GrowthKeepsSound ==
    ASSUME ChainGrows
    PROVE  /\ \A hash \in Hashes : Exists(hash) => Exists(hash)'
           /\ \A k \in TaskStates : TaskSound(k) => TaskSound(k)'
           /\ PageTypes /\ UNCHANGED <<client, route, page, form, spinners, error_message, overtaken>>
                => PageTypes'
<1>1. ASSUME NEW hash \in Hashes, Exists(hash) PROVE Exists(hash)'
    <2>1. hash.item \in Items /\ hash.revision \in Nat
        BY ItemAssumption DEF Hashes, RevisionIds
    <2>2. Len(revisions[hash.item]) \in Nat /\ Len(revisions'[hash.item]) \in Nat
        BY <2>1 DEF ChainGrows, ChainTypes
    <2> QED BY <1>1, <2>1, <2>2 DEF ChainGrows, Exists
<1>2. \A h \in Histories : h.count <= indexed[h.item] => h.count <= indexed'[h.item]
    <2>1. \A h \in Histories : h.item \in Items /\ h.count \in Nat
        BY ItemAssumption DEF Histories
    <2> QED BY <2>1 DEF ChainGrows, ChainTypes
<1>3. ASSUME NEW k \in TaskStates, TaskSound(k) PROVE TaskSound(k)'
    <2>1. /\ Asks(k) => k.hash \in Hashes \cup {None}
          /\ Answered(k) => k.history \in Histories /\ k.result.hash \in Hashes
        BY TaskFields DEF LoadedItems
    <2> QED BY <1>1, <1>2, <1>3, <2>1 DEF TaskSound
<1>4. ASSUME PageTypes, UNCHANGED <<client, route, page, form, spinners, error_message, overtaken>>
      PROVE  PageTypes'
    <2>1. loaded # None => loaded.hash \in Hashes
        BY <1>4 DEF PageTypes, LoadedItems
    <2>2. loaded # None => Exists(loaded.hash)'
        BY <1>1, <1>4, <2>1 DEF PageTypes, Exists, page
    <2>3. revision_history # None => revision_history.count <= indexed'[revision_history.item]
        BY <1>2, <1>4 DEF PageTypes
    <2> QED BY <1>4, <2>2, <2>3 DEF PageTypes, Exists, page, form, spinners
<1> QED BY <1>1, <1>3, <1>4

\* The revision an edit publishes keeps the invariant.
LEMMA SaveLandsKeeps ==
    ASSUME ItemInv, NEW t \in Tasks, SaveLands(t)
    PROVE  ItemInv'
<1> DEFINE id == tasks[t].id
           next == Len(revisions[id])
           c == [text |-> tasks[t].text, kind |-> tasks[t].kind,
                 image |-> IF tasks[t].image = None THEN next ELSE tasks[t].image]
           k == [does |-> "save", at |-> "landed"]
<1>1. /\ tasks \in [Tasks -> TaskStates] /\ tasks[t] \in TaskStates /\ Submits(tasks[t])
      /\ tasks[t].does = "save" /\ tasks[t].at = "submit"
    BY DEF ItemInv, TasksSound, SaveLands, Submits
<1>2. /\ id \in Items /\ tasks[t].text \in Items /\ tasks[t].image \in RevisionIds \cup {None}
      /\ tasks[t].kind \in {"Feed", "Content"}
    BY <1>1, TaskFields
<1>3. next \in 1..MaxRevisions /\ next < MaxRevisions
      /\ revisions \in [Items -> Seq(Contents)] /\ revisions[id] \in Seq(Contents)
    BY <1>2 DEF ItemInv, ChainTypes, SaveLands
<1>4. c \in Contents /\ c.text = tasks[t].text /\ c.kind = tasks[t].kind
    BY <1>2, <1>3, ItemAssumption DEF Contents, RevisionIds
<1>5. revisions' = [revisions EXCEPT ![id] = Append(@, c)]
      /\ UNCHANGED <<indexed, client, route, page, form, spinners, error_message, overtaken>>
      /\ Becomes(t, k)
    BY DEF SaveLands, Becomes
<1> HIDE DEF c
<1>6. /\ Append(revisions[id], c) \in Seq(Contents)
      /\ Len(Append(revisions[id], c)) = next + 1
      /\ \A n \in 1..next : Append(revisions[id], c)[n] = revisions[id][n]
      /\ Append(revisions[id], c)[next + 1] = c
    BY <1>3, <1>4, AppendProperties
<1>7. /\ revisions' \in [Items -> Seq(Contents)]
      /\ revisions'[id] = Append(revisions[id], c)
      /\ \A i \in Items \ {id} : revisions'[i] = revisions[i]
    BY <1>2, <1>3, <1>5, <1>6
<1>8. ChainGrows
    <2>1. \A i \in Items : Len(revisions[i]) \in 1..MaxRevisions /\ indexed[i] <= Len(revisions[i])
                           /\ indexed[i] \in Nat
        BY DEF ItemInv, ChainTypes
    <2>2. \A i \in Items : /\ Len(revisions'[i]) \in 1..MaxRevisions
                           /\ Len(revisions[i]) <= Len(revisions'[i])
        <3>1. next + 1 \in 1..MaxRevisions /\ Len(revisions'[id]) = next + 1
            BY <1>3, <1>6, <1>7, ItemAssumption
        <3>2. Len(revisions'[id]) \in 1..MaxRevisions /\ next <= Len(revisions'[id])
            BY <1>3, <3>1
        <3>3. \A i \in Items \ {id} : Len(revisions'[i]) = Len(revisions[i])
            BY <1>7
        <3>4. ASSUME NEW i \in Items PROVE Len(revisions[i]) <= Len(revisions[i])
            <4>1. Len(revisions[i]) \in Int
                BY <2>1
            <4> QED BY <4>1
        <3> QED BY <2>1, <3>2, <3>3, <3>4
    <2>3. \A i \in Items : indexed[i] <= Len(revisions'[i])
        BY <2>1, <2>2, ItemAssumption
    <2> QED BY <1>5, <1>7, <2>1, <2>2, <2>3 DEF ChainGrows, ItemInv, ChainTypes
<1>9. /\ tasks'[t] = k /\ k \in TaskStates /\ \A u \in Tasks \ {t} : tasks'[u] = tasks[u]
      /\ tasks' \in [Tasks -> TaskStates]
    BY <1>1, <1>5, BecomesFacts, PlainTasks DEF TaskSound
<1>10. TasksSound'
    <2>1. \A u \in Tasks : TaskSound(tasks'[u])
        BY <1>9, PlainTasks DEF ItemInv, TasksSound
    <2>2. \A u \in Tasks : TaskSound(tasks[u])'
        <3>1. ASSUME NEW u \in Tasks, NEW x \in TaskStates, x = tasks'[u] PROVE TaskSound(tasks[u])'
            <4>1. TaskSound(x)'
                BY <1>8, <2>1, <3>1, GrowthKeepsSound
            <4> QED BY <3>1, <4>1 DEF TaskSound, Exists
        <3> QED BY <1>9, <3>1
    <2> QED BY <1>9, <2>2 DEF TasksSound
<1>11. PageTypes'
    BY <1>5, <1>8, GrowthKeepsSound DEF ItemInv
<1>12. SpinnersMeanWork'
    <2>1. ASSUME NEW does \in {"load", "switch"}, NEW places, At(does, places)
          PROVE  At(does, places)'
        BY <1>1, <1>5, <2>1, PlacesKept
    <2>2. k.does = "save" /\ k.at \in {"submit", "landed"}
        OBVIOUS
    <2> HIDE DEF k
    <2>3. At("save", {"submit", "landed"})'
        BY <1>1, <1>5, <2>2, PlaceTaken
    <2> QED BY <2>3, <1>5, <2>1, <2>2 DEF ItemInv, SpinnersMeanWork, spinners
<1>13. HistoryOfLoaded' /\ NotFoundMeansNoClient'
    BY <1>5 DEF ItemInv, HistoryOfLoaded, NotFoundMeansNoClient, page, spinners
<1>14. SwitchesHaveDraft'
    BY <1>5, <1>9 DEF ItemInv, SwitchesHaveDraft, form
<1>15. ASSUME ~ overtaken' PROVE Calm'
    <2>1. Calm
        BY <1>5, <1>15 DEF ItemInv
    <2>2. c.text = id /\ c.kind = Kind(id)
        BY <1>1, <1>4, <2>1 DEF Calm, TaskCalm
    <2>3. ContentsCalm'
        <3>1. SUFFICES ASSUME NEW i \in Items, NEW n \in DOMAIN revisions'[i]
                       PROVE  revisions'[i][n].text = i /\ revisions'[i][n].kind = Kind(i)
            BY DEF ContentsCalm
        <3>2. ContentsCalm
            BY <2>1 DEF Calm
        <3>3. CASE i # id
            BY <1>7, <3>1, <3>2, <3>3 DEF ContentsCalm
        <3>4. CASE i = id
            <4>1. n \in 1..(next + 1) /\ DOMAIN revisions[id] = 1..next
                BY <1>3, <1>6, <1>7, <3>1, <3>4
            <4>2. CASE n = next + 1
                BY <1>6, <1>7, <2>2, <3>4, <4>2
            <4>3. CASE n # next + 1
                <5>1. n \in 1..next
                    BY <1>3, <4>1, <4>3
                <5> QED BY <1>2, <1>6, <1>7, <3>2, <3>4, <4>1, <5>1 DEF ContentsCalm
            <4> QED BY <4>2, <4>3
        <3> QED BY <3>3, <3>4
    <2>4. ASSUME NEW u \in Tasks PROVE TaskCalm(tasks'[u], route', draft')
        <3>1. TaskCalm(k, route', draft')
            BY DEF TaskCalm, Asks, Answered, Submits
        <3>2. TaskCalm(tasks[u], route', draft')
            BY <1>5, <2>1 DEF Calm, form
        <3> QED BY <1>9, <3>1, <3>2
    <2> QED BY <1>5, <2>1, <2>3, <2>4 DEF Calm, page, form, spinners
<1> QED BY <1>8, <1>10, <1>11, <1>12, <1>13, <1>14, <1>15 DEF ItemInv, ChainGrows

\* The indexer lists one revision more.
LEMMA IndexRevisionKeeps ==
    ASSUME ItemInv, NEW i \in Items, IndexRevision(i)
    PROVE  ItemInv'
<1>1. /\ indexed' = [indexed EXCEPT ![i] = indexed[i] + 1] /\ indexed[i] < Len(revisions[i])
      /\ UNCHANGED <<revisions, client, route, page, form, spinners, error_message, tasks, overtaken>>
    BY DEF IndexRevision
<1>2. ChainGrows
    <2>1. ChainTypes
        BY DEF ItemInv
    <2>2. \A j \in Items : /\ indexed[j] \in Nat /\ Len(revisions[j]) \in Int
                           /\ indexed'[j] = IF j = i THEN indexed[j] + 1 ELSE indexed[j]
        BY <1>1, <2>1 DEF ChainTypes
    <2>3. \A j \in Items : /\ indexed'[j] \in Nat /\ indexed[j] <= indexed'[j]
                           /\ indexed'[j] <= Len(revisions[j])
                           /\ Len(revisions[j]) <= Len(revisions[j])
        BY <1>1, <2>1, <2>2 DEF ChainTypes
    <2>4. ChainTypes'
        BY <1>1, <2>1, <2>3 DEF ChainTypes
    <2> QED BY <1>1, <2>1, <2>3, <2>4 DEF ChainGrows
<1>3. TasksSound'
    <2>1. ASSUME NEW u \in Tasks, NEW x \in TaskStates, x = tasks[u] PROVE TaskSound(tasks[u])'
        <3>1. TaskSound(x)'
            BY <1>2, <2>1, GrowthKeepsSound DEF ItemInv, TasksSound
        <3> QED BY <1>1, <2>1, <3>1 DEF TaskSound, Exists
    <2> QED BY <1>1, <2>1 DEF ItemInv, TasksSound
<1>4. PageTypes'
    BY <1>1, <1>2, GrowthKeepsSound DEF ItemInv
<1> USE DEF page, form, spinners
<1>5. SpinnersMeanWork' /\ HistoryOfLoaded' /\ NotFoundMeansNoClient' /\ SwitchesHaveDraft'
    BY <1>1 DEF ItemInv, SpinnersMeanWork, At, HistoryOfLoaded, NotFoundMeansNoClient, SwitchesHaveDraft
<1>6. ~ overtaken' => Calm'
    BY <1>1 DEF ItemInv, Calm, ContentsCalm
<1> QED BY <1>2, <1>3, <1>4, <1>5, <1>6 DEF ItemInv, ChainGrows

\* The tabs and the image picker touch the form alone, and nothing steps nowhere.
LEMMA FormStepKeeps ==
    ASSUME ItemInv, active_tab' \in {"View", "Edit"}, selected_image' \in BOOLEAN,
           UNCHANGED <<chain, client, route, page, draft, spinners, error_message, tasks, overtaken>>
    PROVE  ItemInv'
<1> USE DEF page, spinners
<1>1. ChainTypes' /\ TasksSound'
    BY ChainTypesKept DEF ItemInv, TasksSound, TaskSound, Exists, chain
<1>2. PageTypes'
    BY DEF ItemInv, PageTypes, Exists, chain
<1>3. SpinnersMeanWork' /\ HistoryOfLoaded' /\ NotFoundMeansNoClient' /\ SwitchesHaveDraft'
    BY DEF ItemInv, SpinnersMeanWork, At, HistoryOfLoaded, NotFoundMeansNoClient, SwitchesHaveDraft
<1>4. ~ overtaken' => Calm'
    BY DEF ItemInv, Calm, ContentsCalm, chain
<1> QED BY <1>1, <1>2, <1>3, <1>4 DEF ItemInv

\* So does everything the reader clicks or the application changes under the page.
LEMMA UserStepKeeps ==
    ASSUME ItemInv,
           \/ \E tab \in {"View", "Edit"} : OpenTab(tab)
           \/ CancelEdit \/ ChooseImage \/ UNCHANGED vars
    PROVE  ItemInv'
<1>1. active_tab \in {"View", "Edit"} /\ selected_image \in BOOLEAN
    BY DEF ItemInv, PageTypes
<1>2. /\ active_tab' \in {"View", "Edit"} /\ selected_image' \in BOOLEAN
      /\ UNCHANGED <<chain, client, route, page, draft, spinners, error_message, tasks, overtaken>>
    BY <1>1 DEF OpenTab, CancelEdit, ChooseImage, vars, form
<1> QED BY <1>2, FormStepKeeps
----------------------------------------------------------------------------
\* A page that has just been opened, with one revision of each item.
LEMMA InitItem == Init => ItemInv
<1> SUFFICES ASSUME Init PROVE ItemInv
    OBVIOUS
<1>1. /\ tasks = [t \in Tasks |-> Idle] /\ Idle.does = "idle" /\ Idle \in TaskStates /\ TaskSound(Idle)
      /\ loaded = None /\ revision_history = None /\ client = FALSE /\ overtaken = FALSE
    BY PlainTasks DEF Init
<1>2. ASSUME NEW i \in Items
      PROVE  /\ revisions[i] \in Seq(Contents) /\ Len(revisions[i]) = 1 /\ DOMAIN revisions[i] = {1}
             /\ revisions[i][1].text = i /\ revisions[i][1].kind = Kind(i)
             /\ indexed[i] \in 0..1
    <2> DEFINE c == [text |-> i, image |-> 0, kind |-> Kind(i)]
    <2>1. c \in Contents /\ c.text = i /\ c.kind = Kind(i)
        BY ItemAssumption DEF Contents, RevisionIds, Kind
    <2>2. revisions[i] = <<c>> /\ indexed[i] \in 0..1
        BY DEF Init
    <2> HIDE DEF c
    <2> QED BY <2>1, <2>2
<1>3. ChainTypes
    <2>1. revisions = [i \in Items |-> revisions[i]] /\ indexed \in [Items -> 0..1]
        BY DEF Init
    <2>2. revisions \in [Items -> Seq(Contents)]
        BY <1>2, <2>1
    <2>3. \A i \in Items : Len(revisions[i]) \in 1..MaxRevisions /\ indexed[i] <= Len(revisions[i])
        <3> SUFFICES ASSUME NEW i \in Items
                     PROVE  Len(revisions[i]) \in 1..MaxRevisions /\ indexed[i] <= Len(revisions[i])
            OBVIOUS
        <3>1. Len(revisions[i]) = 1 /\ indexed[i] \in 0..1
            BY <1>2
        <3>2. 1 \in 1..MaxRevisions
            BY ItemAssumption
        <3> QED BY <3>1, <3>2
    <2> QED BY <2>1, <2>2, <2>3 DEF ChainTypes
<1>4. TasksSound /\ SwitchesHaveDraft
    BY <1>1 DEF TasksSound, SwitchesHaveDraft
<1>5. PageTypes
    <2>1. 0 \in RevisionIds
        BY ItemAssumption DEF RevisionIds
    <2>2. loaded \in LoadedItems \cup {None} /\ revision_history \in Histories \cup {None}
        BY <1>1
    <2>3. chain_latest_revision_id \in RevisionIds
        BY <2>1 DEF Init
    <2> QED BY <1>1, <2>1, <2>2, <2>3 DEF Init, PageTypes
<1>6. SpinnersMeanWork /\ HistoryOfLoaded /\ NotFoundMeansNoClient
    BY <1>1 DEF Init, SpinnersMeanWork, HistoryOfLoaded, NotFoundMeansNoClient
<1>7. Calm
    <2>1. ContentsCalm
        BY <1>2 DEF ContentsCalm
    <2>2. \A t \in Tasks : TaskCalm(tasks[t], route, draft)
        BY <1>1 DEF TaskCalm, Asks, Answered, Submits
    <2> QED BY <1>1, <2>1, <2>2 DEF Calm
<1> QED BY <1>3, <1>4, <1>5, <1>6, <1>7 DEF ItemInv

\* One step per action.
LEMMA NextKeepsItem == ItemInv /\ [Next]_vars => ItemInv'
<1> SUFFICES ASSUME ItemInv, [Next]_vars PROVE ItemInv'
    OBVIOUS
<1>1. ASSUME NEW t \in Tasks, Advance(t) PROVE ItemInv'
    BY <1>1, QueryAnsweredKeeps, ItemLoadedKeeps, TaskEndKeeps, SwitchedKeeps, SaveLandsKeeps,
       EffectActionsKeep
       DEF Advance
<1>2. ASSUME NEW t \in Tasks,
             \/ \E i \in Items : Navigate(t, i)
             \/ \E present \in BOOLEAN : ClientChanges(t, present)
             \/ CommentPublished(t)
      PROVE ItemInv'
    BY <1>2, EffectActionsKeep
<1>3. ASSUME NEW t \in Tasks, ViewLatest(t) \/ \E r \in RevisionIds : SelectRevision(t, r)
      PROVE ItemInv'
    BY <1>3, SelectsKeep
<1>4. ASSUME NEW t \in Tasks, Save(t) PROVE ItemInv'
    BY <1>4, SaveKeeps
<1>5. CASE (\E tab \in {"View", "Edit"} : OpenTab(tab)) \/ CancelEdit \/ ChooseImage \/ UNCHANGED vars
    BY <1>5, UserStepKeeps
<1>6. ASSUME NEW i \in Items, IndexRevision(i) PROVE ItemInv'
    BY <1>6, IndexRevisionKeeps
<1> QED BY <1>1, <1>2, <1>3, <1>4, <1>5, <1>6 DEF Next

\* The inductive invariant holds in every reachable state.
LEMMA ItemInvariant == Spec => []ItemInv
BY InitItem, NextKeepsItem, PTL DEF Spec
----------------------------------------------------------------------------
\* The page, its tasks, the chain and the indexer keep their types, and what is
\* loaded stays on the chain.
THEOREM ItemTypes == Spec => []TypeOK
<1>1. ItemInv => TypeOK
    <2> SUFFICES ASSUME ItemInv PROVE TypeOK
        OBVIOUS
    <2>1. ASSUME NEW i \in Items
          PROVE  /\ DOMAIN revisions[i] \in {1..n : n \in 1..MaxRevisions}
                 /\ \A n \in DOMAIN revisions[i] : revisions[i][n] \in Contents
                 /\ indexed[i] \in 0..Len(revisions[i])
        <3>1. revisions[i] \in Seq(Contents) /\ Len(revisions[i]) \in 1..MaxRevisions
              /\ indexed[i] \in Nat /\ indexed[i] <= Len(revisions[i])
            BY DEF ItemInv, ChainTypes
        <3>2. DOMAIN revisions[i] = 1..Len(revisions[i])
            BY <3>1
        <3> QED BY <3>1, <3>2
    <2> QED BY <2>1 DEF ItemInv, PageTypes, Exists, TasksSound, TypeOK
<1> QED BY ItemInvariant, <1>1, PTL

\* A spinner never outlives the tasks that will turn it off, whichever overtakes
\* which.
THEOREM ItemSpinners == Spec => []SpinnersMeanWork
<1>1. ItemInv => SpinnersMeanWork
    BY DEF ItemInv
<1> QED BY ItemInvariant, <1>1, PTL

\* The history on display is that of the item on display, and lists its revision.
THEOREM ItemHistory == Spec => []HistoryOfLoaded
<1>1. ItemInv => HistoryOfLoaded
    BY DEF ItemInv
<1> QED BY ItemInvariant, <1>1, PTL

\* "Item not found" is shown only where there was no indexer to ask.
THEOREM ItemNotFound == Spec => []NotFoundMeansNoClient
<1>1. ItemInv => NotFoundMeansNoClient
    BY DEF ItemInv
<1> QED BY ItemInvariant, <1>1, PTL

\* Unless a change of route overtakes a task, the page shows and edits the item of
\* its route, and no item is published with the text or the type of another.
THEOREM ItemCalm == Spec => []CalmIsCoherent
<1>1. ItemInv => CalmIsCoherent
    BY DEF ItemInv, Calm, ContentsCalm, CalmIsCoherent
<1> QED BY ItemInvariant, <1>1, PTL

\* Unless a change of route overtakes a task, what is shown as a revision of the
\* item is one, of whatever answered last.
THEOREM CalmShowsRevisionOfItem == Spec => [](~ overtaken => ShowsRevisionOfItem)
<1>1. ItemInv => (~ overtaken => ShowsRevisionOfItem)
    BY DEF ItemInv, Calm, ShowsRevisionOfItem
<1> QED BY ItemInvariant, <1>1, PTL
----------------------------------------------------------------------------
(* The images: each was brought by a revision of the item that shows it.   *)

\* Of an item's revisions, revision m came with an image of its own.
BroughtBy(published, m) == m < Len(published) /\ published[m + 1].image = m

\* No revision has an image that was chosen for a later one, or for no revision
\* of its item.
ImagesOfItem ==
    \A i \in Items : \A n \in DOMAIN revisions[i] :
        revisions[i][n].image < n /\ BroughtBy(revisions[i], revisions[i][n].image)

\* Nor will have, by a save under way.
SavesBring ==
    \A t \in Tasks : Submits(tasks[t])
        => tasks[t].image = None \/ BroughtBy(revisions[tasks[t].id], tasks[t].image)

ImageInv == ~ overtaken => ImagesOfItem /\ SavesBring

\* Saves apart, no step changes the revisions or starts a save.
LEMMA OtherStepsKeepImages ==
    ASSUME ImageInv, UNCHANGED revisions, ~ overtaken' => ~ overtaken,
           \A t \in Tasks : tasks'[t] = tasks[t] \/ ~ Submits(tasks'[t])
    PROVE  ImageInv'
BY DEF ImageInv, ImagesOfItem, SavesBring, BroughtBy, Submits

\* A save takes its image from the revision loaded, which is the item's own.
LEMMA SaveKeepsImages ==
    ASSUME ItemInv, ImageInv, NEW t \in Tasks, Save(t)
    PROVE  ImageInv'
<1> DEFINE k == [does |-> "save", at |-> "submit", id |-> loaded.item, text |-> draft,
                 image |-> IF selected_image THEN None ELSE Content(loaded.hash).image,
                 kind |-> Content(loaded.hash).kind]
<1>1. tasks' = [tasks EXCEPT ![t] = k] /\ UNCHANGED <<revisions, overtaken>> /\ loaded # None
    BY DEF Save, Editing, chain
<1>2. tasks'[t] = k /\ \A u \in Tasks \ {t} : tasks'[u] = tasks[u]
    BY <1>1 DEF ItemInv, TasksSound
<1>3. SUFFICES ASSUME ~ overtaken PROVE ImagesOfItem' /\ SavesBring'
    BY <1>1 DEF ImageInv
<1>4. ImagesOfItem'
    BY <1>1, <1>3 DEF ImageInv, ImagesOfItem, BroughtBy
<1>5. BroughtBy(revisions[loaded.item], Content(loaded.hash).image)
    <2>1. loaded \in LoadedItems /\ Exists(loaded.hash) /\ loaded.hash.item = loaded.item
        BY <1>1, <1>3 DEF ItemInv, PageTypes, Calm
    <2>2. /\ loaded.item \in Items /\ loaded.hash.revision \in Nat
          /\ revisions[loaded.item] \in Seq(Contents)
        BY <2>1 DEF LoadedItems, Hashes, RevisionIds, ItemInv, ChainTypes
    <2>3. loaded.hash.revision + 1 \in DOMAIN revisions[loaded.item]
        BY <2>1, <2>2 DEF Exists
    <2> QED BY <1>3, <2>1, <2>2, <2>3 DEF ImageInv, ImagesOfItem, Content
<1>6. ASSUME NEW u \in Tasks, Submits(tasks'[u])
      PROVE  tasks'[u].image = None \/ BroughtBy(revisions[tasks'[u].id], tasks'[u].image)
    <2>1. CASE u = t
        BY <1>2, <1>5, <2>1
    <2>2. CASE u # t
        BY <1>2, <1>3, <1>6, <2>2 DEF ImageInv, SavesBring
    <2> QED BY <2>1, <2>2
<1> QED BY <1>1, <1>4, <1>6 DEF SavesBring, BroughtBy, Submits

\* The chain takes a revision with an image of its own, or one already there.
LEMMA LandingKeepsImages ==
    ASSUME ItemInv, ImageInv, NEW t \in Tasks, SaveLands(t)
    PROVE  ImageInv'
<1> DEFINE id == tasks[t].id
           next == Len(revisions[id])
           image == IF tasks[t].image = None THEN next ELSE tasks[t].image
           c == [text |-> tasks[t].text, kind |-> tasks[t].kind, image |-> image]
<1>1. /\ revisions' = [revisions EXCEPT ![id] = Append(@, c)] /\ UNCHANGED overtaken
      /\ tasks' = [tasks EXCEPT ![t] = [does |-> "save", at |-> "landed"]]
      /\ Submits(tasks[t])
    BY DEF SaveLands, Submits
<1>2. /\ tasks[t] \in TaskStates /\ tasks \in [Tasks -> TaskStates]
      /\ \A u \in Tasks : tasks[u] \in TaskStates
    BY DEF ItemInv, TasksSound
<1>3. /\ id \in Items /\ tasks[t].image \in RevisionIds \cup {None}
      /\ tasks[t].text \in Items /\ tasks[t].kind \in {"Feed", "Content"}
    BY <1>1, <1>2, TaskFields
<1>4. /\ revisions \in [Items -> Seq(Contents)] /\ \A i \in Items : Len(revisions[i]) \in 1..MaxRevisions
      /\ next \in Nat /\ next < MaxRevisions
    BY <1>3 DEF ItemInv, ChainTypes, SaveLands
<1>5. c \in Contents /\ c.image = image /\ image \in Nat
    BY <1>3, <1>4, ItemAssumption DEF Contents, RevisionIds
<1>6. SUFFICES ASSUME ~ overtaken PROVE ImagesOfItem' /\ SavesBring'
    BY <1>1 DEF ImageInv
<1>7. image = next \/ (image < next /\ revisions[id][image + 1].image = image)
    BY <1>1, <1>6 DEF ImageInv, SavesBring, BroughtBy
<1> HIDE DEF c
<1>8. /\ Len(Append(revisions[id], c)) = next + 1
      /\ \A n \in 1..next : Append(revisions[id], c)[n] = revisions[id][n]
      /\ Append(revisions[id], c)[next + 1] = c
      /\ DOMAIN Append(revisions[id], c) = 1..(next + 1)
    BY <1>3, <1>4, <1>5, AppendProperties
<1>9. /\ revisions'[id] = Append(revisions[id], c)
      /\ \A i \in Items \ {id} : revisions'[i] = revisions[i]
    BY <1>1, <1>3, <1>4
<1>10. ASSUME NEW i \in Items, NEW m \in Nat, BroughtBy(revisions[i], m) PROVE BroughtBy(revisions'[i], m)
    <2>1. CASE i = id
        <3>1. m < next /\ revisions[id][m + 1].image = m /\ m + 1 \in 1..next /\ m < next + 1
            BY <1>4, <1>10, <2>1 DEF BroughtBy
        <3> QED BY <1>8, <1>9, <2>1, <3>1 DEF BroughtBy
    <2>2. CASE i # id
        BY <1>9, <1>10, <2>2 DEF BroughtBy
    <2> QED BY <2>1, <2>2
<1>11. BroughtBy(revisions'[id], image)
    <2>1. CASE image = next
        BY <1>4, <1>5, <1>8, <1>9, <2>1 DEF BroughtBy
    <2>2. CASE image # next
        <3>1. BroughtBy(revisions[id], image)
            BY <1>7, <2>2 DEF BroughtBy
        <3> HIDE DEF image
        <3> QED BY <1>3, <1>5, <1>10, <3>1 DEF BroughtBy
    <2> QED BY <2>1, <2>2
<1> HIDE DEF image, next, id
<1>12. ASSUME NEW i \in Items, NEW n \in DOMAIN revisions'[i]
       PROVE  revisions'[i][n].image < n /\ BroughtBy(revisions'[i], revisions'[i][n].image)
    <2>1. CASE i = id /\ n = next + 1
        <3>1. revisions'[i][n].image = image
            BY <1>5, <1>8, <1>9, <2>1 DEF next
        <3>2. image < n
            BY <1>4, <1>5, <1>7, <2>1
        <3> QED BY <1>11, <2>1, <3>1, <3>2
    <2>2. CASE ~ (i = id /\ n = next + 1)
        <3>1. n \in DOMAIN revisions[i] /\ revisions'[i][n] = revisions[i][n]
            <4>1. revisions[id] \in Seq(Contents) /\ DOMAIN revisions[id] = 1..next
                BY <1>3, <1>4 DEF id, next
            <4>2. CASE i = id
                <5>1. n \in 1..next
                    BY <1>4, <1>8, <1>9, <1>12, <2>2, <4>2
                <5> QED BY <1>8, <1>9, <4>1, <4>2, <5>1
            <4>3. CASE i # id
                BY <1>9, <1>12, <4>3
            <4> QED BY <4>2, <4>3
        <3>2. revisions[i][n].image < n /\ BroughtBy(revisions[i], revisions[i][n].image)
            BY <1>6, <3>1 DEF ImageInv, ImagesOfItem
        <3>3. revisions[i][n].image \in Nat
            <4>1. revisions[i] \in Seq(Contents)
                BY <1>4
            <4>2. revisions[i][n] \in Contents
                BY <3>1, <4>1, ElementOfSeq, LenProperties
            <4> QED BY <4>2 DEF Contents, RevisionIds
        <3>4. BroughtBy(revisions'[i], revisions[i][n].image)
            BY <1>10, <3>2, <3>3 DEF BroughtBy
        <3> QED BY <3>1, <3>2, <3>4
    <2> QED BY <2>1, <2>2
<1>13. ASSUME NEW u \in Tasks, Submits(tasks'[u])
       PROVE  tasks'[u].image = None \/ BroughtBy(revisions'[tasks'[u].id], tasks'[u].image)
    <2>1. u # t /\ tasks'[u] = tasks[u]
        BY <1>1, <1>2, <1>13 DEF Submits
    <2>2. tasks[u].id \in Items /\ tasks[u].image \in RevisionIds \cup {None}
        BY <1>2, <1>13, <2>1, TaskFields
    <2>3. tasks[u].image = None \/ BroughtBy(revisions[tasks[u].id], tasks[u].image)
        BY <1>6, <1>13, <2>1 DEF ImageInv, SavesBring
    <2>4. tasks[u].image # None => tasks[u].image \in Nat
        BY <2>2 DEF RevisionIds
    <2> QED BY <1>10, <2>1, <2>2, <2>3, <2>4
<1> QED BY <1>12, <1>13 DEF ImagesOfItem, SavesBring, BroughtBy, Submits

\* A task that goes on as anything but a save under way.
LEMMA TaskStepKeepsImages ==
    ASSUME TasksSound, ImageInv, UNCHANGED revisions, ~ overtaken' => ~ overtaken,
           NEW t \in Tasks, NEW k, Becomes(t, k), ~ Submits(k)
    PROVE  ImageInv'
<1>1. tasks'[t] = k /\ \A u \in Tasks \ {t} : tasks'[u] = tasks[u]
    BY BecomesFacts DEF TasksSound
<1>2. \A u \in Tasks : tasks'[u] = tasks[u] \/ ~ Submits(tasks'[u])
    BY <1>1
<1> QED BY <1>2, OtherStepsKeepImages

\* Every other action of a task ends it, or has it ask, show or list.
LEMMA AdvanceKeepsImages ==
    ASSUME ItemInv, ImageInv, NEW t \in Tasks, Advance(t)
    PROVE  ImageInv'
<1> USE DEF Becomes, Submits
<1>1. TasksSound
    BY DEF ItemInv
<1>2. ~ Submits(Idle)
    BY DEF Idle
<1>3. CASE QueryAnswered(t)
    <2>1. tasks'[t].at = "content" /\ \A u \in Tasks \ {t} : tasks'[u] = tasks[u]
        BY <1>1, <1>3 DEF QueryAnswered, TasksSound
    <2>2. \A u \in Tasks : tasks'[u] = tasks[u] \/ ~ Submits(tasks'[u])
        BY <2>1
    <2>3. UNCHANGED <<revisions, overtaken>>
        BY <1>3 DEF QueryAnswered, chain
    <2> QED BY <2>2, <2>3, OtherStepsKeepImages
<1>4. CASE ItemLoaded(t)
    <2>1. PICK k \in {[does |-> "load", at |-> "posts"], [does |-> "load", at |-> "comments"]} :
            Becomes(t, k)
        BY <1>4 DEF ItemLoaded
    <2> QED BY <1>1, <1>4, <2>1, TaskStepKeepsImages DEF ItemLoaded, chain
<1>5. CASE LoadFails(t) \/ CommentsLoaded(t) \/ Switched(t) \/ SwitchFails(t) \/ SaveFails(t)
    <2>1. Becomes(t, Idle) /\ UNCHANGED <<revisions, overtaken>>
        BY <1>5 DEF LoadFails, CommentsLoaded, Switched, SwitchFails, SaveFails, chain
    <2> QED BY <1>1, <1>2, <2>1, TaskStepKeepsImages
<1>6. CASE PostsLoaded(t)
    <2>1. tasks'[t].at = "comments" /\ \A u \in Tasks \ {t} : tasks'[u] = tasks[u]
        BY <1>1, <1>6 DEF PostsLoaded, TasksSound
    <2>2. \A u \in Tasks : tasks'[u] = tasks[u] \/ ~ Submits(tasks'[u])
        BY <2>1
    <2>3. UNCHANGED <<revisions, overtaken>>
        BY <1>6 DEF PostsLoaded, chain
    <2> QED BY <2>2, <2>3, OtherStepsKeepImages
<1>7. CASE SaveLands(t)
    BY <1>7, LandingKeepsImages
<1>8. CASE SaveFinished(t)
    <2>1. PICK k \in {Fetching("load", route', None), Idle} : Becomes(t, k)
        BY <1>8 DEF SaveFinished, LoadEffect
    <2>2. ~ Submits(k)
        BY <1>2, <2>1 DEF Fetching
    <2> QED BY <1>1, <1>8, <2>1, <2>2, TaskStepKeepsImages DEF SaveFinished, EffectUnchanged, chain
<1> QED BY <1>3, <1>4, <1>5, <1>6, <1>7, <1>8 DEF Advance

\* One step per action.
LEMMA NextKeepsImages == ItemInv /\ ImageInv /\ [Next]_vars => ImageInv'
<1> SUFFICES ASSUME ItemInv, ImageInv, [Next]_vars PROVE ImageInv'
    OBVIOUS
<1> USE DEF Becomes, Submits
<1>1. TasksSound
    BY DEF ItemInv
<1>2. ASSUME NEW t \in Tasks,
             \/ \E i \in Items : Navigate(t, i)
             \/ \E present \in BOOLEAN : ClientChanges(t, present)
             \/ CommentPublished(t)
      PROVE  ImageInv'
    <2>1. PICK k \in {Fetching("load", route', None), Idle} : Becomes(t, k)
        BY <1>2 DEF Navigate, ClientChanges, CommentPublished, LoadEffect
    <2>2. ~ Submits(k)
        BY <2>1 DEF Fetching, Idle
    <2>3. UNCHANGED revisions
        BY <1>2 DEF Navigate, ClientChanges, CommentPublished, EffectUnchanged, chain
    <2>4. ~ overtaken' => ~ overtaken
        BY <1>2 DEF Navigate, ClientChanges, CommentPublished
    <2> QED BY <1>1, <2>1, <2>2, <2>3, <2>4, TaskStepKeepsImages
<1>3. ASSUME NEW t \in Tasks, ViewLatest(t) \/ \E r \in RevisionIds : SelectRevision(t, r)
      PROVE  ImageInv'
    <2>1. PICK h : Switch(t, h)
        BY <1>3 DEF ViewLatest, SelectRevision
    <2>2. Becomes(t, Fetching("switch", route, h)) /\ UNCHANGED <<revisions, overtaken>>
        BY <2>1 DEF Switch, chain
    <2>3. ~ Submits(Fetching("switch", route, h))
        BY DEF Fetching
    <2> QED BY <1>1, <2>2, <2>3, TaskStepKeepsImages
<1>4. ASSUME NEW t \in Tasks, Save(t) PROVE ImageInv'
    BY <1>4, SaveKeepsImages
<1>5. ASSUME NEW t \in Tasks, Advance(t) PROVE ImageInv'
    BY <1>5, AdvanceKeepsImages
<1>6. ASSUME UNCHANGED <<revisions, tasks, overtaken>> PROVE ImageInv'
    BY <1>6, OtherStepsKeepImages
<1>7. CASE (\E tab \in {"View", "Edit"} : OpenTab(tab)) \/ CancelEdit \/ ChooseImage \/ UNCHANGED vars
           \/ \E i \in Items : IndexRevision(i)
    BY <1>6, <1>7 DEF OpenTab, CancelEdit, ChooseImage, IndexRevision, vars, chain
<1> QED BY <1>2, <1>3, <1>4, <1>5, <1>7 DEF Next

\* Unless a change of route overtakes a task, a save publishes an image chosen for
\* that revision or for an earlier one of the same item, though not always the
\* current one's: retaining the image of what is loaded invents or borrows none.
THEOREM CalmImages == Spec => [](~ overtaken => ImagesOfItem)
<1>1. Init => ImageInv
    <2> SUFFICES ASSUME Init PROVE ImagesOfItem /\ SavesBring
        BY DEF ImageInv
    <2>1. ASSUME NEW i \in Items
          PROVE  DOMAIN revisions[i] = {1} /\ Len(revisions[i]) = 1 /\ revisions[i][1].image = 0
        <3> DEFINE c == [text |-> i, image |-> 0, kind |-> Kind(i)]
        <3>1. revisions[i] = <<c>> /\ c.image = 0
            BY DEF Init
        <3> HIDE DEF c
        <3> QED BY <3>1
    <2>2. ImagesOfItem
        BY <2>1 DEF ImagesOfItem, BroughtBy
    <2>3. SavesBring
        BY DEF Init, Idle, SavesBring, Submits
    <2> QED BY <2>2, <2>3
<1>2. ImageInv => (~ overtaken => ImagesOfItem)
    BY DEF ImageInv
<1> QED BY ItemInvariant, NextKeepsImages, <1>1, <1>2, PTL DEF Spec
=============================================================================
