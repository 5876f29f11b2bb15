---------------------------- MODULE PagesProofs ----------------------------
(***************************************************************************)
(* Proofs about the pages that load and publish, for any accounts, items,  *)
(* submissions and loads.  OneProfilePerAccount holds because a first save *)
(* is seen to its end before the next one starts, and because what the     *)
(* page has on hand stays true of the chain for as long as the page is on  *)
(* display; the invariant below says so piece by piece.                    *)
(***************************************************************************)
EXTENDS Pages, SequenceTheorems, TLAPS

IsFirst(r, a) == r.kind = "profile" /\ r.revises = None /\ r.signer = a

HasProfileItem(a) ==
    \E i \in DOMAIN items : items[i].kind = "profile" /\ items[i].owner = a

\* A pointer points to a profile item of its account.
PointersSound ==
    \A a \in Accounts : profile[a] # None =>
        /\ profile[a] \in DOMAIN items
        /\ items[profile[a]].kind = "profile" /\ items[profile[a]].owner = a

RequestSound(r) ==
    r.revises # None => /\ r.kind = "profile"
                        /\ r.revises \in DOMAIN items
                        /\ items[r.revises].kind = "profile"

\* Only profile items are revised.
RequestsSound ==
    /\ \A s \in Slots : pool[s] # Free => RequestSound(pool[s])
    /\ is_saving => RequestSound(publishing.request)

\* The part of TypeOK about a page p on route r.
PageTypes(r, p) ==
    /\ r \in Routes /\ p \in Pages
    /\ LoadsOf(p) # {} => r.on \in {"view", "edit", "post"}
    /\ \A t \in LoadsOf(p) : p.loads[t].for = None <=> r.on = "post"

\* What is on a route, loading or loaded is on the chain, and a profile item except
\* on the post page.
PageSound(r, p) ==
    /\ r.on = "post" => r.feed \in DOMAIN items
    /\ \A t \in LoadsOf(p) : p.loads[t].at = "revision" =>
           /\ p.loads[t].item \in DOMAIN items
           /\ p.loads[t].for # None => items[p.loads[t].item].kind = "profile"
    /\ p.loaded.item # None =>
           /\ p.loaded.item \in DOMAIN items
           /\ r.on # "post" => items[p.loaded.item].kind = "profile"

\* A first save that nobody watches is one that was given up.
FirstsWatched ==
    /\ publishing.at = "submitted" => pool[publishing.slot] = publishing.request
    /\ \A s \in Slots, a \in Accounts \ doubtful :
           pool[s] # Free /\ IsFirst(pool[s], a) => Watched(s)

\* A first save finds no profile item, and makes the one it lands as.
FirstsAreFirst ==
    \A a \in Accounts \ doubtful :
        is_saving /\ IsFirst(publishing.request, a) =>
            IF publishing.at = "landed" THEN publishing.item = profile[a]
            ELSE ~ HasProfileItem(a)

\* "No profile" stays true of the account it was found of, until its first save lands.
NoneIsNone ==
    \A a \in Accounts \ doubtful :
        /\ page.loaded.of = a /\ page.loaded.item = None
        /\ ~ (publishing.at = "landed" /\ IsFirst(publishing.request, a))
        => ~ HasProfileItem(a)

\* What landed is an item of the signer's; a feed is listed.
LandedSound ==
    publishing.at = "landed" =>
        /\ publishing.item \in DOMAIN items
        /\ items[publishing.item].owner = publishing.request.signer
        /\ items[publishing.item].kind = publishing.request.kind
        /\ publishing.request.kind = "feed" =>
               publishing.item \in listed[publishing.request.signer]

\* The view, unless loads raced on it, has one load at most, and with a client
\* that load is for the active account.
ViewInv(r, p, address, connected) ==
    r.on = "view" /\ ~ p.raced =>
        /\ \A t, u \in LoadsOf(p) : t = u
        /\ connected => /\ \A t \in LoadsOf(p) : p.loads[t].for = address
                        /\ LoadsOf(p) = {} => p.loaded.of \in {address, None}

SpinnerInv(r, p) ==
    p.is_loading => LoadsOf(p) # {} \/ (r.on = "post" /\ p.loaded = Blank)

\* A page p on route r, with the account and client its effect has read.
PageInv(r, p, address, connected) ==
    PageTypes(r, p) /\ PageSound(r, p) /\ ViewInv(r, p, address, connected) /\ SpinnerInv(r, p)

ChainInv == PointersSound /\ RequestsSound /\ FirstsWatched /\ FirstsAreFirst
            /\ OneProfilePerAccount /\ LandedSound

PagesInv == TypeOK /\ ChainInv /\ NoneIsNone /\ PageInv(route, page, active, client)
----------------------------------------------------------------------------
\* None and Free mark what is absent.
LEMMA Markers ==
    /\ None \notin Accounts /\ None \notin ItemIds /\ None \notin Loads
    /\ Free \notin Requests
<1>1. None \notin Accounts /\ None \notin ItemIds
    BY PublishingAssumption DEF ItemIds
<1>2. \A r \in Requests : r.kind \in Kinds
    BY DEF Requests
<1>3. Free.kind \notin Kinds
    BY DEF Free, Kinds
<1> QED BY <1>1, <1>2, <1>3, LoadAssumption

\* The load that q has and p has not, for a page r of the account address.
Spawned(r, address, p, q) ==
    \E t \in LoadTasks, load \in Loads :
        /\ p.loads[t] = None
        /\ q = [p EXCEPT !.loads[t] = load, !.is_loading = TRUE, !.raced = Racing(r, p)]
        /\ load = IF r.on = "post" THEN [for |-> None, at |-> "revision", item |-> r.feed]
                  ELSE [for |-> address, at |-> "pointer"]
        /\ load.for = None <=> r.on = "post"

\* The loads after a spawn are the old ones and the one spawned for the page.
LEMMA SpawnShape ==
    ASSUME NEW r, NEW address, NEW p, NEW q, NEW load \in Loads,
           q \in Spawn(r, p, load),
           load = IF r.on = "post" THEN [for |-> None, at |-> "revision", item |-> r.feed]
                  ELSE [for |-> address, at |-> "pointer"],
           load.for = None <=> r.on = "post"
    PROVE  Spawned(r, address, p, q)
<1>1. LoadsOf(p) # LoadTasks
    BY DEF Spawn
<1>2. PICK k \in LoadTasks : p.loads[k] = None
    BY <1>1 DEF LoadsOf
<1> DEFINE u == CHOOSE t \in LoadTasks : p.loads[t] = None
<1>3. u \in LoadTasks /\ p.loads[u] = None
    BY <1>2
<1>4. q = [p EXCEPT !.loads[u] = load, !.is_loading = TRUE, !.raced = Racing(r, p)]
    BY <1>1 DEF Spawn
<1> QED BY <1>3, <1>4 DEF Spawned

\* The effect leaves a page, clears it, or spawns one load.
LEMMA EffectShape ==
    ASSUME NEW r \in Routes, NEW address \in Accounts \cup {None}, NEW connected \in BOOLEAN,
           NEW p, NEW q \in Effect(r, address, connected, p)
    PROVE  \/ q = p /\ (r.on = "view" => ~ connected)
           \/ /\ r.on \in Accounted /\ address = None
              /\ q = [p EXCEPT !.loaded = Blank, !.raced = Racing(r, p)]
           \/ /\ r.on \in Accounted \cup {"post"}
              /\ Spawned(r, address, p, q)
<1>1. CASE r.on \in Accounted /\ address = None
    BY <1>1 DEF Effect
<1>2. CASE r.on \in Accounted /\ address # None
    <2>1. r.on # "post"
        BY <1>2 DEF Accounted
    <2>2. CASE connected
        <3> DEFINE load == [for |-> address, at |-> "pointer"]
        <3>1. load \in Loads /\ load.for # None
            BY <1>2 DEF Loads
        <3>2. q \in Spawn(r, p, load)
            BY <1>2, <2>2 DEF Effect
        <3> HIDE DEF load
        <3>3. load = [for |-> address, at |-> "pointer"]
            BY DEF load
        <3> QED BY <3>1, <3>2, <3>3, <1>2, <2>1, SpawnShape
    <2>3. CASE ~ connected
        BY <1>2, <2>1, <2>3 DEF Effect
    <2> QED BY <2>2, <2>3
<1>3. CASE r.on \notin Accounted
    <2>1. CASE r.on = "post" /\ connected
        <3> DEFINE load == [for |-> None, at |-> "revision", item |-> r.feed]
        <3>1. load \in Loads /\ load.for = None
            BY <2>1 DEF Loads, Routes
        <3>2. q \in Spawn(r, p, load)
            BY <1>3, <2>1 DEF Effect
        <3> HIDE DEF load
        <3>3. load = [for |-> None, at |-> "revision", item |-> r.feed]
            BY DEF load
        <3> QED BY <3>1, <3>2, <3>3, <2>1, SpawnShape
    <2>2. CASE ~ (r.on = "post" /\ connected)
        BY <1>3, <2>2 DEF Effect, Accounted
    <2> QED BY <2>1, <2>2
<1> QED BY <1>1, <1>2, <1>3
\* One more load, on a page without or with others.
LEMMA SpawnKeepsPage ==
    ASSUME NEW r, NEW address \in Accounts \cup {None}, NEW connected \in BOOLEAN,
           NEW p, NEW q, NEW a, NEW c,
           PageInv(r, p, a, c),
           r.on \in Accounted \cup {"post"}, Spawned(r, address, p, q)
    PROVE  PageInv(r, q, address, connected)
<1>1. PICK t \in LoadTasks, load \in Loads :
        /\ p.loads[t] = None
        /\ q = [p EXCEPT !.loads[t] = load, !.is_loading = TRUE, !.raced = Racing(r, p)]
        /\ load = IF r.on = "post" THEN [for |-> None, at |-> "revision", item |-> r.feed]
                  ELSE [for |-> address, at |-> "pointer"]
        /\ load.for = None <=> r.on = "post"
    BY DEF Spawned
<1>2. p \in Pages /\ load # None
    BY Markers DEF PageInv, PageTypes
<1>3. /\ q.loads = [p.loads EXCEPT ![t] = load]
      /\ q.loaded = p.loaded /\ q.is_loading
      /\ q.raced = Racing(r, p)
    BY <1>1, <1>2 DEF Pages
<1>4. /\ LoadsOf(q) = LoadsOf(p) \cup {t}
      /\ q.loads[t] = load
      /\ \A u \in LoadsOf(p) : u # t /\ q.loads[u] = p.loads[u]
    BY <1>1, <1>2, <1>3 DEF LoadsOf, Pages
<1>5. q \in Pages
    BY <1>1, <1>2 DEF Pages, Racing
<1>6. PageTypes(r, q)
    BY <1>1, <1>4, <1>5 DEF PageInv, PageTypes, Accounted
<1>7. PageSound(r, q)
    BY <1>1, <1>3, <1>4 DEF PageInv, PageSound
<1>8. ViewInv(r, q, address, connected)
    <2>1. SUFFICES ASSUME r.on = "view", ~ q.raced
                   PROVE  LoadsOf(q) = {t} /\ q.loads[t].for = address
        BY DEF ViewInv
    <2>2. LoadsOf(p) = {}
        BY <2>1, <1>3 DEF Racing
    <2> QED BY <2>1, <2>2, <1>1, <1>4
<1>9. SpinnerInv(r, q)
    BY <1>4 DEF SpinnerInv
<1> QED BY <1>6, <1>7, <1>8, <1>9 DEF PageInv

\* The effect keeps a page sound, for the account and the client it is run with.
LEMMA EffectKeepsPage ==
    ASSUME NEW r \in Routes, NEW address \in Accounts \cup {None}, NEW connected \in BOOLEAN,
           NEW p, NEW q \in Effect(r, address, connected, p), NEW a, NEW c,
           PageInv(r, p, a, c)
    PROVE  /\ PageInv(r, q, address, connected)
           /\ q.loaded \in {p.loaded, Blank}
<1>0. p \in Pages
    BY DEF PageInv, PageTypes
<1>1. CASE q = p /\ (r.on = "view" => ~ connected)
    BY <1>1 DEF PageInv, ViewInv
<1>2. CASE /\ r.on \in Accounted /\ address = None
           /\ q = [p EXCEPT !.loaded = Blank, !.raced = Racing(r, p)]
    <2>1. /\ q \in Pages /\ q.loads = p.loads /\ q.is_loading = p.is_loading
          /\ q.loaded = Blank /\ q.raced = Racing(r, p)
        BY <1>0, <1>2 DEF Pages, Blank, Racing
    <2>2. LoadsOf(q) = LoadsOf(p) /\ r.on # "post" /\ Blank.item = None /\ Blank.of = None
        BY <2>1, <1>2 DEF LoadsOf, Accounted, Blank
    <2>3. PageTypes(r, q)
        BY <2>1, <2>2 DEF PageInv, PageTypes
    <2>4. PageSound(r, q)
        BY <2>1, <2>2 DEF PageInv, PageSound
    <2>5. ViewInv(r, q, address, connected)
        BY <2>1, <2>2 DEF ViewInv, Racing
    <2>6. SpinnerInv(r, q)
        BY <2>1, <2>2 DEF PageInv, SpinnerInv
    <2> QED BY <2>1, <2>3, <2>4, <2>5, <2>6 DEF PageInv
<1>3. CASE r.on \in Accounted \cup {"post"} /\ Spawned(r, address, p, q)
    <2>1. q.loaded = p.loaded
        BY <1>0, <1>3 DEF Spawned, Pages
    <2> QED BY <1>3, <2>1, SpawnKeepsPage
<1> QED BY <1>1, <1>2, <1>3, EffectShape

\* A page that was just mounted.
LEMMA NewPageIsSound ==
    ASSUME NEW r \in Routes, r.on = "post" => r.feed \in DOMAIN items, NEW a
    PROVE  /\ PageInv(r, NewPage(r.on), a, FALSE)
           /\ NewPage(r.on).loaded = Blank
<1> DEFINE p == NewPage(r.on)
<1>1. p.loaded = Blank /\ LoadsOf(p) = {} /\ (p.is_loading => r.on = "post")
    BY DEF NewPage, LoadsOf
<1>2. p \in Pages
    BY DEF NewPage, Pages, Blank
<1>3. Blank.item = None
    BY DEF Blank
<1> HIDE DEF p
<1>4. PageTypes(r, p) /\ PageSound(r, p)
    BY <1>1, <1>2, <1>3 DEF PageTypes, PageSound
<1>5. ViewInv(r, p, a, FALSE) /\ SpinnerInv(r, p)
    BY <1>1 DEF ViewInv, SpinnerInv
<1> QED BY <1>1, <1>4, <1>5 DEF PageInv, p
----------------------------------------------------------------------------
\* What TypeOK says beside the page.
LEMMA TypesAgain ==
    ASSUME PublishingTypeOK',
           active' \in Accounts \cup {None}, client' \in BOOLEAN, doubtful' \subseteq Accounts,
           (is_saving => route.on \in Forms)', PageInv(route, page, active, client)'
    PROVE  TypeOK'
BY DEF TypeOK, PageInv, PageTypes

\* The pages leave the chain's part alone, and doubt excuses.
LEMMA ChainInvKept ==
    ASSUME ChainInv, UNCHANGED <<chain, publishing>>, doubtful \subseteq doubtful'
    PROVE  ChainInv'
<1> USE DEF ChainInv, chain
<1>1. PointersSound' /\ RequestsSound' /\ LandedSound'
    BY DEF PointersSound, RequestsSound, RequestSound, LandedSound, is_saving
<1>2. FirstsWatched'
    BY DEF FirstsWatched, Watched
<1>3. FirstsAreFirst' /\ OneProfilePerAccount'
    BY DEF FirstsAreFirst, HasProfileItem, is_saving, OneProfilePerAccount
<1> QED BY <1>1, <1>2, <1>3

\* A load ends with something found, nothing, or what was there before.
LEMMA FinishKeepsPage ==
    ASSUME PageInv(route, page, active, client), UNCHANGED <<route, active, client, items>>,
           NEW t \in LoadsOf(page),
           NEW found \in [of : Accounts \cup {None}, item : ItemIds \cup {None}],
           page' = [Finished(t) EXCEPT !.loaded = found],
           route.on = "view" => found.of \in {None, page.loads[t].for},
           found.item # None => /\ found.item \in DOMAIN items
                                /\ route.on # "post" => items[found.item].kind = "profile"
    PROVE  PageInv(route, page, active, client)'
<1>1. page \in Pages
    BY DEF PageInv, PageTypes
<1>2. /\ page'.loads = [page.loads EXCEPT ![t] = None]
      /\ page'.loaded = found /\ ~ page'.is_loading /\ page'.raced = page.raced
      /\ page' \in Pages
    BY <1>1 DEF Finished, Pages
<1>3. /\ LoadsOf(page)' = LoadsOf(page) \ {t}
      /\ \A u \in LoadsOf(page)' : page'.loads[u] = page.loads[u]
    BY <1>1, <1>2 DEF LoadsOf, Pages
<1>4. PageTypes(route, page)'
    BY <1>2, <1>3 DEF PageInv, PageTypes
<1>5. PageSound(route, page)'
    BY <1>2, <1>3 DEF PageInv, PageSound
<1>6. ViewInv(route, page, active, client)'
    BY <1>2, <1>3 DEF PageInv, ViewInv
<1>7. SpinnerInv(route, page)'
    BY <1>2 DEF SpinnerInv
<1> QED BY <1>4, <1>5, <1>6, <1>7 DEF PageInv

\* A pointer read makes the load one for a profile item, or finds no profile.
LEMMA PointerReadKeeps ==
    ASSUME PagesInv, NEW t \in LoadTasks, PointerRead(t)
    PROVE  PageInv(route, page, active, client)' /\ NoneIsNone'
<1> DEFINE a == page.loads[t].for
<1>1. /\ t \in LoadsOf(page) /\ page \in Pages /\ page.loads[t] \in Loads
      /\ a \in Accounts /\ route.on # "post" /\ PublishingTypeOK
    <2>1. t \in LoadsOf(page) /\ page \in Pages /\ page.loads[t] \in Loads /\ PublishingTypeOK
        BY DEF PointerRead, LoadsOf, PagesInv, TypeOK, Pages
    <2>2. a \in Accounts
        BY <2>1 DEF PointerRead, Loads
    <2>3. a # None => route.on # "post"
        BY <2>1 DEF PagesInv, PageInv, PageTypes
    <2> QED BY <2>1, <2>2, <2>3, Markers
<1>2. UNCHANGED <<items, profile, publishing, active, client, route, doubtful>>
    BY DEF PointerRead, OtherThanPage, chain
<1>3. CASE profile[a] = None
    <2> DEFINE found == [of |-> a, item |-> None]
    <2>1. page' = [Finished(t) EXCEPT !.loaded = found]
        BY <1>3 DEF PointerRead
    <2>2. found \in [of : Accounts \cup {None}, item : ItemIds \cup {None}]
          /\ found.of = a /\ found.item = None
        BY <1>1
    <2> HIDE DEF found
    <2>3. PageInv(route, page, active, client)'
        BY <1>1, <1>2, <2>1, <2>2, FinishKeepsPage DEF PagesInv
    <2>4. page'.loaded = found
        BY <1>1, <2>1 DEF Finished, Pages
    <2>5. ~ HasProfileItem(a) \/ a \in doubtful
        <3>1. a \notin doubtful => \A i \in DOMAIN items :
                  items[i].kind = "profile" /\ items[i].owner = a => profile[a] = i
            BY <1>1 DEF PagesInv, ChainInv, OneProfilePerAccount
        <3>2. \A i \in DOMAIN items : i # None
            BY <1>1, PublishingAssumption DEF PublishingTypeOK
        <3> QED BY <3>1, <3>2, <1>3 DEF HasProfileItem
    <2>6. NoneIsNone'
        BY <2>2, <2>4, <2>5, <1>2 DEF NoneIsNone, HasProfileItem
    <2> QED BY <2>3, <2>6
<1>4. CASE profile[a] # None
    <2> DEFINE load == [for |-> a, at |-> "revision", item |-> profile[a]]
    <2>1. page' = [page EXCEPT !.loads[t] = load]
        BY <1>4 DEF PointerRead
    <2>2. load \in Loads /\ load.for = a /\ load.at = "revision" /\ load.item = profile[a]
        BY <1>1, <1>4 DEF Loads, PublishingTypeOK
    <2>3. profile[a] \in DOMAIN items /\ items[profile[a]].kind = "profile"
        BY <1>1, <1>4 DEF PagesInv, ChainInv, PointersSound
    <2> HIDE DEF load
    <2>4. /\ page'.loads = [page.loads EXCEPT ![t] = load]
          /\ page'.loaded = page.loaded /\ page'.is_loading = page.is_loading
          /\ page'.raced = page.raced /\ page' \in Pages
        BY <1>1, <2>1, <2>2 DEF Pages
    <2>5. /\ LoadsOf(page)' = LoadsOf(page)
          /\ \A u \in LoadsOf(page) : /\ u # t => page'.loads[u] = page.loads[u]
                                      /\ page'.loads[u].for = page.loads[u].for
          /\ page'.loads[t] = load
        BY <1>1, <2>2, <2>4, Markers DEF LoadsOf, Pages
    <2>6. PageTypes(route, page)' /\ PageSound(route, page)'
        BY <1>1, <1>2, <2>2, <2>3, <2>4, <2>5 DEF PagesInv, PageInv, PageTypes, PageSound
    <2>7. ViewInv(route, page, active, client)' /\ SpinnerInv(route, page)'
        BY <1>1, <1>2, <2>4, <2>5 DEF PagesInv, PageInv, ViewInv, SpinnerInv
    <2>8. NoneIsNone'
        BY <1>2, <2>4 DEF PagesInv, NoneIsNone, HasProfileItem
    <2> QED BY <2>6, <2>7, <2>8 DEF PageInv
<1> QED BY <1>3, <1>4
\* A load that answers keeps the invariant, overtaken or not.
LEMMA LoadSucceedsKeeps ==
    ASSUME PagesInv, NEW t \in LoadTasks, LoadSucceeds(t)
    PROVE  PageInv(route, page, active, client)' /\ NoneIsNone'
<1> DEFINE found == [of |-> page.loads[t].for, item |-> page.loads[t].item]
<1>1. t \in LoadsOf(page) /\ page \in Pages /\ page.loads[t] \in Loads
    BY DEF LoadSucceeds, LoadsOf, PagesInv, TypeOK, Pages
<1>2. UNCHANGED <<items, publishing, active, client, route, doubtful>>
    BY DEF LoadSucceeds, OtherThanPage, chain
<1>3. found \in [of : Accounts \cup {None}, item : ItemIds \cup {None}]
    BY <1>1 DEF LoadSucceeds, Loads
<1>4. /\ page' = [Finished(t) EXCEPT !.loaded = found]
      /\ found.of = page.loads[t].for /\ found.item = page.loads[t].item
    BY DEF LoadSucceeds
<1>5. found.item \in DOMAIN items /\ (route.on # "post" => items[found.item].kind = "profile")
    BY <1>1, <1>4 DEF LoadSucceeds, PagesInv, PageInv, PageTypes, PageSound
<1>6. found.item # None
    BY <1>1, <1>4, Markers DEF LoadSucceeds, Loads
<1> HIDE DEF found
<1>7. PageInv(route, page, active, client)'
    BY <1>1, <1>2, <1>3, <1>4, <1>5, FinishKeepsPage DEF PagesInv
<1>8. page'.loaded = found
    BY <1>1, <1>4 DEF Finished, Pages
<1> QED BY <1>2, <1>6, <1>7, <1>8 DEF NoneIsNone

\* So does one that fails.
LEMMA LoadFailsKeeps ==
    ASSUME PagesInv, NEW t \in LoadTasks, LoadFails(t)
    PROVE  PageInv(route, page, active, client)' /\ NoneIsNone'
<1> DEFINE found == IF route.on = "view" THEN Blank ELSE page.loaded
<1>1. t \in LoadsOf(page) /\ page \in Pages
    BY DEF LoadFails, LoadsOf, PagesInv, TypeOK
<1>2. UNCHANGED <<items, publishing, active, client, route, doubtful>>
    BY DEF LoadFails, OtherThanPage, chain
<1>3. /\ found \in [of : Accounts \cup {None}, item : ItemIds \cup {None}]
      /\ Blank.of = None /\ Blank.item = None
    BY <1>1 DEF Pages, Blank
<1>4. page' = [Finished(t) EXCEPT !.loaded = found]
    <2>1. Finished(t) = [Finished(t) EXCEPT !.loaded = page.loaded]
        BY <1>1 DEF Finished, Pages
    <2> QED BY <2>1 DEF LoadFails
<1>5. found \in {Blank, page.loaded} /\ (route.on = "view" => found = Blank)
    OBVIOUS
<1> HIDE DEF found
<1>6. PageInv(route, page, active, client)'
    <2>1. found.item # None => /\ found.item \in DOMAIN items
                               /\ route.on # "post" => items[found.item].kind = "profile"
        BY <1>3, <1>5 DEF PagesInv, PageInv, PageSound
    <2> QED BY <1>1, <1>2, <1>3, <1>4, <1>5, <2>1, FinishKeepsPage DEF PagesInv
<1>7. page'.loaded = found
    BY <1>1, <1>4 DEF Finished, Pages
<1>8. NoneIsNone'
    BY <1>2, <1>3, <1>5, <1>7, Markers DEF NoneIsNone, HasProfileItem, PagesInv
<1> QED BY <1>6, <1>8

\* And every other step of a load.
LEMMA LoadStepKeeps ==
    ASSUME PagesInv, NEW t \in LoadTasks, LoadStep(t)
    PROVE  PagesInv'
<1>1. PageInv(route, page, active, client)' /\ NoneIsNone'
    BY PointerReadKeeps, LoadSucceedsKeeps, LoadFailsKeeps DEF LoadStep
<1>2. UNCHANGED OtherThanPage
    BY DEF LoadStep, PointerRead, LoadSucceeds, LoadFails
<1>3. ChainInv'
    BY <1>2, ChainInvKept DEF PagesInv, OtherThanPage
<1>4. TypeOK'
    <2>1. PublishingTypeOK'
        BY <1>2 DEF OtherThanPage, chain, PagesInv, TypeOK, PublishingTypeOK
    <2> QED BY <2>1, <1>1, <1>2, TypesAgain
            DEF OtherThanPage, PagesInv, TypeOK, is_saving
<1> QED BY <1>1, <1>3, <1>4 DEF PagesInv
----------------------------------------------------------------------------
\* The effect runs on the page that is there.
LEMMA EffectStepKeeps ==
    ASSUME PagesInv, UNCHANGED <<chain, publishing, route, doubtful>>,
           active' \in Accounts \cup {None}, client' \in BOOLEAN,
           page' \in Effect(route, active', client', page)
    PROVE  PagesInv'
<1>1. route \in Routes /\ PageInv(route, page, active, client)
    BY DEF PagesInv, TypeOK
<1>2. /\ PageInv(route, page', active', client')
      /\ page'.loaded \in {page.loaded, Blank}
    BY <1>1, EffectKeepsPage
<1>3. PageInv(route, page, active, client)'
    BY <1>2 DEF PageInv, PageTypes, PageSound, ViewInv, SpinnerInv, LoadsOf, chain
<1>4. NoneIsNone'
    BY <1>2, Markers DEF PagesInv, NoneIsNone, HasProfileItem, chain, Blank
<1>5. ChainInv'
    BY ChainInvKept DEF PagesInv
<1>6. TypeOK'
    <2>1. PublishingTypeOK'
        BY DEF chain, PagesInv, TypeOK, PublishingTypeOK
    <2> QED BY <2>1, <1>3, TypesAgain DEF PagesInv, TypeOK, is_saving
<1> QED BY <1>3, <1>4, <1>5, <1>6 DEF PagesInv

\* Selecting another account reloads the pages that read the active one.
LEMMA SelectAccountKeeps ==
    ASSUME PagesInv, NEW a \in Accounts \cup {None}, SelectAccount(a)
    PROVE  PagesInv'
<1>1. /\ UNCHANGED <<chain, publishing, client, route, doubtful>> /\ active' = a
      /\ client' \in BOOLEAN
    BY DEF SelectAccount, PagesInv, TypeOK
<1>2. CASE route.on \in Accounted
    BY <1>1, <1>2, EffectStepKeeps DEF SelectAccount
<1>3. CASE route.on \notin Accounted
    <2>1. page' = page /\ route.on # "view"
        BY <1>3 DEF SelectAccount, Accounted
    <2>2. PageInv(route, page, active, client)'
        BY <1>1, <2>1
           DEF PagesInv, PageInv, PageTypes, PageSound, ViewInv, SpinnerInv, LoadsOf, chain
    <2>3. NoneIsNone'
        BY <1>1, <2>1 DEF PagesInv, NoneIsNone, HasProfileItem, chain
    <2>4. ChainInv'
        BY <1>1, ChainInvKept DEF PagesInv
    <2>5. PublishingTypeOK'
        BY <1>1 DEF chain, PagesInv, TypeOK, PublishingTypeOK
    <2>6. TypeOK'
        BY <1>1, <2>2, <2>5, TypesAgain DEF PagesInv, TypeOK, is_saving
    <2> QED BY <2>2, <2>3, <2>4, <2>6 DEF PagesInv
<1> QED BY <1>2, <1>3

\* So does a client that connects or goes.
LEMMA ClientChangesKeeps == PagesInv /\ ClientChanges => PagesInv'
BY EffectStepKeeps DEF ClientChanges, PagesInv, TypeOK

\* And the Refresh button, with the same account and client.
LEMMA RefreshKeeps == PagesInv /\ Refresh => PagesInv'
BY EffectStepKeeps DEF Refresh, PagesInv, TypeOK
----------------------------------------------------------------------------
\* A task that ends or is dropped: whom it may leave a first save of is doubtful.
LEMMA TaskEndKeepsChain ==
    ASSUME PagesInv, UNCHANGED chain, publishing' = Idle, doubtful \subseteq doubtful',
           publishing.at = "submitted" => \A a \in Accounts : Abandoned(a) => a \in doubtful'
    PROVE  ChainInv'
<1> USE DEF PagesInv, ChainInv, chain
<1>1. ~ is_saving'
    BY DEF is_saving
<1>2. publishing'.at = "idle"
    BY DEF Idle
<1>3. PointersSound' /\ RequestsSound' /\ LandedSound'
    BY <1>1, <1>2 DEF PointersSound, RequestsSound, RequestSound, LandedSound
<1>4. FirstsWatched'
    <2>1. SUFFICES ASSUME NEW s \in Slots, NEW a \in Accounts \ doubtful',
                          pool[s] # Free, IsFirst(pool[s], a)
                   PROVE  FALSE
        BY <1>2 DEF FirstsWatched, IsFirst
    <2>2. publishing.at = "submitted" /\ publishing.slot = s
        BY <2>1 DEF FirstsWatched, Watched
    <2>3. IsFirst(publishing.request, a)
        BY <2>1, <2>2 DEF FirstsWatched
    <2> QED BY <2>1, <2>2, <2>3 DEF Abandoned, MayHaveLanded, IsFirst
<1>5. FirstsAreFirst' /\ OneProfilePerAccount'
    BY <1>1 DEF FirstsAreFirst, OneProfilePerAccount
<1> QED BY <1>3, <1>4, <1>5

\* A failing publication ends its spinner and changes nothing else of the page.
LEMMA PublishFailsKeeps == PagesInv /\ PublishFails => PagesInv'
<1> SUFFICES ASSUME PagesInv, PublishFails PROVE PagesInv'
    OBVIOUS
<1>1. /\ UNCHANGED <<chain, active, client, route, page>> /\ publishing' = Idle
      /\ doubtful' = doubtful \cup {a \in Accounts : Abandoned(a)}
    BY DEF PublishFails, Doubt
<1>2. ChainInv'
    BY <1>1, TaskEndKeepsChain
<1>3. PageInv(route, page, active, client)'
    BY <1>1 DEF PagesInv, PageInv, PageTypes, PageSound, ViewInv, SpinnerInv, LoadsOf, chain
<1>4. NoneIsNone'
    <2>1. SUFFICES ASSUME NEW a \in Accounts \ doubtful',
                          page.loaded.of = a, page.loaded.item = None
                   PROVE  ~ HasProfileItem(a)
        BY <1>1 DEF NoneIsNone, HasProfileItem, chain
    <2>2. ~ (publishing.at = "landed" /\ IsFirst(publishing.request, a))
        BY <1>1, <2>1 DEF Abandoned, MayHaveLanded, IsFirst
    <2> QED BY <1>1, <2>1, <2>2 DEF PagesInv, NoneIsNone
<1>5. TypeOK'
    <2>1. PublishingTypeOK'
        BY <1>1 DEF chain, PagesInv, TypeOK, PublishingTypeOK
    <2>2. doubtful' \subseteq Accounts
        BY <1>1 DEF PagesInv, TypeOK
    <2> QED BY <1>1, <1>3, <2>1, <2>2, TypesAgain DEF PagesInv, TypeOK, is_saving
<1> QED BY <1>2, <1>3, <1>4, <1>5 DEF PagesInv

\* Navigate and Published: the page before and its task are gone.
LEMMA OpenKeeps ==
    ASSUME PagesInv, NEW r \in Routes, Open(r), publishing' = Idle,
           UNCHANGED <<chain, active, client>>,
           doubtful \subseteq doubtful', doubtful' \subseteq Accounts,
           publishing.at = "submitted" => \A a \in Accounts : Abandoned(a) => a \in doubtful'
    PROVE  PagesInv'
<1>1. /\ r.on = "post" => r.feed \in DOMAIN items
      /\ route' = r /\ page' \in Effect(r, active, client, NewPage(r.on))
      /\ active \in Accounts \cup {None} /\ client \in BOOLEAN
    <2>1. r.feed \in DOMAIN items <=> r.feed \in 1..Len(items)
        BY DEF PagesInv, TypeOK, PublishingTypeOK
    <2>2. r.on = "post" => r.feed \in ItemIds
        BY DEF Routes
    <2> QED BY <2>1, <2>2, PublishingAssumption DEF Open, PagesInv, TypeOK, PublishingTypeOK, ItemIds
<1>2. /\ PageInv(r, NewPage(r.on), active, FALSE)
      /\ NewPage(r.on).loaded = Blank
    BY <1>1, NewPageIsSound
<1>3. PageInv(r, page', active, client) /\ page'.loaded = Blank
    <2> DEFINE p == NewPage(r.on)
    <2>1. page' \in Effect(r, active, client, p) /\ PageInv(r, p, active, FALSE)
        BY <1>1, <1>2
    <2> HIDE DEF p
    <2>2. PageInv(r, page', active, client) /\ page'.loaded \in {p.loaded, Blank}
        BY <1>1, <2>1, EffectKeepsPage
    <2> QED BY <1>2, <2>2 DEF p
<1>4. PageInv(route, page, active, client)'
    BY <1>1, <1>3 DEF PageInv, PageTypes, PageSound, ViewInv, SpinnerInv, LoadsOf, chain
<1>5. NoneIsNone'
    BY <1>3, Markers DEF NoneIsNone, Blank
<1>6. ChainInv'
    BY TaskEndKeepsChain
<1>7. TypeOK'
    <2>1. PublishingTypeOK'
        BY DEF chain, PagesInv, TypeOK, PublishingTypeOK
    <2> QED BY <1>1, <1>4, <2>1, TypesAgain DEF is_saving
<1> QED BY <1>4, <1>5, <1>6, <1>7 DEF PagesInv

\* Opening another page drops the signals of the one before.
LEMMA NavigateKeeps ==
    ASSUME PagesInv, NEW r \in Routes, Navigate(r)
    PROVE  PagesInv'
BY OpenKeeps DEF Navigate, Doubt, PagesInv, TypeOK

\* A publication that succeeds navigates, or reloads the form.
LEMMA PublishedKeeps == PagesInv /\ Published => PagesInv'
<1> SUFFICES ASSUME PagesInv, Published PROVE PagesInv'
    OBVIOUS
<1> DEFINE r == [on |-> IF publishing.request.kind = "profile" THEN "view" ELSE "other", feed |-> None]
<1>1. r \in Routes
    BY DEF Routes
<1>2. Open(r)
    BY DEF Published
<1> HIDE DEF r
<1> QED BY <1>1, <1>2, OpenKeeps DEF Published, PagesInv, TypeOK
----------------------------------------------------------------------------
\* A click whose request is sound, and which is a first save only of an account
\* with no profile item, or in doubt.
LEMMA ClickKeeps ==
    ASSUME PagesInv, NEW kind \in Kinds, NEW revises \in ItemIds \cup {None},
           Click(kind, revises), route.on \in Forms,
           doubtful \subseteq doubtful', doubtful' \subseteq Accounts,
           revises # None => /\ kind = "profile" /\ revises \in DOMAIN items
                             /\ items[revises].kind = "profile",
           kind = "profile" /\ revises = None /\ active \notin doubtful' => ~ HasProfileItem(active)
    PROVE  PagesInv'
<1> DEFINE request == [kind |-> kind, signer |-> active, revises |-> revises]
<1>1. /\ publishing = Idle /\ publishing' = [at |-> "prepare", request |-> request]
      /\ UNCHANGED <<chain, active, client, route, page>>
      /\ active \in Accounts
    BY DEF Click, StartPublishing, is_saving, PagesInv, TypeOK
<1>2. /\ request \in Requests /\ request.kind = kind /\ request.signer = active
      /\ request.revises = revises
    BY <1>1 DEF Requests
<1> HIDE DEF request
<1>3. /\ publishing'.at = "prepare" /\ publishing'.request = request /\ publishing.at = "idle"
      /\ is_saving' /\ ~ is_saving
    BY <1>1 DEF is_saving, Idle
<1>4. PublishingTypeOK'
    BY <1>1, <1>2 DEF PagesInv, TypeOK, PublishingTypeOK, chain
<1>5. PageInv(route, page, active, client)'
    BY <1>1 DEF PagesInv, PageInv, PageTypes, PageSound, ViewInv, SpinnerInv, LoadsOf, chain
<1>6. NoneIsNone'
    BY <1>1, <1>3 DEF PagesInv, NoneIsNone, HasProfileItem, chain
<1>7. ChainInv'
    <2> USE DEF PagesInv, ChainInv, chain
    <2>1. PointersSound' /\ LandedSound' /\ OneProfilePerAccount'
        BY <1>1, <1>3 DEF PointersSound, LandedSound, OneProfilePerAccount
    <2>2. RequestsSound'
        BY <1>1, <1>2, <1>3 DEF RequestsSound, RequestSound
    <2>3. FirstsWatched'
        BY <1>1, <1>3 DEF FirstsWatched, Watched
    <2>4. FirstsAreFirst'
        BY <1>1, <1>2, <1>3 DEF FirstsAreFirst, IsFirst, HasProfileItem
    <2> QED BY <2>1, <2>2, <2>3, <2>4
<1>8. TypeOK'
    BY <1>1, <1>4, <1>5, TypesAgain DEF PagesInv, TypeOK
<1> QED BY <1>5, <1>6, <1>7, <1>8 DEF PagesInv

\* The click on Save starts one publication, of the form as it stands.
LEMMA ClickSaveKeeps == PagesInv /\ ClickSave => PagesInv'
<1> SUFFICES ASSUME PagesInv, ClickSave PROVE PagesInv'
    OBVIOUS
<1> DEFINE i == page.loaded.item
<1>1. /\ i \in ItemIds \cup {None} /\ publishing = Idle /\ active \in Accounts
      /\ doubtful \subseteq doubtful' /\ doubtful' \subseteq Accounts
    BY DEF PagesInv, TypeOK, Pages, ClickSave, Click, StartPublishing, is_saving
<1>2. i # None => i \in DOMAIN items /\ items[i].kind = "profile"
    BY DEF ClickSave, PagesInv, PageInv, PageSound
<1>3. i = None /\ active \notin doubtful' => ~ HasProfileItem(active)
    <2>1. SUFFICES ASSUME i = None, active \notin doubtful' PROVE ~ HasProfileItem(active)
        OBVIOUS
    <2>2. page.loaded.of = active /\ active \notin doubtful
        BY <1>1, <2>1 DEF ClickSave
    <2>3. publishing.at # "landed"
        BY <1>1 DEF Idle
    <2> QED BY <1>1, <2>1, <2>2, <2>3 DEF PagesInv, NoneIsNone
<1>4. Click("profile", i) /\ route.on \in Forms /\ "profile" \in Kinds
    BY DEF ClickSave, Forms, Kinds
<1> HIDE DEF i
<1> QED BY <1>1, <1>2, <1>3, <1>4, ClickKeeps

\* And the click on Publish, of a feed or of a post.
LEMMA ClickPublishKeeps == PagesInv /\ (ClickPublishFeed \/ ClickPublishPost) => PagesInv'
<1> SUFFICES ASSUME PagesInv, ClickPublishFeed \/ ClickPublishPost PROVE PagesInv'
    OBVIOUS
<1>1. PICK kind \in {"feed", "post"} : Click(kind, None) /\ route.on = kind /\ doubtful' = doubtful
    BY DEF ClickPublishFeed, ClickPublishPost
<1>2. kind \in Kinds /\ kind # "profile" /\ route.on \in Forms
    BY <1>1 DEF Kinds, Forms
<1>3. doubtful \subseteq Accounts
    BY DEF PagesInv, TypeOK
<1> QED BY <1>1, <1>2, <1>3, ClickKeeps
----------------------------------------------------------------------------
\* What the chain does to items.
ItemsGrow ==
    \A i \in DOMAIN items : /\ i \in DOMAIN items'
                            /\ items'[i].kind = items[i].kind
                            /\ items'[i].owner = items[i].owner

\* A block that includes another account's or an older call keeps the page's part.
LEMMA GrowthKeepsPage ==
    ASSUME PagesInv, ItemsGrow, UNCHANGED <<active, client, route, page>>
    PROVE  PageInv(route, page, active, client)'
<1>1. PageTypes(route, page)' /\ ViewInv(route, page, active, client)' /\ SpinnerInv(route, page)'
    BY DEF PagesInv, PageInv, PageTypes, ViewInv, SpinnerInv, LoadsOf
<1>2. PageSound(route, page)'
    BY DEF PagesInv, PageInv, PageSound, LoadsOf, ItemsGrow
<1> QED BY <1>1, <1>2 DEF PageInv

\* A submission is decided, and the task that watches it learns how.
LEMMA DecideFacts ==
    ASSUME PagesInv, NEW s \in Slots, pool[s] # Free,
           NEW at \in {"landed", "refused"}, NEW i \in ItemIds \cup {None}, Decide(s, at, i)
    PROVE  /\ pool[s] \in Requests /\ RequestSound(pool[s])
           /\ pool'[s] = Free /\ \A u \in Slots \ {s} : pool'[u] = pool[u]
           /\ pool' \in [Slots -> Requests \cup {Free}]
           /\ IF Watched(s)
              THEN /\ publishing' = [at |-> at, request |-> pool[s], item |-> i]
                   /\ publishing'.at = at /\ publishing'.item = i
                   /\ publishing'.request = pool[s] /\ publishing.request = pool[s]
                   /\ publishing.at = "submitted" /\ is_saving /\ is_saving'
              ELSE publishing' = publishing
           /\ PublishingTypeOK => publishing' \in {Idle}
                  \cup [at : {"prepare"}, request : Requests]
                  \cup [at : {"submitted"}, request : Requests, slot : Slots]
                  \cup [at : {"landed", "refused"}, request : Requests, item : ItemIds \cup {None}]
<1>1. pool \in [Slots -> Requests \cup {Free}] /\ pool[s] \in Requests
    BY DEF PagesInv, TypeOK, PublishingTypeOK
<1>2. RequestSound(pool[s])
    BY DEF PagesInv, ChainInv, RequestsSound
<1>3. pool' = [pool EXCEPT ![s] = Free]
    BY DEF Decide
<1>4. CASE Watched(s)
    <2>1. publishing' = [at |-> at, request |-> publishing.request, item |-> i]
        BY <1>4 DEF Decide
    <2>2. publishing.at = "submitted" /\ publishing.request = pool[s]
        BY <1>4 DEF Watched, PagesInv, ChainInv, FirstsWatched
    <2>3. is_saving /\ is_saving'
        BY <2>1, <2>2 DEF is_saving, Idle
    <2> QED BY <1>1, <1>2, <1>3, <1>4, <2>1, <2>2, <2>3
<1>5. CASE ~ Watched(s)
    <2>1. publishing' = publishing
        BY <1>5 DEF Decide
    <2> QED BY <1>1, <1>2, <1>3, <1>5, <2>1 DEF PublishingTypeOK
<1> QED BY <1>4, <1>5

\* A decided call keeps the publications that watch others.
LEMMA DecideKeepsWatch ==
    ASSUME PagesInv, NEW s \in Slots, pool[s] # Free,
           NEW at \in {"landed", "refused"}, NEW i \in ItemIds \cup {None}, Decide(s, at, i),
           UNCHANGED doubtful
    PROVE  FirstsWatched'
<1>1. /\ pool'[s] = Free /\ \A u \in Slots \ {s} : pool'[u] = pool[u]
      /\ Watched(s) => publishing'.at = at
      /\ ~ Watched(s) => publishing' = publishing
    BY DecideFacts
<1>2. publishing'.at = "submitted" => pool'[publishing'.slot] = publishing'.request
    <2>1. SUFFICES ASSUME publishing'.at = "submitted"
                   PROVE  pool'[publishing'.slot] = publishing'.request
        OBVIOUS
    <2>2. publishing' = publishing /\ ~ Watched(s)
        BY <1>1, <2>1
    <2>3. publishing.slot \in Slots \ {s}
        BY <2>1, <2>2 DEF Watched, PagesInv, TypeOK, PublishingTypeOK, Idle
    <2>4. pool[publishing.slot] = publishing.request
        BY <2>1, <2>2 DEF PagesInv, ChainInv, FirstsWatched
    <2> QED BY <1>1, <2>2, <2>3, <2>4
<1>3. ASSUME NEW u \in Slots, NEW a \in Accounts \ doubtful, pool'[u] # Free, IsFirst(pool'[u], a)
      PROVE  Watched(u)'
    <2>1. u # s /\ pool'[u] = pool[u]
        BY <1>1, <1>3
    <2>2. Watched(u)
        BY <1>3, <2>1 DEF PagesInv, ChainInv, FirstsWatched
    <2>3. ~ Watched(s)
        BY <2>1, <2>2 DEF Watched
    <2> QED BY <1>1, <2>2, <2>3 DEF Watched
<1> QED BY <1>2, <1>3 DEF FirstsWatched

\* A submission is watched by the task that made it.
LEMMA SubmitKeeps ==
    ASSUME PagesInv, NEW s \in Slots, Submit(s), UNCHANGED <<active, client, route, page, doubtful>>
    PROVE  PagesInv'
<1> DEFINE request == publishing.request
<1>1. /\ publishing.at = "prepare" /\ pool[s] = Free /\ is_saving /\ request \in Requests
      /\ UNCHANGED <<items, profile, listed>>
    BY DEF Submit, PagesInv, TypeOK, PublishingTypeOK, is_saving, Idle
<1>2. /\ pool' = [pool EXCEPT ![s] = request] /\ pool'[s] = request /\ pool \in [Slots -> Requests \cup {Free}]
      /\ \A u \in Slots \ {s} : pool'[u] = pool[u]
    BY DEF Submit, PagesInv, TypeOK, PublishingTypeOK
<1>3. /\ publishing' = [at |-> "submitted", request |-> request, slot |-> s]
    BY DEF Submit
<1>4. /\ publishing'.at = "submitted" /\ publishing'.request = request /\ publishing'.slot = s
      /\ is_saving'
    BY <1>3 DEF is_saving, Idle
<1> HIDE DEF request
<1>5. request = publishing.request
    BY DEF request
<1>6. PublishingTypeOK'
    BY <1>1, <1>2, <1>3 DEF PagesInv, TypeOK, PublishingTypeOK
<1>7. PageInv(route, page, active, client)'
    BY <1>1, GrowthKeepsPage DEF ItemsGrow
<1>8. NoneIsNone'
    BY <1>1, <1>4 DEF PagesInv, NoneIsNone, HasProfileItem
<1>9. ChainInv'
    <2> USE DEF PagesInv, ChainInv
    <2>1. PointersSound' /\ LandedSound' /\ OneProfilePerAccount'
        BY <1>1, <1>4 DEF PointersSound, LandedSound, OneProfilePerAccount
    <2>2. RequestsSound'
        BY <1>1, <1>2, <1>4, <1>5 DEF RequestsSound, RequestSound
    <2>3. FirstsWatched'
        BY <1>1, <1>2, <1>4 DEF FirstsWatched, Watched
    <2>4. FirstsAreFirst'
        BY <1>1, <1>4, <1>5 DEF FirstsAreFirst, HasProfileItem
    <2> QED BY <2>1, <2>2, <2>3, <2>4
<1>10. TypeOK'
    BY <1>1, <1>6, <1>7, TypesAgain DEF PagesInv, TypeOK
<1> QED BY <1>7, <1>8, <1>9, <1>10 DEF PagesInv

\* A decision that makes no item: a refusal, or a revision by the owner.
LEMMA DecisionKeeps ==
    ASSUME PagesInv, NEW s \in Slots, pool[s] # Free,
           NEW at \in {"landed", "refused"}, NEW i \in ItemIds \cup {None}, Decide(s, at, i),
           ItemsGrow, DOMAIN items' = DOMAIN items, items' \in Seq(Items), Len(items') = Len(items),
           UNCHANGED <<profile, listed, active, client, route, page, doubtful>>,
           at = "landed" => /\ pool[s].revises # None /\ i = pool[s].revises
                            /\ items[i].owner = pool[s].signer
    PROVE  PagesInv'
<1>1. /\ pool[s] \in Requests /\ RequestSound(pool[s])
      /\ pool'[s] = Free /\ \A u \in Slots \ {s} : pool'[u] = pool[u]
      /\ pool' \in [Slots -> Requests \cup {Free}]
      /\ IF Watched(s)
         THEN /\ publishing'.at = at /\ publishing'.item = i
              /\ publishing'.request = pool[s] /\ publishing.request = pool[s]
              /\ publishing.at = "submitted" /\ is_saving /\ is_saving'
         ELSE publishing' = publishing
    BY DecideFacts
<1>2. PublishingTypeOK'
    BY DecideFacts DEF PagesInv, TypeOK, PublishingTypeOK
<1>3. PageInv(route, page, active, client)'
    BY GrowthKeepsPage
<1>4. \A a \in Accounts : HasProfileItem(a)' <=> HasProfileItem(a)
    BY DEF HasProfileItem, ItemsGrow
<1>5. NoneIsNone'
    BY <1>1, <1>4 DEF PagesInv, NoneIsNone
<1>6. ChainInv'
    <2> USE DEF PagesInv, ChainInv
    <2>1. PointersSound' /\ OneProfilePerAccount'
        BY DEF PointersSound, OneProfilePerAccount, ItemsGrow
    <2>2. RequestsSound'
        BY <1>1 DEF RequestsSound, RequestSound, ItemsGrow, is_saving
    <2>3. FirstsWatched'
        BY DecideKeepsWatch
    <2>4. FirstsAreFirst'
        <3>1. CASE Watched(s)
            BY <1>1, <1>4, <3>1 DEF FirstsAreFirst, IsFirst
        <3>2. CASE ~ Watched(s)
            BY <1>1, <1>4, <3>2 DEF FirstsAreFirst, is_saving
        <3> QED BY <3>1, <3>2
    <2>5. LandedSound'
        <3>1. CASE Watched(s)
            BY <1>1, <3>1 DEF LandedSound, RequestSound, ItemsGrow
        <3>2. CASE ~ Watched(s)
            BY <1>1, <3>2 DEF LandedSound, ItemsGrow
        <3> QED BY <3>1, <3>2
    <2> QED BY <2>1, <2>2, <2>3, <2>4, <2>5
<1>7. TypeOK'
    <2>1. is_saving' => is_saving
        BY <1>1 DEF is_saving
    <2> QED BY <1>2, <1>3, <2>1, TypesAgain DEF PagesInv, TypeOK
<1> QED BY <1>3, <1>5, <1>6, <1>7 DEF PagesInv

\* A refused call changes nothing on the chain.
LEMMA RefuseKeeps ==
    ASSUME PagesInv, NEW s \in Slots, Refuse(s), UNCHANGED <<active, client, route, page, doubtful>>
    PROVE  PagesInv'
<1>1. ItemsGrow /\ items \in Seq(Items)
    BY DEF Refuse, ItemsGrow, PagesInv, TypeOK, PublishingTypeOK
<1> QED BY <1>1, DecisionKeeps DEF Refuse

\* One revision more is all that changes.
LEMMA RevisionFacts ==
    ASSUME PublishingTypeOK, NEW i \in DOMAIN items, items[i].revisions < MaxRevisions,
           items' = [items EXCEPT ![i].revisions = @ + 1]
    PROVE  /\ items' \in Seq(Items) /\ Len(items') = Len(items) /\ DOMAIN items' = DOMAIN items
           /\ ItemsGrow
<1> DEFINE e == [items[i] EXCEPT !.revisions = items[i].revisions + 1]
<1>1. items \in Seq(Items) /\ DOMAIN items = 1..Len(items) /\ items[i] \in Items
    BY DEF PublishingTypeOK
<1>2. e \in Items /\ e.kind = items[i].kind /\ e.owner = items[i].owner
    BY <1>1, PublishingAssumption DEF Items
<1>3. items' = [items EXCEPT ![i] = e]
    OBVIOUS
<1> HIDE DEF e
<1>4. /\ items' \in Seq(Items) /\ Len(items') = Len(items)
      /\ \A j \in 1..Len(items) : items'[j] = IF j = i THEN e ELSE items[j]
    BY <1>1, <1>2, <1>3, ExceptSeq
<1>5. DOMAIN items' = DOMAIN items
    BY <1>1, <1>4
<1> QED BY <1>1, <1>2, <1>4, <1>5 DEF ItemsGrow

\* An included revision is of an item its author owns.
LEMMA IncludeRevisionKeeps ==
    ASSUME PagesInv, NEW s \in Slots, IncludeRevision(s),
           UNCHANGED <<active, client, route, page, doubtful>>
    PROVE  PagesInv'
<1> DEFINE i == pool[s].revises
<1>1. pool[s] # Free /\ i # None /\ i \in DOMAIN items /\ i \in ItemIds
    BY DEF IncludeRevision, PagesInv, ChainInv, RequestsSound, RequestSound,
           TypeOK, PublishingTypeOK, Requests
<1>2. /\ items' \in Seq(Items) /\ Len(items') = Len(items) /\ DOMAIN items' = DOMAIN items
      /\ ItemsGrow
    BY <1>1, RevisionFacts DEF IncludeRevision, PagesInv, TypeOK
<1>3. Decide(s, "landed", i) /\ items[i].owner = pool[s].signer /\ UNCHANGED <<profile, listed>>
    BY DEF IncludeRevision
<1> QED BY <1>1, <1>2, <1>3, DecisionKeeps

\* An included batch creates the item, its links and the pointer together.
LEMMA IncludeNewKeeps ==
    ASSUME PagesInv, NEW s \in Slots, IncludeNew(s), UNCHANGED <<active, client, route, page, doubtful>>
    PROVE  PagesInv'
<1> DEFINE r == pool[s]
           new == Len(items) + 1
           item == [owner |-> r.signer, kind |-> r.kind, revisions |-> 1]
<1>1. /\ r # Free /\ r.revises = None /\ r \in Requests /\ new \in ItemIds /\ new # None
      /\ Decide(s, "landed", new) /\ r.signer \in Accounts /\ PublishingTypeOK
    <2>1. PublishingTypeOK /\ r # Free /\ r.revises = None /\ Decide(s, "landed", new)
        BY DEF IncludeNew, PagesInv, TypeOK
    <2>2. r \in Requests /\ r.signer \in Accounts
        BY <2>1 DEF PublishingTypeOK, Requests
    <2>3. new \in ItemIds
        BY <2>1, PublishingAssumption DEF IncludeNew, PublishingTypeOK, ItemIds
    <2> QED BY <2>1, <2>2, <2>3, Markers
<1>2. /\ pool'[s] = Free /\ \A u \in Slots \ {s} : pool'[u] = pool[u]
      /\ pool' \in [Slots -> Requests \cup {Free}]
      /\ IF Watched(s)
         THEN /\ publishing'.at = "landed" /\ publishing'.item = new
              /\ publishing'.request = r /\ publishing.request = r
              /\ publishing.at = "submitted" /\ is_saving /\ is_saving'
         ELSE publishing' = publishing
    BY <1>1, DecideFacts
<1>3. /\ items' \in Seq(Items) /\ DOMAIN items = 1..Len(items) /\ DOMAIN items' = 1..new
      /\ \A i \in DOMAIN items : i \in DOMAIN items' /\ items'[i] = items[i]
      /\ items'[new].owner = r.signer /\ items'[new].kind = r.kind
      /\ DOMAIN items' = DOMAIN items \cup {new} /\ new \notin DOMAIN items
      /\ Len(items') = new
    <2>1. items \in Seq(Items) /\ item \in Items /\ items' = Append(items, item)
        BY <1>1, PublishingAssumption DEF PublishingTypeOK, IncludeNew, Items, Requests
    <2>2. item.owner = r.signer /\ item.kind = r.kind
        OBVIOUS
    <2> HIDE DEF item
    <2>3. /\ items' \in Seq(Items) /\ Len(items') = new
          /\ \A i \in 1..Len(items) : items'[i] = items[i]
          /\ items'[new] = item
        BY <2>1, AppendProperties
    <2>4. DOMAIN items = 1..Len(items) /\ DOMAIN items' = 1..new /\ Len(items) \in Nat
        BY <2>1, <2>3
    <2> QED BY <2>2, <2>3, <2>4
<1>4. /\ \A a \in Accounts : profile'[a] = IF r.kind = "profile" /\ a = r.signer THEN new ELSE profile[a]
      /\ \A a \in Accounts : listed[a] \subseteq listed'[a]
      /\ r.kind = "feed" => new \in listed'[r.signer]
      /\ profile' \in [Accounts -> ItemIds \cup {None}] /\ listed' \in [Accounts -> SUBSET ItemIds]
    BY <1>1 DEF IncludeNew, PublishingTypeOK
<1> HIDE DEF r, new, item
<1>5. ItemsGrow
    BY <1>3 DEF ItemsGrow
<1>6. PublishingTypeOK'
    <2>1. Len(items') <= MaxItems
        BY <1>1, <1>3, PublishingAssumption DEF ItemIds
    <2>2. publishing' \in {Idle}
                  \cup [at : {"prepare"}, request : Requests]
                  \cup [at : {"submitted"}, request : Requests, slot : Slots]
                  \cup [at : {"landed", "refused"}, request : Requests, item : ItemIds \cup {None}]
        BY <1>1, DecideFacts DEF r
    <2> QED BY <1>2, <1>3, <1>4, <2>1, <2>2 DEF PublishingTypeOK
<1>7. PageInv(route, page, active, client)'
    BY <1>5, GrowthKeepsPage
    \* The new item is a profile of account a only if a task watches it land.
<1>8. ASSUME NEW a \in Accounts \ doubtful, r.kind = "profile", r.signer = a
      PROVE  Watched(s) /\ ~ HasProfileItem(a)
    <2>1. IsFirst(r, a)
        BY <1>1, <1>8 DEF IsFirst
    <2>2. Watched(s)
        BY <1>1, <1>8, <2>1 DEF PagesInv, ChainInv, FirstsWatched, r
    <2>3. publishing.request = r /\ publishing.at # "landed" /\ is_saving
        BY <1>2, <2>2
    <2> QED BY <2>1, <2>2, <2>3, <1>8 DEF PagesInv, ChainInv, FirstsAreFirst
<1>9. ASSUME NEW a \in Accounts, ~ (r.kind = "profile" /\ r.signer = a)
      PROVE  HasProfileItem(a)' <=> HasProfileItem(a)
    BY <1>3, <1>9 DEF HasProfileItem
<1>10. NoneIsNone'
    <2>1. SUFFICES ASSUME NEW a \in Accounts \ doubtful, page.loaded.of = a, page.loaded.item = None,
                          ~ (publishing'.at = "landed" /\ IsFirst(publishing'.request, a))
                   PROVE  ~ HasProfileItem(a)'
        BY DEF NoneIsNone
    <2>2. ~ (r.kind = "profile" /\ r.signer = a)
        BY <1>1, <1>2, <1>8, <2>1 DEF IsFirst
    <2>3. ~ (publishing.at = "landed" /\ IsFirst(publishing.request, a))
        BY <1>2, <2>1
    <2> QED BY <1>9, <2>1, <2>2, <2>3 DEF PagesInv, NoneIsNone
<1>11. ChainInv'
    <2> USE DEF PagesInv, ChainInv
    <2>1. PointersSound'
        BY <1>3, <1>4 DEF PointersSound
    <2>2. RequestsSound'
        BY <1>2, <1>3 DEF RequestsSound, RequestSound, is_saving
    <2>3. FirstsWatched'
        BY <1>1, DecideKeepsWatch DEF r
    <2>4. FirstsAreFirst'
        <3>1. SUFFICES ASSUME NEW a \in Accounts \ doubtful, is_saving', IsFirst(publishing'.request, a)
                       PROVE  IF publishing'.at = "landed" THEN publishing'.item = profile'[a]
                              ELSE ~ HasProfileItem(a)'
            BY DEF FirstsAreFirst
        <3>2. CASE Watched(s)
            BY <1>1, <1>2, <1>4, <3>1, <3>2 DEF IsFirst
        <3>3. CASE ~ Watched(s)
            <4>1. publishing' = publishing /\ is_saving /\ IsFirst(publishing.request, a)
                BY <1>2, <3>1, <3>3 DEF is_saving
            <4>2. ~ (r.kind = "profile" /\ r.signer = a)
                BY <1>8, <3>3
            <4> QED BY <1>4, <1>9, <4>1, <4>2, <3>1 DEF FirstsAreFirst
        <3> QED BY <3>2, <3>3
    <2>5. OneProfilePerAccount'
        <3>1. SUFFICES ASSUME NEW a \in Accounts \ doubtful, NEW i \in DOMAIN items',
                              items'[i].kind = "profile", items'[i].owner = a
                       PROVE  profile'[a] = i
            BY DEF OneProfilePerAccount
        <3>2. CASE i = new
            BY <1>3, <1>4, <3>1, <3>2
        <3>3. CASE i \in DOMAIN items
            <4>1. items[i].kind = "profile" /\ items[i].owner = a
                BY <1>3, <3>1, <3>3
            <4>2. HasProfileItem(a) /\ profile[a] = i
                BY <3>1, <3>3, <4>1 DEF HasProfileItem, OneProfilePerAccount
            <4> QED BY <1>4, <1>8, <3>1, <4>2
        <3> QED BY <1>3, <3>1, <3>2, <3>3
    <2>6. LandedSound'
        <3>1. CASE Watched(s)
            BY <1>2, <1>3, <1>4, <3>1 DEF LandedSound
        <3>2. CASE ~ Watched(s)
            <4>1. publishing.at = "landed" => publishing.request.signer \in Accounts
                BY <1>1 DEF PublishingTypeOK, Requests, Idle
            <4> QED BY <1>2, <1>3, <1>4, <3>2, <4>1 DEF LandedSound
        <3> QED BY <3>1, <3>2
    <2> QED BY <2>1, <2>2, <2>3, <2>4, <2>5, <2>6
<1>12. TypeOK'
    <2>1. is_saving' => is_saving
        BY <1>2 DEF is_saving
    <2> QED BY <1>6, <1>7, <2>1, TypesAgain DEF PagesInv, TypeOK
<1> QED BY <1>7, <1>10, <1>11, <1>12 DEF PagesInv
----------------------------------------------------------------------------
\* The application opens on a blank page with nothing published.
LEMMA InitPages == Init => PagesInv
<1> SUFFICES ASSUME Init PROVE PagesInv
    OBVIOUS
<1> DEFINE r == [on |-> "other", feed |-> None]
<1>1. /\ items = <<>> /\ profile = [a \in Accounts |-> None] /\ listed = [a \in Accounts |-> {}]
      /\ pool = [s \in Slots |-> Free] /\ publishing = Idle /\ publishing.at = "idle"
      /\ ~ is_saving
    BY DEF Init, PublishingInit, Registry!Init, is_saving, Idle
<1>2. r \in Routes /\ r.on = "other"
    BY DEF Routes
<1>3. DOMAIN items = {} /\ items \in Seq(Items) /\ Len(items) = 0
    BY <1>1
<1>4. PageInv(r, NewPage("other"), active, FALSE) /\ NewPage("other").loaded = Blank
    <2> HIDE DEF r
    <2> QED BY <1>2, NewPageIsSound
<1>5. PageInv(route, page, active, client)
    BY <1>2, <1>4 DEF Init, PageInv, ViewInv
<1>6. PublishingTypeOK
    BY <1>1, <1>3, PublishingAssumption DEF PublishingTypeOK
<1>7. TypeOK
    BY <1>1, <1>5, <1>6 DEF Init, TypeOK, PageInv, PageTypes
<1>8. ChainInv /\ NoneIsNone
    BY <1>1, <1>3 DEF ChainInv, PointersSound, RequestsSound, FirstsWatched, FirstsAreFirst,
                      OneProfilePerAccount, LandedSound, NoneIsNone, HasProfileItem
<1> QED BY <1>5, <1>7, <1>8 DEF PagesInv

\* One step per action.
LEMMA NextKeepsPages == PagesInv /\ [Next]_vars => PagesInv'
<1> SUFFICES ASSUME PagesInv, [Next]_vars PROVE PagesInv'
    OBVIOUS
<1>1. CASE UserNext
    BY <1>1, NavigateKeeps, SelectAccountKeeps, RefreshKeeps, ClickSaveKeeps, ClickPublishKeeps
       DEF UserNext
<1>2. CASE ClientChanges
    BY <1>2, ClientChangesKeeps
<1>3. CASE ChainStep
    BY <1>3, SubmitKeeps, IncludeNewKeeps, IncludeRevisionKeeps, RefuseKeeps
       DEF ChainStep, ChainNext
<1>4. ASSUME NEW t \in LoadTasks, LoadStep(t) PROVE PagesInv'
    BY <1>4, LoadStepKeeps
<1>5. CASE Published \/ PublishFails
    BY <1>5, PublishedKeeps, PublishFailsKeeps
<1>6. CASE UNCHANGED vars
    <2> USE <1>6 DEF vars
    <2>1. PageInv(route, page, active, client)'
        BY GrowthKeepsPage DEF ItemsGrow, chain
    <2>2. PublishingTypeOK'
        BY DEF PagesInv, TypeOK, PublishingTypeOK, chain
    <2>3. TypeOK'
        BY <2>1, <2>2, TypesAgain DEF PagesInv, TypeOK, is_saving
    <2>4. ChainInv'
        BY ChainInvKept DEF PagesInv
    <2>5. NoneIsNone'
        BY DEF PagesInv, NoneIsNone, HasProfileItem, chain
    <2> QED BY <2>1, <2>3, <2>4, <2>5 DEF PagesInv
<1> QED BY <1>1, <1>2, <1>3, <1>4, <1>5, <1>6 DEF Next

\* The inductive invariant holds in every reachable state.
LEMMA PagesInvariant == Spec => []PagesInv
BY InitPages, NextKeepsPages, PTL DEF Spec
----------------------------------------------------------------------------
\* Pages and tasks keep their types: no load on a page without one, no publishing
\* task off a form.
THEOREM PagesTypes == Spec => []TypeOK
<1>1. PagesInv => TypeOK
    BY DEF PagesInv
<1> QED BY PagesInvariant, <1>1, PTL

\* save_profile never publishes a second profile item for an account whose first
\* saves followed a load that found none and were seen to their end.
THEOREM OneProfile == Spec => []OneProfilePerAccount
<1>1. PagesInv => OneProfilePerAccount
    BY DEF PagesInv, ChainInv
<1> QED BY PagesInvariant, <1>1, PTL

\* What a publishing task reports as published is the signer's, and pointed at.
THEOREM LandedComplete == Spec => []LandedIsComplete
<1>1. PagesInv => LandedIsComplete
    <2> SUFFICES ASSUME PagesInv, publishing.at = "landed"
                 PROVE  /\ items[publishing.item].owner = publishing.request.signer
                        /\ items[publishing.item].kind = publishing.request.kind
                        /\ publishing.request.kind = "feed"
                             => publishing.item \in listed[publishing.request.signer]
                        /\ publishing.request.kind = "profile"
                           /\ publishing.request.signer \notin doubtful
                             => profile[publishing.request.signer] = publishing.item
        BY DEF LandedIsComplete
    <2>1. publishing.request.signer \in Accounts
        BY DEF PagesInv, TypeOK, PublishingTypeOK, Requests, Idle
    <2>2. LandedSound /\ OneProfilePerAccount
        BY DEF PagesInv, ChainInv
    <2> QED BY <2>1, <2>2 DEF LandedSound, OneProfilePerAccount
<1> QED BY PagesInvariant, <1>1, PTL

\* At rest the profile view shows the active account's profile, or none.
THEOREM ViewFollows == Spec => []ViewShowsActive
<1>1. PagesInv => ViewShowsActive
    BY DEF PagesInv, PageInv, ViewInv, ViewShowsActive
<1> QED BY PagesInvariant, <1>1, PTL

\* is_loading never outlives the loads that reset it.
THEOREM SpinnersEnd == Spec => []SpinnersMeanWork
<1>1. PagesInv => SpinnersMeanWork
    BY DEF PagesInv, PageInv, SpinnerInv, SpinnersMeanWork
<1> QED BY PagesInvariant, <1>1, PTL
----------------------------------------------------------------------------
\* Every step of the chain is one the registry takes, or none.
LEMMA IncludeNewIsRegistry ==
    ASSUME PagesInv, NEW s \in Slots, IncludeNew(s)
    PROVE  Registry!Next
<1> DEFINE r == pool[s]
           a == r.signer
<1>1. r \in Requests /\ r.revises = None
    BY DEF IncludeNew, PagesInv, TypeOK, PublishingTypeOK
<1>2. a \in Accounts /\ r.kind \in {"profile", "feed", "post"}
    BY <1>1 DEF Requests, Kinds
<1>3. Registry!Create(a, r.kind)
    BY DEF IncludeNew, Registry!Create
<1>4. /\ profile' = IF r.kind = "profile"
                    THEN [profile EXCEPT ![a] = Registry!New] ELSE profile
      /\ listed' = IF r.kind = "feed"
                   THEN [listed EXCEPT ![a] = @ \cup {Registry!New}] ELSE listed
    BY DEF IncludeNew, Registry!New
<1> HIDE DEF r, a
<1>5. CASE r.kind = "profile"
    BY <1>2, <1>3, <1>4, <1>5 DEF Registry!PublishProfile, Registry!Next
<1>6. CASE r.kind = "feed"
    BY <1>2, <1>3, <1>4, <1>6 DEF Registry!PublishFeed, Registry!Next
<1>7. CASE r.kind = "post"
    BY <1>2, <1>3, <1>4, <1>7 DEF Registry!PublishPost, Registry!Next
<1> QED BY <1>2, <1>5, <1>6, <1>7

\* An included revision is one Publish step of the abstract registry.
LEMMA IncludeRevisionIsRegistry ==
    ASSUME PagesInv, NEW s \in Slots, IncludeRevision(s)
    PROVE  Registry!Next
<1>1. pool[s] \in Requests /\ pool[s].signer \in Accounts
    BY DEF IncludeRevision, PagesInv, TypeOK, PublishingTypeOK, Requests
<1>2. pool[s].revises \in DOMAIN items /\ items[pool[s].revises].kind = "profile"
    BY DEF IncludeRevision, PagesInv, ChainInv, RequestsSound, RequestSound
<1>3. Registry!Revise(pool[s].signer, pool[s].revises)
    BY <1>2 DEF IncludeRevision, Registry!Revise
<1> QED BY <1>1, <1>2, <1>3 DEF Registry!Next

\* Pages and publishing tasks change the chain as ContentRegistry says: by whole
\* batches, and an item only by its owner.
THEOREM PagesImplementRegistry == Spec => ImplementsRegistry
<1>1. Init => Registry!Init
    BY DEF Init, PublishingInit
<1>2. PagesInv /\ [Next]_vars => [Registry!Next]_(Registry!registry)
    <2> SUFFICES ASSUME PagesInv, [Next]_vars
                 PROVE  Registry!Next \/ UNCHANGED <<items, profile, listed>>
        BY DEF Registry!registry
    <2>1. CASE ChainStep
        <3>1. PICK s \in Slots : Submit(s) \/ IncludeNew(s) \/ IncludeRevision(s) \/ Refuse(s)
            BY <2>1 DEF ChainStep, ChainNext
        <3> QED BY <3>1, IncludeNewIsRegistry, IncludeRevisionIsRegistry DEF Submit, Refuse
    <2>2. CASE UserNext
        BY <2>2 DEF UserNext, Navigate, SelectAccount, Refresh, ClickSave, ClickPublishFeed,
                    ClickPublishPost, Click, StartPublishing, chain
    <2>3. CASE ClientChanges \/ Published \/ PublishFails \/ UNCHANGED vars
        BY <2>3 DEF ClientChanges, Published, PublishFails, vars, chain
    <2>4. ASSUME NEW t \in LoadTasks, LoadStep(t) PROVE UNCHANGED <<items, profile, listed>>
        BY <2>4 DEF LoadStep, PointerRead, LoadSucceeds, LoadFails, OtherThanPage, chain
    <2> QED BY <2>1, <2>2, <2>3, <2>4 DEF Next
<1> QED BY PagesInvariant, <1>1, <1>2, PTL DEF Spec, ImplementsRegistry, Registry!Spec
----------------------------------------------------------------------------
(* What ContentRegistry implies, and so the pages keep.                    *)

FeedsOf(a) == {i \in DOMAIN items : items[i].kind = "feed" /\ items[i].owner = a}

ProfilesOf(a) == {i \in DOMAIN items : items[i].kind = "profile" /\ items[i].owner = a}

\* What an account has published is found from it: its feeds, and no other item, are
\* listed under it, and its pointer names its newest profile item.
ContentIsFound ==
    \A a \in Accounts :
        /\ listed[a] = FeedsOf(a)
        /\ IF ProfilesOf(a) = {} THEN profile[a] = None
           ELSE profile[a] \in ProfilesOf(a) /\ \A i \in ProfilesOf(a) : i <= profile[a]

RegistryInv ==
    /\ items \in Seq([owner : Accounts, kind : Kinds, revisions : Nat])
    /\ listed \in [Accounts -> SUBSET Nat]
    /\ profile \in [Accounts -> Nat \cup {None}]
    /\ ContentIsFound

\* What a new item adds to the items of its owner.
LEMMA CreateAdds ==
    ASSUME RegistryInv, NEW a \in Accounts, NEW kind \in Kinds, Registry!Create(a, kind)
    PROVE  /\ items' \in Seq([owner : Accounts, kind : Kinds, revisions : Nat])
           /\ Registry!New \in Nat
           /\ \A b \in Accounts :
                /\ FeedsOf(b)' = IF kind = "feed" /\ b = a THEN FeedsOf(b) \cup {Registry!New}
                                 ELSE FeedsOf(b)
                /\ ProfilesOf(b)' = IF kind = "profile" /\ b = a
                                    THEN ProfilesOf(b) \cup {Registry!New} ELSE ProfilesOf(b)
                /\ \A i \in ProfilesOf(b) : i \in Nat /\ i < Registry!New
<1> DEFINE n == Len(items)
           item == [owner |-> a, kind |-> kind, revisions |-> 1]
<1>1. items \in Seq([owner : Accounts, kind : Kinds, revisions : Nat]) /\ n \in Nat
    BY DEF RegistryInv
<1>2. item \in [owner : Accounts, kind : Kinds, revisions : Nat]
    OBVIOUS
<1>3. items' = Append(items, item) /\ Registry!New = n + 1
    BY DEF Registry!Create, Registry!New
<1>4. item.owner = a /\ item.kind = kind
    OBVIOUS
<1> HIDE DEF item
<1>5. /\ items' \in Seq([owner : Accounts, kind : Kinds, revisions : Nat])
      /\ DOMAIN items = 1..n /\ DOMAIN items' = 1..(n + 1)
      /\ \A i \in 1..n : items'[i] = items[i]
      /\ items'[n + 1] = item
    BY <1>1, <1>2, <1>3
<1> HIDE DEF n
<1>6. \A i : i \in 1..(n + 1) <=> i \in 1..n \/ i = n + 1
    BY <1>1
<1>7. ASSUME NEW b \in Accounts
      PROVE  /\ FeedsOf(b)' = IF kind = "feed" /\ b = a THEN FeedsOf(b) \cup {n + 1}
                              ELSE FeedsOf(b)
             /\ ProfilesOf(b)' = IF kind = "profile" /\ b = a
                                 THEN ProfilesOf(b) \cup {n + 1} ELSE ProfilesOf(b)
    <2>1. n + 1 \notin 1..n
        BY <1>1
    <2>2. FeedsOf(b)' = IF kind = "feed" /\ b = a THEN FeedsOf(b) \cup {n + 1} ELSE FeedsOf(b)
        BY <1>4, <1>5, <1>6, <2>1 DEF FeedsOf
    <2>3. ProfilesOf(b)' = IF kind = "profile" /\ b = a THEN ProfilesOf(b) \cup {n + 1}
                           ELSE ProfilesOf(b)
        BY <1>4, <1>5, <1>6, <2>1 DEF ProfilesOf
    <2> QED BY <2>2, <2>3
<1>8. \A b \in Accounts : \A i \in ProfilesOf(b) : i \in Nat /\ i < n + 1
    BY <1>1, <1>5 DEF ProfilesOf
<1> QED BY <1>1, <1>3, <1>5, <1>7, <1>8

\* Each action of the registry keeps what is found.
LEMMA RegistryKeeps == RegistryInv /\ [Registry!Next]_(Registry!registry) => RegistryInv'
<1> SUFFICES ASSUME RegistryInv, [Registry!Next]_(Registry!registry) PROVE RegistryInv'
    OBVIOUS
<1>1. ASSUME NEW a \in Accounts, Registry!PublishPost(a) PROVE RegistryInv'
    <2>1. "post" \in Kinds /\ Registry!Create(a, "post") /\ UNCHANGED <<profile, listed>>
        BY <1>1 DEF Kinds, Registry!PublishPost
    <2> QED BY <2>1, CreateAdds DEF RegistryInv, ContentIsFound
<1>2. ASSUME NEW a \in Accounts, Registry!PublishFeed(a) PROVE RegistryInv'
    <2>1. /\ "feed" \in Kinds /\ Registry!Create(a, "feed") /\ profile' = profile
          /\ listed' = [listed EXCEPT ![a] = @ \cup {Registry!New}]
        BY <1>2 DEF Kinds, Registry!PublishFeed
    <2> QED BY <2>1, CreateAdds DEF RegistryInv, ContentIsFound
<1>3. ASSUME NEW a \in Accounts, Registry!PublishProfile(a) PROVE RegistryInv'
    <2>1. /\ "profile" \in Kinds /\ Registry!Create(a, "profile") /\ listed' = listed
          /\ profile' = [profile EXCEPT ![a] = Registry!New]
        BY <1>3 DEF Kinds, Registry!PublishProfile
    <2>2. /\ items' \in Seq([owner : Accounts, kind : Kinds, revisions : Nat])
          /\ Registry!New \in Nat
          /\ \A b \in Accounts :
                /\ FeedsOf(b)' = FeedsOf(b)
                /\ ProfilesOf(b)' = IF b = a THEN ProfilesOf(b) \cup {Registry!New}
                                    ELSE ProfilesOf(b)
                /\ \A i \in ProfilesOf(b) : i \in Nat /\ i < Registry!New
        BY <2>1, CreateAdds
    <2>3. profile' \in [Accounts -> Nat \cup {None}] /\ listed' \in [Accounts -> SUBSET Nat]
        BY <2>1, <2>2 DEF RegistryInv
    <2>4. ASSUME NEW b \in Accounts
          PROVE  IF ProfilesOf(b)' = {} THEN profile'[b] = None
                 ELSE profile'[b] \in ProfilesOf(b)' /\ \A i \in ProfilesOf(b)' : i <= profile'[b]
        <3>1. CASE b = a
            <4>1. profile'[b] = Registry!New /\ ProfilesOf(b)' = ProfilesOf(b) \cup {Registry!New}
                BY <2>1, <2>2, <3>1 DEF RegistryInv
            <4> QED BY <2>2, <4>1
        <3>2. CASE b # a
            <4>1. profile'[b] = profile[b] /\ ProfilesOf(b)' = ProfilesOf(b)
                BY <2>1, <2>2, <3>2 DEF RegistryInv
            <4> QED BY <4>1 DEF RegistryInv, ContentIsFound
        <3> QED BY <3>1, <3>2
    <2>5. \A b \in Accounts : listed'[b] = FeedsOf(b)'
        BY <2>1, <2>2 DEF RegistryInv, ContentIsFound
    <2>6. ContentIsFound'
        BY <2>4, <2>5 DEF ContentIsFound
    <2> QED BY <2>2, <2>3, <2>6 DEF RegistryInv
<1>4. ASSUME NEW a \in Accounts, NEW i \in DOMAIN items, Registry!Revise(a, i)
      PROVE  RegistryInv'
    <2>1. items' = [items EXCEPT ![i].revisions = @ + 1] /\ UNCHANGED <<profile, listed>>
        BY <1>4 DEF Registry!Revise
    <2>2. /\ items' \in Seq([owner : Accounts, kind : Kinds, revisions : Nat])
          /\ DOMAIN items' = DOMAIN items
          /\ \A j \in DOMAIN items : items'[j].owner = items[j].owner
                                   /\ items'[j].kind = items[j].kind
        <3>1. items[i] \in [owner : Accounts, kind : Kinds, revisions : Nat]
            BY <1>4, ElementOfSeq, LenProperties DEF RegistryInv
        <3>2. [items[i] EXCEPT !.revisions = @ + 1] \in [owner : Accounts, kind : Kinds, revisions : Nat]
            BY <3>1
        <3> QED BY <1>4, <2>1, <3>1, <3>2 DEF RegistryInv
    <2>3. \A b \in Accounts : FeedsOf(b)' = FeedsOf(b) /\ ProfilesOf(b)' = ProfilesOf(b)
        BY <2>2 DEF FeedsOf, ProfilesOf
    <2> QED BY <2>1, <2>2, <2>3 DEF RegistryInv, ContentIsFound
<1>5. CASE UNCHANGED Registry!registry
    BY <1>5 DEF Registry!registry, RegistryInv, ContentIsFound, FeedsOf, ProfilesOf
<1> QED BY <1>1, <1>2, <1>3, <1>4, <1>5 DEF Registry!Next

\* Whatever implements ContentRegistry keeps what has been published within reach.
LEMMA RegistryFinds == Registry!Spec => []ContentIsFound
<1>1. Registry!Init => RegistryInv
    BY DEF Registry!Init, RegistryInv, ContentIsFound, FeedsOf, ProfilesOf
<1>2. RegistryInv => ContentIsFound
    BY DEF RegistryInv
<1> QED BY <1>1, <1>2, RegistryKeeps, PTL DEF Registry!Spec

\* A feed that was published is listed under its account, and an account's profile
\* pointer names its newest profile item, whatever was given up, overtaken or failed.
THEOREM ContentFound == Spec => []ContentIsFound
BY PagesImplementRegistry, RegistryFinds, PTL DEF ImplementsRegistry

\* A revision that lands for an account whose first saves were seen to their end is of
\* the item that its profile pointer names: no edit goes to an item that no page shows.
RevisionsAreSeen ==
    [][\A i \in DOMAIN items :
        items'[i].revisions # items[i].revisions /\ items[i].owner \notin doubtful
            => profile[items[i].owner] = i]_vars

\* No edit is lost on a profile item that a second first save has superseded.
THEOREM EditsAreSeen == Spec => RevisionsAreSeen
<1>1. ASSUME PagesInv, Next, NEW i \in DOMAIN items,
             items'[i].revisions # items[i].revisions, items[i].owner \notin doubtful
      PROVE  profile[items[i].owner] = i
    <2>1. items \in Seq(Items)
        BY <1>1 DEF PagesInv, TypeOK, PublishingTypeOK
    <2>2. PICK s \in Slots : IncludeNew(s) \/ IncludeRevision(s)
        BY <1>1 DEF Next, UserNext, Navigate, Open, SelectAccount, ClientChanges, Refresh,
                    ClickSave, ClickPublishFeed, ClickPublishPost, Click, StartPublishing, chain,
                    LoadStep, PointerRead, LoadSucceeds, LoadFails, OtherThanPage,
                    Published, PublishFails, ChainStep, ChainNext, Submit, Refuse
    <2>3. ~IncludeNew(s)
        <3>1. ASSUME NEW item, items' = Append(items, item) PROVE items'[i] = items[i]
            BY <1>1, <2>1, <3>1
        <3> QED BY <1>1, <3>1 DEF IncludeNew
    <2>4. /\ pool[s] # Free /\ pool[s].revises # None
          /\ items' = [items EXCEPT ![pool[s].revises].revisions = @ + 1]
        BY <2>2, <2>3 DEF IncludeRevision
    <2>5. i = pool[s].revises
        BY <1>1, <2>1, <2>4
    <2>6. items[i].kind = "profile"
        BY <1>1, <2>4, <2>5 DEF PagesInv, ChainInv, RequestsSound, RequestSound
    <2>7. items[i] \in Items
        BY <1>1, <2>1, ElementOfSeq, LenProperties
    <2>8. items[i].owner \in Accounts
        BY <2>7 DEF Items
    <2> QED BY <1>1, <2>6, <2>8 DEF PagesInv, ChainInv, OneProfilePerAccount
<1>2. PagesInv /\ [Next]_vars =>
        [\A i \in DOMAIN items :
            items'[i].revisions # items[i].revisions /\ items[i].owner \notin doubtful
                => profile[items[i].owner] = i]_vars
    BY <1>1
<1> QED BY <1>2, PagesInvariant, PTL DEF Spec, RevisionsAreSeen
=============================================================================
