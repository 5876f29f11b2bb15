-------------------------- MODULE CommentCardProofs --------------------------
(***************************************************************************)
(* Proofs about the cards in a place of the list of comments and their     *)
(* reaction bars, for any users, items, emojis, revisions, numbers of      *)
(* events and comments loaded.  What a bar may be certain of is inductive  *)
(* once it also covers the view to go back to, whether the pending         *)
(* submission has landed, and what it is about.                            *)
(***************************************************************************)
EXTENDS CommentCard, WellFoundedInduction, TLAPS

CardTypes ==
    /\ comment \in Comments /\ item = comment.item
    /\ card \in Cards
    /\ card.switching <=> card.fetching # {}

\* A view that shows account u, as its own, the set s.
Shows(view, u, s) == view = [me |-> u, mine |-> s]

\* The event is one that the load would take for its account's own.
About(event, load) ==
    event.reactor = load.for /\ event.item = load.item /\ event.revision = load.revision

\* What a bar is certain of when it would now load like that, with s on the chain.
SureOf(b, now, s) ==
    /\ b.submitting = None => Shows(b.view, now.for, s)
    /\ b.submitting # None /\ b.submitting.at = "revert" => Shows(b.submitting.old, now.for, s)
    /\ b.submitting # None /\ b.submitting.at = "sent" =>
        LET event == b.submitting.event
        IN  /\ About(event, now)
            /\ Shows(b.view, now.for, event.reactions)
            /\ IF b.submitting.landed THEN s = event.reactions
               ELSE Shows(b.submitting.old, now.for, s)

BarIsSure == bar.certain => SureOf(bar, Current, OnChain)

\* Only the body of the revision that is named is on its way.
FetchesNamed == card.fetching \subseteq {selected}

CardInv == ReactionsTypeOK /\ CardTypes /\ BarIsSure /\ FetchesNamed
----------------------------------------------------------------------------
\* A set of numbers up to n has a largest one, from the well-foundedness of < on Nat.
LEMMA LargestExists ==
    ASSUME NEW n \in Nat, NEW S \in SUBSET (1..n), S # {}
    PROVE  \E i \in S : \A j \in S : i >= j
<1> DEFINE R == OpToRel(<, Nat)
           below == {n - i : i \in S}
<1>1. below \subseteq Nat /\ below # {}
    <2>1. \A i \in S : n - i \in Nat
        OBVIOUS
    <2>2. PICK i \in S : TRUE
        OBVIOUS
    <2> QED BY <2>1, <2>2
<1>2. IsWellFoundedOn(R, Nat)
    BY NatLessThanWellFounded
<1>3. \E x \in below : \A y \in below : ~ (<<y, x>> \in R)
    <2> HIDE DEF R, below
    <2> QED BY <1>1, <1>2, WFMin
<1>4. PICK i \in S : \A y \in below : ~ (<<y, n - i>> \in R)
    BY <1>3
<1>5. ASSUME NEW j \in S PROVE i >= j
    <2>1. n - j \in below /\ n - j \in Nat /\ n - i \in Nat
        OBVIOUS
    <2>2. ~ (n - j < n - i)
        BY <1>4, <2>1 DEF OpToRel
    <2> QED BY <2>2
<1> QED BY <1>5

\* So an account has a last event on every revision it reacted to.
LEMMA LastEventExists ==
    ASSUME NEW n \in Nat, NEW load, EventsOf(log, n, load) # {}
    PROVE  \E i \in EventsOf(log, n, load) : \A j \in EventsOf(log, n, load) : i >= j
BY LargestExists DEF EventsOf

\* The latest set of an account is a set of emojis, the empty one before its first
\* event.
LEMMA LatestIsSet ==
    ASSUME ReactionsTypeOK, NEW n \in 0..Len(log), NEW load
    PROVE  Latest(n, load) \in SUBSET Emojis
<1> DEFINE own == EventsOf(log, n, load)
<1>1. CASE own = {}
    BY <1>1 DEF Latest
<1>2. CASE own # {}
    <2>1. \E i \in own : \A j \in own : i >= j
        BY <1>2, LastEventExists DEF ReactionsTypeOK
    <2>2. Max(own) \in own
        BY <2>1 DEF Max
    <2>3. Max(own) \in 1..Len(log)
        BY <2>2 DEF EventsOf, ReactionsTypeOK
    <2>4. log[Max(own)] \in Events
        BY <2>3 DEF ReactionsTypeOK
    <2>5. log[Max(own)].reactions \in SUBSET Emojis
        BY <2>4 DEF Events
    <2> QED BY <1>2, <2>5 DEF Latest
<1> QED BY <1>1, <1>2

\* An answer of the indexer is a view.
LEMMA FetchedIsView ==
    ASSUME ReactionsTypeOK, NEW n \in 0..Len(log), NEW load \in Loads
    PROVE  Fetched(n, load) \in Views /\ Shows(Fetched(n, load), load.for, Latest(n, load))
<1>1. Latest(n, load) \in SUBSET Emojis /\ load.for \in Users
    BY LatestIsSet DEF Loads
<1> QED BY <1>1 DEF Fetched, Views, Shows

\* What an event at the end of the log changes: the set of its account on its
\* revision, and no other.
LEMMA LatestAppend ==
    ASSUME ReactionsTypeOK, NEW event \in Events, Len(log) < MaxEvents,
           log' = Append(log, event)
    PROVE  /\ log' \in Seq(Events) /\ Len(log') <= MaxEvents
           /\ \A load \in Loads :
                Latest(Len(log), load)' =
                    IF About(event, load) THEN event.reactions ELSE Latest(Len(log), load)
<1> DEFINE m == Len(log)
<1>1. /\ m \in Nat /\ log' \in Seq(Events) /\ Len(log') = m + 1
      /\ \A i \in 1..m : log'[i] = log[i]
      /\ log'[m + 1] = event
    BY DEF ReactionsTypeOK
<1>0. Len(log') <= MaxEvents
    BY <1>1, ReactionsAssumption
<1> HIDE DEF m
<1>2. \A n \in 0..m, load \in Loads : EventsOf(log', n, load) = EventsOf(log, n, load)
    BY <1>1 DEF EventsOf
<1>3. ASSUME NEW load \in Loads
      PROVE  EventsOf(log', m + 1, load) =
                 IF About(event, load)
                 THEN EventsOf(log, m, load) \cup {m + 1} ELSE EventsOf(log, m, load)
    <2>1. \A i : i \in 1..(m + 1) <=> i \in 1..m \/ i = m + 1
        BY <1>1
    <2>2. m + 1 \notin 1..m
        BY <1>1
    <2> QED BY <1>1, <2>1, <2>2 DEF EventsOf, About
<1>4. \A load \in Loads : EventsOf(log, m, load) \subseteq 1..m
    BY DEF EventsOf
<1>5. ASSUME NEW load \in Loads
      PROVE  Latest(Len(log), load)' =
                 IF About(event, load) THEN event.reactions ELSE Latest(m, load)
    <2> DEFINE own == EventsOf(log, m, load)
               own2 == EventsOf(log', m + 1, load)
    <2>1. Latest(Len(log), load)' = IF own2 = {} THEN {} ELSE log'[Max(own2)].reactions
        BY <1>1 DEF Latest
    <2>2. CASE About(event, load)
        <3>1. own2 = own \cup {m + 1} /\ own \subseteq 1..m
            BY <2>2, <1>3, <1>4
        <3>2. m + 1 \in own2 /\ \A j \in own2 : m + 1 >= j
            BY <3>1, <1>1
        <3>3. \A x \in own2 : (\A j \in own2 : x >= j) => x = m + 1
            BY <3>1, <3>2, <1>1
        <3>4. Max(own2) = m + 1
            BY <3>2, <3>3 DEF Max
        <3> QED BY <2>1, <2>2, <3>2, <3>4, <1>1
    <2>3. CASE ~About(event, load)
        <3>1. own2 = own
            BY <2>3, <1>3
        <3>2. CASE own = {}
            BY <2>1, <2>3, <3>1, <3>2 DEF Latest, m
        <3>3. CASE own # {}
            <4>1. \E i \in own : \A j \in own : i >= j
                BY <3>3, <1>1, LastEventExists DEF m
            <4>2. Max(own) \in own
                BY <4>1 DEF Max
            <4>3. log'[Max(own)] = log[Max(own)]
                BY <4>2, <1>4, <1>1
            <4> QED BY <2>1, <2>3, <3>1, <3>3, <4>3 DEF Latest
        <3> QED BY <3>2, <3>3
    <2> QED BY <2>2, <2>3
<1> QED BY <1>0, <1>1, <1>5 DEF m

\* The load effect changes nothing of a bar but what it has asked.
LEMMA EffectKeepsBar ==
    ASSUME NEW u \in Users, NEW r \in Revisions, NEW b \in Bars
    PROVE  /\ BarEffect(u, r, b) \in Bars
           /\ BarEffect(u, r, b).view = b.view /\ BarEffect(u, r, b).certain = b.certain
           /\ BarEffect(u, r, b).submitting = b.submitting
<1>1. [for |-> u, item |-> b.item, revision |-> r] \in Loads
    BY DEF Loads, Bars
<1> QED BY <1>1 DEF BarEffect, Bars

\* A bar that is not sure of anything may be any.
LEMMA UnsureKeeps ==
    ASSUME NEW b \in Bars
    PROVE  Unsure(b) \in Bars /\ ~Unsure(b).certain /\ Unsure(b).submitting = b.submitting
BY DEF Unsure, Bars

\* What a load would ask now is a load.
LEMMA CurrentIsLoad ==
    ReactionsTypeOK => Current \in Loads /\ Current.for = active
BY DEF ReactionsTypeOK, Current, Loads
----------------------------------------------------------------------------
\* What is on the chain for the bar depends on the log and on what the bar is on.
LEMMA SameChain ==
    ASSUME UNCHANGED surroundings
    PROVE  OnChain' = OnChain /\ Current' = Current
BY DEF OnChain, Latest, EventsOf, Current, surroundings

\* A step of the bar that leaves the card and the chain alone keeps the invariant
\* if the new bar is right about the same set.
LEMMA BarStepKeeps ==
    ASSUME CardInv, UNCHANGED surroundings, UNCHANGED <<comment, card>>, bar' \in Bars,
           bar'.certain => SureOf(bar', Current, OnChain)
    PROVE  CardInv'
<1>1. OnChain' = OnChain /\ Current' = Current
    BY SameChain
<1>2. ReactionsTypeOK' /\ CardTypes' /\ FetchesNamed'
    BY DEF CardInv, ReactionsTypeOK, CardTypes, FetchesNamed, surroundings
<1>3. BarIsSure'
    <2> SUFFICES ASSUME bar'.certain PROVE SureOf(bar', Current', OnChain')
        BY DEF BarIsSure
    <2> QED BY <1>1
<1> QED BY <1>2, <1>3 DEF CardInv

\* An event about something else, or one the new bar is right about.
LEMMA EventKeeps ==
    ASSUME CardInv, NEW event \in Events, Len(log) < MaxEvents, log' = Append(log, event),
           UNCHANGED <<active, item, selected, comment, card>>, bar' \in Bars,
           bar'.certain => SureOf(bar', Current, IF About(event, Current)
                                                 THEN event.reactions ELSE OnChain)
    PROVE  CardInv'
<1>1. ReactionsTypeOK
    BY DEF CardInv
<1>2. PICK now \in Loads : now = Current
    BY <1>1, CurrentIsLoad
<1>3. Current' = Current
    BY DEF Current
<1>4. OnChain' = IF About(event, Current) THEN event.reactions ELSE OnChain
    <2>1. Latest(Len(log), now)' = IF About(event, now)
                                   THEN event.reactions ELSE Latest(Len(log), now)
        BY <1>1, LatestAppend
    <2>2. OnChain' = Latest(Len(log), now)'
        BY <1>2, <1>3 DEF OnChain, Latest, EventsOf
    <2> QED BY <1>2, <2>1, <2>2 DEF OnChain
<1>5. ReactionsTypeOK'
    BY <1>1, LatestAppend DEF ReactionsTypeOK
<1>6. CardTypes' /\ FetchesNamed'
    BY DEF CardInv, CardTypes, FetchesNamed
<1>7. BarIsSure'
    <2> SUFFICES ASSUME bar'.certain PROVE SureOf(bar', Current', OnChain')
        BY DEF BarIsSure
    <2> QED BY <1>3, <1>4
<1> QED BY <1>5, <1>6, <1>7 DEF CardInv
----------------------------------------------------------------------------
\* The two stages of a submission.
LEMMA SubmissionShape ==
    /\ None \notin Submissions
    /\ \A s \in Submissions :
        \/ s.at = "sent" /\ s.event \in Events /\ s.landed \in BOOLEAN /\ s.old \in Views
        \/ s.at = "revert" /\ s.ask \in Loads /\ s.old \in Views
    /\ \A e \in Events, l \in BOOLEAN, v \in Views :
        [at |-> "sent", event |-> e, landed |-> l, old |-> v] \in Submissions
    /\ \A a \in Loads, v \in Views :
        [at |-> "revert", ask |-> a, old |-> v] \in Submissions
BY ReactionsAssumption DEF Submissions

\* A new bar has nothing to be sure of.
LEMMA NewBarIsSound ==
    ASSUME NEW i \in Items
    PROVE  NewBar(i) \in Bars /\ ~NewBar(i).certain /\ NewBar(i).submitting = None
BY DEF NewBar, Bars, Views

\* What was loaded for the place is about an item and its revisions.
LEMMA CommentShape ==
    ASSUME NEW c \in Comments
    PROVE  c.item \in Items /\ c.body \in Revisions /\ c.revision \in Revisions
BY CommentAssumption

\* The page opens on a comment as it was loaded.
LEMMA InitCard == Init => CardInv
<1> SUFFICES ASSUME Init PROVE CardInv
    OBVIOUS
<1>1. /\ comment \in Comments /\ comment.item \in Items
      /\ comment.revision \in Revisions /\ comment.body \in Revisions
      /\ item = comment.item /\ selected = comment.revision /\ active \in Users
    BY CommentShape DEF Init
<1>2. bar \in Bars /\ ~bar.certain
    BY <1>1, NewBarIsSound, EffectKeepsBar DEF Init
<1>3. log \in Seq(Events) /\ Len(log) <= MaxEvents
    BY ReactionsAssumption DEF Init
<1>4. card \in Cards /\ ~card.switching /\ card.fetching = {}
    BY <1>1 DEF Init, NewCard, Cards
<1> QED BY <1>1, <1>2, <1>3, <1>4
        DEF CardInv, ReactionsTypeOK, CardTypes, BarIsSure, FetchesNamed

\* A load that ends well: sure only when nothing is pending and all has been read.
LEMMA LoadedKeeps ==
    ASSUME CardInv, NEW load \in Loads, Loaded(load), UNCHANGED <<comment, card>>
    PROVE  CardInv'
<1>1. PICK n \in 0..Len(log) :
        bar' = [bar EXCEPT !.view = Fetched(n, load),
                           !.certain = Complete(n, load) /\ bar.submitting = None]
    BY DEF Loaded
<1>2. ReactionsTypeOK /\ bar \in Bars
    BY DEF CardInv, ReactionsTypeOK
<1>3. /\ Fetched(n, load) \in Views
      /\ Shows(Fetched(n, load), load.for, Latest(n, load))
    BY <1>2, FetchedIsView
<1>4. Complete(n, load) \in BOOLEAN
    BY DEF Complete
<1> HIDE DEF Complete
<1>5. /\ bar' \in Bars /\ bar'.view = Fetched(n, load) /\ bar'.submitting = bar.submitting
      /\ bar'.certain => Complete(n, load) /\ bar.submitting = None
    BY <1>1, <1>2, <1>3, <1>4 DEF Bars
<1>6. bar'.certain => SureOf(bar', Current, OnChain)
    BY <1>3, <1>5 DEF Complete, SureOf, OnChain
<1> QED BY <1>5, <1>6, BarStepKeeps DEF Loaded

\* What a click makes of the bar.
LEMMA ToggleShape ==
    ASSUME ReactionsTypeOK, NEW e \in Emojis, Toggle(e)
    PROVE  LET set == Flip(bar.view.mine, e)
               event == [reactor |-> active, item |-> item, revision |-> selected,
                         reactions |-> set]
           IN  /\ bar.submitting = None
               /\ event \in Events
               /\ bar' \in Bars /\ bar'.certain = bar.certain
               /\ Shows(bar'.view, active, set)
               /\ bar'.submitting = [at |-> "sent", event |-> event, landed |-> FALSE,
                                     old |-> bar.view]
               /\ bar'.submitting # None
<1> DEFINE set == Flip(bar.view.mine, e)
           event == [reactor |-> active, item |-> item, revision |-> selected,
                     reactions |-> set]
           sent == [at |-> "sent", event |-> event, landed |-> FALSE, old |-> bar.view]
           view == [me |-> active, mine |-> set]
<1>1. bar.view \in Views /\ active \in Users /\ item \in Items /\ selected \in Revisions
    BY DEF ReactionsTypeOK, Bars
<1>2. set \in SUBSET Emojis
    BY <1>1 DEF Views, Flip
<1>3. event \in Events
    BY <1>1, <1>2 DEF Events
<1>4. view \in Views /\ Shows(view, active, set)
    BY <1>1, <1>2 DEF Views, Shows
<1>5. sent \in Submissions /\ sent # None
    BY <1>1, <1>3, SubmissionShape
<1>6. bar' = [bar EXCEPT !.view = view, !.submitting = sent] /\ bar.submitting = None
    BY DEF Toggle, ToggleTo
<1> HIDE DEF view, sent, event, set
<1>7. bar' \in Bars /\ bar'.view = view /\ bar'.submitting = sent /\ bar'.certain = bar.certain
    BY <1>4, <1>5, <1>6 DEF Bars, ReactionsTypeOK
<1> QED BY <1>3, <1>4, <1>5, <1>6, <1>7 DEF sent, event, set

\* A click shows its set at once, and keeps the view it may go back to.
LEMMA ToggleKeeps ==
    ASSUME CardInv, NEW e \in Emojis, Toggle(e), UNCHANGED <<comment, card>>
    PROVE  CardInv'
<1> DEFINE set == Flip(bar.view.mine, e)
           event == [reactor |-> active, item |-> item, revision |-> selected,
                     reactions |-> set]
<1>1. /\ bar.submitting = None
      /\ bar' \in Bars /\ bar'.certain = bar.certain
      /\ Shows(bar'.view, active, set)
      /\ bar'.submitting = [at |-> "sent", event |-> event, landed |-> FALSE, old |-> bar.view]
      /\ bar'.submitting # None
    BY ToggleShape DEF CardInv
<1> HIDE DEF set
<1>2. bar'.certain => Shows(bar.view, active, OnChain)
    BY <1>1 DEF CardInv, BarIsSure, SureOf, Current
<1>3. /\ bar'.submitting.at = "sent" /\ bar'.submitting.event = event
      /\ ~bar'.submitting.landed /\ bar'.submitting.old = bar.view
      /\ About(event, Current) /\ event.reactions = set /\ Current.for = active
    BY <1>1 DEF About, Current
<1>4. bar'.certain => SureOf(bar', Current, OnChain)
    BY <1>1, <1>2, <1>3 DEF SureOf
<1> QED BY <1>1, <1>4, BarStepKeeps DEF Toggle, ToggleTo

\* The submission is in a block: from here on its set is the account's.
LEMMA IncludeKeeps ==
    ASSUME CardInv, Include, UNCHANGED <<comment, card>>
    PROVE  CardInv'
<1> DEFINE event == bar.submitting.event
<1>1. /\ bar.submitting \in Submissions /\ bar.submitting.at = "sent"
      /\ ~bar.submitting.landed /\ event \in Events /\ bar.submitting.old \in Views
    BY SubmissionShape DEF CardInv, ReactionsTypeOK, Bars, Include, Sent
<1>2. log' = Append(log, event) /\ bar' = [bar EXCEPT !.submitting.landed = TRUE]
    BY DEF Include
<1>3. /\ [bar.submitting EXCEPT !.landed = TRUE] \in Submissions
      /\ [bar.submitting EXCEPT !.landed = TRUE].at = "sent"
      /\ [bar.submitting EXCEPT !.landed = TRUE].landed
      /\ [bar.submitting EXCEPT !.landed = TRUE].event = event
    <2>1. bar.submitting \in [at : {"sent"}, event : Events, landed : BOOLEAN, old : Views]
        BY <1>1 DEF Submissions
    <2> QED BY <2>1 DEF Submissions
<1>4. /\ bar' \in Bars /\ bar'.certain = bar.certain /\ bar'.view = bar.view
      /\ bar'.submitting = [bar.submitting EXCEPT !.landed = TRUE]
    BY <1>2, <1>3 DEF Bars, CardInv, ReactionsTypeOK
<1>5. /\ bar'.submitting # None /\ bar'.submitting.at = "sent" /\ bar'.submitting.landed
      /\ bar'.submitting.event = event
    BY <1>3, <1>4, SubmissionShape
<1>6. bar.certain => About(event, Current) /\ Shows(bar.view, Current.for, event.reactions)
    BY <1>1, SubmissionShape DEF CardInv, BarIsSure, SureOf
<1> HIDE DEF event
<1>7. bar'.certain => SureOf(bar', Current, IF About(event, Current)
                                            THEN event.reactions ELSE OnChain)
    BY <1>4, <1>5, <1>6 DEF SureOf
<1> QED BY <1>1, <1>2, <1>4, <1>7, EventKeeps DEF Include

\* The end of a submission that landed.
LEMMA SubmittedKeeps ==
    ASSUME CardInv, Submitted, UNCHANGED <<comment, card>>
    PROVE  CardInv'
<1>1. /\ bar.submitting # None /\ bar.submitting.at = "sent" /\ bar.submitting.landed
      /\ bar \in Bars
    BY DEF Submitted, Sent, CardInv, ReactionsTypeOK
<1>2. /\ bar' \in Bars /\ bar'.certain = bar.certain /\ bar'.view = bar.view
      /\ bar'.submitting = None
    BY <1>1 DEF Submitted, Bars
<1>3. bar.certain => Shows(bar.view, Current.for, OnChain)
    BY <1>1 DEF CardInv, BarIsSure, SureOf
<1>4. bar'.certain => SureOf(bar', Current, OnChain)
    BY <1>2, <1>3 DEF SureOf
<1> QED BY <1>2, <1>4, BarStepKeeps DEF Submitted

\* A failure: what was sent has landed and nothing is sure, or the old view is right.
LEMMA SubmitFailsKeeps ==
    ASSUME CardInv, SubmitFails, UNCHANGED <<comment, card>>
    PROVE  CardInv'
<1> DEFINE known == IF bar.submitting.landed THEN Unsure(bar) ELSE bar
           ask == [Current EXCEPT !.item = bar.submitting.event.item]
           revert == [at |-> "revert", ask |-> ask, old |-> bar.submitting.old]
<1>1. /\ bar \in Bars /\ ReactionsTypeOK
      /\ bar.submitting \in Submissions /\ bar.submitting # None
      /\ bar.submitting.at = "sent" /\ bar.submitting.old \in Views
      /\ bar.submitting.event \in Events
    BY SubmissionShape DEF CardInv, ReactionsTypeOK, Bars, SubmitFails, Sent
<1>2. bar' = [known EXCEPT !.submitting = revert]
    BY DEF SubmitFails
<1>3. /\ known \in Bars
      /\ known.certain => bar.certain /\ ~bar.submitting.landed
    BY <1>1, UnsureKeeps
<1>4. known.certain => Shows(bar.submitting.old, Current.for, OnChain)
    BY <1>1, <1>3 DEF CardInv, BarIsSure, SureOf
<1>5. revert \in Submissions /\ revert # None
    <2>1. ask \in Loads
        BY <1>1, CurrentIsLoad DEF Loads, Events
    <2> QED BY <1>1, <2>1, SubmissionShape
<1>6. revert.at = "revert" /\ revert.old = bar.submitting.old
    OBVIOUS
<1> HIDE DEF known, revert
<1>7. bar' \in Bars /\ bar'.submitting = revert /\ bar'.certain = known.certain
    BY <1>2, <1>3, <1>5 DEF Bars
<1>8. bar'.certain => SureOf(bar', Current, OnChain)
    BY <1>4, <1>5, <1>6, <1>7 DEF SureOf
<1> QED BY <1>7, <1>8, BarStepKeeps DEF SubmitFails

\* The revert ends with the old view, or with an answer about what it asked.
LEMMA RevertedKeeps ==
    ASSUME CardInv, Reverted, UNCHANGED <<comment, card>>
    PROVE  CardInv'
<1> DEFINE ask == bar.submitting.ask
<1>1. /\ bar \in Bars /\ bar.submitting \in Submissions /\ bar.submitting # None
      /\ bar.submitting.at = "revert" /\ ask \in Loads /\ bar.submitting.old \in Views
      /\ ReactionsTypeOK
    BY SubmissionShape DEF CardInv, ReactionsTypeOK, Bars, Reverted
<1>2. CASE bar' = [bar EXCEPT !.view = bar.submitting.old, !.submitting = None]
    <2>1. /\ bar' \in Bars /\ bar'.certain = bar.certain
          /\ bar'.view = bar.submitting.old /\ bar'.submitting = None
        BY <1>1, <1>2 DEF Bars
    <2>2. bar'.certain => SureOf(bar', Current, OnChain)
        BY <1>1, <2>1 DEF CardInv, BarIsSure, SureOf
    <2> QED BY <2>1, <2>2, BarStepKeeps DEF Reverted
<1>3. ASSUME NEW n \in 0..Len(log),
             bar' = [bar EXCEPT !.view = Fetched(n, ask), !.submitting = None,
                                !.certain = Complete(n, ask)]
      PROVE  CardInv'
    <2>1. /\ Fetched(n, ask) \in Views
          /\ Shows(Fetched(n, ask), ask.for, Latest(n, ask))
        BY <1>1, FetchedIsView
    <2>2. Complete(n, ask) \in BOOLEAN
        BY DEF Complete
    <2> HIDE DEF ask
    <2>3. /\ bar' \in Bars /\ bar'.view = Fetched(n, ask)
          /\ bar'.submitting = None /\ bar'.certain = Complete(n, ask)
        BY <1>1, <1>3, <2>1, <2>2 DEF Bars
    <2>4. bar'.certain => SureOf(bar', Current, OnChain)
        BY <2>1, <2>3 DEF Complete, SureOf, OnChain
    <2> QED BY <2>3, <2>4, BarStepKeeps DEF Reverted
<1> QED BY <1>2, <1>3 DEF Reverted
----------------------------------------------------------------------------
\* Somebody reacts elsewhere: the bar is not sure any more, or it is not its account.
LEMMA ReactKeeps ==
    ASSUME CardInv, NEW load \in Loads, NEW e \in Emojis,
           React(load, e), UNCHANGED <<comment, card>>
    PROVE  CardInv'
<1> DEFINE event == [reactor |-> load.for, item |-> load.item, revision |-> load.revision,
                     reactions |-> Flip(Latest(Len(log), load), e)]
<1>1. bar \in Bars /\ ReactionsTypeOK /\ Len(log) \in 0..Len(log)
    BY DEF CardInv, ReactionsTypeOK
<1>2. Latest(Len(log), load) \in SUBSET Emojis
    BY <1>1, LatestIsSet
<1>3. event \in Events /\ event.reactor = load.for
    BY <1>2 DEF Events, Flip, Loads
<1>4. log' = Append(log, event) /\ bar' = IF load.for = active THEN Unsure(bar) ELSE bar
    BY DEF React
<1> HIDE DEF event
<1>5. bar' \in Bars /\ (bar'.certain => bar' = bar /\ load.for # active)
    BY <1>1, <1>4, UnsureKeeps
<1>6. bar'.certain => SureOf(bar', Current, IF About(event, Current)
                                            THEN event.reactions ELSE OnChain)
    BY <1>3, <1>5 DEF CardInv, BarIsSure, About, Current
<1> QED BY <1>3, <1>4, <1>5, <1>6, EventKeeps DEF React

\* One more load, which has not answered.
LEMMA ReconnectKeeps ==
    ASSUME CardInv, Reconnect, UNCHANGED <<comment, card>>
    PROVE  CardInv'
<1>1. bar \in Bars /\ active \in Users /\ selected \in Revisions
    BY DEF CardInv, ReactionsTypeOK
<1>2. /\ bar' \in Bars /\ bar'.view = bar.view /\ bar'.submitting = bar.submitting
      /\ bar'.certain = bar.certain
    BY <1>1, EffectKeepsBar DEF Reconnect
<1>3. bar'.certain => SureOf(bar', Current, OnChain)
    BY <1>2 DEF CardInv, BarIsSure, SureOf
<1> QED BY <1>2, <1>3, BarStepKeeps DEF Reconnect

\* What another account, revision or item, or a new bar, is not sure of.
LEMMA UnsureStepKeeps ==
    ASSUME CardInv, UNCHANGED log, active' \in Users, item' \in Items,
           selected' \in Revisions, bar' \in Bars, ~bar'.certain, CardTypes', FetchesNamed'
    PROVE  CardInv'
BY DEF CardInv, ReactionsTypeOK, BarIsSure

\* Another account is selected.
LEMMA SelectAccountKeeps ==
    ASSUME CardInv, NEW u \in Users, SelectAccount(u), UNCHANGED <<comment, card>>
    PROVE  CardInv'
<1>1. bar \in Bars /\ item \in Items /\ selected \in Revisions
    BY DEF CardInv, ReactionsTypeOK
<1>2. bar' \in Bars /\ ~bar'.certain
    BY <1>1, UnsureKeeps, EffectKeepsBar DEF SelectAccount
<1>3. CardTypes' /\ FetchesNamed'
    BY DEF SelectAccount, CardInv, CardTypes, FetchesNamed
<1> QED BY <1>1, <1>2, <1>3, UnsureStepKeeps DEF SelectAccount

\* The bar loads for the revision that is named.
LEMMA NameShape ==
    ASSUME CardInv, NEW r \in Revisions, Name(r)
    PROVE  bar' \in Bars /\ ~bar'.certain /\ selected' = r
           /\ bar'.submitting = bar.submitting
           /\ UNCHANGED <<active, log, item, comment>>
<1>1. bar \in Bars /\ active \in Users
    BY DEF CardInv, ReactionsTypeOK
<1>2. Unsure(bar) \in Bars /\ ~Unsure(bar).certain /\ Unsure(bar).submitting = bar.submitting
    BY <1>1, UnsureKeeps
<1> QED BY <1>1, <1>2, EffectKeepsBar DEF Name

\* A new card, with a new bar.
LEMMA MountKeeps ==
    ASSUME CardInv, NEW c \in Comments, Mount(c), UNCHANGED <<active, log>>
    PROVE  CardInv' /\ bar'.submitting = None
<1>1. c.item \in Items /\ c.body \in Revisions /\ c.revision \in Revisions /\ active \in Users
    BY CommentShape DEF CardInv, ReactionsTypeOK
<1>2. bar' \in Bars /\ ~bar'.certain /\ bar'.submitting = None
    BY <1>1, NewBarIsSound, EffectKeepsBar DEF Mount
<1>3. CardTypes' /\ FetchesNamed'
    BY <1>1 DEF Mount, NewCard, Cards, CardTypes, FetchesNamed
<1> QED BY <1>1, <1>2, <1>3, UnsureStepKeeps DEF Mount

\* A card that shows another comment keeps everything else; its bar, when it is on
\* another item, is not sure of anything.
LEMMA RefillKeeps ==
    ASSUME CardInv, Refill
    PROVE  CardInv'
<1>1. /\ comment' \in Comments /\ item' \in Items /\ bar \in Bars
      /\ active \in Users /\ selected \in Revisions
    BY CommentShape DEF CardInv, ReactionsTypeOK, Refill
<1>2. CardTypes' /\ FetchesNamed'
    BY <1>1 DEF Refill, CardInv, CardTypes, FetchesNamed
<1>3. CASE item' = item
    <2>1. bar' = bar /\ UNCHANGED surroundings
        BY <1>3 DEF Refill, surroundings
    <2>2. ReactionsTypeOK'
        BY <2>1 DEF CardInv, ReactionsTypeOK, surroundings
    <2>3. BarIsSure'
        BY <2>1, SameChain DEF CardInv, BarIsSure
    <2> QED BY <1>2, <2>2, <2>3 DEF CardInv
<1>4. CASE item' # item
    <2>1. bar' \in Bars /\ ~bar'.certain
        BY <1>1, <1>4, UnsureKeeps DEF Refill
    <2> QED BY <1>1, <1>2, <2>1, UnsureStepKeeps DEF Refill
<1> QED BY <1>3, <1>4

\* A fetch that ends: none is left.
LEMMA FetchEndsKeeps ==
    ASSUME CardInv, NEW r \in Revisions, Switched(r) \/ SwitchFails(r)
    PROVE  CardInv'
<1>1. UNCHANGED surroundings /\ UNCHANGED <<bar, comment>>
    BY DEF Switched, SwitchFails, FetchEnds, surroundings
<1>2. card.fetching = {r} /\ card \in Cards
    BY DEF CardInv, CardTypes, FetchesNamed, Switched, SwitchFails, FetchEnds
<1>3. card' \in Cards /\ ~card'.switching /\ card'.fetching = {}
    <2>1. card.fetching \ {r} = {}
        BY <1>2
    <2>2. CASE Switched(r)
        <3>1. card' = [viewed |-> r, switching |-> FALSE, fetching |-> {}]
            BY <2>1, <2>2 DEF Switched
        <3> QED BY <3>1 DEF Cards
    <2>3. CASE SwitchFails(r)
        BY <1>2, <2>1, <2>3 DEF SwitchFails, Cards
    <2> QED BY <2>2, <2>3
<1>4. CardTypes' /\ FetchesNamed'
    BY <1>1, <1>3 DEF CardInv, CardTypes, FetchesNamed, surroundings
<1>5. ReactionsTypeOK'
    BY <1>1 DEF CardInv, ReactionsTypeOK, surroundings
<1>6. BarIsSure'
    BY <1>1, SameChain DEF CardInv, BarIsSure
<1> QED BY <1>4, <1>5, <1>6 DEF CardInv

\* Every step of the card.
LEMMA CardStepKeeps == CardInv /\ CardStep => CardInv'
<1> SUFFICES ASSUME CardInv, CardStep PROVE CardInv'
    OBVIOUS
<1>1. /\ active \in Users /\ item \in Items /\ card \in Cards /\ comment \in Comments
      /\ comment.body \in Revisions /\ comment.revision \in Revisions
    BY CommentShape DEF CardInv, ReactionsTypeOK, CardTypes
<1>2. CASE Reload
    BY <1>2, MountKeeps DEF Reload
<1>3. CASE Refill
    BY <1>3, RefillKeeps
<1>4. CASE SelectLatest
    <2>1. /\ bar' \in Bars /\ ~bar'.certain /\ selected' = comment.revision
          /\ UNCHANGED <<active, log, item, comment>>
        BY <1>1, <1>4, NameShape DEF SelectLatest
    <2>2. card' \in Cards /\ card'.switching = card.switching /\ card'.fetching = card.fetching
        BY <1>1, <1>4 DEF SelectLatest, Cards
    <2>3. card.fetching = {}
        BY <1>4 DEF SelectLatest, CardInv, CardTypes
    <2>4. CardTypes' /\ FetchesNamed'
        BY <1>1, <2>1, <2>2, <2>3 DEF CardInv, CardTypes, FetchesNamed
    <2> QED BY <1>1, <2>1, <2>4, UnsureStepKeeps
<1>5. ASSUME NEW r \in Revisions, SelectRevision(r) PROVE CardInv'
    <2>1. /\ bar' \in Bars /\ ~bar'.certain /\ selected' = r
          /\ UNCHANGED <<active, log, item, comment>>
        BY <1>5, NameShape DEF SelectRevision
    <2>2. card.fetching = {}
        BY <1>5 DEF SelectRevision, CardInv, CardTypes
    <2>3. card' \in Cards /\ card'.switching /\ card'.fetching = {r}
        BY <1>1, <1>5, <2>2 DEF SelectRevision, Cards
    <2>4. CardTypes' /\ FetchesNamed'
        BY <1>1, <2>1, <2>3 DEF CardInv, CardTypes, FetchesNamed
    <2> QED BY <1>1, <2>1, <2>4, UnsureStepKeeps
<1>6. ASSUME NEW r \in Revisions, Switched(r) \/ SwitchFails(r) PROVE CardInv'
    BY <1>6, FetchEndsKeeps
<1> QED BY <1>2, <1>3, <1>4, <1>5, <1>6 DEF CardStep

\* One step per action.
LEMMA NextKeepsCard == CardInv /\ [Next]_vars => CardInv'
<1> SUFFICES ASSUME CardInv, [Next]_vars PROVE CardInv'
    OBVIOUS
<1>1. CASE CardStep
    BY <1>1, CardStepKeeps
<1>2. CASE BarStep /\ UNCHANGED <<comment, card>>
    BY <1>2, ToggleKeeps, SelectAccountKeeps, ReconnectKeeps, LoadedKeeps,
       IncludeKeeps, SubmittedKeeps, SubmitFailsKeeps, RevertedKeeps DEF BarStep
<1>3. CASE Outside /\ UNCHANGED <<comment, card>>
    BY <1>3, ReactKeeps DEF Outside
<1>4. CASE UNCHANGED vars
    <2>1. bar \in Bars /\ bar' = bar /\ UNCHANGED surroundings /\ UNCHANGED <<comment, card>>
        BY <1>4 DEF vars, surroundings, CardInv, ReactionsTypeOK
    <2> QED BY <2>1, BarStepKeeps DEF CardInv, BarIsSure
<1> QED BY <1>1, <1>2, <1>3, <1>4 DEF Next

\* The inductive invariant holds in every reachable state.
LEMMA CardInvariant == Spec => []CardInv
BY InitCard, NextKeepsCard, PTL DEF Spec
----------------------------------------------------------------------------
\* Types of the card and its bar; the selector is disabled exactly as long as a body
\* is fetched, one at a time.
THEOREM CardTypesHold == Spec => []TypeOK
<1>1. CardInv => TypeOK
    BY DEF CardInv, CardTypes, FetchesNamed, TypeOK
<1> QED BY CardInvariant, <1>1, PTL

\* The view the account sees is the chain's set for it, or the pending one.
THEOREM ViewStaysTrue == Spec => []ViewIsChain
<1>1. CardInv => ViewIsChain
    BY SubmissionShape DEF CardInv, BarIsSure, SureOf, Shows, ViewIsChain, Sent, Current
<1> QED BY CardInvariant, <1>1, PTL

\* No body comes late: it is of the revision that is named when it arrives, or of the
\* comment, whose revision is.
THEOREM BodiesArriveForNamed == Spec => BodyArrivesForNamed
<1>1. ASSUME CardInv, [Next]_vars, card'.viewed # card.viewed
      PROVE  card'.viewed = selected' \/ (card'.viewed = comment'.body
                                          /\ selected' = comment'.revision)
    <2>1. CardStep
        BY <1>1 DEF Next, vars
    <2>2. card \in Cards /\ CardTypes /\ FetchesNamed
        BY <1>1 DEF CardInv, CardTypes
    <2>3. CASE Reload
        BY <2>3 DEF Reload, Mount, NewCard
    <2>4. CASE SelectLatest
        BY <2>2, <2>4 DEF SelectLatest, Name, Cards
    <2>5. ASSUME NEW r \in Revisions, Switched(r) PROVE card'.viewed = selected'
        BY <2>2, <2>5 DEF FetchesNamed, Switched, FetchEnds
    <2>6. ~Refill
        BY <1>1 DEF Refill
    <2>7. \A r \in Revisions : ~SelectRevision(r) /\ ~SwitchFails(r)
        BY <1>1, <2>2 DEF SelectRevision, SwitchFails, Cards
    <2> QED BY <2>1, <2>3, <2>4, <2>5, <2>6, <2>7 DEF CardStep
<1> QED BY CardInvariant, <1>1, PTL DEF Spec, BodyArrivesForNamed

\* Only a click starts a submission.
LEMMA OnlyToggleSubmits ==
    ASSUME CardInv, [Next]_vars, bar.submitting = None, bar'.submitting # None
    PROVE  \E e \in Emojis : Toggle(e)
<1>1. bar \in Bars /\ active \in Users /\ selected \in Revisions /\ comment \in Comments
    BY DEF CardInv, ReactionsTypeOK, CardTypes
<1>2. Unsure(bar) \in Bars /\ Unsure(bar).submitting = None
    BY <1>1, UnsureKeeps
<1>3. ~CardStep
    <2>1. ~Reload
        BY MountKeeps DEF Reload
    <2>2. ~Refill
        BY <1>2 DEF Refill
    <2>3. \A r \in Revisions : ~Name(r)
        BY NameShape
    <2>4. comment.revision \in Revisions
        BY <1>1, CommentShape
    <2> QED BY <2>1, <2>2, <2>3, <2>4
            DEF CardStep, SelectLatest, SelectRevision, Switched, SwitchFails, FetchEnds
<1>4. ~Outside
    BY <1>1, <1>2 DEF Outside, React
<1>5. (\A u \in Users : ~SelectAccount(u)) /\ ~Reconnect
    BY <1>1, <1>2, EffectKeepsBar DEF SelectAccount, Reconnect
<1>6. \A load \in Loads : ~Loaded(load)
    BY <1>1 DEF Loaded, Bars
<1>7. ~(Include \/ Submitted \/ SubmitFails \/ Reverted)
    BY DEF Include, Submitted, SubmitFails, Reverted, Sent
<1>8. ~UNCHANGED vars
    BY DEF vars
<1> QED BY <1>3, <1>4, <1>5, <1>6, <1>7, <1>8 DEF Next, BarStep

\* A click on a view that is known submits the chain's set with one reaction flipped.
THEOREM TogglesChangeOne == Spec => ToggleChangesOne
<1>1. ASSUME CardInv, [Next]_vars, bar.submitting = None, bar'.submitting # None, bar.certain
      PROVE  \E e \in Emojis : bar'.submitting.event.reactions = Flip(OnChain, e)
    <2>1. PICK e \in Emojis : Toggle(e)
        BY <1>1, OnlyToggleSubmits
    <2> DEFINE set == Flip(bar.view.mine, e)
               event == [reactor |-> active, item |-> item, revision |-> selected,
                         reactions |-> set]
    <2>2. bar'.submitting = [at |-> "sent", event |-> event, landed |-> FALSE, old |-> bar.view]
        BY <1>1, <2>1, ToggleShape DEF CardInv
    <2> HIDE DEF set
    <2>3. bar'.submitting.event.reactions = set
        BY <2>2
    <2>4. bar.view.mine = OnChain
        BY <1>1 DEF CardInv, BarIsSure, SureOf, Shows
    <2> QED BY <2>3, <2>4 DEF set
<1> QED BY CardInvariant, <1>1, PTL DEF Spec, ToggleChangesOne
=============================================================================
