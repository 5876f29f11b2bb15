------------------------------ MODULE Reactions ------------------------------
(***************************************************************************)
(* The reaction bar of an item (src/src/views/item_view/reactions.rs).  A  *)
(* click submits the account's whole set of reactions, taken from the      *)
(* local view, which is changed at once; the view is reloaded from the     *)
(* indexer, which follows the chain at a distance.  A load or a revert     *)
(* without an indexer client is one whose request fails.                   *)
(***************************************************************************)
EXTENDS Naturals, Sequences, FiniteSetsExt

CONSTANTS
    Users,          \* reactors; one of them is the active account, unlocked
    Items,          \* what a bar may be on
    Emojis,
    None,           \* Option::None
    MaxRevision,    \* bound: revisions of an item
    MaxEvents,      \* bound: SetReactions events
    FirstEvents     \* bound: the events before the bar is opened

VARIABLES
    active,     \* the active account
    log,        \* the chain's SetReactions events
    item,       \* item_id, the property of the bar as it was last rendered
    selected,   \* revision_id, the signal of the page or card the bar is on
    bar         \* the signals and tasks of the bar, and a history variable

Revisions == 0..MaxRevision

Events == [reactor : Users, item : Items, revision : Revisions, reactions : SUBSET Emojis]

\* The reactions flagged i_reacted, and whose they are.  Those of the others are only
\* counted.
Views == [me : Users \cup {None}, mine : SUBSET Emojis]

Loads == [for : Users, item : Items, revision : Revisions]

\* The click until its outcome is known, and the revert of a failure.  landed:
\* the event is on the chain.  old: old_reactions.
Submissions ==
    [at : {"sent"}, event : Events, landed : BOOLEAN, old : Views]
    \cup [at : {"revert"}, ask : Loads, old : Views]

Bars == [item : Items,          \* item_id when the bar was mounted
         view : Views,
         asked : SUBSET Loads,      \* by the load effect since then
         submitting : Submissions \cup {None},
         certain : BOOLEAN]     \* history: see ViewIsChain

\* What the bar reads, and leaves alone.
surroundings == <<active, log, item, selected>>

\* The events that a load would take for its account's own, among the first n of a log.
EventsOf(events, n, load) ==
    {i \in 1..n : /\ events[i].reactor = load.for
                  /\ events[i].item = load.item /\ events[i].revision = load.revision}

ASSUME ReactionsAssumption ==
    /\ MaxRevision \in Nat /\ MaxEvents \in Nat
    /\ None \notin Users \cup Submissions
    /\ FirstEvents \in Seq(Events) /\ Len(FirstEvents) <= MaxEvents

NewBar(i) == [item |-> i,
              view |-> [me |-> None, mine |-> {}],
              asked |-> {},
              submitting |-> None, certain |-> FALSE]
----------------------------------------------------------------------------
\* reactor_latest, from the first n events.
Latest(n, load) ==
    LET own == EventsOf(log, n, load)
    IN  IF own = {} THEN {} ELSE log[Max(own)].reactions

Fetched(n, load) == [me |-> load.for, mine |-> Latest(n, load)]

\* The load that would answer for what the bar is on now.
Current == [for |-> active, item |-> item, revision |-> selected]

OnChain == Latest(Len(log), Current)

\* The load effect keeps the item it was made with.
BarEffect(u, r, b) ==
    [b EXCEPT !.asked = @ \cup {[for |-> u, item |-> b.item, revision |-> r]}]

Unsure(b) == [b EXCEPT !.certain = FALSE]

\* An answer from the first n events: is that all there is to know?
Complete(n, load) == n = Len(log) /\ load = Current

\* The answer shows the indexer as it is, or was while the answer was on its way.  The
\* loads that ask for the same are not counted: another answer may always follow.  A
\* load that fails changes no view.
Loaded(load) ==
    /\ load \in bar.asked
    /\ \E n \in 0..Len(log) :
            bar' = [bar EXCEPT !.view = Fetched(n, load),
                               !.certain = Complete(n, load) /\ bar.submitting = None]
    /\ UNCHANGED surroundings
----------------------------------------------------------------------------
Flip(set, e) == IF e \in set THEN set \ {e} ELSE set \cup {e}

\* toggle_emoji and optimistic_update.
ToggleTo(set) ==
    /\ bar.submitting = None
    /\ bar' = [bar EXCEPT
                !.view = [me |-> active, mine |-> set],
                !.submitting = [at |-> "sent",
                                event |-> [reactor |-> active, item |-> item, revision |-> selected,
                                           reactions |-> set],
                                landed |-> FALSE, old |-> bar.view]]
    /\ UNCHANGED surroundings

\* Mutant of Toggle: one reaction is taken for the whole set.
ToggleAlone(e) == ToggleTo(IF e \in bar.view.mine THEN {} ELSE {e})

Toggle(e) == ToggleTo(Flip(bar.view.mine, e))

Sent == bar.submitting # None /\ bar.submitting.at = "sent"

\* set_reactions is in a block.
Include ==
    /\ Sent /\ ~bar.submitting.landed
    /\ Len(log) < MaxEvents
    /\ log' = Append(log, bar.submitting.event)
    /\ bar' = [bar EXCEPT !.submitting.landed = TRUE]
    /\ UNCHANGED <<active, item, selected>>

Submitted ==
    /\ Sent /\ bar.submitting.landed
    /\ bar' = [bar EXCEPT !.submitting = None]
    /\ UNCHANGED surroundings

\* Mutant of SubmitFails: the optimistic update stays.
SubmitFailsKeeping ==
    /\ Sent
    /\ bar' = [bar EXCEPT !.submitting = None]
    /\ UNCHANGED surroundings

\* Before or after it landed.  The revert asks the indexer about the item of the click,
\* and the account and the revision of this moment.
SubmitFails ==
    /\ Sent
    /\ LET known == IF bar.submitting.landed THEN Unsure(bar) ELSE bar
       IN  bar' = [known EXCEPT !.submitting =
                        [at |-> "revert",
                         ask |-> [Current EXCEPT !.item = bar.submitting.event.item],
                         old |-> bar.submitting.old]]
    /\ UNCHANGED surroundings

\* To the answer or, without one, to the view before the click, which is right again
\* unless the click did land.
Reverted ==
    /\ bar.submitting # None /\ bar.submitting.at = "revert"
    /\ LET ask == bar.submitting.ask
       IN  \/ bar' = [bar EXCEPT !.view = bar.submitting.old, !.submitting = None]
           \/ \E n \in 0..Len(log) :
                bar' = [bar EXCEPT !.view = Fetched(n, ask), !.submitting = None,
                                   !.certain = Complete(n, ask)]
    /\ UNCHANGED surroundings
----------------------------------------------------------------------------
\* Someone reacts elsewhere, one reaction at a time: another user, the active
\* account on another device, or a submission that was given up and lands late.
React(load, e) ==
    /\ Len(log) < MaxEvents
    /\ log' = Append(log, [reactor |-> load.for, item |-> load.item, revision |-> load.revision,
                           reactions |-> Flip(Latest(Len(log), load), e)])
    /\ bar' = IF load.for = active THEN Unsure(bar) ELSE bar
    /\ UNCHANGED <<active, item, selected>>

SelectAccount(u) ==
    /\ u # active
    /\ active' = u
    /\ bar' = BarEffect(u, selected, Unsure(bar))
    /\ UNCHANGED <<log, item, selected>>

\* There is another indexer client.
Reconnect ==
    /\ bar' = BarEffect(active, selected, bar)
    /\ UNCHANGED surroundings

BarStep ==
    \/ \E e \in Emojis : Toggle(e)
    \/ \E u \in Users : SelectAccount(u)
    \/ Reconnect
    \/ \E load \in Loads : Loaded(load)
    \/ Include \/ Submitted \/ SubmitFails \/ Reverted

Outside == \E load \in Loads, e \in Emojis : React(load, e)

ReactionsTypeOK ==
    /\ active \in Users
    /\ log \in Seq(Events) /\ Len(log) <= MaxEvents
    /\ item \in Items
    /\ selected \in Revisions
    /\ bar \in Bars
=============================================================================
