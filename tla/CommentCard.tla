----------------------------- MODULE CommentCard -----------------------------
(***************************************************************************)
(* A place in the list of comments of the item page: a card with its       *)
(* reaction bar (src/src/views/item_view/comment_card.rs, mod.rs,          *)
(* src/src/comment.rs).  The cards have no key: when a second load answers *)
(* after the cards are there, a card keeps its signals and gets another    *)
(* comment, newer or of another item.  The card shows a body and names a   *)
(* revision; its bar reacts to the revision named.                         *)
(***************************************************************************)
EXTENDS Reactions

CONSTANT Comments       \* bound: what may be loaded for the place

ASSUME CommentAssumption ==
    Comments \subseteq [item : Items, body : Revisions, revision : Revisions]

VARIABLES
    comment,    \* the LoadedComment: body is the indexer's latest, revision_id the
                \* chain's, or 0 when the chain does not answer
    card        \* its signals: the body on display, the selector, and its tasks

vars == <<active, log, item, selected, bar, comment, card>>

Cards == [viewed : Revisions,           \* as which the body on display was published
          switching : BOOLEAN,
          fetching : SUBSET Revisions]  \* one task for each

NewCard(c) == [viewed |-> c.body, switching |-> FALSE, fetching |-> {}]

\* A new card for the comment, with a new bar that loads.
Mount(c) ==
    /\ comment' = c
    /\ item' = c.item
    /\ card' = NewCard(c)
    /\ selected' = c.revision
    /\ bar' = BarEffect(active, c.revision, NewBar(c.item))

Init ==
    /\ active \in Users
    /\ log = FirstEvents
    /\ comment \in Comments
    /\ item = comment.item
    /\ card = NewCard(comment)
    /\ selected = comment.revision
    /\ bar = BarEffect(active, selected, NewBar(item))

\* A reply or an edit has been published, or the client or the route has changed: the
\* load clears the comments first, which drops the cards and their tasks, and its
\* answer mounts new ones.
Reload ==
    /\ \E c \in Comments : Mount(c)
    /\ UNCHANGED <<active, log>>

\* A load that started before the cards were mounted answers as well.
Refill ==
    /\ comment' \in Comments \ {comment}
    /\ item' = comment'.item
    /\ bar' = IF item' = item THEN bar ELSE Unsure(bar)
    /\ UNCHANGED <<active, log, selected, card>>
----------------------------------------------------------------------------
\* The bar follows the revision that is named.
Name(r) ==
    /\ r # selected
    /\ selected' = r
    /\ bar' = BarEffect(active, r, Unsure(bar))
    /\ UNCHANGED <<active, log, item, comment>>

\* Mutant of SelectLatest: the selector stays enabled while a body is fetched.
SelectLatestAnyTime ==
    /\ Name(comment.revision)
    /\ card' = [card EXCEPT !.viewed = comment.body]

\* "latest" is the revision the comment was loaded with: its body is at hand.
SelectLatest ==
    /\ ~card.switching
    /\ Name(comment.revision)
    /\ card' = [card EXCEPT !.viewed = comment.body]

\* Another revision of the history is named before its body is there.
SelectRevision(r) ==
    /\ ~card.switching
    /\ r # comment.revision
    /\ Name(r)
    /\ card' = [card EXCEPT !.switching = TRUE, !.fetching = @ \cup {r}]

\* The fetch of a body comes to its end.
FetchEnds(r) ==
    /\ r \in card.fetching
    /\ UNCHANGED <<active, log, item, selected, bar, comment>>

Switched(r) ==
    /\ FetchEnds(r)
    /\ card' = [viewed |-> r, switching |-> FALSE, fetching |-> card.fetching \ {r}]

\* Mutant of SwitchFails: an early return before revision_switching.set(false).
SwitchFailsSwitching(r) ==
    /\ FetchEnds(r)
    /\ card' = [card EXCEPT !.fetching = @ \ {r}]

\* The body on display stays, under the revision that is named.
SwitchFails(r) ==
    /\ FetchEnds(r)
    /\ card' = [card EXCEPT !.switching = FALSE, !.fetching = @ \ {r}]
----------------------------------------------------------------------------
CardStep ==
    \/ Reload \/ Refill
    \/ SelectLatest
    \/ \E r \in Revisions : SelectRevision(r) \/ Switched(r) \/ SwitchFails(r)

Next ==
    \/ CardStep
    \/ (BarStep \/ Outside) /\ UNCHANGED <<comment, card>>

Spec == Init /\ [][Next]_vars

\* Types; the selector is disabled exactly as long as a body is fetched, one at a time.
TypeOK ==
    /\ ReactionsTypeOK
    /\ comment \in Comments /\ item = comment.item
    /\ card \in Cards
    /\ card.switching <=> card.fetching # {}
    /\ \A r, s \in card.fetching : r = s

\* A view that came from a complete answer, given while no click was pending, and
\* was changed by clicks of the active account only, shows that account the set it
\* has on the chain, or will have when the pending submission lands; failures,
\* overlapping loads and finished reverts included.
ViewIsChain ==
    bar.certain /\ (bar.submitting # None => Sent) =>
        bar.view = [me |-> active,
                    mine |-> IF Sent THEN bar.submitting.event.reactions ELSE OnChain]

\* toggle_emoji submits a whole set: from such a view it is the set on the chain
\* with one reaction more or less, so no click takes back another reaction.
ToggleChangesOne ==
    [][bar.submitting = None /\ bar'.submitting # None /\ bar.certain =>
        \E e \in Emojis : bar'.submitting.event.reactions = Flip(OnChain, e)]_vars

\* No body comes late: whenever the body on display changes, it is of the revision
\* that is then named, or of the comment whose revision is named as its latest.  What
\* fails or is loaded meanwhile changes no body (the selector in comment_card.rs).
BodyArrivesForNamed ==
    [][card'.viewed # card.viewed =>
        \/ card'.viewed = selected'
        \/ card'.viewed = comment'.body /\ selected' = comment'.revision]_vars
=============================================================================
