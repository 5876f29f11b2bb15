--------------------------- MODULE ContentRegistry ---------------------------
(***************************************************************************)
(* What the publish flows promise about the chain, whatever becomes of the *)
(* pages and tasks that drive them: an item belongs to the account that    *)
(* signed for it, only that account revises it, and an item that something *)
(* has to point at (a profile, a feed) appears in the same step as the     *)
(* pointer, or not at all.                                                 *)
(***************************************************************************)
EXTENDS Naturals, Sequences

CONSTANTS Accounts, None

VARIABLES
    items,      \* owner, kind and number of revisions of each item
    profile,    \* AccountProfile: the profile item of each account
    listed      \* AccountContent: the items each account has pinned

registry == <<items, profile, listed>>

Init ==
    /\ items = <<>>
    /\ profile = [a \in Accounts |-> None]
    /\ listed = [a \in Accounts |-> {}]

New == Len(items) + 1

Create(a, kind) ==
    items' = Append(items, [owner |-> a, kind |-> kind, revisions |-> 1])

PublishPost(a) ==
    /\ Create(a, "post")
    /\ UNCHANGED <<profile, listed>>

PublishFeed(a) ==
    /\ Create(a, "feed")
    /\ listed' = [listed EXCEPT ![a] = @ \cup {New}]
    /\ UNCHANGED profile

PublishProfile(a) ==
    /\ Create(a, "profile")
    /\ profile' = [profile EXCEPT ![a] = New]
    /\ UNCHANGED listed

Revise(a, i) ==
    /\ items[i].owner = a
    /\ items[i].kind = "profile"
    /\ items' = [items EXCEPT ![i].revisions = @ + 1]
    /\ UNCHANGED <<profile, listed>>

Next ==
    \E a \in Accounts :
        \/ PublishPost(a) \/ PublishFeed(a) \/ PublishProfile(a)
        \/ \E i \in DOMAIN items : Revise(a, i)

Spec == Init /\ [][Next]_registry
=============================================================================
