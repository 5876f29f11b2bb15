---------------------------- MODULE MCCommentCard ----------------------------
(* A place that shows a comment with two revisions, to which u1 has reacted, *)
(* or another one of which the chain did not tell the revision.              *)
EXTENDS CommentCard, TLC

CONSTANTS u1, ours, other

MCComments == {[item |-> ours, body |-> 1, revision |-> 1],
               [item |-> other, body |-> 1, revision |-> 0]}
MCEvents == <<[reactor |-> u1, item |-> ours, revision |-> 1, reactions |-> Emojis]>>

EmojiSymmetry == Permutations(Emojis)
=============================================================================
