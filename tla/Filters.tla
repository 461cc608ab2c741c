------------------------------- MODULE Filters -------------------------------
(* The members of a sequence that are in a set, in their order: SelectSeq, as  *)
(* a recursive function of the number of members read, which can be reasoned   *)
(* about.  The loops that filter lines and panes are of this form.             *)
EXTENDS Naturals, Sequences

Kept(seq, S) ==
    LET kept[n \in 0..Len(seq)] ==
            IF n = 0 THEN <<>>
            ELSE IF seq[n] \in S THEN Append(kept[n - 1], seq[n])
            ELSE kept[n - 1]
    IN  kept
Only(seq, S) == Kept(seq, S)[Len(seq)]
==============================================================================
