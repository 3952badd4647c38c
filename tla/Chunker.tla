------------------------------ MODULE Chunker ------------------------------
(***************************************************************************)
(* The loop of chunking/chunker.py's group_paragraphs: paragraphs of one   *)
(* text element become groups of g consecutive paragraphs, each sharing o  *)
(* paragraphs with the one before.  A group is the half-open interval of   *)
(* the paragraph numbers in it; joining their text is left out.  One step  *)
(* is one iteration, so that what the loop computes is an invariant.       *)
(***************************************************************************)
EXTENDS Integers, Sequences

VARIABLES
    n, g, o,  \* the paragraphs, paragraphs_per_chunk and overlap
    i,        \* the loop variable
    groups,   \* the groups appended so far
    pc        \* "check", "loop", "done" or "raised"

vars == <<n, g, o, i, groups, pc>>

(* The configuration may hold any two columns: the rule that relates them  *)
(* is checked by the update request only (see IngestionConfig).            *)
Init ==
    /\ n \in Nat /\ g \in Int /\ o \in Int
    /\ i = 0 /\ groups = <<>> /\ pc = "check"

(* Mutation: a paragraph is skipped between groups.                        *)
StrideTooLong == g + 1
Stride == g - o

(* Mutation: the loop goes on when a group ends with the last paragraph.   *)
EndReachedStrict == i + g > n
EndReached == i + g >= n

UpTo(k) == IF k <= n THEN k ELSE n    \* the end of a Python slice [i:k]

(* An empty element has no groups, whatever the configuration.             *)
NoParagraphs ==
    /\ pc = "check" /\ n = 0
    /\ pc' = "done"
    /\ UNCHANGED <<n, g, o, i, groups>>

InvalidConfig == g < 1 \/ o < 0 \/ o >= g

RaiseValueError ==
    /\ pc = "check" /\ n > 0 /\ InvalidConfig
    /\ pc' = "raised"
    /\ UNCHANGED <<n, g, o, i, groups>>

EnterLoop ==
    /\ pc = "check" /\ n > 0 /\ ~InvalidConfig
    /\ pc' = "loop"
    /\ UNCHANGED <<n, g, o, i, groups>>

Iterate ==
    /\ pc = "loop"
    /\ IF i < n
       THEN /\ groups' = Append(groups, [from |-> i, to |-> UpTo(i + g)])
            /\ IF EndReached THEN pc' = "done" /\ i' = i
                             ELSE pc' = "loop" /\ i' = i + Stride
       ELSE pc' = "done" /\ UNCHANGED <<i, groups>>
    /\ UNCHANGED <<n, g, o>>

Next == NoParagraphs \/ RaiseValueError \/ EnterLoop \/ Iterate

Spec == Init /\ [][Next]_vars

----------------------------------------------------------------------------
(* Properties.                                                             *)

(* No paragraph of the element is lost: when the loop ends every one is in *)
(* a group.                                                                *)
EveryParagraphGrouped ==
    pc = "done" => \A p \in 0 .. n - 1 : \E k \in DOMAIN groups :
                       groups[k].from <= p /\ p < groups[k].to

(* Consecutive groups share exactly o paragraphs, and every group but the  *)
(* last holds exactly g.                                                   *)
ExactOverlap ==
    \A k \in DOMAIN groups :
        /\ groups[k].from < groups[k].to
        /\ k < Len(groups) => /\ groups[k].to = groups[k].from + g
                              /\ groups[k].to - groups[k + 1].from = o

(* The last group is never a mere tail of the one before it: each group    *)
(* brings a paragraph no earlier group had.                                *)
NoRedundantGroup ==
    \A k \in DOMAIN groups : k > 1 => groups[k - 1].to < groups[k].to
=============================================================================
