----------------------------- MODULE ByteStream -----------------------------
(***************************************************************************)
(* What platform::net promises of one direction of a connected stream: the *)
(* reader gets the bytes written, in order, none twice, and a read of zero *)
(* means that the writer is gone and everything it wrote has been read.    *)
(***************************************************************************)
EXTENDS Sequences, Integers

VARIABLES
    sent,   \* the bytes written so far
    got,    \* the bytes read so far
    open,   \* the writer still has its end
    ended   \* a read has returned zero

svars == <<sent, got, open, ended>>

Init == sent = <<>> /\ got = <<>> /\ open /\ ~ended

Write ==
    /\ open
    /\ \E n \in 1..(Len(sent') - Len(sent)) : SubSeq(sent', 1, Len(sent)) = sent
    /\ UNCHANGED <<got, open, ended>>

Read ==
    /\ Len(got') > Len(got) /\ Len(got') <= Len(sent)
    /\ got' = SubSeq(sent, 1, Len(got'))
    /\ UNCHANGED <<sent, open, ended>>

Close == open /\ ~open' /\ UNCHANGED <<sent, got, ended>>

End == ~open /\ got = sent /\ ended' /\ UNCHANGED <<sent, got, open>>

Next == Write \/ Read \/ Close \/ End
Spec == Init /\ [][Next]_svars
=============================================================================
