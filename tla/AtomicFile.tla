----------------------------- MODULE AtomicFile -----------------------------
(***************************************************************************)
(* What Dir::write_atomic (platform/src/fs.rs) promises about the file it  *)
(* writes: the name always leads to one complete content, the old one or a *)
(* new one, never to a part of one; a power failure brings back a content  *)
(* that was complete, and none older than the last one committed.          *)
(***************************************************************************)
CONSTANT Contents    \* the complete contents, and 0 for "no such file"

VARIABLES
    content,   \* what a reader of the name finds
    kept       \* what a reader may find after a power failure

vars == <<content, kept>>

Init == content \in Contents /\ kept = {content}

\* A new content appears at the name, all of it at once.
Publish(c) == content' = c /\ kept' = kept \union {c}

\* What is at the name is on stable storage.
Commit == kept' = {content} /\ UNCHANGED content

PowerLoss == content' \in kept /\ kept' = {content'}

Next == Commit \/ PowerLoss \/ \E c \in Contents \ {0} : Publish(c)

Spec == Init /\ [][Next]_vars
=============================================================================
