--------------------------- MODULE DurableJournal ---------------------------
(***************************************************************************)
(* What the runner's journal promises its users: entries are only ever     *)
(* added, whatever a life was told is written every later life knows, a    *)
(* write left in the middle is the last of its life, and a journal in      *)
(* which every write ended is opened.  It promises nothing to a writer     *)
(* that was told of an error: the entry may be written all the same, or at *)
(* the end of the journal be in doubt, to be lost with a later write.      *)
(***************************************************************************)
EXTENDS Naturals, Sequences

CONSTANT Entries    \* what can be committed

VARIABLES
    entries,    \* everything some life was told is written, and in between
    doubt,      \* the entry behind them, if there is one
    torn,       \* some write was left in the middle
    known,      \* what the running process holds to be written
    closed,     \* a write of the running process was
    status      \* STOPPED, SERVING or REFUSED

vars == <<entries, doubt, torn, known, closed, status>>

Init ==
    /\ entries = <<>> /\ doubt = <<>> /\ torn = FALSE
    /\ known = <<>> /\ closed = FALSE /\ status = "STOPPED"

Start ==
    /\ status = "STOPPED"
    /\ status' = "SERVING" /\ known' = entries \o doubt /\ closed' = FALSE
    /\ UNCHANGED <<entries, doubt, torn>>

Refuse ==
    /\ status = "STOPPED" /\ torn
    /\ status' = "REFUSED"
    /\ UNCHANGED <<entries, doubt, torn, known, closed>>

Writable == status = "SERVING" /\ ~ closed

\* What a write leaves in the journal.
Nothing == UNCHANGED <<entries, doubt, torn>>
Whole(e) == entries' = entries \o doubt \o <<e>> /\ doubt' = <<>> /\ UNCHANGED torn
Part(e) == doubt' \in {<<>>, <<e>>} /\ torn' = TRUE /\ UNCHANGED entries

Survive == status' = "SERVING" /\ UNCHANGED known
Die == status' = "STOPPED" /\ known' = <<>> /\ closed' = FALSE

\* The caller is told that the entry is written.
Commit(e) ==
    /\ Writable /\ Whole(e)
    /\ known' = Append(known, e)
    /\ UNCHANGED <<closed, status>>

\* A write fails, or its process dies.
Lapse(e) ==
    /\ Writable
    /\ \/ (Nothing \/ Whole(e)) /\ ((Survive /\ UNCHANGED closed) \/ Die)
       \/ Part(e) /\ ((Survive /\ closed' = TRUE) \/ Die)

Stop == status = "SERVING" /\ Die /\ Nothing

Next ==
    \/ Start \/ Refuse \/ Stop
    \/ \E e \in Entries : Commit(e) \/ Lapse(e)

Spec == Init /\ [][Next]_vars
=============================================================================
