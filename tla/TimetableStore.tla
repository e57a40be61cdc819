--------------------------- MODULE TimetableStore ---------------------------
(***************************************************************************)
(* What the timetables of the departments are to those who read and change *)
(* them: documents, each of one department for ever, of which the newest   *)
(* of the department is shown.  Who changes one takes the version that is  *)
(* shown, and puts the draft made of it in the document's place later,     *)
(* whatever happened to the document meanwhile.  A draft may so undo what  *)
(* others put there, and bring back what was deleted; but it is made of    *)
(* one version of that very document, and goes nowhere else.               *)
(***************************************************************************)
EXTENDS Naturals, Sequences

CONSTANTS Departments,
          Contents,    \* what an upload may store
          Additions,   \* what a merge may append
          Edits        \* what an editor may save

VARIABLES docs,      \* documents there are: [id, dept, entries]
          drafts,    \* documents as they are about to be saved
          numbers    \* documents there ever were, numbered in their order

vars == <<docs, drafts, numbers>>

Newest(rows) == {t \in rows : \A u \in rows : u.dept = t.dept => u.id <= t.id}

Init == docs = {} /\ drafts = {} /\ numbers = 0

Add(d, entries) ==
    /\ numbers' = numbers + 1
    /\ docs' = docs \cup {[id |-> numbers + 1, dept |-> d, entries |-> entries]}
    /\ UNCHANGED drafts

Draft(t, entries) ==
    /\ drafts' = drafts \cup {[t EXCEPT !.entries = entries]}
    /\ UNCHANGED <<docs, numbers>>

Edit(t) == \E entries \in Edits : Draft(t, entries)
Merge(t) == \E more \in Additions : Draft(t, t.entries \o more)

\* The same draft may be due twice.
Put(v) ==
    /\ docs' = {t \in docs : t.id # v.id} \cup {v}
    /\ drafts' \in {drafts, drafts \ {v}}
    /\ UNCHANGED numbers

\* What was about to be saved is not, because its save failed or was of no use.
Drop ==
    /\ drafts' \in SUBSET drafts
    /\ UNCHANGED <<docs, numbers>>

\* One document, or with its department all of them.
Remove(t) == docs' = docs \ {t} /\ UNCHANGED <<drafts, numbers>>
RemoveAll(d) == docs' = {t \in docs : t.dept # d} /\ UNCHANGED <<drafts, numbers>>

Next ==
    \/ Drop
    \/ \E d \in Departments, entries \in Contents : Add(d, entries)
    \/ \E t \in Newest(docs) : Edit(t) \/ Merge(t)
    \/ \E v \in drafts : Put(v)
    \/ \E t \in docs : Remove(t)
    \/ \E d \in Departments : RemoveAll(d)

Spec == Init /\ [][Next]_vars
=============================================================================
