----------------------------- MODULE PdfRevisions -----------------------------
(***************************************************************************)
(* What the reader and the editor promise of a PDF that is revised again   *)
(* and again: a document is its objects, opening shows every object as it  *)
(* was last written, whoever wrote it and in whatever form, and saving     *)
(* yields what was opened with all queued edits applied, each object once, *)
(* and the new content streams under numbers nobody uses.  Where revisions *)
(* lie in the file, and how they are chained, is not said here.            *)
(***************************************************************************)
EXTENDS Integers, FiniteSets

CONSTANTS Ids, Stream, Nothing, Closed

VARIABLES
    doc,    \* what the file on disk means: object id -> version or Nothing
    view,   \* what the open reader shows, or Closed
    forms,  \* objects with a form value waiting to be saved
    edits   \* pages with an overlay waiting to be saved

vars == <<doc, view, forms, edits>>

Init == view = Closed /\ forms = {} /\ edits = {}

\* Another program adds a revision that changes one object or writes a new one.
Revise ==
    /\ view = Closed
    /\ \E id \in Ids :
          \/ doc[id] \in Int /\ doc' = [doc EXCEPT ![id] = @ + 1]
          \/ doc[id] = Nothing /\ doc' = [doc EXCEPT ![id] = 0]
    /\ UNCHANGED <<view, forms, edits>>

Open ==
    /\ view = Closed
    /\ view' = doc
    /\ UNCHANGED <<doc, forms, edits>>

Edit(id) ==
    /\ view # Closed
    /\ view[id] \in Int
    /\ \/ forms' = forms \cup {id} /\ UNCHANGED edits
       \/ edits' = edits \cup {id} /\ UNCHANGED forms
    /\ UNCHANGED <<doc, view>>

Edited(id) ==
    IF id \in forms \cup edits
    THEN view[id] + (IF id \in forms THEN 1 ELSE 0) + (IF id \in edits THEN 1 ELSE 0)
    ELSE view[id]

Unused == {id \in Ids : view[id] = Nothing}

\* A save starts from what was opened, also the second one of a session.
Save ==
    /\ view # Closed
    /\ \A id \in Ids \ Unused : doc'[id] = Edited(id)
    /\ \A id \in Unused : doc'[id] \in {Nothing, Stream}
    /\ Cardinality({id \in Unused : doc'[id] = Stream}) = Cardinality(edits)
    /\ UNCHANGED <<view, forms, edits>>

Close ==
    /\ view' = Closed /\ forms' = {} /\ edits' = {}
    /\ UNCHANGED doc

Next == Revise \/ Open \/ (\E id \in Ids : Edit(id)) \/ Save \/ Close

Spec == Init /\ [][Next]_vars
===============================================================================
