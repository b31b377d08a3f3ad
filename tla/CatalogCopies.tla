---------------------------- MODULE CatalogCopies ----------------------------
(***************************************************************************)
(* The draft of CatalogDraft when contents are taken out of the files of   *)
(* an assembled catalog and stored again, for the same element or, to save *)
(* typing, for another one.  A value in the files carries the UUID of its  *)
(* element as a marker, and so does the copy, until somebody edits it.     *)
(***************************************************************************)
EXTENDS CatalogDraft

VARIABLE origin   \* history: the element from whose value in the files the content
                  \* and the marker of an element were copied, or Absent

copyVars == <<draft, origin>>

CopyInit == Init /\ origin = [id \in ID |-> Absent]

\* What the files hold of an element.  The rules are put into the object that
\* has the routing settings (AssembleXrayCatalog).
Published(in, g, id) ==
    IF g = "routing" THEN [Value(in, g, id) EXCEPT !.content.rules = TRUE] ELSE Value(in, g, id)

\* The value of one element becomes the content of an element of that section.
Copy(g, from, to) ==
    /\ from \in Active(draft, g) /\ to \in Elements(g)
    /\ LET v == Published(draft, g, from)
       IN  draft' = [draft EXCEPT !.content[to] = v.content, !.marker[to] = v.marker]
    /\ origin' = IF g \in Marked THEN [origin EXCEPT ![to] = from] ELSE origin
    /\ Assembles(draft)

\* Any edit of the draft.  Who edits a marker by hand decides whose content it is.
Edit ==
    /\ Next
    /\ origin' = [id \in ID |-> IF draft'.marker[id] = draft.marker[id] THEN origin[id] ELSE Absent]

CopyNext ==
    \/ \E g \in Sections : \E from, to \in Elements(g) : Copy(g, from, to)
    \/ Edit

CopySpec == CopyInit /\ [][CopyNext]_copyVars

-----------------------------------------------------------------------------

\* Where markers are supported, what was copied out of the files never comes
\* back into them under another UUID, also where that element is activated long
\* after the copy or its content was edited in between: the marker that the
\* catalog has put in is still there (ProjectElementIdentity).
CopiesStayOut ==
    Assembles(draft) =>
        \A g \in Sections \cap Marked : \A id \in Active(draft, g) : origin[id] \in {Absent, id}

\* Stored again for its own element, a value changes nothing: the catalog is
\* assembled as before and its files are the same ("projection is idempotent").
\* Only the routing settings cannot be stored as they are in the files, because
\* the rules are in them.
ReturnChangesNothing ==
    [][\A g \in Sections : \A id \in Elements(g) :
         Copy(g, id, id) =>
            IF g = "routing" THEN ~Assembles(draft')
            ELSE Assembles(draft') /\ Catalog(draft') = Catalog(draft)]_copyVars
=============================================================================
