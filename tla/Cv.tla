---------------------------------- MODULE Cv ----------------------------------
(***************************************************************************)
(* A device's CV: src/modules/cv.                                          *)
(*                                                                         *)
(* The CV is one `cvs` row per device and one `cv_sections` row per        *)
(* section.  This module gives the values they take and what the service's *)
(* writers make of them; Conversation has the requests that call the       *)
(* writers, at the moments and on the copies the code calls them on.       *)
(*                                                                         *)
(* A section's content is who wrote it and which section it was written    *)
(* for.  name, title and contact (copies of the basic section) and summary *)
(* are left out: nothing here is decided by them.                          *)
(***************************************************************************)
EXTENDS Integers, Sequences, FiniteSets, TLC

CONSTANTS
    Sections,   \* the section names
    Authors,    \* sessions, uploads, requests of PATCH /cv, whoever wrote a section
    CvIds,      \* ids of `cvs` rows
    None        \* no row, no content, nobody

Content == Authors \X Sections

CvRow == [id : CvIds, confirmed : SUBSET Sections, complete : BOOLEAN]

ASSUME CvAssumption ==
    /\ {"basic", "experience", "projects"} \subseteq Sections
    /\ None \notin Authors \cup CvIds \cup Content \cup CvRow

Rows  == [Sections -> Content \cup {None}]

NoRows == [s \in Sections |-> None]

(* createCv: what confirmSection and saveAnalysis insert for a device      *)
(* without a CV.                                                           *)
EmptyCv(id) == [id |-> id, confirmed |-> {}, complete |-> FALSE]

(* A section written by the review screen, or by a confirm, counts as      *)
(* confirmed from then on.                                                 *)
Listed(cv, S) == [cv EXCEPT !.confirmed = @ \cup S]

(* Mutants of StartsOver: a fresh build that keeps the older CV's          *)
(* sections, and a basic section that always clears.                       *)
NeverStartsOver(knownId, s) == FALSE
BasicStartsOver(knownId, s) == s = "basic"

(* The first confirm of a build conversation over an older CV: the session *)
(* knows of no CV yet and the section is `basic`.                          *)
StartsOver(knownId, s) == knownId = None /\ s = "basic"

(* confirmSection on the row it read: the row it saves, ...                *)
ConfirmedCv(cv, knownId, s, isLast) ==
    LET base == IF StartsOver(knownId, s) THEN EmptyCv(cv.id) ELSE cv
    IN  [Listed(base, {s}) EXCEPT !.complete = @ \/ isLast]

(* ... and the section rows it leaves.                                     *)
ConfirmedRows(rows, knownId, s, content) ==
    [(IF StartsOver(knownId, s) THEN NoRows ELSE rows) EXCEPT ![s] = content]

(* computeSectionConfidence of an uploaded CV whose sections `filled` are  *)
(* there (basic: with name, title and a way to reach the user).  What is   *)
(* in neither set is not applicable: projects, or experience beside them.  *)
High(filled) == Sections \cap (filled \cup {"certificates"})
Low(filled) ==
    {s \in Sections \ (filled \cup {"projects", "certificates"}) :
        s = "experience" => "projects" \notin filled}

(* saveAnalysis: every section read with confidence replaces the CV, which *)
(* is complete when no section is missing.                                 *)
AnalysedCv(id, filled)  == [id |-> id, confirmed |-> High(filled), complete |-> Low(filled) = {}]
AnalysedRows(u, filled) == [s \in Sections |-> IF s \in High(filled) THEN <<u, s>> ELSE None]
=============================================================================
