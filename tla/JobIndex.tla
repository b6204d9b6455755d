------------------------------ MODULE JobIndex ------------------------------
(***************************************************************************)
(* The job postings and their embeddings: src/modules/jobs, JobRepository  *)
(* and JobsService's upsertProviderJobs and enrichPendingJobs.             *)
(*                                                                         *)
(* A posting is its text (what the embedding is made of) and the text its  *)
(* embedding was made of.  A writer stores what a provider returned: it    *)
(* reads the row, saves the new text and, in a statement of its own,       *)
(* clears an embedding of another text.  An enricher reads the rows        *)
(* without embedding, calls the embedding model, and writes row by row     *)
(* without looking again.  Facets are derived like the embedding and left  *)
(* out, so is a change of the embedding model.                             *)
(***************************************************************************)
EXTENDS Integers, Sequences, FiniteSets

CONSTANTS
    Postings,   \* (provider, externalId)
    Texts,      \* title, description and role of a posting
    Writers,    \* whoever stores search results
    Enrichers,  \* whoever calls enrichPendingJobs
    None        \* no text, no embedding

ASSUME JobIndexAssumption == None \notin Texts

VARIABLES
    jobs,       \* table jobs
    upsert,     \* each writer's upsert of one posting
    enrich      \* each enricher's call

indexVars == <<jobs, upsert, enrich>>

Job    == [text : Texts \cup {None}, embedded : Texts \cup {None}]
Absent == [text |-> None, embedded |-> None]

Upsert   == [at : {"idle", "save", "clear"}, posting : Postings \cup {None},
             text : Texts \cup {None}, existed : BOOLEAN, changed : BOOLEAN]
NoUpsert == [at |-> "idle", posting |-> None, text |-> None, existed |-> FALSE, changed |-> FALSE]

(* The rows an enricher found, with the texts it read.                     *)
Nothing == [j \in Postings |-> None]

IndexInit ==
    /\ jobs = [j \in Postings |-> Absent]
    /\ upsert = [w \in Writers |-> NoUpsert]
    /\ enrich = [e \in Enrichers |-> Nothing]

-----------------------------------------------------------------------------
(* JobRepository.upsert of one posting.                                    *)

UpsertReads(w) ==
    \E j \in Postings, t \in Texts :
        upsert' = [upsert EXCEPT ![w] =
            [at |-> "save", posting |-> j, text |-> t, existed |-> jobs[j] # Absent,
             changed |-> jobs[j] # Absent /\ jobs[j].text # t]]

(* A row of the same posting inserted meanwhile makes the insert fail.     *)
UpsertCollides(w) == ~upsert[w].existed /\ jobs[upsert[w].posting] # Absent

UpsertSaves(w) ==
    /\ upsert[w].at = "save" /\ ~UpsertCollides(w)
    /\ jobs' = [jobs EXCEPT ![upsert[w].posting].text = upsert[w].text]
    /\ upsert' = [upsert EXCEPT ![w] = IF upsert[w].changed THEN [@ EXCEPT !.at = "clear"] ELSE NoUpsert]

UpsertClears(w) ==
    /\ upsert[w].at = "clear"
    /\ jobs' = [jobs EXCEPT ![upsert[w].posting].embedded = None]
    /\ upsert' = [upsert EXCEPT ![w] = NoUpsert]

-----------------------------------------------------------------------------
(* enrichPendingJobs.                                                      *)

Unenriched == {j \in Postings : jobs[j].text # None /\ jobs[j].embedded = None}

EnrichFinds(e) ==
    /\ enrich[e] = Nothing
    /\ enrich' = [enrich EXCEPT ![e] = [j \in Postings |-> IF j \in Unenriched THEN jobs[j].text ELSE None]]
    /\ UNCHANGED <<jobs, upsert>>

EnrichSaves(e, j) ==
    /\ enrich[e][j] # None
    /\ jobs' = [jobs EXCEPT ![j].embedded = enrich[e][j]]
    /\ enrich' = [enrich EXCEPT ![e][j] = None]
    /\ UNCHANGED upsert

(* The embedding call or a save fails.                                     *)
EnrichThrows(e) ==
    /\ enrich[e] # Nothing
    /\ enrich' = [enrich EXCEPT ![e] = Nothing]
    /\ UNCHANGED <<jobs, upsert>>

-----------------------------------------------------------------------------
(* Properties.                                                             *)

IndexTypeOK ==
    /\ jobs \in [Postings -> Job]
    /\ upsert \in [Writers -> Upsert]
    /\ enrich \in [Enrichers -> [Postings -> Texts \cup {None}]]

(* "A changed title or description invalidates the stored embedding, so    *)
(* the next enrichment pass re-embeds it instead of matching against the   *)
(* old text" (job.repository.ts:61-62): a posting nobody is working on     *)
(* has the embedding of its own text, or none.                             *)
EmbeddingIsOfText ==
    \A j \in Postings :
        (\A w \in Writers : upsert[w].posting # j) /\ (\A e \in Enrichers : enrich[e][j] = None)
            => jobs[j].embedded \in {None, jobs[j].text}
=============================================================================
