------------------------------ MODULE Embeddings ------------------------------
(***************************************************************************)
(* What is embedded, and which vector belongs to which text:               *)
(* src/modules/jobs/embedding-text.ts and                                  *)
(* src/integrations/embeddings/providers/mistral.provider.ts, as           *)
(* enrichPendingJobs uses them (module JobIndex has when).                 *)
(*                                                                         *)
(* A text is its words.  Place names are phrases of words, in the order    *)
(* they are tried.  A reply of the provider is its items in any order,     *)
(* each the index it is for and its vector, WrongSize one that is none of  *)
(* this model's.                                                           *)
(***************************************************************************)
EXTENDS Integers, Sequences, FiniteSets

(* `unique`: of values equal but for case (one key) the first; empty ones  *)
(* go.                                                                     *)
NoKey == ""
Firsts(keys) == {i \in DOMAIN keys : keys[i] # NoKey /\ \A k \in 1 .. i - 1 : keys[k] # keys[i]}

-----------------------------------------------------------------------------
(* stripLocations, one phrase: its places in the text, from the left and   *)
(* without overlap, are taken out.                                         *)
StandsAt(text, phrase, i) ==
    i + Len(phrase) - 1 <= Len(text) /\ \A k \in DOMAIN phrase : text[i + k - 1] = phrase[k]

WithoutPhrase(text, phrase) ==
    LET rest[i \in 1 .. Len(text) + 1] ==
            IF i > Len(text) THEN <<>>
            ELSE IF StandsAt(text, phrase, i) THEN rest[i + Len(phrase)]
            ELSE <<text[i]>> \o rest[i + 1]
    IN  rest[1]

StripLocations(text, phrases) ==
    LET after[n \in 0 .. Len(phrases)] == IF n = 0 THEN text ELSE WithoutPhrase(after[n - 1], phrases[n])
    IN  after[Len(phrases)]

-----------------------------------------------------------------------------
WrongSize == "wrong size"

(* embedBatch: the items by index, refused unless there is one of the      *)
(* right size for each text.                                               *)
Accepted(texts, items) == Len(items) = Len(texts) /\ \A i \in DOMAIN items : items[i].vector # WrongSize

InOrder(items) ==
    LET upTo(i) == {k \in DOMAIN items : items[k].index < items[i].index
                                         \/ (items[k].index = items[i].index /\ k <= i)}
    IN  [n \in DOMAIN items |-> items[CHOOSE i \in DOMAIN items : Cardinality(upTo(i)) = n].vector]

(* embed: slices of BATCH_SIZE texts, one after the other; the first that  *)
(* fails fails the whole.                                                  *)
Slices(texts, size) ==
    [n \in 1 .. (Len(texts) + size - 1) \div size |->
        SubSeq(texts, (n - 1) * size + 1, IF n * size < Len(texts) THEN n * size ELSE Len(texts))]

(* The vectors, or {} when it throws.                                      *)
Embed(texts, size, replies) ==
    LET slices == Slices(texts, size)
        vectors[n \in 0 .. Len(slices)] == IF n = 0 THEN <<>> ELSE vectors[n - 1] \o InOrder(replies[n])
    IN  IF \A n \in DOMAIN slices : Accepted(slices[n], replies[n]) THEN {vectors[Len(slices)]} ELSE {}

-----------------------------------------------------------------------------
(* Each value once, where it first stands: titles, skills and domains are  *)
(* not weighed twice for being written twice.                              *)
EachOnce(keys) ==
    \A i \in DOMAIN keys : keys[i] # NoKey =>
        \E k \in Firsts(keys) : k <= i /\ \A other \in Firsts(keys) : keys[other] = keys[i] <=> other = k

(* "Longest first, so `new cairo` is removed whole before `cairo` would    *)
(* leave `new` behind" (embedding-text.ts:27): a place named in a text     *)
(* leaves no word of its own, and nothing else goes.                       *)
NoPieceLeft(before, place, after, phrases) ==
    StripLocations(before \o place \o after, phrases) = before \o after

(* enrichPendingJobs gives the n-th vector to the n-th posting: in         *)
(* whatever order a batch comes back, each text gets its own vector, and   *)
(* never another's when one is missing in some batch.                      *)
Answers(texts, items) ==
    /\ Len(items) = Len(texts)
    /\ \A n \in DOMAIN texts : \E i \in DOMAIN items : items[i] = [index |-> n - 1, vector |-> texts[n]]

OwnVector(texts, size, replies) ==
    LET slices == Slices(texts, size)
    IN  IF \A n \in DOMAIN slices : Answers(slices[n], replies[n])
        THEN Embed(texts, size, replies) = {texts}
        ELSE (\E n \in DOMAIN slices : Len(replies[n]) # Len(slices[n])) => Embed(texts, size, replies) = {}
=============================================================================
