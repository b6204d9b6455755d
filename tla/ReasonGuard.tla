------------------------------ MODULE ReasonGuard ------------------------------
(***************************************************************************)
(* Which reasons for a match may be shown: src/ai/services/                *)
(* why-match-guard.ts.  Explaining has what is made of the others.         *)
(*                                                                         *)
(* The candidate's facts are one text: the words that stand alone in it,   *)
(* the parts anywhere in it, and its numbers.  A reason is its Latin terms *)
(* and numbers.  A term is a number, or a word with its forms (as written, *)
(* stemmed, singular); a form is its text, whether it is at most three     *)
(* letters long, and the spellings to look for (with and without hyphens). *)
(* NON_FACT_WORDS are given.                                               *)
(***************************************************************************)
EXTENDS Integers, Sequences, FiniteSets

NoYears == "no years"

(* candidateFactsText: of each abbreviation in the text its long form is   *)
(* added, and the other way round.  `pairs` are such pairs; either side is *)
(* its text with the words and parts it consists of.                       *)
Said(text, pair) == pair.short.text \in text.words \/ pair.long.text \in text.parts

OtherForm(text, pair) == IF pair.short.text \in text.words THEN pair.long ELSE pair.short

CandidateFacts(text, pairs) ==
    LET extra == {OtherForm(text, pair) : pair \in {p \in pairs : Said(text, p)}}
    IN  [text EXCEPT !.words = @ \cup UNION {form.words : form \in extra},
                     !.parts = @ \cup UNION {form.parts : form \in extra}]

(* Short terms must stand alone: "ml" inside "html" is no fact.            *)
IsInFacts(form, facts) ==
    IF form.short THEN form.text \in facts.words ELSE form.spellings \cap facts.parts # {}

IsTraced(term, facts, years) ==
    IF term.number THEN term.value = years \/ term.value \in facts.numbers
    ELSE \E form \in term.forms : IsInFacts(form, facts)

(* isTraceableReason.                                                      *)
IsTraceableReason(line, facts, years, nonFacts) ==
    LET terms == {term \in line : term.value \notin nonFacts}
    IN  terms # {} /\ \A term \in terms : IsTraced(term, facts, years)

-----------------------------------------------------------------------------
(* "Every fact in it must be in the candidate data the model was given"    *)
(* (line 6): a fact that is neither in the candidate's text, nor the years *)
(* of experience, nor the other spelling of something in the text, never   *)
(* gets through, whatever else the line says.                              *)
Grounded(term, text, pairs, years) ==
    IF term.number THEN term.value \in {years} \cup text.numbers
    ELSE \E form \in term.forms :
            \/ IsInFacts(form, text)
            \/ \E pair \in pairs : Said(text, pair) /\ IsInFacts(form, OtherForm(text, pair))

NothingInvented(line, text, pairs, years, nonFacts) ==
    IsTraceableReason(line, CandidateFacts(text, pairs), years, nonFacts)
        => /\ line # {}
           /\ \A term \in line : term.value \notin nonFacts => Grounded(term, text, pairs, years)

(* "Plus each abbreviation's other form, so either spelling traces" (line  *)
(* 108).                                                                   *)
IsPair(pair) ==
    /\ pair.short.text \in pair.short.words
    /\ pair.long.text \in pair.long.parts

EitherSpelling(text, pairs) ==
    \A pair \in pairs : (IsPair(pair) /\ Said(text, pair))
        => /\ pair.short.text \in CandidateFacts(text, pairs).words
           /\ pair.long.text \in CandidateFacts(text, pairs).parts

(* More facts never make a reason untraceable: a CV that grows keeps its   *)
(* reasons, and the abbreviations added withdraw none.                     *)
MoreFactsHelp(line, less, more, years, nonFacts) ==
    (less.words \subseteq more.words /\ less.parts \subseteq more.parts /\ less.numbers \subseteq more.numbers)
        => (IsTraceableReason(line, less, years, nonFacts) => IsTraceableReason(line, more, years, nonFacts))
=============================================================================
