------------------------------- MODULE JsonReply -------------------------------
(***************************************************************************)
(* How a model's reply becomes JSON: extractJsonObject, the same in four   *)
(* services of src/ai/services, and extractJsonValue and                   *)
(* dropAllNullEntries of section-reply.service.ts.                         *)
(*                                                                         *)
(* A reply is its symbols: brackets, Space, and any other for whatever     *)
(* else stands in it.  Positions are those of the trimmed reply, 0 where   *)
(* indexOf says -1.                                                        *)
(***************************************************************************)
EXTENDS Integers, Sequences, FiniteSets

Space == " "

Where(text, symbol) == {i \in DOMAIN text : text[i] = symbol}

FirstOf(text, symbol) ==
    IF Where(text, symbol) = {} THEN 0
    ELSE CHOOSE i \in Where(text, symbol) : \A k \in Where(text, symbol) : i <= k

LastOf(text, symbol) ==
    IF Where(text, symbol) = {} THEN 0
    ELSE CHOOSE i \in Where(text, symbol) : \A k \in Where(text, symbol) : k <= i

Trim(raw) ==
    LET said == {i \in DOMAIN raw : raw[i] # Space}
    IN  IF said = {} THEN <<>>
        ELSE SubSeq(raw, CHOOSE i \in said : \A k \in said : i <= k,
                         CHOOSE i \in said : \A k \in said : k <= i)

ExtractJsonObject(raw) ==
    LET text  == Trim(raw)
        start == FirstOf(text, "{")
        end   == LastOf(text, "}")
    IN  IF start = 0 \/ end < start THEN text ELSE SubSeq(text, start, end)

ExtractJsonValue(raw) ==
    LET text == Trim(raw)
    IN  IF text = <<>> \/ Head(text) # "[" THEN ExtractJsonObject(raw)
        ELSE IF LastOf(text, "]") = 0 THEN text
        ELSE SubSeq(text, 1, LastOf(text, "]"))

(* An entry is its fields, "null" where it has nothing to say.  A value    *)
(* that is no list passes.                                                 *)
Stub(entry) == \A field \in DOMAIN entry : entry[field] = "null"
DropAllNullEntries(entries) == SelectSeq(entries, LAMBDA entry : ~Stub(entry))

-----------------------------------------------------------------------------
(* Words around the object the model was asked for do no harm, and neither *)
(* do words after the list it was asked for.                               *)
Recovered(before, value, after) ==
    LET loose == {before[i] : i \in DOMAIN before} \cup {after[i] : i \in DOMAIN after}
        first == value[1]
        last  == value[Len(value)]
    IN  /\ (first = "{" /\ last = "}" /\ loose \cap {"{", "}"} = {})
               => ExtractJsonObject(before \o value \o after) = value
        /\ (first = "[" /\ last = "]" /\ Trim(before) = <<>> /\ "]" \notin loose)
               => ExtractJsonValue(before \o value \o after) = value

(* Reading once more changes nothing: what a retry is told about is what   *)
(* was parsed.                                                             *)
ReadOnce(raw) ==
    /\ ExtractJsonObject(ExtractJsonObject(raw)) = ExtractJsonObject(raw)
    /\ ExtractJsonValue(ExtractJsonValue(raw)) = ExtractJsonValue(raw)

(* Only entries that say nothing go, in whatever number and order ("a      *)
(* placeholder for `no entry` rather than an actual entry", line 263).     *)
OnlyStubsGo(entries) ==
    LET kept == DropAllNullEntries(entries)
    IN  /\ {kept[i] : i \in DOMAIN kept} = {entries[i] : i \in {k \in DOMAIN entries : ~Stub(entries[k])}}
        /\ Len(kept) = Cardinality({k \in DOMAIN entries : ~Stub(entries[k])})
=============================================================================
