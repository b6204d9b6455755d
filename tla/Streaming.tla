------------------------------- MODULE Streaming -------------------------------
(***************************************************************************)
(* Reading a streamed answer of the model:                                 *)
(* MistralProvider.stream of src/integrations/llm/providers.               *)
(*                                                                         *)
(* The provider sends lines; the network delivers them in chunks cut       *)
(* anywhere.  What a line says is a sequence of symbols: nothing for a     *)
(* line without `data:` or without content, Done for `[DONE]`, a line with *)
(* Garbled in it is not JSON, and anything else is a text to be yielded.   *)
(* A read returns a chunk, or Closed at the end of the body, or Failed     *)
(* when the connection breaks or STREAM_IDLE_TIMEOUT_MS passes.            *)
(***************************************************************************)
EXTENDS Integers, Sequences, FiniteSets

Newline == "newline"
Garbled == "garbled"
Done    == <<"[DONE]">>
Closed  == <<"closed">>
Failed  == <<"failed">>

Reader == [buffer |-> <<>>, texts |-> <<>>, ended |-> "no"]

Newlines(text) == {i \in DOMAIN text : text[i] = Newline}

(* buffer.split: the whole lines, in order, and what is left after them.   *)
NthNewline(text, n) ==
    CHOOSE i \in Newlines(text) : Cardinality({k \in Newlines(text) : k <= i}) = n
Line(text, n) ==
    SubSeq(text, IF n = 1 THEN 1 ELSE NthNewline(text, n - 1) + 1, NthNewline(text, n) - 1)
Lines(text) == [n \in 1 .. Cardinality(Newlines(text)) |-> Line(text, n)]
Rest(text) ==
    LET n == Cardinality(Newlines(text))
    IN  IF n = 0 THEN text ELSE SubSeq(text, NthNewline(text, n) + 1, Len(text))

(* What one line does to the reader; after the end nothing does.           *)
TakeLine(reader, line) ==
    IF reader.ended # "no" \/ line = <<>> THEN reader
    ELSE IF line = Done THEN [reader EXCEPT !.ended = "done"]
    ELSE IF \E i \in DOMAIN line : line[i] = Garbled THEN [reader EXCEPT !.ended = "error"]
    ELSE [reader EXCEPT !.texts = Append(@, line)]

TakeLines(reader, lines) ==
    LET after[n \in 0 .. Len(lines)] == IF n = 0 THEN reader ELSE TakeLine(after[n - 1], lines[n])
    IN  after[Len(lines)]

(* One read.                                                               *)
TakeRead(reader, read) ==
    IF reader.ended # "no" THEN reader
    ELSE IF read = Closed THEN [reader EXCEPT !.ended = "closed"]
    ELSE IF read = Failed THEN [reader EXCEPT !.ended = "error"]
    ELSE LET buffer == reader.buffer \o read
         IN  [TakeLines(reader, Lines(buffer)) EXCEPT !.buffer = Rest(buffer)]

Stream(reads) ==
    LET after[n \in 0 .. Len(reads)] == IF n = 0 THEN Reader ELSE TakeRead(after[n - 1], reads[n])
    IN  after[Len(reads)]

-----------------------------------------------------------------------------
(* However the network cuts the lines, the same texts are yielded and the  *)
(* stream ends the same way as when all of it came at once: a line in two  *)
(* chunks is neither lost, nor parsed in part, nor yielded twice.          *)
CutsDoNotMatter(chunks, text) ==
    LET cut == Stream(Append(chunks, Closed))  whole == Stream(<<text, Closed>>)
    IN  cut.texts = whole.texts /\ cut.ended = whole.ended

(* A stream that fails has yielded the beginning of what it would have     *)
(* yielded, and its end tells that it is not the whole of it.              *)
FailureIsPrefix(chunks, text) ==
    LET cut == Stream(Append(chunks, Failed))  whole == Stream(<<text, Closed>>)
    IN  /\ Len(cut.texts) <= Len(whole.texts)
        /\ \A i \in DOMAIN cut.texts : cut.texts[i] = whole.texts[i]
        /\ cut.ended = "done" \/ cut.ended = "error"
=============================================================================
