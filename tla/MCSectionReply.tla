--------------------------- MODULE MCSectionReply ---------------------------
(* Small instances of SectionReply for TLC, and of how the model's answer  *)
(* is put together from a stream (Streaming) and read (JsonReply).         *)
EXTENDS SectionReply, TLC

CONSTANTS e1, e2, t1, t2

(* Entries are counted, never told apart, and so are turns. *)
Interchangeable == Permutations(Entries) \cup Permutations(Turns)

(* Bound of what may come with a third message: in the basics nothing is   *)
(* known from an upload and no field is mentioned but by the code's own    *)
(* questions, and no call was retried.                                     *)
Terse ==
    /\ \A t \in Turns : turn[t].attempt = 0
    /\ section = "basic" =>
        /\ analysis = NoCard
        /\ \A t \in Turns : turn[t].said.about = {}
        /\ \A f \in Rules : mentions[f] <= forced[f] + clarified

TwoMessages == \A t \in Turns : turn[t].at # "idle" => turn[t].heard.users < 2

ThirdIsTerse == (users <= 2 /\ TwoMessages) \/ Terse

L == INSTANCE Streaming

(* Every text of up to five symbols, in up to three chunks.                *)
Symbols == {L!Newline, L!Garbled, "[DONE]", "a"}
Texts   == UNION {[1 .. n -> Symbols] : n \in 0 .. 5}
Cuts(text) ==
    {<<SubSeq(text, 1, i), SubSeq(text, i + 1, k), SubSeq(text, k + 1, Len(text))>> :
        i \in 0 .. Len(text), k \in 0 .. Len(text)}

(* The first cut is not after the second. *)
Whole(text, chunks) == Len(chunks[1]) + Len(chunks[2]) + Len(chunks[3]) = Len(text)

ASSUME StreamsSurviveCuts ==
    \A text \in Texts : \A chunks \in {c \in Cuts(text) : Whole(text, c)} :
        L!CutsDoNotMatter(chunks, text) /\ L!FailureIsPrefix(chunks, text)

-----------------------------------------------------------------------------
R == INSTANCE JsonReply

Upto(S, n) == UNION {[1 .. k -> S] : k \in 0 .. n}

Signs   == {"{", "}", "[", "]", R!Space, "a"}
Inners  == Upto(Signs, 2)
Wrapped == {<<"{">> \o inner \o <<"}">> : inner \in Inners} \cup {<<"[">> \o inner \o <<"]">> : inner \in Inners}
Around  == Upto(Signs, 2)

(* Every object and list of up to two symbols with up to two before and    *)
(* after it, every reply of up to four, every list of up to three entries. *)
ASSUME RepliesAreRead ==
    /\ \A before, after \in Around, value \in Wrapped : R!Recovered(before, value, after)
    /\ \A raw \in Upto(Signs, 4) : R!ReadOnce(raw)
    /\ \A entries \in Upto([name : {"null", "x"}, year : {"null", "y"}], 3) : R!OnlyStubsGo(entries)

(* What is not promised: a brace in the words after it keeps the object    *)
(* from being cut off where it ends.                                       *)
ASSUME TrailingBraceIsKept ==
    R!ExtractJsonObject(<<"{", "}", "a", "}">>) = <<"{", "}", "a", "}">>
=============================================================================
