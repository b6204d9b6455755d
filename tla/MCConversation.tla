--------------------------- MODULE MCConversation ---------------------------
(* Small instances of Conversation for TLC. *)
EXTENDS Conversation

CONSTANTS r1, r2, r3, r4, m1, c1, c2, p1, u1, v1, v2, v3, old, none

(* Of the six sections the first, and the one projects can replace; ...    *)
TwoSections == <<"basic", "experience">>

(* The two calls of confirm are interchangeable.                           *)
Interchangeable == Permutations(Confirms)

(* The requests follow one another: no POST begins while another is under way. *)
OneAtATime == Cardinality({r \in Posts : post[r].at \in {"drop", "make"}}) <= 1
=============================================================================
