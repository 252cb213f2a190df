--------------------------- MODULE MCUserHistory ---------------------------
(* A small instance of UserHistory for TLC. *)
EXTENDS UserHistory

\* A word, two words in one commit, and a punctuation mark.
Commits == { << <<"a">> >>, << <<"a">>, <<"b">> >>, << <<".">> >> }

\* The last history segment, learned or not; one that is not learned makes no
\* link and no joined entry, as if there were none.
Contexts == { <<"a", "b">> }
=============================================================================
