-------------------------- MODULE MCBookDownloads --------------------------
EXTENDS BookDownloads
CONSTANTS b1, b2

\* One book of several chapters is wanted; the other is short and may be there.
MCLength  == [b \in Books |-> IF b = b1 THEN 4 ELSE 1]
Wanted    == [NoFlags EXCEPT !.wanted = TRUE]
Evictable == [NoFlags EXCEPT !.auto = TRUE]
Promoted  == [wanted |-> TRUE, kept |-> TRUE, auto |-> TRUE]
MCShelf   == [b \in Books |-> IF b = b1 THEN {Wanted}
                              ELSE {NoFlags, Wanted, Evictable, Promoted}]
=============================================================================
