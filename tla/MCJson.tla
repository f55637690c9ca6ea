------------------------------- MODULE MCJson -------------------------------
(* Json on every tree of four levels with at most two items a container    *)
(* (one of them a string), every short string of the characters the writer *)
(* treats differently, and numbers around the limits of their types.       *)
EXTENDS Json

Chars == {"a", "n", "quote", "backslash", "newline", "control"}
Strings == {String(s) : s \in UNION {[1..n -> Chars] : n \in 0..3}}
Numbers == {Number("int32", n) : n \in {-2, 0, 1}} \cup {Number("int64", n) : n \in {-8, -3, -2, 1, 2, 7}}
             \cup {Number("uint64", n) : n \in {0, 1, 2, 7, 8, 15}}
             \cup {Double(n, frac, fine) : n \in {-9, -8, -4, 1, 2, 5, 15, 16},
                                      frac \in BOOLEAN, fine \in BOOLEAN} \cup {NonFinite}

Marked == String(<<"quote">>)
Leaves == {Number("int64", 1), Marked}
Wrap(trees) ==
  LET seqs == {<< >>} \cup {<<x>> : x \in trees}
                \cup {<<x, Marked>> : x \in trees} \cup {<<Marked, x>> : x \in trees}
  IN  Leaves \cup {List(q) : q \in seqs}
        \cup {Object([i \in DOMAIN q |-> <<IF i = 1 THEN <<"quote">> ELSE <<"a">>, q[i]>>]) : q \in seqs}
MCTrees == Strings \cup Numbers \cup {Null, Bool(TRUE), Bool(FALSE)}
             \cup {List(<<x, y>>) : x \in Numbers, y \in Leaves}
             \cup Wrap(Wrap(Wrap(Wrap(Leaves))))
MCRooms == {2, 5, 9, 1000}
=============================================================================
