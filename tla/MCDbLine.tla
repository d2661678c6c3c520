------------------------------ MODULE MCDbLine ------------------------------
(* Model checking of DbLine on entries, cut entries and stray lines. *)
EXTENDS DbLine

MCNames == {<<Other>>, <<10, Minus>>, <<Other, 11, Minus, 1>>}
MCSigs == [1 .. SigSize -> {10, 161}]

\* Entries without a newline, an empty line, a name alone, an entry cut in the
\* middle, pairs with a minus or a blank.
Cut(l) == SubSeq(l, 1, Len(l) - 1)
MCStray ==
  {Cut(Entry(n, [k \in 1 .. SigSize |-> 161])) : n \in MCNames} \union
  {<<Newline>>, <<Other, 10, Newline>>,
   <<Other, Comma, Blank, Blank, 1, 2, 3, Newline>>,
   <<Comma, Minus, 4, 5, Minus, 7, Blank, 8, Other, 9, Blank, Minus, 3, Newline>>}

\* Nothing, a digit, and what is read after two blanks.
MCBehind ==
  {<<<<>>, <<>>, <<>>, <<>>>>,
   <<<<>>, <<3, Other>>, <<>>, <<Minus, 7>>>>,
   <<<<3, 9>>, <<Minus, 7>>, <<>>, <<>>>>}
=============================================================================
