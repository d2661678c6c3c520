---------------------------- MODULE MCWhitelist ----------------------------
(* Model checking of Whitelist on all short lists. *)
EXTENDS Whitelist, SequencesExt

CONSTANT MaxList  \* bound: length of the whitelist

MCLists == SeqOf(Digit \union {Newline}, MaxList)

\* "a b" is a file, "a" and "c" are files, "b" is none.
MCPaths == {<<"a">>, <<"b">>, <<"c">>, <<"a", "b">>, <<"b", "b">>}
MCContent ==
  [p \in MCPaths |-> CASE p = <<"a">> -> <<0, 1>>
                       [] p = <<"c">> -> <<1, 1>>
                       [] p = <<"b">> -> <<>>
                       [] OTHER -> <<0, 0>>]
=============================================================================
