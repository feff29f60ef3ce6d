------------------------------ MODULE MCParts -------------------------------
(***************************************************************************)
(* Constants for checking the parts with TLC.                              *)
(***************************************************************************)
EXTENDS Parts

CONSTANTS r1, r2, r3

\* A failing statfs, too little free space, and plenty.
MCAvailable == {-1, 2, 10}

x == <<"x">>
\* A page that ends in the middle of a line, with a line, with a blank line; one
\* that needs escaping; one with the next page's header in it; a blank one; one
\* that is too long, and one that is too long only together with another.
MCPageTexts ==
    {<<x>>, <<x, NewLine>>, <<x, NewLine, NewLine>>, <<Escaped, Escaped>>,
     <<Header(2, 1), NewLine, NewLine, x>>, <<NewLine>>, <<x, x, x, x>>, <<x, x, x, x, x>>}
=============================================================================
