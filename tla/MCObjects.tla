------------------------------ MODULE MCObjects ------------------------------
(* Two commits on the seed whose trees share a blob the seed does not have.   *)
EXTENDS Objects

MCChild == [s |-> <<"t">>, t |-> <<"a">>, a |-> <<>>, b |-> <<>>,
            c1 |-> <<"s", "t1">>, t1 |-> <<"a", "b">>,
            c2 |-> <<"s", "t2">>, t2 |-> <<"b">>, e1 |-> <<>>]
MCLinks == {}
==============================================================================
