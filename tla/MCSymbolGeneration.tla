------------------------ MODULE MCSymbolGeneration ------------------------
EXTENDS SymbolGeneration

(* Two symbols, one the beginning of the other, and tokens that spell them *)
(* in several ways, across the space too.                                  *)
MCSymbol == {<<"a">>, <<"a", "b">>}

MCPiece ==
    [a |-> <<"a">>, b |-> <<"b">>, ab |-> <<"a", "b">>, space |-> <<" ">>,
     _a |-> <<" ", "a">>, eos |-> <<>>, pad |-> <<>>]
===========================================================================
