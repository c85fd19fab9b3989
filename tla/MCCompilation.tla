--------------------------- MODULE MCCompilation ---------------------------
EXTENDS Compilation

State(id, contents) ==
    [id |-> id, instruction |-> FALSE, required |-> TRUE, hazards |-> <<>>, contents |-> contents, renders |-> TRUE]

Instruction(id, contents, hazards, required) ==
    [State(id, contents) EXCEPT !.instruction = TRUE, !.hazards = hazards, !.required = required]

Hazard(id, contents) == <<[id |-> id, contents |-> contents]>>

(* A hazard's id may be that of a statement; its text may be a statement's. *)
Opening == {State("s1", <<"a">>), State("s1", <<"a", "b">>),
          Instruction("s1", <<"a">>, <<>>, TRUE), Instruction("s1", <<"a">>, <<>>, FALSE),
          Instruction("s1", <<"a">>, Hazard("h", <<"c">>), FALSE),
          Instruction("s1", <<"a">>, Hazard("s2", <<"a">>), TRUE),
          [Instruction("s1", <<"b", "a">>, <<>>, TRUE) EXCEPT !.renders = FALSE]}
Closing == {State("s2", <<"a">>), Instruction("s1", <<"b">>, <<>>, TRUE),
           Instruction("s2", <<"b">>, <<>>, TRUE), Instruction("s2", <<"b">>, <<>>, FALSE)}

Relation(id, cause, effect) == [id |-> id, cause |-> cause, effect |-> effect]

Relations ==
    {<<>>, <<Relation("r", "s1", "s2")>>, <<Relation("r", "s2", "s1"), Relation("q", "s1", "s2")>>,
     <<Relation("s2", "s1", "s2")>>, <<Relation("r", "s1", "s1")>>}

MCDocuments ==
    {[statements |-> <<s, t>>, relations |-> r, authorized |-> TRUE, concise |-> TRUE] : s \in Opening, t \in Closing, r \in Relations}
    \cup {[statements |-> <<s>>, relations |-> <<>>, authorized |-> a, concise |-> c] :
                s \in Opening, a \in BOOLEAN, c \in BOOLEAN}
=============================================================================
