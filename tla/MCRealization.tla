--------------------------- MODULE MCRealization ---------------------------
(* A call of the compiler, and the generation a neural realizer asks for.  *)
(* All the call sees of it is whether it fails, which Compilation leaves   *)
(* open.  Since neither looks at the other's variables, generation is      *)
(* explored in full beside one call, and every call after one generation:  *)
(* the states of both at once would show nothing that those of each do not.*)
EXTENDS MCCompilation, MCSymbolGeneration

NeuralCall == command = "compile" /\ realizer = "neural"

OneGeneration ==
    /\ kind = "encoder" /\ symbols = {<<"a">>} /\ honoured
    /\ first[<<"a">>] = <<"a">> /\ following[<<"a">>] = <<"_a">>

Generated == OneGeneration /\ status = "accepted" /\ output = <<"a", "eos">>

RealizationInit == Init /\ GenerationInit /\ (NeuralCall \/ OneGeneration)

RealizationNext ==
    \/ ~Generated /\ GenerationNext /\ UNCHANGED vars
    \/ Generated /\ Next /\ UNCHANGED generationVars

RealizationSpec == RealizationInit /\ [][RealizationNext]_<<vars, generationVars>>
=============================================================================
