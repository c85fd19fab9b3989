--------------------------- MODULE CorpusRegister ---------------------------
(***************************************************************************)
(* What the symbolic corpus store promises its users, without lock, files  *)
(* or staging: a set of immutable generations and one selector.  A call    *)
(* that reports success saw its own generation selected; a read takes the  *)
(* selector's value at one instant and returns both artifacts of that      *)
(* generation and of no other.                                             *)
(***************************************************************************)
CONSTANTS Publisher, Reader, Doc, NoDoc

VARIABLES
    request,    \* the document each publisher was asked to publish
    installed,  \* complete generations
    selected,   \* the current generation
    acked,      \* publishers that reported success
    chosen,     \* the generation each read settled on
    returned    \* the documents whose bytes each read returned

vars == <<request, installed, selected, acked, chosen, returned>>

Init ==
    /\ request = [p \in Publisher |-> NoDoc]
    /\ installed = {}
    /\ selected = NoDoc
    /\ acked = {}
    /\ chosen = [r \in Reader |-> NoDoc]
    /\ returned = [r \in Reader |-> {}]

Request(p, d) ==
    /\ request[p] = NoDoc
    /\ request' = [request EXCEPT ![p] = d]
    /\ UNCHANGED <<installed, selected, acked, chosen, returned>>

Install(p) ==
    /\ request[p] # NoDoc
    /\ installed' = installed \cup {request[p]}
    /\ UNCHANGED <<request, selected, acked, chosen, returned>>

Select(p) ==
    /\ request[p] \in installed
    /\ selected' = request[p]
    /\ UNCHANGED <<request, installed, acked, chosen, returned>>

Acknowledge(p) ==
    /\ request[p] # NoDoc
    /\ selected = request[p]
    /\ acked' = acked \cup {p}
    /\ UNCHANGED <<request, installed, selected, chosen, returned>>

Choose(r) ==
    /\ chosen[r] = NoDoc
    /\ selected # NoDoc
    /\ chosen' = [chosen EXCEPT ![r] = selected]
    /\ UNCHANGED <<request, installed, selected, acked, returned>>

Return(r) ==
    /\ chosen[r] \in installed
    /\ returned' = [returned EXCEPT ![r] = {chosen[r]}]
    /\ UNCHANGED <<request, installed, selected, acked, chosen>>

Next ==
    \/ \E p \in Publisher :
         \/ \E d \in Doc : Request(p, d)
         \/ Install(p)
         \/ Select(p)
         \/ Acknowledge(p)
    \/ \E r \in Reader : Choose(r) \/ Return(r)

Spec == Init /\ [][Next]_vars
=============================================================================
