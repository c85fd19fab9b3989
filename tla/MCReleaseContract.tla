------------------------ MODULE MCReleaseContract ------------------------
(* A finite instance: two commits of one version, one of which cannot be   *)
(* told from the other by its version, and a dataset and a report forged   *)
(* from edited bytes under the wanted identity.                            *)
EXTENDS ReleaseContract

CONSTANTS c1, c2, v1

OneVersion == [b \in Bytes |-> v1]
Tagged == [v \in Version |-> [annotated |-> TRUE, commit |-> c1]]
Others == {[mode |-> "tag", commit |-> c, version |-> v1, tag |-> v1] : c \in Commit}
Forger == Archive([mode |-> "tag", commit |-> c1, version |-> v1, tag |-> v1],
                  [corpus |-> Edited, benchmark |-> Edited])
ForgedPair == {Forger.dataset, Forger.report}
Wants == [commit |-> c1, mode |-> "tag"]
=============================================================================
