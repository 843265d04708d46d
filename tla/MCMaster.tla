------------------------------- MODULE MCMaster -------------------------------
(***************************************************************************)
(* Master for model checking: the request ids of the connections are all   *)
(* different, as the pipeline's contract asks, or all "http-req", as       *)
(* handle_client passes.                                                   *)
(***************************************************************************)
EXTENDS Master

CONSTANTS c1, c2, s1, s2

OneId == [c \in Conns |-> "http-req"]
OwnIds == [c \in Conns |-> IF c = c1 THEN "http-req" ELSE "req-2"]

BothNamings == {OneId, OwnIds}
MasterNaming == {OneId}

=============================================================================
