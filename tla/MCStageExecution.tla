--------------------------- MODULE MCStageExecution ---------------------------
(***************************************************************************)
(* Two local stages, a plan that starts on another node, one with an       *)
(* unregistered backend, one whose artifact is missing; and two plans of   *)
(* another planning: after manifest.json was replaced the same stage comes *)
(* from another shard, and on another choice of backend the same shard is  *)
(* wanted by a second session.                                             *)
(***************************************************************************)
EXTENDS StageExecution

Here(i, b, s) == [id |-> i, backend |-> b, shard |-> s, local |-> TRUE]

There(i) == [id |-> i, backend |-> "llama", shard |-> i, local |-> FALSE]

Embed == Here("embed", "llama", "embed")

MCPlans ==
    {<<Embed, Here("layers", "llama", "layers")>>,
     <<There("embed"), Here("layers", "llama", "layers")>>,
     <<Embed, Here("layers", "mlx", "layers")>>,
     <<Embed, Here("output", "llama", "output")>>,
     <<Embed, Here("layers", "llama", "layers2")>>,
     <<Here("embed", "cpu", "embed")>>}
===============================================================================
