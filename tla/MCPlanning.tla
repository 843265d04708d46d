------------------------------- MODULE MCPlanning -------------------------------
(***************************************************************************)
(* Two nodes with different backends and a manifest of four shards, the    *)
(* shape of fixtures/models/tinyllama/manifest.json, or a broken one.  The *)
(* last layers are the most sensitive, so they are placed first; the first *)
(* ones ask for two compute units, of which one node has only one.         *)
(***************************************************************************)
EXTENDS Planning

MCNodes == {1, 2}

MCBackends ==
    <<  << [kind |-> "llama", units |-> {"cpu"}] >>,
        << [kind |-> "mlx", units |-> {"gpu"}],
           [kind |-> "llama", units |-> {"cpu", "gpu"}] >>  >>

ShardRecord(i, k, l, p, s, b, u) ==
    [id |-> i, kind |-> k, layers |-> l, peak |-> p, sensitivity |-> s,
     backends |-> b, units |-> u]

Embed  == ShardRecord("embed", "embedding", <<>>, 1, 1, {}, {})
Low    == ShardRecord("low", "layers", <<0, 2>>, 2, 2, {"llama"}, {"cpu", "gpu"})
High   == ShardRecord("high", "layers", <<2, 3>>, 1, 3, {"mlx", "llama"}, {})
Output == ShardRecord("output", "output", <<>>, 1, 0, {"llama"}, {"cpu"})
Other  == ShardRecord("other", "layers", <<1, 3>>, 1, 3, {}, {"gpu"})
Twin   == ShardRecord("twin", "layers", <<0, 2>>, 1, 0, {}, {})

MCManifests ==
    {[shards |-> <<Embed, Low, High, Output>>, total |-> 3],
     [shards |-> <<Low, Other>>, total |-> 3],
     [shards |-> <<>>, total |-> 3]}

\* The runtime learns the capability profile of its own node only.
MCMemories == {<<>>} \cup [{1} -> {3, 6}]

MCInputs ==
    [caller : {"library"}, model : {"direct"},
     shards : {<<Output, High, Low, Embed>>, <<Low, High>>, <<Low, Other>>,
               <<Low, Twin, High>>, <<Embed, Output>>},
     total : {3}, memory : [{1, 2} -> {2, 4}] \cup [{2} -> {6}],
     links : BOOLEAN, reserve : {0, 1}, fence : {1}]
==============================================================================
