----------------------------- MODULE MCSessions -----------------------------
(***************************************************************************)
(* Three sessions, four graphs and binaries that hold one, two or three of *)
(* them.  A configuration is what an application would do: a group that    *)
(* generates one binary, producers and consumers of shared models, and     *)
(* sessions that share the resources of one backend.                       *)
(***************************************************************************)
EXTENDS Sessions, TLC

CONSTANTS s1, s2, s3, g1, g2, g3, g4, b1, b12, b123, b34

BinaryGraphs ==
    (b1 :> {g1}) @@ (b12 :> {g1, g2}) @@ (b123 :> {g1, g2, g3}) @@ (b34 :> {g3, g4})

Generate(nodes, stop) ==
    [kind |-> "generate", share |-> TRUE, stop |-> stop, alloc |-> "none",
     validate |-> FALSE, nodes |-> nodes, bins |-> <<>>]

Load(nodes, bins, share) ==
    [kind |-> "load", share |-> share, stop |-> FALSE, alloc |-> "none",
     validate |-> FALSE, nodes |-> nodes, bins |-> bins]

Htp(nodes, bins, stop, alloc) ==
    [kind |-> "htp", share |-> FALSE, stop |-> stop, alloc |-> alloc,
     validate |-> TRUE, nodes |-> nodes, bins |-> bins]

Three(a, b, c) == (s1 :> a) @@ (s2 :> b) @@ (s3 :> c)

Groups ==
    {Three(Generate(<<g1>>, FALSE), Generate(<<g2>>, FALSE), Generate(<<g3, g4>>, TRUE)),
     Three(Generate(<<g1>>, FALSE), Generate(<<g2>>, TRUE), Generate(<<g3>>, TRUE)),
     Three(Generate(<<g1>>, FALSE), [Generate(<<g2>>, FALSE) EXCEPT !.share = FALSE],
           [Generate(<<g3>>, TRUE) EXCEPT !.validate = TRUE])}

Exchanges ==
    {\* one producer, two consumers of different graphs
     Three(Load(<<g1>>, <<b123>>, TRUE), Load(<<g2>>, <<b123>>, TRUE),
           Load(<<g3>>, <<b123>>, TRUE)),
     \* one producer, two consumers that want the same graph
     Three(Load(<<g1>>, <<b123>>, TRUE), Load(<<g2, g3>>, <<b123>>, TRUE),
           Load(<<g3, g2>>, <<b123>>, TRUE)),
     \* two producers in parallel, one consumer of both
     Three(Load(<<g1>>, <<b12>>, TRUE), Load(<<g3>>, <<b34>>, TRUE),
           Load(<<g2, g4>>, <<b12, b34>>, TRUE)),
     \* a session that shares nothing, and one with two binaries of its own
     Three(Load(<<g1>>, <<b1>>, FALSE),
           [Load(<<g1, g3, g4>>, <<b34, b1>>, FALSE) EXCEPT !.validate = TRUE],
           Load(<<g2>>, <<b12>>, TRUE))}

SharedResources ==
    {Three(Htp(<<g1>>, <<b123>>, FALSE, "none"), Htp(<<g2>>, <<b123>>, FALSE, "none"),
           Htp(<<g3>>, <<b34>>, TRUE, "none")),
     Three(Htp(<<g1>>, <<b1>>, FALSE, "none"), Htp(<<g2>>, <<b12>>, TRUE, "htp_shared"),
           Htp(<<g3, g2>>, <<b34, b12>>, FALSE, "none"))}

AllConfigs == Groups \cup Exchanges \cup SharedResources
=============================================================================
