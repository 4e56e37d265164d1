------------------------- MODULE MCMultiRepoResearch -------------------------
(***************************************************************************)
(* Instances of MultiRepoResearch for TLC: three repositories and the shapes  *)
(* that tell the levels apart.                                                *)
(***************************************************************************)
EXTENDS MultiRepoResearch

CONSTANTS a, b, c

MCRepos == {a, b, c}

\* No edges, a chain, a fork, a join, a shortcut, a cycle behind a source.
MCTopologies == { {}, {<<a, b>>, <<b, c>>}, {<<a, b>>, <<a, c>>}, {<<a, c>>, <<b, c>>},
                  {<<a, b>>, <<b, c>>, <<a, c>>}, {<<a, b>>, <<b, c>>, <<c, b>>} }

\* One level is enough for an answer that goes astray.
MCParallel == { {} }

=============================================================================
