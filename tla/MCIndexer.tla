------------------------------ MODULE MCIndexer ------------------------------
(***************************************************************************)
(* Instances of Indexer for TLC: two files, the second in three chunks.          *)
(***************************************************************************)
EXTENDS Indexer

CONSTANTS a, b

MCFiles      == {a, b}
MCChunkCount == (a :> 1) @@ (b :> 3)
MCAllChunks  == << <<a, 1>>, <<b, 1>>, <<b, 2>>, <<b, 3>> >>
MCReferences == {<<a, b>>, <<b, a>>}

=============================================================================
