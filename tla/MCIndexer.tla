----------------------------- MODULE MCIndexer -----------------------------
(* Small instances of Indexer. *)
EXTENDS Indexer

\* An operator who backfills from the genesis block.
FromGenesis == {1}
=============================================================================
