--------------------------- MODULE MCSSTableFile ---------------------------
(***************************************************************************)
(* SSTableFile with hash functions for TLC.                                *)
(***************************************************************************)
EXTENDS SSTableFile

MCKey == 0..5

\* All keys on the same bits; each on its own; some that meet.
MCHashes == { [k \in MCKey |-> 0], [k \in MCKey |-> k], [k \in MCKey |-> (5 * k * k + 3) % 16] }
=============================================================================
