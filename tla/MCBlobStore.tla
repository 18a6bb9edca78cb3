---------------------------- MODULE MCBlobStore ----------------------------
(* Instances of the blob store for TLC. *)
EXTENDS BlobStore, TLC

CONSTANTS blob

(* The content is above the threshold, or at it. *)
InlinesMC == {{}, {blob}}
ClientSymmetry == Permutations(Clients)
=============================================================================
