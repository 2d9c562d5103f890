--------------------------- MODULE MCChunkedDownload ---------------------------
(* A small instance of ChunkedDownload for TLC. *)
EXTENDS ChunkedDownload

=============================================================================
