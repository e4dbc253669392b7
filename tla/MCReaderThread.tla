--------------------------- MODULE MCReaderThread ---------------------------
(* ReaderThread for TLC. *)
EXTENDS ReaderThread

=============================================================================
