--------------------------- MODULE MCAVFrameQueue ---------------------------
(* AVFrameQueue for TLC: dynamic, one-, two- and three-slot queues. *)
EXTENDS AVFrameQueue

=============================================================================
