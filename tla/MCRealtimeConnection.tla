------------------------ MODULE MCRealtimeConnection ------------------------
(* RealtimeConnection on small instances, for TLC. *)
EXTENDS RealtimeOrder
=============================================================================
