--------------------------- MODULE MCEventStream ---------------------------
(***************************************************************************)
(* The event stream on a small instance: a ring of one frame, so that a    *)
(* frame is soon forgotten, a channel of one, one place, so that a page    *)
(* that is gone keeps the next one out, a restart and a broken socket.     *)
(***************************************************************************)
EXTENDS EventStream

=============================================================================
