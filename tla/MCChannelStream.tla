--------------------------- MODULE MCChannelStream ---------------------------
(***************************************************************************)
(* ChannelStream on a small instance: MCChannelStream.cfg gives the bounds. *)
(***************************************************************************)
EXTENDS ChannelStream
=============================================================================
