--------------------------- MODULE MCRemoteControl ---------------------------
(* RemoteControl with stick values below, inside and beyond the range. *)
EXTENDS RemoteControl

MCSticks == { << -5, 1 >>, << 5, NaN >>, << 1, -5 >> }
=============================================================================
