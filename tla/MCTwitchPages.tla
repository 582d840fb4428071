--------------------------- MODULE MCTwitchPages ---------------------------
(* Instances of TwitchPages for TLC: two gifts of one or two, a cheer, one  *)
(* restart, and a tick that may be read one time unit late; a raid, or one  *)
(* kind of event only, where a run asks about that.  No symmetry: the runs  *)
(* check temporal properties, and arrival order tells gifts apart.          *)
EXTENDS TwitchPages
=============================================================================
