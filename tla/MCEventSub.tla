----------------------------- MODULE MCEventSub -----------------------------
(* Instance of EventSub for TLC: two sockets, which is all a handoff needs,  *)
(* two of the four subscription types, and a backoff that stops at four.    *)
EXTENDS EventSub

MCTypes == <<"channel.cheer", "channel.raid">>
=============================================================================
