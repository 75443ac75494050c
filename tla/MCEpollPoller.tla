---------------------------- MODULE MCEpollPoller ----------------------------
(* The instance of EpollPoller that TLC checks: nothing, data to read, or   *)
(* room to write on a connection that has hung up.                          *)
EXTENDS EpollPoller

MCReadyMasks == {{}, {"IN"}, {"OUT", "HUP"}}
=============================================================================
