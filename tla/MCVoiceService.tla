--------------------------- MODULE MCVoiceService ---------------------------
(* Two turns, as VoiceInteraction._run has them.                              *)
EXTENDS VoiceService

MCTurns == 2
=============================================================================
