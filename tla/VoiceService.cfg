CONSTANT Turns <- MCTurns
SPECIFICATION VoiceFairSpec
CHECK_DEADLOCK FALSE
INVARIANTS MicrophoneOwned StoppedQuiet
PROPERTIES WakeResumes VoiceStopEnds
