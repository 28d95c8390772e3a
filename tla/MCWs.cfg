SPECIFICATION ConnSpec
CONSTANTS
  SubDeps <- MCSubDeps
  Overrides <- MCOverrides
  Yields <- MCYields
  Forms <- MCForms
  Configs <- MCConfigs
  MaxOps = 3
  MaxFrames = 3
  MaxArms = 3
  BatchCap = 1
  Close = Close
  MaxSends = 2
  OutCap = 1
  CloseFrame = CloseFrame
  Flush = Flush
INVARIANTS NeverStranded ReleasedInReverse FramesInOrder DisconnectHookRuns
  ReceivedInOrder NoLostWakeup SentInOrder
PROPERTIES QueuedCloseArrives DisconnectWakes RepliesFlushed
CHECK_DEADLOCK FALSE
