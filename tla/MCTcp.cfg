SPECIFICATION Spec
CONSTANTS
  SeqBits = 5
  WndBits = 4
  ClientIss = 3
  ServerIss = 30
  TCP_WND = 4
  TCP_MSS = 2
  TCP_SND_BUF = 4
  TCP_MAXRTX = 1
  TCP_SYNMAXRTX = 1
  Room = 1
  Duties = {"sent", "takes", "whole", "prompt"}
  Iss <- MCIss
  Apps <- Everything
INVARIANTS
  DeliversInOrder
  NothingLost
  HandleAlive
  WindowKept
CHECK_DEADLOCK FALSE
