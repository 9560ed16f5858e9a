CONSTANTS
  Peer = {h, p}
  Host = h
  MaxSpeed = 2
  CorrectionLimit = 1
  Budget = 2
  Lag = 1
  Unread = 2
  MaxCrash = 1
SPECIFICATION ClockSpec
VIEW View
CHECK_DEADLOCK FALSE
INVARIANT ReleasedTogether
INVARIANT NoMeetingWhileAway
INVARIANT PauseAgreed
