SPECIFICATION DefaultSpec
CONSTANTS
  Channels = {ch1, ch2, ch3, ch4}
  Events = {in, out}
  kInitEventListSize = 1
INVARIANTS PollersInv
PROPERTIES PollImplementsPoller ImplementsPoller
