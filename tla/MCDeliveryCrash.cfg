\* One fault, for instance a crash between the commit and the emit.
SPECIFICATION FairSpec
CONSTANTS
  EventIds = {e1}
  Sources = {s1}
  Amounts = {1}
  MaxFaults = 1
  CanClose = FALSE
PROPERTY EventsAreDelivered
\* all events committed and settled: no client has anything left to ask
CHECK_DEADLOCK FALSE
