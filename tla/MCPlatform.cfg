\* Two events without faults and with a period yet to be opened; a payroll run of three
\* employees in pages of two, with two faults and a change of the roster; a notification
\* with two channels, two attempts of each and a fault.
SPECIFICATION PlatformSpec
CONSTANTS
  e1 = e1
  s1 = s1
  EventIds = {e1, e2}
  Sources = {s1, s2}
  Amounts = {1}
  MaxFaults = 0
  CanClose = FALSE
  ann = ann
  bob = bob
  cid = cid
  PayrollRuns = {run1}
  Staff = {ann, bob, cid}
  NetPay <- MCNetPay
  FirstRoster <- MCRoster
  ChunkSize = 2
  PayrollFaults = 2
  RosterChanges = 1
  Notices = {n1}
  Channels <- MCChannels
  MaxAttempts = 2
  NoticeFaults = 1
INVARIANTS PayrollHolds 
PROPERTY PlatformSettles
\* every id is used once: then nothing is left to do
CHECK_DEADLOCK FALSE
