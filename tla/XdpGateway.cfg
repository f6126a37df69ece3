SPECIFICATION Spec
CONSTANTS
  CPU = {"c1", "c2"}
  Frames <- MCFrames
  Queue = {0}
  Key <- MCKey
  Slot <- MCSlot
  Endpoint <- MCEndpoint
  EntranceList <- MCLists
  FirstList <- MCFirst
  Junk <- MCJunk
  Rule <- MCRule
  Roles = {"FWD", "FTN"}
  Builds = {TRUE, FALSE}
  EgressPort = 30011
  Base = 16
  MaxWrites <- MCWrites
  Indexes <- MCIndexes
  Contents <- MCContents
  Nobody = Nobody
INVARIANT TypeOK
INVARIANT SentWhenDue
INVARIANT SentToEndpoint
INVARIANT UnsentUntouched
INVARIANT SentVerifies
INVARIANT LoopsEnd
INVARIANT HintsNameSender
CHECK_DEADLOCK FALSE
