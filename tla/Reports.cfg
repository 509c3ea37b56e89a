SPECIFICATION Safe
CONSTANTS
  MaxRecords = 3
  sms = sms
  email = email
  r1 = r1
  r2 = r2
  Channels = {sms, email}
  Recipients = {r1}
  ChannelOf <- Kind
  OwnerOf <- Owner
  Recent <- LastTwo
  Limit = 2
  Anybody = Anybody
  Budget <- Some
INVARIANT TypeOK
INVARIANT RatesWithinRange
INVARIANT FiguresAgree
INVARIANT WalkShowsEachOnce
CHECK_DEADLOCK FALSE
