SPECIFICATION Safe
CONSTANTS
  n1 = n1
  n2 = n2
  email = email
  sms = sms
  alice = alice
  bob = bob
  Ids = {n1, n2}
  ChannelFilters = {email}
  RecipientFilters = {alice, "any"}
  ChannelOf <- OneChannel
  RecipientOf <- TwoRecipients
  Readers = {r1}
  Nothing = Nothing
  MaxVersion = 1
  Budget <- NoFailures
INVARIANT ListsMatchRecipient
