SPECIFICATION Spec
CONSTANTS
  n1 = n1
  n2 = n2
  email = email
  sms = sms
  alice = alice
  bob = bob
  Ids = {n1}
  ChannelFilters = {email, sms}
  RecipientFilters = {"any"}
  ChannelOf <- OneOfEmail
  RecipientOf <- OneOfAlice
  Readers = {r1, r2}
  Nothing = Nothing
  MaxVersion = 2
  Budget <- SomeFailures
INVARIANT TypeOK
INVARIANT AnswersMatchQuery
INVARIANT InvalidationHolds
PROPERTY DeletedFades
