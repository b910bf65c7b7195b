SPECIFICATION FairSpec
CONSTANTS
  sender = sender
  Stopper = stopper
  Senders <- MCSenders
  Retirer = retirer
  MailboxCapacity = 1
  MaxSends = 2
  StopFromLoop = TRUE
INVARIANTS
  MailboxSound
PROPERTIES
  SubmissionsSettle
  RetirementCompletes
