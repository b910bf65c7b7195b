SPECIFICATION FairSpec
CONSTANTS
  address = address
  plan1 = plan1
  plan2 = plan2
  policy1 = policy1
  policy2 = policy2
  none = none
  MaxGenerations = 3
  Configs <- MCConfigs
  Keys <- MCKeys
  UnixKeys <- NoKeys
  MayCrash = TRUE
INVARIANTS
  LifecycleSound
  ServesWhileRunning
  ServicesOutliveUsers
 
CHECK_DEADLOCK FALSE
