SPECIFICATION FairSpec
CONSTANTS
  Sectors = 2
  Chars = {fw, cmd}
INVARIANTS NoSecondTrial TrialKeepsFallback SubscriberIsNotified
PROPERTIES BootsWhole  AdvertisesAgain TrialIsDecided
