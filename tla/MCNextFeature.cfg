SPECIFICATION FairSpec
CONSTANTS
  f1 = f1
  f2 = f2
  Features <- MCFeatures
  Base = Base
  Drafts = {1, 2}
  None = None
  MaxUpsets = 2
PROPERTIES
  OffersAreEarned
  FeaturesGetMerged
