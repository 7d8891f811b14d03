\* Two types, two pods on two pages, two acts of the user.
SPECIFICATION FairSpec
CONSTANTS
  p1 = p1
  p2 = p2
  n1 = n1
  Types = {"pod", "node"}
  Listings <- MCListings
  STALE_RETRY_MAX_ATTEMPTS = 2
  MaxTimers = 1
  Plain = "plain"
  Passes <- MCPasses
  Unset = "unset"
  FirstStored <- MCFirstStored
  LIST_PAGE_SIZE = 1
  PodType = "pod"
  Namespaced = {"pod"}
  Namespaces <- MCNamespaces
  Keywords <- MCKeywords
  MaxActs = 2
INVARIANTS
  ListMatchesFilter
  InvalidationKept
  PageShowsItems
  PreferencesFollow
PROPERTIES
  PollingEnds
CHECK_DEADLOCK FALSE
