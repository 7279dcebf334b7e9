SPECIFICATION Spec
CONSTANTS
  blog = blog
  videos = videos
  page = page
  mirror = mirror
  o1 = o1
  o2 = o2
  j1 = j1
  Url = {blog, videos}
  Link = {page, mirror}
  Feeds <- MCFeeds
  Direct = {mirror}
  Capturable = {page}
  HostOf <- MCHostOf
  NoFeed = NoFeed
  Op = {o1, o2}
  Job = {j1}
  Cap = 1
  CaptureLimit = 1
  MaxCandidates = 2
  MaxSources = 2
  MaxRestarts = 1
  MaxPasses = 1
SYMMETRY SlotSymmetry
INVARIANTS CapOvershoot AddedOnce CapturesWithinQuota
PROPERTY NeverRevived
