SPECIFICATION Spec
CONSTANTS
  Pages = {p1, p2}
  Units = {u1, u2}
  Newest = 2
  CheckEvery = 2
  RetryAfter = 1
  GiveUp = 1
  MaxRestarts = 1
  Latest = Latest
  Other = Other
  None = None
INVARIANTS
  ImageIsThere
  
  
PROPERTIES
  NoReleaseHidden
  NeverOlder
SYMMETRY Alike
