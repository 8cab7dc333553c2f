\* Who is let in.  The tokens differ in what they say, so no symmetry.
SPECIFICATION Spec
CONSTANTS
  i = i
  d = d
  site = site
  other = other
  Tokens <- MCTokens
  Claims <- MCClaims
  Origins <- MCOrigins
  AllowedOrigins = {}
  AnyOrigin = AnyOrigin
  SessionLengths = {1, 3}
  MaxAge = 2
  PerMinute = 2
  Minute = 2
  Bodies <- MCBodies
  Lists <- MCLists
  MaxBody = 1
  MaxClock = 3
  MaxEdits = 2
  MaxPassed = 3
INVARIANTS
  TypeOK
  DenyListCurrent
  WindowBound
  SessionLasts
