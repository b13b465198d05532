SPECIFICATION PolicySpec
CONSTANTS
  RequestNames = {"no-store", "no-cache", "public"}
  ResponseNames = {"no-store", "s-maxage", "max-age", "public"}
  Values = {"", "0", "2", "-1"}
  MaxSegments = 1
  DefaultTTL = 3
INVARIANT
  DefaultOnlyWithoutDirectives
