SPECIFICATION Spec
CONSTANTS
  HashOf <- MCHashOf
  Lower <- MCLower
  Upper <- MCUpper
  Title <- MCTitle
  PublicSpellings = {"Public", "public"}
  PublicSecret <- MCPublicSecret
  MaxEntries = 3
  Config <- MCConfig
  WordLines <- MCWordLines
  Builtin <- MCBuiltin
  MaxCands = 4
  Air <- MCAir
  Clients = {w1}
  Main = main
  Dict = dict
  Forms <- MCForms
  MaxAdds = 2
  MaxCrashes = 1
  MaxPasses = 1
  TagCap = 2
  RegCap = 1
  RegionWords = {"eu"}
  MaxConfirmed = 1
  NodeCap = 1
  TrustedOnly = FALSE
  ViewKinds = {"messages", "node"}
  Limit = 1
CHECK_DEADLOCK FALSE
INVARIANT TextServed
