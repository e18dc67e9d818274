SPECIFICATION Spec
CONSTANTS
  Dnskeys <- MCDnskeys
  Tags <- MCTags
  Algorithms <- MCAlgorithms
  DigestTypes <- MCDigestTypes
  Digests <- MCDigests
  Algorithm <- MCAlgorithm
  KeyTag <- MCKeyTag
  LocalDigest <- MCLocalDigest
  SHA256 = 2
  Upper <- MCUpper
  None = None
  Failed = Failed
  Publications <- OneSided
  DSSets <- MCDSSets
  Forged <- MCForged
  NumServers = 1
  RequiresCDNSKEY = TRUE
INVARIANTS
  OneSideIsEnough
