SPECIFICATION Spec
CONSTANTS
  Dnskeys <- MCDnskeys
  Tags <- MCTags
  Algorithms <- MCAlgorithms
  DigestTypes <- MCDigestTypes
  Digests <- MCDigests
  Algorithm <- MCAlgorithm
  KeyTag <- MCKeyTag
  LocalDigest <- MCLocalDigest
  SHA256 = 2
  Upper <- MCUpper
  None = None
  Failed = Failed
  Publications <- MCPublications
  DSSets <- MCDSSets
  Forged <- MCForged
  NumServers = 2
  RequiresCDNSKEY = TRUE
INVARIANTS
  TypeOK
  RequestConverges
  NeverUnsigns
  NoTornRead
  OnlyValidated
