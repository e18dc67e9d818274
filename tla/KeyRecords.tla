----------------------------- MODULE KeyRecords -----------------------------
(***************************************************************************)
(* The key records of a zone and the operators on them:                    *)
(* internal/core/dns.go (from CDNSKEY and CDS answers to desired keys) and *)
(* internal/core/helpers/compare.go (from desired keys and DS records to   *)
(* the changes).  An answer is an RRset, so slices are sets.               *)
(***************************************************************************)
EXTENDS FiniteSets

CONSTANTS
  Dnskeys,      \* the contents (flags, protocol, algorithm, key) of CDNSKEY records
  Tags, Algorithms, DigestTypes, Digests,
  Algorithm,    \* the algorithm field of a CDNSKEY
  KeyTag,       \* its key tag, a checksum of all of its contents
  LocalDigest,  \* its SHA-256 digest, computed by dsDigest
  SHA256,
  Upper,        \* strings.ToUpper on hexadecimal digests
  None          \* a nil pointer

ASSUME DnskeyAssumption ==
  /\ Algorithm \in [Dnskeys -> Algorithms]
  /\ KeyTag \in [Dnskeys -> Tags]
  /\ LocalDigest \in [Dnskeys -> Digests]
  /\ SHA256 \in DigestTypes
  /\ None \notin Dnskeys
ASSUME UpperAssumption ==
  /\ Upper \in [Digests -> Digests]
  /\ \A d \in Digests : Upper[Upper[d]] = Upper[d]

\* A CDS or a DS record.
DSRecord == [tag : Tags, algorithm : Algorithms, digestType : DigestTypes,
             digest : Digests]

\* plugin.KeyRecord; key stands for Flags, Protocol and PublicKey, which are
\* set together or all nil.
KeyRecord == [tag : Tags, algorithm : Algorithms, digestType : DigestTypes,
              digest : Digests, key : Dnskeys \cup {None}]

\* The four identity fields with an upper-case digest: the map key by which
\* records are compared.
Norm(r) == [tag |-> r.tag, algorithm |-> r.algorithm, digestType |-> r.digestType,
            digest |-> Upper[r.digest]]
NormSet(records) == {Norm(r) : r \in records}

FromCDNSKEY(keys) ==
  {[tag |-> KeyTag[k], algorithm |-> Algorithm[k], digestType |-> SHA256,
    digest |-> LocalDigest[k], key |-> k] : k \in keys}

FromCDS(records) ==
  {[tag |-> c.tag, algorithm |-> c.algorithm, digestType |-> c.digestType,
    digest |-> c.digest, key |-> None] : c \in records}

TagsOf(records) == {r.tag : r \in records}

\* mergeKeyRecords returns no error.
Mergeable(cdnskeyRecords, cdsRecords) ==
  /\ Cardinality(cdnskeyRecords) = Cardinality(cdsRecords)
  /\ TagsOf(cdnskeyRecords) \subseteq TagsOf(cdsRecords)

\* Mutant of CDSIndexes: the records are paired by their places in the answers.
CDSIndexesByPlace(cdsRecords) == [TagsOf(cdsRecords) -> cdsRecords]

\* The CDS by key tag: of several with one tag, the last in the answer.
CDSIndexes(cdsRecords) ==
  {f \in [TagsOf(cdsRecords) -> cdsRecords] : \A t \in TagsOf(cdsRecords) : f[t].tag = t}

\* The result of mergeKeyRecords.
Merged(cdnskeyRecords, cdsIndex) ==
  {[r EXCEPT !.digestType = cdsIndex[r.tag].digestType,
             !.digest = cdsIndex[r.tag].digest] : r \in cdnskeyRecords}

\* Mutant of ToRemove: digests are compared as they were received.
ToRemoveAsReceived(current, desired) ==
  NormSet(current) \ {[Norm(d) EXCEPT !.digest = d.digest] : d \in desired}

\* The results of CompareDS.
ToAdd(current, desired) == {d \in desired : Norm(d) \notin NormSet(current)}
ToRemove(current, desired) == NormSet(current) \ NormSet(desired)

\* The DS set that the changes leave behind.
Applied(current, toAdd, toRemove) == (NormSet(current) \ toRemove) \cup NormSet(toAdd)
=============================================================================
