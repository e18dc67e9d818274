--------------------------- MODULE ZoneCheckProofs ---------------------------
(***************************************************************************)
(* Proofs about the comparison of key records and about a zone's check,    *)
(* for all keys, publications, DS sets and numbers of resolvers.           *)
(***************************************************************************)
EXTENDS ZoneCheck, FiniteSetTheorems, TLAPS

-----------------------------------------------------------------------------
\* A desired record is added, or it is there and stays: CompareDS's changes
\* make any DS set the desired one (compare.go:48-71).
LEMMA CompareConverges ==
  ASSUME NEW current, NEW wanted
  PROVE  LET add == ToAdd(current, wanted)
             remove == ToRemove(current, wanted)
         IN  /\ Applied(current, add, remove) = NormSet(wanted)
             /\ NormSet(add) \cap NormSet(current) = {}
             /\ remove \subseteq NormSet(current) \ NormSet(wanted)
<1> DEFINE add == ToAdd(current, wanted)
           remove == ToRemove(current, wanted)
<1>1. NormSet(add) = NormSet(wanted) \ NormSet(current)
  BY DEF ToAdd, NormSet
<1> HIDE DEF add
<1>2. remove = NormSet(current) \ NormSet(wanted)
  BY DEF ToRemove
<1> QED
  BY <1>1, <1>2 DEF Applied, add

\* Every CDS answer has an index, and an index keeps to the answer.
LEMMA IndexInAnswer ==
  ASSUME NEW records, NEW f \in CDSIndexes(records), NEW t \in TagsOf(records)
  PROVE  f[t] \in records /\ f[t].tag = t
BY DEF CDSIndexes

\* The merged records are those of the CDNSKEY answer, each with the digest
\* of a CDS of its tag (dns.go:193-209).
LEMMA MergedFacts ==
  ASSUME NEW keys \in SUBSET Dnskeys, NEW records \in SUBSET DSRecord,
         TagsOf(FromCDNSKEY(keys)) \subseteq TagsOf(FromCDS(records)),
         NEW f \in CDSIndexes(FromCDS(records))
  PROVE  /\ Merged(FromCDNSKEY(keys), f) \subseteq KeyRecord
         /\ {r.key : r \in Merged(FromCDNSKEY(keys), f)} = keys
         /\ \A r \in Merged(FromCDNSKEY(keys), f) :
              /\ r.tag = KeyTag[r.key]
              /\ \E c \in records : /\ c.tag = r.tag
                                    /\ c.digestType = r.digestType
                                    /\ c.digest = r.digest
<1> DEFINE from == FromCDNSKEY(keys)
           with(r) == [r EXCEPT !.digestType = f[r.tag].digestType,
                                !.digest = f[r.tag].digest]
<1>1. ASSUME NEW r \in from
      PROVE  /\ r \in KeyRecord /\ r.key \in keys /\ r.tag = KeyTag[r.key]
             /\ with(r) \in KeyRecord
             /\ with(r).key = r.key /\ with(r).tag = r.tag
             /\ \E c \in records : /\ c.tag = r.tag
                                   /\ c.digestType = with(r).digestType
                                   /\ c.digest = with(r).digest
  <2>1. r \in KeyRecord /\ r.key \in keys /\ r.tag = KeyTag[r.key]
    BY DnskeyAssumption DEF FromCDNSKEY, KeyRecord
  <2>2. r.tag \in TagsOf(FromCDS(records))
    BY DEF TagsOf
  <2>3. f[r.tag] \in FromCDS(records) /\ f[r.tag].tag = r.tag
    BY <2>2, IndexInAnswer
  <2>4. PICK c \in records :
          f[r.tag] = [tag |-> c.tag, algorithm |-> c.algorithm,
                      digestType |-> c.digestType, digest |-> c.digest, key |-> None]
    BY <2>3 DEF FromCDS
  <2>5. c \in DSRecord
    OBVIOUS
  <2>6. /\ with(r) \in KeyRecord
        /\ with(r).key = r.key /\ with(r).tag = r.tag
        /\ with(r).digestType = c.digestType /\ with(r).digest = c.digest
    <3>1. f[r.tag].digestType = c.digestType /\ f[r.tag].digest = c.digest
      BY <2>4
    <3>2. c.digestType \in DigestTypes /\ c.digest \in Digests
      BY <2>5 DEF DSRecord
    <3>3. with(r) = [r EXCEPT !.digestType = c.digestType, !.digest = c.digest]
      BY <3>1
    <3> HIDE DEF with
    <3> QED
      BY <2>1, <3>2, <3>3 DEF KeyRecord
  <2>7. c.tag = r.tag
    BY <2>3, <2>4
  <2> QED
    BY <2>1, <2>6, <2>7
<1>2. ASSUME NEW k \in keys
      PROVE  \E r \in from : r.key = k
  <2> DEFINE r == [tag |-> KeyTag[k], algorithm |-> Algorithm[k], digestType |-> SHA256,
                   digest |-> LocalDigest[k], key |-> k]
  <2>1. r \in from /\ r.key = k
    BY DEF FromCDNSKEY
  <2> QED
    BY <2>1
<1>3. Merged(from, f) = {with(r) : r \in from}
  BY DEF Merged
<1> HIDE DEF with, from
<1>4. {r.key : r \in Merged(from, f)} = keys
  BY <1>1, <1>2, <1>3
<1> QED
  BY <1>1, <1>3, <1>4 DEF from

\* Building key records keeps the tags.
LEMMA TagsFromCDS ==
  ASSUME NEW records
  PROVE  TagsOf(FromCDS(records)) = {c.tag : c \in records}
<1>1. ASSUME NEW r \in FromCDS(records)
      PROVE  r.tag \in {c.tag : c \in records}
  BY DEF FromCDS
<1>2. ASSUME NEW c \in records
      PROVE  \E r \in FromCDS(records) : r.tag = c.tag
  <2> DEFINE r == [tag |-> c.tag, algorithm |-> c.algorithm,
                   digestType |-> c.digestType, digest |-> c.digest, key |-> None]
  <2>1. r \in FromCDS(records) /\ r.tag = c.tag
    BY DEF FromCDS
  <2> QED
    BY <2>1
<1> QED
  BY <1>1, <1>2 DEF TagsOf

LEMMA TagsFromCDNSKEY ==
  ASSUME NEW keys
  PROVE  TagsOf(FromCDNSKEY(keys)) = {KeyTag[k] : k \in keys}
<1>1. ASSUME NEW r \in FromCDNSKEY(keys)
      PROVE  r.tag \in {KeyTag[k] : k \in keys}
  BY DEF FromCDNSKEY
<1>2. ASSUME NEW k \in keys
      PROVE  \E r \in FromCDNSKEY(keys) : r.tag = KeyTag[k]
  <2> DEFINE r == [tag |-> KeyTag[k], algorithm |-> Algorithm[k], digestType |-> SHA256,
                   digest |-> LocalDigest[k], key |-> k]
  <2>1. r \in FromCDNSKEY(keys) /\ r.tag = KeyTag[k]
    BY DEF FromCDNSKEY
  <2> QED
    BY <2>1
<1> QED
  BY <1>1, <1>2 DEF TagsOf

\* If the CDNSKEY records of keys merge with the CDS records of the key set
\* signed, and tags are distinct, the two key sets are equal: mergeKeyRecords
\* compares the lengths and looks up every tag (dns.go:181-204).
LEMMA MergeableSameKeys ==
  ASSUME DistinctTags,
         NEW keys \in SUBSET Dnskeys, NEW signed \in SUBSET Dnskeys,
         NEW records \in SUBSET DSRecord,
         IsFiniteSet(keys), IsFiniteSet(signed), IsFiniteSet(records),
         {c.tag : c \in records} = {KeyTag[k] : k \in signed},
         Mergeable(FromCDNSKEY(keys), FromCDS(records))
  PROVE  keys = signed
<1> DEFINE from == FromCDNSKEY(keys)
           cdsFrom == FromCDS(records)
<1>1. TagsOf(cdsFrom) = {KeyTag[k] : k \in signed}
  BY TagsFromCDS
<1>2. TagsOf(from) = {KeyTag[k] : k \in keys}
  BY TagsFromCDNSKEY
<1>3. keys \subseteq signed
  <2> SUFFICES ASSUME NEW k \in keys
               PROVE  k \in signed
    OBVIOUS
  <2>1. KeyTag[k] \in TagsOf(cdsFrom)
    BY <1>2 DEF Mergeable
  <2> QED
    BY <2>1, <1>1 DEF DistinctTags
<1>4. Cardinality(from) <= Cardinality(keys) /\ IsFiniteSet(from)
  <2> DEFINE f == [k \in keys |-> [tag |-> KeyTag[k], algorithm |-> Algorithm[k],
                                   digestType |-> SHA256, digest |-> LocalDigest[k],
                                   key |-> k]]
  <2>1. f \in Surjection(keys, from)
    BY DEF Surjection, FromCDNSKEY
  <2> QED
    BY <2>1, FS_Surjection
<1>5. Cardinality(signed) <= Cardinality(cdsFrom)
  <2>1. IsFiniteSet(cdsFrom)
    <3> DEFINE f == [c \in records |->
                       [tag |-> c.tag, algorithm |-> c.algorithm,
                        digestType |-> c.digestType, digest |-> c.digest, key |-> None]]
    <3>1. f \in Surjection(records, cdsFrom)
      BY DEF Surjection, FromCDS
    <3> QED
      BY <3>1, FS_Surjection
  <2> DEFINE g == [r \in cdsFrom |-> CHOOSE k \in signed : KeyTag[k] = r.tag]
  <2>2. ASSUME NEW r \in cdsFrom
        PROVE  g[r] \in signed /\ KeyTag[g[r]] = r.tag
    <3>1. r.tag \in TagsOf(cdsFrom)
      BY DEF TagsOf
    <3>2. \E k \in signed : KeyTag[k] = r.tag
      BY <3>1, <1>1
    <3> QED
      BY <3>2
  <2> HIDE DEF cdsFrom
  <2>3. ASSUME NEW k \in signed
        PROVE  \E r \in cdsFrom : g[r] = k
    <3>1. PICK r \in cdsFrom : r.tag = KeyTag[k]
      BY <1>1 DEF TagsOf
    <3>2. g[r] \in signed /\ KeyTag[g[r]] = KeyTag[k]
      BY <2>2, <3>1
    <3> QED
      BY <3>2 DEF DistinctTags
  <2>4. g \in [cdsFrom -> signed]
    BY <2>2
  <2> HIDE DEF g
  <2>5. g \in Surjection(cdsFrom, signed)
    BY <2>3, <2>4 DEF Surjection
  <2> QED
    BY <2>1, <2>5, FS_Surjection
<1>6. Cardinality(from) = Cardinality(cdsFrom)
  BY DEF Mergeable
<1> HIDE DEF from, cdsFrom
<1>7. Cardinality(keys) = Cardinality(signed)
  <2>1. Cardinality(signed) <= Cardinality(keys)
    BY <1>4, <1>5, <1>6, FS_CardinalityType
  <2>2. Cardinality(keys) <= Cardinality(signed)
    BY <1>3, FS_Subset
  <2> QED
    BY <2>1, <2>2, FS_CardinalityType
<1> QED
  BY <1>3, <1>7, FS_Subset

-----------------------------------------------------------------------------
\* A query that has been answered holds its answer, or Failed.
HasCDNSKEY == pc \in {"CDS", "fetched", "DS", "compare"} \/ outcome = "request"
HasCDS == pc \in {"fetched", "DS", "compare"} \/ outcome = "request"
HasDS == pc = "compare" \/ outcome = "request"
HasDesired == pc \in {"DS", "compare"} \/ outcome = "request"

AnswersValidated ==
  /\ HasCDNSKEY => cdnskeys \in {p.cdnskey : p \in past} \cup {Failed}
  /\ HasCDS => cds \in {p.cds : p \in past} \cup {Failed}
  /\ HasDS => ds \in DSSets \cup {Failed}

\* The desired records are a merge of the answers that passed every test.
DesiredIsMerged ==
  HasDesired => /\ Fetched
                /\ desired \in MergedRecords
                /\ ~Removal(desired)
                /\ Usable(desired)

RequestIsDelta ==
  outcome = "request" => /\ ds # Failed
                         /\ toAdd = ToAdd(ds, desired)
                         /\ toRemove = ToRemove(ds, desired)
                         /\ toAdd # {} \/ toRemove # {}

CheckInv ==
  /\ TypeOK
  /\ pc # "idle" => outcome = "none"
  /\ AnswersValidated
  /\ DesiredIsMerged
  /\ RequestIsDelta

LEMMA InitCheckInv == Init => CheckInv
BY PublicationsAssumption, ServersAssumption
   DEF Init, CheckInv, TypeOK, AnswersValidated, DesiredIsMerged, RequestIsDelta,
       HasCDNSKEY, HasCDS, HasDS, HasDesired, Queries, Outcomes

\* A merge of the answers is a set of key records.
LEMMA MergedType ==
  ASSUME TypeOK, Fetched, NEW records \in MergedRecords
  PROVE  records \subseteq KeyRecord
<1>1. cdnskeys \in SUBSET Dnskeys /\ cds \in SUBSET DSRecord
  BY DEF TypeOK, Fetched
<1>2. PICK f \in CDSIndexes(FromCDS(cds)) : records = Merged(FromCDNSKEY(cdnskeys), f)
  BY DEF MergedRecords
<1> QED
  BY <1>1, <1>2, MergedFacts DEF Fetched, Mergeable

LEMMA DeltaType ==
  ASSUME NEW current \in SUBSET DSRecord, NEW wanted \in SUBSET KeyRecord
  PROVE  /\ ToAdd(current, wanted) \subseteq KeyRecord
         /\ ToRemove(current, wanted) \subseteq DSRecord
<1>1. ASSUME NEW r \in DSRecord
      PROVE  Norm(r) \in DSRecord
  BY UpperAssumption DEF Norm, DSRecord
<1> QED
  BY <1>1 DEF ToAdd, ToRemove, NormSet

LEMMA CheckStep == CheckInv /\ [Next]_vars => CheckInv'
<1> SUFFICES ASSUME CheckInv, [Next]_vars
             PROVE  CheckInv'
  OBVIOUS
<1> USE PublicationsAssumption, DSSetsAssumption, ServersAssumption
<1> USE DEF CheckInv, TypeOK, AnswersValidated, DesiredIsMerged, RequestIsDelta,
            HasCDNSKEY, HasCDS, HasDS, HasDesired, Queries, Outcomes
<1>1. ASSUME NEW p \in Publications, Publish(p)
      PROVE  CheckInv'
  <2>1. /\ UNCHANGED <<pc, server, cdnskeys, cds, ds, desired, outcome, toAdd, toRemove>>
        /\ past' = past \cup {p}
    BY <1>1 DEF Publish, answers, result
  <2>2. Fetched' = Fetched /\ MergedRecords' = MergedRecords
    BY <2>1 DEF Fetched, MergedRecords
  <2> QED
    BY <2>1, <2>2
<1>2. CASE StartCheck
  BY <1>2 DEF StartCheck
<1>3. ASSUME NEW query \in Queries, NEW answer, Answered(query, answer), pc = query,
             answer \in Authentic(query) \cup {Failed},
             UNCHANGED <<past, result>>
      PROVE  CheckInv'
  <2>1. UNCHANGED <<past, desired, outcome, toAdd, toRemove>>
    BY <1>3 DEF result
  <2>2. CASE query = "CDNSKEY"
    BY <1>3, <2>1, <2>2 DEF Answered, Authentic
  <2>3. CASE query = "CDS"
    BY <1>3, <2>1, <2>3 DEF Answered, Authentic
  <2>4. CASE query = "DS"
    <3>1. /\ ds' = answer /\ pc' = "compare" /\ server' = 1
          /\ UNCHANGED <<cdnskeys, cds>>
      BY <1>3, <2>4 DEF Answered
    <3>2. Fetched' = Fetched /\ MergedRecords' = MergedRecords
      BY <3>1 DEF Fetched, MergedRecords
    <3> QED
      BY <1>3, <2>1, <2>4, <3>1, <3>2 DEF Authentic
  <2> QED
    BY <2>2, <2>3, <2>4
<1>4. ASSUME NEW query \in Queries, server <= NumServers, server' = server + 1,
             UNCHANGED <<past, pc, answers, result>>
      PROVE  CheckInv'
  <2>1. UNCHANGED <<past, pc, cdnskeys, cds, ds, desired, outcome, toAdd, toRemove>>
    BY <1>4 DEF answers, result
  <2>2. Fetched' = Fetched /\ MergedRecords' = MergedRecords
    BY <2>1 DEF Fetched, MergedRecords
  <2> QED
    BY <1>4, <2>1, <2>2
<1>5. ASSUME NEW query \in Queries, Receive(query)
      PROVE  CheckInv'
  <2>1. PICK response \in Response(query) :
          IF Accept(response)
            THEN Answered(query, response.rrs)
            ELSE server' = server + 1 /\ UNCHANGED <<pc, answers>>
    BY <1>5 DEF Receive
  <2>2. pc = query /\ server <= NumServers /\ UNCHANGED <<past, result>>
    BY <1>5 DEF Receive
  <2>3. CASE Accept(response)
    <3>1. response.rrs \in Authentic(query)
      BY <2>3 DEF Accept, Response
    <3> QED
      BY <1>3, <2>1, <2>2, <2>3, <3>1
  <2>4. CASE ~Accept(response)
    BY <1>4, <2>1, <2>2, <2>4
  <2> QED
    BY <2>3, <2>4
<1>6. ASSUME NEW query \in Queries, ServerFails(query)
      PROVE  CheckInv'
  BY <1>4, <1>6 DEF ServerFails
<1>7. ASSUME NEW query \in Queries, AllServersFailed(query)
      PROVE  CheckInv'
  BY <1>3, <1>7 DEF AllServersFailed
<1>8. CASE FetchFails \/ Sentinel \/ NothingUsable
  BY <1>8 DEF FetchFails, Sentinel, NothingUsable, Return, answers
<1>9. CASE Desire
  <2>1. PICK records \in MergedRecords :
          ~Removal(records) /\ Usable(records) /\ desired' = records
    BY <1>9 DEF Desire
  <2>2. /\ pc = "fetched" /\ pc' = "DS" /\ server' = 1 /\ Fetched
        /\ UNCHANGED <<past, cdnskeys, cds, ds, outcome, toAdd, toRemove>>
    BY <1>9 DEF Desire, answers
  <2>3. Fetched' = Fetched /\ MergedRecords' = MergedRecords
    BY <2>2 DEF Fetched, MergedRecords
  <2>4. records \subseteq KeyRecord
    BY <2>2, MergedType
  <2>5. (~Removal(desired) /\ Usable(desired))'
    BY <2>1 DEF Removal, Usable
  <2> QED
    BY <2>1, <2>2, <2>3, <2>4, <2>5
<1>10. CASE QueryDSFails \/ Aligned
  BY <1>10 DEF QueryDSFails, Aligned, Return, answers
<1>11. CASE Misaligned
  <2>1. /\ pc = "compare" /\ pc' = "idle" /\ outcome' = "request" /\ ds # Failed
        /\ toAdd' = ToAdd(ds, desired) /\ toRemove' = ToRemove(ds, desired)
        /\ toAdd' # {} \/ toRemove' # {}
        /\ UNCHANGED <<past, server, cdnskeys, cds, ds, desired>>
    BY <1>11 DEF Misaligned, Return, answers
  <2>2. Fetched' = Fetched /\ MergedRecords' = MergedRecords
    BY <2>1 DEF Fetched, MergedRecords
  <2>3. toAdd' \subseteq KeyRecord /\ toRemove' \subseteq DSRecord
    BY <2>1, DeltaType
  <2>4. (~Removal(desired) /\ Usable(desired))'
    BY <2>1 DEF Removal, Usable
  <2>5. RequestIsDelta'
    BY <2>1 DEF ToAdd, ToRemove
  <2> QED
    BY <2>1, <2>2, <2>3, <2>4, <2>5
<1>12. CASE UNCHANGED vars
  <2>1. UNCHANGED <<past, pc, server, cdnskeys, cds, ds, desired, outcome, toAdd, toRemove>>
    BY <1>12 DEF vars, answers, result
  <2>2. Fetched' = Fetched /\ MergedRecords' = MergedRecords
    BY <2>1 DEF Fetched, MergedRecords
  <2> QED
    BY <2>1, <2>2
<1> QED
  BY <1>1, <1>2, <1>5, <1>6, <1>7, <1>8, <1>9, <1>10, <1>11, <1>12 DEF Next

\* CheckInv holds in every reachable state, whatever the constants.
THEOREM CheckInductive == Spec => []CheckInv
BY InitCheckInv, CheckStep, PTL DEF Spec

\* The state of a check keeps its types.
THEOREM CheckTypes == Spec => []TypeOK
<1>1. CheckInv => TypeOK
  BY DEF CheckInv
<1> QED
  BY <1>1, CheckInductive, PTL

\* CompareDS's request, applied to the DS set the check saw, yields the desired
\* set and is minimal (compare.go:48-71).
THEOREM Convergence == Spec => []RequestConverges
<1>1. CheckInv => RequestConverges
  <2> SUFFICES ASSUME CheckInv, outcome = "request"
               PROVE  /\ Applied(ds, toAdd, toRemove) = NormSet(desired)
                      /\ NormSet(toAdd) \cap NormSet(ds) = {}
                      /\ toRemove \subseteq NormSet(ds) \ NormSet(desired)
                      /\ toAdd # {} \/ toRemove # {}
    BY DEF RequestConverges
  <2>1. /\ toAdd = ToAdd(ds, desired)
        /\ toRemove = ToRemove(ds, desired)
        /\ toAdd # {} \/ toRemove # {}
    BY DEF CheckInv, RequestIsDelta
  <2> QED
    BY <2>1, CompareConverges
<1> QED
  BY <1>1, CheckInductive, PTL

\* No request leaves the DS set it saw empty or installs a removal sentinel
\* (zone.go:150-158, dns.go:123-128).
THEOREM KeepsZoneSigned == Spec => []NeverUnsigns
<1>1. CheckInv => NeverUnsigns
  <2> SUFFICES ASSUME CheckInv, outcome = "request"
               PROVE  /\ Applied(ds, toAdd, toRemove) # {}
                      /\ \A r \in toAdd : r.algorithm # 0
    BY DEF NeverUnsigns
  <2>1. /\ toAdd = ToAdd(ds, desired) /\ toRemove = ToRemove(ds, desired)
        /\ desired # {} /\ \A r \in desired : r.algorithm # 0
    BY DEF CheckInv, RequestIsDelta, DesiredIsMerged, HasDesired, Usable, Removal
  <2>2. Applied(ds, toAdd, toRemove) = NormSet(desired)
    BY <2>1, CompareConverges
  <2>3. NormSet(desired) # {}
    BY <2>1 DEF NormSet
  <2> QED
    BY <2>1, <2>2, <2>3 DEF ToAdd
<1> QED
  BY <1>1, CheckInductive, PTL

\* A request is made from validated answers only (dns.go:61-64).
THEOREM ValidatedOnly == Spec => []OnlyValidated
<1>1. CheckInv => OnlyValidated
  BY DEF CheckInv, OnlyValidated, AnswersValidated, DesiredIsMerged, RequestIsDelta,
         Fetched, HasCDNSKEY, HasCDS, HasDS, HasDesired
<1> QED
  BY <1>1, CheckInductive, PTL

\* CDNSKEY and CDS answers of different times are never mixed into one request
\* (dns.go:104-130, 180-210).
THEOREM TornReadDetected == Spec => []NoTornRead
<1>1. CheckInv => NoTornRead
  <2> SUFFICES ASSUME CheckInv, DistinctTags, \A p \in Publications : Coherent(p),
                      outcome = "request"
               PROVE  \E p \in past :
                        /\ {r.key : r \in desired} = p.cdnskey
                        /\ \A r \in desired : \E c \in p.cds :
                             /\ c.tag = r.tag
                             /\ c.digestType = r.digestType
                             /\ c.digest = r.digest
    BY DEF NoTornRead
  <2>1. Fetched /\ desired \in MergedRecords
    BY DEF CheckInv, DesiredIsMerged, HasDesired
  <2>2. PICK q \in past : cdnskeys = q.cdnskey
    BY <2>1 DEF CheckInv, AnswersValidated, HasCDNSKEY, Fetched
  <2>3. PICK p \in past : cds = p.cds
    BY <2>1 DEF CheckInv, AnswersValidated, HasCDS, Fetched
  <2>4. /\ p \in Publications /\ q \in Publications
        /\ cdnskeys \in SUBSET Dnskeys /\ cds \in SUBSET DSRecord
        /\ p.cdnskey \in SUBSET Dnskeys
    BY <2>1, <2>2, <2>3, PublicationsAssumption DEF CheckInv, TypeOK, Fetched
  <2>5. IsFiniteSet(cdnskeys) /\ IsFiniteSet(cds) /\ IsFiniteSet(p.cdnskey)
    BY <2>2, <2>3, <2>4, FiniteAssumption
  <2>6. {c.tag : c \in cds} = {KeyTag[k] : k \in p.cdnskey}
    BY <2>3, <2>4 DEF Coherent
  <2>7. Mergeable(FromCDNSKEY(cdnskeys), FromCDS(cds))
    BY <2>1 DEF Fetched
  <2>8. cdnskeys = p.cdnskey
    BY <2>4, <2>5, <2>6, <2>7, MergeableSameKeys
  <2>9. PICK f \in CDSIndexes(FromCDS(cds)) : desired = Merged(FromCDNSKEY(cdnskeys), f)
    BY <2>1 DEF MergedRecords
  <2>10. /\ {r.key : r \in desired} = cdnskeys
         /\ \A r \in desired : \E c \in cds : /\ c.tag = r.tag
                                              /\ c.digestType = r.digestType
                                              /\ c.digest = r.digest
    BY <2>4, <2>7, <2>9, MergedFacts DEF Mergeable
  <2> QED
    BY <2>3, <2>8, <2>10
<1> QED
  BY <1>1, CheckInductive, PTL
=============================================================================
