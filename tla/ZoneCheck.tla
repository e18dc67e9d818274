----------------------------- MODULE ZoneCheck -----------------------------
(***************************************************************************)
(* One alignment check of a zone: prepareUpdateRequest (core/zone.go) with *)
(* the queries it makes through the DNS client (core/dns.go).              *)
(*                                                                         *)
(* The zone publishes CDNSKEY and CDS RRsets that change over time, the    *)
(* two are queried one after the other, and resolvers answer from caches   *)
(* of any age, so the answers need not be of one time.  A response without *)
(* the AD flag may say anything.                                           *)
(***************************************************************************)
EXTENDS KeyRecords, Naturals

CONSTANTS
  Publications,    \* what the zone may publish: [cdnskey, cds]
  DSSets,          \* the DS RRsets the parent may publish
  Forged,          \* what a response that is not validated may hold
  Failed,          \* in place of the answer of a query that failed
  NumServers,      \* the number of resolvers in /etc/resolv.conf
  RequiresCDNSKEY  \* the plugin's capability

ASSUME PublicationsAssumption ==
  Publications \subseteq [cdnskey : SUBSET Dnskeys, cds : SUBSET DSRecord]
ASSUME DSSetsAssumption == DSSets \subseteq SUBSET DSRecord
ASSUME FiniteAssumption ==
  \A p \in Publications : IsFiniteSet(p.cdnskey) /\ IsFiniteSet(p.cds)
ASSUME ServersAssumption == NumServers \in Nat \ {0} /\ RequiresCDNSKEY \in BOOLEAN

VARIABLES
  past,      \* what the zone has published so far
  pc,
  server,    \* the index of the resolver queried next
  cdnskeys, cds, ds,   \* the answers
  desired,   \* FetchZoneKeys's key records
  outcome,   \* what prepareUpdateRequest returned
  toAdd, toRemove

answers == <<cdnskeys, cds, ds>>
result == <<desired, outcome, toAdd, toRemove>>
vars == <<past, pc, server, answers, result>>

Queries == {"CDNSKEY", "CDS", "DS"}
\* "skip": a nil request without an error.
Outcomes == {"none", "error", "skip", "removal", "request"}

Init ==
  /\ past \in {{p} : p \in Publications}
  /\ pc = "idle"
  /\ server = 1
  /\ cdnskeys = {} /\ cds = {} /\ ds = {}
  /\ desired = {} /\ outcome = "none" /\ toAdd = {} /\ toRemove = {}

\* The zone's signer replaces the CDNSKEY and CDS RRsets.
Publish(p) ==
  /\ past' = past \cup {p}
  /\ past' # past
  /\ UNCHANGED <<pc, server, answers, result>>

\* A step of the runner begins, with no operation in progress.
StartCheck ==
  /\ pc = "idle"
  /\ pc' = "CDNSKEY"
  /\ server' = 1
  /\ cdnskeys' = {} /\ cds' = {} /\ ds' = {}
  /\ desired' = {} /\ outcome' = "none" /\ toAdd' = {} /\ toRemove' = {}
  /\ UNCHANGED past

-----------------------------------------------------------------------------
(* queryInternal: the resolvers in turn, until one gives an answer that is *)
(* successful and authenticated.                                           *)

Authentic(query) ==
  CASE query = "CDNSKEY" -> {p.cdnskey : p \in past}
    [] query = "CDS" -> {p.cds : p \in past}
    [] query = "DS" -> DSSets

Response(query) ==
  [ad : {TRUE}, rrs : Authentic(query)] \cup [ad : {FALSE}, rrs : Forged[query]]

\* Mutant of Accept: the AD flag is not looked at.
AcceptAny(response) == response \in [ad : BOOLEAN, rrs : {response.rrs}]

Accept(response) == response.ad

\* What follows the query, successful or not: FetchZoneKeys looks at its two
\* errors only when it has made both queries.
Answered(query, answer) ==
  /\ server' = 1
  /\ CASE query = "CDNSKEY" -> cdnskeys' = answer /\ pc' = "CDS" /\ UNCHANGED <<cds, ds>>
       [] query = "CDS" -> cds' = answer /\ pc' = "fetched" /\ UNCHANGED <<cdnskeys, ds>>
       [] query = "DS" -> ds' = answer /\ pc' = "compare" /\ UNCHANGED <<cdnskeys, cds>>

Receive(query) ==
  /\ pc = query
  /\ server <= NumServers
  /\ \E response \in Response(query) :
       IF Accept(response)
         THEN Answered(query, response.rrs)
         ELSE server' = server + 1 /\ UNCHANGED <<pc, answers>>
  /\ UNCHANGED <<past, result>>

\* Mutant of ServerFails: the list of resolvers has no end.
ServerFailsEndlessly(query) ==
  /\ pc = query
  /\ server' = server + 1
  /\ UNCHANGED <<past, pc, answers, result>>

\* No response, or one with an error code.
ServerFails(query) ==
  /\ pc = query
  /\ server <= NumServers
  /\ server' = server + 1
  /\ UNCHANGED <<past, pc, answers, result>>

AllServersFailed(query) ==
  /\ pc = query
  /\ server > NumServers
  /\ Answered(query, Failed)
  /\ UNCHANGED <<past, result>>

-----------------------------------------------------------------------------
(* The rest of FetchZoneKeys and prepareUpdateRequest.                     *)

Fetched ==
  /\ cdnskeys # Failed
  /\ cds # Failed
  /\ Mergeable(FromCDNSKEY(cdnskeys), FromCDS(cds))

MergedRecords == {Merged(FromCDNSKEY(cdnskeys), f) : f \in CDSIndexes(FromCDS(cds))}

Removal(records) == \E r \in records : r.algorithm = 0

\* Mutant of Usable: an empty set of records is as good as any.
UsableOrEmpty(records) == RequiresCDNSKEY => \A r \in records : r.key # None

Usable(records) ==
  /\ records # {}
  /\ RequiresCDNSKEY => \A r \in records : r.key # None

Return(o) ==
  /\ pc' = "idle"
  /\ outcome' = o

FetchFails ==
  /\ pc = "fetched"
  /\ ~Fetched
  /\ Return("error")
  /\ UNCHANGED <<past, server, answers, desired, toAdd, toRemove>>

Sentinel ==
  /\ pc = "fetched"
  /\ Fetched
  /\ \E records \in MergedRecords : Removal(records)
  /\ Return("removal")
  /\ UNCHANGED <<past, server, answers, desired, toAdd, toRemove>>

NothingUsable ==
  /\ pc = "fetched"
  /\ Fetched
  /\ \E records \in MergedRecords : ~Removal(records) /\ ~Usable(records)
  /\ Return("skip")
  /\ UNCHANGED <<past, server, answers, desired, toAdd, toRemove>>

Desire ==
  /\ pc = "fetched"
  /\ Fetched
  /\ \E records \in MergedRecords :
       /\ ~Removal(records)
       /\ Usable(records)
       /\ desired' = records
  /\ pc' = "DS"
  /\ server' = 1
  /\ UNCHANGED <<past, answers, outcome, toAdd, toRemove>>

QueryDSFails ==
  /\ pc = "compare"
  /\ ds = Failed
  /\ Return("error")
  /\ UNCHANGED <<past, server, answers, desired, toAdd, toRemove>>

Aligned ==
  /\ pc = "compare"
  /\ ds # Failed
  /\ ToAdd(ds, desired) = {} /\ ToRemove(ds, desired) = {}
  /\ Return("skip")
  /\ UNCHANGED <<past, server, answers, desired, toAdd, toRemove>>

Misaligned ==
  /\ pc = "compare"
  /\ ds # Failed
  /\ ToAdd(ds, desired) # {} \/ ToRemove(ds, desired) # {}
  /\ toAdd' = ToAdd(ds, desired)
  /\ toRemove' = ToRemove(ds, desired)
  /\ Return("request")
  /\ UNCHANGED <<past, server, answers, desired>>

Next ==
  \/ \E p \in Publications : Publish(p)
  \/ StartCheck
  \/ \E query \in Queries : Receive(query)
  \/ \E query \in Queries : ServerFails(query)
  \/ \E query \in Queries : AllServersFailed(query)
  \/ FetchFails
  \/ Sentinel
  \/ NothingUsable
  \/ Desire
  \/ QueryDSFails
  \/ Aligned
  \/ Misaligned

Spec == Init /\ [][Next]_vars

-----------------------------------------------------------------------------
(* Properties.                                                             *)

TypeOK ==
  /\ past \subseteq Publications
  /\ pc \in Queries \cup {"idle", "fetched", "compare"}
  /\ server \in 1..(NumServers + 1)
  /\ cdnskeys \in (SUBSET Dnskeys) \cup {Failed}
  /\ cds \in (SUBSET DSRecord) \cup {Failed}
  /\ ds \in (SUBSET DSRecord) \cup {Failed}
  /\ desired \subseteq KeyRecord
  /\ outcome \in Outcomes
  /\ toAdd \subseteq KeyRecord
  /\ toRemove \subseteq DSRecord

\* Applied to the DS set the check saw, a request makes it the desired set, adds
\* nothing that is there, removes nothing that is desired, and is never a
\* no-op (compare.go:48-71).
RequestConverges ==
  outcome = "request" =>
    /\ Applied(ds, toAdd, toRemove) = NormSet(desired)
    /\ NormSet(toAdd) \cap NormSet(ds) = {}
    /\ toRemove \subseteq NormSet(ds) \ NormSet(desired)
    /\ toAdd # {} \/ toRemove # {}

\* A request never asks for an empty DS set, nor for keys of algorithm 0:
\* no answer, stale, empty or a removal sentinel, makes the daemon unsign a
\* zone (zone.go:150-158).
NeverUnsigns ==
  outcome = "request" =>
    /\ Applied(ds, toAdd, toRemove) # {}
    /\ \A r \in toAdd : r.algorithm # 0

\* Two key tags are never confused, and each CDS is of a key.
DistinctTags ==
  \A k, l \in Dnskeys : KeyTag[k] = KeyTag[l] => k = l

\* What a request wants is what the zone published at one time, although the
\* CDNSKEY and CDS answers may be of two: a torn read is an error, not a mix.
\* For zones that publish a CDS of each key and only of those, and whose keys
\* have distinct tags (dns.go:104-130, 180-210).
Coherent(p) == {c.tag : c \in p.cds} = {KeyTag[k] : k \in p.cdnskey}
NoTornRead ==
  (DistinctTags /\ (\A p \in Publications : Coherent(p)) /\ outcome = "request") =>
    \E p \in past :
      /\ {r.key : r \in desired} = p.cdnskey
      /\ \A r \in desired : \E c \in p.cds :
           /\ c.tag = r.tag
           /\ c.digestType = r.digestType
           /\ c.digest = r.digest

\* Nothing of a response that was not validated reaches a request
\* (dns.go:61-64).
OnlyValidated ==
  outcome = "request" =>
    /\ cdnskeys \in {p.cdnskey : p \in past}
    /\ cds \in {p.cds : p \in past}
    /\ ds \in DSSets

\* dns.go:179: "If only one slice is non-empty, it is returned as-is."
OneSideIsEnough ==
  (pc = "idle" /\ outcome = "error" /\ cdnskeys # Failed /\ cds # Failed /\ ds # Failed) =>
    ~(cdnskeys = {} /\ cds # {}) /\ ~(cdnskeys # {} /\ cds = {})

\* README.dnssec-publish-ds.md: "Sentinel removal request (algorithm `0`) is
\* logged and skipped."
SentinelIsSkipped ==
  ( /\ pc = "idle" /\ outcome # "none" /\ cdnskeys # Failed /\ cds # Failed
    /\ cdnskeys # {} /\ \A k \in cdnskeys : Algorithm[k] = 0
    /\ cds # {} /\ \A c \in cds : c.algorithm = 0 ) => outcome = "removal"
=============================================================================
