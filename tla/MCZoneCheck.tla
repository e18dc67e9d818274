---------------------------- MODULE MCZoneCheck ----------------------------
(***************************************************************************)
(* Two signing keys and two removal sentinels: the one of RFC 8078         *)
(* (CDNSKEY 0 3 0 AA==, whose key tag is 768, with CDS 0 0 0 00), and one   *)
(* with protocol 0, whose key tag is 0 like its CDS's.                     *)
(***************************************************************************)
EXTENDS ZoneCheck

Keys == {"k1", "k2"}
Sentinels == {"rfc8078", "protocol0"}

MCDnskeys == Keys \cup Sentinels
MCTags == {0, 1, 2, 768}
MCAlgorithms == {0, 13}
MCDigestTypes == {0, 2, 4}
MCDigests == MCDnskeys \X MCDigestTypes \X {"upper", "lower"}
MCAlgorithm == [k \in MCDnskeys |-> IF k \in Keys THEN 13 ELSE 0]
MCKeyTag ==
  [k \in MCDnskeys |-> CASE k = "k1" -> 1 [] k = "k2" -> 2
                         [] k = "rfc8078" -> 768 [] k = "protocol0" -> 0]
MCLocalDigest == [k \in MCDnskeys |-> <<k, 2, "lower">>]
MCUpper == [d \in MCDigests |-> <<d[1], d[2], "upper">>]

\* The DS or CDS record of a key, in lower or upper case.
Rec(k, digestType, case) ==
  [tag |-> MCKeyTag[k], algorithm |-> MCAlgorithm[k], digestType |-> digestType,
   digest |-> <<k, digestType, case>>]
SentinelCDS == [tag |-> 0, algorithm |-> 0, digestType |-> 0,
                digest |-> <<"protocol0", 0, "lower">>]

Pub(keys, records) == [cdnskey |-> keys, cds |-> records]
Sha256(keys) == {Rec(k, 2, "lower") : k \in keys}
Sha384(keys) == {Rec(k, 4, "lower") : k \in keys}

\* A rollover from k1 to k2 through both, another digest type, two digest
\* types at once, nothing, and a sentinel.
MCPublications ==
  { Pub({"k1"}, Sha256({"k1"})), Pub({"k1", "k2"}, Sha256({"k1", "k2"})),
    Pub({"k2"}, Sha256({"k2"})), Pub({"k1"}, Sha384({"k1"})),
    Pub({"k1"}, Sha256({"k1"}) \cup Sha384({"k1"})), Pub({}, {}),
    Pub({"protocol0"}, {SentinelCDS}) }

\* The same, with zones that publish one RRset only and the sentinel of RFC 8078.
OneSided ==
  { Pub({"k1"}, Sha256({"k1"})), Pub({"k1"}, {}), Pub({}, Sha256({"k1"})),
    Pub({"rfc8078"}, {SentinelCDS}) }

MCDSSets ==
  { {}, Sha256({"k1"}), {Rec("k1", 2, "upper")}, Sha256({"k1", "k2"}),
    Sha256({"k1"}) \cup Sha384({"k1"}) }

MCForged ==
  [q \in Queries |-> CASE q = "CDNSKEY" -> {{"k2"}}
                       [] q = "CDS" -> {Sha384({"k2"})}
                       [] q = "DS" -> {Sha384({"k2"})}]
=============================================================================
