----------------------------- MODULE MCLifecycle -----------------------------
(***************************************************************************)
(* A main file and three entries of conf.d, one of them not *.toml, with   *)
(* contents that extend, override, contradict or break each other.         *)
(***************************************************************************)
EXTENDS Lifecycle, TLC

CONSTANTS g1, g2, n1, n2, blank

MCGroups == {g1, g2}
MCNames == {n1, n2, blank}
MCConfD == 1..3
MCNotToml == {3}

Int64(n) == [type |-> "int64", val |-> n]
Float64(halves) == [type |-> "float64", val |-> halves]
Number(n) == [type |-> "number", val |-> n]
Name == [type |-> "name", val |-> 0]
Table == [type |-> "table", val |-> 0]

\* The environment overrides an option of g2, if some file has it, and hides the
\* tsig table of g1.
MCEnv == (<<g2, "port">> :> Number(20)) @@ (<<g1, "tsig">> :> Name)

\* g1 is a group of OVH with one slot and a half.
MainOVH ==
  (<<Top, "dns_timeout">> :> 5) @@ (<<OVH, "max_concurrency">> :> Float64(3)) @@
  (<<g1, "plugin">> :> OVH) @@ (<<g1, "zones">> :> <<n1>>) @@
  (<<g1, "credentials">> :> Name)
\* ... with a limit no processor can hold.
MainHuge == (<<OVH, "max_concurrency">> :> Float64(90)) @@ MainOVH
\* ... with half a slot.
MainHalf == (<<OVH, "max_concurrency">> :> Float64(1)) @@ MainOVH
\* ... with a wait that is not text.
MainWait == (<<OVH, "wait">> :> Int64(3)) @@ MainOVH

\* g2 is a group of rfc2136.
Second ==
  (<<g2, "plugin">> :> RFC2136) @@ (<<g2, "zones">> :> <<n2>>) @@
  (<<g2, "server">> :> Name)
SecondBadPort == (<<g2, "port">> :> Int64(25)) @@ Second
SecondUnknown == (<<g2, "plugin">> :> "unknown") @@ Second
SecondKeyless ==
  (<<g2, "tsig">> :> Table) @@ (<<g2, "tsig.key_name">> :> Name) @@
  (<<g2, "ttl">> :> Float64(50)) @@ Second
SecondSigned == (<<g2, "tsig.secret">> :> Name) @@ SecondKeyless
SecondNoTable == (<<g2, "tsig">> :> Name) @@ Second
SecondTTL == (<<g2, "ttl">> :> Number(31)) @@ Second

\* g1 is moved to rfc2136, takes the zone of g2, or gets a bad setting.
Override ==
  (<<g1, "plugin">> :> RFC2136) @@ (<<g1, "server">> :> Name) @@
  (<<g1, "port">> :> Number(0)) @@ (<<g1, "tsig">> :> Table) @@
  (<<g1, "tsig.key_name">> :> Name)
OverridePort == (<<g1, "port">> :> Float64(13)) @@ Override
Overlap == <<g1, "zones">> :> <<n1, n2>>
Twice == <<g1, "zones">> :> <<n1, n1>>
EmptyName == <<g1, "zones">> :> <<n1, blank>>
BadInterval ==
  (<<g1, "check_interval">> :> -1) @@ (<<g1, "error_retry_interval">> :> -5)
NotAnInterval == <<g1, "check_interval">> :> Undecodable
OwnLimit == <<g1, "max_concurrency">> :> Int64(2)
\* The tsig of g2 is completed, an empty table, or no table.
SecretOnly == (<<g2, "tsig">> :> Table) @@ (<<g2, "tsig.secret">> :> Name)
EmptyTable == <<g2, "tsig">> :> Table
NoTable == <<g2, "tsig">> :> Name

MCContents ==
  [f \in 0..3 |->
     CASE f = 0 -> {MainOVH, MainHuge, MainHalf, MainWait}
       [] f = 1 -> {Absent, Unreadable, Second, SecondBadPort, SecondUnknown,
                    SecondSigned, SecondKeyless, SecondNoTable, SecondTTL}
       [] f = 2 -> {Absent, OverridePort, Override, Overlap, Twice, EmptyName,
                    BadInterval, NotAnInterval, OwnLimit, SecretOnly, EmptyTable,
                    NoTable}
       [] OTHER -> {Unreadable}]
=============================================================================
