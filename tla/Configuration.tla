---------------------------- MODULE Configuration ----------------------------
(***************************************************************************)
(* What config.Load (internal/config/config.go) makes of the settings it   *)
(* has merged, and how the plugins read their options (ParseIntOption and  *)
(* ParseDurationOption of internal/plugin/limiter.go).                     *)
(*                                                                         *)
(* A setting is a pair of a table and a field; the settings of a file are  *)
(* a function from those it has to their values.  A table is Top, a group  *)
(* (its plugin_config included) or a plugin.  The option tsig may be a     *)
(* table in turn: "tsig" then has a value of type "table", and what is in  *)
(* it are settings of their own, TSIGFields.  No other option is a table.  *)
(*                                                                         *)
(* viper, which keeps the settings, is not part of the repository: merging *)
(* is leaf by leaf, a table stays one, and a variable of the environment   *)
(* replaces a setting some source has.                                     *)
(***************************************************************************)
EXTENDS Integers, FiniteSets

CONSTANTS
  Groups,       \* group names
  Names,        \* the strings a zones list may contain
  Blank,        \* one of Names that is empty once trimmed
  Env,          \* the settings in the environment
  Undecodable,  \* a value that does not decode into its field
  MaxInt,       \* the greatest int
  MaxPort,      \* 65535
  MaxTTL        \* math.MaxUint32

Top == "top"
OVH == "ovh-v1"
RFC2136 == "rfc2136"

MinInt == -MaxInt - 1

ASSUME WidthAssumption ==
  MaxInt \in Nat /\ MaxPort \in 1..(MaxInt - 1) /\ MaxTTL \in MaxPort..(MaxInt - 1)

\* A group's table is of another name than the others: it is group.<name>, theirs
\* plugins.<name> and the top level (config.go:15-24).
ASSUME GroupsAssumption == {Top, OVH, RFC2136} \cap Groups = {}

\* Hours, minutes and seconds do not matter, only that these are positive.
DefaultTimeout == 5
DefaultCheck == 720
DefaultRetry == 5
DefaultPort == 1
DefaultConcurrency == 1
DefaultWait == 30

-----------------------------------------------------------------------------
(* Sources.                                                                *)

GroupFields == {"plugin", "check_interval", "error_retry_interval", "zones"}
TSIGFields == {"tsig.key_name", "tsig.secret", "tsig.algorithm"}
OptionFields == {"server", "port", "ttl", "tsig", "sig0", "timeout",
                 "credentials", "max_concurrency", "wait"} \cup TSIGFields

Settings == {<<Top, "dns_timeout">>} \cup ({OVH, RFC2136} \X OptionFields)
              \cup (Groups \X (GroupFields \cup OptionFields))

\* An integer of TOML fits an int; a zones list that decodes has strings.
IsOption(v) ==
  /\ v.type = "int64" => v.val \in MinInt..MaxInt
  /\ v.type = "float64" => v.val \in Int

HasTypes(f) ==
  /\ DOMAIN f \subseteq Settings
  /\ \A s \in DOMAIN f :
       /\ s[2] \in OptionFields => IsOption(f[s])
       /\ s[2] \in OptionFields \ {"tsig"} => f[s].type # "table"
       /\ s[2] = "zones" /\ f[s] # Undecodable => \A i \in DOMAIN f[s] : f[s][i] \in Names

IsTable(f, s) == s[2] = "tsig" /\ s \in DOMAIN f /\ f[s].type = "table"

\* What is in a table is there with it.
IsSettings(f) ==
  /\ HasTypes(f)
  /\ \A s \in DOMAIN f : s[2] \in TSIGFields => IsTable(f, <<s[1], "tsig">>)

\* The environment has strings.
ASSUME EnvAssumption == HasTypes(Env) /\ \A s \in DOMAIN Env : ~IsTable(Env, s)

\* Mutant of Merge: the setting read first stays.
MergeFirstWins(old, new) ==
  [s \in DOMAIN old \cup DOMAIN new |-> IF s \in DOMAIN old THEN old[s] ELSE new[s]]

\* A value does not replace a table: viper passes it over.
PassedOver(old, new, s) == IsTable(old, s) /\ ~IsTable(new, s)

Merge(old, new) ==
  [s \in DOMAIN old \cup DOMAIN new |->
     IF s \in DOMAIN new /\ ~PassedOver(old, new, s) THEN new[s] ELSE old[s]]

Defaults == [s \in {<<Top, "dns_timeout">>} |-> DefaultTimeout]

\* A variable with the name of a table hides what is in it.
Shadowed(s) ==
  s[2] \in TSIGFields /\ <<s[1], "tsig">> \in DOMAIN Env /\ s \notin DOMAIN Env

\* Unmarshal asks for the settings that some file or default has: a table with
\* nothing in it is none, and no variable replaces one.
Effective(settings) ==
  LET known == Merge(Defaults, settings)
      visible == {s \in DOMAIN known : ~Shadowed(s)}
      empty == {s \in visible : IsTable(known, s)
                                 /\ \A l \in TSIGFields : <<s[1], l>> \notin visible}
  IN [s \in visible \ empty |->
        IF s \in DOMAIN Env /\ ~IsTable(known, s) THEN Env[s] ELSE known[s]]

Get(settings, table, field, default) ==
  IF <<table, field>> \in DOMAIN settings THEN settings[<<table, field>>] ELSE default

-----------------------------------------------------------------------------
(* Unmarshal, the defaults of groups, validate.                            *)

TableOf(settings, table, fields) ==
  [f \in {f \in fields : <<table, f>> \in DOMAIN settings} |-> settings[<<table, f>>]]

IfZero(value, default) == IF value = 0 THEN default ELSE value

GroupConfig(settings, g) ==
  [plugin |-> Get(settings, g, "plugin", ""),
   check_interval |-> IfZero(Get(settings, g, "check_interval", 0), DefaultCheck),
   error_retry_interval |->
     IfZero(Get(settings, g, "error_retry_interval", 0), DefaultRetry),
   zones |-> Get(settings, g, "zones", <<>>),
   plugin_config |-> TableOf(settings, g, OptionFields)]

GroupsIn(settings) ==
  {g \in Groups : \E f \in GroupFields \cup OptionFields : <<g, f>> \in DOMAIN settings}

\* Options are decoded by the plugins, as late as they need them.
Decodable(settings) ==
  \A s \in DOMAIN settings : s[2] \in OptionFields \/ settings[s] # Undecodable

Resolve(settings) ==
  [dns_timeout |-> Get(settings, Top, "dns_timeout", 0),
   groups |-> [g \in GroupsIn(settings) |-> GroupConfig(settings, g)],
   plugins |-> [p \in {OVH, RFC2136} |-> TableOf(settings, p, OptionFields)]]

ValidGroup(g) ==
  /\ g.plugin # ""
  /\ g.check_interval > 0
  /\ g.zones # <<>>
  /\ DOMAIN g.plugin_config # {}
  /\ \A i \in DOMAIN g.zones : g.zones[i] # Blank

\* Mutant of ListedOnce: groups are not compared with each other.
ListedOncePerGroup(c) ==
  \A g \in DOMAIN c.groups : \A i, j \in DOMAIN c.groups[g].zones :
    c.groups[g].zones[i] = c.groups[g].zones[j] => i = j

ListedOnce(c) ==
  \A g, h \in DOMAIN c.groups :
    \A i \in DOMAIN c.groups[g].zones, j \in DOMAIN c.groups[h].zones :
      c.groups[g].zones[i] = c.groups[h].zones[j] => g = h /\ i = j

Valid(c) ==
  /\ c.dns_timeout > 0
  /\ DOMAIN c.groups # {}
  /\ \A g \in DOMAIN c.groups : ValidGroup(c.groups[g])
  /\ ListedOnce(c)

-----------------------------------------------------------------------------
(* Options.  Their values have the types of TOML, or are strings from the  *)
(* environment: a number as text, or a name, which is no number.  The      *)
(* value of a float64 counts halves.  Each operator gives the set of       *)
(* possible results, empty for an error.                                   *)

Truncated(halves) == IF halves >= 0 THEN halves \div 2 ELSE -((-halves) \div 2)

\* A float64 outside the range of int becomes what the processor makes of it.
ParseIntOption(table, key, default) ==
  IF key \notin DOMAIN table THEN {default}
  ELSE LET v == table[key] IN
    CASE v.type = "int64" -> {v.val}
      [] v.type = "float64" -> IF Truncated(v.val) \in MinInt..MaxInt
                                 THEN {Truncated(v.val)} ELSE {MinInt, MaxInt}
      [] v.type = "number" -> {v.val} \cap MinInt..MaxInt
      [] OTHER -> {}

ParseDurationOption(table, key, default) ==
  IF key \notin DOMAIN table THEN {default}
  ELSE IF table[key].type = "number" THEN {table[key].val} ELSE {}

Named(table, key) == key \in DOMAIN table /\ table[key].type \in {"name", "number"}

LegalLimit(n) == n > 0

LegalPort(n) == n > 0 /\ n <= MaxPort

LegalTTL(n) == n > 0 /\ n <= MaxTTL

\* Init of ovh-v1; "wait" stands for the three waits.  That of rfc2136 does
\* nothing.
LimitRead(options) == ParseIntOption(options, "max_concurrency", DefaultConcurrency)
WaitRead(options) == {w \in ParseDurationOption(options, "wait", DefaultWait) : w > 0}

InitResults(plugin, options) ==
  IF plugin = OVH
    THEN {n \in LimitRead(options) : LegalLimit(n) /\ WaitRead(options) # {}}
    ELSE {0}

InitFails(plugin, options) ==
  plugin = OVH /\ \/ WaitRead(options) = {}
                  \/ LimitRead(options) = {}
                  \/ \E n \in LimitRead(options) : ~LegalLimit(n)

\* NewGroup.  That of ovh-v1 refuses the global options, needs credentials and
\* then asks OVH whether they are good.
PortRead(options) == ParseIntOption(options, "port", DefaultPort)

\* 0: the TTL is that of the zone.
TTLRead(options) == ParseIntOption(options, "ttl", 0)
LegalTTLOption(options, t) == "ttl" \in DOMAIN options => LegalTTL(t)

\* parseTSIGConfig: a table with a key; the algorithm has a default.
IsTSIG(options) ==
  /\ options["tsig"].type = "table"
  /\ Named(options, "tsig.key_name") /\ Named(options, "tsig.secret")

\* Mutant of Authentication: a table without its key is as good as none.
AuthenticationOrNone(options) ==
  IF "tsig" \in DOMAIN options /\ IsTSIG(options) THEN {"tsig"} ELSE {"none"}

\* Without tsig updates are not signed; anything but a table with a key is an error.
Authentication(options) ==
  IF "tsig" \notin DOMAIN options THEN {"none"}
  ELSE IF IsTSIG(options) THEN {"tsig"} ELSE {}

Serviceable(options) ==
  /\ Named(options, "server")
  /\ Authentication(options) # {}
  /\ "sig0" \notin DOMAIN options
  /\ ParseDurationOption(options, "timeout", 0) # {}

Credentialed(options) ==
  /\ {"max_concurrency", "wait"} \cap DOMAIN options = {}
  /\ Named(options, "credentials")

GroupResults(plugin, options) ==
  IF plugin = OVH
    THEN {r \in {[port |-> 0, ttl |-> 0, auth |-> "credentials"]} : Credentialed(options)}
    ELSE {[port |-> n, ttl |-> t, auth |-> a] :
            n \in {n \in PortRead(options) : LegalPort(n) /\ Serviceable(options)},
            t \in {t \in TTLRead(options) : LegalTTLOption(options, t)},
            a \in Authentication(options)}

GroupFails(plugin, options) ==
  \/ plugin = OVH
  \/ ~Serviceable(options)
  \/ PortRead(options) = {} \/ \E n \in PortRead(options) : ~LegalPort(n)
  \/ TTLRead(options) = {} \/ \E t \in TTLRead(options) : ~LegalTTLOption(options, t)
=============================================================================
