--------------------------- MODULE LifecycleProofs ---------------------------
(***************************************************************************)
(* What holds of the process around its runners for any groups, zones,     *)
(* files and environment, over any edits, failures, signals and crashes.   *)
(* The argument has three layers: which objects are open in which phase    *)
(* (LifeInv), from which follow OneRunnerPerZone and the contract of the   *)
(* plugins; what the settings merged so far have to do with the files they *)
(* came from (MergedInv), hence LastFileWins; and from both                *)
(* OptionsAreLegal.                                                        *)
(***************************************************************************)
EXTENDS Lifecycle, TLAPS

-----------------------------------------------------------------------------
(* Settings.                                                               *)

\* A file's setting is the merged one, but that a table stays one.
LEMMA MergeIs ==
  ASSUME NEW old, NEW new
  PROVE  /\ DOMAIN Merge(old, new) = DOMAIN old \cup DOMAIN new
         /\ \A s \in DOMAIN new : Merge(old, new)[s] = new[s] \/ PassedOver(old, new, s)
         /\ \A s \in DOMAIN old \cup DOMAIN new :
              \/ s \in DOMAIN new /\ Merge(old, new)[s] = new[s]
              \/ s \in DOMAIN old /\ Merge(old, new)[s] = old[s]
         /\ \A s \in DOMAIN old \ DOMAIN new : Merge(old, new)[s] = old[s]
<1> DEFINE m == Merge(old, new)
<1>1. /\ DOMAIN m = DOMAIN old \cup DOMAIN new
      /\ \A s \in DOMAIN old \cup DOMAIN new :
           m[s] = IF s \in DOMAIN new /\ ~PassedOver(old, new, s) THEN new[s] ELSE old[s]
  BY DEF Merge
<1>2. \A s : PassedOver(old, new, s) => s \in DOMAIN old
  BY DEF PassedOver, IsTable
<1> HIDE DEF m
<1>3. /\ \A s \in DOMAIN new : m[s] = new[s] \/ PassedOver(old, new, s)
      /\ \A s \in DOMAIN old \cup DOMAIN new :
           \/ s \in DOMAIN new /\ m[s] = new[s]
           \/ s \in DOMAIN old /\ m[s] = old[s]
      /\ \A s \in DOMAIN old \ DOMAIN new : m[s] = old[s]
  BY <1>1, <1>2
<1> QED BY <1>1, <1>3 DEF m

\* But for tsig, the merged value is that of the last file.
LEMMA MergeLast ==
  ASSUME NEW old, NEW new
  PROVE  /\ DOMAIN Merge(old, new) = DOMAIN old \cup DOMAIN new
         /\ \A s \in DOMAIN new : s[2] # "tsig" => Merge(old, new)[s] = new[s]
         /\ \A s \in DOMAIN old \ DOMAIN new : Merge(old, new)[s] = old[s]
<1>1. \A s : PassedOver(old, new, s) => s[2] = "tsig"
  BY DEF PassedOver, IsTable
<1> QED BY <1>1, MergeIs

LEMMA MergeTable ==
  ASSUME NEW old, NEW new, NEW s, IsTable(old, s) \/ IsTable(new, s)
  PROVE  IsTable(Merge(old, new), s)
<1> DEFINE m == Merge(old, new)
<1>1. /\ s \in DOMAIN m
      /\ m[s] = IF s \in DOMAIN new /\ ~PassedOver(old, new, s) THEN new[s] ELSE old[s]
  BY DEF Merge, IsTable
<1> HIDE DEF m
<1>2. IsTable(m, s)
  BY <1>1 DEF IsTable, PassedOver
<1> QED BY <1>2 DEF m

\* The types a setting has.
Typed(s, v) ==
  /\ s[2] \in OptionFields => IsOption(v)
  /\ s[2] \in OptionFields \ {"tsig"} => v.type # "table"
  /\ s[2] = "zones" /\ v # Undecodable => \A i \in DOMAIN v : v[i] \in Names

LEMMA TypedSettings ==
  ASSUME NEW f
  PROVE  HasTypes(f) <=> DOMAIN f \subseteq Settings /\ \A s \in DOMAIN f : Typed(s, f[s])
  BY DEF HasTypes, Typed

LEMMA MergeSettings ==
  ASSUME NEW old, IsSettings(old), NEW new, IsSettings(new)
  PROVE  IsSettings(Merge(old, new))
<1> DEFINE m == Merge(old, new)
<1>1. /\ DOMAIN m = DOMAIN old \cup DOMAIN new
      /\ \A s \in DOMAIN m :
           \/ s \in DOMAIN new /\ m[s] = new[s]
           \/ s \in DOMAIN old /\ m[s] = old[s]
  <2>1. DOMAIN m = DOMAIN old \cup DOMAIN new
    BY MergeIs, Zenon
  <2>2. \A s \in DOMAIN old \cup DOMAIN new :
          \/ s \in DOMAIN new /\ m[s] = new[s]
          \/ s \in DOMAIN old /\ m[s] = old[s]
    BY MergeIs, Zenon
  <2> HIDE DEF m
  <2> QED BY <2>1, <2>2
<1>2. \A s : IsTable(old, s) \/ IsTable(new, s) => IsTable(m, s)
  BY MergeTable
<1> HIDE DEF m
<1>3. HasTypes(m)
  <2>1. HasTypes(old) /\ HasTypes(new)
    BY DEF IsSettings
  <2>2. /\ DOMAIN m \subseteq Settings
        /\ \A s \in DOMAIN m : Typed(s, m[s])
    BY <1>1, <2>1, TypedSettings
  <2> QED BY <2>2, TypedSettings
<1>4. \A s \in DOMAIN m : s[2] \in TSIGFields => IsTable(m, <<s[1], "tsig">>)
  BY <1>1, <1>2 DEF IsSettings
<1>5. IsSettings(m)
  BY <1>3, <1>4 DEF IsSettings
<1> QED BY <1>5 DEF m

LEMMA EmptySettings == DOMAIN Empty = {} /\ IsSettings(Empty)
  BY DEF Empty, IsSettings, HasTypes

LEMMA DefaultSettings ==
  DOMAIN Defaults = {<<Top, "dns_timeout">>} /\ IsSettings(Defaults)
  BY DEF Defaults, IsSettings, HasTypes, Settings, OptionFields, TSIGFields

\* Unmarshal sees the settings of the files and the default, each as the
\* environment has it, or as merged; but those that are hidden and empty tables.
LEMMA EffectiveIs ==
  ASSUME NEW merged, IsSettings(merged)
  PROVE  LET e == Effective(merged)
         IN /\ DOMAIN e \subseteq DOMAIN merged \cup {<<Top, "dns_timeout">>}
            /\ \A s \in DOMAIN e : ~Shadowed(s)
            /\ \A s \in DOMAIN merged : s[2] # "tsig" /\ ~Shadowed(s) =>
                 s \in DOMAIN e /\ e[s] = IF s \in DOMAIN Env THEN Env[s] ELSE merged[s]
            /\ IsSettings(e)
<1> DEFINE known == Merge(Defaults, merged)
           visible == {s \in DOMAIN known : ~Shadowed(s)}
           empty == {s \in visible : IsTable(known, s)
                                      /\ \A l \in TSIGFields : <<s[1], l>> \notin visible}
           e == Effective(merged)
<1>1. /\ DOMAIN known = DOMAIN merged \cup {<<Top, "dns_timeout">>}
      /\ \A s \in DOMAIN merged : s[2] # "tsig" => known[s] = merged[s]
      /\ IsSettings(known)
  <2>1. IsSettings(known)
    BY MergeSettings, DefaultSettings
  <2>2. /\ DOMAIN known = DOMAIN Defaults \cup DOMAIN merged
        /\ \A s \in DOMAIN merged : known[s] = merged[s] \/ PassedOver(Defaults, merged, s)
    BY MergeIs
  <2> QED BY <2>1, <2>2, DefaultSettings DEF PassedOver, IsTable
<1>2. /\ DOMAIN e = visible \ empty
      /\ \A s \in DOMAIN e :
           e[s] = IF s \in DOMAIN Env /\ ~IsTable(known, s) THEN Env[s] ELSE known[s]
  BY DEF Effective
<1>3. /\ visible \subseteq DOMAIN known
      /\ \A s \in DOMAIN known : s \in visible <=> ~Shadowed(s)
      /\ \A s \in empty : IsTable(known, s) /\ \A l \in TSIGFields : <<s[1], l>> \notin visible
  OBVIOUS
<1> HIDE DEF known, visible, empty, e
<1>4. \A s \in empty : s[2] = "tsig"
  BY <1>3 DEF IsTable
<1>5. HasTypes(e)
  <2>1. HasTypes(known) /\ HasTypes(Env)
    BY <1>1, EnvAssumption DEF IsSettings
  <2>2. DOMAIN e \subseteq Settings /\ \A s \in DOMAIN e : Typed(s, e[s])
    BY <1>2, <1>3, <2>1, TypedSettings
  <2> QED BY <2>2, TypedSettings
<1>6. ASSUME NEW s \in DOMAIN e, s[2] \in TSIGFields
      PROVE  IsTable(e, <<s[1], "tsig">>)
  <2> DEFINE t == <<s[1], "tsig">>
  <2>1. s \in visible /\ s \in DOMAIN known /\ s \in Settings
    BY <1>2, <1>3, <1>5 DEF HasTypes
  <2>2. IsTable(known, t)
    BY <1>1, <1>6, <2>1 DEF IsSettings
  <2>3. s = <<s[1], s[2]>> /\ t[1] = s[1] /\ t[2] = "tsig"
    BY <2>1 DEF Settings
  <2>4. t \in DOMAIN known /\ ~Shadowed(t)
    BY <2>2, <2>3 DEF IsTable, Shadowed, TSIGFields
  <2>5. t \notin empty
    BY <1>3, <1>6, <2>1, <2>3
  <2>6. t \in DOMAIN e /\ e[t] = known[t]
    BY <1>2, <1>3, <2>2, <2>4, <2>5
  <2> QED BY <2>2, <2>3, <2>6 DEF IsTable
<1>7. IsSettings(e)
  BY <1>5, <1>6 DEF IsSettings
<1>8. /\ DOMAIN e \subseteq DOMAIN merged \cup {<<Top, "dns_timeout">>}
      /\ \A s \in DOMAIN e : ~Shadowed(s)
  BY <1>1, <1>2, <1>3
<1>9. ASSUME NEW s \in DOMAIN merged, s[2] # "tsig", ~Shadowed(s)
      PROVE  s \in DOMAIN e /\ e[s] = IF s \in DOMAIN Env THEN Env[s] ELSE merged[s]
  <2>1. s \in visible \ empty /\ known[s] = merged[s]
    BY <1>1, <1>3, <1>4, <1>9
  <2> QED BY <1>2, <1>9, <2>1 DEF IsTable
<1> QED BY <1>7, <1>8, <1>9 DEF e

\* A configuration whose zones have names and whose options have types, with the
\* table of what is in one.
IsConfig(c) ==
  /\ DOMAIN c.groups \subseteq Groups
  /\ \A g \in DOMAIN c.groups :
       /\ \A i \in DOMAIN c.groups[g].zones : c.groups[g].zones[i] \in Names
       /\ \A o \in DOMAIN c.groups[g].plugin_config :
            /\ IsOption(c.groups[g].plugin_config[o])
            /\ o \in TSIGFields => "tsig" \in DOMAIN c.groups[g].plugin_config
  /\ \A p \in DOMAIN c.plugins : \A o \in DOMAIN c.plugins[p] : IsOption(c.plugins[p][o])

LEMMA ResolveGroups ==
  ASSUME NEW e
  PROVE  /\ DOMAIN Resolve(e).groups = GroupsIn(e)
         /\ \A g \in GroupsIn(e) :
              /\ Resolve(e).groups[g].plugin = Get(e, g, "plugin", "")
              /\ Resolve(e).groups[g].zones = Get(e, g, "zones", <<>>)
              /\ Resolve(e).groups[g].plugin_config = TableOf(e, g, OptionFields)
  BY DEF Resolve, GroupConfig

LEMMA ResolveTypes ==
  ASSUME NEW e, IsSettings(e), Decodable(e)
  PROVE  IsConfig(Resolve(e))
<1> DEFINE c == Resolve(e)
<1>1. DOMAIN c.groups = GroupsIn(e) /\ GroupsIn(e) \subseteq Groups
  BY ResolveGroups DEF GroupsIn
<1>2. ASSUME NEW g \in DOMAIN c.groups
      PROVE  /\ \A i \in DOMAIN c.groups[g].zones : c.groups[g].zones[i] \in Names
             /\ \A o \in DOMAIN c.groups[g].plugin_config :
                  /\ IsOption(c.groups[g].plugin_config[o])
                  /\ o \in TSIGFields => "tsig" \in DOMAIN c.groups[g].plugin_config
  <2>1. /\ c.groups[g].zones = Get(e, g, "zones", <<>>)
        /\ DOMAIN c.groups[g].plugin_config = {o \in OptionFields : <<g, o>> \in DOMAIN e}
        /\ \A o \in DOMAIN c.groups[g].plugin_config :
             c.groups[g].plugin_config[o] = e[<<g, o>>]
    <3>1. g \in GroupsIn(e)
      BY <1>1, <1>2
    <3>2. /\ c.groups[g].zones = Get(e, g, "zones", <<>>)
          /\ c.groups[g].plugin_config = TableOf(e, g, OptionFields)
      BY <3>1, ResolveGroups
    <3> HIDE DEF c
    <3> DEFINE table == c.groups[g].plugin_config
    <3>3. table = [o \in {o \in OptionFields : <<g, o>> \in DOMAIN e} |-> e[<<g, o>>]]
      BY <3>2 DEF TableOf
    <3>4. /\ DOMAIN table = {o \in OptionFields : <<g, o>> \in DOMAIN e}
          /\ \A o \in DOMAIN table : table[o] = e[<<g, o>>]
      <4> HIDE DEF table
      <4> QED BY <3>3
    <3> QED BY <3>2, <3>4
  <2> HIDE DEF c
  <2>4. \A o \in DOMAIN c.groups[g].plugin_config : IsOption(c.groups[g].plugin_config[o])
    BY <2>1 DEF IsSettings, HasTypes
  <2>5. ASSUME NEW o \in DOMAIN c.groups[g].plugin_config, o \in TSIGFields
        PROVE  "tsig" \in DOMAIN c.groups[g].plugin_config
    <3>1. IsTable(e, <<g, "tsig">>)
      BY <2>1, <2>5 DEF IsSettings
    <3> QED BY <2>1, <3>1 DEF IsTable, OptionFields
  <2>2. CASE <<g, "zones">> \in DOMAIN e
    <3>1. c.groups[g].zones = e[<<g, "zones">>]
      BY <2>1, <2>2 DEF Get
    <3>2. e[<<g, "zones">>] # Undecodable
      BY <2>2 DEF Decodable, OptionFields, TSIGFields
    <3>3. \A i \in DOMAIN e[<<g, "zones">>] : e[<<g, "zones">>][i] \in Names
      BY <2>2, <3>2 DEF IsSettings, HasTypes
    <3> QED BY <2>4, <2>5, <3>1, <3>3
  <2>3. CASE <<g, "zones">> \notin DOMAIN e
    <3>1. c.groups[g].zones = <<>>
      BY <2>1, <2>3 DEF Get
    <3> QED BY <2>4, <2>5, <3>1
  <2> QED BY <2>2, <2>3
<1>3. ASSUME NEW p \in DOMAIN c.plugins, NEW o \in DOMAIN c.plugins[p]
      PROVE  IsOption(c.plugins[p][o])
  <2>1. o \in OptionFields /\ <<p, o>> \in DOMAIN e /\ c.plugins[p][o] = e[<<p, o>>]
    BY <1>3 DEF Resolve, TableOf
  <2> QED BY <2>1 DEF IsSettings, HasTypes
<1> HIDE DEF c
<1>4. IsConfig(c)
  BY <1>1, <1>2, <1>3 DEF IsConfig
<1> QED BY <1>4 DEF c

-----------------------------------------------------------------------------
(* Options.                                                                *)

LEMMA ParseIntTypes ==
  ASSUME NEW table, NEW key, NEW default, key \in DOMAIN table => IsOption(table[key]),
         NEW n \in ParseIntOption(table, key, default)
  PROVE  n \in (MinInt..MaxInt) \cup {default}
<1>1. MinInt \in Int /\ MaxInt \in Int /\ MinInt <= MaxInt
  BY WidthAssumption DEF MinInt
<1> QED BY <1>1 DEF ParseIntOption, IsOption

\* What an instance of a plugin is given, if NewGroup makes one at all.
LEMMA GroupResultTypes ==
  ASSUME NEW plugin, NEW options,
         \A o \in DOMAIN options : IsOption(options[o]),
         NEW r \in GroupResults(plugin, options)
  PROVE  /\ r \in [port : MinInt..MaxInt, ttl : MinInt..MaxInt,
                   auth : {"none", "tsig", "credentials"}]
         /\ plugin # OVH => /\ r.port \in 1..MaxPort /\ r.ttl \in 0..MaxTTL
                            /\ "tsig" \in DOMAIN options => r.auth = "tsig"
<1>1. /\ MaxInt \in Int /\ MinInt \in Int /\ MinInt <= 0 /\ MaxPort \in Int /\ MaxTTL \in Int
      /\ MaxPort < MaxInt /\ MaxTTL < MaxInt /\ 0 <= MaxTTL /\ 1 <= MaxInt
  BY WidthAssumption DEF MinInt
<1>2. CASE plugin = OVH
  BY <1>1, <1>2 DEF GroupResults
<1>3. CASE plugin # OVH
  <2>1. PICK n \in {n \in PortRead(options) : LegalPort(n) /\ Serviceable(options)},
             t \in {t \in TTLRead(options) : LegalTTLOption(options, t)},
             a \in Authentication(options) : r = [port |-> n, ttl |-> t, auth |-> a]
    BY <1>3 DEF GroupResults
  <2>2. n \in 1..MaxPort
    <3>1. n \in Int
      BY <1>1, ParseIntTypes DEF PortRead, DefaultPort
    <3> QED BY <1>1, <3>1 DEF LegalPort
  <2>3. t \in 0..MaxTTL
    <3>1. CASE "ttl" \in DOMAIN options
      <4>1. t \in Int
        BY <1>1, ParseIntTypes DEF TTLRead
      <4> QED BY <1>1, <3>1, <4>1 DEF LegalTTLOption, LegalTTL
    <3>2. CASE "ttl" \notin DOMAIN options
      BY <1>1, <3>2 DEF TTLRead, ParseIntOption
    <3> QED BY <3>1, <3>2
  <2>4. a \in {"none", "tsig"} /\ ("tsig" \in DOMAIN options => a = "tsig")
    BY DEF Authentication
  <2> QED BY <1>1, <1>3, <2>1, <2>2, <2>3, <2>4
<1> QED BY <1>2, <1>3

-----------------------------------------------------------------------------
(* What is open, and what runs.                                            *)

Loading == {"main", "list", "merge"}

\* Objects are open from init on and runners exist from Launch on; the instances
\* are those of the groups of the configuration in force, and while one of them
\* or a runner is left, every plugin of that configuration is initialised.
ObjectsInv ==
  /\ phase \in Loading \cup {"down"} => global = {}
  /\ phase \in Loading \cup {"down", "init"} => open = {}
  /\ phase \in Starting \cup {"down"} => runners = {}
  /\ open \subseteq DOMAIN cfg.groups
  /\ phase = "groups" \/ open # {} \/ runners # {} => Used \subseteq global
  /\ runners # {} => open = DOMAIN cfg.groups
  /\ \A r \in runners :
       /\ r[1] \in DOMAIN cfg.groups
       /\ \E i \in DOMAIN cfg.groups[r[1]].zones : cfg.groups[r[1]].zones[i] = r[2]
  /\ InForce => ListedOnce(cfg) /\ DOMAIN cfg.plugins = Registered

LifeInv == TypeOK /\ IsConfig(cfg) /\ ObjectsInv

LEMMA Widths ==
  /\ MinInt \in Int /\ MaxInt \in Int /\ MinInt <= 0 /\ 1 <= MaxInt
  /\ 0 \in MinInt..MaxInt
  BY WidthAssumption DEF MinInt

LEMMA NoConfigIs == IsConfig(NoConfig) /\ DOMAIN NoConfig.groups = {}
  BY EmptySettings DEF IsConfig, NoConfig

LEMMA NoInstance == ASSUME instance = Empty PROVE open = {}
  BY DEF Empty, open

LEMMA InitLife == Init => LifeInv
<1> SUFFICES ASSUME Init PROVE LifeInv
  OBVIOUS
<1>1. open = {} /\ DOMAIN cfg.groups = {} /\ IsConfig(cfg)
  BY NoInstance, NoConfigIs DEF Init
<1>2. DOMAIN seen = {} /\ IsSettings(settings)
  BY EmptySettings DEF Init
<1>3. TypeOK
  BY <1>1, <1>2, Widths, EditsAssumption DEF Init, TypeOK, Phases
<1>4. ObjectsInv
  BY <1>1 DEF Init, ObjectsInv, Loading, Starting, InForce
<1> QED BY <1>1, <1>3, <1>4 DEF LifeInv

\* The end of the process leaves nothing.
LEMMA EndedLife == LifeInv /\ Ended => LifeInv'
<1> SUFFICES ASSUME LifeInv, Ended PROVE LifeInv'
  OBVIOUS
<1>1. open' = {} /\ DOMAIN cfg'.groups = {} /\ IsConfig(cfg')
  BY NoConfigIs DEF Ended, Empty, open
<1>2. DOMAIN seen' = {} /\ IsSettings(settings')
  BY EmptySettings DEF Ended
<1>3. TypeOK'
  BY <1>1, <1>2, Widths DEF Ended, LifeInv, TypeOK, Phases
<1>4. ObjectsInv'
  BY <1>1 DEF Ended, ObjectsInv, Loading, Starting, InForce
<1> QED BY <1>1, <1>3, <1>4 DEF LifeInv

\* A file that can be read has settings.
LEMMA ReadSettings ==
  ASSUME TypeOK, NEW f \in Sources, Readable(f)
  PROVE  IsSettings(files[f])
  BY ContentsAssumption DEF TypeOK, Readable, Sources

\* Reading and listing files changes nothing but what is loaded.
LEMMA LoadLife ==
  ASSUME LifeInv, UNCHANGED <<files, edits, cfg, plugins, runners, busy>>,
         phase \in Loading \cup {"down"} \/ Leave,
         phase' \in Loading, IsSettings(settings'), todo' \subseteq ConfD,
         DOMAIN seen' \subseteq Sources,
         sig' \in {"none", sig}
  PROVE  LifeInv'
<1>1. global = {} /\ open = {} /\ runners = {}
  BY DEF LifeInv, ObjectsInv, Leave, Drained, Starting, Loading
<1>2. TypeOK'
  BY DEF LifeInv, TypeOK, plugins, open, Phases, Loading, Starting
<1>3. ObjectsInv'
  BY <1>1 DEF LifeInv, ObjectsInv, plugins, open, Loading, Starting, InForce
<1> QED BY <1>2, <1>3 DEF LifeInv

LEMMA AcceptLife == LifeInv /\ Accept => LifeInv'
<1> SUFFICES ASSUME LifeInv, Accept PROVE LifeInv'
  OBVIOUS
<1>1. IsConfig(cfg') /\ ListedOnce(cfg') /\ DOMAIN cfg'.plugins = Registered
  <2>1. PICK e \in {Effective(settings)} : Decodable(e) /\ cfg' = Resolve(e) /\ Valid(cfg')
    BY DEF Accept, Loaded
  <2>2. IsSettings(settings)
    BY DEF LifeInv, TypeOK
  <2>3. IsSettings(Effective(settings))
    BY <2>2, EffectiveIs
  <2>4. DOMAIN cfg'.plugins = Registered
    BY <2>1 DEF Resolve, Registered
  <2> QED BY <2>1, <2>3, <2>4, ResolveTypes DEF Valid
<1>2. global = {} /\ open = {} /\ runners = {}
  BY DEF LifeInv, ObjectsInv, Accept, Loading, Starting
<1>3. UNCHANGED <<global, open, runners>> /\ phase' = "init"
  BY DEF Accept, plugins, open
<1>4. TypeOK'
  <2>1. IsSettings(settings')
    BY EmptySettings DEF Accept
  <2> QED BY <1>1, <2>1 DEF LifeInv, TypeOK, Accept, plugins, open, Phases, Starting, IsConfig
<1>5. ObjectsInv'
  BY <1>1, <1>2, <1>3 DEF ObjectsInv, Loading, Starting
<1> QED BY <1>1, <1>4, <1>5 DEF LifeInv

\* A step with the configuration it finds.
LEMMA SameConfig ==
  ASSUME LifeInv, UNCHANGED <<cfg, load>>
  PROVE  IsConfig(cfg)' /\ IsSettings(settings)' /\ DOMAIN seen' \subseteq Sources
         /\ todo' \subseteq ConfD /\ DOMAIN cfg'.groups \subseteq Groups
         /\ Used' = Used
  BY DEF LifeInv, load, TypeOK, Used, IsConfig

LEMMA StartLife ==
  ASSUME LifeInv,
         \/ \E p \in Registered, n \in MinInt..MaxInt : InitPlugin(p, n)
         \/ \E g \in Groups : NewGroup(g)
         \/ InitDone \/ Launch
  PROVE  LifeInv'
<1>1. ASSUME NEW p \in Registered, NEW n \in MinInt..MaxInt, InitPlugin(p, n) PROVE LifeInv'
  <2>1. UNCHANGED <<cfg, load>>
    BY <1>1 DEF InitPlugin
  <2>2. TypeOK'
    BY <1>1, <2>1, SameConfig DEF InitPlugin, LifeInv, TypeOK, open
  <2>3. ObjectsInv'
    BY <1>1, <2>1, SameConfig DEF InitPlugin, LifeInv, ObjectsInv, open, Loading, Starting, InForce
  <2> QED BY <2>1, <2>2, <2>3, SameConfig DEF LifeInv
<1>2. ASSUME NEW g \in Groups, NewGroup(g) PROVE LifeInv'
  <2>1. UNCHANGED <<cfg, load>>
    BY <1>2 DEF NewGroup
  <2>2. PICK result \in GroupResults(PluginOf(g), OptionsOf(g)) :
          instance' = [h \in open \cup {g} |-> IF h = g THEN result ELSE instance[h]]
    BY <1>2 DEF NewGroup
  <2>3. /\ open' = open \cup {g}
        /\ instance'[g] = result
        /\ \A h \in open \ {g} : instance'[h] = instance[h]
    BY <2>2 DEF open
  <2>4. \A o \in DOMAIN OptionsOf(g) : IsOption(OptionsOf(g)[o])
    BY <1>2 DEF NewGroup, LifeInv, IsConfig, OptionsOf
  <2>5. result \in [port : MinInt..MaxInt, ttl : MinInt..MaxInt,
                    auth : {"none", "tsig", "credentials"}]
    BY <2>4, GroupResultTypes
  <2>6. TypeOK'
    BY <1>2, <2>1, <2>3, <2>5, SameConfig DEF NewGroup, LifeInv, TypeOK
  <2>7. ObjectsInv'
    BY <1>2, <2>1, <2>3, SameConfig
    DEF NewGroup, LifeInv, ObjectsInv, Loading, Starting, InForce
  <2> QED BY <2>1, <2>6, <2>7, SameConfig DEF LifeInv
<1>3. CASE InitDone
  <2>1. UNCHANGED <<cfg, load, plugins, open>>
    BY <1>3 DEF InitDone, plugins, open
  <2>2. TypeOK'
    BY <1>3, <2>1, SameConfig DEF InitDone, plugins, LifeInv, TypeOK, Phases, Starting
  <2>3. ObjectsInv'
    BY <1>3, <2>1, SameConfig
    DEF InitDone, plugins, LifeInv, ObjectsInv, Loading, Starting, InForce
  <2> QED BY <2>1, <2>2, <2>3, SameConfig DEF LifeInv
<1>4. CASE Launch
  <2>1. UNCHANGED <<cfg, load, plugins, open>>
    BY <1>4 DEF Launch, plugins, open
  <2>2. \A r \in runners' :
          /\ r \in Groups \X Names
          /\ r[1] \in DOMAIN cfg.groups
          /\ \E i \in DOMAIN cfg.groups[r[1]].zones : cfg.groups[r[1]].zones[i] = r[2]
    <3>1. ASSUME NEW r \in runners'
          PROVE  /\ r \in Groups \X Names
                 /\ r[1] \in DOMAIN cfg.groups
                 /\ \E i \in DOMAIN cfg.groups[r[1]].zones : cfg.groups[r[1]].zones[i] = r[2]
      <4>1. PICK g \in DOMAIN cfg.groups :
              \E i \in DOMAIN cfg.groups[g].zones : r = <<g, cfg.groups[g].zones[i]>>
        BY <1>4, <3>1 DEF Launch
      <4> QED BY <4>1 DEF LifeInv, IsConfig
    <3> QED BY <3>1
  <2>3. busy = {} /\ busy' = {}
    BY <1>4 DEF Launch, LifeInv, TypeOK, ObjectsInv, Starting
  <2>4. TypeOK'
    BY <1>4, <2>1, <2>2, <2>3, SameConfig DEF Launch, plugins, LifeInv, TypeOK, Phases
  <2>5. ObjectsInv'
    BY <1>4, <2>1, <2>2, SameConfig
    DEF Launch, plugins, LifeInv, ObjectsInv, Loading, Starting, InForce
  <2> QED BY <2>1, <2>4, <2>5, SameConfig DEF LifeInv
<1> QED BY <1>1, <1>2, <1>3, <1>4

\* Signals, closing, the runners and the operator leave the configuration alone.
LEMMA WorkLife ==
  ASSUME LifeInv,
         \/ Signal
         \/ \E g \in Groups : CloseGroup(g)
         \/ \E p \in Registered : CloseGlobal(p)
         \/ \E r \in Groups \X Names : CallUpdate(r) \/ Returns(r)
         \/ \E f \in Sources : Edit(f)
         \/ UNCHANGED vars
  PROVE  LifeInv'
<1>1. UNCHANGED <<cfg, load>>
  BY DEF Signal, CloseGroup, CloseGlobal, CallUpdate, Returns, UpdateReturns, RunnerEnds,
         Edit, vars
<1>2. CASE Signal
  <2>1. UNCHANGED <<plugins, open>>
    BY <1>2 DEF Signal, plugins, open
  <2>2. TypeOK'
    BY <1>1, <1>2, <2>1, SameConfig DEF Signal, plugins, LifeInv, TypeOK, Phases
  <2>3. ObjectsInv'
    BY <1>1, <1>2, <2>1, SameConfig
    DEF Signal, plugins, LifeInv, ObjectsInv, Loading, Starting, InForce
  <2> QED BY <1>1, <2>2, <2>3, SameConfig DEF LifeInv
<1>3. ASSUME NEW g \in Groups, CloseGroup(g) PROVE LifeInv'
  <2>1. /\ open' = open \ {g}
        /\ \A h \in open' : instance'[h] = instance[h]
    BY <1>3 DEF CloseGroup, open
  <2>2. TypeOK'
    BY <1>1, <1>3, <2>1, SameConfig DEF CloseGroup, LifeInv, TypeOK
  <2>3. ObjectsInv'
    BY <1>1, <1>3, <2>1, SameConfig
    DEF CloseGroup, Drained, LifeInv, ObjectsInv, Loading, Starting, InForce
  <2> QED BY <1>1, <2>2, <2>3, SameConfig DEF LifeInv
<1>4. ASSUME NEW p \in Registered, CloseGlobal(p) PROVE LifeInv'
  <2>1. open' = open
    BY <1>4 DEF CloseGlobal, open
  <2>2. TypeOK'
    BY <1>1, <1>4, <2>1, SameConfig, Widths DEF CloseGlobal, LifeInv, TypeOK
  <2>3. ObjectsInv'
    BY <1>1, <1>4, <2>1, SameConfig
    DEF CloseGlobal, Drained, LifeInv, ObjectsInv, Loading, Starting, InForce
  <2> QED BY <1>1, <2>2, <2>3, SameConfig DEF LifeInv
<1>5. ASSUME NEW r \in Groups \X Names, CallUpdate(r) \/ Returns(r) PROVE LifeInv'
  <2>1. /\ UNCHANGED <<files, edits, phase, sig, plugins, open>>
        /\ runners' \subseteq runners /\ busy' \subseteq runners'
    BY <1>5 DEF CallUpdate, Returns, UpdateReturns, RunnerEnds, plugins, open, LifeInv, TypeOK
  <2>2. TypeOK'
    BY <1>1, <2>1, SameConfig DEF plugins, LifeInv, TypeOK
  <2>3. ObjectsInv'
    BY <1>1, <2>1, SameConfig
    DEF plugins, LifeInv, ObjectsInv, Loading, Starting, InForce
  <2> QED BY <1>1, <2>2, <2>3, SameConfig DEF LifeInv
<1>6. CASE (\E f \in Sources : Edit(f)) \/ UNCHANGED vars
  <2>1. UNCHANGED <<phase, sig, plugins, open, runners, busy>>
    BY <1>6 DEF Edit, vars, plugins, open
  <2>2. /\ files' \in [Sources -> UNION {Contents[f] : f \in Sources}]
        /\ \A f \in Sources : files'[f] \in Contents[f]
        /\ edits' \in 0..MaxEdits
    BY <1>6, EditsAssumption DEF Edit, vars, LifeInv, TypeOK
  <2>3. TypeOK'
    BY <1>1, <2>1, <2>2, SameConfig DEF plugins, LifeInv, TypeOK
  <2>4. ObjectsInv'
    BY <1>1, <2>1, SameConfig
    DEF plugins, LifeInv, ObjectsInv, Loading, Starting, InForce
  <2> QED BY <1>1, <2>3, <2>4, SameConfig DEF LifeInv
<1> QED BY <1>2, <1>3, <1>4, <1>5, <1>6

LEMMA StepLife == LifeInv /\ [Next]_vars => LifeInv'
<1> SUFFICES ASSUME LifeInv, [Next]_vars PROVE LifeInv'
  OBVIOUS
<1>1. CASE Boot
  BY <1>1, LoadLife, EmptySettings DEF Boot, BeginLoad, Loading, plugins
<1>2. CASE ReadMain
  <2>1. IsSettings(settings')
    BY <1>2, ReadSettings, MergeSettings DEF ReadMain, LifeInv, TypeOK, Sources
  <2>2. DOMAIN seen' \subseteq Sources /\ todo' \subseteq ConfD
    BY <1>2 DEF ReadMain, Sources, LifeInv, TypeOK
  <2> QED BY <1>2, <2>1, <2>2, LoadLife DEF ReadMain, Loading
<1>3. CASE ListConfD
  <2>1. IsSettings(settings') /\ DOMAIN seen' \subseteq Sources /\ todo' \subseteq ConfD
    BY <1>3 DEF ListConfD, LifeInv, TypeOK
  <2> QED BY <1>3, <2>1, LoadLife DEF ListConfD, Loading
<1>4. ASSUME NEW f \in ConfD, MergeFile(f) PROVE LifeInv'
  <2>1. IsSettings(settings')
    BY <1>4, ReadSettings, MergeSettings DEF MergeFile, LifeInv, TypeOK, Sources
  <2>2. DOMAIN seen' \subseteq Sources /\ todo' \subseteq ConfD
    BY <1>4 DEF MergeFile, Sources, LifeInv, TypeOK
  <2> QED BY <1>4, <2>1, <2>2, LoadLife DEF MergeFile, Loading
<1>5. CASE Leave
  <2>1. CASE sig = "HUP"
    BY <1>5, <2>1, LoadLife, EmptySettings DEF Leave, BeginLoad, Loading, plugins
  <2>2. CASE sig # "HUP"
    BY <1>5, <2>2, EndedLife DEF Leave
  <2> QED BY <2>1, <2>2
<1>6. CASE LoadFails \/ StartFails \/ Crash
  BY <1>6, EndedLife DEF LoadFails, StartFails, Crash
<1> QED
  BY <1>1, <1>2, <1>3, <1>4, <1>5, <1>6, AcceptLife, StartLife, WorkLife DEF Next, Engine

LEMMA LifeTheorem == Spec => []LifeInv
  BY InitLife, StepLife, PTL DEF Spec

\* The variables have their types: an instance is only ever given a port and a TTL
\* that are ints, whatever numbers the options were, and a runner a group and a
\* name there are (limiter.go:79-119, engine.go:100-112).
THEOREM LifecycleTypes == Spec => []TypeOK
<1>1. LifeInv => TypeOK
  BY DEF LifeInv
<1> QED BY <1>1, LifeTheorem, PTL

\* validate refuses a configuration that lists a name twice, and a runner is made
\* for each name of the configuration whose objects are open.
LEMMA OneRunner == LifeInv => OneRunnerPerZone
<1> SUFFICES ASSUME LifeInv, NEW r \in runners
             PROVE  /\ \A q \in runners : q[2] = r[2] => q = r
                    /\ r[1] \in open /\ PluginOf(r[1]) \in global
                    /\ \E i \in DOMAIN cfg.groups[r[1]].zones : cfg.groups[r[1]].zones[i] = r[2]
  BY DEF OneRunnerPerZone
<1>1. phase \in {"running", "draining"}
  BY DEF LifeInv, TypeOK, Phases, ObjectsInv
<1>2. ListedOnce(cfg)
  BY <1>1 DEF LifeInv, ObjectsInv, InForce
<1>3. ASSUME NEW q \in runners, q[2] = r[2] PROVE q = r
  <2>1. q[1] = r[1]
    BY <1>2, <1>3 DEF LifeInv, ObjectsInv, ListedOnce
  <2>2. q = <<q[1], q[2]>> /\ r = <<r[1], r[2]>>
    BY DEF LifeInv, TypeOK
  <2> QED BY <1>3, <2>1, <2>2
<1>4. r[1] \in open /\ PluginOf(r[1]) \in global
  BY DEF LifeInv, ObjectsInv, Used, PluginOf
<1> QED BY <1>3, <1>4 DEF LifeInv, ObjectsInv

\* Over any configurations, one after the other, a zone name has one runner, with
\* its instance and its plugin open.
THEOREM OneRunnerEach == Spec => []OneRunnerPerZone
  BY OneRunner, LifeTheorem, PTL

-----------------------------------------------------------------------------
(* The contract of the plugins.                                            *)

group == {<<g, PluginOf(g)>> : g \in open}

LEMMA InitContract == Init => Contract!Nothing
<1> SUFFICES ASSUME Init PROVE Contract!Nothing
  OBVIOUS
<1>1. open = {}
  BY NoInstance DEF Init
<1> QED BY <1>1 DEF Init, Contract!Nothing

\* The end of the process is that of the plugins.
LEMMA EndedExits == Ended => Contract!Next
<1> SUFFICES ASSUME Ended PROVE Contract!Next
  OBVIOUS
<1>1. open' = {}
  BY DEF Ended, open, Empty
<1>2. group' = {}
  BY <1>1 DEF group
<1> QED BY <1>2 DEF Ended, group, Contract!Next, Contract!Exit

\* With the same configuration, the same instances are those of the same plugins.
LEMMA SameGroups ==
  ASSUME UNCHANGED <<cfg, instance>>
  PROVE  group' = group /\ open' = open
  BY DEF group, open, PluginOf

\* A step that touches no object of the plugins and calls none is none of theirs.
LEMMA NoPluginStep ==
  ASSUME UNCHANGED <<cfg, plugins, busy>>
  PROVE  UNCHANGED Contract!vars
  BY SameGroups DEF plugins, group, Contract!vars

\* Update is called by the one runner of its zone, on an open instance.
LEMMA CallContract ==
  ASSUME LifeInv, NEW r \in Groups \X Names, CallUpdate(r)
  PROVE  Contract!Next
<1>1. r \in runners /\ r = <<r[1], r[2]>> /\ r[1] \in Groups /\ r[2] \in Names
  BY DEF CallUpdate
<1>2. r[1] \in open /\ PluginOf(r[1]) \in global
  BY <1>1, OneRunner DEF OneRunnerPerZone
<1>3. \E p \in global : <<r[1], p>> \in group
  BY <1>2 DEF group
<1>4. \A h \in Groups : <<h, r[2]>> \notin busy
  <2> SUFFICES ASSUME NEW h \in Groups, <<h, r[2]>> \in busy PROVE FALSE
    OBVIOUS
  <2>1. <<h, r[2]>> \in runners
    BY DEF LifeInv, TypeOK
  <2>2. <<h, r[2]>> = r
    BY <1>1, <2>1, OneRunner DEF OneRunnerPerZone
  <2> QED BY <2>2 DEF CallUpdate
<1>5. busy' = busy \cup {<<r[1], r[2]>>} /\ UNCHANGED <<global, cfg, instance>>
  BY <1>1 DEF CallUpdate, plugins
<1>6. Contract!Update(r[1], r[2])
  BY <1>3, <1>4, <1>5, SameGroups DEF group, Contract!Update
<1> QED BY <1>1, <1>6 DEF Contract!Next

LEMMA ReturnContract ==
  ASSUME LifeInv, NEW r \in Groups \X Names, Returns(r)
  PROVE  [Contract!Next]_Contract!vars
<1>1. CASE RunnerEnds(r)
  BY <1>1, NoPluginStep DEF RunnerEnds
<1>2. CASE UpdateReturns(r)
  <2>1. r = <<r[1], r[2]>> /\ r[1] \in Groups /\ r[2] \in Names
    OBVIOUS
  <2>2. /\ <<r[1], r[2]>> \in busy /\ busy' = busy \ {<<r[1], r[2]>>}
        /\ UNCHANGED <<global, cfg, instance>>
    BY <1>2, <2>1 DEF UpdateReturns, plugins
  <2>3. Contract!Return(r[1], r[2])
    BY <2>2, SameGroups DEF group, Contract!Return
  <2> QED BY <2>1, <2>3 DEF Contract!Next
<1> QED BY <1>1, <1>2 DEF Returns

\* An instance is made of the open plugin its group names.
LEMMA NewContract ==
  ASSUME LifeInv, NEW g \in Groups, NewGroup(g)
  PROVE  Contract!Next
<1>1. g \in DOMAIN cfg.groups \ open /\ open' = open \cup {g} /\ UNCHANGED <<global, cfg, busy>>
  BY DEF NewGroup, open
<1>2. PICK p \in Registered : p = PluginOf(g) /\ p \in global
  BY <1>1 DEF NewGroup, LifeInv, TypeOK, ObjectsInv, Used, PluginOf
<1>3. group' = group \cup {<<g, p>>} /\ \A q : <<g, q>> \notin group
  BY <1>1, <1>2 DEF group, PluginOf
<1>4. Contract!NewGroup(g, p)
  BY <1>1, <1>2, <1>3 DEF group, Contract!NewGroup
<1> QED BY <1>2, <1>4 DEF Contract!Next

\* Instances are closed when no runner is left, and plugins when no instance is.
LEMMA CloseContract ==
  ASSUME LifeInv, \/ \E g \in Groups : CloseGroup(g)
                  \/ \E p \in Registered : CloseGlobal(p)
  PROVE  Contract!Next
<1>1. ASSUME NEW g \in Groups, CloseGroup(g) PROVE Contract!Next
  <2>1. g \in open /\ open' = open \ {g} /\ UNCHANGED <<global, cfg, busy>>
    BY <1>1 DEF CloseGroup, open
  <2>2. PICK p \in Registered : p = PluginOf(g)
    BY <2>1 DEF LifeInv, TypeOK, ObjectsInv, Used, PluginOf
  <2>3. group' = group \ {<<g, p>>} /\ <<g, p>> \in group
    BY <2>1, <2>2 DEF group, PluginOf
  <2>4. busy = {}
    BY <1>1 DEF CloseGroup, Drained, LifeInv, TypeOK
  <2>5. Contract!CloseGroup(g, p)
    BY <2>1, <2>3, <2>4 DEF group, Contract!CloseGroup
  <2> QED BY <2>2, <2>5 DEF Contract!Next
<1>2. ASSUME NEW p \in Registered, CloseGlobal(p) PROVE Contract!Next
  <2>1. group = {} /\ group' = {}
    BY <1>2 DEF CloseGlobal, group, open
  <2>2. Contract!CloseGlobal(p)
    BY <1>2, <2>1 DEF CloseGlobal, group, Contract!CloseGlobal
  <2> QED BY <2>2 DEF Contract!Next
<1> QED BY <1>1, <1>2

LEMMA StepContract == LifeInv /\ [Next]_vars => [Contract!Next]_Contract!vars
<1> SUFFICES ASSUME LifeInv, [Next]_vars PROVE [Contract!Next]_Contract!vars
  OBVIOUS
<1>1. CASE Boot \/ ReadMain \/ ListConfD \/ InitDone \/ Launch \/ Signal
  BY <1>1, NoPluginStep DEF Boot, ReadMain, ListConfD, InitDone, Launch, Signal
<1>2. CASE (\E f \in ConfD : MergeFile(f)) \/ (\E f \in Sources : Edit(f)) \/ UNCHANGED vars
  BY <1>2, NoPluginStep DEF MergeFile, Edit, vars
<1>3. CASE LoadFails \/ StartFails \/ Crash
  BY <1>3, EndedExits DEF LoadFails, StartFails, Crash
<1>4. CASE Leave
  <2>1. CASE sig = "HUP"
    BY <1>4, <2>1, NoPluginStep DEF Leave
  <2>2. CASE sig # "HUP"
    BY <1>4, <2>2, EndedExits DEF Leave
  <2> QED BY <2>1, <2>2
\* Another configuration comes into force when there is no instance.
<1>5. CASE Accept
  <2>1. open = {} /\ open' = {}
    BY <1>5 DEF Accept, plugins, open, LifeInv, ObjectsInv, Loading
  <2>2. UNCHANGED <<global, group, busy>>
    BY <1>5, <2>1 DEF Accept, plugins, group
  <2> QED BY <2>2 DEF group, Contract!vars
<1>6. ASSUME NEW p \in Registered, NEW n \in MinInt..MaxInt, InitPlugin(p, n)
      PROVE  Contract!Next
  <2>1. UNCHANGED group
    BY <1>6, SameGroups DEF InitPlugin
  <2>2. Contract!InitGlobal(p)
    BY <1>6, <2>1 DEF InitPlugin, group, Contract!InitGlobal
  <2> QED BY <2>2 DEF Contract!Next
<1>7. ASSUME NEW r \in Groups \X Names, CallUpdate(r) \/ Returns(r)
      PROVE  [Contract!Next]_Contract!vars
  BY <1>7, CallContract, ReturnContract
<1> QED
  BY <1>1, <1>2, <1>3, <1>4, <1>5, <1>6, <1>7, NewContract, CloseContract DEF Next, Engine

\* Whatever the configurations, and wherever the process fails or is killed, its
\* plugins see what their interface promises (plugin.go): the engine is an
\* implementation of PluginContract.
THEOREM KeepsContract == Spec => IsContract
<1>1. Spec => Contract!Spec
  BY InitContract, StepContract, LifeTheorem, PTL DEF Spec, Contract!Spec
<1> QED BY <1>1 DEF IsContract

-----------------------------------------------------------------------------
(* Which file a setting comes from.                                        *)

Says(f, s) == s \in DOMAIN seen[f]

\* Of the files seen, f is the last to have the setting s.
LastToSay(f, s) == Says(f, s) /\ \A h \in DOMAIN seen : Says(h, s) => h <= f

\* The settings are those of the files seen, each as the last file has it, but that
\* tsig may be the table of an earlier one.
Merged ==
  /\ \A f \in DOMAIN seen : DOMAIN seen[f] \subseteq DOMAIN settings
  /\ \A s \in DOMAIN settings : s[2] # "tsig" =>
       \E f \in DOMAIN seen : LastToSay(f, s) /\ settings[s] = seen[f][s]

\* Files are merged in their order: those to come are after those seen.
MergedInv ==
  /\ phase = "main" => settings = Empty
  /\ phase \in {"list", "merge"} => Merged
  /\ phase = "list" => DOMAIN seen = {0}
  /\ \A f \in DOMAIN seen, h \in todo : f < h
  /\ LastFileWins

LEMMA FilesAreOrdered == Sources \subseteq Nat
  BY FilesAssumption DEF Sources

\* Written is what the merged settings and the environment say.
LEMMA WrittenIs ==
  ASSUME TypeOK, Merged, NEW table, NEW field, field # "tsig", NEW default
  PROVE  Written(table, field, default) =
           IF <<table, field>> \notin DOMAIN settings THEN default
           ELSE IF <<table, field>> \in DOMAIN Env THEN Env[<<table, field>>]
           ELSE settings[<<table, field>>]
<1> DEFINE s == <<table, field>>
           by == {f \in DOMAIN seen : s \in DOMAIN seen[f]}
           last == CHOOSE f \in by : \A h \in by : h <= f
<1>1. Written(table, field, default) =
        IF by = {} THEN default
        ELSE IF s \in DOMAIN Env THEN Env[s] ELSE seen[last][s]
  BY DEF Written
<1>4. s[2] # "tsig"
  OBVIOUS
<1> HIDE DEF s
<1>2. CASE s \notin DOMAIN settings
  <2>1. by = {}
    BY <1>2 DEF Merged
  <2> HIDE DEF by, last
  <2> QED BY <1>1, <1>2, <2>1 DEF s
<1>3. CASE s \in DOMAIN settings
  <2>1. PICK f \in DOMAIN seen : LastToSay(f, s) /\ settings[s] = seen[f][s]
    BY <1>3, <1>4 DEF Merged
  <2>2. f \in by /\ \A h \in by : h <= f
    BY <2>1 DEF LastToSay, Says
  <2>3. last \in by /\ \A h \in by : h <= last
    BY <2>2
  <2>4. by \subseteq Nat
    BY FilesAreOrdered DEF TypeOK
  <2>5. last = f
    <3> HIDE DEF by, last
    <3>1. f \in Nat /\ last \in Nat /\ f <= last /\ last <= f
      BY <2>2, <2>3, <2>4
    <3> QED BY <3>1
  <2> HIDE DEF last
  <2>6. by # {}
    BY <2>2
  <2> HIDE DEF by
  <2> QED BY <1>1, <1>3, <2>1, <2>5, <2>6 DEF s
<1> QED BY <1>2, <1>3

\* Reading the main file, before any other.
LEMMA ReadMainMerges ==
  ASSUME TypeOK, MergedInv, ReadMain
  PROVE  Merged'
<1>1. DOMAIN settings = {}
  BY EmptySettings DEF MergedInv, ReadMain
<1>2. DOMAIN settings' = DOMAIN files[0] /\ \A s \in DOMAIN files[0] : settings'[s] = files[0][s]
  <2>1. settings' = Merge(settings, files[0])
    BY DEF ReadMain
  <2>2. \A s : ~PassedOver(settings, files[0], s)
    BY <1>1 DEF PassedOver, IsTable
  <2>3. /\ DOMAIN Merge(settings, files[0]) = DOMAIN settings \cup DOMAIN files[0]
        /\ \A s \in DOMAIN files[0] :
             \/ Merge(settings, files[0])[s] = files[0][s]
             \/ PassedOver(settings, files[0], s)
    BY MergeIs
  <2> QED BY <1>1, <2>1, <2>2, <2>3
<1>3. DOMAIN seen' = {0} /\ seen'[0] = files[0]
  BY DEF ReadMain
<1> QED BY <1>2, <1>3 DEF Merged, LastToSay, Says

\* Merging one more, which has the last word.
LEMMA MergeFileMerges ==
  ASSUME TypeOK, MergedInv, NEW n \in ConfD, MergeFile(n)
  PROVE  Merged' /\ \A f \in DOMAIN seen', h \in todo' : f < h
<1>1. Merged /\ n \in todo /\ n \in Nat /\ \A h \in todo : h \in Nat /\ n <= h
  BY FilesAssumption DEF MergedInv, MergeFile, IsNext, TypeOK
<1>2. /\ DOMAIN seen' = DOMAIN seen \cup {n}
      /\ seen'[n] = files[n]
      /\ \A f \in DOMAIN seen \ {n} : seen'[f] = seen[f]
  BY DEF MergeFile
<1>3. n \notin DOMAIN seen /\ \A f \in DOMAIN seen : f \in Nat /\ f < n /\ f <= n
  <2>1. DOMAIN seen \subseteq Nat
    BY FilesAreOrdered DEF TypeOK
  <2>2. \A f \in DOMAIN seen : f < n
    BY <1>1 DEF MergedInv
  <2> QED BY <1>1, <2>1, <2>2
<1>4. /\ DOMAIN settings' = DOMAIN settings \cup DOMAIN files[n]
      /\ \A s \in DOMAIN files[n] : s[2] # "tsig" => settings'[s] = files[n][s]
      /\ \A s \in DOMAIN settings \ DOMAIN files[n] : settings'[s] = settings[s]
  <2>1. settings' = Merge(settings, files[n])
    BY DEF MergeFile
  <2>2. /\ DOMAIN Merge(settings, files[n]) = DOMAIN settings \cup DOMAIN files[n]
        /\ \A s \in DOMAIN files[n] :
             s[2] # "tsig" => Merge(settings, files[n])[s] = files[n][s]
        /\ \A s \in DOMAIN settings \ DOMAIN files[n] :
             Merge(settings, files[n])[s] = settings[s]
    BY MergeLast
  <2> QED BY <2>1, <2>2
<1>5. \A f \in DOMAIN seen' : DOMAIN seen'[f] \subseteq DOMAIN settings'
  BY <1>1, <1>2, <1>3, <1>4 DEF Merged
<1>6. ASSUME NEW s \in DOMAIN settings', s[2] # "tsig"
      PROVE  \E f \in DOMAIN seen' : LastToSay(f, s)' /\ settings'[s] = seen'[f][s]
  <2>1. CASE s \in DOMAIN files[n]
    <3>1. LastToSay(n, s)'
      BY <1>1, <1>2, <1>3, <2>1 DEF LastToSay, Says
    <3> QED BY <1>2, <1>4, <1>6, <2>1, <3>1
  <2>2. CASE s \notin DOMAIN files[n]
    <3>1. PICK f \in DOMAIN seen : LastToSay(f, s) /\ settings[s] = seen[f][s]
      BY <1>1, <1>4, <1>6, <2>2 DEF Merged
    <3>2. seen'[f] = seen[f] /\ f \in DOMAIN seen
      BY <1>2, <1>3, <3>1 DEF LastToSay
    <3>3. LastToSay(f, s)'
      BY <1>2, <1>3, <2>2, <3>1, <3>2 DEF LastToSay, Says
    <3>4. f \in DOMAIN seen' /\ settings'[s] = seen'[f][s]
      BY <1>2, <1>4, <2>2, <3>1, <3>2
    <3> QED BY <3>3, <3>4
  <2> QED BY <2>1, <2>2
<1>7. ASSUME NEW f \in DOMAIN seen', NEW h \in todo' PROVE f < h
  <2>1. h \in todo /\ h # n
    BY DEF MergeFile
  <2>2. h \in Nat /\ n < h
    BY <1>1, <2>1
  <2>3. CASE f = n
    BY <2>2, <2>3
  <2>4. CASE f \in DOMAIN seen
    BY <2>1, <2>4 DEF MergedInv
  <2> QED BY <1>2, <2>3, <2>4
<1> QED BY <1>5, <1>6, <1>7 DEF Merged

\* The configuration made of the merged settings is what the files say.
LEMMA AcceptWins ==
  ASSUME TypeOK, MergedInv, Accept
  PROVE  LastFileWins'
<1> DEFINE e == Effective(settings)
<1>1. Merged /\ IsSettings(settings) /\ seen' = seen
  BY DEF MergedInv, Accept, TypeOK
<1>2. cfg' = Resolve(e)
  BY DEF Accept, Loaded
<1>3. /\ DOMAIN e \subseteq DOMAIN settings \cup {<<Top, "dns_timeout">>}
      /\ \A s \in DOMAIN e : ~Shadowed(s)
      /\ \A s \in DOMAIN settings : s[2] # "tsig" /\ ~Shadowed(s) =>
           s \in DOMAIN e /\ e[s] = IF s \in DOMAIN Env THEN Env[s] ELSE settings[s]
  BY <1>1, EffectiveIs
<1> HIDE DEF e
<1>4. /\ DOMAIN cfg'.groups = GroupsIn(e)
      /\ \A g \in GroupsIn(e) :
           /\ cfg'.groups[g].plugin = Get(e, g, "plugin", "")
           /\ cfg'.groups[g].zones = Get(e, g, "zones", <<>>)
           /\ cfg'.groups[g].plugin_config = TableOf(e, g, OptionFields)
  BY <1>2, ResolveGroups
<1>5. \A table, field, default : Written(table, field, default)' = Written(table, field, default)
  BY <1>1 DEF Written
<1>6. ASSUME NEW g \in GroupsIn(e), NEW field \in (GroupFields \cup OptionFields) \ {"tsig"},
             NEW default
      PROVE  /\ <<g, field>> \in DOMAIN e
                  <=> <<g, field>> \in DOMAIN settings /\ ~Shadowed(<<g, field>>)
             /\ ~Shadowed(<<g, field>>) => Written(g, field, default) = Get(e, g, field, default)
  <2>1. <<g, field>> # <<Top, "dns_timeout">>
    BY <1>6 DEF GroupFields, OptionFields, TSIGFields
  <2>2. <<g, field>>[2] # "tsig"
    BY <1>6
  <2>3. <<g, field>> \in DOMAIN e <=> <<g, field>> \in DOMAIN settings /\ ~Shadowed(<<g, field>>)
    BY <1>3, <2>1, <2>2
  <2> QED BY <1>1, <1>3, <2>2, <2>3, WrittenIs DEF Get
<1>7. ASSUME NEW f \in DOMAIN seen, NEW s \in DOMAIN seen[f], s[1] \in Groups,
             s[2] \notin {"tsig"} \cup TSIGFields
      PROVE  s[1] \in DOMAIN cfg'.groups
  <2>1. s \in DOMAIN settings /\ s \in DOMAIN e
    BY <1>1, <1>3, <1>7 DEF Merged, Shadowed
  <2>2. PICK field \in GroupFields \cup OptionFields : s = <<s[1], field>>
    BY <1>1, <1>7, <2>1, GroupsAssumption DEF IsSettings, HasTypes, Settings
  <2>3. s[1] \in GroupsIn(e)
    BY <1>7, <2>1, <2>2 DEF GroupsIn
  <2> QED BY <1>4, <2>3
<1>8. ASSUME NEW g \in GroupsIn(e)
      PROVE  /\ cfg'.groups[g].plugin = Written(g, "plugin", "")
             /\ cfg'.groups[g].zones = Written(g, "zones", <<>>)
  <2>1. ~Shadowed(<<g, "plugin">>) /\ ~Shadowed(<<g, "zones">>)
    BY DEF Shadowed, TSIGFields
  <2> QED BY <1>4, <1>6, <2>1 DEF GroupFields
<1>9. ASSUME NEW g \in GroupsIn(e), NEW o \in OptionFields \ {"tsig"}
      PROVE  LET options == cfg'.groups[g].plugin_config
             IN IF (\E f \in DOMAIN seen : <<g, o>> \in DOMAIN seen[f]) /\ ~Shadowed(<<g, o>>)
                  THEN o \in DOMAIN options /\ options[o] = Written(g, o, 0)
                  ELSE o \notin DOMAIN options
  <2> DEFINE options == cfg'.groups[g].plugin_config
             says == \E f \in DOMAIN seen : <<g, o>> \in DOMAIN seen[f]
  <2>1. options = [f \in {f \in OptionFields : <<g, f>> \in DOMAIN e} |-> e[<<g, f>>]]
    BY <1>4 DEF TableOf
  <2> HIDE DEF options
  <2>2. says <=> <<g, o>> \in DOMAIN settings
    <3>1. <<g, o>>[2] # "tsig"
      BY <1>9
    <3> QED BY <1>1, <3>1 DEF Merged, LastToSay, Says
  <2>3. CASE <<g, o>> \in DOMAIN settings /\ ~Shadowed(<<g, o>>)
    <3>1. o \in DOMAIN options /\ options[o] = e[<<g, o>>]
      BY <1>6, <2>1, <2>3
    <3>2. Written(g, o, 0) = e[<<g, o>>]
      BY <1>6, <2>3 DEF Get
    <3> QED BY <2>2, <2>3, <3>1, <3>2 DEF options
  <2>4. CASE ~(<<g, o>> \in DOMAIN settings /\ ~Shadowed(<<g, o>>))
    <3>1. o \notin DOMAIN options
      BY <1>6, <2>1, <2>4
    <3> QED BY <2>2, <2>4, <3>1 DEF options
  <2> QED BY <2>3, <2>4
<1> QED BY <1>1, <1>4, <1>5, <1>7, <1>8, <1>9 DEF LastFileWins, OptionsOf

LEMMA InitMerged == Init => MergedInv
<1> SUFFICES ASSUME Init PROVE MergedInv
  OBVIOUS
<1>1. DOMAIN seen = {}
  BY EmptySettings DEF Init
<1> QED BY <1>1 DEF Init, MergedInv, LastFileWins, InForce

\* The end of the process, or the beginning of a Load.
LEMMA NothingMerged ==
  ASSUME settings' = Empty, seen' = Empty, phase' \in {"down", "main"}
  PROVE  MergedInv'
<1>1. DOMAIN seen' = {}
  BY EmptySettings
<1> QED BY <1>1 DEF MergedInv, LastFileWins, InForce

\* Steps that neither load nor change the configuration.
LEMMA SameMerged ==
  ASSUME MergedInv, UNCHANGED <<cfg, load>>, InForce' => InForce,
         phase' \in Loading => phase' = phase
  PROVE  MergedInv'
<1>1. Merged' = Merged
  BY DEF load, Merged, LastToSay, Says
<1>2. \A table, field, default : Written(table, field, default)' = Written(table, field, default)
  BY DEF load, Written
<1>3. LastFileWins'
  BY <1>2 DEF MergedInv, LastFileWins, load, OptionsOf
<1> QED BY <1>1, <1>3 DEF MergedInv, load, Loading

LEMMA StepMerged == TypeOK /\ MergedInv /\ [Next]_vars => MergedInv'
<1> SUFFICES ASSUME TypeOK, MergedInv, [Next]_vars PROVE MergedInv'
  OBVIOUS
<1>1. CASE Boot \/ LoadFails \/ StartFails \/ Crash \/ Leave
  BY <1>1, NothingMerged DEF Boot, BeginLoad, LoadFails, StartFails, Crash, Leave, Ended
<1>2. CASE ReadMain
  <2>1. Merged'
    BY <1>2, ReadMainMerges
  <2>2. DOMAIN seen' = {0} /\ phase' = "list" /\ todo' = todo
    BY <1>2 DEF ReadMain
  <2>3. \A h \in todo : 0 < h
    <3>1. \A h \in ConfD : 0 < h
      BY FilesAssumption
    <3> QED BY <3>1 DEF TypeOK
  <2> QED BY <2>1, <2>2, <2>3 DEF MergedInv, LastFileWins, InForce
<1>3. CASE ListConfD
  <2>1. Merged'
    BY <1>3 DEF ListConfD, MergedInv, Merged, LastToSay, Says
  <2>2. DOMAIN seen' = {0} /\ phase' = "merge" /\ todo' \subseteq ConfD
    BY <1>3 DEF ListConfD, MergedInv
  <2>3. \A h \in todo' : 0 < h
    BY <2>2, FilesAssumption
  <2> QED BY <2>1, <2>2, <2>3 DEF MergedInv, LastFileWins, InForce
<1>4. ASSUME NEW f \in ConfD, MergeFile(f) PROVE MergedInv'
  <2>1. phase' = "merge"
    BY <1>4 DEF MergeFile
  <2> QED BY <1>4, <2>1, MergeFileMerges DEF MergedInv, LastFileWins, InForce
<1>5. CASE Accept
  <2>1. phase' = "init" /\ UNCHANGED <<seen, todo>>
    BY <1>5 DEF Accept
  <2> QED BY <1>5, <2>1, AcceptWins DEF MergedInv
<1>6. CASE InitDone \/ Launch \/ Signal \/ UNCHANGED vars
  BY <1>6, SameMerged DEF InitDone, Launch, Signal, vars, InForce, Loading
<1>7. ASSUME NEW p \in Registered,
             (\E n \in MinInt..MaxInt : InitPlugin(p, n)) \/ CloseGlobal(p)
      PROVE  MergedInv'
  BY <1>7, SameMerged DEF InitPlugin, CloseGlobal, InForce
<1>8. ASSUME NEW g \in Groups, NewGroup(g) \/ CloseGroup(g) PROVE MergedInv'
  BY <1>8, SameMerged DEF NewGroup, CloseGroup, InForce
<1>9. ASSUME NEW r \in Groups \X Names, CallUpdate(r) \/ Returns(r) PROVE MergedInv'
  BY <1>9, SameMerged DEF CallUpdate, Returns, UpdateReturns, RunnerEnds, InForce
<1>10. ASSUME NEW f \in Sources, Edit(f) PROVE MergedInv'
  BY <1>10, SameMerged DEF Edit, InForce
<1> QED
  BY <1>1, <1>2, <1>3, <1>4, <1>5, <1>6, <1>7, <1>8, <1>9, <1>10 DEF Next, Engine

LEMMA MergedTheorem == Spec => []MergedInv
  BY InitMerged, StepMerged, LifecycleTypes, PTL DEF Spec

\* For any number of files, however the operator edits them while they are read,
\* the configuration in force has each setting of each group, those in a tsig table
\* too, from the last file merged that has it, or from the environment, and loses none
\* but those a variable hides.
THEOREM FilesWin == Spec => []LastFileWins
<1>1. MergedInv => LastFileWins
  BY DEF MergedInv
<1> QED BY <1>1, MergedTheorem, PTL

-----------------------------------------------------------------------------
(* Options.                                                                *)

LEMMA InitOptions == Init => OptionsAreLegal
<1> SUFFICES ASSUME Init PROVE OptionsAreLegal
  OBVIOUS
<1>1. open = {}
  BY NoInstance DEF Init
<1> QED BY <1>1 DEF Init, OptionsAreLegal

\* What is open stays as it was, if the files seen and the configuration do.
LEMMA SameOptions ==
  ASSUME OptionsAreLegal, UNCHANGED <<cfg, seen>>,
         open' \subseteq open, \A g \in open' : instance'[g] = instance[g],
         OVH \in global' => OVH \in global /\ slots' = slots
  PROVE  OptionsAreLegal'
  BY DEF OptionsAreLegal, PluginOf

LEMMA NothingOptional ==
  ASSUME open' = {}, OVH \notin global'
  PROVE  OptionsAreLegal'
  BY DEF OptionsAreLegal

\* A group with anything in a tsig table of any file has that table in its options.
LEMMA NewGroupOptions ==
  ASSUME LifeInv, LastFileWins, OptionsAreLegal, NEW g \in Groups, NewGroup(g)
  PROVE  OptionsAreLegal'
<1>1. g \in DOMAIN cfg.groups /\ InForce /\ UNCHANGED <<cfg, seen, global, slots>>
  BY DEF NewGroup, load, InForce
<1>2. PICK result \in GroupResults(PluginOf(g), OptionsOf(g)) :
        instance' = [h \in open \cup {g} |-> IF h = g THEN result ELSE instance[h]]
  BY DEF NewGroup
<1>3. /\ open' = open \cup {g}
      /\ instance'[g] = result
      /\ \A h \in open \ {g} : instance'[h] = instance[h]
  BY <1>2 DEF open
<1>4. \A o \in DOMAIN OptionsOf(g) : IsOption(OptionsOf(g)[o])
  BY <1>1 DEF LifeInv, IsConfig, OptionsOf
<1>5. ASSUME NEW f \in DOMAIN seen, NEW l \in TSIGFields,
             <<g, l>> \in DOMAIN seen[f], ~Shadowed(<<g, l>>)
      PROVE  "tsig" \in DOMAIN OptionsOf(g)
  <2>1. l \in OptionFields \ {"tsig"}
    BY <1>5 DEF OptionFields, TSIGFields
  <2>2. l \in DOMAIN OptionsOf(g)
    BY <1>1, <1>5, <2>1 DEF LastFileWins
  <2> QED BY <1>1, <2>2 DEF LifeInv, IsConfig, OptionsOf
<1>6. PluginOf(g) = RFC2136 => /\ result.port \in 1..MaxPort /\ result.ttl \in 0..MaxTTL
                               /\ "tsig" \in DOMAIN OptionsOf(g) => result.auth = "tsig"
  <2>1. RFC2136 # OVH
    BY DEF RFC2136, OVH
  <2> QED BY <1>4, <2>1, GroupResultTypes
<1> QED BY <1>1, <1>3, <1>5, <1>6 DEF OptionsAreLegal, PluginOf

LEMMA StepOptions ==
  LifeInv /\ LastFileWins /\ OptionsAreLegal /\ LifeInv' /\ [Next]_vars => OptionsAreLegal'
<1> SUFFICES ASSUME LifeInv, LastFileWins, OptionsAreLegal, LifeInv', [Next]_vars
             PROVE  OptionsAreLegal'
  OBVIOUS
<1>1. CASE phase' \in Loading \cup {"down"}
  BY <1>1, NothingOptional DEF LifeInv, ObjectsInv
<1>2. CASE Accept
  <2>1. open' = {} /\ global' = {}
    BY <1>2 DEF Accept, plugins, open, LifeInv, ObjectsInv, Loading
  <2> QED BY <2>1, NothingOptional
<1>3. ASSUME NEW p \in Registered, NEW n \in MinInt..MaxInt, InitPlugin(p, n)
      PROVE  OptionsAreLegal'
  <2>1. UNCHANGED <<cfg, seen, instance, open>> /\ global' = global \cup {p}
    BY <1>3 DEF InitPlugin, load, open
  <2>2. p = OVH => slots' \in 1..MaxInt
    <3>1. p = OVH => n > 0 /\ slots' = n
      BY <1>3 DEF InitPlugin, InitResults, LegalLimit
    <3> QED BY <3>1, Widths
  <2>3. p # OVH => slots' = slots
    BY <1>3 DEF InitPlugin
  <2> QED BY <2>1, <2>2, <2>3 DEF OptionsAreLegal, PluginOf
<1>4. ASSUME NEW g \in Groups, NewGroup(g) PROVE OptionsAreLegal'
  BY <1>4, NewGroupOptions
<1>5. ASSUME NEW g \in Groups, CloseGroup(g) PROVE OptionsAreLegal'
  <2>1. open' = open \ {g} /\ \A h \in open' : instance'[h] = instance[h]
    BY <1>5 DEF CloseGroup, open
  <2> QED BY <1>5, <2>1, SameOptions DEF CloseGroup, load
<1>6. ASSUME NEW p \in Registered, CloseGlobal(p) PROVE OptionsAreLegal'
  BY <1>6, SameOptions DEF CloseGlobal, load, open
<1>7. CASE InitDone \/ Launch \/ Signal \/ UNCHANGED vars
           \/ (\E r \in Groups \X Names : CallUpdate(r) \/ Returns(r))
           \/ (\E f \in Sources : Edit(f))
  <2>1. UNCHANGED <<cfg, seen, global, slots, instance, open>>
    BY <1>7
    DEF InitDone, Launch, Signal, vars, CallUpdate, Returns, UpdateReturns, RunnerEnds, Edit,
        load, plugins, open
  <2> QED BY <2>1, SameOptions
<1>8. CASE \/ Boot \/ ReadMain \/ ListConfD \/ LoadFails \/ StartFails \/ Crash \/ Leave
           \/ \E f \in ConfD : MergeFile(f)
  <2>1. phase' \in Loading \cup {"down"}
    BY <1>8
    DEF Boot, BeginLoad, ReadMain, ListConfD, LoadFails, StartFails, Crash, Leave, Ended,
        MergeFile, Loading
  <2> QED BY <1>1, <2>1
<1> QED BY <1>2, <1>3, <1>4, <1>5, <1>6, <1>7, <1>8 DEF Next, Engine

\* For any width of int and any options, whatever file or variable they come from,
\* no limiter is without slots, no instance has a port or TTL out of range, and
\* none goes without the signature that a table in some file asked for, unless a
\* variable hides what is in it.
THEOREM LegalOptions == Spec => []OptionsAreLegal
<1>1. MergedInv => LastFileWins
  BY DEF MergedInv
<1> QED BY <1>1, InitOptions, StepOptions, LifeTheorem, MergedTheorem, PTL DEF Spec

-----------------------------------------------------------------------------
(* No option leaves the start undecided.                                   *)

\* Init and NewGroup either give a result, one that fits, or fail.
StartGoesOn ==
  /\ phase = "init" => \A p \in Used \ global :
       \/ p \notin Registered \/ InitFails(p, cfg.plugins[p])
       \/ \E n \in MinInt..MaxInt : n \in InitResults(p, cfg.plugins[p])
  /\ phase = "groups" => \A g \in DOMAIN cfg.groups \ open :
       \/ GroupFails(PluginOf(g), OptionsOf(g))
       \/ GroupResults(PluginOf(g), OptionsOf(g)) # {}

LEMMA InitIsDecided ==
  ASSUME NEW plugin, NEW options, \A o \in DOMAIN options : IsOption(options[o]),
         ~InitFails(plugin, options)
  PROVE  \E n \in MinInt..MaxInt : n \in InitResults(plugin, options)
<1>1. CASE plugin = OVH
  <2>1. PICK n \in LimitRead(options) : LegalLimit(n) /\ WaitRead(options) # {}
    BY <1>1 DEF InitFails
  <2>2. n \in MinInt..MaxInt
    BY Widths, ParseIntTypes DEF LimitRead, DefaultConcurrency
  <2> QED BY <1>1, <2>1, <2>2 DEF InitResults
<1>2. CASE plugin # OVH
  BY <1>2, Widths DEF InitResults
<1> QED BY <1>1, <1>2

LEMMA NewGroupIsDecided ==
  ASSUME NEW plugin, NEW options, ~GroupFails(plugin, options)
  PROVE  GroupResults(plugin, options) # {}
<1>1. plugin # OVH /\ Serviceable(options)
  BY DEF GroupFails
<1>2. PICK n \in PortRead(options) : LegalPort(n)
  BY DEF GroupFails
<1>3. PICK t \in TTLRead(options) : LegalTTLOption(options, t)
  BY DEF GroupFails
<1>4. PICK a \in Authentication(options) : TRUE
  BY <1>1 DEF Serviceable
<1>5. [port |-> n, ttl |-> t, auth |-> a] \in GroupResults(plugin, options)
  BY <1>1, <1>2, <1>3, <1>4 DEF GroupResults
<1> QED BY <1>5

\* Whatever the options are, runOnce goes on with each plugin and group or gives up:
\* no type or value of an option falls between the cases of ParseIntOption and its
\* callers (limiter.go:79-119, ovhv1_plugin.go:31-73, rfc2136_plugin.go:32-105).
THEOREM StartIsDecided == Spec => []StartGoesOn
<1>1. ASSUME LifeInv PROVE StartGoesOn
  <2>1. ASSUME phase = "init", NEW p \in Registered, ~InitFails(p, cfg.plugins[p])
        PROVE  \E n \in MinInt..MaxInt : n \in InitResults(p, cfg.plugins[p])
    <3>1. p \in DOMAIN cfg.plugins
      BY <1>1, <2>1 DEF LifeInv, ObjectsInv, InForce
    <3>2. \A o \in DOMAIN cfg.plugins[p] : IsOption(cfg.plugins[p][o])
      BY <1>1, <3>1 DEF LifeInv, IsConfig
    <3> QED BY <2>1, <3>2, InitIsDecided
  <2>2. \A g : GroupFails(PluginOf(g), OptionsOf(g)) \/ GroupResults(PluginOf(g), OptionsOf(g)) # {}
    BY NewGroupIsDecided
  <2> QED BY <2>1, <2>2 DEF StartGoesOn
<1> QED BY <1>1, LifeTheorem, PTL

=============================================================================
