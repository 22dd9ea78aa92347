-------------------------- MODULE IntersightCatalog -------------------------
(* The methods the generated SDK catalog of Intersight has for the resources  *)
(* of the rule table, and the schemas of their bodies.                        *)
(*                                                                            *)
(* The resolved spec is not part of the repository, so the schemas are the    *)
(* weakest that the table fits (the loader checks that it fits): every field  *)
(* a rule names is there, with the type the rules use it at. As in the        *)
(* Intersight API each object has its two discriminators, and the elements    *)
(* of arrays have several types.                                              *)
EXTENDS RuleTable, SchemaForms, FiniteSets

(* ---------------------- the generated SDK catalog ---------------------- *)
(* Templates whose object is the name of a method of the catalog. The others  *)
(* name an object in the singular, the catalog in the plural (written as the  *)
(* resource here).                                                            *)
NamedInCatalog ==
  {"fabric.netFlowMonitors", "fabric.netFlowPolicies", "fabric.netFlowRecords",
   "fabric.pcOperations", "fabric.portModes", "fabric.portOperations",
   "fabric.sanPinGroups", "fabric.serverRoles", "fabric.spanDestEthPorts",
   "fabric.spanSessions", "fabric.spanSourceEthPortChannels", "fabric.spanSourceEthPorts",
   "fabric.spanSourceVlans", "fabric.spanSourceVnicEthIfs",
   "fabric.switchClusterProfileTemplates", "fabric.switchClusterProfiles",
   "fabric.switchControlPolicies", "fabric.switchProfileTemplates", "fabric.switchProfiles",
   "fabric.systemQosPolicies", "fabric.uplinkPcRoles", "fabric.uplinkRoles", "fabric.vlans",
   "fabric.vsans", "firmware.policies", "firmware.unsupportedVersionUpgrades",
   "firmware.upgradeImpacts", "firmware.upgradeValidities", "iam.apiKeys",
   "iam.appRegistrations", "iam.certificates", "iam.endPointUserPolicies",
   "iam.guestAccessSettings", "iam.privilegeSets", "ippool.pools", "macpool.pools",
   "memory.persistentMemoryPolicies", "memory.policies", "metrics.metricsExplorations",
   "server.diagnostics"}

CreateOnly ==
  {"inventory.Request", "iqnpool.Reservation", "fabric.SpanSourceEthPort",
   "fabric.SpanSourceEthPortChannel", "fabric.SpanSourceVlan", "fabric.SpanSourceVnicEthIf",
   "firmware.UpgradeImpact", "firmware.UpgradeValidity", "uuidpool.Reservation",
   "os.BulkInstallInfo", "search.SuggestItem", "os.TemplateFile", "workflow.TemplateParser"}

NotInCatalog ==
  {"hyperflex.ClusterReplicationNetworkPolicy", "hyperflex.NodeConfigPolicy",
   "hyperflex.LocalCredentialPolicy", "hyperflex.ProxySettingPolicy",
   "hyperflex.SoftwareVersionPolicy", "hyperflex.UcsmConfigPolicy",
   "hyperflex.SysConfigPolicy", "hyperflex.VcenterConfigPolicy",
   "hyperflex.ExtIscsiStoragePolicy", "hyperflex.ExtFcStoragePolicy"}

TableRows == RangeOf(RuleTemplates)
Resources == {t.resource : t \in TableRows} \ NotInCatalog
RulesAbout ==
  Table([r \in Resources |-> {t.rules : t \in {u \in TableRows : u.resource = r}}])
RuleSet ==
  Table([r \in Resources |->
           UNION {RangeOf(rules) : rules \in RulesAbout[r]}])

NameOr(r, named) == IF named = {} THEN r ELSE CHOOSE o \in named : TRUE
ObjectOf(r) ==
  NameOr(r, {t.object : t \in {u \in TableRows : u.resource = r}} \cap NamedInCatalog)

VerbsOf(r) == IF r \in CreateOnly THEN {"create"} ELSE {"create", "post", "update"}

DeleteNtpPolicy ==
  [object |-> "ntp.policies", verb |-> "delete", resource |-> "Error",
   operation |-> <<"ntp.Policy", "delete">>, moid |-> TRUE, body |-> ""]

SdkMethods ==
  {[object |-> ObjectOf(p[1]), verb |-> p[2], resource |-> p[1], operation |-> p,
    moid |-> p[2] # "create", body |-> p[1]]
     : p \in {q \in Resources \X {"create", "post", "update"} : q[2] \in VerbsOf(q[1])}}
    \cup {DeleteNtpPolicy}

(* ------------------------------- schemas ------------------------------- *)
PlainTargets == {"", "syslog.LocalClientBase", "compute.PcieZone",
                 "scheduler.BaseScheduleParams"}

Use(path, as, target) == [path |-> path, as |-> as, target |-> target]

UsesOf(rule) ==
  {Use(rule.when.field, v.k, "") : v \in rule.when.in} \cup
  CASE rule.check = "require" /\ rule.target \notin PlainTargets ->
         {Use(rule.field, IF rule.minCount > 0 THEN "refs" ELSE "ref", rule.target)}
    [] rule.check = "require" /\ rule.target \in PlainTargets /\ rule.minCount > 0 ->
         {Use(rule.field, "list", "")}
    [] rule.check = "requireAny" -> {Use(f, "str", "") : f \in rule.fields}
    [] rule.check = "minimum" -> {Use(rule.field, "num", "")}
    [] rule.check = "custom" ->
         CASE rule.validator \in {"netflow_key_fields", "netflow_non_key_fields"} ->
                {Use(Append(rule.field, "Counted"), "bool", "")}
           [] rule.validator = "native_vlan_in_allowed_vlans" ->
                {Use(Append(rule.field, "NativeVlan"), "num", "")}
           [] rule.validator = "ippool_ipv4_blocks_require_config" ->
                {Use(<<"IpV4Blocks", "[]", "IpV4Config", "Netmask">>, "str", ""),
                 Use(<<"IpV4Config", "Netmask">>, "str", "")}
           [] rule.validator = "persistent_memory_os_mode" ->
                {Use(<<"ManagementMode">>, "str", ""), Use(<<"Goals">>, "list", "")}
           [] rule.validator = "iqnpool_suffix_blocks_require_suffix" ->
                {Use(<<"IqnSuffixBlocks", "[]", "Suffix">>, "str", "")}
           [] OTHER -> {Use(rule.field, "str", "")}
    [] OTHER -> {Use(rule.field, "str", "")}

Uses ==
  Table([r \in Resources |->
           {u \in UNION {UsesOf(rule) : rule \in RuleSet[r]} : u.path # <<>>}])

Typed(type) == [AnySchema EXCEPT !.type = type]
ArrayOf(s) == [Typed("array") EXCEPT !.items = <<s>>]
Relationship(target) ==
  [Typed("object") EXCEPT !.relationship = TRUE, !.target = target,
                          !.forms = {"moidRef", "typedMoRef"}]
Discriminator(values) == [Typed("string") EXCEPT !.enum = values]

Leaf(us) ==
  LET as == {u.as : u \in us}
      target == CHOOSE t \in {u.target : u \in us} :
                  t # "" \/ \A u \in us : u.target = ""
  IN  CASE "refs" \in as -> ArrayOf(Relationship(target))
        [] "refs" \notin as /\ "ref" \in as -> Relationship(target)
        [] as \cap {"refs", "ref"} = {} /\ "list" \in as -> ArrayOf(Typed("string"))
        [] as \cap {"refs", "ref", "list"} = {} /\ "num" \in as -> Typed("integer")
        [] as \cap {"refs", "ref", "list", "num"} = {} /\ "bool" \in as -> Typed("boolean")
        [] OTHER -> Typed("string")

(* The schema of the part that the uses are about, their paths cut to it.     *)
RECURSIVE Tree(_)
Tree(us) ==
  LET deeper == {u \in us : u.path # <<>>}
      names == {Head(u.path) : u \in deeper}
      under(x) == {[u EXCEPT !.path = Tail(@)] : u \in {w \in deeper : Head(w.path) = x}}
      fields == Table([x \in names |-> Tree(under(x))])
  IN  IF deeper = {} THEN Leaf(us)
      ELSE IF "[]" \in names
      THEN LET item == Tree(under("[]"))
               types == Discriminator({Str("resource.GpuQualifier"), Str("other.Type")})
           IN  ArrayOf([item EXCEPT !.required = {"ClassId", "ObjectType"},
                  !.properties = ("ClassId" :> types) @@ ("ObjectType" :> types) @@ @])
      ELSE [Typed("object") EXCEPT !.properties = fields]

Resource(r) ==
  LET type == Discriminator({Str(r)}) IN
    [Tree(Uses[r] \cup {Use(<<"Moid">>, "str", "")}) EXCEPT
       !.required = {"ClassId", "ObjectType"},
       !.properties = ("ClassId" :> type) @@ ("ObjectType" :> type) @@ @]

Targets == (PlainTargets \cup UNION {{u.target : u \in Uses[r]} : r \in Resources}) \ {""}
PlainResource == [Typed("object") EXCEPT !.properties = [x \in {"Moid"} |-> Typed("string")]]
SpecSchemas ==
  Table([r \in Resources \cup Targets |->
           IF r \in Resources THEN Resource(r) ELSE PlainResource])
=============================================================================
