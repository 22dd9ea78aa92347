----------------------------- MODULE RuleTable -----------------------------
(* The rule templates of the Intersight provider                              *)
(* (implementations/intersight/rules.go), in the order of the code. The       *)
(* templates of one object that state the same rules for several verbs share  *)
(* a row; each verb is a template of its own, as in the code.                 *)
EXTENDS RuleForms

Creates == <<"create">>
CreatesPosts == <<"create", "post">>
Writes == <<"create", "post", "update">>
AllWrites == <<"create", "post", "update", "patch">>
Changes == <<"post", "update">>
Updates == <<"update">>
Patches == <<"patch">>

Row(object, resource, verbs, rules) ==
  [i \in DOMAIN verbs |->
     [object |-> object, verb |-> verbs[i], resource |-> resource, rules |-> rules]]

Needs(field) == RequiredRule(<<field>>, "", 0)
Refers(field, target) == RequiredRule(<<field>>, target, 0)
Lists(field) == RequiredRule(<<field>>, "", 1)
NeedsWhen(field, values, needed) ==
  ConditionalRequireRule(field, values, FieldRule(needed, "", 0))
RefersWhen(field, values, needed, target) ==
  ConditionalRequireRule(field, values, FieldRule(<<needed>>, target, 0))

InOrganization == <<Refers("Organization", "organization.Organization")>>
NamedInOrganization == <<Needs("Name")>> \o InOrganization
OfPortPolicy == <<Refers("PortPolicy", "fabric.PortPolicy")>>

MacAddressRules ==
  <<RefersWhen(<<"MacAddressType">>, {Str("POOL")}, "MacPool", "macpool.Pool"),
    ConditionalForbidRule(<<"MacAddressType">>, {Str("POOL")}, <<"StaticMacAddress">>),
    NeedsWhen(<<"MacAddressType">>, {Str("STATIC")}, <<"StaticMacAddress">>),
    ConditionalForbidRule(<<"MacAddressType">>, {Str("STATIC")}, <<"MacPool">>),
    NeedsWhen(<<"Placement", "SwitchId">>, {Str("A"), Str("B")}, <<"Placement", "AutoSlotId">>)>>

WwnnAddressRules ==
  <<RefersWhen(<<"WwnnAddressType">>, {Str("POOL")}, "WwnnPool", "fcpool.Pool"),
    ConditionalForbidRule(<<"WwnnAddressType">>, {Str("POOL")}, <<"StaticWwnnAddress">>),
    NeedsWhen(<<"WwnnAddressType">>, {Str("STATIC")}, <<"StaticWwnnAddress">>),
    ConditionalForbidRule(<<"WwnnAddressType">>, {Str("STATIC")}, <<"WwnnPool">>)>>

VlanModeRules ==
  <<NeedsWhen(<<"VlanSettings", "Mode">>, {Str("ACCESS")}, <<"VlanSettings", "DefaultVlan">>),
    NeedsWhen(<<"VlanSettings", "Mode">>, {Str("TRUNK")}, <<"VlanSettings", "AllowedVlans">>),
    NeedsWhen(<<"VlanSettings", "QinqEnabled">>, {Bool(TRUE)}, <<"VlanSettings", "QinqVlan">>),
    ConditionalMinimumRule(<<"VlanSettings", "QinqEnabled">>, {Bool(TRUE)}, <<"VlanSettings", "QinqVlan">>, 2)>>

QinqRules ==
  <<NeedsWhen(<<"VlanSettings", "QinqEnabled">>, {Bool(TRUE)}, <<"VlanSettings", "QinqVlan">>),
    ConditionalMinimumRule(<<"VlanSettings", "QinqEnabled">>, {Bool(TRUE)}, <<"VlanSettings", "QinqVlan">>, 2)>>

FromAaaRetentionPolicy ==
  Row("aaa.retentionPolicy", "aaa.RetentionPolicy", Writes,
      <<Needs("RetentionPeriod"), MinimumRule(<<"RetentionPeriod">>, 6)>>) \o
  Row("access.policy", "access.Policy", Writes,
      <<Needs("ConfigurationType"),
        RefersWhen(<<"ConfigurationType", "ConfigureInband">>, {Bool(TRUE)}, "InbandIpPool", "ippool.Pool"),
        ConditionalMinimumRule(<<"ConfigurationType", "ConfigureInband">>, {Bool(TRUE)}, <<"InbandVlan">>, 4)>>) \o
  Row("adapter.configPolicy", "adapter.ConfigPolicy", Writes,
      <<Lists("Settings"), EachRequiredRule(<<"Settings", "[]", "SlotId">>)>>) \o
  Row("appliance.dataExportPolicy", "appliance.DataExportPolicy", AllWrites,
      <<ForbidRule(<<"Name">>)>>) \o
  Row("cond.alarmSuppression", "cond.AlarmSuppression", CreatesPosts,
      <<Needs("StartDate"), OneOfRule({<<"Entity">>, <<"AlarmRules">>})>>) \o
  Row("cond.alarmSuppression", "cond.AlarmSuppression", Updates,
      <<OneOfRule({<<"Entity">>, <<"AlarmRules">>})>>) \o
  Row("cond.thresholdDefinition", "cond.ThresholdDefinition", Writes, <<Needs("Condition")>>)

FromCommHttpProxyPolicy ==
  Row("comm.httpProxyPolicy", "comm.HttpProxyPolicy", Writes, <<Needs("Hostname")>>) \o
  Row("comm.tagDefinition", "comm.TagDefinition", Writes, <<Needs("Key")>>) \o
  Row("deviceconnector.policy", "deviceconnector.Policy", Writes, InOrganization) \o
  Row("fcpool.pool", "fcpool.Pool", Writes,
      <<Needs("PoolPurpose"), Refers("Organization", "organization.Organization")>>) \o
  Row("fcpool.reservation", "fcpool.Reservation", Writes,
      <<Refers("Organization", "organization.Organization"),
        OneOfRule({<<"AllocationType">>, <<"Pool">>}),
        RefersWhen(<<"AllocationType">>, {Str("dynamic")}, "Pool", "fcpool.Pool"),
        ConditionalForbidRule(<<"AllocationType">>, {Str("static")}, <<"Pool">>)>>) \o
  Row("inventory.request", "inventory.Request", Writes,
      <<Refers("Device", "asset.DeviceRegistration")>>)

FromIppoolReservation ==
  Row("ippool.reservation", "ippool.Reservation", Writes,
      <<OneOfRule({<<"AllocationType">>, <<"Pool">>}),
        RefersWhen(<<"AllocationType">>, {Str("dynamic")}, "Pool", "ippool.Pool"),
        NeedsWhen(<<"AllocationType">>, {Str("dynamic")}, <<"Identity">>),
        ConditionalForbidRule(<<"AllocationType">>, {Str("static")}, <<"Pool">>)>>) \o
  Row("ippool.pools", "ippool.Pool", Writes,
      <<Needs("Name"), Refers("Organization", "organization.Organization"),
        CustomRule(<<>>, "ippool_ipv4_blocks_require_config")>>) \o
  Row("iqnpool.pool", "iqnpool.Pool", Writes,
      <<Needs("Name"), Refers("Organization", "organization.Organization"), Needs("Prefix"),
        CustomRule(<<>>, "iqnpool_suffix_blocks_require_suffix")>>) \o
  Row("iqnpool.reservation", "iqnpool.Reservation", Writes,
      <<OneOfRule({<<"AllocationType">>, <<"Pool">>}),
        RefersWhen(<<"AllocationType">>, {Str("dynamic")}, "Pool", "iqnpool.Pool"),
        ConditionalForbidRule(<<"AllocationType">>, {Str("static")}, <<"Pool">>)>>) \o
  Row("macpool.pools", "macpool.Pool", Writes, NamedInOrganization)

FromMacpoolReservation ==
  Row("macpool.reservation", "macpool.Reservation", Writes,
      <<OneOfRule({<<"AllocationType">>, <<"Pool">>}),
        RefersWhen(<<"AllocationType">>, {Str("dynamic")}, "Pool", "macpool.Pool"),
        NeedsWhen(<<"AllocationType">>, {Str("dynamic")}, <<"Identity">>),
        ConditionalForbidRule(<<"AllocationType">>, {Str("static")}, <<"Pool">>)>>) \o
  Row("memory.policies", "memory.Policy", Writes, NamedInOrganization) \o
  Row("memory.persistentMemoryPolicies", "memory.PersistentMemoryPolicy", Writes,
      <<Needs("Name"), Refers("Organization", "organization.Organization"),
        CustomRule(<<>>, "persistent_memory_os_mode")>>) \o
  Row("metrics.metricsExplorations", "metrics.MetricsExploration", Writes, InOrganization) \o
  Row("compute.pcieConnectivityPolicy", "compute.PcieConnectivityPolicy", Writes,
      <<RequiredRule(<<"PcieZones">>, "compute.PcieZone", 1)>>) \o
  Row("auditd.policy", "auditd.Policy", Creates, InOrganization)

FromVnicEthIf ==
  Row("vnic.ethIf", "vnic.EthIf", Writes,
      <<Refers("LanConnectivityPolicy", "vnic.LanConnectivityPolicy"),
        Refers("EthAdapterPolicy", "vnic.EthAdapterPolicy"),
        Refers("EthQosPolicy", "vnic.EthQosPolicy"),
        Refers("FabricEthNetworkControlPolicy", "fabric.EthNetworkControlPolicy"),
        RequiredRule(<<"FabricEthNetworkGroupPolicy">>, "fabric.EthNetworkGroupPolicy", 1)>> \o MacAddressRules) \o
  Row("vnic.ethIf", "vnic.EthIf", Patches, MacAddressRules) \o
  Row("vnic.lanConnectivityPolicy", "vnic.LanConnectivityPolicy", AllWrites,
      <<RefersWhen(<<"IqnAllocationType">>, {Str("Pool")}, "IqnPool", "iqnpool.Pool"),
        ConditionalForbidRule(<<"IqnAllocationType">>, {Str("Pool")}, <<"StaticIqnName">>),
        NeedsWhen(<<"IqnAllocationType">>, {Str("Static")}, <<"StaticIqnName">>),
        ConditionalForbidRule(<<"IqnAllocationType">>, {Str("Static")}, <<"IqnPool">>)>>) \o
  Row("vnic.ethNetworkPolicy", "vnic.EthNetworkPolicy", Writes, InOrganization)

FromVnicSanConnectivityPolicy ==
  Row("vnic.sanConnectivityPolicy", "vnic.SanConnectivityPolicy", Writes,
      <<Needs("WwnnAddressType")>> \o WwnnAddressRules) \o
  Row("vnic.sanConnectivityPolicy", "vnic.SanConnectivityPolicy", Patches, WwnnAddressRules) \o
  Row("vnic.ethNetworkPolicy", "vnic.EthNetworkPolicy", Patches, <<>>) \o
  Row("vnic.ethAdapterPolicy", "vnic.EthAdapterPolicy", AllWrites,
      <<NeedsWhen(<<"EtherChannelPinningEnabled">>, {Bool(TRUE)}, <<"TxQueueSettings">>),
        ConditionalMinimumRule(<<"EtherChannelPinningEnabled">>, {Bool(TRUE)}, <<"TxQueueSettings", "Count">>, 2)>>) \o
  Row("fabric.ethNetworkGroupPolicy", "fabric.EthNetworkGroupPolicy", Writes,
      <<Needs("VlanSettings"), RequiredRule(<<"VlanSettings", "AllowedVlans">>, "", 0),
        CustomRule(<<"VlanSettings">>, "native_vlan_in_allowed_vlans")>>) \o
  Row("fabric.ethNetworkGroupPolicy", "fabric.EthNetworkGroupPolicy", Patches, <<>>) \o
  Row("fabric.macSecPolicy", "fabric.MacSecPolicy", Writes, <<Needs("PrimaryKeyChain")>>)

FromFabricFlowControlPolicy ==
  Row("fabric.flowControlPolicy", "fabric.FlowControlPolicy", Writes,
      <<
        ConditionalCustomRule(<<"PriorityFlowControlMode">>, {Str("auto"), Str("on")}, <<"ReceiveDirection">>, "disabled_string"),
        ConditionalCustomRule(<<"PriorityFlowControlMode">>, {Str("auto"), Str("on")}, <<"SendDirection">>, "disabled_string")>>) \o
  Row("fabric.multicastPolicy", "fabric.MulticastPolicy", Writes,
      <<NeedsWhen(<<"QuerierState">>, {Str("Enabled")}, <<"QuerierIpAddress">>)>>) \o
  Row("fabric.netFlowMonitors", "fabric.NetFlowMonitor", Writes,
      <<Refers("NetFlowPolicy", "fabric.NetFlowPolicy"),
        Refers("FlowRecord", "fabric.NetFlowRecord"),
        RequiredRule(<<"FlowExporters">>, "fabric.NetFlowExporter", 1)>>) \o
  Row("fabric.netFlowPolicies", "fabric.NetFlowPolicy", Writes, InOrganization) \o
  Row("fabric.netFlowExporter", "fabric.NetFlowExporter", Writes,
      <<Refers("NetFlowPolicy", "fabric.NetFlowPolicy")>>)

FromFabricNetFlowRecord ==
  Row("fabric.netFlowRecords", "fabric.NetFlowRecord", Writes,
      <<Refers("NetFlowPolicy", "fabric.NetFlowPolicy"), Needs("RecordType"), Needs("FlowNonKey"),
        CustomRule(<<"RecordType">>, "netflow_record_type"),
        NeedsWhen(<<"RecordType">>, {Str("IPv4")}, <<"Ipv4FlowKey">>),
        ConditionalForbidRule(<<"RecordType">>, {Str("IPv4")}, <<"Ipv6FlowKey">>),
        ConditionalForbidRule(<<"RecordType">>, {Str("IPv4")}, <<"L2FlowKey">>),
        ConditionalCustomRule(<<"RecordType">>, {Str("IPv4")}, <<"Ipv4FlowKey">>, "netflow_key_fields"),
        NeedsWhen(<<"RecordType">>, {Str("IPv6")}, <<"Ipv6FlowKey">>),
        ConditionalForbidRule(<<"RecordType">>, {Str("IPv6")}, <<"Ipv4FlowKey">>),
        ConditionalForbidRule(<<"RecordType">>, {Str("IPv6")}, <<"L2FlowKey">>),
        ConditionalCustomRule(<<"RecordType">>, {Str("IPv6")}, <<"Ipv6FlowKey">>, "netflow_key_fields"),
        NeedsWhen(<<"RecordType">>, {Str("L2")}, <<"L2FlowKey">>),
        ConditionalForbidRule(<<"RecordType">>, {Str("L2")}, <<"Ipv4FlowKey">>),
        ConditionalForbidRule(<<"RecordType">>, {Str("L2")}, <<"Ipv6FlowKey">>),
        ConditionalCustomRule(<<"RecordType">>, {Str("L2")}, <<"L2FlowKey">>, "netflow_key_fields"),
        CustomRule(<<"FlowNonKey">>, "netflow_non_key_fields")>>) \o
  Row("fabric.vlans", "fabric.Vlan", Writes,
      <<Refers("MulticastPolicy", "fabric.MulticastPolicy"), ForbidRule(<<"VlanSet">>)>>) \o
  Row("fabric.vsans", "fabric.Vsan", Writes,
      <<Needs("FcoeVlan"), MinimumRule(<<"FcoeVlan">>, 1)>>) \o
  Row("fabric.pcOperations", "fabric.PcOperation", Writes,
      <<Refers("NetworkElement", "network.Element")>>)

FromFabricPortMode ==
  Row("fabric.portModes", "fabric.PortMode", Writes, OfPortPolicy) \o
  Row("fabric.portOperations", "fabric.PortOperation", Writes,
      <<Refers("NetworkElement", "network.Element")>>) \o
  Row("fabric.fcStorageRole", "fabric.FcStorageRole", Writes, OfPortPolicy) \o
  Row("fabric.fcUplinkRole", "fabric.FcUplinkRole", Writes, OfPortPolicy) \o
  Row("fabric.fcUplinkPcRole", "fabric.FcUplinkPcRole", Writes, OfPortPolicy) \o
  Row("fabric.fcoeUplinkRole", "fabric.FcoeUplinkRole", Writes, OfPortPolicy) \o
  Row("fabric.fcoeUplinkPcRole", "fabric.FcoeUplinkPcRole", Writes, OfPortPolicy)

FromFabricApplianceRole ==
  Row("fabric.applianceRole", "fabric.ApplianceRole", Writes,
      <<Refers("PortPolicy", "fabric.PortPolicy"),
        Refers("EthNetworkControlPolicy", "fabric.EthNetworkControlPolicy"),
        Refers("EthNetworkGroupPolicy", "fabric.EthNetworkGroupPolicy")>>) \o
  Row("fabric.appliancePcRole", "fabric.AppliancePcRole", Writes, OfPortPolicy) \o
  Row("fabric.lanPinGroup", "fabric.LanPinGroup", Writes, OfPortPolicy) \o
  Row("fabric.sanPinGroups", "fabric.SanPinGroup", Writes, OfPortPolicy) \o
  Row("fabric.serverRoles", "fabric.ServerRole", Writes, OfPortPolicy) \o
  Row("fabric.spanDestEthPorts", "fabric.SpanDestEthPort", Writes,
      <<Refers("SpanSession", "fabric.SpanSession")>>)

FromFabricSpanSession ==
  Row("fabric.spanSessions", "fabric.SpanSession", Writes,
      <<Refers("NetworkElement", "network.Element")>>) \o
  Row("fabric.spanSourceEthPorts", "fabric.SpanSourceEthPort", Creates,
      <<Refers("SpanSession", "fabric.SpanSession")>>) \o
  Row("fabric.spanSourceEthPortChannels", "fabric.SpanSourceEthPortChannel", Creates,
      <<Refers("SpanSession", "fabric.SpanSession")>>) \o
  Row("fabric.spanSourceVlans", "fabric.SpanSourceVlan", Creates,
      <<Refers("SpanSession", "fabric.SpanSession")>>) \o
  Row("fabric.spanSourceVnicEthIfs", "fabric.SpanSourceVnicEthIf", Creates,
      <<Refers("SpanSession", "fabric.SpanSession"), ForbidRule(<<"Name">>)>>) \o
  Row("fabric.switchClusterProfiles", "fabric.SwitchClusterProfile", Writes, InOrganization) \o
  Row("fabric.switchClusterProfileTemplates", "fabric.SwitchClusterProfileTemplate", Writes,
      InOrganization) \o
  Row("fabric.switchControlPolicies", "fabric.SwitchControlPolicy", Writes, InOrganization) \o
  Row("fabric.switchProfiles", "fabric.SwitchProfile", Writes,
      <<Refers("SwitchClusterProfile", "fabric.SwitchClusterProfile")>>)

FromFabricSwitchProfileTemplate ==
  Row("fabric.switchProfileTemplates", "fabric.SwitchProfileTemplate", Writes,
      <<Refers("SwitchClusterProfileTemplate", "fabric.SwitchClusterProfileTemplate")>>) \o
  Row("fabric.systemQosPolicies", "fabric.SystemQosPolicy", Writes, InOrganization) \o
  Row("fabric.uplinkPcRoles", "fabric.UplinkPcRole", Writes, OfPortPolicy) \o
  Row("fabric.uplinkRoles", "fabric.UplinkRole", Writes, OfPortPolicy) \o
  Row("hyperflex.clusterReplicationNetworkPolicy", "hyperflex.ClusterReplicationNetworkPolicy", Writes,
      <<Lists("ReplicationIpranges")>>) \o
  Row("hyperflex.nodeConfigPolicy", "hyperflex.NodeConfigPolicy", Writes,
      <<Needs("MgmtIpRange")>>)

FromHyperflexLocalCredentialPolicy ==
  Row("hyperflex.localCredentialPolicy", "hyperflex.LocalCredentialPolicy", Writes,
      <<Needs("HxdpRootPwd"), Needs("HypervisorAdmin"), Needs("HypervisorAdminPwd")>>) \o
  Row("hyperflex.proxySettingPolicy", "hyperflex.ProxySettingPolicy", Writes,
      <<Needs("Hostname"), MinimumRule(<<"Port">>, 1)>>) \o
  Row("hyperflex.softwareVersionPolicy", "hyperflex.SoftwareVersionPolicy", Writes,
      <<Needs("HxdpVersion"), Lists("UpgradeTypes")>>) \o
  Row("iam.certificates", "iam.Certificate", Writes,
      <<OneOfRule({<<"Certificate">>, <<"CertificateRequest">>})>>) \o
  Row("iam.apiKeys", "iam.ApiKey", Writes,
      <<ForbidRule(<<"User">>), ForbidRule(<<"Permission">>)>>) \o
  Row("iam.ldapPolicy", "iam.LdapPolicy", Writes, <<Needs("Enabled"), Needs("BaseProperties")>>)

FromHyperflexUcsmConfigPolicy ==
  Row("hyperflex.ucsmConfigPolicy", "hyperflex.UcsmConfigPolicy", Writes,
      <<Needs("ServerFirmwareVersion")>>) \o
  Row("hyperflex.sysConfigPolicy", "hyperflex.SysConfigPolicy", Writes,
      <<Lists("DnsServers"), Lists("NtpServers")>>) \o
  Row("hyperflex.vcenterConfigPolicy", "hyperflex.VcenterConfigPolicy", Writes,
      <<Needs("DataCenter"), Needs("Hostname"), Needs("Username"), Needs("Password")>>) \o
  Row("firmware.policies", "firmware.Policy", Writes, InOrganization) \o
  Row("firmware.unsupportedVersionUpgrades", "firmware.UnsupportedVersionUpgrade", Writes, <<>>) \o
  Row("firmware.upgradeImpacts", "firmware.UpgradeImpact", Creates,
      <<OneOfRule({<<"Server">>, <<"NetworkElements">>, <<"Chassis">>, <<"PciNode">>})>>) \o
  Row("firmware.upgradeValidities", "firmware.UpgradeValidity", Creates,
      <<Refers("Server", "compute.Physical")>>) \o
  Row("ntp.policy", "ntp.Policy", Writes,
      <<Needs("Name"), OneOfRule({<<"NtpServers">>, <<"AuthenticatedNtpServers">>})>>)

FromOrganizationOrganization ==
  Row("organization.organization", "organization.Organization", Writes, <<Needs("Name")>>) \o
  Row("fabric.portPolicy", "fabric.PortPolicy", Writes, NamedInOrganization) \o
  Row("server.profile", "server.Profile", Writes, NamedInOrganization) \o
  Row("recovery.backupConfigPolicy", "recovery.BackupConfigPolicy", Writes,
      <<Needs("FileNamePrefix")>>) \o
  Row("recovery.backupProfile", "recovery.BackupProfile", Writes, InOrganization) \o
  Row("recovery.scheduleConfigPolicy", "recovery.ScheduleConfigPolicy", Writes,
      <<Needs("Schedule"), RequiredRule(<<"Schedule", "ExecutionTime">>, "", 0)>>)

FromRecoveryOnDemandBackup ==
  Row("recovery.onDemandBackup", "recovery.OnDemandBackup", Writes, <<Needs("FileNamePrefix")>>) \o
  Row("resourcepool.pool", "resourcepool.Pool", Writes,
      <<NeedsWhen(<<"ResourceType">>, {Str("Server")}, <<"ResourcePoolParameters">>),
        NeedsWhen(<<"ResourceType">>, {Str("Mixed")}, <<"ResourcePoolParameters">>)>>) \o
  Row("resourcepool.qualificationPolicy", "resourcepool.QualificationPolicy", Writes,
      <<Lists("Qualifiers")>>) \o
  Row("smtp.policy", "smtp.Policy", Writes, <<Needs("SmtpServer")>>) \o
  Row("syslog.policy", "syslog.Policy", Writes,
      <<RequiredRule(<<"LocalClients">>, "syslog.LocalClientBase", 1)>>) \o
  Row("scheduler.taskSchedule", "scheduler.TaskSchedule", Writes,
      <<RefersWhen(<<"UsePolicy">>, {Bool(TRUE)}, "Policy", "scheduler.SchedulePolicy"),
        RequiredRule(<<"TaskRequest", "Url">>, "", 0)>>)

FromServerDiagnostics ==
  Row("server.diagnostics", "server.Diagnostics", Writes,
      <<Refers("Server", "compute.Physical"), Lists("ComponentList")>>) \o
  Row("storage.driveSecurityPolicy", "storage.DriveSecurityPolicy", Writes,
      <<Needs("KeySetting")>>) \o
  Row("uuidpool.pool", "uuidpool.Pool", Writes, <<Needs("Prefix")>>) \o
  Row("uuidpool.reservation", "uuidpool.Reservation", Writes,
      <<Refers("Organization", "organization.Organization"),
        OneOfRule({<<"AllocationType">>, <<"Pool">>}),
        RefersWhen(<<"AllocationType">>, {Str("dynamic")}, "Pool", "uuidpool.Pool"),
        ConditionalForbidRule(<<"AllocationType">>, {Str("static")}, <<"Pool">>)>>) \o
  Row("vnic.iscsiAdapterPolicy", "vnic.IscsiAdapterPolicy", Writes,
      <<MinimumRule(<<"DhcpTimeout">>, 60)>>) \o
  Row("vnic.iscsiBootPolicy", "vnic.IscsiBootPolicy", Writes, <<Needs("PrimaryTargetPolicy")>>) \o
  Row("vnic.ethQosPolicy", "vnic.EthQosPolicy", Creates, InOrganization)

FromVnicFcAdapterPolicy ==
  Row("vnic.fcAdapterPolicy", "vnic.FcAdapterPolicy", Creates,
      <<MinimumRule(<<"ErrorDetectionTimeout">>, 1000)>>) \o
  Row("vnic.fcQosPolicy", "vnic.FcQosPolicy", Creates, <<>>) \o
  Row("vnic.fcIf", "vnic.FcIf", Creates, <<Needs("Placement")>>) \o
  Row("vnic.iscsiStaticTargetPolicy", "vnic.IscsiStaticTargetPolicy", Writes,
      <<Needs("IpAddress"), Needs("IscsiIpType"), Needs("Port"), Needs("TargetName"),
        Needs("Lun")>>) \o
  Row("hyperflex.extIscsiStoragePolicy", "hyperflex.ExtIscsiStoragePolicy", Writes,
      <<Needs("ExtaTraffic"), RequiredRule(<<"ExtaTraffic", "Name">>, "", 0),
        RequiredRule(<<"ExtaTraffic", "VlanId">>, "", 0), Needs("ExtbTraffic"),
        RequiredRule(<<"ExtbTraffic", "Name">>, "", 0),
        RequiredRule(<<"ExtbTraffic", "VlanId">>, "", 0)>>) \o
  Row("hyperflex.extFcStoragePolicy", "hyperflex.ExtFcStoragePolicy", Writes,
      <<Needs("ExtaTraffic"), RequiredRule(<<"ExtaTraffic", "Name">>, "", 0),
        RequiredRule(<<"ExtaTraffic", "VsanId">>, "", 0), Needs("ExtbTraffic"),
        RequiredRule(<<"ExtbTraffic", "Name">>, "", 0),
        RequiredRule(<<"ExtbTraffic", "VsanId">>, "", 0), Needs("WwxnPrefixRange"),
        RequiredRule(<<"WwxnPrefixRange", "StartAddr">>, "", 0),
        RequiredRule(<<"WwxnPrefixRange", "EndAddr">>, "", 0)>>)

FromSmtpPolicyTest ==
  Row("smtp.policyTest", "smtp.PolicyTest", Writes,
      <<Refers("Policy", "smtp.Policy"), Lists("Recipients")>>) \o
  Row("cond.alarmSuppression", "cond.AlarmSuppression", CreatesPosts,
      <<Needs("StartDate"), OneOfRule({<<"Entity">>, <<"AlarmRules">>}),
        EachRequiredRule(<<"AlarmRules", "[]", "Property">>)>>) \o
  Row("cond.alarmSuppression", "cond.AlarmSuppression", Updates,
      <<OneOfRule({<<"Entity">>, <<"AlarmRules">>}),
        EachRequiredRule(<<"AlarmRules", "[]", "Property">>)>>) \o
  Row("compute.pcieConnectivityPolicy", "compute.PcieConnectivityPolicy", Writes,
      <<RequiredRule(<<"PcieZones">>, "compute.PcieZone", 1),
        EachRequiredRule(<<"PcieZones", "[]", "RootPcieEndpoint">>)>>) \o
  Row("vnic.ethNetworkPolicy", "vnic.EthNetworkPolicy", Writes,
      <<Needs("VlanSettings")>> \o VlanModeRules) \o
  Row("vnic.ethNetworkPolicy", "vnic.EthNetworkPolicy", Patches, VlanModeRules) \o
  Row("fabric.ethNetworkGroupPolicy", "fabric.EthNetworkGroupPolicy", Writes,
      <<Needs("VlanSettings"),
        RequiredRule(<<"VlanSettings", "AllowedVlans">>, "", 0)>> \o QinqRules)

FromFabricEthNetworkGroupPolicy ==
  Row("fabric.ethNetworkGroupPolicy", "fabric.EthNetworkGroupPolicy", Patches, QinqRules) \o
  Row("asset.target", "asset.Target", Writes, <<Lists("Connections")>>) \o
  Row("firmware.serverConfigurationUtilityDistributable", "firmware.ServerConfigurationUtilityDistributable", Writes,
      <<Lists("SupportedModels")>>) \o
  Row("workflow.ansibleBatchExecutor", "workflow.AnsibleBatchExecutor", Writes,
      <<Lists("Batch")>>) \o
  Row("workflow.batchApiExecutor", "workflow.BatchApiExecutor", Writes, <<Lists("Batch")>>) \o
  Row("workflow.powerShellBatchApiExecutor", "workflow.PowerShellBatchApiExecutor", Writes,
      <<Lists("Batch")>>) \o
  Row("workflow.sshBatchExecutor", "workflow.SshBatchExecutor", Writes, <<Lists("Batch")>>) \o
  Row("iam.appRegistration", "iam.AppRegistration", CreatesPosts,
      <<Needs("ClientName"), Needs("Description")>>)

FromIamAppRegistration ==
  Row("iam.appRegistration", "iam.AppRegistration", Updates, <<Needs("ClientName")>>) \o
  Row("iam.appRegistrations", "iam.AppRegistration", CreatesPosts,
      <<Needs("ClientName"), Needs("Description")>>) \o
  Row("iam.appRegistrations", "iam.AppRegistration", Updates, <<Needs("ClientName")>>) \o
  Row("iam.privilegeSets", "iam.PrivilegeSet", Writes, <<Needs("Name")>>) \o
  Row("iam.guestAccessSettings", "iam.GuestAccessSettings", Writes,
      <<Lists("AllowedDomainNames"), MinimumRule(<<"MaxGuestAccessLinkShelfLife">>, 86400)>>) \o
  Row("iam.idp", "iam.Idp", Writes, <<NeedsWhen(<<"Type">>, {Str("saml")}, <<"Metadata">>)>>) \o
  Row("iam.ldapProvider", "iam.LdapProvider", Writes, <<Needs("Server")>>) \o
  Row("iam.sharingRule", "iam.SharingRule", Writes, <<Refers("SharedResource", "mo.BaseMo")>>)

FromIamUser ==
  Row("iam.user", "iam.User", Writes, <<OneOfRule({<<"Idp">>, <<"Idpreference">>})>>) \o
  Row("iam.userGroup", "iam.UserGroup", Writes, <<OneOfRule({<<"Idp">>, <<"Idpreference">>})>>) \o
  Row("mgmt.configBackupFile", "mgmt.ConfigBackupFile", Writes,
      <<Needs("Name"), Needs("Source"), Needs("Version"),
        PatternRule(<<"Name">>, "ArchiveName")>>) \o
  Row("os.bulkInstallInfo", "os.BulkInstallInfo", Writes, InOrganization) \o
  Row("os.configurationFile", "os.ConfigurationFile", Writes,
      <<Needs("Name"), Lists("Distributions")>>) \o
  Row("search.suggestItem", "search.SuggestItem", Creates, <<Needs("SuggestTerm")>>) \o
  Row("softwarerepository.operatingSystemFile", "softwarerepository.OperatingSystemFile", Writes,
      <<Needs("Vendor")>>)

FromWorkflowCatalogItemDefinition ==
  Row("workflow.catalogItemDefinition", "workflow.CatalogItemDefinition", Writes,
      <<Needs("Label")>>) \o
  Row("workflow.customDataTypeDefinition", "workflow.CustomDataTypeDefinition", Writes,
      <<Needs("Label")>>) \o
  Row("workflow.serviceItemActionDefinition", "workflow.ServiceItemActionDefinition", Writes,
      <<Needs("Label")>>) \o
  Row("workflow.serviceItemDefinition", "workflow.ServiceItemDefinition", Writes,
      <<Needs("Label")>>) \o
  Row("workflow.taskDefinition", "workflow.TaskDefinition", Writes, <<Needs("Label")>>) \o
  Row("workflow.workflowDefinition", "workflow.WorkflowDefinition", Writes, <<Needs("Label")>>) \o
  Row("workflow.workflowInfo", "workflow.WorkflowInfo", Creates,
      <<MinimumRule(<<"FailedWorkflowCleanupDuration">>, 1),
        MinimumRule(<<"SuccessWorkflowCleanupDuration">>, 1),
        ConditionalForbidRule(<<"Action">>, {Str("None")}, <<"Action">>)>>) \o
  Row("workload.blueprint", "workload.Blueprint", Creates,
      <<Needs("Label"), Lists("ServiceItems"), PatternRule(<<"Name">>, "WordName")>>)

FromWorkloadBlueprint ==
  Row("workload.blueprint", "workload.Blueprint", Changes, <<Needs("Label")>>) \o
  Row("os.templateFile", "os.TemplateFile", CreatesPosts,
      <<Needs("TemplateContent"), PatternRule(<<"TemplateContent">>, "NotBlank")>>) \o
  Row("workflow.templateParser", "workflow.TemplateParser", CreatesPosts,
      <<Needs("TemplateContent"), PatternRule(<<"TemplateContent">>, "NotBlank")>>) \o
  Row("iam.endPointUserPolicies", "iam.EndPointUserPolicy", Writes, NamedInOrganization) \o
  Row("iam.endPointUser", "iam.EndPointUser", Writes,
      <<Needs("Name"), Refers("Organization", "organization.Organization"),
        MaximumRule(<<"Name">>, 16)>>) \o
  Row("vnic.vhbaTemplate", "vnic.VhbaTemplate", Creates,
      <<MaximumRule(<<"Name">>, 16), Refers("FcQosPolicy", "vnic.FcQosPolicy"),
        RefersWhen(<<"EnableOverride">>, {Bool(FALSE)}, "FcAdapterPolicy", "vnic.FcAdapterPolicy"),
        RefersWhen(<<"EnableOverride">>, {Bool(FALSE)}, "FcNetworkPolicy", "vnic.FcNetworkPolicy"),
        RefersWhen(<<"EnableOverride">>, {Bool(FALSE)}, "WwpnPool", "fcpool.Pool"),
        NeedsWhen(<<"EnableOverride">>, {Bool(FALSE)}, <<"SwitchId">>)>>) \o
  Row("vnic.vhbaTemplate", "vnic.VhbaTemplate", Changes, <<MaximumRule(<<"Name">>, 16)>>) \o
  Row("vnic.vnicTemplate", "vnic.VnicTemplate", Creates,
      <<MaximumRule(<<"Name">>, 16), Refers("EthQosPolicy", "vnic.EthQosPolicy"),
        Refers("FabricEthNetworkControlPolicy", "fabric.EthNetworkControlPolicy"),
        RequiredRule(<<"FabricEthNetworkGroupPolicy">>, "fabric.EthNetworkGroupPolicy", 1),
        RefersWhen(<<"EnableOverride">>, {Bool(FALSE)}, "EthAdapterPolicy", "vnic.EthAdapterPolicy"),
        RefersWhen(<<"EnableOverride">>, {Bool(FALSE)}, "MacPool", "macpool.Pool"),
        NeedsWhen(<<"EnableOverride">>, {Bool(FALSE)}, <<"SwitchId">>)>>) \o
  Row("vnic.vnicTemplate", "vnic.VnicTemplate", Changes, <<MaximumRule(<<"Name">>, 16)>>)

FromRecoveryScheduleConfigPolicy ==
  Row("recovery.scheduleConfigPolicy", "recovery.ScheduleConfigPolicy", Writes,
      <<Needs("Schedule"), RequiredRule(<<"Schedule", "ExecutionTime">>, "", 0),
        FutureRule(<<"Schedule", "ExecutionTime">>)>>) \o
  Row("scheduler.schedulePolicy", "scheduler.SchedulePolicy", Writes,
      <<RequiredRule(<<"ScheduleParams">>, "scheduler.BaseScheduleParams", 1),
        RequiredRule(<<"ScheduleParams", "[]", "Name">>, "", 0),
        FutureRule(<<"ScheduleParams", "[]", "StartTime">>)>>) \o
  Row("iam.ldapPolicy", "iam.LdapPolicy", Writes,
      <<Needs("Enabled"), Needs("BaseProperties"),
        CustomRule(<<"BaseProperties", "Filter">>, "ldap_filter")>>) \o
  Row("resourcepool.qualificationPolicy", "resourcepool.QualificationPolicy", Writes,
      <<Lists("Qualifiers"),
        ContainsRule(<<"Qualifiers", "[]", "ObjectType">>, Str("resource.GpuQualifier"))>>) \o
  Row("workload.workloadDefinition", "workload.WorkloadDefinition", Creates,
      <<Lists("Blueprints"), PatternRule(<<"Name">>, "TitleName")>>) \o
  Row("workload.workloadDefinition", "workload.WorkloadDefinition", Changes,
      <<PatternRule(<<"Name">>, "TitleName")>>) \o
  Row("workload.workloadDeployment", "workload.WorkloadDeployment", Writes,
      <<PatternRule(<<"Name">>, "TitleName")>>)

RuleTemplates ==
  FromAaaRetentionPolicy \o FromCommHttpProxyPolicy \o FromIppoolReservation \o
  FromMacpoolReservation \o FromVnicEthIf \o FromVnicSanConnectivityPolicy \o
  FromFabricFlowControlPolicy \o FromFabricNetFlowRecord \o FromFabricPortMode \o
  FromFabricApplianceRole \o FromFabricSpanSession \o FromFabricSwitchProfileTemplate \o
  FromHyperflexLocalCredentialPolicy \o FromHyperflexUcsmConfigPolicy \o
  FromOrganizationOrganization \o FromRecoveryOnDemandBackup \o FromServerDiagnostics \o
  FromVnicFcAdapterPolicy \o FromSmtpPolicyTest \o FromFabricEthNetworkGroupPolicy \o
  FromIamAppRegistration \o FromIamUser \o FromWorkflowCatalogItemDefinition \o
  FromWorkloadBlueprint \o FromRecoveryScheduleConfigPolicy
=============================================================================
