---------------------------- MODULE ProfileLoader ----------------------------
(***************************************************************************)
(* What load_profile_from_file (sim/src/profile_loader.cc) makes of a      *)
(* document, and what the platform of a run takes from the profile: the    *)
(* capacities of make_resource_inventory_from_profile                      *)
(* (sim/src/profile_resources.cc) and the means of ServiceTimeModel        *)
(* (sim/src/service_time_model.cc).                                        *)
(*                                                                         *)
(* Its tokenizer and parser are those of the workload loader, but for      *)
(* parse_value, which throws where the other takes a block that is         *)
(* indented by more than two.  The fields are given as data: the type of   *)
(* each key of a mapping.  Underscores in numbers belong to Numeral.       *)
(***************************************************************************)
EXTENDS YamlDocument

CONSTANTS
  Uint32Bits,   \* the width of a uint32_t: 32
  LinkFallback  \* the capacity of a link whose profile gives none: 1'000'000

ASSUME ProfileAssumption == Uint32Bits \in Nat /\ LinkFallback \in Nat \ {0}

------------------------------------------------------------------------------
(* The document *)

\* parse_value throws at the first token of a block that is indented too far.
IndentedTooFar(tokens, i) ==
  i > 1 /\ tokens[i - 1].value = None /\ tokens[i].indent > tokens[i - 1].indent + 2

\* parse_document returns, if parsed is what it does without this.
IsParsed(tokens, parsed) == \A i \in 1..(parsed.next - 1) : ~IndentedTooFar(tokens, i)

------------------------------------------------------------------------------
(* Fields *)

\* The types of the keys of a CpuSpec, a DramSpec and so on
CpuFields ==
  [model |-> "string", sockets |-> "uint32", cores_per_socket |-> "uint32",
   cores_total |-> "uint32", clock_ghz |-> "double", base_service_scale |-> "double"]
DramFields ==
  [type |-> "string", capacity_gb |-> "uint32", bandwidth_gbps |-> "double",
   latency_ns |-> "double"]
NicDramFields == DramFields @@ ("contention_variance_pct" :> "uint32")
LinkFields ==
  [type |-> "string", peak_bandwidth_gbps |-> "double",
   effective_bandwidth_gbps |-> "double", latency_us |-> "double"]
QueueFields == [cpu_capacity |-> "uint32", dram_capacity_gb |-> "uint32"]
LinkQueueFields == [max_inflight_bytes |-> "size"]
OverrideFields == [host_mean_us |-> "double", nic_mean_us |-> "double"]

\* parse_string, parse_double, parse_uint32 and parse_size
IsA(node, type) ==
  /\ node.kind = "scalar"
  /\ type # "string" => node.text \in DOMAIN Numeral
  /\ type = "uint32" => Numeral[node.text] \in 0..2 ^ Uint32Bits - 1
  /\ type = "size" => Numeral[node.text] >= 0

MayBeA(node, key, type) == Has(node, key) => IsA(Field(node, key), type)

\* expect_map, and get_required for each field
HasFields(node, fields) ==
  \A key \in DOMAIN fields : Has(node, key) /\ IsA(Field(node, key), fields[key])

Fields(node, fields) ==
  [key \in DOMAIN fields |->
     IF fields[key] = "string" THEN Text(node, key) ELSE Number(node, key)]

\* parse_link and parse_mtu
IsLink(node) ==
  /\ HasFields(node, LinkFields) /\ HasKind(node, "mtu_bytes", "map")
  /\ HasFields(Field(node, "mtu_bytes"), [default |-> "uint32"])
  /\ MayBeA(Field(node, "mtu_bytes"), "jumbo", "uint32")

\* parse_references
AreReferences(items) ==
  \A i \in DOMAIN items :
    /\ HasKind(items[i], "title", "scalar")
    /\ \A key \in {"publisher", "authors", "venue", "url"} : MayHave(items[i], key, "scalar")
    /\ MayBeA(items[i], "year", "uint32")

\* parse_service_overrides
AreOverrides(node) ==
  \A key \in DOMAIN node.fields : HasFields(Field(node, key), OverrideFields)

Section == {"host", "nic", "links", "queues", "service_time_overrides"}

\* load_profile_from_file, of the root of the document
IsProfileDocument(root) ==
  /\ \A key \in {"schema_version", "profile_name", "description", "last_verified"} :
       HasKind(root, key, "scalar")
  /\ HasKind(root, "references", "sequence") /\ AreReferences(Items(root, "references"))
  /\ \A key \in Section : HasKind(root, key, "map")
  /\ \A side \in {"host", "nic"} :
       /\ Has(Field(root, side), "cpu") /\ Has(Field(root, side), "dram")
       /\ HasFields(Field(Field(root, side), "cpu"), CpuFields)
       /\ HasFields(Field(Field(root, side), "dram"),
                    IF side = "nic" THEN NicDramFields ELSE DramFields)
  /\ \A link \in {"host_nic", "nic_network"} :
       Has(Field(root, "links"), link) /\ IsLink(Field(Field(root, "links"), link))
  /\ \A queue \in {"host", "nic"} :
       /\ Has(Field(root, "queues"), queue)
       /\ HasFields(Field(Field(root, "queues"), queue), QueueFields)
  /\ \A queue \in {"host_nic_link", "nic_network_link"} :
       /\ Has(Field(root, "queues"), queue)
       /\ HasFields(Field(Field(root, "queues"), queue), LinkQueueFields)
  /\ AreOverrides(Field(root, "service_time_overrides"))
  /\ MayHave(root, "notes", "sequence") /\ AllScalars(Items(root, "notes"))

\* Mutant: both links take the bytes of the link between host and NIC.
LinkSpec_sameQueue(root, link) ==
  Fields(Field(Field(root, "links"), link), LinkFields)
    @@ Fields(Field(Field(root, "queues"), "host_nic_link"), LinkQueueFields)

\* A link, and the bytes of its queue, which are copied to it
LinkSpec(root, link) ==
  Fields(Field(Field(root, "links"), link), LinkFields)
    @@ Fields(Field(Field(root, "queues"),
                    IF link = "host_nic" THEN "host_nic_link" ELSE "nic_network_link"),
              LinkQueueFields)

\* What it returns; references, notes, MTUs and the queues of CPUs and memories,
\* which nothing reads, are left out.
LoadedProfile(root) ==
  LET Part(section, key, fields) == Fields(Field(Field(root, section), key), fields)
      overrides == Field(root, "service_time_overrides")
  IN [host_cpu |-> Part("host", "cpu", CpuFields),
      host_dram |-> Part("host", "dram", DramFields),
      nic_cpu |-> Part("nic", "cpu", CpuFields),
      nic_dram |-> Part("nic", "dram", NicDramFields),
      host_nic_link |-> LinkSpec(root, "host_nic"),
      nic_network_link |-> LinkSpec(root, "nic_network"),
      service_time_overrides |->
        [key \in DOMAIN overrides.fields |-> Fields(Field(overrides, key), OverrideFields)]]

------------------------------------------------------------------------------
(* The platform *)

\* clamp_positive
ClampPositive(value, fallback) == IF value > 0 THEN value ELSE fallback

\* make_resource_inventory_from_profile: the capacity of each resource
Inventory(profile) ==
  [host_cpu |-> ClampPositive(profile.host_cpu.cores_total, 1),
   host_dram |-> ClampPositive(profile.host_dram.capacity_gb, 1),
   host_link |-> ClampPositive(profile.host_nic_link.max_inflight_bytes, LinkFallback),
   nic_cpu |-> ClampPositive(profile.nic_cpu.cores_total, 1),
   nic_dram |-> ClampPositive(profile.nic_dram.capacity_gb, 1),
   nic_link |-> ClampPositive(profile.nic_network_link.max_inflight_bytes, LinkFallback)]

\* ServiceTimeModel: find_override and select_mean
HasOverride(profile, key) == key \in DOMAIN profile.service_time_overrides
SelectMean(profile, key, domain) ==
  LET override == profile.service_time_overrides[key] IN
  IF domain = "host" THEN override.host_mean_us ELSE override.nic_mean_us

\* What a run takes from a profile
Platform(profile) ==
  [inventory |-> Inventory(profile),
   means |-> [key \in DOMAIN profile.service_time_overrides |->
                [domain \in {"host", "nic"} |-> SelectMean(profile, key, domain)]]]

\* ServiceTimeModel::mean returns, and sample too.
HasMean(profile, key, domain) ==
  HasOverride(profile, key) /\ SelectMean(profile, key, domain) > 0
===============================================================================
