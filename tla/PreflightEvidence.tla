-------------------------- MODULE PreflightEvidence --------------------------
(***************************************************************************)
(* classify_preflight_evidence (preflight_evidence.py): what the documents *)
(* of a verified report say of the device, as blockers and warnings.       *)
(*                                                                         *)
(* A document is named by its content; Table gives the rows of one that    *)
(* parses line by line (header, column count, no control characters).     *)
(* A row is a tuple whose first element is its key, or, in the mount       *)
(* document, a record of the mount point's root and the module ids found   *)
(* in the line.                                                            *)
(***************************************************************************)
EXTENDS Naturals, Sequences, Functions

CONSTANTS
    Table,              \* [contents that parse -> rows]
    Allowlisted,        \* ALLOWLISTED_PROPERTIES
    RequiredProperties, \* REQUIRED_PROPERTIES
    RequiredCommands,   \* REQUIRED_COMMANDS
    OptionalCommands,   \* OPTIONAL_COMMANDS
    ProtectedRoots,     \* PROTECTED_ROOTS
    SupportedRoms       \* the ROM versions that start with V16.1

ASSUME EvidenceAssumption == RequiredProperties \subseteq Allowlisted /\ "" \notin SupportedRoms

\* The documents that are read, in this order.
Documents == <<"summary", "properties", "status", "modules", "mounts", "getprop", "tainted">>

Keys(rows) == [i \in DOMAIN rows |-> rows[i][1]]
KeysOf(rows) == Range(Keys(rows))
\* dict.get
Get(rows, key, default) ==
    IF \E i \in DOMAIN rows : rows[i][1] = key
    THEN rows[CHOOSE i \in DOMAIN rows : rows[i][1] = key][2] ELSE default

\* _key_value_tsv, _command_statuses: no empty and no repeated key.
KeyedRows(rows) == IsInjective(Keys(rows)) /\ "" \notin KeysOf(rows)

\* _properties_tsv: every property of the list, once, and no other.
PropertyRows(rows) == IsInjective(Keys(rows)) /\ KeysOf(rows) = Allowlisted

\* _modules: rows <<id, [disabled, remove]>>; flags are "0" or "1".
ModuleRows(rows) ==
    /\ KeyedRows(rows)
    /\ \A i \in DOMAIN rows : {rows[i][2].disabled, rows[i][2].remove} \subseteq {"0", "1"}

\* Whether every document parses; docs is a function from Documents to contents.
Parses(docs) ==
    /\ \A d \in Range(Documents) : docs[d] \in DOMAIN Table
    /\ KeyedRows(Table[docs["summary"]]) /\ PropertyRows(Table[docs["properties"]])
    /\ KeyedRows(Table[docs["status"]]) /\ ModuleRows(Table[docs["modules"]])
    /\ IsInjective(Keys(Table[docs["getprop"]]))

ActiveModule(state) == state.disabled = "0" /\ state.remove = "0"

\* Mutant of OverlayConflicts: layers of modules that are not active do not count.
ActiveConflicts(mounts, modules) ==
    {c \in UNION {{<<id, mounts[i].root>> : id \in mounts[i].modules} : i \in DOMAIN mounts} :
        /\ c[2] \in ProtectedRoots
        /\ c[1] \in KeysOf(modules)
        /\ ActiveModule(Get(modules, c[1], [disabled |-> "0", remove |-> "0"]))}

\* _overlay_conflicts: <<module, root, state in the inventory>>
OverlayConflicts(mounts, modules) ==
    LET State(id) ==
            IF id \notin KeysOf(modules) THEN "unknown-inventory"
            ELSE IF ActiveModule(Get(modules, id, "")) THEN "active" ELSE "inactive-but-mounted"
    IN  UNION {{<<id, mounts[i].root, State(id)>> : id \in mounts[i].modules} :
               i \in {n \in DOMAIN mounts : mounts[n].root \in ProtectedRoots}}

ExpectedSummary == <<<<"report_format", "1">>, <<"collector_mode", "read-only-preflight">>,
                     <<"not_flash_ready", "true">>, <<"uid", "0">>>>

\* Mutant of SupportedProduct: any product will do.
AnyProduct(properties) == Get(properties, "device", "") # ""

SupportedProduct(properties) == Get(properties, "device", "") = "PJZ110"

Blockers(docs) ==
    LET summary == Table[docs["summary"]]
        properties == Table[docs["properties"]]
        status == Table[docs["status"]]
    IN  {<<"collector.summary_mismatch", key>> :
            key \in {k \in KeysOf(ExpectedSummary) :
                        Get(summary, k, "") # Get(ExpectedSummary, k, "")}}
        \cup {<<"device.missing_property", key>> :
                key \in {k \in RequiredProperties : Get(properties, k, "") = ""}}
        \cup {<<"kernelsu.required_query_failed", command>> :
                command \in {k \in RequiredCommands : Get(status, k, "") # "0"}}
        \cup {<<"modules.protected_overlay", conflict>> :
                conflict \in OverlayConflicts(Table[docs["mounts"]], Table[docs["modules"]])}
        \cup {rule[1] : rule \in {r \in {
                <<<<"device.collector_identity_failed">>, Get(summary, "identity_status", "") = "PASS">>,
                <<<<"device.unsupported_product">>, SupportedProduct(properties)>>,
                <<<<"device.unsupported_sdk">>, Get(properties, "sdk", "") = "36">>,
                <<<<"device.unsupported_oplus_rom">>, Get(properties, "oplusrom", "") \in SupportedRoms>>,
                <<<<"security.selinux_not_enforcing">>, Get(summary, "selinux_status", "") = "ENFORCING">>,
                <<<<"kernel.boot_id_missing">>, Get(summary, "boot_id", "") # "">>,
                <<<<"kernelsu.ksud_missing">>, Get(summary, "ksud_path", "") # "">>} : ~r[2]}}

Warnings(docs) ==
    {<<"kernelsu.optional_query_failed", command>> :
        command \in {k \in OptionalCommands : Get(Table[docs["status"]], k, "") # "0"}}
    \cup {rule[1] : rule \in {r \in {
            <<<<"mount.namespace_differs">>, Get(Table[docs["summary"]], "namespace_status", "") = "SAME">>,
            <<<<"kernel.tainted">>, Table[docs["tainted"]] \in {<<>>, <<"0">>}>>,
            <<<<"boot.verified_state_not_green">>, Get(Table[docs["getprop"]], "verifiedbootstate", "") = "green">>}
            : ~r[2]}}

Verdict(docs) == IF Blockers(docs) = {} THEN "READY_FOR_CONTROLLED_VALIDATION" ELSE "BLOCKED"
=============================================================================
