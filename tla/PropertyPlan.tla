----------------------------- MODULE PropertyPlan -----------------------------
(***************************************************************************)
(* The property plan: the snapshot of a device's properties (snapshot.py), *)
(* the plan built from a catalog and a snapshot (propertyplan.py), and     *)
(* what the device's property-policy.sh accepts of it.                     *)
(*                                                                         *)
(* Feature ids and property keys are numbers, in alphabetical order.  A    *)
(* snapshot maps keys to values, Absent for a property that is not set.    *)
(***************************************************************************)
EXTENDS Naturals, FiniteSets, SequencesExt

CONSTANTS
    ProtectedKeys,  \* keys PROTECTED_KEY or FACE_SENSITIVE_KEY match
    LongValues,     \* values of more than 91 bytes
    Absent          \* no such property

StageOrder == [stage \in {"early", "service", "boot-completed"} |->
                  CASE stage = "early" -> 0 [] stage = "service" -> 1 [] OTHER -> 2]

Modes == {"direct", "trigger"}
Restarts == {"none", "service", "reboot"}

-----------------------------------------------------------------------------
(* Catalogs: a sequence of features [id, category, enabled, operations].     *)

\* _enabled_features: the selected ones, or those on by default.
IsEnabled(feature, selected) ==
    IF selected = {} THEN feature.enabled ELSE feature.id \in selected

\* All operations of the enabled features, in catalog order, each with its feature.
Operations(catalog, selected) ==
    FlattenSeq([i \in DOMAIN catalog |->
        LET f == catalog[i]
        IN  IF ~IsEnabled(f, selected) THEN <<>>
            ELSE [k \in DOMAIN f.operations |-> [feature |-> f.id] @@ f.operations[k]]])

\* Those that set a property, by their places in the catalog.
PropertyOperations(catalog, selected) ==
    LET enabled == {i \in DOMAIN catalog : IsEnabled(catalog[i], selected)}
        places == UNION {{i} \X DOMAIN catalog[i].operations : i \in enabled}
        OpAt(at) == catalog[at[1]].operations[at[2]]
    IN  [at \in {at \in places : OpAt(at).type = "property_set"} |->
            [feature |-> catalog[at[1]].id, key |-> OpAt(at).key, value |-> OpAt(at).value,
             stage |-> OpAt(at).stage, mode |-> OpAt(at).mode, restart |-> OpAt(at).restart]]

DistinctIds(catalog) ==
    \A i, k \in DOMAIN catalog : catalog[i].id = catalog[k].id => i = k

KnownIds(catalog, selected) == selected \subseteq {catalog[i].id : i \in DOMAIN catalog}

DistinctKeys(ops) == \A i, k \in DOMAIN ops : ops[i].key = ops[k].key => i = k

-----------------------------------------------------------------------------
(* The snapshot. *)

\* parse_getprop_dump rejects the whole dump for one value that is too long;
\* selected_property_keys rejects protected keys and keys owned twice.
CanCapture(catalog, selected, live) ==
    LET ops == PropertyOperations(catalog, selected)
    IN  /\ DistinctIds(catalog) /\ KnownIds(catalog, selected) /\ DistinctKeys(ops)
        /\ \A i \in DOMAIN ops : ops[i].key \notin ProtectedKeys
        /\ \A k \in DOMAIN live : live[k] \notin LongValues

\* capture_property_snapshot: an entry for every key of an enabled feature.
CaptureSnapshot(catalog, selected, live) ==
    LET ops == PropertyOperations(catalog, selected)
    IN  [k \in {ops[i].key : i \in DOMAIN ops} |->
            IF k \in DOMAIN live THEN live[k] ELSE Absent]

-----------------------------------------------------------------------------
(* The plan. *)

\* _validate_operation
ValidOperation(op) ==
    /\ op.key \notin ProtectedKeys /\ op.value \notin LongValues
    /\ op.stage \in DOMAIN StageOrder /\ op.mode \in Modes /\ op.restart \in Restarts
    /\ op.stage = "early" => op.mode = "direct"
    /\ op.mode = "trigger" => op.restart # "none"

\* Mutant of CanPlan: a key may be owned by two features.
CanPlanTwice(ops, snapshot) ==
    \A i \in DOMAIN ops : ValidOperation(ops[i]) /\ ops[i].key \in DOMAIN snapshot

CanPlan(ops, snapshot) ==
    /\ \A i \in DOMAIN ops : ValidOperation(ops[i]) /\ ops[i].key \in DOMAIN snapshot
    /\ DistinctKeys(ops)

Precedes(a, b) ==
    \/ StageOrder[a.stage] < StageOrder[b.stage]
    \/ StageOrder[a.stage] = StageOrder[b.stage] /\ a.feature < b.feature
    \/ StageOrder[a.stage] = StageOrder[b.stage] /\ a.feature = b.feature /\ a.key < b.key

\* How many of the rows come before one.
Rank(ops, at) == Cardinality({b \in DOMAIN ops : Precedes(ops[b], ops[at])})

\* build_property_plan: the rows by stage, feature and key, with their baselines.
BuildPropertyPlan(ops, snapshot) ==
    [i \in 1..Cardinality(DOMAIN ops) |->
        LET op == ops[CHOOSE at \in DOMAIN ops : Rank(ops, at) = i - 1]
        IN  [seq |-> 10 * i, feature |-> op.feature, stage |-> op.stage,
             key |-> op.key, value |-> op.value, baseline |-> snapshot[op.key],
             mode |-> op.mode, restart |-> op.restart]]

-----------------------------------------------------------------------------
\* fl_prop_preflight_stage on a device whose properties are live.  Every row
\* is validated, only those of the stage are compared with the device.
DeviceAccepts(rows, stage, live) ==
    /\ \A i \in DOMAIN rows :
          /\ rows[i].key \notin ProtectedKeys /\ rows[i].value \notin LongValues
          /\ rows[i].stage \in DOMAIN StageOrder
          /\ rows[i].mode \in Modes /\ rows[i].restart \in Restarts
          /\ rows[i].stage = "early" => rows[i].mode = "direct"
          /\ rows[i].mode = "trigger" => rows[i].restart # "none"
          /\ rows[i].stage = stage =>
                rows[i].baseline = (IF rows[i].key \in DOMAIN live THEN live[rows[i].key]
                                                                  ELSE Absent)
    /\ \A i, k \in DOMAIN rows : rows[i].key = rows[k].key => i = k
=============================================================================
