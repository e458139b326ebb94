----------------------------- MODULE MCGenerator -----------------------------
(***************************************************************************)
(* An instance of Generator: a permission file and a configuration file,   *)
(* each with a protected element among plain ones.  Of two generations the *)
(* first is given every catalog of one or two edits of a document and the  *)
(* second, which competes for the output, a plain one.                     *)
(***************************************************************************)
EXTENDS Generator, TLC

CONSTANTS p1, p2

Node(up, tag, attrs, text) == [up |-> up, tag |-> tag, attrs |-> attrs, text |-> text]
None == [attr \in {} |-> ""]

Perms ==
    <<Node(0, "permissions", None, <<>>),
      Node(1, "privapp-permissions", [package |-> "alpha"], <<>>),
      Node(2, "permission", [name |-> "read"], <<>>),
      Node(1, "privapp-permissions", [package |-> "beta"], <<>>),
      Node(4, "permission", [name |-> "camera"], <<>>)>>

Conf ==
    <<Node(0, "config", None, <<>>),
      Node(1, "item", [name |-> "keyguard"], <<"lock">>),
      Node(1, "item", [name |-> "wifi"], <<"plain">>),
      Node(1, "group", [mode |-> "plain"], <<>>),
      Node(4, "entry", [v |-> "keyguard"], <<>>),
      Node(1, "entry", [v |-> "keyguard"], <<>>),
      Node(4, "entry", [v |-> "other"], <<>>)>>

TheBaseline == [perms |-> Perms, conf |-> Conf]
TheOrder == <<"absent", "camera-file", "conf", "perms">>

Seg(tag) == [tag |-> tag, attr |-> "", value |-> ""]
SegWith(tag, attr, value) == [tag |-> tag, attr |-> attr, value |-> value]

Op(target, type, selector) ==
    [type |-> type, target |-> target, selector |-> selector, preserve |-> TRUE]

On(target, type, selector, value) == [value |-> value] @@ Op(target, type, selector)
Word(target, type, selector, token) == [token |-> token] @@ Op(target, type, selector)

Wifi == <<Seg("config"), SegWith("item", "name", "wifi")>>
Entries == <<Seg("config"), Seg("group"), Seg("entry")>>
Guards == <<Seg("*"), Seg("group"), SegWith("entry", "v", "keyguard")>>
Alpha == <<SegWith("privapp-permissions", "package", "alpha")>>
Beta == <<SegWith("privapp-permissions", "package", "beta")>>

Menu ==
    {On("conf", "xml_add", <<Seg("config")>>, [tag |-> "item", attrs |-> [name |-> "new"], text |-> <<>>]),
     On("conf", "xml_add", <<Seg("group")>>, [tag |-> "entry", attrs |-> [v |-> "keyguard"], text |-> <<>>]),
     On("conf", "xml_update", Wifi, [attrs |-> [name |-> "wlan"], text |-> <<>>]),
     On("conf", "xml_update", <<Seg("group")>>, [attrs |-> [mode |-> "changed"]]),
     On("conf", "xml_update", Entries, [attrs |-> [v |-> "changed"]]),
     Op("conf", "xml_remove_exact", Wifi),
     Op("conf", "xml_remove_exact", <<Seg("group")>>),
     Op("conf", "xml_remove_exact", Guards),
     Word("conf", "list_append", Wifi, "more"),
     Word("conf", "list_append", Entries, "more"),
     Word("perms", "permission_add", Alpha, "write"),
     Word("perms", "permission_add", Beta, "write"),
     Op("perms", "xml_remove_exact", Alpha),
     Op("perms", "xml_remove_exact", Alpha \o <<Seg("permission")>>)}

Set(key, stage, mode, restart) ==
    [type |-> "property_set", key |-> key, value |-> "v", stage |-> stage, mode |-> mode,
     restart |-> restart]

Properties ==
    {Set(1, "early", "direct", "none"), Set(1, "service", "trigger", "service"),
     Set(1, "service", "trigger", "none"), Set(2, "service", "direct", "none"),
     Set(3, "service", "direct", "none")}

Feature(id, op) ==
    [id |-> id, category |-> "other", enabled |-> id = 1, operations |-> <<op>>]

Pairs(set) == {<<Feature(1, a), Feature(2, b)>> : a \in set, b \in set}

Defective ==
    {<<[Feature(1, Word("conf", "list_append", Wifi, "more")) EXCEPT !.category = "camera"]>>,
     <<Feature(1, Word("camera-file", "list_append", Wifi, "more"))>>,
     <<Feature(1, Word("absent", "list_append", Wifi, "more"))>>,
     <<Feature(1, [Word("conf", "list_append", Wifi, "more") EXCEPT !.preserve = FALSE])>>,
     <<Feature(1, Word("conf", "list_append", Wifi, "more")), Feature(1, Set(1, "early", "direct", "none"))>>}

Plain == {<<Feature(1, Word("conf", "list_append", Wifi, "more"))>>}

TheCatalogs ==
    (p1 :> UNION {Pairs({op \in Menu : op.target = t}) : t \in DOMAIN TheBaseline}
             \cup Pairs(Properties) \cup Defective)
      @@ (p2 :> Plain)

TheSelections == {{}, {1, 2}}
TheLive == (1 :> "stock") @@ (2 :> "stock")
=============================================================================
