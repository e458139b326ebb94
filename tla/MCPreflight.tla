----------------------------- MODULE MCPreflight -----------------------------
(***************************************************************************)
(* An instance of Preflight.  Archives: the report of a supported device,  *)
(* with one or two of its documents changed, and the same report packed    *)
(* wrongly in one way each.                                                 *)
(***************************************************************************)
EXTENDS Preflight, SequencesExt

Summary(altered) ==
    LET rows == <<<<"report_format", "1">>, <<"collector_mode", "read-only-preflight">>,
                  <<"not_flash_ready", "true">>, <<"uid", "0">>, <<"identity_status", "PASS">>,
                  <<"selinux_status", "ENFORCING">>, <<"boot_id", "b">>, <<"ksud_path", "k">>,
                  <<"namespace_status", "SAME">>>>
    IN  [i \in DOMAIN rows |-> <<rows[i][1], Get(altered, rows[i][1], rows[i][2])>>]
Flags(d, r) == [disabled |-> d, remove |-> r]
Mount(root, ids) == [root |-> root, modules |-> ids]

TheTable ==
    [summary |-> Summary(<<>>),
     summary_uid |-> Summary(<<<<"uid", "2000">>>>),
     summary_gate |-> Summary(<<<<"identity_status", "FAIL">>, <<"namespace_status", "DIFF">>>>),
     summary_bare |-> <<<<"uid", "0">>>>,
     summary_twice |-> <<<<"uid", "0">>, <<"uid", "0">>>>,
     properties |-> <<<<"device", "PJZ110">>, <<"sdk", "36">>, <<"oplusrom", "V16.1.0">>, <<"display", "">>>>,
     properties_product |-> <<<<"device", "PJX110">>, <<"sdk", "36">>, <<"oplusrom", "V16.1.0">>, <<"display", "">>>>,
     properties_rom |-> <<<<"device", "PJZ110">>, <<"sdk", "36">>, <<"oplusrom", "V15">>, <<"display", "">>>>,
     properties_unset |-> <<<<"device", "PJZ110">>, <<"sdk", "">>, <<"oplusrom", "V16.1.0">>, <<"display", "">>>>,
     properties_few |-> <<<<"device", "PJZ110">>, <<"sdk", "36">>, <<"oplusrom", "V16.1.0">>>>,
     status |-> <<<<"ksud", "0">>, <<"features", "0">>>>,
     status_features |-> <<<<"ksud", "0">>>>,
     status_ksud |-> <<<<"ksud", "1">>, <<"features", "0">>>>,
     modules |-> <<<<"m1", Flags("0", "0")>>>>,
     modules_off |-> <<<<"m1", Flags("1", "0")>>>>,
     modules_none |-> <<>>,
     modules_odd |-> <<<<"m1", Flags("x", "0")>>>>,
     mounts |-> <<Mount("/data", {"m1"}), Mount("/vendor", {})>>,
     mounts_over |-> <<Mount("/vendor", {"m1"})>>,
     mounts_elsewhere |-> <<Mount("/my_stock", {"m1"})>>,
     getprop |-> <<<<"verifiedbootstate", "green">>>>,
     getprop_orange |-> <<<<"verifiedbootstate", "orange">>>>,
     getprop_twice |-> <<<<"a", "1">>, <<"a", "2">>>>,
     tainted |-> <<"0">>,
     tainted_1 |-> <<"1">>]

VariantsOf == [summary |-> {"summary_uid", "summary_gate", "summary_bare", "summary_twice", "garbage"},
               properties |-> {"properties_product", "properties_rom", "properties_unset", "properties_few"},
               status |-> {"status_features", "status_ksud"},
               modules |-> {"modules_off", "modules_none", "modules_odd"},
               mounts |-> {"mounts_over", "mounts_elsewhere"},
               getprop |-> {"getprop_orange", "getprop_twice"},
               tainted |-> {"tainted_1"}]

Plain == [d \in Range(Documents) |-> d]
OneChanged == {[Plain EXCEPT ![d] = v] : d \in Range(Documents), v \in UNION Range(VariantsOf)}
Changed == {Plain} \cup {docs \in OneChanged :
                            \A d \in Range(Documents) : docs[d] \in {d} \cup VariantsOf[d]}
Reports == Changed \cup {[docs EXCEPT !["mounts"] = "mounts_over"] :
                            docs \in {d \in Changed : d["modules"] # "modules"}}

File(path, data) == [root |-> "r", path |-> path, safe |-> TRUE, kind |-> "file", size |-> 1, data |-> data]
Dir(path) == [File(path, "") EXCEPT !.kind = "dir", !.size = 0]
\* A manifest's content is named after the documents it lists.
Listing(docs) == [i \in DOMAIN Documents |-> <<Documents[i], docs[Documents[i]]>>]
ListingName(docs) == FoldSeq(LAMBDA d, name : docs[d] \o "," \o name, "", Documents)
Pack(docs) == <<Dir("")>> \o [i \in DOMAIN Documents |-> File(Documents[i], docs[Documents[i]])]
                \o <<File("manifest", ListingName(docs))>>
Good == Pack(Plain)
Short == <<File("tainted", "tainted"), File("manifest", "short")>>
OddListings ==
    {<<"short", <<<<"tainted", "tainted">>>>>>, <<"empty", <<>>>>,
     <<"more", Append(Listing(Plain), <<"extra", "e">>)>>,
     <<"twice", Append(Listing(Plain), Listing(Plain)[1])>>,
     <<"itself", Append(Listing(Plain), <<"manifest", "itself">>)>>}
Wrong ==
    {[Good EXCEPT ![2].safe = FALSE], [Good EXCEPT ![3].kind = "link"], [Good EXCEPT ![3].root = "q"],
     [Good EXCEPT ![1].kind = "file"], [Good EXCEPT ![4].size = 3], [Good EXCEPT ![5].size = 4],
     [Good EXCEPT ![4].data = "status_ksud"], [Good EXCEPT ![9].data = "garbage"],
     [Good EXCEPT ![2].size = 3, ![3].size = 2], [Good EXCEPT ![2].size = 3, ![3].size = 3],
     SubSeq(Good, 1, 8), Append(Good, File("extra", "e")), Append(Good, Dir("mounts")),
     <<Good[2]>> \o Good, Append(Good, [File("mounts", "mounts") EXCEPT !.root = "q"]),
     Good \o <<Dir("d"), Dir("e"), Dir("f")>>, Append(Good, Dir("d")), Tail(Good), Short, <<>>}
    \cup {[Good EXCEPT ![9].data = l[1]] : l \in OddListings}

TheArchives == {Pack(docs) : docs \in Reports} \cup Wrong
TheReplacements == {Good, Short, Pack([Plain EXCEPT !["mounts"] = "mounts_over"])}
TheManifest ==
    LET listings == {<<ListingName(docs), Listing(docs)>> : docs \in Reports} \cup OddListings
    IN  [name \in {l[1] : l \in listings} |-> (CHOOSE l \in listings : l[1] = name)[2]]
TheSidecars(a) ==
    LET line == [named |-> TRUE, digest |-> a]
    IN  {<<line>>, <<>>, <<line, line>>, <<[line EXCEPT !.named = FALSE]>>,
         <<[line EXCEPT !.digest = Short]>>}
=============================================================================
