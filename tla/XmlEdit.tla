------------------------------- MODULE XmlEdit -------------------------------
(***************************************************************************)
(* The XML documents of the feature generator: selectors (selectors.py),   *)
(* the five edit operations (xmlops.py) and the semantic audit of an       *)
(* edited document against its baseline (audit.py).                        *)
(*                                                                         *)
(* A document is a function from node numbers to                           *)
(*   [up |-> parent, tag |-> word, attrs |-> name :> word, text |-> words] *)
(* Node 1 is the root, whose parent is 0; siblings are in order of their   *)
(* numbers.  Whitespace, comments and quoting are left out.                *)
(***************************************************************************)
EXTENDS Naturals, FiniteSets, SequencesExt

CONSTANTS
    CredentialWords,    \* words CREDENTIAL_TERMS matches
    CameraWords         \* words CAMERA_BOUNDARY_TERMS matches

Root == 1
KeyAttributes == <<"name", "package", "packageName", "id", "key", "component", "activity">>

Children(doc, n) == {c \in DOMAIN doc : doc[c].up = n}
KidSeq(doc, n) == SetToSortSeq(Children(doc, n), <)

\* element.get, "" for an attribute that is not there.
Get(node, attr) == IF attr \in DOMAIN node.attrs THEN node.attrs[attr] ELSE ""

-----------------------------------------------------------------------------
(* Selectors: a sequence of segments [tag, attr, value], attr = "" for none. *)

Matches(segment, node) ==
    /\ segment.tag \in {"*", node.tag}
    /\ segment.attr # "" =>
          segment.attr \in DOMAIN node.attrs /\ node.attrs[segment.attr] = segment.value

\* find_matches: the first segment names the root or, failing that, its children.
FindMatches(doc, selector) ==
    LET Step(at, segment) ==
            {c \in UNION {Children(doc, n) : n \in at} : Matches(segment, doc[c])}
        start == IF Matches(selector[1], doc[Root]) THEN {Root} ELSE Step({Root}, selector[1])
    IN  FoldLeft(Step, start, Tail(selector))

-----------------------------------------------------------------------------
(* Operations.  Each yields [ok, doc, removed], removed being the names of   *)
(* the top-level records it took out.                                        *)

Rejected(doc) == [ok |-> FALSE, doc |-> doc, removed |-> {}]
Edited(doc) == [ok |-> TRUE, doc |-> doc, removed |-> {}]

TopKeyAttribute(node) == SelectInSeq(KeyAttributes, LAMBDA a : Get(node, a) # "")
Keyed(node) == TopKeyAttribute(node) # 0
RecordKey(node) == <<node.tag, Get(node, KeyAttributes[TopKeyAttribute(node)])>>

\* The new element becomes the last child.
AppendChild(doc, parent, tag, attrs, text) ==
    LET new == 1 + CHOOSE n \in DOMAIN doc : \A k \in DOMAIN doc : k <= n
    IN  [n \in DOMAIN doc \cup {new} |->
            IF n = new THEN [up |-> parent, tag |-> tag, attrs |-> attrs, text |-> text]
                       ELSE doc[n]]

XmlAdd(doc, at, value) ==
    IF Cardinality(at) # 1 THEN Rejected(doc)
    ELSE Edited(AppendChild(doc, CHOOSE n \in at : TRUE, value.tag, value.attrs, value.text))

\* value.attrs replaces those attributes; value.text replaces the text when set.
XmlUpdate(doc, at, value) ==
    IF at = {} THEN Rejected(doc)
    ELSE Edited([n \in DOMAIN doc |->
             IF n \notin at THEN doc[n]
             ELSE [doc[n] EXCEPT
                     !.attrs = [a \in DOMAIN @ \cup DOMAIN value.attrs |->
                                  IF a \in DOMAIN value.attrs THEN value.attrs[a] ELSE @[a]],
                     !.text = IF "text" \in DOMAIN value THEN value.text ELSE @]])

\* Every matched element goes with all below it; the root has no parent to leave.
XmlRemoveExact(doc, at) ==
    LET gone == at \ {Root}
        under[n \in DOMAIN doc] == n \in gone \/ (n # Root /\ under[doc[n].up])
        keep == {n \in DOMAIN doc : ~under[n]}
    IN  IF gone = {} THEN Rejected(doc)
        ELSE [ok |-> TRUE, doc |-> [n \in keep |-> doc[n]],
              removed |-> {RecordKey(doc[n]) : n \in {m \in gone :
                                doc[m].up = Root /\ Keyed(doc[m])}}]

ListAppend(doc, at, token) ==
    IF Cardinality(at) # 1 THEN Rejected(doc)
    ELSE LET n == CHOOSE m \in at : TRUE
         IN  Edited(IF Contains(doc[n].text, token) THEN doc
                    ELSE [doc EXCEPT ![n].text = Append(@, token)])

PermissionAdd(doc, at, name) ==
    IF Cardinality(at) # 1 THEN Rejected(doc)
    ELSE LET n == CHOOSE m \in at : TRUE
         IN  Edited(IF \E c \in Children(doc, n) :
                          doc[c].tag = "permission" /\ Get(doc[c], "name") = name
                    THEN doc
                    ELSE AppendChild(doc, n, "permission", [name |-> name], <<>>))

\* apply_xml_operation
ApplyXmlOperation(doc, op) ==
    LET at == FindMatches(doc, op.selector)
    IN  CASE op.type = "xml_add" -> XmlAdd(doc, at, op.value)
          [] op.type = "xml_update" -> XmlUpdate(doc, at, op.value)
          [] op.type = "xml_remove_exact" -> XmlRemoveExact(doc, at)
          [] op.type = "list_append" -> ListAppend(doc, at, op.token)
          [] op.type = "permission_add" -> PermissionAdd(doc, at, op.token)

-----------------------------------------------------------------------------
(* The audit. *)

\* _serialize_element: an element with all below it, whatever its number.
Serialize(doc) ==
    LET shape[n \in DOMAIN doc] ==
            LET kids == KidSeq(doc, n)
            IN  <<doc[n].tag, doc[n].attrs, doc[n].text,
                  [i \in DOMAIN kids |-> shape[kids[i]]]>>
    IN  shape

\* _semantic_text: the words of the element itself.
SemanticWords(node) ==
    {node.tag} \cup DOMAIN node.attrs \cup {node.attrs[a] : a \in DOMAIN node.attrs}
    \cup ToSet(node.text)

Protected(doc, words) == {n \in DOMAIN doc : SemanticWords(doc[n]) \cap words # {}}

\* Mutant of ProtectedSignatures: a set, so one of two equal elements may go.
SignatureSet(doc, words) ==
    LET shape == Serialize(doc)
    IN  [s \in {shape[n] : n \in Protected(doc, words)} |-> 1]

\* _protected_signatures, the sorted list as a bag.
ProtectedSignatures(doc, words) ==
    LET shape == Serialize(doc)
        marked == Protected(doc, words)
    IN  [s \in {shape[n] : n \in marked} |-> Cardinality({n \in marked : shape[n] = s})]

\* _permission_map, as pairs of package and permission.
PermissionMap(doc) ==
    {<<IF Get(doc[doc[c].up], "package") # "" THEN Get(doc[doc[c].up], "package")
                                               ELSE Get(doc[doc[c].up], "name"),
       Get(doc[c], "name")>> :
        c \in {k \in DOMAIN doc \ {Root} :
                  /\ doc[k].tag = "permission" /\ Get(doc[k], "name") # ""
                  /\ doc[doc[k].up].tag \in {"privapp-permissions", "permissions", "package"}
                  /\ \/ Get(doc[doc[k].up], "package") # ""
                     \/ Get(doc[doc[k].up], "name") # ""}}

TopLevelKeyedRecords(doc) ==
    {RecordKey(doc[c]) : c \in {k \in Children(doc, Root) : Keyed(doc[k])}}

\* _audit_xml: the codes of the blockers.  isPermissionFile is what
\* PERMISSION_FILE_TERMS says of the file's name.
AuditXml(baseline, generated, isPermissionFile, allowedRemovals) ==
    {code \in {"CREDENTIAL", "CAMERA", "PERMISSION_REMOVED", "RECORDS_REMOVED"} :
        CASE code = "CREDENTIAL" ->
               ProtectedSignatures(baseline, CredentialWords)
                 # ProtectedSignatures(generated, CredentialWords)
          [] code = "CAMERA" ->
               ProtectedSignatures(baseline, CameraWords)
                 # ProtectedSignatures(generated, CameraWords)
          [] code = "PERMISSION_REMOVED" ->
               isPermissionFile /\ ~(PermissionMap(baseline) \subseteq PermissionMap(generated))
          [] code = "RECORDS_REMOVED" ->
               ~((TopLevelKeyedRecords(baseline) \ TopLevelKeyedRecords(generated))
                     \subseteq allowedRemovals)}
=============================================================================
