---------------------------- MODULE InstanceJson ----------------------------
(***************************************************************************)
(* The canonical instance document of an arena (rex-backend-rust,          *)
(* serialize.rs): to_instance_json nests contained objects under their     *)
(* owner and writes every other id as a link, from_instance_json rebuilds  *)
(* the arena from it.                                                      *)
(*                                                                         *)
(* A document is the sequence of its nodes; a node is the record of an     *)
(* object, whose entries are nodes and links.  An id "<singular>/<n>" is   *)
(* represented by the pair of class and ordinal.  A feature that is None   *)
(* has no entry in the document and loads as an empty one does.            *)
(***************************************************************************)
EXTENDS InstanceArena, TLC

S == INSTANCE SequencesExt
M == INSTANCE FiniteSetsExt

CONSTANTS
    NonFinite,     \* the values that JSON numbers cannot express
    Null,          \* the JSON null
    NestingLimit,  \* how deep serde_json reads a document
    Invalid        \* RexError::InvalidInstance

ASSUME JsonAssumption ==
    /\ NonFinite \subseteq Values \ {Default}
    /\ Null \notin Values
    /\ NestingLimit \in Nat

-----------------------------------------------------------------------------
(* Saving. *)

Link(id) == [ref |-> id]
IsLink(entry) == "ref" \in DOMAIN entry

\* serde_json::Value::from turns an infinite number into null.
Number(value) == IF value \in NonFinite THEN Null ELSE value

\* <class>_to_json: the node of an object, with the ids that have been written
\* out so far.  A contained object is inlined the first time it is met.
RECURSIVE SaveObject(_, _)
SaveObject(id, visited) ==
    LET SaveChild(saved, child) ==
            IF child \in saved.visited
            THEN [saved EXCEPT !.entries = Append(@, Link(child))]
            ELSE LET nested == SaveObject(child, saved.visited)
                 IN  [entries |-> Append(saved.entries, nested.node),
                      visited |-> nested.visited]
        SaveFeature(saved, f) ==
            CASE Kind(f) = "contains" ->
                    LET children == S!FoldLeft(SaveChild,
                            [entries |-> <<>>, visited |-> saved.visited], field[f][id])
                    IN  [feature |-> saved.feature @@ (f :> children.entries),
                         visited |-> children.visited]
              [] Kind(f) = "refers" ->
                    [saved EXCEPT !.feature = @ @@
                        (f :> [i \in DOMAIN field[f][id] |-> Link(field[f][id][i])])]
              [] OTHER -> saved
        features == S!FoldLeft(SaveFeature,
            [feature |-> <<>>, visited |-> visited \cup {id}], schema.order[id[1]])
    IN  [node |-> [type |-> id[1], id |-> id, feature |-> features.feature,
                   attribute |-> [i \in DOMAIN attr[id] |-> Number(attr[id][i])]],
         visited |-> features.visited]

\* The objects of the arena, class by class in declaration order.
ArenaOrder ==
    S!FoldLeft(LAMBDA ids, class : ids \o [n \in 1..count[class] |-> <<class, n - 1>>],
               <<>>, schema.classes)

\* to_instance_json: every object that no earlier node has nested.
ToInstanceJson ==
    LET SaveRoot(saved, id) ==
            IF id \in saved.visited THEN saved
            ELSE LET object == SaveObject(id, saved.visited)
                 IN  [nodes |-> Append(saved.nodes, object.node),
                      visited |-> object.visited]
    IN  S!FoldLeft(SaveRoot, [nodes |-> <<>>, visited |-> {}], ArenaOrder).nodes

-----------------------------------------------------------------------------
(* Loading. *)

\* collect_<class>: the node and every node nested in it, in document order.
RECURSIVE Collect(_)
Collect(node) ==
    LET Nested(nodes, f) ==
            IF Kind(f) # "contains" THEN nodes
            ELSE S!FoldLeft(LAMBDA found, entry :
                                IF IsLink(entry) THEN found ELSE found \o Collect(entry),
                            nodes, node.feature[f])
    IN  S!FoldLeft(Nested, <<node>>, schema.order[node.type])

\* How deep the JSON of a node nests: an object, with an array for every many
\* feature in it.
RECURSIVE Depth(_)
Depth(node) ==
    LET array(f) == IF Many(f) THEN 1 ELSE 0
        entryDepth(entry) == IF IsLink(entry) THEN 1 ELSE Depth(entry)
        featureDepth(f) == M!Max({0} \cup {entryDepth(node.feature[f][i]) :
                                              i \in DOMAIN node.feature[f]})
    IN  1 + M!Max({0, Len(node.attribute)}
                  \cup {array(f) + featureDepth(f) : f \in DOMAIN node.feature})

\* Mutant: the nodes are registered in document order.
InDocumentOrder(nodes) == nodes

\* The canonical ids order the nodes of a class as they were created.  Between
\* classes the code goes by the alphabet; nothing depends on that order.
InOrdinalOrder(nodes) ==
    SortSeq(nodes, LAMBDA l, r :
        \/ l.type = r.type /\ l.id[2] < r.id[2]
        \/ \E i, j \in DOMAIN schema.classes :
              i < j /\ schema.classes[i] = l.type /\ schema.classes[j] = r.type)

\* First pass: an object of its class for every id, refused when it is taken.
Register(nodes) ==
    S!FoldLeft(LAMBDA registry, node :
        IF registry = Invalid \/ node.id \in DOMAIN registry.key THEN Invalid
        ELSE [key |-> registry.key @@ (node.id :> <<node.type, registry.count[node.type]>>),
              count |-> [registry.count EXCEPT ![node.type] = @ + 1]],
        [key |-> <<>>, count |-> [class \in Classes |-> 0]], nodes)

\* container_field_of: the container feature of the child's class that a load
\* points back at the owner of f; there is none when no class matches.  When f
\* declares no opposite, the first container of the owner's class is taken.
ContainerFieldOf(f) ==
    LET candidate(g) ==
            /\ Kind(g) = "container"
            /\ Paired(g)
            /\ Class(Opposite(g)) = Class(f)
            /\ Paired(f) => g = Opposite(f)
        matches == SelectSeq(schema.order[Target(f)], candidate)
    IN  IF matches = <<>> THEN {} ELSE {Head(matches)}

\* The ids that the entries of a feature denote in the new arena.
IdsOf(entries, registry) ==
    [i \in DOMAIN entries |->
        LET id == IF IsLink(entries[i]) THEN entries[i].ref ELSE entries[i].id
        IN  IF id \in DOMAIN registry.key THEN registry.key[id] ELSE Invalid]

Distinct(ids) == S!FoldLeft(Push, <<>>, ids)

\* A null scalar leaves the default, a null element of a list is an error.
LoadAttribute(class, values) ==
    CASE schema.attribute[class] = "many" -> IF In(Null, values) THEN Invalid ELSE values
      [] schema.attribute[class] = "required" ->
            IF values = <<Null>> THEN <<Default>> ELSE values
      [] OTHER -> IF values = <<Null>> THEN <<>> ELSE values

\* Second pass, one node: its fields, and the back-pointers of its children.
FillNode(arena, node, registry) ==
    LET key == registry.key[node.id]
        FillFeature(filled, f) ==
            IF filled = Invalid \/ Kind(f) = "container" THEN filled
            ELSE LET ids == IdsOf(node.feature[f], registry)
                     children == IF Kind(f) = "contains" THEN ContainerFieldOf(f) ELSE {}
                 IN  IF In(Invalid, ids) THEN Invalid
                     ELSE [g \in Features |->
                              IF g = f THEN [filled[f] EXCEPT ![key] = Distinct(ids)]
                              ELSE IF g \in children
                              THEN [id \in DOMAIN filled[g] |->
                                       IF In(id, ids) THEN <<key>> ELSE filled[g][id]]
                              ELSE filled[g]]
        fields == S!FoldLeft(FillFeature, arena.field, schema.order[node.type])
        values == LoadAttribute(node.type, node.attribute)
    IN  IF fields = Invalid \/ values = Invalid THEN Invalid
        ELSE [arena EXCEPT !.field = fields, !.attr = [@ EXCEPT ![key] = values]]

\* from_instance_json.
FromInstanceJson(document) ==
    LET nodes == InOrdinalOrder(S!FlattenSeq([i \in DOMAIN document |-> Collect(document[i])]))
        registry == Register(nodes)
        Fill(arena, node) ==
            IF arena = Invalid THEN Invalid ELSE FillNode(arena, node, registry)
        empty == [field |-> [f \in Features |-> [id \in Ids(Class(f)) |-> <<>>]],
                  attr |-> [id \in AllIds |-> <<>>],
                  count |-> registry.count]
    IN  IF (\E i \in DOMAIN document : Depth(document[i]) + 2 > NestingLimit)
           \/ registry = Invalid
        THEN Invalid
        ELSE S!FoldLeft(Fill, empty, nodes)

-----------------------------------------------------------------------------
(* Properties. *)

\* load(save(x)) == x: the document brings back every object under the same
\* id, every list in the same order, every container and every attribute.
RoundTrip ==
    FromInstanceJson(ToInstanceJson) = [field |-> field, attr |-> attr, count |-> count]
=============================================================================
