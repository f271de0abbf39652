------------------------------ MODULE Metadata ------------------------------
(* The filterable fields of a segment's documents in metadata.yap2 and the   *)
(* filters evaluated over them (src/src/components/yappo_metadata_v2.c,      *)
(* src/src/query/yappo_filter_v2.c).                                         *)
(*                                                                          *)
(* A document's metadata maps field names to sequences of values: an array's *)
(* elements, or the one value.  A value is [type, value]; an object or a     *)
(* nested array has the type "other".                                        *)
EXTENDS Integers, Sequences, FiniteSets, FiniteSetsExt, SequencesExt

CONSTANTS
  FilterFields,    \* config->filterable_fields
  FieldBytes,      \* the length of every field name
  MaxFilterDepth,  \* MAX_FILTER_DEPTH
  MaxFilterNodes   \* MAX_FILTER_NODES

Scalar(v) == v.type \in {"null", "bool", "number", "string"}

(* Bytes of a stored scalar: nothing for null, the decimal digits of a       *)
(* number, one byte for a boolean or for these one-letter strings.           *)
ScalarBytes(v) ==
  CASE v.type = "null" -> 0
    [] v.type = "number" -> IF v.value > 9 THEN 2 ELSE 1
    [] OTHER -> 1

(* path_value.                                                               *)
FieldValues(meta, field) == IF field \in DOMAIN meta THEN meta[field] ELSE <<>>

----------------------------------------------------------------------------
(* The writer and the reader.                                                *)

(* append_value: an entry per scalar; other values leave no trace.           *)
FieldEntries(meta, f, document) ==
  LET scalars == SelectSeq(FieldValues(meta, FilterFields[f]), Scalar) IN
  [v \in 1..Len(scalars) |->
     [field |-> f, document |-> document, type |-> scalars[v].type,
      value |-> scalars[v].value, bytes |-> ScalarBytes(scalars[v])]]

DocumentEntries(meta, document) ==
  FlattenSeq([f \in 1..Len(FilterFields) |-> FieldEntries(meta, f, document)])

(* metadata_write_preparsed over the documents' metadata.                    *)
WriteMetadata(metas) ==
  [fields |-> FilterFields, documents |-> Len(metas),
   entries |-> FlattenSeq([i \in 1..Len(metas) |-> DocumentEntries(metas[i], i)])]

MetadataBytes(file) ==
  24 + (4 + FieldBytes) * Len(file.fields) +
  MapThenSumSet(LAMBDA i : 20 + file.entries[i].bytes, 1..Len(file.entries))

(* metadata_read.                                                            *)
MetadataReads(file) ==
  /\ file.fields = FilterFields
  /\ \A i \in 1..Len(file.entries) :
       /\ file.entries[i].field \in 1..Len(file.fields)
       /\ file.entries[i].document \in 1..file.documents
       /\ Scalar(file.entries[i])

(* metadata_field_ordinal, 0 when the field is not registered.               *)
FieldOrdinal(file, field) ==
  LET at == {f \in 1..Len(file.fields) : file.fields[f] = field} IN
  IF at = {} THEN 0 ELSE Min(at)

----------------------------------------------------------------------------
(* Filters: [op, args] for and, or, not; [op, field, ...] for the others.    *)

Connective(node) == node.op \in {"and", "or", "not"}

(* Mutant: a field name is not looked up.                                    *)
LeafValidAnyField(file, node) ==
  node.op = "in" => node.values # <<>>

LeafValid(file, node) ==
  /\ FieldOrdinal(file, node.field) # 0
  /\ node.op = "eq" => Scalar(node.value)
  /\ node.op = "in" => node.values # <<>> /\ \A i \in 1..Len(node.values) : Scalar(node.values[i])
  /\ node.op = "range" => DOMAIN node.bounds # {}

(* validate_node.                                                            *)
RECURSIVE NodeValid(_, _, _)
NodeValid(file, node, depth) ==
  /\ depth <= MaxFilterDepth
  /\ IF Connective(node)
     THEN /\ node.args # <<>>
          /\ \A i \in 1..Len(node.args) : NodeValid(file, node.args[i], depth + 1)
     ELSE LeafValid(file, node)

RECURSIVE NodeCount(_)
NodeCount(node) ==
  1 + IF Connective(node) THEN MapThenSumSet(LAMBDA i : NodeCount(node.args[i]), 1..Len(node.args))
      ELSE 0

(* filter_compile.                                                           *)
FilterCompiles(file, node) == NodeValid(file, node, 1) /\ NodeCount(node) <= MaxFilterNodes

(* literal_equal: types are never converted into each other.                 *)
LiteralEqual(entry, v) == entry.type = v.type /\ entry.value = v.value

WithinBounds(n, bounds) ==
  /\ "gt" \in DOMAIN bounds => n > bounds.gt
  /\ "gte" \in DOMAIN bounds => n >= bounds.gte
  /\ "lt" \in DOMAIN bounds => n < bounds.lt
  /\ "lte" \in DOMAIN bounds => n <= bounds.lte

(* What a leaf says of one value.                                            *)
ValueMatches(node, v) ==
  \/ node.op = "exists"
  \/ node.op = "eq" /\ LiteralEqual(v, node.value)
  \/ node.op = "in" /\ \E i \in 1..Len(node.values) : LiteralEqual(v, node.values[i])
  \/ node.op = "range" /\ v.type = "number" /\ WithinBounds(v.value, node.bounds)

(* field_entry.                                                              *)
EntriesOf(file, field, document) ==
  {i \in 1..Len(file.entries) :
     file.entries[i].field = field /\ file.entries[i].document = document}

LeafMatches(file, node, document) ==
  \E i \in EntriesOf(file, FieldOrdinal(file, node.field), document) :
    ValueMatches(node, file.entries[i])

(* eval_node.                                                                *)
RECURSIVE Evaluate(_, _, _)
Evaluate(file, node, document) ==
  CASE node.op = "not" -> ~Evaluate(file, node.args[1], document)
    [] node.op = "and" -> \A i \in 1..Len(node.args) : Evaluate(file, node.args[i], document)
    [] node.op = "or" -> \E i \in 1..Len(node.args) : Evaluate(file, node.args[i], document)
    [] OTHER -> LeafMatches(file, node, document)

----------------------------------------------------------------------------
(* The filter over a document's own metadata, without entries or ordinals.   *)
(* As in the code a field without a scalar does not exist: an object and an  *)
(* empty array are as if the path were missing.                              *)

MetaHas(meta, node) ==
  \E i \in 1..Len(FieldValues(meta, node.field)) :
    LET v == FieldValues(meta, node.field)[i] IN Scalar(v) /\ ValueMatches(node, v)

RECURSIVE MetaSatisfies(_, _)
MetaSatisfies(meta, node) ==
  CASE node.op = "not" -> ~MetaSatisfies(meta, node.args[1])
    [] node.op = "and" -> \A i \in 1..Len(node.args) : MetaSatisfies(meta, node.args[i])
    [] node.op = "or" -> \E i \in 1..Len(node.args) : MetaSatisfies(meta, node.args[i])
    [] OTHER -> MetaHas(meta, node)

(* What the documentation asks of a filter: registered fields, no more       *)
(* levels and no more nodes than the limits.                                 *)
RECURSIVE FieldsNamed(_)
FieldsNamed(node) ==
  IF Connective(node) THEN UNION {FieldsNamed(node.args[i]) : i \in 1..Len(node.args)}
  ELSE {node.field}

RECURSIVE Nesting(_)
Nesting(node) ==
  1 + IF Connective(node) THEN Max({Nesting(node.args[i]) : i \in 1..Len(node.args)}) ELSE 0

Admissible(node) ==
  /\ FieldsNamed(node) \subseteq Range(FilterFields)
  /\ Nesting(node) <= MaxFilterDepth /\ NodeCount(node) <= MaxFilterNodes
============================================================================
