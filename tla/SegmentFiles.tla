---------------------------- MODULE SegmentFiles ----------------------------
(* The files of a segment: what their writers lay out and what their readers *)
(* insist on (src/src/storage/yappo_segment_v2.c, yappo_storage_v2.c,        *)
(* yappo_snapshot_v2.c, src/src/components/yappo_vector_v2.c).  A file is    *)
(* its records and the sizes and offsets it states; sizes are of payloads,   *)
(* without the common header.                                                *)
EXTENDS Lexical, Metadata

CONSTANTS
  Widths,               \* bytes of identifiers, URLs, metadata JSON, model name
  MaxSegmentDocuments,  \* YAP_V2_MAX_SEGMENT_DOCUMENTS
  MaxSegmentPassages    \* YAP_V2_MAX_SEGMENT_PASSAGES

MaxComponents == 8

Distinct(seq) == \A i, j \in 1..Len(seq) : seq[i] = seq[j] => i = j

IdsOf(seq) == [i \in 1..Len(seq) |-> seq[i].id]

----------------------------------------------------------------------------
(* documents.yap2                                                            *)

(* validate_segment_views, called by the writer and by the reader.           *)
ViewsValid(docs) ==
  LET ps == Passages(docs) IN
  /\ Len(docs) <= MaxSegmentDocuments /\ Len(ps) <= MaxSegmentPassages
  /\ Distinct(IdsOf(docs)) /\ Distinct(IdsOf(ps))
  /\ \A p \in 1..Len(ps) : ps[p].text # <<>> /\ ps[p].start <= ps[p].end
  /\ Distinct([p \in 1..Len(ps) |-> <<ps[p].parent, ps[p].ordinal>>])

(* append_document_record and append_passage_record.                         *)
DocumentRecord(d) ==
  [type |-> Document,
   bytes |-> 8 + (4 + Widths.id) + (4 + Widths.url) + (4 + Len(d.title)) + (4 + Len(d.body))
               + (4 + Widths.metadata) + 8]

PassageRecord(p) ==
  [type |-> Passage,
   bytes |-> 8 + (4 + Widths.passageId) + (4 + Widths.id) + (4 + Len(p.text)) + 3 * 4]

(* segment_write.                                                            *)
WriteDocuments(docs) ==
  LET ps == Passages(docs) IN
  [documents |-> Len(docs), passages |-> Len(ps),
   records |-> [i \in 1..Len(docs) |-> DocumentRecord(docs[i])] \o
               [p \in 1..Len(ps) |-> PassageRecord(ps[p])]]

DocumentsBytes(file) ==
  4 + 4 + Widths.segment + 8 + 8 + SumOver(Len(file.records), LAMBDA i : file.records[i].bytes)

(* segment_read: documents first, then passages, then nothing.               *)
DocumentsRead(file, docs) ==
  /\ file.documents <= MaxSegmentDocuments /\ file.passages <= MaxSegmentPassages
  /\ Len(file.records) = file.documents + file.passages
  /\ \A i \in 1..Len(file.records) :
       file.records[i].type = IF i <= file.documents THEN Document ELSE Passage
  /\ ViewsValid(docs)

----------------------------------------------------------------------------
(* tombstones.yap2: the writer refuses duplicates; only the reader limits    *)
(* the count.                                                                *)

TombstonesWritable(ids) == Distinct(ids)

TombstonesBytes(ids) == 4 + 8 + Len(ids) * (4 + Widths.id)

TombstonesRead(ids) == Len(ids) <= MaxSegmentDocuments /\ Distinct(ids)

----------------------------------------------------------------------------
(* vectors.yap2: a record per passage, the ids, zeros up to a multiple of    *)
(* four, the vectors.                                                        *)

PaddedTo4(n) == n + (CHOOSE k \in 0..3 : (n + k) % 4 = 0)

IdsOffset(count) == 40 + Widths.model + 16 * count

(* vectors_write.                                                            *)
WriteVectors(ps) ==
  [count |-> Len(ps), ids |-> Len(ps) * Widths.passageId,
   offset |-> PaddedTo4(IdsOffset(Len(ps)) + Len(ps) * Widths.passageId),
   records |-> [p \in 1..Len(ps) |->
     [at |-> (p - 1) * Widths.passageId, id |-> ps[p].id, sim |-> ps[p].sim]]]

VectorsBytes(file) == file.offset + file.count * Widths.dimensions * 4

(* vector_segment_open.                                                      *)
VectorsOpen(file) ==
  /\ file.count <= MaxSegmentPassages /\ Len(file.records) = file.count
  /\ file.offset >= IdsOffset(file.count) + file.ids /\ file.offset % 4 = 0
  /\ \A p \in 1..file.count : file.records[p].at = (p - 1) * Widths.passageId
  /\ file.count * Widths.passageId = file.ids
  /\ Distinct(IdsOf(file.records))

----------------------------------------------------------------------------
(* A segment's directory: its files by name, each named by a component of    *)
(* the descriptor that goes into the manifest.                               *)

(* The components segment_slice_write adds to the descriptor.                *)
ComponentNames(docs, tombstones) ==
  <<"documents">>
  \o (IF docs = <<>> THEN <<>> ELSE <<"terms", "postings", "positions", "metadata">>)
  \o (IF Passages(docs) = <<>> THEN <<>> ELSE <<"vectors", "ann">>)
  \o (IF tombstones = <<>> THEN <<>> ELSE <<"tombstones">>)

(* segment_descriptor_add_component and manifest_validate.                   *)
DescriptorValid(d) ==
  /\ d.components # <<>> /\ Len(d.components) <= MaxComponents
  /\ Distinct(d.components)

Descriptor(docs, tombstones) ==
  [components |-> ComponentNames(docs, tombstones), documents |-> Len(docs),
   passages |-> Len(Passages(docs)), tombstones |-> Len(tombstones)]

(* The writers that can refuse what they are given.                          *)
Writable(docs, tombstones) == ViewsValid(docs) /\ TombstonesWritable(tombstones)

WriteSegment(name, docs, tombstones) ==
  [name |-> name, docs |-> docs, tombstones |-> tombstones,
   descriptor |-> Descriptor(docs, tombstones),
   documents |-> WriteDocuments(docs),
   lex |-> WriteLexical(docs),
   meta |-> WriteMetadata([i \in 1..Len(docs) |-> docs[i].meta]),
   vectors |-> WriteVectors(Passages(docs))]

Has(segment, name) ==
  \E i \in 1..Len(segment.descriptor.components) : segment.descriptor.components[i] = name

(* The payload bytes of the seven files, 0 for one that is not written.      *)
FileBytes(segment) ==
  LET lexical == LexicalBytes(segment.lex)
      bytes(name, n) == IF Has(segment, name) THEN n ELSE 0 IN
  << DocumentsBytes(segment.documents),
     bytes("terms", lexical[1]), bytes("postings", lexical[2]), bytes("positions", lexical[3]),
     bytes("metadata", MetadataBytes(segment.meta)),
     bytes("vectors", VectorsBytes(segment.vectors)),
     bytes("tombstones", TombstonesBytes(segment.tombstones)) >>

(* snapshot_load and runtime_segment_open: what a server demands of a        *)
(* segment before it answers from it; a vector stands at its passage's place.*)
SegmentLoads(segment) ==
  /\ DescriptorValid(segment.descriptor)
  /\ DocumentsRead(segment.documents, segment.docs)
  /\ segment.documents.documents = segment.descriptor.documents
  /\ segment.documents.passages = segment.descriptor.passages
  /\ Has(segment, "tombstones") => TombstonesRead(segment.tombstones)
  /\ Len(segment.tombstones) = segment.descriptor.tombstones
  /\ Has(segment, "terms") => SegmentOpens(segment.lex)
  /\ Has(segment, "vectors") =>
       /\ VectorsOpen(segment.vectors)
       /\ IdsOf(segment.vectors.records) = IdsOf(Passages(segment.docs))
  /\ Has(segment, "metadata") => MetadataReads(segment.meta)
============================================================================
