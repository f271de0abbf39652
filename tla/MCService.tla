----------------------------- MODULE MCService ------------------------------
(* Values for the constants of Service.                                    *)
EXTENDS Service

Body(parses, accepted, docs) == [parses |-> parses, accepted |-> accepted, docs |-> docs]

(* The first call names a document or is refused by the indexer; the       *)
(* second names the same document, another one, or does not parse.         *)
MCItems == << {Body(TRUE, TRUE, {"a"}), Body(TRUE, FALSE, {"b"})},
              {Body(TRUE, TRUE, {"a"}), Body(TRUE, TRUE, {"c"}), Body(FALSE, FALSE, {"a"})} >>

MCRequestLimit == [requests |-> 1, bytes |-> 1]
MCIngestLimit  == [requests |-> 2, bytes |-> 2]
=============================================================================
