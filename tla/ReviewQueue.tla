----------------------------- MODULE ReviewQueue -----------------------------
(***************************************************************************)
(* The queue of records waiting for a person (src/interop/review_queue.py) *)
(* in insertion order.  Item ids are random UUIDs in the code and          *)
(* positions here; the wording of a reason is an element of Reasons.       *)
(***************************************************************************)
EXTENDS Sequences

CONSTANT None

VARIABLE queue

Reasons == {"no_name", "no_resolver", "weak", "llm_uncertain"}

QueueInit == queue = <<>>

add(rec, reason) ==
    queue' = Append(queue, [system |-> rec.system, record_id |-> rec.record_id,
                            reason |-> reason, status |-> "pending",
                            resolved_canonical_id |-> None])

\* No check of the item's status nor of the id: a closed item can be closed
\* again and the id need not be in any registry.
resolve(item, canonical_id) ==
    queue' = [queue EXCEPT
        ![item].status = IF canonical_id = None THEN "rejected" ELSE "resolved",
        ![item].resolved_canonical_id = canonical_id]

=============================================================================
