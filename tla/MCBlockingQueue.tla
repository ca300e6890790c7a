--------------------------- MODULE MCBlockingQueue --------------------------
(* BlockingQueue for TLC. *)
EXTENDS BlockingQueue, TLC

CONSTANTS e1, e2

Use(bound, callers, kinds, elements, closes) ==
  [bound |-> bound, callers |-> callers, kinds |-> kinds,
   elements |-> elements, closes |-> closes]

(* Three callers and a closer on a queue of one element; on a queue that   *)
(* grows two callers, and one caller with elements that tell the order.    *)
SafetyUses == {Use(1, 3, {"add", "put", "take"}, {e1}, TRUE),
               Use(0, 2, {"add", "poll"}, {e1}, FALSE),
               Use(0, 1, {"add", "poll"}, {e1, e2}, FALSE)}

(* Two callers, so that liveness can be checked without symmetry.          *)
LivenessUses == {Use(1, 2, {"add", "put", "take"}, {e1}, TRUE),
                 Use(1, 2, {"add", "poll"}, {e1}, TRUE)}

(* One caller blocked in put while the queue is closed, and one that comes *)
(* after the close.                                                        *)
ClosedUses == {Use(1, 2, {"add", "put"}, {e1}, TRUE)}

Symmetry == Permutations(Threads)

=============================================================================
