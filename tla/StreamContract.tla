--------------------------- MODULE StreamContract ---------------------------
(***************************************************************************)
(* What a streaming response promises to the application and to h2o: the   *)
(* chunks that were accepted are handed over in order, each once, with no  *)
(* gap; a new hand-over waits for the engine to have consumed the last     *)
(* one; nothing follows the final chunk; and a reset ends it all.          *)
(***************************************************************************)
EXTENDS Integers, Sequences

CONSTANT Chunk           \* records with at least the fields id and final

VARIABLES accepted,      \* the chunks accepted so far, in order
          delivered,     \* how many of them were handed to the engine
          wire           \* the engine: ready, sending, final or gone

vars == <<accepted, delivered, wire>>

Init == accepted = <<>> /\ delivered = 0 /\ wire = "ready"

\* Chunks are accepted in the order they were sealed; a refused chunk is never
\* followed by an accepted one, and nothing follows the final chunk.
Accept ==
  /\ \A i \in DOMAIN accepted : ~accepted[i].final
  /\ \E c \in Chunk : /\ c.id = Len(accepted) + 1
                      /\ accepted' = Append(accepted, c)
  /\ UNCHANGED <<delivered, wire>>

\* Hand some of the waiting chunks, a prefix of them, to a ready engine.
Deliver ==
  /\ wire = "ready"
  /\ delivered' \in (delivered + 1)..Len(accepted)
  /\ wire' = IF accepted[delivered'].final THEN "final" ELSE "sending"
  /\ UNCHANGED accepted

Acknowledge == wire = "sending" /\ wire' = "ready" /\ UNCHANGED <<accepted, delivered>>

Reset == wire # "gone" /\ wire' = "gone" /\ UNCHANGED <<accepted, delivered>>

Next == Accept \/ Deliver \/ Acknowledge \/ Reset

Spec == Init /\ [][Next]_vars
=============================================================================
