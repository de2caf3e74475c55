----------------------------- MODULE SpoolerFifo -----------------------------
(***************************************************************************)
(* With ONE producer the ring of Spooler is a bounded first-in first-out   *)
(* buffer: the refinement of BoundedFifo under which it is so.             *)
(***************************************************************************)
EXTENDS Spooler, Sequences

\* Strings announced on spool_signal_sem so far.
Announced == claimed - Cardinality(Claimers)

\* The strings announced and not printed, read from the ring itself.
InFlight == [k \in 1 .. (Announced - printed) |-> buf[(printed + k - 1) % MAX_BUFFERS]]

\* The strings of the only producer, in the order it makes them.
TheStrings == [n \in 1 .. STRINGS |-> <<CHOOSE p \in Producers : TRUE, n>>]

Fifo == INSTANCE BoundedFifo WITH
            Items <- TheStrings, Capacity <- MAX_BUFFERS, Nothing <- Empty,
            queue <- InFlight, sent <- Announced, got <- printed, out <- lastPrinted

\* A single producer and the spooler implement the bounded buffer: what printf gets
\* is the strings in order, none skipped, repeated, torn or overwritten in the ring.
ImplementsFifo == Fifo!Spec
==============================================================================
