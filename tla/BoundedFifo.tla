----------------------------- MODULE BoundedFifo -----------------------------
(***************************************************************************)
(* What a bounded buffer between one sender and one receiver promises: the *)
(* items arrive in the order they were sent, none lost, repeated or        *)
(* altered, and at most Capacity of them are in flight.                    *)
(***************************************************************************)
EXTENDS Naturals, Sequences

CONSTANTS
    Items,      \* the sequence of items to send
    Capacity,   \* how many may be in flight
    Nothing     \* the content of out before the first item arrives

VARIABLES
    queue,      \* items sent and not received
    sent,       \* how many items were sent
    got,        \* how many items were received
    out         \* the last item received

vars == <<queue, sent, got, out>>

Init == queue = <<>> /\ sent = 0 /\ got = 0 /\ out = Nothing

Put ==
    /\ sent < Len(Items)
    /\ Len(queue) < Capacity
    /\ sent' = sent + 1
    /\ queue' = Append(queue, Items[sent + 1])
    /\ UNCHANGED <<got, out>>

Get ==
    /\ queue # <<>>
    /\ out' = Head(queue)
    /\ queue' = Tail(queue)
    /\ got' = got + 1
    /\ UNCHANGED sent

Next == Put \/ Get

Spec == Init /\ [][Next]_vars
==============================================================================
