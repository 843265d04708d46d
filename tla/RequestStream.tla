----------------------------- MODULE RequestStream -----------------------------
(***************************************************************************)
(* The order in which one request's callback is given its events: the      *)
(* request may be queued first, it starts once, its tokens carry rising    *)
(* sequence numbers, and one terminal event closes the stream for good.  A *)
(* request may end without having started.                                 *)
(*                                                                         *)
(* This is the part of generate()'s promise "strictly increasing event     *)
(* sequences ending in exactly one completed/failed terminal event"        *)
(* (include/socrates/pipeline/inference_pipeline.h:111) that the code      *)
(* keeps.  Read literally the promise orders the numbers of all events,    *)
(* and that does not hold: queued, started and the first token are all     *)
(* number 0.  Here only the numbers of tokens are related.                 *)
(***************************************************************************)
EXTENDS Naturals, Sequences

CONSTANTS
    Requests,
    Numbers    \* sequence numbers an event may carry

VARIABLE stream   \* the events delivered so far, per request

LastKind(r) ==
    IF stream[r] = <<>> THEN "nothing" ELSE stream[r][Len(stream[r])].kind

Deliver(r, kind, seq) ==
    stream' = [stream EXCEPT ![r] = Append(@, [kind |-> kind, seq |-> seq])]

Init == stream = [r \in Requests |-> <<>>]

Queue(r) ==
    /\ LastKind(r) = "nothing"
    /\ Deliver(r, "queued", 0)

Start(r) ==
    /\ LastKind(r) \in {"nothing", "queued"}
    /\ Deliver(r, "started", 0)

Token(r, n) ==
    /\ LastKind(r) \in {"started", "token"}
    /\ \A i \in DOMAIN stream[r] : stream[r][i].kind = "token" => stream[r][i].seq < n
    /\ Deliver(r, "token", n)

End(r, n) ==
    /\ LastKind(r) \in {"queued", "started", "token"}
    /\ Deliver(r, "completed", n) \/ Deliver(r, "failed", n)

Next ==
    \E r \in Requests :
        \/ Queue(r)
        \/ Start(r)
        \/ \E n \in Numbers : Token(r, n) \/ End(r, n)

Spec == Init /\ [][Next]_stream
===============================================================================
