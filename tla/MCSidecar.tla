------------------------------ MODULE MCSidecar ------------------------------
(* More clients than workers; offers that suit, that ask for too much. *)
EXTENDS Sidecar

CONSTANTS c1, c2, c3

Offer(required) ==
    [min |-> 0, max |-> 2, compression |-> {"gzip", "none"}, required |-> required,
     optional |-> {"prefix-list", "unknown"}]

Hello1(required) == [method |-> "hello", id |-> 1, offer |-> Offer(required)]
Put2 == [method |-> "put", id |-> 2, key |-> "k", value |-> "v"]
Garbled == [method |-> "garbled", id |-> 0]

(* One client that behaves, one that does not, and one that only connects. *)
MCSends ==
    [c \in Client |->
        CASE c = c1 -> {Hello1({"kv"}), Put2}
          [] c = c2 -> {Garbled, Hello1({"kv"}), Hello1({"sql"}), Put2,
                        [method |-> "oversized", id |-> 2]}
          [] OTHER -> {}]

MCRequest == UNION {MCSends[c] : c \in Client}
=============================================================================
