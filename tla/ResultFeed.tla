------------------------------ MODULE ResultFeed ------------------------------
(***************************************************************************)
(* What mqttpublisher hands over to the Greengrass core                    *)
(* (gstmqttpublisher.cc:163-176): every message carries the verdict on a   *)
(* frame that was inferred, and no frame is handed over twice.  Frames may *)
(* be missing, and their messages may come in another order.  The delivery *)
(* from the core to the subscribers, with QOS_AT_LEAST_ONCE                *)
(* (GreengrassClient.cc:37), may repeat a message and is not described.    *)
(***************************************************************************)
EXTENDS Sequences

VARIABLES
    results,    \* the frames inferred so far, each with its verdict
    feed        \* what the core has taken over, in order

vars == <<results, feed>>

Init == results = {} /\ feed = <<>>

(* A result stays what it is. *)
Infer ==
    /\ results \subseteq results'
    /\ \A r, q \in results' : r.frame = q.frame => r = q
    /\ UNCHANGED feed

Publish ==
    /\ \E r \in results :
          /\ \A i \in DOMAIN feed : feed[i] # r
          /\ feed' = Append(feed, r)
    /\ UNCHANGED results

Next == Infer \/ Publish

Spec == Init /\ [][Next]_vars
=============================================================================
