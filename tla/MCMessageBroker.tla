--------------------------- MODULE MCMessageBroker ---------------------------
(* One call of each kind, on a response queue each; a reply body is parsed *)
(* or malformed.  A reply can then be late, duplicated, crossed, malformed *)
(* or lost, and the channel can close before, between and after the calls. *)
EXTENDS MessageBroker, TLC

CONSTANTS c1, c2, c3

MCCalls == {c1, c2, c3}
MCReplyTo == (c1 :> "authentication") @@ (c2 :> "authorization") @@ (c3 :> "COPY")
=============================================================================
