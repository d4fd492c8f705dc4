------------------------------- MODULE RpcCall -------------------------------
(***************************************************************************)
(* What the message broker promises to the rest of the server: a call is   *)
(* made at most once, and its promise is settled at most once, either with *)
(* a body that some driver really sent in answer to that very call or with *)
(* a rejection.  Nothing here knows of timers, listeners or queues; the    *)
(* module MessageBroker is shown to implement this one.                    *)
(***************************************************************************)

CONSTANTS
  Calls,     \* one element per call, i.e. per correlation identifier
  Answers    \* the bodies a driver can send that JSON.parse accepts

Unmade   == "unmade"
Pending  == "pending"
Rejected == "rejected"

VARIABLES
  promise,   \* what the caller of publishX() holds
  answered   \* the bodies the drivers have sent so far, per call

callVars == <<promise, answered>>

Init ==
  /\ promise = [c \in Calls |-> Unmade]
  /\ answered = [c \in Calls |-> {}]

(* publishAuthentication, publishAuthorization and publishCommand return a *)
(* promise; when the message cannot be handed to the channel it is already *)
(* rejected.                                                               *)
Make(c) ==
  /\ promise[c] = Unmade
  /\ \E p \in {Pending, Rejected} : promise' = [promise EXCEPT ![c] = p]
  /\ UNCHANGED answered

(* A driver answers a call the server has made, possibly more than once.   *)
Answer(c) ==
  /\ promise[c] # Unmade
  /\ \E a \in Answers : answered' = [answered EXCEPT ![c] = @ \cup {a}]
  /\ UNCHANGED promise

Resolve(c) ==
  /\ promise[c] = Pending
  /\ \E a \in answered[c] : promise' = [promise EXCEPT ![c] = a]
  /\ UNCHANGED answered

Reject(c) ==
  /\ promise[c] = Pending
  /\ promise' = [promise EXCEPT ![c] = Rejected]
  /\ UNCHANGED answered

Next == \E c \in Calls : Make(c) \/ Answer(c) \/ Resolve(c) \/ Reject(c)

Spec == Init /\ [][Next]_callVars
=============================================================================
