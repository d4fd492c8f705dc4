------------------------- MODULE MessageBroker_proofs -------------------------
(* Proofs about the message broker client, for any set of calls, answers   *)
(* and command queues.                                                     *)
EXTENDS MessageBroker, TLAPS

(* Only calls that were made have a request at the broker: what lets a     *)
(* driver's reply be an answer to a call in the abstract specification.    *)
RequestsWereMade == \A c \in requests : promise[c] # Unmade

IInv ==
  /\ TypeOK
  /\ PendingHasAWayOut
  /\ NoListenerOutlivesItsTimer
  /\ AnswersAreCorrelated
  /\ RequestsWereMade

(* What the listener settles a promise with is never "unmade" or "pending".*)
LEMMA ParsedIsFinal ==
  ASSUME NEW body \in Bodies
  PROVE  /\ Parsed(body) \in {Rejected} \cup Answers
         /\ Parsed(body) \notin {Unmade, Pending}
         /\ Parsed(body) \in Answers => Parsed(body) = body
BY BrokerAssumption DEF Bodies, Parsed, Rejected, Unmade, Pending

LEMMA RejectedIsFinal == Rejected \notin {Unmade, Pending} \cup Answers /\ Unmade # Pending
BY BrokerAssumption DEF Rejected, Unmade, Pending

(* The broker's state is of its type: a settled promise is a rejection or  *)
(* an answer, listeners and requests belong to calls.                      *)
THEOREM TypeCorrect == Spec => []TypeOK
<1>1. Init => TypeOK
  BY DEF Init, TypeOK, Phases, Timers
<1>2. TypeOK /\ [Next]_brokerVars => TypeOK'
  <2> SUFFICES ASSUME TypeOK, [Next]_brokerVars PROVE TypeOK'
    OBVIOUS
  <2> USE DEF TypeOK, Phases, Timers
  <2>1. ASSUME NEW c \in Calls, Publish(c) PROVE TypeOK'
    BY <2>1 DEF Publish, Queues
  <2>2. ASSUME NEW c \in Calls, TimerFires(c) PROVE TypeOK'
    BY <2>2 DEF TimerFires, Emit, Settle
  <2>3. ASSUME NEW c \in Calls, NEW body \in Bodies, ConsumeReply(c, body) PROVE TypeOK'
    <3>1. Parsed(body) \in {Rejected} \cup Answers
      BY ParsedIsFinal
    <3> QED BY <2>3, <3>1 DEF ConsumeReply, Emit, Settle
  <2>4. ASSUME NEW c \in Calls, NEW body \in Bodies, DriverReplies(c, body) PROVE TypeOK'
    BY <2>4 DEF DriverReplies
  <2>5. CASE QueueStep
    BY <2>5 DEF QueueStep, InitializeAuthentication, InitializeAuthorization,
       InitializeCommandRPCQueue, ConsumerCancelled, Queues
  <2>6. CASE PhaseStep
    BY <2>6 DEF PhaseStep, StartServer, ChannelLost, CloseConnection, Exit
  <2>7. CASE UNCHANGED brokerVars
    BY <2>7 DEF brokerVars
  <2> QED
    BY <2>1, <2>2, <2>3, <2>4, <2>5, <2>6, <2>7 DEF Next, CallStep,
       PublishAuthentication, PublishAuthorization, PublishCommand
<1> QED
  BY <1>1, <1>2, PTL DEF Spec

(* The inductive invariant: besides the types, what the four safety        *)
(* invariants say of timers, listeners, promises and replies.              *)
THEOREM Inductive == Spec => []IInv
<1>1. Init => IInv
  <2> SUFFICES ASSUME Init PROVE IInv
    OBVIOUS
  <2>1. TypeOK
    BY DEF Init, TypeOK, Phases, Timers
  <2>2. PendingHasAWayOut /\ NoListenerOutlivesItsTimer /\ RequestsWereMade
    BY RejectedIsFinal DEF Init, PendingHasAWayOut, NoListenerOutlivesItsTimer, RequestsWereMade
  <2>3. AnswersAreCorrelated
    BY BrokerAssumption DEF Init, AnswersAreCorrelated
  <2> QED BY <2>1, <2>2, <2>3 DEF IInv
<1>2. IInv /\ TypeOK' /\ [Next]_brokerVars => IInv'
  <2> SUFFICES ASSUME IInv, TypeOK', [Next]_brokerVars PROVE IInv'
    OBVIOUS
  <2> USE RejectedIsFinal DEF IInv, TypeOK
  <2>1. ASSUME NEW c \in Calls, Publish(c) PROVE IInv'
    <3>1. /\ timer' = [timer EXCEPT ![c] = "armed"]
          /\ listeners' = listeners \cup {c}
          /\ replies' = replies
          /\ requests' \subseteq requests \cup {c}
          /\ \E p \in {Pending, Rejected} : promise' = [promise EXCEPT ![c] = p]
      BY <2>1 DEF Publish
    <3>2. PendingHasAWayOut' /\ NoListenerOutlivesItsTimer'
      BY <3>1 DEF PendingHasAWayOut, NoListenerOutlivesItsTimer, Timers
    <3>3. AnswersAreCorrelated'
      BY <3>1, BrokerAssumption DEF AnswersAreCorrelated
    <3>4. RequestsWereMade'
      BY <3>1 DEF RequestsWereMade
    <3> QED BY <3>2, <3>3, <3>4
  <2>2. ASSUME NEW c \in Calls, TimerFires(c) PROVE IInv'
    <3>1. PendingHasAWayOut' /\ NoListenerOutlivesItsTimer'
      BY <2>2 DEF TimerFires, Emit, Settle, PendingHasAWayOut, NoListenerOutlivesItsTimer, Timers
    <3>2. AnswersAreCorrelated' /\ RequestsWereMade'
      BY <2>2 DEF TimerFires, Emit, Settle, AnswersAreCorrelated, RequestsWereMade
    <3> QED BY <3>1, <3>2
  <2>3. ASSUME NEW c \in Calls, NEW body \in Bodies, ConsumeReply(c, body) PROVE IInv'
    <3>1. /\ Parsed(body) \notin {Unmade, Pending}
          /\ Parsed(body) \in Answers => Parsed(body) = body
      BY ParsedIsFinal
    <3>2. PendingHasAWayOut' /\ NoListenerOutlivesItsTimer'
      BY <2>3, <3>1 DEF ConsumeReply, Emit, Settle, PendingHasAWayOut, NoListenerOutlivesItsTimer
    <3>3. AnswersAreCorrelated' /\ RequestsWereMade'
      BY <2>3, <3>1 DEF ConsumeReply, Emit, Settle, AnswersAreCorrelated, RequestsWereMade
    <3> QED BY <3>2, <3>3
  <2>4. ASSUME NEW c \in Calls, NEW body \in Bodies, DriverReplies(c, body) PROVE IInv'
    BY <2>4 DEF DriverReplies, PendingHasAWayOut, NoListenerOutlivesItsTimer,
       AnswersAreCorrelated, RequestsWereMade
  <2>5. CASE UNCHANGED <<promise, timer, listeners, requests, replies>>
    BY <2>5 DEF PendingHasAWayOut, NoListenerOutlivesItsTimer, AnswersAreCorrelated, RequestsWereMade
  <2>6. QueueStep \/ PhaseStep \/ UNCHANGED brokerVars
          => UNCHANGED <<promise, timer, listeners, requests, replies>>
    BY DEF QueueStep, InitializeAuthentication, InitializeAuthorization,
       InitializeCommandRPCQueue, ConsumerCancelled,
       PhaseStep, StartServer, ChannelLost, CloseConnection, Exit, brokerVars
  <2> QED
    BY <2>1, <2>2, <2>3, <2>4, <2>5, <2>6 DEF Next, CallStep,
       PublishAuthentication, PublishAuthorization, PublishCommand
<1> QED
  BY <1>1, <1>2, TypeCorrect, PTL DEF Spec

(* A pending call has its listener and its armed timer.                    *)
THEOREM PendingIsAwaited == Spec => []PendingHasAWayOut
<1>1. IInv => PendingHasAWayOut
  BY DEF IInv
<1> QED BY <1>1, Inductive, PTL

(* Listeners do not accumulate: each has a timer that will remove it.      *)
THEOREM ListenersAreTimed == Spec => []NoListenerOutlivesItsTimer
<1>1. IInv => NoListenerOutlivesItsTimer
  BY DEF IInv
<1> QED BY <1>1, Inductive, PTL

(* A caller only sees bodies sent for its own correlation identifier.      *)
THEOREM Correlated == Spec => []AnswersAreCorrelated
<1>1. IInv => AnswersAreCorrelated
  BY DEF IInv
<1> QED BY <1>1, Inductive, PTL

-----------------------------------------------------------------------------
(* Steps that leave all promises alone.                                    *)
LEMMA QuietSteps ==
  QueueStep \/ PhaseStep \/ UNCHANGED brokerVars => UNCHANGED <<promise, replies>>
BY DEF QueueStep, InitializeAuthentication, InitializeAuthorization,
   InitializeCommandRPCQueue, ConsumerCancelled,
   PhaseStep, StartServer, ChannelLost, CloseConnection, Exit, brokerVars

(* A settled call ignores every later answer and its timeout.              *)
THEOREM SettledStays == Spec => SettledForGood
<1>1. TypeOK /\ [Next]_brokerVars
        => [\A c \in Calls : promise[c] \notin {Unmade, Pending} => promise'[c] = promise[c]]_brokerVars
  <2> SUFFICES ASSUME TypeOK, [Next]_brokerVars, NEW c \in Calls, promise[c] \notin {Unmade, Pending}
               PROVE  promise'[c] = promise[c]
    OBVIOUS
  <2> USE DEF TypeOK
  <2>1. ASSUME NEW d \in Calls, Publish(d) PROVE promise'[c] = promise[c]
    BY <2>1 DEF Publish
  <2>2. ASSUME NEW d \in Calls, TimerFires(d) PROVE promise'[c] = promise[c]
    BY <2>2 DEF TimerFires, Emit, Settle
  <2>3. ASSUME NEW d \in Calls, NEW body \in Bodies, ConsumeReply(d, body) PROVE promise'[c] = promise[c]
    BY <2>3 DEF ConsumeReply, Emit, Settle
  <2>4. ASSUME NEW d \in Calls, NEW body \in Bodies, DriverReplies(d, body) PROVE promise'[c] = promise[c]
    BY <2>4 DEF DriverReplies
  <2> QED
    BY <2>1, <2>2, <2>3, <2>4, QuietSteps DEF Next, CallStep,
       PublishAuthentication, PublishAuthorization, PublishCommand
<1> QED
  BY <1>1, TypeCorrect, PTL DEF Spec, SettledForGood

-----------------------------------------------------------------------------
(* Every step of the broker client is a step of the abstract call, or      *)
(* changes neither the promises nor the answers.                           *)
LEMMA StepRefines ==
  ASSUME IInv, [Next]_brokerVars
  PROVE  [Rpc!Next]_(Rpc!callVars)
<1> USE RejectedIsFinal DEF IInv, TypeOK
<1>1. ASSUME NEW c \in Calls, Publish(c) PROVE Rpc!Make(c)
  <2>1. UNCHANGED AnsweredBodies
    BY <1>1 DEF Publish, AnsweredBodies
  <2>2. promise[c] = Unmade /\ \E p \in {Pending, Rejected} : promise' = [promise EXCEPT ![c] = p]
    BY <1>1 DEF Publish
  <2> QED BY <2>1, <2>2 DEF Rpc!Make, Rpc!Unmade, Rpc!Pending, Rpc!Rejected, Unmade, Pending, Rejected
<1>2. ASSUME NEW c \in Calls, TimerFires(c) PROVE Rpc!Reject(c) \/ UNCHANGED Rpc!callVars
  <2>1. UNCHANGED AnsweredBodies
    BY <1>2 DEF TimerFires, AnsweredBodies
  <2>2. promise' = promise \/ (promise[c] = Pending /\ promise' = [promise EXCEPT ![c] = Rejected])
    BY <1>2 DEF TimerFires, Emit, Settle
  <2> QED BY <2>1, <2>2 DEF Rpc!Reject, Rpc!callVars, Rpc!Pending, Rpc!Rejected, Pending, Rejected
<1>3. ASSUME NEW c \in Calls, NEW body \in Bodies, ConsumeReply(c, body)
      PROVE  Rpc!Resolve(c) \/ Rpc!Reject(c) \/ UNCHANGED Rpc!callVars
  <2>1. UNCHANGED AnsweredBodies
    BY <1>3 DEF ConsumeReply, AnsweredBodies
  <2>2. promise' = promise \/ (promise[c] = Pending /\ promise' = [promise EXCEPT ![c] = Parsed(body)])
    BY <1>3 DEF ConsumeReply, Emit, Settle
  <2>3. Parsed(body) = Rejected \/ (Parsed(body) = body /\ body \in AnsweredBodies[c])
    BY <1>3, ParsedIsFinal DEF ConsumeReply, AnsweredBodies
  <2>4. CASE promise' = promise
    BY <2>1, <2>4 DEF Rpc!callVars
  <2>5. CASE promise[c] = Pending /\ promise' = [promise EXCEPT ![c] = Parsed(body)]
    BY <2>1, <2>3, <2>5 DEF Rpc!Resolve, Rpc!Reject, Rpc!Pending, Rpc!Rejected, Pending, Rejected
  <2> QED BY <2>2, <2>4, <2>5
<1>4. ASSUME NEW c \in Calls, NEW body \in Bodies, DriverReplies(c, body)
      PROVE  Rpc!Answer(c) \/ UNCHANGED Rpc!callVars
  <2>1. promise[c] # Unmade /\ promise' = promise /\ replies' = replies \cup {<<c, body>>}
    BY <1>4 DEF DriverReplies, RequestsWereMade
  <2>2. CASE body \in Answers
    <3>1. AnsweredBodies' = [AnsweredBodies EXCEPT ![c] = @ \cup {body}]
      BY <2>1, <2>2 DEF AnsweredBodies
    <3> QED BY <2>1, <2>2, <3>1 DEF Rpc!Answer, Rpc!Unmade, Unmade
  <2>3. CASE body \notin Answers
    <3>1. AnsweredBodies' = AnsweredBodies
      BY <2>1, <2>3 DEF AnsweredBodies
    <3> QED BY <2>1, <3>1 DEF Rpc!callVars
  <2> QED BY <2>2, <2>3
<1>5. CASE QueueStep \/ PhaseStep \/ UNCHANGED brokerVars
  BY <1>5, QuietSteps DEF Rpc!callVars, AnsweredBodies
<1> QED
  BY <1>1, <1>2, <1>3, <1>4, <1>5 DEF Next, CallStep, Rpc!Next,
     PublishAuthentication, PublishAuthorization, PublishCommand

(* The broker client implements the one-shot call: at most one settlement, *)
(* by an answer to this call or by a rejection.                            *)
THEOREM Refinement == Spec => ImplementsRpcCall
<1>1. Init => Rpc!Init
  BY DEF Init, Rpc!Init, Rpc!Unmade, Unmade, AnsweredBodies
<1>2. IInv /\ [Next]_brokerVars => [Rpc!Next]_(Rpc!callVars)
  BY StepRefines
<1> QED
  BY <1>1, <1>2, Inductive, PTL DEF Spec, ImplementsRpcCall, Rpc!Spec
=============================================================================
