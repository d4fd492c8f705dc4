---------------------------- MODULE MessageBroker ----------------------------
(***************************************************************************)
(* The AMQP message broker client (MessageBrokers/AMQP.ts): remote calls   *)
(* over a RabbitMQ channel.  A call registers a one-shot listener for a    *)
(* fresh correlation identifier, arms a timer that is never cancelled, and *)
(* publishes a request; the consumers of the response queues emit whatever *)
(* arrives to the listener, and the timer emits null to it.                *)
(*                                                                         *)
(* Requests and replies are sets that only grow: a reply may be delivered  *)
(* late, more than once (a driver whose request is redelivered answers     *)
(* again), out of order, or never (message expiry, a driver that is down,  *)
(* an exclusive queue that was deleted).                                   *)
(***************************************************************************)

CONSTANTS
  Calls,           \* correlation identifiers: one per call of publishX()
  Answers,         \* reply bodies that JSON.parse accepts
  Malformed,       \* a reply body that it does not
  CommandQueues,   \* the commands, each with a response queue of its own
  ReplyTo          \* the response queue that each call names in its request

Unmade   == "unmade"
Pending  == "pending"
Rejected == "rejected"

Authentication == "authentication"
Authorization  == "authorization"
Queues == {Authentication, Authorization} \cup CommandQueues
Bodies == Answers \cup {Malformed}

(* Settled outcomes are told apart, and every call replies to a known      *)
(* response queue.                                                         *)
ASSUME BrokerAssumption ==
  /\ Answers \cap {Unmade, Pending, Rejected, Malformed} = {}
  /\ ReplyTo \in [Calls -> Queues]

VARIABLES
  phase,      \* of the process and its channel
  consuming,  \* the response queues that have a consumer
  promise,    \* of each call: unmade, pending, rejected, or the answer
  timer,      \* of each call: setTimeout() not called, armed, or fired
  listeners,  \* the calls for which responseEmitter has a listener
  requests,   \* the calls whose request reached the broker
  replies     \* the replies drivers have sent, as <<call, body>>

brokerVars == <<phase, consuming, promise, timer, listeners, requests, replies>>

Phases == {"booting", "serving", "lost", "closing", "exited"}
Timers == {"unset", "armed", "fired"}

TypeOK ==
  /\ phase \in Phases
  /\ consuming \subseteq Queues
  /\ promise \in [Calls -> {Unmade, Pending, Rejected} \cup Answers]
  /\ timer \in [Calls -> Timers]
  /\ listeners \subseteq Calls
  /\ requests \subseteq Calls
  /\ replies \subseteq Calls \X Bodies

Init ==
  /\ phase = "booting"
  /\ consuming = {}
  /\ promise = [c \in Calls |-> Unmade]
  /\ timer = [c \in Calls |-> "unset"]
  /\ listeners = {}
  /\ requests = {}
  /\ replies = {}

-----------------------------------------------------------------------------
(* Booting.                                                                *)

(* initialize() consumes the authentication responses before it asserts    *)
(* the authorization response queue.                                       *)
InitializeAuthentication ==
  /\ phase = "booting" /\ consuming = {}
  /\ consuming' = {Authentication}
  /\ UNCHANGED <<phase, promise, timer, listeners, requests, replies>>

InitializeAuthorization ==
  /\ phase = "booting" /\ consuming = {Authentication}
  /\ consuming' = consuming \cup {Authorization}
  /\ UNCHANGED <<phase, promise, timer, listeners, requests, replies>>

(* index.ts starts all command queues at once, after initialize().         *)
InitializeCommandRPCQueue(q) ==
  /\ phase = "booting" /\ {Authentication, Authorization} \subseteq consuming
  /\ q \notin consuming
  /\ consuming' = consuming \cup {q}
  /\ UNCHANGED <<phase, promise, timer, listeners, requests, replies>>

(* The Server is constructed once every queue has been initialised.        *)
StartServer ==
  /\ phase = "booting" /\ consuming = Queues
  /\ phase' = "serving"
  /\ UNCHANGED <<consuming, promise, timer, listeners, requests, replies>>

-----------------------------------------------------------------------------
(* Calls.                                                                  *)

(* A promise that is already settled ignores resolve() and reject().       *)
Settle(p, outcome) == IF p = Pending THEN outcome ELSE p

(* Mutant: the body is not parsed.                                         *)
Unparsed(body) == body

(* What the listener does with a reply body: resolve with the parsed body, *)
(* reject with the parse error.                                            *)
Parsed(body) == IF body = Malformed THEN Rejected ELSE body

(* Mutant: the listener returns on null without rejecting.                 *)
EmitIgnoringNull(c, outcome) ==
  /\ listeners' = listeners \ {c}
  /\ promise' = IF c \in listeners /\ outcome # Rejected
                THEN [promise EXCEPT ![c] = Settle(@, outcome)]
                ELSE promise

(* responseEmitter.emit(c, ...): the one-shot listener, if there still is  *)
(* one, is removed and settles the promise.                                *)
Emit(c, outcome) ==
  /\ listeners' = listeners \ {c}
  /\ promise' = IF c \in listeners
                THEN [promise EXCEPT ![c] = Settle(@, outcome)]
                ELSE promise

(* Mutant: a correlation identifier that is used again.                    *)
PublishAgain(c) ==
  /\ phase = "serving"
  /\ promise[c] # Pending
  /\ timer' = [timer EXCEPT ![c] = "armed"]
  /\ listeners' = listeners \cup {c}
  /\ requests' = requests \cup {c}
  /\ promise' = [promise EXCEPT ![c] = Pending]
  /\ UNCHANGED <<phase, consuming, replies>>

(* The body that the three publish functions share, one turn of the event  *)
(* loop: arm the timer, register the listener, publish.  Once the channel  *)
(* is closed, publish() throws inside the executor, which rejects the      *)
(* promise and leaves the listener to the timer.                           *)
Publish(c) ==
  /\ phase \in {"serving", "lost", "closing"}
  /\ promise[c] = Unmade
  /\ timer' = [timer EXCEPT ![c] = "armed"]
  /\ listeners' = listeners \cup {c}
  /\ IF phase = "serving"
     THEN /\ requests' = requests \cup {c}
          /\ promise' = [promise EXCEPT ![c] = Pending]
     ELSE /\ promise' = [promise EXCEPT ![c] = Rejected]
          /\ UNCHANGED requests
  /\ UNCHANGED <<phase, consuming, replies>>

PublishAuthentication(c) == ReplyTo[c] = Authentication /\ Publish(c)
PublishAuthorization(c)  == ReplyTo[c] = Authorization  /\ Publish(c)
PublishCommand(c)        == ReplyTo[c] \in CommandQueues /\ Publish(c)

(* Mutant: the timer does not emit.                                        *)
TimerIsIdle(c) ==
  /\ phase # "exited"
  /\ timer[c] = "armed"
  /\ timer' = [timer EXCEPT ![c] = "fired"]
  /\ UNCHANGED <<phase, consuming, promise, listeners, requests, replies>>

TimerFires(c) ==
  /\ phase # "exited"
  /\ timer[c] = "armed"
  /\ timer' = [timer EXCEPT ![c] = "fired"]
  /\ Emit(c, Rejected)
  /\ UNCHANGED <<phase, consuming, requests, replies>>

(* Mutant: a reply settles whichever call is waiting.                      *)
ConsumeForAny(c, body) ==
  /\ phase = "serving"
  /\ \E d \in Calls : <<d, body>> \in replies /\ ReplyTo[d] \in consuming
  /\ Emit(c, Parsed(body))
  /\ UNCHANGED <<phase, consuming, timer, requests, replies>>

(* A consumer callback with a message.                                     *)
ConsumeReply(c, body) ==
  /\ phase = "serving"
  /\ <<c, body>> \in replies
  /\ ReplyTo[c] \in consuming
  /\ Emit(c, Parsed(body))
  /\ UNCHANGED <<phase, consuming, timer, requests, replies>>

(* A consumer callback with null: RabbitMQ cancelled the consumer, the     *)
(* callback returns, and no reply on that queue will be seen again.        *)
ConsumerCancelled(q) ==
  /\ phase = "serving"
  /\ q \in consuming
  /\ consuming' = consuming \ {q}
  /\ UNCHANGED <<phase, promise, timer, listeners, requests, replies>>

-----------------------------------------------------------------------------
(* The drivers and the end of the channel.                                 *)

(* External: a driver answers a request it has seen.                       *)
DriverReplies(c, body) ==
  /\ c \in requests
  /\ replies' = replies \cup {<<c, body>>}
  /\ UNCHANGED <<phase, consuming, promise, timer, listeners, requests>>

(* External: the broker closes the connection.  An orderly close only      *)
(* closes the channel; an error event has no listener and ends the process.*)
ChannelLost ==
  /\ phase = "serving"
  /\ phase' \in {"lost", "exited"}
  /\ UNCHANGED <<consuming, promise, timer, listeners, requests, replies>>

(* A signal: closeConnection() closes the channel, then the connection;    *)
(* process.exit() follows.  On a channel that was lost, closing throws and *)
(* the signal handler never reaches exit().                                *)
CloseConnection ==
  /\ phase = "serving"
  /\ phase' = "closing"
  /\ UNCHANGED <<consuming, promise, timer, listeners, requests, replies>>

Exit ==
  /\ phase = "closing"
  /\ phase' = "exited"
  /\ UNCHANGED <<consuming, promise, timer, listeners, requests, replies>>

-----------------------------------------------------------------------------
CallStep(c) ==
  \/ PublishAuthentication(c)
  \/ PublishAuthorization(c)
  \/ PublishCommand(c)
  \/ TimerFires(c)
  \/ \E body \in Bodies : ConsumeReply(c, body) \/ DriverReplies(c, body)

QueueStep ==
  \/ InitializeAuthentication
  \/ InitializeAuthorization
  \/ \E q \in CommandQueues : InitializeCommandRPCQueue(q)
  \/ \E q \in Queues : ConsumerCancelled(q)

PhaseStep == StartServer \/ ChannelLost \/ CloseConnection \/ Exit

Next == (\E c \in Calls : CallStep(c)) \/ QueueStep \/ PhaseStep

(* Node.js runs every timer that is due; nothing else is promised.         *)
Fairness == \A c \in Calls : WF_brokerVars(TimerFires(c))

Spec     == Init /\ [][Next]_brokerVars
FairSpec == Spec /\ Fairness

-----------------------------------------------------------------------------
(* Properties.                                                             *)

(* A call that is still pending has a listener and an armed timer: whoever *)
(* awaits publishX() can never be left with nothing that would wake it up, *)
(* whatever was lost (AMQP.ts: the timer is set before the listener).      *)
PendingHasAWayOut ==
  \A c \in Calls : promise[c] = Pending => c \in listeners /\ timer[c] = "armed"

(* "so that we do not accumulate event listeners if the authenticator      *)
(* misses some authentication requests": every listener still registered   *)
(* has a timer that will remove it, also when publish() threw.             *)
NoListenerOutlivesItsTimer ==
  \A c \in listeners : timer[c] = "armed"

(* A caller only ever sees a body that a driver sent for its own           *)
(* correlation identifier, however replies overtake each other.            *)
AnswersAreCorrelated ==
  \A c \in Calls : promise[c] \in Answers => <<c, promise[c]>> \in replies

(* A settled call never changes again: an answer after the timeout, a      *)
(* timeout after the answer and a duplicate answer are all ignored.        *)
SettledForGood ==
  [][\A c \in Calls :
       promise[c] \notin {Unmade, Pending} => promise'[c] = promise[c]]_brokerVars

(* Every call is settled unless the process ends first.                    *)
EveryCallSettles ==
  \A c \in Calls : promise[c] = Pending ~> promise[c] # Pending \/ phase = "exited"

(* Every listener goes away unless the process ends first.                 *)
EveryListenerGoes ==
  \A c \in Calls : c \in listeners ~> c \notin listeners \/ phase = "exited"

(* What the abstract specification calls answered: the parsable bodies     *)
(* sent for each call.                                                     *)
AnsweredBodies == [c \in Calls |-> {a \in Answers : <<c, a>> \in replies}]

Rpc == INSTANCE RpcCall WITH answered <- AnsweredBodies

(* The broker client implements the one-shot call.                         *)
ImplementsRpcCall == Rpc!Spec
=============================================================================
