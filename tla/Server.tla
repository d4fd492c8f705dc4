------------------------------- MODULE Server -------------------------------
(***************************************************************************)
(* The process around the connections: the boot sequence (index.ts), the   *)
(* listening socket, the set of connections and the signal handlers        *)
(* (Server.ts), with the broker and the logger as far as they decide       *)
(* whether a step throws.  An exception in an event handler ends the       *)
(* process; a rejected promise that nobody awaits only prints a warning    *)
(* (Node.js 11).                                                           *)
(***************************************************************************)
EXTENDS Integers, Sequences

CONSTANTS
  Environments,    \* what the environment may be: functions from keys to texts
  UpperCase,       \* the upper case of the texts that are not in upper case
  IntegerTexts,    \* the texts of integers, and their values
  MaxSafeInteger,
  PluginFiles,     \* what may be found in the directory: sequences of base names
  AtomNames,       \* the names that are made of atom characters
  Sockets,         \* the clients that may connect, each once
  Signals          \* the signals that may be received

ASSUME ServerAssumption ==
  /\ MaxSafeInteger \in Nat
  /\ \A text \in DOMAIN IntegerTexts : IntegerTexts[text] \in Int

VARIABLES
  environment,
  process,      \* alive, exited (status 0) or failed
  boot,         \* where the main function is
  files,        \* the plugin files it has not come to
  plugins,      \* the commands loaded
  queues,       \* those whose response queue is consumed
  channel,      \* of the broker
  listening,    \* no, yes, or closed
  socket,       \* of each client: none, open, ended or closed
  connections,  \* server.connections
  handler       \* of each signal: where its handler is

bootVars == <<environment, boot, files, plugins, queues>>
socketVars == <<socket, connections>>
serverVars == <<bootVars, process, channel, listening, socketVars, handler>>

-----------------------------------------------------------------------------
(* Configuration: an option is the set of its value, or empty.             *)

toUpperCase(text) == IF text \in DOMAIN UpperCase THEN UpperCase[text] ELSE text

getString(key) == IF key \in DOMAIN environment THEN {environment[key]} ELSE {}

convertStringToInteger(text) ==
  IF text \in DOMAIN IntegerTexts /\ IntegerTexts[text] \in -MaxSafeInteger .. MaxSafeInteger
  THEN {IntegerTexts[text]} ELSE {}

getInteger(key) ==
  IF getString(key) \in {{}, {""}} THEN {} ELSE convertStringToInteger(environment[key])

(* A value that JavaScript takes for false (0, the empty text) counts as   *)
(* none.                                                                   *)
OrDefault(option, falsy, default) ==
  IF option \subseteq {falsy} THEN default ELSE CHOOSE value \in option : TRUE

queue_protocol == OrDefault(getString("queue.protocol"), "", "AMQP")
imap_server_tcp_listening_port ==
  OrDefault(getInteger("imap.server.tcp.listening_port"), 0, 143)
imap_server_tcp_socket_timeout_in_milliseconds ==
  OrDefault(getInteger("imap.server.tcp.socket_timeout"), 0, 60000)

(* What net accepts, and throws on otherwise.                              *)
IsPort == imap_server_tcp_listening_port \in 0 .. 65535
IsTimeout == imap_server_tcp_socket_timeout_in_milliseconds >= 0

-----------------------------------------------------------------------------
(* The broker and the logger.                                              *)

MessageBrokers == {"AMQP", "DUMMY"}
Protocol == toUpperCase(queue_protocol)
IsDummy == Protocol = "DUMMY"

(* Every event is published, which throws unless the channel is open.  The *)
(* DUMMY broker drops it.                                                  *)
CanLog == IsDummy \/ channel = "open"

(* An event handler of a socket that logs.                                 *)
SurvivesLogging == process' = IF CanLog THEN process ELSE "failed"

(* External: amqplib closes the channel when the broker goes away; when it *)
(* reports an error too, nobody listens to that event.                     *)
ChannelLost ==
  /\ process = "alive" /\ channel \in {"open", "closing", "closed"}
  /\ channel' = "lost"
  /\ process' \in {"alive", "failed"}
  /\ UNCHANGED <<bootVars, listening, socketVars, handler>>

-----------------------------------------------------------------------------
(* Boot.                                                                   *)

Init ==
  /\ environment \in Environments
  /\ process = "alive"
  /\ boot = "broker"
  /\ files \in PluginFiles
  /\ plugins = {} /\ queues = {}
  /\ channel = "none"
  /\ listening = "no"
  /\ socket = [s \in Sockets |-> "none"] /\ connections = {}
  /\ handler = [n \in Signals |-> "none"]

Booting(where) == process = "alive" /\ boot = where

(* The main function rejects.  What keeps the process alive then is the    *)
(* connection to the broker, if there is one.                              *)
Reject ==
  /\ boot' = "rejected"
  /\ process' = IF channel = "open" THEN process ELSE "exited"
  /\ UNCHANGED <<environment, files, plugins, queues, channel, listening, socketVars, handler>>

ChooseBroker ==
  /\ Booting("broker")
  /\ IF Protocol \in MessageBrokers
     THEN boot' = "connecting" /\ UNCHANGED process
     ELSE process' = "failed" /\ UNCHANGED boot
  /\ UNCHANGED <<environment, files, plugins, queues, channel, listening, socketVars, handler>>

BrokerInitialized ==
  /\ Booting("connecting")
  /\ boot' = "commands"
  /\ channel' = IF IsDummy THEN channel ELSE "open"
  /\ UNCHANGED <<environment, files, plugins, queues, process, listening, socketVars, handler>>

(* It may have failed before or after it was connected.                    *)
BrokerFails ==
  /\ Booting("connecting") /\ ~IsDummy
  /\ boot' = "rejected"
  /\ process' \in {"alive", "exited"}
  /\ UNCHANGED <<environment, files, plugins, queues, channel, listening, socketVars, handler>>

LoadCommand ==
  LET name == toUpperCase(Head(files)) IN
  /\ Booting("commands") /\ files # <<>>
  /\ files' = Tail(files)
  /\ IF name \in plugins
     THEN process' = "failed" /\ UNCHANGED plugins
     ELSE /\ plugins' = IF name \in AtomNames THEN plugins \cup {name} ELSE plugins
          /\ UNCHANGED process
  /\ UNCHANGED <<environment, boot, queues, channel, listening, socketVars, handler>>

CommandsLoaded ==
  /\ Booting("commands") /\ files = <<>>
  /\ boot' = "queues"
  /\ UNCHANGED <<environment, files, plugins, queues, process, channel, listening, socketVars, handler>>

(* The queues are initialised at the same time, in any order.              *)
QueueInitialized ==
  /\ Booting("queues") /\ CanLog
  /\ \E name \in plugins \ queues : queues' = queues \cup {name}
  /\ UNCHANGED <<environment, boot, files, plugins, process, channel, listening, socketVars, handler>>

QueueFails == Booting("queues") /\ ~IsDummy /\ plugins # queues /\ Reject

(* Mutant: the queues are not awaited.                                     *)
AllQueuesRequested == TRUE

AllQueuesInitialized == plugins \subseteq queues

(* The constructor of the server.                                          *)
StartServer ==
  /\ Booting("queues") /\ AllQueuesInitialized
  /\ IsPort
  /\ boot' = "done"
  /\ UNCHANGED <<environment, files, plugins, queues, process, channel, listening, socketVars, handler>>

BadPort ==
  /\ Booting("queues") /\ AllQueuesInitialized
  /\ ~IsPort
  /\ Reject

-----------------------------------------------------------------------------
(* Sockets.                                                                *)

Listening ==
  /\ Booting("done") /\ listening = "no"
  /\ listening' = "yes"
  /\ SurvivesLogging
  /\ UNCHANGED <<bootVars, channel, socketVars, handler>>

AddressInUse ==
  /\ Booting("done") /\ listening = "no"
  /\ process' = "failed"
  /\ UNCHANGED <<bootVars, channel, listening, socketVars, handler>>

(* The constructor of a connection, which sets the timeout first.          *)
Accept(s) ==
  /\ process = "alive" /\ listening = "yes" /\ socket[s] = "none"
  /\ socket' = [socket EXCEPT ![s] = "open"]
  /\ IF ~IsTimeout
     THEN process' = "failed" /\ UNCHANGED connections
     ELSE connections' = connections \cup {s} /\ UNCHANGED process
  /\ UNCHANGED <<bootVars, channel, listening, handler>>

(* close(), by a command or for too many errors.                           *)
Close(s) ==
  /\ process = "alive" /\ socket[s] = "open"
  /\ socket' = [socket EXCEPT ![s] = "ended"]
  /\ UNCHANGED <<bootVars, process, channel, listening, connections, handler>>

(* Mutant: no one listens to the errors of a socket.                       *)
SocketFailsUnheard(s) ==
  /\ process = "alive" /\ socket[s] \in {"open", "ended"}
  /\ socket' = [socket EXCEPT ![s] = "ended"]
  /\ process' = "failed"
  /\ UNCHANGED <<bootVars, channel, listening, connections, handler>>

(* An error or a timeout of the socket.                                    *)
SocketFails(s) ==
  /\ process = "alive" /\ socket[s] \in {"open", "ended"}
  /\ socket' = [socket EXCEPT ![s] = "ended"]
  /\ SurvivesLogging
  /\ UNCHANGED <<bootVars, channel, listening, connections, handler>>

SocketCloses(s) ==
  /\ process = "alive" /\ socket[s] \in {"open", "ended"}
  /\ socket' = [socket EXCEPT ![s] = "closed"]
  /\ connections' = connections \ {s}
  /\ SurvivesLogging
  /\ UNCHANGED <<bootVars, channel, listening, handler>>

-----------------------------------------------------------------------------
(* Signals.                                                                *)

(* Before the server is constructed a signal kills the process.            *)
KilledBySignal(n) ==
  /\ process = "alive" /\ boot # "done"
  /\ process' = "failed"
  /\ UNCHANGED <<bootVars, channel, listening, socketVars, handler>>

(* The handler logs first.  If that throws, nothing else happens.          *)
SignalUnheard(n) ==
  /\ Booting("done") /\ handler[n] = "none" /\ ~CanLog
  /\ handler' = [handler EXCEPT ![n] = "rejected"]
  /\ UNCHANGED <<bootVars, process, channel, listening, socketVars>>

(* Up to the first answer it waits for; the DUMMY broker has none.         *)
Signal(n) ==
  /\ Booting("done") /\ handler[n] = "none" /\ CanLog
  /\ listening' = "closed"
  /\ IF IsDummy
     THEN process' = "exited" /\ UNCHANGED <<channel, handler>>
     ELSE /\ channel' = "closing"
          /\ handler' = [handler EXCEPT ![n] = "closingChannel"]
          /\ UNCHANGED process
  /\ UNCHANGED <<bootVars, socketVars>>

ChannelClosed(n) ==
  /\ process = "alive" /\ handler[n] = "closingChannel" /\ channel = "closing"
  /\ channel' = "closed"
  /\ handler' = [handler EXCEPT ![n] = "closingConnection"]
  /\ UNCHANGED <<bootVars, process, listening, socketVars>>

(* Mutant: the process is left when the last client has gone.              *)
ExitWithoutClients(n) ==
  /\ process = "alive" /\ handler[n] = "closingConnection" /\ channel = "closed"
  /\ connections = {}
  /\ process' = "exited"
  /\ UNCHANGED <<bootVars, channel, listening, socketVars, handler>>

ConnectionClosed(n) ==
  /\ process = "alive" /\ handler[n] = "closingConnection" /\ channel = "closed"
  /\ process' = "exited"
  /\ UNCHANGED <<bootVars, channel, listening, socketVars, handler>>

-----------------------------------------------------------------------------

BootStep ==
  \/ ChooseBroker \/ BrokerInitialized \/ BrokerFails \/ LoadCommand \/ CommandsLoaded
  \/ QueueInitialized \/ QueueFails \/ StartServer \/ BadPort \/ Listening \/ AddressInUse

SocketStep(s) == Accept(s) \/ Close(s) \/ SocketFails(s) \/ SocketCloses(s)

SignalStep(n) ==
  KilledBySignal(n) \/ SignalUnheard(n) \/ Signal(n) \/ ChannelClosed(n) \/ ConnectionClosed(n)

Next ==
  \/ BootStep \/ ChannelLost
  \/ \E s \in Sockets : SocketStep(s)
  \/ \E n \in Signals : SignalStep(n)

(* A broker that is there answers a request to close.                      *)
Fairness ==
  \A n \in Signals : WF_serverVars(ChannelClosed(n)) /\ WF_serverVars(ConnectionClosed(n))

Spec == Init /\ [][Next]_serverVars /\ Fairness

-----------------------------------------------------------------------------
(* Properties.                                                             *)

ShuttingDown(n) == handler[n] \in {"closingChannel", "closingConnection"}

(* A client is accepted only when every command has its response queue, so *)
(* that no answer to it can be missed, and not once a signal has started   *)
(* to take the broker down.                                                *)
AcceptsOnlyWhenServing ==
  [][\A s \in Sockets :
       socket[s] = "none" /\ socket'[s] = "open" =>
         plugins = queues /\ files = <<>> /\ \A n \in Signals : ~ShuttingDown(n)]_serverVars

(* What a client does with its socket, and in which order, brings the      *)
(* process down only when the broker is gone (the logger then throws).     *)
ClientsCannotCrash ==
  [][socket' # socket /\ process' = "failed" =>
       ~CanLog \/ ~IsTimeout]_serverVars

(* A shutdown that has begun ends the process, whatever the clients do and *)
(* however many signals follow, unless the broker is lost in its midst.    *)
EveryShutdownEnds ==
  \A n \in Signals : ShuttingDown(n) ~> process # "alive" \/ channel = "lost"
=============================================================================
