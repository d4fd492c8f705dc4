--------------------------- MODULE Server_proofs ---------------------------
(***************************************************************************)
(* What the boot sequence and the signal handlers promise, for any         *)
(* environment, plugin files, clients and signals.                         *)
(***************************************************************************)
EXTENDS Server, TLAPS

(* The main function has read the directory before it initialises queues,  *)
(* and the server is constructed when all of them are.                     *)
QueuesAreOfPlugins == queues \subseteq plugins
DirectoryIsRead == boot \in {"queues", "done"} => files = <<>>
QueuesAreReady == boot = "done" => plugins = queues
ListensWhenBooted == listening # "no" => boot = "done"

(* A signal handler closes the listening socket before the channel.        *)
DeafInShutdown == (\E n \in Signals : ShuttingDown(n)) => listening = "closed"

IInv ==
  /\ QueuesAreOfPlugins /\ DirectoryIsRead /\ QueuesAreReady
  /\ ListensWhenBooted /\ DeafInShutdown

(* When the process starts, it does not listen and no signal was handled.  *)
LEMMA InitEstablishes == Init => IInv
BY DEF Init, IInv, QueuesAreOfPlugins, DirectoryIsRead, QueuesAreReady, ListensWhenBooted,
       DeafInShutdown, ShuttingDown

(* The steps of boot do not touch the signal handlers.                     *)
LEMMA BootPreserves == ASSUME IInv, BootStep PROVE IInv'
<1> USE DEF IInv, QueuesAreOfPlugins, DirectoryIsRead, QueuesAreReady, ListensWhenBooted,
            DeafInShutdown, ShuttingDown, socketVars, bootVars
<1>1. CASE ChooseBroker
  BY <1>1 DEF ChooseBroker, Booting
<1>2. CASE BrokerInitialized
  BY <1>2 DEF BrokerInitialized, Booting
<1>3. CASE BrokerFails
  BY <1>3 DEF BrokerFails, Booting
<1>4. CASE LoadCommand
  BY <1>4 DEF LoadCommand, Booting
<1>5. CASE CommandsLoaded
  BY <1>5 DEF CommandsLoaded, Booting
<1>6. CASE QueueInitialized
  <2>1. PICK name \in plugins \ queues : queues' = queues \cup {name}
    BY <1>6 DEF QueueInitialized
  <2>2. boot = "queues" /\ UNCHANGED <<boot, files, plugins, listening, handler>>
    BY <1>6 DEF QueueInitialized, Booting
  <2>3. QED
    BY <2>1, <2>2
<1>7. CASE QueueFails
  BY <1>7 DEF QueueFails, Reject, Booting
<1>8. CASE StartServer
  <2>1. plugins \subseteq queues /\ queues \subseteq plugins
    BY <1>8 DEF StartServer, AllQueuesInitialized
  <2>2. plugins = queues
    BY <2>1
  <2>3. boot = "queues" /\ boot' = "done" /\ UNCHANGED <<files, plugins, queues, listening, handler>>
    BY <1>8 DEF StartServer, Booting
  <2>4. QED
    BY <2>2, <2>3
<1>9. CASE BadPort
  BY <1>9 DEF BadPort, Reject, Booting
<1>10. CASE Listening
  BY <1>10 DEF Listening, Booting
<1>11. CASE AddressInUse
  BY <1>11 DEF AddressInUse, Booting
<1>12. QED
  BY <1>1, <1>2, <1>3, <1>4, <1>5, <1>6, <1>7, <1>8, <1>9, <1>10, <1>11 DEF BootStep

(* Sockets do not touch what boot and the signal handlers rely on.         *)
LEMMA SocketPreserves == ASSUME IInv, NEW s \in Sockets, SocketStep(s) PROVE IInv'
<1>1. UNCHANGED <<bootVars, listening, handler>>
  BY DEF SocketStep, Accept, Close, SocketFails, SocketCloses
<1>2. QED
  BY <1>1 DEF IInv, QueuesAreOfPlugins, DirectoryIsRead, QueuesAreReady, ListensWhenBooted,
              DeafInShutdown, ShuttingDown, bootVars

(* Only Signal makes a handler one that shuts down, and it closes the      *)
(* listening socket in the same turn.                                      *)
LEMMA SignalPreserves == ASSUME IInv, NEW n \in Signals, SignalStep(n) PROVE IInv'
<1>1. UNCHANGED bootVars
  BY DEF SignalStep, KilledBySignal, SignalUnheard, Signal, ChannelClosed, ConnectionClosed
<1>2. QueuesAreOfPlugins' /\ DirectoryIsRead' /\ QueuesAreReady'
  BY <1>1 DEF IInv, QueuesAreOfPlugins, DirectoryIsRead, QueuesAreReady, bootVars
<1>3. ListensWhenBooted'
  BY <1>1 DEF IInv, ListensWhenBooted, bootVars, Booting, SignalStep, KilledBySignal,
              SignalUnheard, Signal, ChannelClosed, ConnectionClosed
<1>4. DeafInShutdown'
  <2>1. CASE Signal(n)
    BY <2>1 DEF Signal, DeafInShutdown
  <2>2. CASE ~Signal(n)
    <3>1. UNCHANGED listening
      BY <2>2 DEF SignalStep, KilledBySignal, SignalUnheard, ChannelClosed, ConnectionClosed
    <3>2. \A m \in Signals : ShuttingDown(m)' => \E k \in Signals : ShuttingDown(k)
      <4> SUFFICES ASSUME NEW m \in Signals, ShuttingDown(m)'
                   PROVE  \E k \in Signals : ShuttingDown(k)
        OBVIOUS
      <4>1. CASE KilledBySignal(n) \/ ConnectionClosed(n)
        BY <4>1 DEF KilledBySignal, ConnectionClosed, ShuttingDown
      <4>2. CASE SignalUnheard(n)
        <5>1. handler' = [handler EXCEPT ![n] = "rejected"]
          BY <4>2 DEF SignalUnheard
        <5>2. ShuttingDown(m)
          BY <5>1 DEF ShuttingDown
        <5>3. QED
          BY <5>2
      <4>3. CASE ChannelClosed(n)
        <5>1. ShuttingDown(n)
          BY <4>3 DEF ChannelClosed, ShuttingDown
        <5>2. QED
          BY <5>1
      <4>4. QED
        BY <2>2, <4>1, <4>2, <4>3 DEF SignalStep
    <3>3. QED
      BY <3>1, <3>2 DEF IInv, DeafInShutdown
  <2>3. QED
    BY <2>1, <2>2
<1>5. QED
  BY <1>2, <1>3, <1>4 DEF IInv

(* Every step of the process keeps the invariant.                          *)
LEMMA NextPreserves == ASSUME IInv, [Next]_serverVars PROVE IInv'
<1>1. CASE BootStep
  BY <1>1, BootPreserves
<1>2. CASE ChannelLost
  BY <1>2 DEF ChannelLost, IInv, QueuesAreOfPlugins, DirectoryIsRead, QueuesAreReady,
              ListensWhenBooted, DeafInShutdown, ShuttingDown, bootVars
<1>3. CASE \E s \in Sockets : SocketStep(s)
  BY <1>3, SocketPreserves
<1>4. CASE \E n \in Signals : SignalStep(n)
  BY <1>4, SignalPreserves
<1>5. CASE UNCHANGED serverVars
  BY <1>5 DEF serverVars, IInv, QueuesAreOfPlugins, DirectoryIsRead, QueuesAreReady,
              ListensWhenBooted, DeafInShutdown, ShuttingDown, bootVars
<1>6. QED
  BY <1>1, <1>2, <1>3, <1>4, <1>5 DEF Next

(* The invariant holds in every state of the process.                      *)
THEOREM Invariant == Spec => []IInv
BY InitEstablishes, NextPreserves, PTL DEF Spec

-----------------------------------------------------------------------------
(* A socket is only opened by Accept, which needs the server to listen.    *)
LEMMA OpenedByAccept ==
  ASSUME NEW s \in Sockets, [Next]_serverVars, socket[s] = "none", socket'[s] = "open"
  PROVE  listening = "yes"
<1>1. CASE BootStep \/ ChannelLost \/ UNCHANGED serverVars
  <2>1. UNCHANGED socket
    BY <1>1 DEF BootStep, ChooseBroker, BrokerInitialized, BrokerFails, LoadCommand, CommandsLoaded,
                QueueInitialized, QueueFails, Reject, StartServer, BadPort, Listening, AddressInUse,
                ChannelLost, serverVars, socketVars
  <2>2. QED
    BY <2>1
<1>2. CASE \E r \in Sockets : SocketStep(r)
  <2>1. PICK r \in Sockets : SocketStep(r)
    BY <1>2
  <2>2. CASE Accept(r)
    BY <2>2 DEF Accept
  <2>3. CASE Close(r) \/ SocketFails(r) \/ SocketCloses(r)
    <3>1. socket[r] \in {"open", "ended"} /\ \E e \in {"ended", "closed"} :
            socket' = [socket EXCEPT ![r] = e]
      BY <2>3 DEF Close, SocketFails, SocketCloses
    <3>2. socket'[s] # "open" \/ socket'[s] = socket[s]
      BY <3>1
    <3>3. QED
      BY <3>2
  <2>4. QED
    BY <2>1, <2>2, <2>3 DEF SocketStep
<1>3. CASE \E n \in Signals : SignalStep(n)
  <2>1. UNCHANGED socket
    BY <1>3 DEF SignalStep, KilledBySignal, SignalUnheard, Signal, ChannelClosed, ConnectionClosed,
                socketVars
  <2>2. QED
    BY <2>1
<1>4. QED
  BY <1>1, <1>2, <1>3 DEF Next

(* Clients are accepted only between boot and shutdown: every command has  *)
(* its queue by then (Promise.all in index.ts), and a handler closes the   *)
(* listening socket before anything else (Server.ts).                      *)
THEOREM ClientsAreServed == Spec => AcceptsOnlyWhenServing
<1>1. ASSUME IInv, [Next]_serverVars
      PROVE  [\A s \in Sockets :
                socket[s] = "none" /\ socket'[s] = "open" =>
                  plugins = queues /\ files = <<>> /\ \A n \in Signals : ~ShuttingDown(n)]_serverVars
  <2> SUFFICES ASSUME NEW s \in Sockets, socket[s] = "none", socket'[s] = "open"
               PROVE  plugins = queues /\ files = <<>> /\ \A n \in Signals : ~ShuttingDown(n)
    OBVIOUS
  <2>1. listening = "yes"
    BY <1>1, OpenedByAccept
  <2>2. QED
    BY <1>1, <2>1 DEF IInv, QueuesAreReady, DirectoryIsRead, ListensWhenBooted, DeafInShutdown
<1>2. QED
  BY <1>1, Invariant, PTL DEF Spec, AcceptsOnlyWhenServing

(* Whatever the clients do with their sockets, the process survives it as  *)
(* long as events can be logged and the timeout is not negative.           *)
THEOREM ClientsAreHarmless == Spec => ClientsCannotCrash
<1>1. ASSUME [Next]_serverVars, socket' # socket, process' = "failed"
      PROVE  ~CanLog \/ ~IsTimeout
  <2>1. CASE BootStep \/ ChannelLost \/ UNCHANGED serverVars
    <3>1. UNCHANGED socket
      BY <2>1 DEF BootStep, ChooseBroker, BrokerInitialized, BrokerFails, LoadCommand,
           CommandsLoaded, QueueInitialized, QueueFails, Reject, StartServer, BadPort, Listening,
           AddressInUse, ChannelLost, serverVars, socketVars
    <3>2. QED
      BY <1>1, <3>1
  <2>2. CASE \E s \in Sockets : SocketStep(s)
    BY <1>1, <2>2 DEF SocketStep, Accept, Close, SocketFails, SocketCloses, SurvivesLogging
  <2>3. CASE \E n \in Signals : SignalStep(n)
    BY <1>1, <2>3 DEF SignalStep, KilledBySignal, SignalUnheard, Signal, ChannelClosed,
         ConnectionClosed, socketVars
  <2>4. QED
    BY <1>1, <2>1, <2>2, <2>3 DEF Next
<1>2. QED
  BY <1>1, PTL DEF Spec, ClientsCannotCrash
=============================================================================
