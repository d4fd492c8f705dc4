--------------------------- MODULE Session_proofs ---------------------------
(***************************************************************************)
(* A connection whose client waits for each reply implements the session   *)
(* of module Session, for any commands, users, mailboxes, limits and       *)
(* faults.                                                                 *)
(***************************************************************************)
EXTENDS Sequential_proofs

Steady == UNCHANGED <<state, authenticatedUser, currentlySelectedMailbox, hasWritePermission>>

(* What Session keeps of an execution.                                     *)
Request(e) == [command |-> e.command, argument |-> e.argument]

Effect(r) ==
  \/ SerialSession!Authenticate(r) \/ SerialSession!Select(r)
  \/ SerialSession!Examine(r) \/ SerialSession!Logout(r)

(* A turn ends a command, which may then take effect, or leaves it waiting.*)
Ends(s, e) == stage' = [stage EXCEPT ![s] = "done"] /\ (Steady \/ Effect(Request(e)))

Remains(s, e) ==
  /\ \E x \in Waiting, r \in Executions : Wait(s, r, x) /\ Request(r) = Request(e)
  /\ Steady

-----------------------------------------------------------------------------
(* The turns of a command, with all their effects on the session.          *)

LEMMA SteadySession == ASSUME UNCHANGED session PROVE Steady
BY DEF session, Steady

LEMMA SteadyEnding ==
  ASSUME NEW s, NEW e, NEW d, NEW cur, Throw(s, d, cur) \/ Conclude(s, d, cur) \/ Return(s, d),
         UNCHANGED session
  PROVE  Ends(s, e)
BY EndingIsOver, SteadySession DEF Ends

LEMMA LogsOut ==
  ASSUME NEW c, Does(c, "logout")
  PROVE  c = "LOGOUT"
BY DEF Does, Known, Plugin, commandPlugins, CAPABILITY, NOOP, LOGOUT, STARTTLS,
       HEALTHCHECK, LOGIN, AUTHENTICATE, CONFIGURATION, CONNECTIONS, STATISTICS, ERROR, SELECT,
       EXAMINE, CREATE, DELETE, RENAME, SUBSCRIBE, UNSUBSCRIBE, LIST, LSUB, STATUS, APPEND,
       FETCH, simpleSelectedMailbox, CHECK, CLOSE, EXPUNGE, SEARCH, STORE, COPY

LEMMA CallbackOnSession ==
  ASSUME NEW s, NEW e \in Executions, NEW cur, NEW flag \in BOOLEAN, TypeOK,
         StartCallback(s, e, cur, flag)
  PROVE  (Ends(s, e) /\ (Steady \/ SerialSession!Logout(Request(e)))) \/ Remains(s, e)
<1>1. CASE StartImmediate(s, e, cur)
  BY <1>1, SteadyEnding, SteadySession DEF StartImmediate
<1>2. CASE StartError(s, e, cur)
  BY <1>2, SteadyEnding, SteadySession DEF StartError
<1>3. CASE StartLogout(s, e, cur)
  <2>1. SerialSession!Logout(Request(e))
    BY <1>3, LogsOut DEF StartLogout, SerialSession!Logout, Request
  <2> QED BY <1>3, <2>1, EndingIsOver DEF StartLogout, Ends, Effect
<1>4. CASE StartAuthentication(s, e, cur, flag)
  <2>1. Steady /\ UNCHANGED session
    BY <1>4, SteadySession DEF StartAuthentication
  <2>2. CASE TooManyAttempts(s, e, cur)
    BY <2>1, <2>2, SteadyEnding DEF TooManyAttempts
  <2>3. CASE AttemptAuthentication(s, e, cur, flag)
    <3>1. \/ Return(s, Answered(e))
          \/ \E x \in {"hashing", "authenticating"} : Wait(s, e, x)
      BY <2>3 DEF AttemptAuthentication
    <3>2. CASE Return(s, Answered(e))
      BY <2>1, <3>2, SteadyEnding
    <3>3. ASSUME NEW x \in {"hashing", "authenticating"}, Wait(s, e, x) PROVE Remains(s, e)
      BY <2>1, <3>3 DEF Remains, Waiting
    <3> QED BY <3>1, <3>2, <3>3, <2>1
  <2> QED BY <1>4, <2>2, <2>3 DEF StartAuthentication
<1>5. CASE StartStorage(s, e, cur, flag)
  <2> DEFINE r == [e EXCEPT !.user = authenticatedUser, !.sentUID = flag]
  <2>1. r \in Executions /\ Request(r) = Request(e)
    BY DEF Executions, TypeOK, Request
  <2>2. Wait(s, r, "executing") /\ Steady
    BY <1>5, SteadySession DEF StartStorage
  <2>3. "executing" \in Waiting
    BY DEF Waiting
  <2> HIDE DEF r
  <2> QED BY <2>1, <2>2, <2>3 DEF Remains
<1>6. CASE RefuseArguments(s, e, cur)
  BY <1>6, SteadyEnding, SteadySession DEF RefuseArguments
<1>7. CASE ThrowAtArguments(s, e, cur)
  BY <1>7, SteadyEnding, SteadySession DEF ThrowAtArguments
<1> QED BY <1>1, <1>2, <1>3, <1>4, <1>5, <1>6, <1>7 DEF StartCallback

LEMMA RefusalOnSession ==
  ASSUME NEW s, NEW e, NEW k, NEW cur, NEW flag, Refuse(s, e, k, cur, flag)
  PROVE  Ends(s, e) /\ Steady
BY SteadyEnding, SteadySession DEF Refuse

(* A command that is received: it ends without an effect or as a LOGOUT,   *)
(* or remains.                                                             *)
LEMMA ReceivedOnSession ==
  ASSUME TypeOK, NEW s \in Slots, NEW r \in Received, NEW flag \in BOOLEAN,
         ExecuteCommand(s, r, flag)
  PROVE  \E e \in Executions :
           /\ e.command = r.command /\ e.argument = r.argument
           /\ (Ends(s, e) /\ (Steady \/ SerialSession!Logout(Request(e)))) \/ Remains(s, e)
<1> DEFINE e == Fresh(r.command, r.uid, r.argument)
           cur == IF r.command = "AUTHENTICATE" THEN r ELSE Nothing
<1>1. e \in Executions
  BY FreshType DEF Received
<1>2. e.command = r.command /\ e.argument = r.argument
  BY DEF Fresh, Frame
<1>3. \/ RefuseUnknown(s, e, cur, flag)
      \/ RefuseWrongState(s, e, cur, flag)
      \/ AskAuthorizer(s, e, cur, flag)
      \/ ExecuteAtOnce(s, e, cur, flag)
  BY DEF ExecuteCommand
<1> HIDE DEF e, cur
<1> SUFFICES (Ends(s, e) /\ (Steady \/ SerialSession!Logout(Request(e)))) \/ Remains(s, e)
  BY <1>1, <1>2
<1>4. CASE RefuseUnknown(s, e, cur, flag)
  BY <1>4, RefusalOnSession DEF RefuseUnknown
<1>5. CASE RefuseWrongState(s, e, cur, flag)
  BY <1>5, RefusalOnSession DEF RefuseWrongState
<1>6. CASE AskAuthorizer(s, e, cur, flag)
  <2>1. Wait(s, e, "authorizing") /\ Steady
    BY <1>6, SteadySession DEF AskAuthorizer
  <2>2. "authorizing" \in Waiting
    BY DEF Waiting
  <2> QED BY <1>1, <2>1, <2>2 DEF Remains
<1>7. CASE ExecuteAtOnce(s, e, cur, flag)
  BY <1>1, <1>7, CallbackOnSession DEF ExecuteAtOnce
<1> QED BY <1>3, <1>4, <1>5, <1>6, <1>7

LEMMA AuthenticationOnSession ==
  ASSUME IInv, Sequential, NEW s \in Slots,
         AuthenticationReplied(s) \/ AuthenticationFailed(s) \/ HashComputed(s)
  PROVE  Ends(s, run[s])
<1>1. stage[s] \in {"authenticating", "hashing"}
  BY DEF AuthenticationReplied, AuthenticationFailed, HashComputed, Answering, Awaiting
<1>2. /\ run[s].command \in {"LOGIN", "AUTHENTICATE"}
      /\ state = "NOT_AUTHENTICATED"
      /\ stage[s] = "hashing" => run[s].argument \in Users \cup {NoUser}
  <2>1. run[s].command \in Authenticating /\ stage[s] \in Waiting
    BY <1>1 DEF IInv, WaitingKeepsArgument, Authenticating, Waiting
  <2>2. MayExecute(run[s].command, state)
    BY <2>1 DEF Sequential, WaitingIsAcceptable, Acceptable
  <2>3. stage[s] = "hashing" => run[s].argument \in Users \cup {NoUser}
    BY <2>1 DEF IInv, WaitingKeepsArgument, ArgumentsOf
  <2> QED BY <2>1, <2>2, <2>3, AuthenticatingComesFirst DEF Authenticating
<1>3. ASSUME NEW u \in Users \cup {NoUser}, LogIn(u), UNCHANGED <<currentlySelectedMailbox, hasWritePermission>>
      PROVE  Effect(Request(run[s]))
  BY <1>2, <1>3 DEF LogIn, Effect, Request, SerialSession!Authenticate
<1>4. CASE AuthenticationReplied(s)
  <2>1. PICK r \in AuthenticationReplies :
          /\ IF Authenticates(r) THEN LogIn(r.authenticatedUser) ELSE Reject
          /\ \E e, cur : Conclude(s, e, cur)
    BY <1>4 DEF AuthenticationReplied
  <2>2. UNCHANGED <<currentlySelectedMailbox, hasWritePermission>>
    BY <1>4 DEF AuthenticationReplied
  <2>3. CASE Authenticates(r)
    <3>1. r.authenticatedUser \in Users \cup {NoUser}
      BY <2>3 DEF Authenticates, AuthenticationReplies
    <3> QED BY <2>1, <2>2, <2>3, <3>1, <1>3, EndingIsOver DEF Ends
  <2>4. CASE ~Authenticates(r)
    BY <2>1, <2>2, <2>4, EndingIsOver DEF Ends, Steady, Reject
  <2> QED BY <2>3, <2>4
<1>5. CASE AuthenticationFailed(s)
  BY <1>5, SteadyEnding DEF AuthenticationFailed
<1>6. CASE HashComputed(s)
  <2>1. /\ LogIn(run[s].argument) \/ UNCHANGED <<state, authenticatedUser>>
        /\ Return(s, Answered(run[s]))
        /\ UNCHANGED <<currentlySelectedMailbox, hasWritePermission>>
    BY <1>6 DEF HashComputed, Reject
  <2>2. run[s].argument \in Users \cup {NoUser}
    BY <1>2, <1>6 DEF HashComputed, Awaiting
  <2> QED BY <2>1, <2>2, <1>3, EndingIsOver DEF Ends, Steady
<1> QED BY <1>4, <1>5, <1>6

LEMMA StorageOnSession ==
  ASSUME IInv, Sequential, NEW s \in Slots, CommandReplied(s)
  PROVE  Ends(s, run[s])
<1>1. PICK r \in StorageReplies :
        /\ ApplyReply(run[s], r)
        /\ \E e, cur : Throw(s, e, cur) \/ Conclude(s, e, cur)
  BY DEF CommandReplied
<1>2. stage[s] \in Waiting /\ UNCHANGED authenticatedUser
  BY DEF CommandReplied, Answering, Waiting
<1>3. stage' = [stage EXCEPT ![s] = "done"]
  BY <1>1, EndingIsOver
<1>4. CASE r = "ok" /\ run[s].command \in {"SELECT", "EXAMINE"}
  <2>1. state = "AUTHENTICATED"
    BY <1>2, <1>4, SelectingIsAuthenticated DEF Sequential, WaitingIsAcceptable, Acceptable
  <2>2. Effect(Request(run[s]))
    BY <1>1, <1>2, <1>4, <2>1
       DEF ApplyReply, Selected, Examined, Effect, Request, SerialSession!Select, SerialSession!Examine
  <2> QED BY <1>3, <2>2 DEF Ends
<1>5. CASE ~(r = "ok" /\ run[s].command \in {"SELECT", "EXAMINE"})
  <2>1. Steady
    BY <1>1, <1>2, <1>5 DEF ApplyReply, Steady
  <2> QED BY <1>3, <2>1 DEF Ends
<1> QED BY <1>4, <1>5

LEMMA SettledOnSession ==
  ASSUME IInv, Sequential, NEW s \in Slots, Settled(s)
  PROVE  Ends(s, run[s]) \/ Remains(s, run[s])
<1>1. TypeOK /\ run[s] \in Executions /\ useUID \in BOOLEAN
  BY DEF IInv, TypeOK
<1>2. CASE AuthorizationGranted(s)
  <2> DEFINE e == [run[s] EXCEPT !.authorized = TRUE]
  <2>1. e \in Executions /\ Request(e) = Request(run[s])
    BY <1>1 DEF Executions, Request
  <2>2. StartCallback(s, e, currentCommand, useUID)
    BY <1>2 DEF AuthorizationGranted
  <2> HIDE DEF e
  <2>3. Ends(s, e) \/ Remains(s, e)
    BY <1>1, <2>1, <2>2, CallbackOnSession
  <2> QED BY <2>1, <2>3 DEF Ends, Remains
<1>3. CASE AuthorizationDenied(s)
  BY <1>3, RefusalOnSession DEF AuthorizationDenied
<1>4. CASE AuthorizationFailed(s)
  BY <1>4, SteadyEnding DEF AuthorizationFailed
<1>5. CASE AuthenticationReplied(s) \/ AuthenticationFailed(s) \/ HashComputed(s)
  BY <1>5, AuthenticationOnSession
<1>6. CASE CommandReplied(s)
  BY <1>6, StorageOnSession
<1>7. CASE CommandFailed(s)
  BY <1>7, SteadyEnding DEF CommandFailed
<1> QED BY <1>2, <1>3, <1>4, <1>5, <1>6, <1>7 DEF Settled

-----------------------------------------------------------------------------
(* The mapping.                                                            *)

(* With one slot, what runs is what waits in it.                           *)
LEMMA RunsInSlot ==
  ASSUME OneSlot, NEW s \in Slots
  PROVE  Running = IF stage[s] \in Waiting THEN {Request(run[s])} ELSE {}
<1>1. {t \in Slots : stage[t] \in Waiting} = IF stage[s] \in Waiting THEN {s} ELSE {}
  BY DEF OneSlot
<1> QED BY <1>1 DEF Running, Request

LEMMA RunsInSlotThen ==
  ASSUME OneSlot, NEW s \in Slots
  PROVE  Running' = IF stage'[s] \in Waiting THEN {Request(run'[s])} ELSE {}
<1>1. {t \in Slots : stage'[t] \in Waiting} = IF stage'[s] \in Waiting THEN {s} ELSE {}
  BY DEF OneSlot
<1> QED BY <1>1 DEF Running, Request

LEMMA EndedIsGone ==
  ASSUME OneSlot, TypeOK, NEW s \in Slots, NEW e, Ends(s, e)
  PROVE  Running' = {}
<1>1. stage'[s] \notin Waiting
  BY DEF Ends, TypeOK, Waiting
<1> QED BY <1>1, RunsInSlotThen

LEMMA RemainingRuns ==
  ASSUME OneSlot, TypeOK, NEW s \in Slots, NEW e, Remains(s, e)
  PROVE  Running' = {Request(e)}
<1>1. PICK x \in Waiting, r \in Executions : Wait(s, r, x) /\ Request(r) = Request(e)
  BY DEF Remains
<1>2. stage'[s] = x /\ run'[s] = r
  BY <1>1 DEF Wait, TypeOK
<1> QED BY <1>1, <1>2, RunsInSlotThen

(* A command that is received begins, or is over at once.                  *)
LEMMA ReceivedIsServed ==
  ASSUME OneSlot, TypeOK, NEW s \in Slots, stage[s] \notin Waiting,
         NEW r \in Received, NEW flag \in BOOLEAN, ExecuteCommand(s, r, flag)
  PROVE  SerialSession!Next \/ UNCHANGED SerialSession!sessionVars
<1>1. PICK e \in Executions :
        /\ e.command = r.command /\ e.argument = r.argument
        /\ (Ends(s, e) /\ (Steady \/ SerialSession!Logout(Request(e)))) \/ Remains(s, e)
  BY ReceivedOnSession
<1>2. Running = {}
  BY RunsInSlot
<1>3. Request(e) \in SerialSession!Requests
  BY <1>1 DEF Request, SerialSession!Requests, Received, Arguments, ArgumentsOf
<1>4. CASE Ends(s, e) /\ Steady
  BY <1>2, <1>4, EndedIsGone DEF Steady, SerialSession!sessionVars, SerialSession!session
<1>5. CASE Ends(s, e) /\ SerialSession!Logout(Request(e))
  <2>1. UNCHANGED Running
    BY <1>2, <1>5, EndedIsGone
  <2> QED BY <1>2, <1>3, <1>5, <2>1 DEF SerialSession!LogoutAtOnce, SerialSession!Next
<1>6. CASE Remains(s, e)
  <2>1. Running' = {Request(e)}
    BY <1>6, RemainingRuns
  <2> QED BY <1>2, <1>3, <1>6, <2>1
          DEF Remains, Steady, SerialSession!session, SerialSession!Begin, SerialSession!Next
<1> QED BY <1>1, <1>4, <1>5, <1>6

(* A call that is settled ends the command, or leaves it running.          *)
LEMMA SettledIsServed ==
  ASSUME OneSlot, IInv, Sequential, NEW s \in Slots, Settled(s)
  PROVE  SerialSession!Next \/ UNCHANGED SerialSession!sessionVars
<1> TypeOK
  BY DEF IInv
<1>1. stage[s] \in Waiting
  BY DEF Settled, AuthorizationGranted, AuthorizationDenied, AuthorizationFailed, AuthenticationReplied,
         AuthenticationFailed, HashComputed, CommandReplied, CommandFailed, Answering, Awaiting, Waiting
<1>2. Running = {Request(run[s])}
  BY <1>1, RunsInSlot
<1>3. CASE Ends(s, run[s])
  <2>1. Running' = {}
    BY <1>3, EndedIsGone
  <2> QED BY <1>2, <1>3, <2>1
          DEF Ends, Effect, Steady, SerialSession!session, SerialSession!End, SerialSession!Next
<1>4. CASE Remains(s, run[s])
  <2>1. Running' = {Request(run[s])}
    BY <1>4, RemainingRuns
  <2> QED BY <1>2, <1>4, <2>1 DEF Remains, Steady, SerialSession!sessionVars, SerialSession!session
<1> QED BY <1>3, <1>4, SettledOnSession

(* Every step is a step of the session, or none.                           *)
LEMMA StepIsServed ==
  ASSUME OneSlot, IInv, Sequential, [Next]_connectionVars
  PROVE  [SerialSession!Next]_(SerialSession!sessionVars)
<1> TypeOK
  BY DEF IInv
<1>1. ASSUME NEW s \in Slots, ReceiveCommand(s)
      PROVE  SerialSession!Next \/ UNCHANGED SerialSession!sessionVars
  <2>0. PICK c \in Commands, u \in BOOLEAN : \E a \in ArgumentsOf(c) :
          ExecuteCommand(s, [command |-> c, uid |-> u, argument |-> a], useUID \/ u)
    BY <1>1 DEF ReceiveCommand
  <2>1. PICK a \in ArgumentsOf(c) :
          ExecuteCommand(s, [command |-> c, uid |-> u, argument |-> a], useUID \/ u)
    BY <2>0
  <2>2. [command |-> c, uid |-> u, argument |-> a] \in Received /\ (useUID \/ u) \in BOOLEAN
    BY DEF Received, Arguments, ArgumentsOf
  <2>3. stage[s] \notin Waiting
    BY <2>1 DEF ExecuteCommand, Waiting
  <2> QED BY <2>1, <2>2, <2>3, ReceivedIsServed
<1>2. ASSUME NEW s \in Slots, ReceiveRest(s)
      PROVE  SerialSession!Next \/ UNCHANGED SerialSession!sessionVars
  <2>1. currentCommand \in Received /\ useUID \in BOOLEAN
    BY <1>2 DEF ReceiveRest, TypeOK
  <2>2. stage[s] \notin Waiting
    BY <1>2 DEF ReceiveRest, ExecuteCommand, Waiting
  <2> QED BY <1>2, <2>1, <2>2, ReceivedIsServed DEF ReceiveRest
<1>3. ASSUME NEW s \in Slots, Settled(s)
      PROVE  SerialSession!Next \/ UNCHANGED SerialSession!sessionVars
  BY <1>3, SettledIsServed
<1>4. ASSUME UNCHANGED <<session, stage, run>>
      PROVE  UNCHANGED SerialSession!sessionVars
  BY <1>4 DEF session, Running, SerialSession!sessionVars, SerialSession!session
<1>5. CASE Disturbed
  BY <1>4, <1>5, DisturbedIsQuiet DEF DisturbedEffect
<1>6. CASE UNCHANGED connectionVars
  BY <1>4, <1>6 DEF connectionVars
<1> QED BY <1>1, <1>2, <1>3, <1>5, <1>6 DEF Next, Receive

(* For a client that waits, the connection with all its interleavings of   *)
(* authorizers, drivers, hashes, timeouts and errors is the session of     *)
(* Session: one command at a time, each taking effect in one step, in the  *)
(* state it was accepted in and with the arguments it was sent with.       *)
THEOREM SerialSessions == ASSUME OneSlot PROVE Spec => ImplementsSession
<1>1. Init => SerialSession!Init
  BY DEF Init, Running, Waiting, SerialSession!Init
<1>2. IInv /\ Sequential /\ [Next]_connectionVars => [SerialSession!Next]_(SerialSession!sessionVars)
  BY StepIsServed
<1> QED BY <1>1, <1>2, Inductive, SequentialInvariant, PTL DEF Spec, ImplementsSession, SerialSession!Spec
=============================================================================
