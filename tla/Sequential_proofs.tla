-------------------------- MODULE Sequential_proofs --------------------------
(* Proofs about the client that waits for each reply: with one command in  *)
(* flight at a time, for any commands, users, mailboxes, limits and faults,*)
(* state, user and mailbox of the connection agree, a command is published *)
(* only in a state its plugin accepts, and LOGOUT is final.                *)
EXTENDS Connection_proofs

OneSlot == \A s, t \in Slots : s = t

LoggedInState == state \in {"AUTHENTICATED", "SELECTED"}

(* State and user agree, whatever has become of the socket: logged in means*)
(* under a name that was confirmed, and no user outlives the session.      *)
SessionAgrees ==
  IF LoggedInState THEN authenticatedUser \in confirmed ELSE authenticatedUser = NoUser

(* What a turn does to the session, as far as the properties tell.         *)
Same ==
  /\ UNCHANGED <<state, authenticatedUser, hasWritePermission>>
  /\ confirmed \subseteq confirmed'

LoggedOut == state' = "LOGOUT" /\ authenticatedUser' = NoUser

LoggedIn ==
  /\ state = "NOT_AUTHENTICATED"
  /\ state' = "AUTHENTICATED" /\ authenticatedUser' \in confirmed'

Entered ==
  /\ state = "AUTHENTICATED" /\ UNCHANGED <<authenticatedUser, confirmed>>
  /\ state' = "AUTHENTICATED" \/ (state' = "SELECTED" /\ hasWritePermission')

Acceptable(e) == Known(e.command) /\ MayExecute(e.command, state)

(* The command in slot s is over, or waits, in a state it may wait in.     *)
Over(s) == stage' = [stage EXCEPT ![s] = "done"] /\ (Same \/ LoggedOut \/ LoggedIn \/ Entered)

Waits(s) ==
  \E x \in Waiting, r \in Executions :
    /\ Wait(s, r, x) /\ Same
    /\ Acceptable(r)
    /\ x = "executing" => r.user = authenticatedUser /\ LoggedInState

(* The strengthening: while a command waits, nothing changes the state it  *)
(* was accepted in.                                                        *)
WaitingIsAcceptable == \A s \in Slots : stage[s] \in Waiting => Acceptable(run[s])

Sequential ==
  /\ SessionAgrees
  /\ SelectedIsWritable
  /\ PublishedForTheUser
  /\ WaitingIsAcceptable

-----------------------------------------------------------------------------
(* The states the plugins accept.                                          *)

LEMMA PublishersNeedAUser ==
  ASSUME NEW c, NEW st, Does(c, "publish"), MayExecute(c, st)
  PROVE  st \in {"AUTHENTICATED", "SELECTED"}
BY DEF Does, Known, MayExecute, Plugin, commandPlugins, CAPABILITY, NOOP, LOGOUT, STARTTLS,
       HEALTHCHECK, LOGIN, AUTHENTICATE, CONFIGURATION, CONNECTIONS, STATISTICS, ERROR, SELECT,
       EXAMINE, CREATE, DELETE, RENAME, SUBSCRIBE, UNSUBSCRIBE, LIST, LSUB, STATUS, APPEND,
       FETCH, simpleSelectedMailbox, CHECK, CLOSE, EXPUNGE, SEARCH, STORE, COPY,
       Authenticated, InMailbox

LEMMA AuthenticatingComesFirst ==
  ASSUME NEW c \in Authenticating, NEW st, MayExecute(c, st)
  PROVE  st = "NOT_AUTHENTICATED"
BY DEF Authenticating, MayExecute, Plugin, commandPlugins, LOGIN, AUTHENTICATE, NotAuthenticated

-----------------------------------------------------------------------------
(* The turns of a command.                                                 *)

LEMMA UnchangedSession == ASSUME UNCHANGED session PROVE Same
BY DEF session, Same

LEMMA EndingIsOver ==
  ASSUME NEW s, NEW e, NEW cur, Throw(s, e, cur) \/ Conclude(s, e, cur) \/ Return(s, e)
  PROVE  stage' = [stage EXCEPT ![s] = "done"]
BY DEF Throw, Conclude, Return

LEMMA CallbackTurn ==
  ASSUME TypeOK, SessionAgrees, NEW s \in Slots, NEW e \in Executions, NEW cur,
         NEW flag \in BOOLEAN, Acceptable(e), StartCallback(s, e, cur, flag)
  PROVE  Over(s) \/ Waits(s)
<1>1. CASE StartImmediate(s, e, cur)
  BY <1>1, EndingIsOver, UnchangedSession DEF StartImmediate, Over
<1>2. CASE StartError(s, e, cur)
  BY <1>2, EndingIsOver, UnchangedSession DEF StartError, Over
<1>3. CASE StartLogout(s, e, cur)
  BY <1>3, EndingIsOver DEF StartLogout, Over, LoggedOut
<1>4. CASE StartAuthentication(s, e, cur, flag)
  <2>1. Same
    BY <1>4, UnchangedSession DEF StartAuthentication
  <2>2. CASE TooManyAttempts(s, e, cur)
    BY <2>1, <2>2, EndingIsOver DEF TooManyAttempts, Over
  <2>3. CASE AttemptAuthentication(s, e, cur, flag)
    <3>1. \/ Return(s, Answered(e))
          \/ \E x \in {"hashing", "authenticating"} : Wait(s, e, x)
      BY <2>3 DEF AttemptAuthentication
    <3>2. CASE Return(s, Answered(e))
      BY <2>1, <3>2, EndingIsOver DEF Over
    <3>3. ASSUME NEW x \in {"hashing", "authenticating"}, Wait(s, e, x) PROVE Waits(s)
      <4>1. x \in Waiting /\ x # "executing"
        BY DEF Waiting
      <4> QED BY <2>1, <3>3, <4>1 DEF Waits
    <3> QED BY <3>1, <3>2, <3>3
  <2> QED BY <1>4, <2>2, <2>3 DEF StartAuthentication
<1>5. CASE StartStorage(s, e, cur, flag)
  <2> DEFINE r == [e EXCEPT !.user = authenticatedUser, !.sentUID = flag]
  <2>1. r \in Executions /\ r.command = e.command /\ r.user = authenticatedUser
    BY DEF Executions, TypeOK
  <2>2. LoggedInState
    BY <1>5, PublishersNeedAUser DEF StartStorage, Acceptable, LoggedInState
  <2>3. Wait(s, r, "executing") /\ Same
    BY <1>5, UnchangedSession DEF StartStorage
  <2>4. "executing" \in Waiting
    BY DEF Waiting
  <2> HIDE DEF r
  <2>5. Acceptable(r)
    BY <2>1 DEF Acceptable
  <2> QED BY <2>1, <2>2, <2>3, <2>4, <2>5 DEF Waits
<1>6. CASE RefuseArguments(s, e, cur)
  BY <1>6, EndingIsOver, UnchangedSession DEF RefuseArguments, Over
<1>7. CASE ThrowAtArguments(s, e, cur)
  BY <1>7, EndingIsOver, UnchangedSession DEF ThrowAtArguments, Over
<1> QED BY <1>1, <1>2, <1>3, <1>4, <1>5, <1>6, <1>7 DEF StartCallback

LEMMA RefusalTurn ==
  ASSUME NEW s, NEW e, NEW k, NEW cur, NEW flag, Refuse(s, e, k, cur, flag)
  PROVE  Over(s)
BY EndingIsOver, UnchangedSession DEF Refuse, Over

LEMMA ExecuteTurn ==
  ASSUME TypeOK, SessionAgrees, NEW s \in Slots, NEW r \in Received, NEW flag \in BOOLEAN,
         ExecuteCommand(s, r, flag)
  PROVE  Over(s) \/ Waits(s)
<1> DEFINE e == Fresh(r.command, r.uid, r.argument)
           cur == IF r.command = "AUTHENTICATE" THEN r ELSE Nothing
<1>1. e \in Executions
  BY FreshType DEF Received
<1>2. \/ RefuseUnknown(s, e, cur, flag)
      \/ RefuseWrongState(s, e, cur, flag)
      \/ AskAuthorizer(s, e, cur, flag)
      \/ ExecuteAtOnce(s, e, cur, flag)
  BY DEF ExecuteCommand
<1> HIDE DEF e, cur
<1>3. CASE RefuseUnknown(s, e, cur, flag)
  BY <1>3, RefusalTurn DEF RefuseUnknown
<1>4. CASE RefuseWrongState(s, e, cur, flag)
  BY <1>4, RefusalTurn DEF RefuseWrongState
<1>5. CASE AskAuthorizer(s, e, cur, flag)
  <2>1. Wait(s, e, "authorizing") /\ Same /\ Acceptable(e)
    BY <1>5, UnchangedSession DEF AskAuthorizer, Acceptable
  <2>2. "authorizing" \in Waiting /\ "authorizing" # "executing"
    BY DEF Waiting
  <2> QED BY <1>1, <2>1, <2>2 DEF Waits
<1>6. CASE ExecuteAtOnce(s, e, cur, flag)
  BY <1>1, <1>6, CallbackTurn DEF ExecuteAtOnce, Acceptable
<1> QED BY <1>2, <1>3, <1>4, <1>5, <1>6

LEMMA AuthenticationTurn ==
  ASSUME IInv, Sequential, NEW s \in Slots,
         AuthenticationReplied(s) \/ AuthenticationFailed(s) \/ HashComputed(s)
  PROVE  Over(s)
<1>1. stage[s] \in {"authenticating", "hashing"}
  BY DEF AuthenticationReplied, AuthenticationFailed, HashComputed, Answering, Awaiting
<1>2. state = "NOT_AUTHENTICATED"
  <2>1. run[s].command \in Authenticating /\ stage[s] \in Waiting
    BY <1>1 DEF IInv, WaitingKeepsArgument, Authenticating, Waiting
  <2>2. MayExecute(run[s].command, state)
    BY <2>1 DEF Sequential, WaitingIsAcceptable, Acceptable
  <2> QED BY <2>1, <2>2, AuthenticatingComesFirst
<1>3. CASE AuthenticationReplied(s)
  <2>1. PICK r \in AuthenticationReplies :
          /\ IF Authenticates(r) THEN LogIn(r.authenticatedUser) ELSE Reject
          /\ confirmed' = confirmed \cup (IF r.done THEN {r.authenticatedUser} \ {Nothing} ELSE {})
          /\ \E e, cur : Conclude(s, e, cur)
    BY <1>3 DEF AuthenticationReplied
  <2>2. Same \/ LoggedIn
    BY <1>2, <1>3, <2>1 DEF AuthenticationReplied, Authenticates, LogIn, Reject, Same, LoggedIn
  <2> QED BY <2>1, <2>2, EndingIsOver DEF Over
<1>4. CASE AuthenticationFailed(s)
  BY <1>4, EndingIsOver, UnchangedSession DEF AuthenticationFailed, Over
<1>5. CASE HashComputed(s)
  <2>1. Same \/ LoggedIn
    BY <1>2, <1>5 DEF HashComputed, LogIn, Reject, Same, LoggedIn
  <2> QED BY <1>5, <2>1, EndingIsOver DEF HashComputed, Over
<1> QED BY <1>3, <1>4, <1>5

LEMMA StorageTurn ==
  ASSUME IInv, Sequential, NEW s \in Slots, CommandReplied(s)
  PROVE  Over(s)
<1>1. PICK r \in StorageReplies :
        /\ ApplyReply(run[s], r)
        /\ \E e, cur : Throw(s, e, cur) \/ Conclude(s, e, cur)
  BY DEF CommandReplied
<1>2. stage[s] \in Waiting /\ UNCHANGED <<authenticatedUser, confirmed>>
  BY DEF CommandReplied, Answering, Waiting
<1>3. CASE r = "ok" /\ run[s].command \in {"SELECT", "EXAMINE"}
  <2>1. state = "AUTHENTICATED"
    BY <1>2, <1>3, SelectingIsAuthenticated DEF Sequential, WaitingIsAcceptable, Acceptable
  <2>2. Entered
    BY <1>1, <1>2, <1>3, <2>1 DEF ApplyReply, Selected, Examined, Entered
  <2> QED BY <1>1, <2>2, EndingIsOver DEF Over
<1>4. CASE ~(r = "ok" /\ run[s].command \in {"SELECT", "EXAMINE"})
  <2>1. Same
    BY <1>1, <1>2, <1>4 DEF ApplyReply, Same
  <2> QED BY <1>1, <2>1, EndingIsOver DEF Over
<1> QED BY <1>3, <1>4

LEMMA SettledTurn ==
  ASSUME IInv, Sequential, NEW s \in Slots, Settled(s)
  PROVE  Over(s) \/ Waits(s)
<1>1. TypeOK /\ run[s] \in Executions /\ useUID \in BOOLEAN
  BY DEF IInv, TypeOK
<1>2. CASE AuthorizationGranted(s)
  <2> DEFINE e == [run[s] EXCEPT !.authorized = TRUE]
  <2>1. e \in Executions /\ e.command = run[s].command
    BY <1>1 DEF Executions
  <2>2. Acceptable(run[s])
    BY <1>2 DEF AuthorizationGranted, Answering, Waiting, Sequential, WaitingIsAcceptable
  <2>3. StartCallback(s, e, currentCommand, useUID)
    BY <1>2 DEF AuthorizationGranted
  <2> HIDE DEF e
  <2>4. Acceptable(e)
    BY <2>1, <2>2 DEF Acceptable
  <2> QED BY <1>1, <2>1, <2>3, <2>4, CallbackTurn DEF Sequential
<1>3. CASE AuthorizationDenied(s)
  BY <1>3, RefusalTurn DEF AuthorizationDenied
<1>4. CASE AuthorizationFailed(s)
  BY <1>4, EndingIsOver, UnchangedSession DEF AuthorizationFailed, Over
<1>5. CASE AuthenticationReplied(s) \/ AuthenticationFailed(s) \/ HashComputed(s)
  BY <1>5, AuthenticationTurn
<1>6. CASE CommandReplied(s)
  BY <1>6, StorageTurn
<1>7. CASE CommandFailed(s)
  BY <1>7, EndingIsOver, UnchangedSession DEF CommandFailed, Over
<1> QED BY <1>2, <1>3, <1>4, <1>5, <1>6, <1>7 DEF Settled

(* Every step is a turn of a command, or leaves session and commands alone.*)
LEMMA Turns ==
  ASSUME IInv, Sequential, Next
  PROVE  \/ Same /\ UNCHANGED <<stage, run>>
         \/ \E s \in Slots : Over(s) \/ Waits(s)
<1> TypeOK /\ SessionAgrees
  BY DEF IInv, Sequential
<1>1. ASSUME NEW s \in Slots, ReceiveCommand(s) PROVE Over(s) \/ Waits(s)
  <2>1. PICK c \in Commands, u \in BOOLEAN : \E a \in ArgumentsOf(c) :
          ExecuteCommand(s, [command |-> c, uid |-> u, argument |-> a], useUID \/ u)
    BY <1>1 DEF ReceiveCommand
  <2>2. PICK a \in ArgumentsOf(c) :
          ExecuteCommand(s, [command |-> c, uid |-> u, argument |-> a], useUID \/ u)
    BY <2>1
  <2>3. [command |-> c, uid |-> u, argument |-> a] \in Received
    BY DEF Received, Arguments, ArgumentsOf
  <2> QED BY <2>2, <2>3, ExecuteTurn
<1>2. ASSUME NEW s \in Slots, ReceiveRest(s) PROVE Over(s) \/ Waits(s)
  <2>1. currentCommand \in Received /\ useUID \in BOOLEAN
    BY <1>2 DEF ReceiveRest, TypeOK
  <2> QED BY <1>2, <2>1, ExecuteTurn DEF ReceiveRest
<1>3. ASSUME NEW s \in Slots, Settled(s) PROVE Over(s) \/ Waits(s)
  BY <1>3, SettledTurn
<1>4. ASSUME Disturbed PROVE Same /\ UNCHANGED <<stage, run>>
  BY <1>4, DisturbedIsQuiet, UnchangedSession DEF DisturbedEffect
<1> QED BY <1>1, <1>2, <1>3, <1>4 DEF Next, Receive

-----------------------------------------------------------------------------
(* The invariant.                                                          *)

LEMMA OverPreserves ==
  ASSUME OneSlot, TypeOK, Sequential, NEW s \in Slots, Over(s)
  PROVE  Sequential' /\ (state = "LOGOUT" => state' \in {"LOGOUT"})
<1>1. \A t \in Slots : stage'[t] = "done"
  BY DEF OneSlot, Over, TypeOK
<1>2. PublishedForTheUser' /\ WaitingIsAcceptable'
  BY <1>1 DEF PublishedForTheUser, WaitingIsAcceptable, Waiting
<1>3. SessionAgrees' /\ SelectedIsWritable' /\ (state = "LOGOUT" => state' = "LOGOUT")
  BY ConnectionAssumption DEF Over, Same, LoggedOut, LoggedIn, Entered, Sequential,
     SessionAgrees, LoggedInState, SelectedIsWritable
<1> QED BY <1>2, <1>3 DEF Sequential

LEMMA WaitsPreserves ==
  ASSUME OneSlot, TypeOK, Sequential, NEW s \in Slots, Waits(s)
  PROVE  Sequential' /\ UNCHANGED state
         /\ \A t \in Slots : MayExecute(run'[t].command, state)
<1>1. PICK x \in Waiting, r \in Executions :
        /\ Wait(s, r, x) /\ Same
        /\ Acceptable(r)
        /\ x = "executing" => r.user = authenticatedUser /\ LoggedInState
  BY DEF Waits
<1>2. \A t \in Slots : stage'[t] = x /\ run'[t] = r
  BY <1>1 DEF OneSlot, Wait, TypeOK
<1>3. SessionAgrees' /\ SelectedIsWritable' /\ UNCHANGED state
  BY <1>1 DEF Same, Sequential, SessionAgrees, LoggedInState, SelectedIsWritable
<1>4. PublishedForTheUser'
  BY <1>1, <1>2 DEF PublishedForTheUser, Same, Sequential, SessionAgrees
<1>5. WaitingIsAcceptable'
  BY <1>1, <1>2, <1>3 DEF WaitingIsAcceptable, Acceptable
<1> QED BY <1>1, <1>2, <1>3, <1>4, <1>5 DEF Sequential, Acceptable

LEMMA QuietPreserves ==
  ASSUME Sequential, Same, UNCHANGED <<stage, run>>
  PROVE  Sequential'
BY DEF Sequential, Same, SessionAgrees, LoggedInState, SelectedIsWritable, PublishedForTheUser,
       WaitingIsAcceptable, Acceptable

LEMMA SequentialInit == ASSUME Init PROVE Sequential
BY DEF Init, Sequential, SessionAgrees, LoggedInState, SelectedIsWritable, PublishedForTheUser,
       WaitingIsAcceptable, Waiting

LEMMA SequentialStep ==
  ASSUME OneSlot, IInv, Sequential, [Next]_connectionVars
  PROVE  Sequential'
<1> TypeOK
  BY DEF IInv
<1>1. CASE UNCHANGED connectionVars
  BY <1>1, QuietPreserves DEF connectionVars, session, Same
<1>2. CASE Next
  BY <1>2, Turns, OverPreserves, WaitsPreserves, QuietPreserves
<1> QED BY <1>1, <1>2

-----------------------------------------------------------------------------
(* The theorems.                                                           *)

(* With one command at a time, the session and what waits on it agree.     *)
THEOREM SequentialInvariant == ASSUME OneSlot PROVE Spec => []Sequential
<1>1. Init => Sequential
  BY SequentialInit
<1>2. IInv /\ Sequential /\ [Next]_connectionVars => Sequential'
  BY SequentialStep
<1> QED BY <1>1, <1>2, Inductive, PTL DEF Spec

(* The states that are entered by logging in are those with a confirmed    *)
(* name, even after the socket has ended.                                  *)
THEOREM SessionsAgree == ASSUME OneSlot PROVE Spec => []SessionAgrees
<1>1. Sequential => SessionAgrees
  BY DEF Sequential
<1> QED BY <1>1, SequentialInvariant, PTL

(* EXPUNGE and STORE, which do not look, never meet a read-only mailbox.   *)
THEOREM SelectionsAreWritable == ASSUME OneSlot PROVE Spec => []SelectedIsWritable
<1>1. Sequential => SelectedIsWritable
  BY DEF Sequential
<1> QED BY <1>1, SequentialInvariant, PTL

(* What the storage driver still has to answer was published for the user  *)
(* the session still has, and that name was confirmed.                     *)
THEOREM PublishersAreTheUser == ASSUME OneSlot PROVE Spec => []PublishedForTheUser
<1>1. Sequential => PublishedForTheUser
  BY DEF Sequential
<1> QED BY <1>1, SequentialInvariant, PTL

(* No answer brings a connection back from LOGOUT.                         *)
THEOREM LogoutStays == ASSUME OneSlot PROVE Spec => LogoutIsFinal
<1>1. IInv /\ Sequential /\ [Next]_connectionVars
        => [state = "LOGOUT" => state' = "LOGOUT"]_connectionVars
  <2> SUFFICES ASSUME IInv, Sequential, Next, state = "LOGOUT" PROVE state' = "LOGOUT"
    OBVIOUS
  <2>1. TypeOK
    BY DEF IInv
  <2> QED BY <2>1, Turns, OverPreserves, WaitsPreserves DEF Same
<1> QED BY <1>1, Inductive, SequentialInvariant, PTL DEF Spec, LogoutIsFinal

(* The state that was checked is the state the command is published in,    *)
(* although an authorizer was awaited in between.                          *)
THEOREM CheckedAtExecution == ASSUME OneSlot PROVE Spec => ExecutedInAcceptableState
<1>1. IInv /\ Sequential /\ [Next]_connectionVars
        => [\A s \in Slots :
              stage[s] # "executing" /\ stage'[s] = "executing"
                => MayExecute(run'[s].command, state)]_connectionVars
  <2> SUFFICES ASSUME IInv, Sequential, Next,
                      NEW t \in Slots, stage[t] # "executing", stage'[t] = "executing"
               PROVE  MayExecute(run'[t].command, state)
    OBVIOUS
  <2>1. TypeOK
    BY DEF IInv
  <2>2. ~(\E s \in Slots : Over(s))
    BY <2>1 DEF OneSlot, Over, TypeOK
  <2> QED BY <2>1, <2>2, Turns, WaitsPreserves
<1> QED BY <1>1, Inductive, SequentialInvariant, PTL DEF Spec, ExecutedInAcceptableState
=============================================================================
