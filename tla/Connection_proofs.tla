-------------------------- MODULE Connection_proofs --------------------------
(* Proofs about a connection, for any number of commands in flight, any    *)
(* client, users, mailboxes, limits and configuration.                     *)
(*                                                                         *)
(* Every action is first shown to have an effect of one shape on the slots *)
(* (SlotEffect), on the counters and the socket (CountEffect) and on the   *)
(* identity (IdentityEffect); the invariants follow from those shapes.     *)
EXTENDS Connection, TLAPS

Handled == {"executing", "authenticating", "hashing"}
Current == Received \cup {Nothing}
Allowed(e) == e.authorized \/ ~NeedsAuthorization(e.command)

Authenticating == {"LOGIN", "AUTHENTICATE"}

(* Slot s, which was running e, goes on waiting unanswered or is done, and *)
(* then answered as far as the socket allows.                              *)
SlotEffect(s, e) ==
  \E x \in Stages \ {"idle"}, r \in Executions :
    /\ stage' = [stage EXCEPT ![s] = x]
    /\ run' = [run EXCEPT ![s] = r]
    /\ x \in Waiting => r.replies = e.replies /\ r.command = e.command /\ r.argument = e.argument
    /\ x \in Handled => Allowed(r)
    /\ x = "hashing" => r.command = "LOGIN"
    /\ x = "authenticating" => r.command \in Authenticating
    /\ server' = "serving" => r.replies <= e.replies + 1
    /\ socket # "open" => r.replies <= e.replies
    /\ x = "done" /\ socket' = "open" /\ r.command # "AUTHENTICATE" => r.replies >= 1

(* The socket does not reopen, and exceeding a limit ends it.              *)
CountEffect ==
  /\ count' \in [Counters -> Nat]
  /\ socket' \in {"open", "ended", "closed"}
  /\ socket' = "open" => socket = "open"
  /\ server = "serving" =>
       \A k \in Counters : count'[k] > Limit[k] => count[k] > Limit[k] \/ socket' # "open"

SharedEffect == currentCommand' \in Current /\ useUID' \in BOOLEAN

(* While the socket is open, the session stays, is logged in under a name  *)
(* that was confirmed, or goes on in a mailbox that was being selected.    *)
Selecting == \E s \in Slots : stage[s] = "executing" /\ run[s].command = "SELECT"
SessionEffect ==
  \/ UNCHANGED <<state, authenticatedUser>>
  \/ state' = "AUTHENTICATED" /\ authenticatedUser' \in confirmed'
  \/ state' = "SELECTED" /\ UNCHANGED authenticatedUser /\ Selecting

(* The user stays, is forgotten, or is one who was confirmed.              *)
IdentityEffect ==
  /\ state' \in States
  /\ socket' = "open" => SessionEffect
  /\ confirmed \subseteq confirmed' /\ confirmed' \subseteq Users \cup {NoUser}
  /\ authenticatedUser' \in {authenticatedUser, NoUser} \cup confirmed'
  /\ authenticatedUser' \in Users \cup {NoUser}
  /\ currentlySelectedMailbox' \in Mailboxes
  /\ hasWritePermission' \in BOOLEAN

StepEffect(s, e) == SlotEffect(s, e) /\ CountEffect /\ SharedEffect /\ IdentityEffect

(* What is inductive: besides the properties, that a waiting command has   *)
(* not been answered yet and keeps what its handler goes on with, and that *)
(* a SELECT waits in a session that is logged in.                          *)
WaitingIsUnanswered == \A s \in Slots : stage[s] \in Waiting => run[s].replies = 0
WaitingKeepsArgument ==
  \A s \in Slots :
    /\ stage[s] \in Waiting => run[s].argument \in ArgumentsOf(run[s].command)
    /\ stage[s] = "hashing" => run[s].command = "LOGIN"
    /\ stage[s] = "authenticating" => run[s].command \in Authenticating
WaitingSelectsInSession ==
  socket = "open" =>
    \A s \in Slots : stage[s] \in Waiting /\ run[s].command = "SELECT"
                        => state \in {"AUTHENTICATED", "SELECTED"}

IInv ==
  /\ TypeOK
  /\ OverLimitCloses
  /\ UserIsConfirmed
  /\ SessionIsConfirmed
  /\ AuthorizedBeforeHandled
  /\ AtMostOneReply
  /\ NoSilentEnd
  /\ WaitingIsUnanswered
  /\ WaitingKeepsArgument
  /\ WaitingSelectsInSession

-----------------------------------------------------------------------------
(* The building blocks of the actions.                                     *)

LEMMA AnsweredType ==
  ASSUME NEW e \in Executions
  PROVE  /\ Answered(e) \in Executions
         /\ Answered(e).replies <= e.replies + 1
         /\ socket # "open" => Answered(e).replies <= e.replies
         /\ socket = "open" => Answered(e).replies >= 1
         /\ Answered(e).command = e.command
BY DEF Answered, Writable, Executions

LEMMA FreshType ==
  ASSUME NEW c \in Commands \cup {Nothing}, NEW u \in BOOLEAN, NEW a \in Arguments
  PROVE  /\ Fresh(c, u, a) \in Executions
         /\ Fresh(c, u, a).replies = 0
         /\ Fresh(c, u, a).command = c /\ Fresh(c, u, a).argument = a
BY DEF Fresh, Frame, Executions

LEMMA ReturnEffect ==
  ASSUME NEW s \in Slots, NEW e \in Executions, NEW r \in Executions,
         server' = "serving" => r.replies <= e.replies + 1,
         socket # "open" => r.replies <= e.replies,
         socket' = "open" /\ r.command # "AUTHENTICATE" => r.replies >= 1,
         Return(s, r)
  PROVE  SlotEffect(s, e)
<1> DEFINE q == Frame(r.command, FALSE, Nothing, r.replies)
<1>1. q \in Executions /\ q.replies = r.replies /\ q.command = r.command
  BY DEF Frame, Executions, Arguments
<1>2. "done" \in Stages \ {"idle"} /\ "done" \notin Waiting /\ "done" \notin Handled
      /\ "done" # "hashing" /\ "done" # "authenticating"
  BY DEF Stages, Waiting, Handled
<1>3. stage' = [stage EXCEPT ![s] = "done"] /\ run' = [run EXCEPT ![s] = q]
  BY DEF Return
<1> HIDE DEF q
<1> QED BY <1>1, <1>2, <1>3 DEF SlotEffect

(* A command that is over was answered, unless it ended the socket or may  *)
(* end in a continuation request.                                          *)
LEMMA EndEffect ==
  ASSUME NEW s \in Slots, NEW e \in Executions, socket' = "open" => socket = "open",
         \/ Return(s, Answered(e))
         \/ Return(s, e) /\ (socket' # "open" \/ e.command = "AUTHENTICATE")
  PROVE  SlotEffect(s, e)
<1>1. e.replies <= e.replies + 1 /\ e.replies <= e.replies
  BY DEF Executions
<1>2. CASE Return(s, e) /\ (socket' # "open" \/ e.command = "AUTHENTICATE")
  BY <1>1, <1>2, ReturnEffect
<1>3. CASE Return(s, Answered(e))
  BY <1>3, AnsweredType, ReturnEffect
<1> QED BY <1>2, <1>3

LEMMA WaitEffect ==
  ASSUME NEW s \in Slots, NEW e \in Executions, NEW r \in Executions, NEW x \in Waiting,
         r.replies = e.replies, r.command = e.command, r.argument = e.argument,
         x \in Handled => Allowed(r), x = "hashing" => r.command = "LOGIN",
         x = "authenticating" => r.command \in Authenticating,
         Wait(s, r, x)
  PROVE  SlotEffect(s, e)
<1>1. /\ x \in Stages \ {"idle"} /\ x # "done"
      /\ r.replies <= e.replies + 1 /\ r.replies <= e.replies
  BY DEF Stages, Waiting, Executions
<1> QED BY <1>1 DEF SlotEffect, Wait

LEMMA PenalizeEffect ==
  ASSUME TypeOK, NEW k \in Counters, Penalize(k)
  PROVE  CountEffect
<1>1. socket' \in {"open", "ended", "closed"} /\ (socket' = "open" => socket = "open")
  BY DEF Penalize, Ended, TypeOK
<1>2. count' \in [Counters -> Nat]
  BY DEF Penalize, Bumped, TypeOK
<1>3. ASSUME NEW j \in Counters, count'[j] > Limit[j] PROVE count[j] > Limit[j] \/ socket' # "open"
  <2>1. CASE j # k
    BY <1>3, <2>1 DEF Penalize, Bumped, TypeOK
  <2>2. CASE j = k /\ Exceeds(k)
    BY <2>2 DEF Penalize, Ended
  <2>3. CASE j = k /\ ~Exceeds(k)
    <3>1. count[k] \in Nat /\ Limit[k] \in Nat
      BY ConnectionAssumption DEF TypeOK
    <3>2. ~(count[k] >= Limit[k])
      BY <2>3 DEF Exceeds
    <3>3. count'[k] = IF count[k] > Limit[k] THEN count[k] ELSE count[k] + 1
      BY DEF Penalize, Bumped, TypeOK
    <3> QED BY <1>3, <2>3, <3>1, <3>2, <3>3
  <2> QED BY <2>1, <2>2, <2>3
<1> QED BY <1>1, <1>2, <1>3 DEF CountEffect

LEMMA SteadyCount ==
  ASSUME TypeOK, UNCHANGED count, socket' \in {socket, Ended(socket), "closed"}
  PROVE  CountEffect
BY DEF CountEffect, Ended, TypeOK

LEMMA SteadyIdentity ==
  ASSUME TypeOK, UNCHANGED session
  PROVE  IdentityEffect
BY DEF IdentityEffect, SessionEffect, session, TypeOK

(* What a throwing callback, and one that returns, do.                     *)
LEMMA ThrowEffect ==
  ASSUME TypeOK, NEW s \in Slots, NEW e \in Executions, NEW cur \in Current,
         Throw(s, e, cur)
  PROVE  SlotEffect(s, e) /\ CountEffect /\ SharedEffect
<1>1. CountEffect
  <2>1. CASE LogWorks
    BY <2>1, PenalizeEffect DEF Throw, Counters
  <2>2. CASE ~LogWorks
    BY <2>2, SteadyCount DEF Throw
  <2> QED BY <2>1, <2>2
<1>2. SlotEffect(s, e)
  BY <1>1, EndEffect DEF Throw, CountEffect
<1>3. SharedEffect
  BY DEF Throw, SharedEffect, Current
<1> QED BY <1>1, <1>2, <1>3

(* A callback returns having answered, or is AUTHENTICATE's; when the log  *)
(* then throws, the broker's channel is closed and a second answer is no   *)
(* surprise.                                                               *)
LEMMA ConcludeEffect ==
  ASSUME TypeOK, NEW s \in Slots, NEW e \in Executions, NEW cur \in Current,
         UNCHANGED server,
         \/ Conclude(s, Answered(e), cur)
         \/ Conclude(s, e, cur) /\ e.command = "AUTHENTICATE"
  PROVE  SlotEffect(s, e) /\ CountEffect /\ SharedEffect
<1>1. PICK r \in {e, Answered(e)} :
        Conclude(s, r, cur) /\ (r = e => r = Answered(e) \/ e.command = "AUTHENTICATE")
  OBVIOUS
<1>2. r \in Executions /\ (socket # "open" => Answered(r).replies <= e.replies)
  BY AnsweredType DEF Executions
<1>3. CASE LogWorks
  <2>1. Return(s, r) /\ currentCommand' = cur /\ useUID' = FALSE /\ UNCHANGED <<count, socket>>
    BY <1>1, <1>3 DEF Conclude
  <2>2. SlotEffect(s, e)
    BY <1>1, <2>1, EndEffect
  <2>3. CountEffect /\ SharedEffect
    BY <2>1, SteadyCount DEF SharedEffect
  <2> QED BY <2>2, <2>3
<1>4. CASE ~LogWorks
  <2>1. Throw(s, r, cur)
    BY <1>1, <1>4 DEF Conclude
  <2>2. Return(s, Answered(r)) /\ Answered(r) \in Executions
    BY <1>2, <2>1, AnsweredType DEF Throw
  <2>3. server' # "serving"
    BY <1>4 DEF LogWorks
  <2>4. CountEffect /\ SharedEffect
    BY <1>2, <2>1, ThrowEffect
  <2>5. socket' = "open" => Answered(r).replies >= 1
    BY <1>2, <2>4, AnsweredType DEF CountEffect
  <2>6. SlotEffect(s, e)
    BY <1>2, <2>2, <2>3, <2>5, ReturnEffect
  <2> QED BY <2>4, <2>6
<1> QED BY <1>3, <1>4

-----------------------------------------------------------------------------
(* The handlers up to their first await.                                   *)

LEMMA LogoutEffect ==
  ASSUME TypeOK, NEW s \in Slots, NEW e \in Executions, NEW cur \in Current,
         StartLogout(s, e, cur)
  PROVE  StepEffect(s, e)
<1>1. CountEffect
  BY SteadyCount DEF StartLogout
<1>2. SlotEffect(s, e)
  BY <1>1, EndEffect DEF StartLogout, CountEffect
<1>3. SharedEffect
  BY DEF StartLogout, SharedEffect, Current
<1>4. IdentityEffect
  BY DEF StartLogout, Ended, IdentityEffect, TypeOK, States
<1> QED BY <1>1, <1>2, <1>3, <1>4 DEF StepEffect

(* The attempts are counted without Penalize: the socket is ended only if  *)
(* the logger works.                                                       *)
LEMMA TooManyEffect ==
  ASSUME TypeOK, NEW s \in Slots, NEW e \in Executions, NEW cur \in Current,
         TooManyAttempts(s, e, cur)
  PROVE  SlotEffect(s, e) /\ CountEffect /\ SharedEffect
<1>1. CASE LogWorks
  <2>1. Return(s, e) /\ currentCommand' = cur /\ useUID' = FALSE
    BY <1>1 DEF TooManyAttempts
  <2>2. SlotEffect(s, e)
    <3>1. socket' # "open"
      BY <1>1 DEF TooManyAttempts, Ended
    <3> QED BY <2>1, <3>1, EndEffect
  <2>3. Penalize("authenticationAttempts")
    BY <1>1 DEF TooManyAttempts, Penalize
  <2>4. CountEffect
    BY <2>3, PenalizeEffect DEF Counters
  <2> QED BY <2>1, <2>2, <2>4 DEF SharedEffect
<1>2. CASE ~LogWorks
  <2>1. Return(s, Answered(e)) /\ currentCommand' = Nothing /\ useUID' = FALSE
    BY <1>2 DEF TooManyAttempts
  <2>2. SlotEffect(s, e)
    BY <1>2, <2>1, EndEffect DEF TooManyAttempts
  <2>3. PICK k \in Counters : count' = Bumped(k)
    BY DEF TooManyAttempts, Counters
  <2>4. count' \in [Counters -> Nat]
    BY <2>3 DEF Bumped, TypeOK
  <2>5. UNCHANGED socket
    BY <1>2 DEF TooManyAttempts
  <2>6. CountEffect
    BY <1>2, <2>4, <2>5 DEF CountEffect, LogWorks, TypeOK
  <2> QED BY <2>1, <2>2, <2>6 DEF SharedEffect, Current
<1> QED BY <1>1, <1>2

LEMMA AttemptEffect ==
  ASSUME TypeOK, NEW s \in Slots, NEW e \in Executions, NEW cur \in Current,
         NEW flag \in BOOLEAN, Allowed(e), e.command \in Authenticating,
         AttemptAuthentication(s, e, cur, flag)
  PROVE  SlotEffect(s, e) /\ CountEffect /\ SharedEffect
<1>1. CountEffect
  <2>1. UNCHANGED socket /\ ~Exceeds("authenticationAttempts")
        /\ count' = Bumped("authenticationAttempts")
    BY DEF AttemptAuthentication
  <2>2. Penalize("authenticationAttempts")
    BY <2>1 DEF Penalize
  <2> QED BY <2>2, PenalizeEffect DEF Counters
<1>2. \/ Return(s, Answered(e)) /\ currentCommand' = Nothing /\ useUID' = FALSE
      \/ /\ Wait(s, e, "hashing") /\ e.command = "LOGIN"
         /\ currentCommand' = cur /\ useUID' = FALSE
      \/ Wait(s, e, "authenticating") /\ currentCommand' = cur /\ useUID' = flag
  BY DEF AttemptAuthentication
<1>3. SharedEffect
  BY <1>2 DEF SharedEffect, Current
<1>4. SlotEffect(s, e)
  <2>1. UNCHANGED socket
    BY DEF AttemptAuthentication
  <2> QED BY <1>2, <2>1, EndEffect, WaitEffect DEF Waiting
<1> QED BY <1>1, <1>3, <1>4

LEMMA StorageEffect ==
  ASSUME TypeOK, NEW s \in Slots, NEW e \in Executions, NEW cur \in Current,
         NEW flag \in BOOLEAN, Allowed(e), StartStorage(s, e, cur, flag)
  PROVE  StepEffect(s, e)
<1> DEFINE r == [e EXCEPT !.user = authenticatedUser, !.sentUID = flag]
<1>1. /\ r \in Executions /\ Allowed(r)
      /\ r.replies = e.replies /\ r.command = e.command /\ r.argument = e.argument
  BY DEF Executions, TypeOK, Allowed
<1>2. Wait(s, r, "executing") /\ currentCommand' = cur /\ useUID' = flag
      /\ UNCHANGED <<session, count, socket>>
  BY DEF StartStorage
<1> HIDE DEF r
<1>3. SlotEffect(s, e)
  BY <1>1, <1>2, WaitEffect DEF Waiting
<1>4. CountEffect /\ SharedEffect /\ IdentityEffect
  BY <1>2, SteadyCount, SteadyIdentity DEF SharedEffect
<1> QED BY <1>3, <1>4 DEF StepEffect

(* Only these two await the authentication driver.                         *)
LEMMA OnlyTheseAuthenticate ==
  ASSUME NEW c, Does(c, "authenticate")
  PROVE  c \in Authenticating
BY DEF Does, Known, Authenticating, Plugin, commandPlugins, CAPABILITY, NOOP, LOGOUT, STARTTLS,
       HEALTHCHECK, LOGIN, AUTHENTICATE, CONFIGURATION, CONNECTIONS, STATISTICS, ERROR, SELECT,
       EXAMINE, CREATE, DELETE, RENAME, SUBSCRIBE, UNSUBSCRIBE, LIST, LSUB, STATUS, APPEND,
       FETCH, simpleSelectedMailbox, CHECK, CLOSE, EXPUNGE, SEARCH, STORE, COPY

LEMMA StartCallbackEffect ==
  ASSUME TypeOK, NEW s \in Slots, NEW e \in Executions, NEW cur \in Current,
         NEW flag \in BOOLEAN, Allowed(e), UNCHANGED server,
         StartCallback(s, e, cur, flag)
  PROVE  StepEffect(s, e)
<1>1. CASE StartImmediate(s, e, cur)
  BY <1>1, ConcludeEffect, SteadyIdentity DEF StartImmediate, StepEffect
<1>2. CASE StartError(s, e, cur)
  BY <1>2, ThrowEffect, SteadyIdentity DEF StartError, StepEffect
<1>3. CASE StartLogout(s, e, cur)
  BY <1>3, LogoutEffect
<1>4. CASE StartAuthentication(s, e, cur, flag)
  BY <1>4, OnlyTheseAuthenticate, TooManyEffect, AttemptEffect, SteadyIdentity DEF StartAuthentication, StepEffect
<1>5. CASE StartStorage(s, e, cur, flag)
  BY <1>5, StorageEffect
<1>6. CASE RefuseArguments(s, e, cur)
  BY <1>6, ConcludeEffect, SteadyIdentity DEF RefuseArguments, StepEffect
<1>7. CASE ThrowAtArguments(s, e, cur)
  BY <1>7, ThrowEffect, SteadyIdentity DEF ThrowAtArguments, StepEffect
<1> QED BY <1>1, <1>2, <1>3, <1>4, <1>5, <1>6, <1>7 DEF StartCallback

LEMMA RefuseEffect ==
  ASSUME TypeOK, NEW s \in Slots, NEW e \in Executions, NEW cur \in Current,
         NEW flag \in BOOLEAN, NEW k \in Counters, Refuse(s, e, k, cur, flag)
  PROVE  StepEffect(s, e)
<1>1. CountEffect
  BY PenalizeEffect, SteadyCount DEF Refuse
<1>2. SlotEffect(s, e)
  BY <1>1, EndEffect DEF Refuse, CountEffect
<1>3. SharedEffect /\ IdentityEffect
  BY SteadyIdentity DEF Refuse, SharedEffect
<1> QED BY <1>1, <1>2, <1>3 DEF StepEffect

(* executeCommand() starts from an execution without a reply, and checks   *)
(* the state before it waits.                                              *)
LEMMA ExecuteCommandEffect ==
  ASSUME TypeOK, NEW s \in Slots, NEW r \in Received, NEW flag \in BOOLEAN,
         ExecuteCommand(s, r, flag)
  PROVE  UNCHANGED server
         /\ \E e \in Executions :
              /\ e.replies = 0 /\ e.argument \in ArgumentsOf(e.command)
              /\ stage'[s] \in Waiting => MayExecute(e.command, state)
              /\ StepEffect(s, e)
<1> DEFINE e == Fresh(r.command, r.uid, r.argument)
           cur == IF r.command = "AUTHENTICATE" THEN r ELSE Nothing
<1>1. e \in Executions /\ e.replies = 0 /\ e.argument \in ArgumentsOf(e.command)
  BY FreshType DEF Received
<1>2. cur \in Current
  BY DEF Current
<1>3. /\ UNCHANGED server
      /\ \/ RefuseUnknown(s, e, cur, flag)
         \/ RefuseWrongState(s, e, cur, flag)
         \/ AskAuthorizer(s, e, cur, flag)
         \/ ExecuteAtOnce(s, e, cur, flag)
  BY DEF ExecuteCommand
<1> HIDE DEF e, cur
<1>4. StepEffect(s, e)
  <2>1. CASE RefuseUnknown(s, e, cur, flag)
    BY <1>1, <1>2, <2>1, RefuseEffect DEF RefuseUnknown, Counters
  <2>2. CASE RefuseWrongState(s, e, cur, flag)
    BY <1>1, <1>2, <2>2, RefuseEffect DEF RefuseWrongState, Counters
  <2>3. CASE AskAuthorizer(s, e, cur, flag)
    <3>1. SlotEffect(s, e)
      BY <1>1, <2>3, WaitEffect DEF AskAuthorizer, Waiting, Handled
    <3>2. CountEffect /\ SharedEffect /\ IdentityEffect
      BY <1>2, <2>3, SteadyCount, SteadyIdentity DEF AskAuthorizer, SharedEffect
    <3> QED BY <3>1, <3>2 DEF StepEffect
  <2>4. CASE ExecuteAtOnce(s, e, cur, flag)
    BY <1>1, <1>2, <1>3, <2>4, StartCallbackEffect DEF ExecuteAtOnce, Allowed
  <2> QED BY <1>3, <2>1, <2>2, <2>3, <2>4
<1>5. stage'[s] \in Waiting => MayExecute(e.command, state)
  <2>1. CASE RefuseUnknown(s, e, cur, flag) \/ RefuseWrongState(s, e, cur, flag)
    BY <2>1 DEF RefuseUnknown, RefuseWrongState, Refuse, Return, Waiting, TypeOK
  <2>2. CASE AskAuthorizer(s, e, cur, flag) \/ ExecuteAtOnce(s, e, cur, flag)
    BY <2>2 DEF AskAuthorizer, ExecuteAtOnce
  <2> QED BY <1>3, <2>1, <2>2
<1> QED BY <1>1, <1>3, <1>4, <1>5

-----------------------------------------------------------------------------
(* The turns in which a remote call is settled.                            *)

LEMMA LogInEffect ==
  ASSUME TypeOK, NEW u \in Users \cup {NoUser}, LogIn(u), confirmed' = confirmed \cup {u},
         UNCHANGED <<currentlySelectedMailbox, hasWritePermission>>
  PROVE  IdentityEffect
BY DEF LogIn, IdentityEffect, SessionEffect, TypeOK, States

LEMMA AuthenticationRepliedEffect ==
  ASSUME TypeOK, WaitingKeepsArgument, NEW s \in Slots, AuthenticationReplied(s)
  PROVE  StepEffect(s, run[s])
<1>1. run[s] \in Executions /\ currentCommand \in Current
  BY DEF TypeOK, Current
<1>2. PICK r \in AuthenticationReplies :
        /\ IF Authenticates(r) THEN LogIn(r.authenticatedUser) ELSE Reject
        /\ confirmed' = confirmed \cup (IF r.done THEN {r.authenticatedUser} \ {Nothing} ELSE {})
        /\ \E cur \in Current :
             \/ Conclude(s, Answered(run[s]), cur)
             \/ Conclude(s, run[s], cur) /\ run[s].command # "LOGIN"
  BY <1>1 DEF AuthenticationReplied, Current
<1>3. UNCHANGED <<server, currentlySelectedMailbox, hasWritePermission>>
  BY DEF AuthenticationReplied
<1>4. SlotEffect(s, run[s]) /\ CountEffect /\ SharedEffect
  <2>1. run[s].command \in Authenticating
    BY DEF AuthenticationReplied, Answering, WaitingKeepsArgument
  <2> QED BY <1>1, <1>2, <1>3, <2>1, ConcludeEffect DEF Authenticating
<1>5. IdentityEffect
  <2>1. CASE Authenticates(r)
    <3>1. r.authenticatedUser \in Users \cup {NoUser}
          /\ confirmed' = confirmed \cup {r.authenticatedUser}
      BY <1>2, <2>1 DEF Authenticates, AuthenticationReplies
    <3> QED BY <1>2, <1>3, <2>1, <3>1, LogInEffect
  <2>2. CASE ~Authenticates(r)
    <3>1. confirmed' = confirmed
      BY <1>2, <2>2 DEF Authenticates
    <3> QED BY <1>2, <1>3, <2>2, <3>1, SteadyIdentity DEF session, Reject
  <2> QED BY <2>1, <2>2
<1> QED BY <1>4, <1>5 DEF StepEffect

LEMMA HashComputedEffect ==
  ASSUME TypeOK, WaitingKeepsArgument, NEW s \in Slots, HashComputed(s)
  PROVE  StepEffect(s, run[s])
<1>1. run[s] \in Executions /\ run[s].argument \in Users \cup {NoUser}
  BY DEF TypeOK, WaitingKeepsArgument, ArgumentsOf, HashComputed, Awaiting, Waiting
<1>2. SlotEffect(s, run[s])
  BY <1>1, EndEffect DEF HashComputed
<1>3. CountEffect /\ SharedEffect
  BY SteadyCount DEF HashComputed, SharedEffect, TypeOK, Current
<1>4. UNCHANGED <<currentlySelectedMailbox, hasWritePermission>>
  BY DEF HashComputed
<1>5. \/ LogIn(run[s].argument) /\ confirmed' = confirmed \cup {run[s].argument}
      \/ UNCHANGED <<state, authenticatedUser, confirmed>>
  BY DEF HashComputed, Reject
<1>6. IdentityEffect
  BY <1>1, <1>4, <1>5, LogInEffect, SteadyIdentity DEF session
<1> QED BY <1>2, <1>3, <1>6 DEF StepEffect

LEMMA CommandRepliedEffect ==
  ASSUME TypeOK, WaitingKeepsArgument, NEW s \in Slots, CommandReplied(s)
  PROVE  StepEffect(s, run[s])
<1>1. run[s] \in Executions /\ currentCommand \in Current
  BY DEF TypeOK, Current
<1>2. UNCHANGED <<server, authenticatedUser, confirmed>>
  BY DEF CommandReplied
<1>3. PICK r \in StorageReplies :
        /\ ApplyReply(run[s], r)
        /\ Throw(s, run[s], currentCommand) \/ Conclude(s, Answered(run[s]), currentCommand)
  BY DEF CommandReplied
<1>4. SlotEffect(s, run[s]) /\ CountEffect /\ SharedEffect
  BY <1>1, <1>2, <1>3, ThrowEffect, ConcludeEffect
<1>5. IdentityEffect
  <2>1. CASE UNCHANGED <<state, currentlySelectedMailbox, hasWritePermission>>
    BY <1>2, <2>1, SteadyIdentity DEF session
  <2>2. CASE r = "ok" /\ run[s].command \in {"SELECT", "EXAMINE"}
    <3>1. run[s].argument \in Mailboxes
      BY <2>2 DEF WaitingKeepsArgument, ArgumentsOf, CommandReplied, Answering, Waiting
    <3>2. /\ currentlySelectedMailbox' = run[s].argument
          /\ hasWritePermission' \in BOOLEAN
          /\ UNCHANGED state \/ (state' = "SELECTED" /\ run[s].command = "SELECT")
      BY <1>3, <2>2 DEF ApplyReply, Selected, Examined
    <3>3. stage[s] = "executing"
      BY DEF CommandReplied, Answering
    <3>4. SessionEffect
      BY <1>2, <3>2, <3>3 DEF SessionEffect, Selecting
    <3> QED BY <1>2, <3>1, <3>2, <3>4 DEF IdentityEffect, TypeOK, States
  <2> QED BY <1>3, <2>1, <2>2 DEF ApplyReply
<1> QED BY <1>4, <1>5 DEF StepEffect

(* Whatever settles the call of a waiting command, its slot goes on or is  *)
(* done.                                                                   *)
LEMMA SettledEffect ==
  ASSUME TypeOK, WaitingKeepsArgument, NEW s \in Slots, Settled(s)
  PROVE  UNCHANGED server /\ stage[s] \in Waiting /\ StepEffect(s, run[s])
<1>1. run[s] \in Executions /\ currentCommand \in Current /\ useUID \in BOOLEAN
  BY DEF TypeOK, Current
<1>2. UNCHANGED server /\ stage[s] \in Waiting
  BY DEF Settled, AuthorizationGranted, AuthorizationDenied, AuthorizationFailed,
         AuthenticationReplied, AuthenticationFailed, HashComputed,
         CommandReplied, CommandFailed, Answering, Awaiting, Waiting
<1>3. StepEffect(s, run[s])
  <2>1. CASE AuthorizationGranted(s)
    <3> DEFINE e == [run[s] EXCEPT !.authorized = TRUE]
    <3>1. e \in Executions /\ Allowed(e)
      BY <1>1 DEF Executions, Allowed
    <3>2. e.replies = run[s].replies /\ e.command = run[s].command /\ e.argument = run[s].argument
      BY <1>1 DEF Executions
    <3>3. StartCallback(s, e, currentCommand, useUID)
      BY <2>1 DEF AuthorizationGranted
    <3> HIDE DEF e
    <3>4. StepEffect(s, e)
      BY <1>1, <1>2, <3>1, <3>3, StartCallbackEffect
    <3> QED BY <3>2, <3>4 DEF StepEffect, SlotEffect
  <2>2. CASE AuthorizationDenied(s)
    BY <1>1, <2>2, RefuseEffect DEF AuthorizationDenied, Counters
  <2>3. CASE AuthorizationFailed(s)
    <3>1. SlotEffect(s, run[s])
      BY <1>1, <2>3, EndEffect DEF AuthorizationFailed
    <3>2. CountEffect /\ SharedEffect /\ IdentityEffect
      BY <1>1, <2>3, SteadyCount, SteadyIdentity DEF AuthorizationFailed, SharedEffect
    <3> QED BY <3>1, <3>2 DEF StepEffect
  <2>4. CASE AuthenticationFailed(s)
    BY <1>1, <2>4, ThrowEffect, SteadyIdentity DEF AuthenticationFailed, StepEffect
  <2>5. CASE CommandFailed(s)
    BY <1>1, <2>5, ThrowEffect, SteadyIdentity DEF CommandFailed, StepEffect
  <2> QED BY <2>1, <2>2, <2>3, <2>4, <2>5, AuthenticationRepliedEffect, HashComputedEffect,
             CommandRepliedEffect DEF Settled
<1> QED BY <1>2, <1>3

(* What is not the work of a slot.                                         *)
DisturbedEffect ==
  /\ CountEffect /\ SharedEffect
  /\ UNCHANGED <<session, stage, run>>
  /\ server' \in {"serving", "brokerless", "down"}
  /\ server' = "serving" => server = "serving"

LEMMA DisturbedIsQuiet ==
  ASSUME TypeOK, Disturbed
  PROVE  DisturbedEffect
<1>1. CASE ReceiveUpToLiteral
  <2>1. SharedEffect
    BY <1>1 DEF ReceiveUpToLiteral, SharedEffect, Current, Received, Arguments, ArgumentsOf, TypeOK
  <2> QED BY <1>1, <2>1, SteadyCount DEF ReceiveUpToLiteral, DisturbedEffect, TypeOK
<1>2. CASE ReceiveBadArguments
  <2>1. CountEffect
    BY <1>2, PenalizeEffect, SteadyCount DEF ReceiveBadArguments, Counters
  <2>2. SharedEffect
    BY <1>2 DEF ReceiveBadArguments, SharedEffect, Current, Received, TypeOK
  <2> QED BY <1>2, <2>1, <2>2 DEF ReceiveBadArguments, DisturbedEffect, TypeOK
<1>3. CASE ReceiveBadTag
  <2>1. CountEffect
    BY <1>3, PenalizeEffect DEF ReceiveBadTag, Counters
  <2>2. SharedEffect
    BY <1>3 DEF ReceiveBadTag, SharedEffect, Current, TypeOK
  <2> QED BY <1>3, <2>1, <2>2 DEF ReceiveBadTag, DisturbedEffect, TypeOK
<1>4. CASE ReceiveUnreadable
  BY <1>4, SteadyCount DEF ReceiveUnreadable, DisturbedEffect, SharedEffect, Current, TypeOK
<1>5. CASE SocketTimeout
  BY <1>5, SteadyCount DEF SocketTimeout, SurvivesLogging, LogWorks, DisturbedEffect, SharedEffect, Current, TypeOK
<1>6. CASE SocketClose
  BY <1>6, SteadyCount DEF SocketClose, SurvivesLogging, LogWorks, DisturbedEffect, SharedEffect, Current, TypeOK
<1>7. CASE ChannelCloses
  BY <1>7, SteadyCount DEF ChannelCloses, DisturbedEffect, SharedEffect, Current, TypeOK
<1> QED BY <1>1, <1>2, <1>3, <1>4, <1>5, <1>6, <1>7 DEF Disturbed

-----------------------------------------------------------------------------
(* The inductive invariant.                                                *)

(* Every step is the step of a slot, from an execution without a reply that*)
(* waited or was checked against the state, or is not the work of a slot.  *)
SlotStep(s, e) ==
  /\ e.replies = 0 /\ e.argument \in ArgumentsOf(e.command)
  /\ \/ stage[s] \in Waiting /\ e = run[s]
     \/ stage'[s] \in Waiting => MayExecute(e.command, state)
  /\ UNCHANGED server
  /\ StepEffect(s, e)

LEMMA StepShape ==
  ASSUME IInv, Next
  PROVE  DisturbedEffect \/ \E s \in Slots, e \in Executions : SlotStep(s, e)
<1> DEFINE Goal == \E s \in Slots, e \in Executions : SlotStep(s, e)
<1> TypeOK
  BY DEF IInv
<1>1. ASSUME NEW s \in Slots, ReceiveCommand(s) PROVE Goal
  <2>1. PICK c \in Commands, u \in BOOLEAN : \E a \in ArgumentsOf(c) :
          ExecuteCommand(s, [command |-> c, uid |-> u, argument |-> a], useUID \/ u)
    BY <1>1 DEF ReceiveCommand
  <2>2. PICK a \in ArgumentsOf(c) :
          ExecuteCommand(s, [command |-> c, uid |-> u, argument |-> a], useUID \/ u)
    BY <2>1
  <2>3. [command |-> c, uid |-> u, argument |-> a] \in Received
    BY DEF Received, Arguments, ArgumentsOf
  <2> QED BY <2>2, <2>3, ExecuteCommandEffect DEF SlotStep
<1>2. ASSUME NEW s \in Slots, ReceiveRest(s) PROVE Goal
  <2>1. currentCommand \in Received /\ useUID \in BOOLEAN
    BY <1>2 DEF ReceiveRest, TypeOK
  <2> QED BY <1>2, <2>1, ExecuteCommandEffect DEF ReceiveRest, SlotStep
<1>3. ASSUME NEW s \in Slots, Settled(s) PROVE Goal
  <2>1. UNCHANGED server /\ stage[s] \in Waiting /\ StepEffect(s, run[s])
    BY <1>3, SettledEffect DEF IInv
  <2>2. run[s] \in Executions /\ run[s].replies = 0 /\ run[s].argument \in ArgumentsOf(run[s].command)
    BY <2>1 DEF TypeOK, IInv, WaitingIsUnanswered, WaitingKeepsArgument
  <2> QED BY <2>1, <2>2 DEF SlotStep
<1>4. ASSUME Disturbed PROVE DisturbedEffect
  BY <1>4, DisturbedIsQuiet
<1> QED BY <1>1, <1>2, <1>3, <1>4 DEF Next, Receive

LEMMA SelectingIsAuthenticated ==
  ASSUME NEW c \in {"SELECT", "EXAMINE"}, NEW st, MayExecute(c, st)
  PROVE  st = "AUTHENTICATED"
BY DEF MayExecute, Plugin, commandPlugins, SELECT, EXAMINE, Authenticated

LEMMA SlotPreserves ==
  ASSUME IInv, NEW s \in Slots, NEW e \in Executions,
         SlotStep(s, e)
  PROVE  IInv'
<1>1. PICK x \in Stages \ {"idle"}, r \in Executions :
        /\ stage' = [stage EXCEPT ![s] = x]
        /\ run' = [run EXCEPT ![s] = r]
        /\ x \in Waiting => r.replies = e.replies /\ r.command = e.command /\ r.argument = e.argument
        /\ x \in Handled => Allowed(r)
        /\ x = "hashing" => r.command = "LOGIN"
        /\ x = "authenticating" => r.command \in Authenticating
        /\ server' = "serving" => r.replies <= e.replies + 1
        /\ socket # "open" => r.replies <= e.replies
        /\ x = "done" /\ socket' = "open" /\ r.command # "AUTHENTICATE" => r.replies >= 1
  BY DEF SlotStep, StepEffect, SlotEffect
<1>2. TypeOK
  BY DEF IInv
<1>3. UNCHANGED server /\ CountEffect /\ SharedEffect /\ IdentityEffect
  BY DEF SlotStep, StepEffect
<1>4. TypeOK'
  BY <1>1, <1>2, <1>3 DEF TypeOK, CountEffect, SharedEffect, Current, IdentityEffect
<1>5. \A t \in Slots : stage'[t] = (IF t = s THEN x ELSE stage[t])
                       /\ run'[t] = (IF t = s THEN r ELSE run[t])
  BY <1>1, <1>2 DEF TypeOK
<1>6. OverLimitCloses'
  BY <1>3 DEF CountEffect, OverLimitCloses, IInv
<1>7. UserIsConfirmed'
  BY <1>3 DEF IdentityEffect, UserIsConfirmed, IInv
<1>8. AuthorizedBeforeHandled'
  BY <1>1, <1>5 DEF AuthorizedBeforeHandled, IInv, Handled, Allowed, NeedsAuthorization
<1>9. AtMostOneReply'
  BY <1>1, <1>3, <1>5 DEF AtMostOneReply, IInv, SlotStep
<1>10. NoSilentEnd'
  BY <1>1, <1>3, <1>5 DEF NoSilentEnd, IInv, CountEffect
<1>11. WaitingIsUnanswered'
  BY <1>1, <1>5 DEF WaitingIsUnanswered, IInv, SlotStep
<1>12. WaitingKeepsArgument'
  BY <1>1, <1>5 DEF WaitingKeepsArgument, IInv, Waiting, SlotStep
<1>13. SessionIsConfirmed'
  <2> SUFFICES ASSUME socket' = "open" PROVE SessionIsConfirmed'
    BY DEF SessionIsConfirmed
  <2>1. SessionEffect /\ confirmed \subseteq confirmed' /\ socket = "open"
    BY <1>3 DEF CountEffect, IdentityEffect
  <2>2. Selecting => state # "NOT_AUTHENTICATED"
    BY <2>1 DEF Selecting, IInv, WaitingSelectsInSession, Waiting
  <2> QED BY <2>1, <2>2 DEF IInv, SessionIsConfirmed, SessionEffect, TypeOK, States
<1>14. WaitingSelectsInSession'
  <2> SUFFICES ASSUME socket' = "open", NEW t \in Slots,
                      stage'[t] \in Waiting, run'[t].command = "SELECT"
               PROVE  state' \in {"AUTHENTICATED", "SELECTED"}
    BY DEF WaitingSelectsInSession
  <2>1. SessionEffect /\ socket = "open"
    BY <1>3 DEF CountEffect, IdentityEffect
  <2>2. CASE stage[t] \in Waiting /\ run[t].command = "SELECT"
    BY <2>1, <2>2 DEF SessionEffect, IInv, WaitingSelectsInSession
  <2>3. CASE ~(stage[t] \in Waiting /\ run[t].command = "SELECT")
    <3>1. t = s /\ x \in Waiting /\ e.command = "SELECT"
      BY <1>1, <1>5, <2>3
    <3>2. MayExecute("SELECT", state)
      BY <2>3, <3>1 DEF SlotStep
    <3> QED BY <2>1, <3>2, SelectingIsAuthenticated DEF SessionEffect
  <2> QED BY <2>2, <2>3
<1> QED BY <1>4, <1>6, <1>7, <1>8, <1>9, <1>10, <1>11, <1>12, <1>13, <1>14 DEF IInv

LEMMA DisturbedPreserves ==
  ASSUME IInv, DisturbedEffect
  PROVE  IInv'
<1>1. TypeOK'
  BY DEF IInv, DisturbedEffect, TypeOK, CountEffect, SharedEffect, Current, session
<1>2. OverLimitCloses'
  BY DEF IInv, DisturbedEffect, CountEffect, OverLimitCloses
<1>3. UserIsConfirmed'
  BY DEF IInv, DisturbedEffect, UserIsConfirmed, session
<1>4. AuthorizedBeforeHandled' /\ AtMostOneReply' /\ NoSilentEnd'
  BY DEF IInv, DisturbedEffect, CountEffect, AuthorizedBeforeHandled, AtMostOneReply, NoSilentEnd
<1>5. WaitingIsUnanswered' /\ WaitingKeepsArgument'
  BY DEF IInv, DisturbedEffect, WaitingIsUnanswered, WaitingKeepsArgument
<1>6. SessionIsConfirmed' /\ WaitingSelectsInSession'
  BY DEF IInv, DisturbedEffect, CountEffect, SessionIsConfirmed, WaitingSelectsInSession, session
<1> QED BY <1>1, <1>2, <1>3, <1>4, <1>5, <1>6 DEF IInv

LEMMA InitEstablishes == Init => IInv
<1> SUFFICES ASSUME Init PROVE IInv
  OBVIOUS
<1> USE DEF Init
<1>1. Fresh(Nothing, FALSE, Nothing) \in Executions
  BY FreshType DEF Arguments
<1>2. TypeOK
  BY <1>1, ConnectionAssumption DEF TypeOK, States, Stages
<1>3. OverLimitCloses
  BY ConnectionAssumption DEF OverLimitCloses
<1>4. ASSUME NEW s \in Slots PROVE run[s].replies = 0 /\ stage[s] = "idle"
  <2>1. run[s] = Fresh(Nothing, FALSE, Nothing) /\ stage[s] = "idle"
    OBVIOUS
  <2> QED BY <2>1 DEF Fresh, Frame
<1>5. /\ AuthorizedBeforeHandled /\ NoSilentEnd
      /\ WaitingIsUnanswered /\ WaitingKeepsArgument /\ WaitingSelectsInSession
  BY <1>4 DEF AuthorizedBeforeHandled, NoSilentEnd, WaitingIsUnanswered, WaitingKeepsArgument,
     WaitingSelectsInSession, Waiting
<1>6. 0 <= 1
  OBVIOUS
<1>7. AtMostOneReply
  <2> HIDE DEF Init
  <2> QED BY <1>4, <1>6 DEF AtMostOneReply
<1>8. UserIsConfirmed /\ SessionIsConfirmed
  BY DEF UserIsConfirmed, SessionIsConfirmed
<1> QED BY <1>2, <1>3, <1>5, <1>7, <1>8 DEF IInv

LEMMA StepPreserves == IInv /\ [Next]_connectionVars => IInv'
<1>1. ASSUME IInv, Next PROVE IInv'
  BY <1>1, StepShape, SlotPreserves, DisturbedPreserves
<1>2. ASSUME IInv, UNCHANGED connectionVars PROVE IInv'
  BY <1>2 DEF connectionVars, session, IInv, TypeOK, OverLimitCloses, UserIsConfirmed,
     SessionIsConfirmed, AuthorizedBeforeHandled, AtMostOneReply, NoSilentEnd, WaitingIsUnanswered,
     WaitingKeepsArgument, WaitingSelectsInSession
<1> QED BY <1>1, <1>2

-----------------------------------------------------------------------------
(* The theorems.                                                           *)

(* The strengthened invariant holds in every reachable state, however many *)
(* commands are in flight.                                                 *)
THEOREM Inductive == Spec => []IInv
BY InitEstablishes, StepPreserves, PTL DEF Spec

(* The fields of the connection keep their types.                          *)
THEOREM TypeCorrect == Spec => []TypeOK
<1>1. IInv => TypeOK
  BY DEF IInv
<1> QED BY <1>1, Inductive, PTL

(* Whichever command exceeds a limit, the socket is ended with it.         *)
THEOREM LimitsClose == Spec => []OverLimitCloses
<1>1. IInv => OverLimitCloses
  BY DEF IInv
<1> QED BY <1>1, Inductive, PTL

(* No interleaving of logins makes the connection that of a user nobody    *)
(* vouched for.                                                            *)
THEOREM UsersAreConfirmed == Spec => []UserIsConfirmed
<1>1. IInv => UserIsConfirmed
  BY DEF IInv
<1> QED BY <1>1, Inductive, PTL

(* However logins, selections and refusals of several commands interleave, *)
(* an open connection is either logged out without a user or logged in     *)
(* under a confirmed name.                                                 *)
THEOREM SessionsAreConfirmed == Spec => []SessionIsConfirmed
<1>1. IInv => SessionIsConfirmed
  BY DEF IInv
<1> QED BY <1>1, Inductive, PTL

(* No handler gets past its first await without the authorization its      *)
(* command requires.                                                       *)
THEOREM AuthorizationFirst == Spec => []AuthorizedBeforeHandled
<1>1. IInv => AuthorizedBeforeHandled
  BY DEF IInv
<1> QED BY <1>1, Inductive, PTL

(* As long as the broker's channel is open no execution is answered twice. *)
THEOREM RepliesAreSingle == Spec => []AtMostOneReply
<1>1. IInv => AtMostOneReply
  BY DEF IInv
<1> QED BY <1>1, Inductive, PTL

(* Nor does it go unanswered while the socket is open, AUTHENTICATE's      *)
(* continuation request aside.                                             *)
THEOREM EndsAreAnswered == Spec => []NoSilentEnd
<1>1. IInv => NoSilentEnd
  BY DEF IInv
<1> QED BY <1>1, Inductive, PTL

(* A command that is over after the socket has ended adds no reply.        *)
THEOREM SilentAfterEnd == Spec => NoWriteAfterEnd
<1>1. ASSUME IInv, Next, socket # "open", NEW t \in Slots
      PROVE  run'[t].replies <= run[t].replies
  <2>1. run \in [Slots -> Executions] /\ run[t].replies \in Nat
    BY <1>1 DEF IInv, TypeOK, Executions
  <2>2. CASE DisturbedEffect
    BY <2>1, <2>2 DEF DisturbedEffect
  <2>3. ASSUME NEW s \in Slots, NEW e \in Executions, SlotStep(s, e)
        PROVE  run'[t].replies <= run[t].replies
    <3>1. PICK r \in Executions : run' = [run EXCEPT ![s] = r] /\ r.replies <= e.replies
      BY <1>1, <2>3 DEF SlotStep, StepEffect, SlotEffect
    <3>2. r.replies \in Nat /\ e.replies = 0
      BY <2>3 DEF SlotStep, Executions
    <3>3. run'[t] = IF t = s THEN r ELSE run[t]
      BY <2>1, <3>1
    <3> QED BY <2>1, <3>1, <3>2, <3>3
  <2> QED BY <1>1, <2>2, <2>3, StepShape
<1>2. IInv /\ [Next]_connectionVars
        => [socket # "open" => \A s \in Slots : run'[s].replies <= run[s].replies]_connectionVars
  BY <1>1
<1> QED BY <1>2, Inductive, PTL DEF Spec, NoWriteAfterEnd
=============================================================================
