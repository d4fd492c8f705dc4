----------------------------- MODULE Connection -----------------------------
(***************************************************************************)
(* One client connection (Connection.ts) and the command handlers it runs  *)
(* (Commands/, CommandHandlers/).  Node.js is single threaded, so an action*)
(* is one turn of the event loop: a data event up to the first await that  *)
(* really waits, or the continuation of a command whose remote call was    *)
(* settled.  Commands interleave at their awaits, and all of them share    *)
(* the fields of the connection: its state, user, mailbox, useUID flag,    *)
(* current command and error counts.                                       *)
(*                                                                         *)
(* A remote call is settled at most once and with an answer or a rejection *)
(* (module RpcCall): a command waiting for it is woken at most once.       *)
(***************************************************************************)
EXTENDS Naturals

CONSTANTS
  Slots,                  \* bounds the commands in flight: each occupies one
  Users, NoUser,          \* the user names but the empty one; NoUser is the empty string
  DriverlessUsers,        \* the users of the driverless database
  Mailboxes, INBOX,
  Commands,               \* the command names this client sends
  RequiringAuthorization, \* imap_server_commands_requiring_authorization
  SimpleAuthorization,    \* simple_authorization
  Limit,                  \* the count above which each error closes
  Faults,                 \* the kinds of unreadable input this client sends
  BrokerMayFail,          \* whether the broker's channel may close
  Nothing                 \* what is missing: a command, an argument, a field

Counters == {"authenticationAttempts", "authorizationFailures",
             "invalidStateErrors", "tagReadFailures", "badArgumentFailures",
             "unknownCommandsAttempted", "commandExecutionErrors"}

ASSUME ConnectionAssumption ==
  /\ NoUser \notin Users
  /\ DriverlessUsers \subseteq Users \cup {NoUser}
  /\ INBOX \in Mailboxes
  /\ Nothing \notin Users \cup {NoUser} \cup Mailboxes
  /\ Limit \in [Counters -> Nat]
  /\ SimpleAuthorization \in BOOLEAN
  /\ BrokerMayFail \in BOOLEAN

VARIABLES
  server,            \* the process: serving, brokerless (its channel is closed), down
  socket,            \* open, ended (by close()) or closed
  state,             \* connection.state
  authenticatedUser,
  currentlySelectedMailbox,
  hasWritePermission,  \* ...OnCurrentlySelectedMailbox
  useUID,
  currentCommand,    \* the command whose lexemes are being collected, or Nothing
  count,             \* the error counters
  stage,             \* of each slot: where its command is waiting
  run,               \* of each slot: the local variables of executeCommand()
  confirmed          \* history: the names some authenticator has vouched for, "" included

session == <<state, authenticatedUser, currentlySelectedMailbox, hasWritePermission, confirmed>>
connectionVars == <<server, socket, session, useUID, currentCommand, count, stage, run>>

States == {"NOT_AUTHENTICATED", "AUTHENTICATED", "SELECTED", "LOGOUT"}
Waiting == {"authorizing", "authenticating", "hashing", "executing"}
Stages == {"idle", "done"} \cup Waiting
Arguments == Users \cup {NoUser} \cup Mailboxes \cup {Nothing}

(* A command being executed: its name, whether the client wrote UID before *)
(* it, the argument its handler keeps, whether an authorizer let it pass,  *)
(* the user and useUID its request was published with, and the number of   *)
(* tagged replies written for it.                                          *)
Executions ==
  [command : Commands \cup {Nothing}, uid : BOOLEAN, argument : Arguments,
   authorized : BOOLEAN, user : Users \cup {NoUser}, sentUID : BOOLEAN, replies : Nat]

(* Of the arguments, LOGIN's user and SELECT's and EXAMINE's mailbox are   *)
(* kept: they are used after the await.                                    *)
ArgumentsOf(c) ==
  IF c = "LOGIN" THEN Users \cup {NoUser}
  ELSE IF c \in {"SELECT", "EXAMINE"} THEN Mailboxes ELSE {Nothing}

Received ==
  {r \in [command : Commands, uid : BOOLEAN, argument : Arguments] :
     r.argument \in ArgumentsOf(r.command)}

TypeOK ==
  /\ server \in {"serving", "brokerless", "down"}
  /\ socket \in {"open", "ended", "closed"}
  /\ state \in States
  /\ authenticatedUser \in Users \cup {NoUser}
  /\ currentlySelectedMailbox \in Mailboxes
  /\ hasWritePermission \in BOOLEAN
  /\ useUID \in BOOLEAN
  /\ currentCommand \in Received \cup {Nothing}
  /\ count \in [Counters -> Nat]
  /\ stage \in [Slots -> Stages]
  /\ run \in [Slots -> Executions]
  /\ confirmed \subseteq Users \cup {NoUser}

-----------------------------------------------------------------------------
(* The command plugins and their handlers: the states a command may execute*)
(* in, what its handler does, and its traits:                              *)
(*   literal  its arguments may hold a literal, hence arrive in two parts  *)
(*   counts   it refuses a wrong number of lexemes before it publishes     *)
(*   throws   it throws at arguments it does not know before it publishes  *)
(*   uid      it publishes useUID                                          *)
(*   catches  it reads the reply inside a try block of its own             *)
(*   deaf     it does not look at the reply at all                         *)

Plugin(acceptable, does, traits) ==
  [acceptable |-> acceptable, does |-> does, traits |-> traits]

NotAuthenticated == {"NOT_AUTHENTICATED"}
Authenticated == {"AUTHENTICATED"}
InMailbox == {"SELECTED"}

CAPABILITY   == Plugin(States, "reply", {})
NOOP         == Plugin(States, "reply", {})
LOGOUT       == Plugin(States, "logout", {})
STARTTLS     == Plugin(NotAuthenticated, "reply", {})
HEALTHCHECK  == Plugin(NotAuthenticated, "reply", {})
LOGIN        == Plugin(NotAuthenticated, "authenticate", {"literal"})
AUTHENTICATE == Plugin(NotAuthenticated, "authenticate", {})

CONFIGURATION == Plugin(Authenticated, "reply", {})
CONNECTIONS   == Plugin(Authenticated, "reply", {})
STATISTICS    == Plugin(Authenticated, "reply", {})
ERROR         == Plugin(Authenticated, "throw", {})

SELECT      == Plugin(Authenticated, "publish", {"literal", "counts"})
EXAMINE     == Plugin(Authenticated, "publish", {"literal", "counts"})
CREATE      == Plugin(Authenticated, "publish", {"literal", "counts"})
DELETE      == Plugin(Authenticated, "publish", {"literal", "counts"})
RENAME      == Plugin(Authenticated, "publish", {"literal", "counts"})
SUBSCRIBE   == Plugin(Authenticated, "publish", {"literal", "counts"})
UNSUBSCRIBE == Plugin(Authenticated, "publish", {"literal", "counts"})
LIST        == Plugin(Authenticated, "publish", {"literal", "counts", "catches"})
LSUB        == Plugin(Authenticated, "publish", {"literal", "counts", "catches"})
STATUS      == Plugin(Authenticated, "publish", {"literal", "counts", "throws", "catches"})
APPEND      == Plugin(Authenticated, "publish", {"literal", "counts", "throws", "catches"})
FETCH       == Plugin(Authenticated, "publish", {"counts", "uid", "catches"})

simpleSelectedMailbox == Plugin(InMailbox, "publish", {})
CHECK   == simpleSelectedMailbox
CLOSE   == simpleSelectedMailbox
EXPUNGE == Plugin(InMailbox, "publish", {"catches"})
SEARCH  == Plugin(InMailbox, "publish", {"literal", "throws"})
STORE   == Plugin(InMailbox, "publish", {"counts", "uid", "deaf"})
COPY    == Plugin(InMailbox, "publish", {"literal", "counts", "uid"})

commandPlugins ==
  [CAPABILITY |-> CAPABILITY, NOOP |-> NOOP, LOGOUT |-> LOGOUT, STARTTLS |-> STARTTLS,
   HEALTHCHECK |-> HEALTHCHECK, LOGIN |-> LOGIN, AUTHENTICATE |-> AUTHENTICATE,
   CONFIGURATION |-> CONFIGURATION, CONNECTIONS |-> CONNECTIONS, STATISTICS |-> STATISTICS,
   ERROR |-> ERROR, SELECT |-> SELECT, EXAMINE |-> EXAMINE, CREATE |-> CREATE,
   DELETE |-> DELETE, RENAME |-> RENAME, SUBSCRIBE |-> SUBSCRIBE,
   UNSUBSCRIBE |-> UNSUBSCRIBE, LIST |-> LIST, LSUB |-> LSUB, STATUS |-> STATUS,
   APPEND |-> APPEND, FETCH |-> FETCH, CHECK |-> CHECK, CLOSE |-> CLOSE,
   EXPUNGE |-> EXPUNGE, SEARCH |-> SEARCH, STORE |-> STORE, COPY |-> COPY]

Known(c) == c \in DOMAIN commandPlugins
(* Mutant: the states, which are ascending powers of two, compared by <=.  *)
StateRank == [NOT_AUTHENTICATED |-> 1, AUTHENTICATED |-> 2, SELECTED |-> 4, LOGOUT |-> 8]
MayExecuteFrom(c, st) ==
  \E a \in commandPlugins[c].acceptable : StateRank[a] <= StateRank[st]

MayExecute(c, st) == st \in commandPlugins[c].acceptable
Does(c, what)  == Known(c) /\ commandPlugins[c].does = what
Has(c, trait) == Known(c) /\ trait \in commandPlugins[c].traits

(* The commands checked for authorization unless configured otherwise.     *)
DefaultRequiringAuthorization == {"CREATE", "DELETE", "RENAME", "COPY", "CLOSE"}

NeedsAuthorization(c) == ~SimpleAuthorization /\ c \in RequiringAuthorization

-----------------------------------------------------------------------------
(* Writing, counting, closing.                                             *)

(* Mutant: writes without the check of socket.writable.                    *)
AlwaysWritable == TRUE

(* socket.writable: every write is guarded by it.                          *)
Writable == socket = "open"
Answered(e) == [e EXCEPT !.replies = IF Writable THEN @ + 1 ELSE @]

(* close() is socket.end(): nothing more can be written, but the peer's    *)
(* data still arrives until it closes its own side.                        *)
Ended(s) == IF s = "open" THEN "ended" ELSE s

(* The logger publishes every event over the broker's channel, and throws  *)
(* once that is closed.                                                    *)
LogWorks == server = "serving"

(* Mutant: the limit compared before it is exceeded by this error.         *)
ExceedsLate(k) == count[k] > Limit[k]

(* Counters stop one above their limit: the code only compares with it.    *)
Exceeds(k) == count[k] >= Limit[k]
Bumped(k) == [count EXCEPT ![k] = IF @ > Limit[k] THEN @ ELSE @ + 1]

(* Count an error and close the connection above the limit.                *)
Penalize(k) ==
  /\ count' = Bumped(k)
  /\ socket' = IF Exceeds(k) THEN Ended(socket) ELSE socket

Frame(c, u, a, n) ==
  [command |-> c, uid |-> u, argument |-> a, authorized |-> FALSE,
   user |-> NoUser, sentUID |-> FALSE, replies |-> n]
Fresh(c, u, a) == Frame(c, u, a, 0)

(* executeCommand() returns: only its replies are remembered.              *)
Return(s, e) ==
  /\ stage' = [stage EXCEPT ![s] = "done"]
  /\ run' = [run EXCEPT ![s] = Frame(e.command, FALSE, Nothing, e.replies)]

Wait(s, e, where) ==
  /\ stage' = [stage EXCEPT ![s] = where]
  /\ run' = [run EXCEPT ![s] = e]

-----------------------------------------------------------------------------
(* The end of a callback.  cur is currentCommand by the time it runs.      *)

(* The callback threw: the current command, whichever it is by now, is     *)
(* dropped, and the client is told OK.  The logger runs before the count.  *)
Throw(s, e, cur) ==
  /\ currentCommand' = Nothing
  /\ Return(s, Answered(e))
  /\ IF LogWorks THEN Penalize("commandExecutionErrors") ELSE UNCHANGED <<count, socket>>
  /\ useUID' = FALSE

(* Mutant: executeCommand() acknowledges what the callback already has.    *)
ConcludeAnswering(s, e, cur) ==
  IF LogWorks
  THEN /\ Return(s, Answered(e))
       /\ currentCommand' = cur
       /\ useUID' = FALSE
       /\ UNCHANGED <<count, socket>>
  ELSE Throw(s, e, cur)

(* The callback returned.  Logging that is part of the same try block: if  *)
(* it throws, the catch block replies a second time.                       *)
Conclude(s, e, cur) ==
  IF LogWorks
  THEN /\ Return(s, e)
       /\ currentCommand' = cur
       /\ useUID' = FALSE
       /\ UNCHANGED <<count, socket>>
  ELSE Throw(s, e, cur)

-----------------------------------------------------------------------------
(* The part of each handler up to its first await.  flag is useUID.        *)

StartImmediate(s, e, cur) ==
  /\ Does(e.command, "reply")
  /\ Conclude(s, Answered(e), cur)
  /\ UNCHANGED session

StartError(s, e, cur) ==
  /\ Does(e.command, "throw")
  /\ Throw(s, e, cur)
  /\ UNCHANGED session

(* The socket is no longer writable when the log that follows throws.      *)
StartLogout(s, e, cur) ==
  /\ Does(e.command, "logout")
  /\ state' = "LOGOUT"
  /\ authenticatedUser' = NoUser
  /\ socket' = Ended(socket)
  /\ Return(s, Answered(e))
  /\ currentCommand' = IF LogWorks THEN cur ELSE Nothing
  /\ useUID' = FALSE
  /\ UNCHANGED <<count, currentlySelectedMailbox, hasWritePermission, confirmed>>

(* Mutant: no close().                                                     *)
TooManyAttemptsIgnored(s, e, cur) ==
  /\ Exceeds("authenticationAttempts")
  /\ count' = Bumped("authenticationAttempts")
  /\ useUID' = FALSE
  /\ UNCHANGED socket
  /\ Return(s, e) /\ currentCommand' = cur

(* The fourth attempt closes the connection without a tagged reply; the    *)
(* warning is logged before that.                                          *)
TooManyAttempts(s, e, cur) ==
  /\ Exceeds("authenticationAttempts")
  /\ count' = Bumped("authenticationAttempts")
  /\ useUID' = FALSE
  /\ IF LogWorks
     THEN socket' = Ended(socket) /\ Return(s, e) /\ currentCommand' = cur
     ELSE UNCHANGED socket /\ Return(s, Answered(e)) /\ currentCommand' = Nothing

(* LOGIN of a driverless user returns at once and leaves the hash pending, *)
(* any other attempt awaits the authentication driver.                     *)
AttemptAuthentication(s, e, cur, flag) ==
  /\ ~Exceeds("authenticationAttempts")
  /\ count' = Bumped("authenticationAttempts")
  /\ UNCHANGED socket
  /\ CASE e.command = "LOGIN" /\ ~LogWorks ->
            Return(s, Answered(e)) /\ currentCommand' = Nothing /\ useUID' = FALSE
       [] e.command = "LOGIN" /\ LogWorks /\ e.argument \in DriverlessUsers ->
            Wait(s, e, "hashing") /\ currentCommand' = cur /\ useUID' = FALSE
       [] OTHER ->
            Wait(s, e, "authenticating") /\ currentCommand' = cur /\ useUID' = flag

StartAuthentication(s, e, cur, flag) ==
  /\ Does(e.command, "authenticate")
  /\ TooManyAttempts(s, e, cur) \/ AttemptAuthentication(s, e, cur, flag)
  /\ UNCHANGED session

(* Publish the command with the user and the UID flag of this moment.      *)
StartStorage(s, e, cur, flag) ==
  /\ Does(e.command, "publish")
  /\ Wait(s, [e EXCEPT !.user = authenticatedUser, !.sentUID = flag], "executing")
  /\ currentCommand' = cur
  /\ useUID' = flag
  /\ UNCHANGED <<session, count, socket>>

RefuseArguments(s, e, cur) ==
  /\ Has(e.command, "counts")
  /\ Conclude(s, Answered(e), cur)
  /\ UNCHANGED session

ThrowAtArguments(s, e, cur) ==
  /\ Has(e.command, "throws")
  /\ Throw(s, e, cur)
  /\ UNCHANGED session

StartCallback(s, e, cur, flag) ==
  \/ StartImmediate(s, e, cur)
  \/ StartError(s, e, cur)
  \/ StartLogout(s, e, cur)
  \/ StartAuthentication(s, e, cur, flag)
  \/ StartStorage(s, e, cur, flag)
  \/ RefuseArguments(s, e, cur)
  \/ ThrowAtArguments(s, e, cur)

-----------------------------------------------------------------------------
(* executeCommand() up to its first await, in slot s.                      *)

(* Mutant: the error is logged and counted, but not written.               *)
RefuseSilently(s, e, k, cur, flag) ==
  /\ Return(s, e)
  /\ IF LogWorks THEN Penalize(k) ELSE UNCHANGED <<count, socket>>
  /\ currentCommand' = cur
  /\ useUID' = flag
  /\ UNCHANGED session

(* A refusal replies, is logged, and only then counted.                    *)
Refuse(s, e, k, cur, flag) ==
  /\ Return(s, Answered(e))
  /\ IF LogWorks THEN Penalize(k) ELSE UNCHANGED <<count, socket>>
  /\ currentCommand' = cur
  /\ useUID' = flag
  /\ UNCHANGED session

RefuseUnknown(s, e, cur, flag) ==
  /\ ~Known(e.command)
  /\ Refuse(s, e, "unknownCommandsAttempted", cur, flag)

RefuseWrongState(s, e, cur, flag) ==
  /\ Known(e.command) /\ ~MayExecute(e.command, state)
  /\ Refuse(s, e, "invalidStateErrors", cur, flag)

AskAuthorizer(s, e, cur, flag) ==
  /\ Known(e.command) /\ MayExecute(e.command, state)
  /\ NeedsAuthorization(e.command)
  /\ Wait(s, e, "authorizing")
  /\ currentCommand' = cur
  /\ useUID' = flag
  /\ UNCHANGED <<session, count, socket>>

(* Mutant: no return after the refusal of a command in the wrong state.    *)
ExecuteInAnyState(s, e, cur, flag) ==
  /\ Known(e.command)
  /\ ~NeedsAuthorization(e.command)
  /\ StartCallback(s, e, cur, flag)

ExecuteAtOnce(s, e, cur, flag) ==
  /\ Known(e.command) /\ MayExecute(e.command, state)
  /\ ~NeedsAuthorization(e.command)
  /\ StartCallback(s, e, cur, flag)

(* respondToLexeme(): END_OF_COMMAND clears the current command before the *)
(* callback gets to run, NEWLINE (AUTHENTICATE only) leaves it in place.   *)
ExecuteCommand(s, r, flag) ==
  /\ server # "down"
  /\ stage[s] \in {"idle", "done"}
  /\ LET e   == Fresh(r.command, r.uid, r.argument)
         cur == IF r.command = "AUTHENTICATE" THEN r ELSE Nothing
     IN  \/ RefuseUnknown(s, e, cur, flag)
         \/ RefuseWrongState(s, e, cur, flag)
         \/ AskAuthorizer(s, e, cur, flag)
         \/ ExecuteAtOnce(s, e, cur, flag)
  /\ UNCHANGED server

-----------------------------------------------------------------------------
(* Data from the client: socketDataHandler() and lexemeStream().           *)

Readable == server # "down" /\ socket # "closed"

(* A command line that is complete.  Reading UID sets useUID at once.      *)
ReceiveCommand(s) ==
  /\ Readable
  /\ currentCommand = Nothing
  /\ \E c \in Commands, u \in BOOLEAN : \E a \in ArgumentsOf(c) :
       ExecuteCommand(s, [command |-> c, uid |-> u, argument |-> a], useUID \/ u)

(* A command line up to the length of a literal: a continuation request is *)
(* written and the lexemes read so far stay in currentCommand.             *)
ReceiveUpToLiteral ==
  /\ Readable
  /\ currentCommand = Nothing
  /\ \E c \in {k \in Commands : Has(k, "literal")}, u \in BOOLEAN : \E a \in ArgumentsOf(c) :
       /\ currentCommand' = [command |-> c, uid |-> u, argument |-> a]
       /\ useUID' = (useUID \/ u)
  /\ UNCHANGED <<server, socket, session, count, stage, run>>

(* The literal and the end of the line, or, for AUTHENTICATE, the next line*)
(* of the exchange: executed again, under the same tag.                    *)
ReceiveRest(s) ==
  /\ Readable
  /\ currentCommand # Nothing
  /\ ExecuteCommand(s, currentCommand, useUID)

(* The arguments of r cannot be lexed: BAD, and the command is dropped.    *)
(* When the logger throws, the connection is closed instead, and the       *)
(* lexemes of r are kept.                                                  *)
ReceiveBadArguments ==
  /\ Readable
  /\ "badArguments" \in Faults
  /\ \E r \in Received :
       /\ Known(r.command)
       /\ currentCommand # Nothing => r = currentCommand
       /\ useUID' = (useUID \/ (r.uid /\ currentCommand = Nothing))
       /\ IF LogWorks
          THEN Penalize("badArgumentFailures") /\ currentCommand' = Nothing
          ELSE socket' = Ended(socket) /\ UNCHANGED count /\ currentCommand' = r
  /\ UNCHANGED <<server, session, stage, run>>

(* No tag can be read: the line is skipped.                                *)
ReceiveBadTag ==
  /\ Readable
  /\ "badTag" \in Faults
  /\ currentCommand = Nothing
  /\ Penalize("tagReadFailures")
  /\ UNCHANGED <<server, session, useUID, currentCommand, stage, run>>

(* Anything else that cannot be read: BAD, and the connection is closed.   *)
ReceiveUnreadable ==
  /\ Readable
  /\ "unreadable" \in Faults
  /\ socket' = Ended(socket)
  /\ UNCHANGED <<server, session, useUID, currentCommand, count, stage, run>>

-----------------------------------------------------------------------------
(* The authorizer's answer, in a later turn.                               *)

(* Mutant: what is awaited is dropped with the socket.                     *)
AwaitingWhileOpen(s, where) == server # "down" /\ socket = "open" /\ stage[s] = where

Awaiting(s, where) == server # "down" /\ stage[s] = where
Answering(s, where) == server = "serving" /\ stage[s] = where

AuthorizationGranted(s) ==
  /\ Answering(s, "authorizing")
  /\ StartCallback(s, [run[s] EXCEPT !.authorized = TRUE], currentCommand, useUID)
  /\ UNCHANGED server

(* Mutant: no return after the refusal.                                    *)
DeniedButExecuted(s) ==
  /\ Answering(s, "authorizing")
  /\ StartCallback(s, run[s], currentCommand, useUID)
  /\ UNCHANGED server

AuthorizationDenied(s) ==
  /\ Answering(s, "authorizing")
  /\ Refuse(s, run[s], "authorizationFailures", currentCommand, useUID)
  /\ UNCHANGED server

(* Timed out, malformed, without a boolean "authorized", or not published. *)
AuthorizationFailed(s) ==
  /\ Awaiting(s, "authorizing")
  /\ Return(s, Answered(run[s]))
  /\ UNCHANGED <<server, socket, session, useUID, currentCommand, count>>

-----------------------------------------------------------------------------
(* The authentication driver's answer, and the driverless hash.            *)

(* authenticatedUser is Nothing if it is missing or no string.             *)
AuthenticationReplies == [done : BOOLEAN, authenticatedUser : Users \cup {NoUser, Nothing}]

(* Mutant: the user is read from an answer that is not done.               *)
NamesAUser(r) == r.authenticatedUser # Nothing

(* authenticatedUser is only read when done is true, and any string will   *)
(* do: a driver that is done with the empty name logs the client in.       *)
Authenticates(r) == r.done /\ r.authenticatedUser # Nothing

(* Mutant: the user is read from a field the answer does not have.         *)
LogInUndefined(u) ==
  /\ authenticatedUser' = Nothing
  /\ state' = "AUTHENTICATED"

LogIn(u) ==
  /\ authenticatedUser' = u
  /\ state' = "AUTHENTICATED"

(* Mutant: a failed attempt forgets the user, as its state has none.       *)
RejectForgetting == authenticatedUser' = NoUser /\ UNCHANGED state

(* A failed attempt writes NO and leaves the session alone: another one may*)
(* have succeeded in the meantime.                                         *)
Reject == UNCHANGED <<state, authenticatedUser>>

(* Without done, LOGIN fails while AUTHENTICATE writes a continuation; with*)
(* it, AUTHENTICATE clears the current command.                            *)
AuthenticationReplied(s) ==
  /\ Answering(s, "authenticating")
  /\ \E r \in AuthenticationReplies :
       /\ IF Authenticates(r) THEN LogIn(r.authenticatedUser) ELSE Reject
       /\ confirmed' = confirmed \cup (IF r.done THEN {r.authenticatedUser} \ {Nothing} ELSE {})
       /\ LET login == run[s].command = "LOGIN" IN
          Conclude(s, IF r.done \/ login THEN Answered(run[s]) ELSE run[s],
                      IF r.done /\ ~login THEN Nothing ELSE currentCommand)
  /\ UNCHANGED <<server, currentlySelectedMailbox, hasWritePermission>>

(* Timed out, malformed, or without a "done" field.                        *)
AuthenticationFailed(s) ==
  /\ Awaiting(s, "authenticating")
  /\ Throw(s, run[s], currentCommand)
  /\ UNCHANGED <<server, session>>

(* passwordHash() was not awaited: executeCommand() is over by now.        *)
HashComputed(s) ==
  /\ Awaiting(s, "hashing")
  /\ \E match \in BOOLEAN :
       IF match
       THEN LogIn(run[s].argument) /\ confirmed' = confirmed \cup {run[s].argument}
       ELSE Reject /\ UNCHANGED confirmed
  /\ Return(s, Answered(run[s]))
  /\ UNCHANGED <<server, socket, currentlySelectedMailbox, hasWritePermission, useUID, currentCommand, count>>

-----------------------------------------------------------------------------
(* The storage driver's answer.  "ok" is what the handler takes for a      *)
(* success, "bad" a JSON value that is not an object.                      *)

StorageReplies == {"ok", "notok", "bad"}

(* Reading a field of a reply that is no object throws.                    *)
Throws(c, r) == r = "bad" /\ ~Has(c, "catches") /\ ~Has(c, "deaf")

Selected(e) ==
  /\ currentlySelectedMailbox' = e.argument
  /\ hasWritePermission' = TRUE
  /\ state' = "SELECTED"

(* Mutant: EXAMINE enters the selected state, as SELECT does.              *)
ExaminedAsSelected(e) ==
  /\ currentlySelectedMailbox' = e.argument
  /\ hasWritePermission' = FALSE
  /\ state' = "SELECTED"

(* Mutant: EXAMINE leaves the permission as SELECT and login found it.     *)
ExaminedWritable(e) ==
  /\ currentlySelectedMailbox' = e.argument
  /\ UNCHANGED <<state, hasWritePermission>>

(* EXAMINE does not leave the authenticated state.                         *)
Examined(e) ==
  /\ currentlySelectedMailbox' = e.argument
  /\ hasWritePermission' = FALSE
  /\ UNCHANGED state

ApplyReply(e, r) ==
  CASE r = "ok" /\ e.command = "SELECT"  -> Selected(e)
    [] r = "ok" /\ e.command = "EXAMINE" -> Examined(e)
    [] OTHER -> UNCHANGED <<state, currentlySelectedMailbox, hasWritePermission>>

CommandReplied(s) ==
  /\ Answering(s, "executing")
  /\ \E r \in StorageReplies :
       /\ ApplyReply(run[s], r)
       /\ IF Throws(run[s].command, r)
          THEN Throw(s, run[s], currentCommand)
          ELSE Conclude(s, Answered(run[s]), currentCommand)
  /\ UNCHANGED <<server, authenticatedUser, confirmed>>

(* Timed out, malformed or not published.                                  *)
CommandFailed(s) ==
  /\ Awaiting(s, "executing")
  /\ Throw(s, run[s], currentCommand)
  /\ UNCHANGED <<server, session>>

-----------------------------------------------------------------------------
(* The socket and the process.                                             *)

(* An exception in an event handler of the socket ends the process.        *)
SurvivesLogging == server' = IF LogWorks THEN server ELSE "down"

SocketTimeout ==
  /\ Readable
  /\ socket' = Ended(socket)
  /\ SurvivesLogging
  /\ UNCHANGED <<session, useUID, currentCommand, count, stage, run>>

SocketClose ==
  /\ Readable
  /\ socket' = "closed"
  /\ SurvivesLogging
  /\ UNCHANGED <<session, useUID, currentCommand, count, stage, run>>

(* External: the broker, or a graceful shutdown, closes the channel.       *)
ChannelCloses ==
  /\ BrokerMayFail /\ server = "serving"
  /\ server' = "brokerless"
  /\ UNCHANGED <<socket, session, useUID, currentCommand, count, stage, run>>

-----------------------------------------------------------------------------
Init ==
  /\ server = "serving"
  /\ socket = "open"
  /\ state = "NOT_AUTHENTICATED"
  /\ authenticatedUser = NoUser
  /\ currentlySelectedMailbox = INBOX
  /\ hasWritePermission = TRUE
  /\ useUID = FALSE
  /\ currentCommand = Nothing
  /\ count = [k \in Counters |-> 0]
  /\ stage = [s \in Slots |-> "idle"]
  /\ run = [s \in Slots |-> Fresh(Nothing, FALSE, Nothing)]
  /\ confirmed = {}

Receive(s) == ReceiveCommand(s) \/ ReceiveRest(s)
Settled(s) ==
  \/ AuthorizationGranted(s) \/ AuthorizationDenied(s) \/ AuthorizationFailed(s)
  \/ AuthenticationReplied(s) \/ AuthenticationFailed(s)
  \/ HashComputed(s)
  \/ CommandReplied(s) \/ CommandFailed(s)
Disturbed ==
  \/ ReceiveUpToLiteral \/ ReceiveBadArguments \/ ReceiveBadTag \/ ReceiveUnreadable
  \/ SocketTimeout \/ SocketClose \/ ChannelCloses

Next == (\E s \in Slots : Receive(s) \/ Settled(s)) \/ Disturbed

(* Every remote call is settled by its timer at the latest, and the hash is*)
(* computed: that is all the code can promise.  The client owes nothing.   *)
Fairness == \A s \in Slots : WF_connectionVars(Settled(s))

Spec     == Init /\ [][Next]_connectionVars
FairSpec == Spec /\ Fairness

-----------------------------------------------------------------------------
(* Properties.                                                             *)

(* Whoever has exceeded a limit has lost the connection, whichever of the  *)
(* commands in flight exceeded it (as long as the logger works: a failing  *)
(* logger skips the close).                                                *)
OverLimitCloses ==
  server = "serving" => \A k \in Counters : count[k] > Limit[k] => socket # "open"

(* The connection's user is always one that an authentication driver that  *)
(* was done, or the driverless database, vouched for on this connection.   *)
UserIsConfirmed == authenticatedUser # NoUser => authenticatedUser \in confirmed

(* An open connection is logged in exactly under a name that was vouched   *)
(* for, and never in LOGOUT, which ends the socket: neither a failed nor a *)
(* late attempt, nor a selection that was waiting meanwhile, takes a user's*)
(* session apart.                                                          *)
SessionIsConfirmed ==
  socket = "open" =>
    /\ state # "LOGOUT"
    /\ IF state = "NOT_AUTHENTICATED"
       THEN authenticatedUser = NoUser
       ELSE authenticatedUser \in confirmed

(* A command that requires authorization reaches its handler's remote call *)
(* only if an authorizer let this very execution pass.                     *)
AuthorizedBeforeHandled ==
  \A s \in Slots :
    /\ stage[s] \in {"executing", "authenticating", "hashing"}
    /\ ~SimpleAuthorization /\ run[s].command \in RequiringAuthorization
    => run[s].authorized

(* No execution is answered twice under its tag while the broker's channel *)
(* is open (once it is closed, the log inside the try block throws and the *)
(* catch block answers again).                                             *)
AtMostOneReply == server = "serving" => \A s \in Slots : run[s].replies <= 1

(* No execution ends in silence while the client can still be answered,    *)
(* but for AUTHENTICATE, which may end in a continuation request.          *)
NoSilentEnd ==
  socket = "open" =>
    \A s \in Slots : stage[s] = "done" /\ run[s].command # "AUTHENTICATE" => run[s].replies >= 1

(* concurrency.md: a command that finishes after LOGOUT, a timeout or an   *)
(* excess of errors has ended the socket writes nothing to it.             *)
NoWriteAfterEnd ==
  [][socket # "open" => \A s \in Slots : run'[s].replies <= run[s].replies]_connectionVars

(* Every command that waits is eventually over.                            *)
EveryCommandEnds ==
  \A s \in Slots : stage[s] \in Waiting ~> stage[s] = "done" \/ server = "down"

(* What holds of a client that waits for each reply before it goes on (one *)
(* slot), and need not hold of one that pipelines.                         *)

(* The selected state is never combined with a read-only mailbox: EXPUNGE  *)
(* and STORE, allowed in that state, do not look at the permission.        *)
SelectedIsWritable == state = "SELECTED" => hasWritePermission

(* No late reply brings a connection back from LOGOUT.                     *)
LogoutIsFinal == [][state = "LOGOUT" => state' = "LOGOUT"]_connectionVars

(* "Check that the command may be executed in this state": the state a     *)
(* storage command is published in is one its plugin accepts.              *)
ExecutedInAcceptableState ==
  [][\A s \in Slots :
       stage[s] # "executing" /\ stage'[s] = "executing"
         => MayExecute(run'[s].command, state)]_connectionVars

(* The session as its client may think of it: one command at a time, each  *)
(* taking effect in one step, however many remote calls it waits for.      *)
Running ==
  {[command |-> run[s].command, argument |-> run[s].argument] : s \in {t \in Slots : stage[t] \in Waiting}}

SerialSession == INSTANCE Session WITH running <- Running

(* A command changes the session only when it ends, in the state it was    *)
(* accepted in, and SELECT and EXAMINE leave the mailbox they were sent    *)
(* with (executeCommand() and the continuations of the handlers).          *)
ImplementsSession == SerialSession!Spec

(* A command that the storage driver still has to answer was published for *)
(* the user the session still has, and that name, empty or not, was        *)
(* vouched for.                                                            *)
PublishedForTheUser ==
  \A s \in Slots : stage[s] = "executing" =>
    run[s].user = authenticatedUser /\ authenticatedUser \in confirmed

(* A command is published with useUID exactly if the client wrote UID      *)
(* before it.                                                              *)
UIDAsRequested ==
  \A s \in Slots : stage[s] = "executing" /\ Has(run[s].command, "uid")
    => run[s].sentUID = run[s].uid

(* authorization.md: LOGIN and AUTHENTICATE are among the commands checked *)
(* for authorization.                                                      *)
AuthenticationIsAuthorized ==
  \A s \in Slots : stage[s] \in {"authenticating", "hashing"} => run[s].authorized
=============================================================================
