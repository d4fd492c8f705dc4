# Wildboar IMAP Server: a TLA+ verification project

The server is a single Node.js process that speaks IMAP to clients over TCP and
delegates everything it knows to *drivers*: authentication, authorization and
storage are remote calls over RabbitMQ. What is hard about it is therefore not
storage but time: a connection goes on reading commands while earlier ones wait
for a driver, and every command of a connection shares the same few fields.

The second hard thing is where the commands come from: a byte stream that TCP cuts
anywhere, read by generators that give up and resume with the next data event.

The modules here model both: the remote call and the connection that makes it,
the scanner and the reading of commands on top of it, and the process around them.

## 1. Inventory

| Part | State it keeps | Operations | Interacts with |
| --- | --- | --- | --- |
| **Connection** (`Connection.ts`) | `state`, `authenticatedUser`, `currentlySelectedMailbox`, its write permission, `useUID`, `currentCommand`, seven error counters, the socket | handlers for data, close, error, timeout; `lexemeStream`, `respondToLexeme`, `executeCommand`, `checkAuthorization`, the write functions, `close` | scanner, command plugins, broker, logger |
| **Command handlers** (`Commands/`, `CommandHandlers/`) | none: they change the connection's | one asynchronous callback per command | connection, broker |
| **AMQP broker client** (`MessageBrokers/AMQP.ts`) | channel, one-shot listeners, timers | boot, three publish functions, consumers, close | RabbitMQ, drivers |
| **Scanner, lexemes, argument lexers** | buffer, cursor, the ignore-line flag | enqueue, skip, read functions that either advance or leave the cursor | connection |
| **Server, boot** (`Server.ts`, `index.ts`) | set of connections, driverless users | accept, hash, graceful shutdown, plugin table | all of the above |
| **Logger, configuration** | levels; environment | log, publish an event; typed getters | broker |

What makes each correct:

* *Remote call*: settled at most once, with an answer to that very call, and
  settled at all; no listener left behind. Replies are late, duplicated,
  crossed, lost; consumers are cancelled; the channel closes.
* *Connection and handlers*: a command runs only if its state allowed it and its
  own authorizer consented; the user is one that an authenticator vouched for;
  every command is answered once and ends; nothing is written after the end;
  exceeding a limit closes. Commands interleave at their awaits.
* *Scanner and lexers*: the lexemes depend on the bytes, not on how TCP split them.
* *Server*: the set of connections is the set of open sockets; a signal ends the
  process whatever is outstanding.

`PROJECT.json` lists the hazards of this code at their lines, with the
properties that cover each one.

## 2. Modules

| Module | Contents |
| --- | --- |
| `RpcCall` | the abstract one-shot call: what `MessageBroker.ts` promises |
| `MessageBroker` | `AMQP.ts`: boot, calls, timers, listeners, consumers, the end of the channel; implements `RpcCall` |
| `Connection` | execution: `executeCommand()` and all 29 command plugins |
| `Session` | the abstract session of a client that waits: one command at a time, each taking effect in one step; `Connection` implements it |
| `Scanner` | `Scanner.ts`: buffer, cursor, ignore flag and the 23 read functions |
| `CommandStream` | the abstract stream: commands are executed as sent, once, in order, all of them |
| `Intake` | `socketDataHandler`, `lexemeStream`, `respondToLexeme`, `Lexeme.ts` and the argument lexers; extends `Scanner`, implements `CommandStream` |
| `Server` | `index.ts` and `Server.ts`: configuration, boot, accepting, signals, shutdown |
| `*_proofs` | the theorems about `MessageBroker`, `Connection`, `Scanner`, `Intake` and `Server`; `Sequential_proofs`, `Session_proofs` and `Waiting_proofs`: about `Connection` and `Intake` for a client that waits for replies |
| `MC*` | the instances TLC checks |

### RpcCall and MessageBroker

`promise[c]` is the promise a caller of `publishX()` holds; `timer[c]`,
`c \in listeners` are the `setTimeout()` and the `once()` registration of its
correlation identifier. The three publish functions share a body, `Publish`: one
turn of the event loop arms the timer, registers the listener and publishes. On
a closed channel `publish()` throws inside the promise's executor, which
rejects the promise but leaves timer and listener. `TimerFires` and
`ConsumeReply` both `Emit`; a promise that is settled ignores the rest.

`requests` and `replies` are sets that only grow, so that a reply can be
delivered late, twice, out of order or never. Consumers are registered in the
order of `initialize()` and `index.ts`; `ConsumerCancelled` is the callback with
`null`. The drivers, the promise's own semantics (`Settle`) and the loss of the
channel are external and modelled from their use.

### Connection

An action is one turn of the event loop. A command in flight occupies a *slot*;
`stage[s]` says what it waits for (`authorizing`, `authenticating`, `hashing`,
`executing`) and `run[s]` holds the local variables of its `executeCommand()`.

| Action | Code |
| --- | --- |
| `ReceiveCommand`, `ReceiveRest`, `ReceiveUpToLiteral` | a complete line; the part after a literal's length or the next SASL line; a line up to a literal |
| `ReceiveBadArguments`, `ReceiveBadTag`, `ReceiveUnreadable` | the three ways to fail while lexing |
| `ExecuteCommand` with `RefuseUnknown`, `RefuseWrongState`, `AskAuthorizer`, `ExecuteAtOnce` | `executeCommand()` up to its first await that waits |
| `StartImmediate`, `StartError`, `StartLogout`, `StartAuthentication`, `StartStorage`, `RefuseArguments`, `ThrowAtArguments` | each handler up to its await |
| `AuthorizationGranted/Denied/Failed`, `AuthenticationReplied/Failed`, `HashComputed`, `CommandReplied/Failed` | the continuation when the remote call is settled |
| `Conclude`, `Throw`, `Refuse`, `Penalize` | the shared endings: log, reply, count, close, reset `useUID` |
| `SocketTimeout`, `SocketClose`, `ChannelCloses` | the environment |

The table `commandPlugins` has an entry per plugin: the states it accepts, what
its handler does and its traits (does it accept a literal, check its number of
lexemes, throw, publish `useUID`, catch exceptions on its own, ignore the reply).
A literal may split LOGIN, the mailbox commands, STATUS, APPEND and SEARCH.

Three details the code owes its behaviour to and the model keeps:

* `respondToLexeme()` calls `executeCommand()` without awaiting it and then
  clears `currentCommand`; even an immediate authorization is a microtask
  later. The endings of a callback therefore take `cur`, the `currentCommand`
  by the time they run. NEWLINE (only AUTHENTICATE yields it) leaves it in place.
* The log at `Connection.ts:378` is inside the try block of the callback. The
  logger publishes over the broker's channel, which throws once it is closed:
  the catch block then replies again. `LogWorks` is that condition.
* `LOGIN` of a driverless user does not await the hash: `executeCommand()` is
  over, and `useUID` reset, before `HashComputed`.

A user name is a member of `Users` or the empty name `NoUser`; `Nothing` stands for what
is missing. The two differ in the answer of an authentication driver: LOGIN and
AUTHENTICATE take any string `authenticatedUser` of an answer that is done, the empty
one included, and fail only if there is none. A fresh or logged out connection holds
the empty name too, so that a user alone does not tell whether it is logged in.

Abstracted: texts of replies, `commandsExecuted`, the data of untagged
responses, the lexemes of a command. Whether a wrong number of lexemes reaches
a handler that counts them, or arguments it throws at, is left open
(`RefuseArguments`, `ThrowAtArguments` are always possible), which only adds
behaviours. `Connection` takes the broker at its contract, `RpcCall`: a waiting
command is woken at most once, with an answer or a rejection. Answers need an
open channel, rejections (the timer) only a live process.

`Session` keeps the four fields of the session and `running`, the command that runs, if
any. `Connection` maps to it by its fields of the same names and `Running`: name and
argument of what waits in a slot, whatever it waits for. An authorizer's consent and the
start of the handler's own call are stutters; a command that ends is `End`, one that
never waited a stutter or `LogoutAtOnce`. The effects are translated from the assignments of
LOGIN, SELECT, EXAMINE and LOGOUT (EXAMINE does not enter the selected state); a command that is
none of these has none: CLOSE does not leave the mailbox.

### Scanner

A reader is an operator from the buffer and the cursor to an outcome (`token`,
`null` or `error`), a lexeme and the new cursor. Three shapes carry them, as in the
code: `readFixedLengthToken`, `readRun` (`readImplicitlyTerminatedToken` with the
check for zero length) and `readEnclosed` (a first byte and
`readExplicitlyTerminatedToken`). That a malformed sequence set, partial or literal
length is thrown *behind* the token is kept (`Checked`): `readAny` then tries its next
reader from there. Bytes are named by their characters, a letter may stand for
a word, and every other byte (8-bit or control) is one value.

The variables are the three fields and `arrived`, a history of all bytes. The
machine lets any reader run at any time, which is more than the lexers do; `Intake`
uses the same operators in the order of the code.

### Intake and CommandStream

`pc` is where the generator of the current data event is: `start`, `command`,
`entering` (tag and name are read), `arguments`, `trailing` (SEARCH behind its end),
or `idle` between events. Each step reads one lexeme and responds to it.

| Action | Code |
| --- | --- |
| `ReceiveData` | a data event with any part of the bytes the client may have sent |
| `SkipOverlong`, `AwaitLine` | the two early returns of `lexemeStream()` |
| `TakeTag`, `TakeCommand`, `TakeLiteral`, `SkipUnknown` | its four sections; `Fail` is the catch block of `socketDataHandler` |
| `TakeArgument` with `LexerOf`, `respondToLexeme`, `BadArguments` | `yield*` of a lexer, the response to a lexeme, the catch block around it |
| `CallbackEnds` | the end of a command's callback, by then with whatever `currentCommand` holds |

A lexer is the list of readers it tries next, given the lexemes so far. `first` tells
a resumed generator from one that goes on, where the code tells them apart (STATUS
and STORE behind a closing parenthesis, FETCH behind a section). The client is
external: it sends the lines of a script and, unless it pipelines, waits for the
continuation before a literal and for the answer behind a line (`MaySend`).
Literal lengths too large for a safe integer, which fail like `{}`, are left out.

`CommandStream` keeps `sent` and `executed`. `Intake` maps to it by its variables of
the same names: reading changes neither, `Execute` appends.

### Server

`boot` is where the main function of `index.ts` is; `queues` are the response queues
that are consumed; `handler[n]` is where the handler of a signal waits. The
environment is a function from keys to texts, read through `getString`, `getInteger`
and `OrDefault` (0 and the empty text count as unset). `CanLog` decides whether a log
statement throws; in a socket's handler that ends the process, in the asynchronous
signal handler it only ends the handler.

Assumptions about the platform: the image's Node.js 11 (`Dockerfile`), where an
unhandled rejection only warns; serialising a socket for the log succeeds.

## 3. Runs

| Run | Instance | Asks |
| --- | --- | --- |
| `broker` | 3 calls, one of each kind, a queue each; parsed or malformed bodies | all safety and liveness of the remote call, and the refinement of `RpcCall` |
| `pipelined` | 2 slots; LOGIN, SELECT, COPY, LOGOUT, AUTHENTICATE; a driven and a driverless user | what must survive any interleaving of two commands |
| `sequential` | 1 slot; ten commands, two mailboxes, two user names: one driverless, the empty one known to the drivers only | session consistency, termination and the refinement of `Session` for a client that waits for replies |
| `scanner` | every cut of up to 5 bytes out of seven chunks, one lower and one upper letter, literals of 0 and 2 bytes | the readers' contract, chunk independence, each byte once, skips |
| `intake` | 18 scripts of one to four lines, every cut into data events; all twelve lexers, literals holding CRLF, a lexeme limit of 11 | commands are executed as sent, at the end of their lines; no line is left unread |
| `server` | six environments, two plugin directories, 2 clients, 2 signals | serving, robustness, shutdown |
| `faults` | 2 slots; every kind of unreadable input, an unknown command, the channel may close | limits, an answer on every path and silence after the end under failure |
| `state_at_execution`, `uid_flag`, `authorized_login`, `sasl_response`, `back_to_back` | small instances | five disagreements between code and its comments or docs (section 5) |

Properties, by what would break them:

* `PendingHasAWayOut`, `NoListenerOutlivesItsTimer`, `EveryCallSettles`,
  `EveryListenerGoes`: a path on which a call is left with no timer, or a
  listener with nothing to remove it.
* `AnswersAreCorrelated`, `SettledForGood`, `ImplementsRpcCall`: an answer that
  settles another call or a settled one.
* `UserIsConfirmed`: a user taken from an answer that is not done, or set by an
  attempt that failed. `confirmed` is a history variable.
* `SessionIsConfirmed`: of two attempts in flight one fails, or is late, and takes the
  session of the other apart (state without its user, or a user without the state); a
  selection that brings back a session that has ended.
* `AuthorizedBeforeHandled`: one execution riding on another's authorization.
* `AtMostOneReply`, `NoSilentEnd`: between them, exactly one tagged reply for
  each execution whose client can still be answered. They hold while the
  channel is open, and AUTHENTICATE may end in a continuation request; the
  double reply on a closed channel is real, and is why the first is conditional.
* `NoWriteAfterEnd`: the promise of `documentation/concurrency.md`.
* `OverLimitCloses`: a counter that passes its limit without a close. Conditional
  on a working logger, because refusals log before they count.
* `SelectedIsWritable`, `PublishedForTheUser`, `LogoutIsFinal`,
  `ExecutedInAcceptableState`: hold for one command at a time and not for a
  pipelining client, whose late answers overwrite the session. That is the
  boundary the code actually draws: it has no per-connection queue of commands
  (`README.md:32` of the server lists the missing flag as open). What becomes of two
  in flight is the subject of `pipelined` and of `state_at_execution`, not of these.
* `ImplementsSession`: a command that changes the session before it ends, twice, in
  another state than it was accepted in, or with other arguments than its own (the
  mailbox that SELECT leaves is the one it named); a second one that begins meanwhile.
* `EveryCommandEnds`: a command that waits for nothing.
* `ReadersBehave`, `ChunksDecideNothing`, `EachByteOnce`, `SkipsToLineStart`: a
  reader that moves and returns null, that decides on a prefix, a buffer that loses
  or repeats bytes when it is compacted, a skip that ends in the middle of a line.
* `ImplementsCommandStream`: a command executed with other lexemes than were sent,
  under the wrong UID flag, twice, out of order, or never, for any cut of the bytes.
* `EveryLineRead`: a complete line left in the scanner when the event is over (it
  would be read when the client next sends, behind its back).
* `ResumesAtLineStart`: a command executed before its line has ended, or the rest
  of a refused line that is read as a command.
* `AcceptsOnlyWhenServing`, `ClientsCannotCrash`, `EveryShutdownEnds`: a client
  accepted too early or too late, a socket event nobody handles, a shutdown that
  waits for clients or for a second signal.

**Bounds.** Two slots are enough for every race between two executions, which is
all the properties speak of; `done` slots are reused, so sequences are not
bounded by the number of slots. The limits of 10 are scaled to `MaxErrors` (0 or
1) and that of 3 attempts to `MaxAttempts` (1 or 2, the pipelined client being
allowed two so that two attempts can be in flight): limits are met and exceeded.
The counters stop one above their limit because the code only compares with it;
data still arrives, and commands still run, after the close that an excess
brings about, so a low limit does not cut behaviours short. Three calls, one of
each kind, let replies overtake each other over different queues. Five bytes hold
every token that is not a sequence of like bytes, and each boundary within it; the
scripts of `intake` are chosen so that every branch of every lexer is taken, and a
line follows the bad or odd ones, so that bytes left behind would be seen. The limit
of 20 lexemes is scaled to 11 and that of 10 failures to 1. The proofs of
section 4 remove all of these bounds for the properties they cover.

**Deadlock** is not an error: a closed connection, or a process that has ended,
stops.

**Fairness.** Weak fairness of `TimerFires(c)`, because Node.js runs every timer
that is due; of `Settled(s)`, because that timer settles every remote call at
the latest and the hash is computed by the thread pool. These assume nothing of
clients, drivers or RabbitMQ. `Intake` assumes the event loop (`Read`), that
callbacks end (what `EveryCommandEnds` shows) and a client that goes on sending
what it has been given reason to send. `Server` assumes that a broker that is there
answers a request to close; a lost one is exempt.

## 4. Proofs

For all values of the constants (any calls, queues, slots, users, mailboxes,
commands, limits, bytes and clients), from assumptions on them that TLC evaluates
and that only say what kind of value each is: `BrokerAssumption` and
`ConnectionAssumption` (the outcomes are told apart, the limits are numbers),
`LettersAssumption` and `ScannerAssumption` (a letter is no other byte, a length is a
number), `IntakeAssumption` (limits and flags; only letters have an upper case),
`ClientSendsBytes` (what a client may send is a sequence of bytes), `ServerAssumption`.

`MessageBroker_proofs`: `IInv` joins the type invariant, the three stated
invariants and `RequestsWereMade` (only a call that was made has a request at
the broker), without which a driver could answer a call before it exists, which
`RpcCall` forbids. Then `TypeCorrect`, `PendingIsAwaited`,
`ListenersAreTimed`, `Correlated`, `SettledStays` and `Refinement`: each step
of the broker client is a step of `RpcCall` or a stutter, by cases on `Next`.

`Connection_proofs`: the invariants are about all slots while a step concerns
one, so the proof first condenses each action to an *effect* (`SlotEffect`,
`CountEffect`, `SharedEffect`, `IdentityEffect`): which of the stage, the reply
count, the counters and the identity it may change, and how. `StepShape` shows
every step to be a `SlotStep` or a disturbance of the socket; `SlotPreserves`
and `DisturbedPreserves` show these preserve `IInv`. `IInv` adds to the stated
invariants that a command that still waits has not been answered
(`WaitingIsUnanswered`, without which a second reply is not excluded) and still
holds the command and argument its handler goes on with (`WaitingKeepsArgument`,
without which the argument that a late hash logs in is not known to be a name, and
whoever ends with a continuation request not known to be AUTHENTICATE), and that
while a SELECT waits on an open socket the connection is logged in
(`WaitingSelectsInSession`, without which its late answer could enter a mailbox under no
confirmed name). Proved: `TypeCorrect`, `LimitsClose`, `UsersAreConfirmed`,
`SessionsAreConfirmed`, `AuthorizationFirst`, `RepliesAreSingle`, `EndsAreAnswered`, `SilentAfterEnd`.

`Scanner_proofs`: for any alphabet, chunks, lengths and number of bytes. The type
invariant follows from where each of the three shapes leaves the cursor; the
contract and chunk independence are lemmas about the shapes (the least position at
which a token or a stranger occurs does not move when bytes are appended), then one
step for each reader. `EachByteOnce` and `SkipsToLineStart` need that the unread
bytes are a tail of all that arrived unless a line is being ignored. Proved:
`ScannerTypeOK`, `AllReadersBehave`, `NoChunkDecides`, `BytesAreReadOnce`,
`SkippingEndsAtLineStart`.

`Server_proofs`: `Invariant` relates the place of the boot sequence, the queues, the
listening socket and the handlers (who listens has come to the end of the boot; a
handler that waits has closed the listening socket); from it `ClientsAreServed` and
`ClientsAreHarmless`.

`Intake_proofs`: for any client (one that pipelines, or sends any bytes at all), any
limits and any cut into data events. The inductive invariant `ReadInv` has three
parts besides what `Scanner_proofs` needs. `Types`: the lexemes of the command being
read are lexemes over the bytes, and what arrived is a part of the stream. `Places`:
what `pc` says of `currentCommand` (where arguments are read a known command is
named; behind its end SEARCH yields only spaces and brackets); a lexeme that announces
a literal is a number in braces, without which the literal's cursor is not known to
be one; FETCH's last lexeme has a type its lexer goes on with, when it resumes
within a list. `Lines`: until the arguments are read the end of the line is ahead in
the buffer, without which an unknown command is not known to be executed at a line's
end, and nothing is read while a line is being ignored. `LexerTries` says which
readers a lexer may ever try, so that a lexeme is known by what those readers return.
The lists of readers and of digits are walked by recursive functions; the lemma
`Iterates` shows that a recursion over 0..n has a solution with values of the right
kind (were there none, there would be a least index without one), which takes the place
of an induction.
Proved: `ReadInvariant`, `ReadsWellTyped`, `ConnectionReadsOnce` (`EachByteOnce` of
the whole connection), `CommandsEndWithLines` (`ResumesAtLineStart`).

`CommandsAsSent` says of every such client that nothing is executed that was not
sent. There are places in the stream for the lexemes of all executed commands: each
lexeme is the bytes at its place, one behind the other, the last before an end of a
line; and the lexemes of a later command stand behind the ends of those before it,
except that AUTHENTICATE is executed again with what was read since. The inductive
invariant `SentInv` adds places for the command being read, none behind the cursor.
A step then does one of four things to the command (`Edits`): leaves or drops it,
extends it by bytes passed in that step (a literal in place of its length included),
executes and drops it, or executes and keeps it (AUTHENTICATE only). The theorem
does not say that the lexemes of a command touch, or that its tag stands at the
start of a line, because neither is true of every client: reading goes on after an
exception in the middle of a line, on a socket that was ended, and a callback that
ends clears `currentCommand` whatever it holds.

`Sequential_proofs`: the properties of the run `sequential`, under the assumption
`OneSlot` (any two slots are equal; with two, TLC refutes each of the five: the run
`state_at_execution` shows one, a SELECT whose answer follows LOGOUT another), for any commands, users, mailboxes, limits
and faults. A turn of the one command either is over (`Over`: the session is the
same, logged out, logged in from NOT_AUTHENTICATED or has entered a mailbox from
AUTHENTICATED) or waits with the session unchanged (`Waits`); `Turns` shows every
step to be one, or to leave session and commands alone. That needs the strengthening
`WaitingIsAcceptable`: what waits is still in a state its plugin accepts, so that a
late answer to LOGIN, AUTHENTICATE, SELECT or EXAMINE is applied to the state the
command was accepted in; and `SessionAgrees`, which says of every socket what
`SessionIsConfirmed` says of an open one. Proved: `SessionsAgree`, `SelectionsAreWritable`,
`PublishersAreTheUser`, `LogoutStays`, `CheckedAtExecution`.

`Waiting_proofs`: `EveryLineRead`, the last of the invariants, for clients that wait
(`ClientWaits`): they do not pipeline; a `[`, `<` or `{` is closed on its line; they
stop at the end of every line, which leaves out literals that hold a CRLF. What they
send between is free: any number of lines, well-formed or not, over any alphabet, with
literals, cut anywhere. Without the first the run `back_to_back` refutes the property.
Nor does it hold without the second: the readers of sections, partials and literal
lengths look for their closing text only, so that an unclosed bracket makes the lexer
wait beyond the end of the line (section 5). The third is a limit of the proof, not of
the code: 14 of the 18 scripts of `intake` are such clients, the other four hold a CRLF
in a literal or send two line ends for one stop, and keep the property.

That nothing is left is not inductive: it rests on the client and the connection taking
turns (`WaitInv`). In the buffer only the line that was sent last is not read; no more
answers are given, or on their way, than the client has stopped for; and for a line in the buffer
an answer is still *due*, so that the client does not send another on top of it. While
a command runs no line is in the buffer and at most one is handed on; the generator is
where arguments are read only when an answer is due or the buffer is exhausted, and
behind the end of SEARCH only when it is exhausted. `ShortLogin` is needed because the
lexer of LOGIN would read nothing behind its sixth lexeme, and stop in the middle of a line.
The lemmas `RunWaits` to `ReadingWaits` show that a reader that waits (returns null)
does not wait on a line that is there, one per shape. From it follow `EveryLineIsRead` and
`OneCommandAtATime`: for such a client at most one command runs at a time, which is
what `OneSlot` of `Sequential_proofs` takes for granted of `Connection`.

`Session_proofs`: `SerialSessions`, the refinement of `Session` under `OneSlot`. Each
action of `Connection` either ends its command (`Ends`), with no effect or one of the
effects of `Session`, or leaves it waiting with the session and its name and argument
unchanged (`Remains`). That the effects find the state `Session` demands is
`WaitingIsAcceptable` again, and that the user is a name, be it empty,
`WaitingKeepsArgument`. With one slot the mapping is what waits in it, so that `Ends` empties it
and `Remains` keeps it: every step is `Begin`, `End`, `LogoutAtOnce` or a stutter.

Only model-checked: the refinement of `CommandStream`, and all liveness (the prover
does not reach fairness). That a line is lexed into just the lexemes its script was
written with is an induction over the lines of a script and their tokens. What is left
of it for any client is `CommandsAsSent` and `ResumesAtLineStart`. `ExecutedAsSent` in
turn quantifies over places without a bound and is only proved.

## 5. Where code and words disagree

1. `ExecutedInAcceptableState` (`Connection.ts:317`): the state is checked
   before the authorizer is awaited and not after. CREATE, then SELECT at once:
   CREATE is published in SELECTED.
2. `UIDAsRequested` (`Connection.ts:216`): `useUID` is a field of the connection,
   reset only when a callback has run. `UID COPY`, which a client that is AUTHENTICATED
   may not send, is refused for the state; `FETCH`, sent after the reply, is published
   with `useUID`. (A client that waits for its replies is enough.)
3. `AuthenticationIsAuthorized`
   (`EnvironmentVariables.ts:196`): `authorization.md` lists LOGIN and
   AUTHENTICATE, the default set does not.

4. `EveryResponseRead` (`AUTHENTICATE.ts:26`): the lexer of a SASL exchange yields
   one lexeme per data event. A response that arrives whole is read up to its CRLF;
   AUTHENTICATE is executed with it only when the client sends more, which it has
   no reason to. `authentication.md` describes the exchange as working.
5. `EveryLineRead` for a pipelining client (`Connection.ts:77`): one command is read
   per data event. `concurrency.md` and `test/logout-dos.js` send two at once.

Observed while modelling, in the models but without a property of their own:

* More than 20 lexemes at the start of a data event (`Connection.ts:168`): the
  connection skips every later line and stays open. The run meets this with a long
  APPEND; `EveryLineRead` and the script's `executes` exempt it.
* An AUTHENTICATE that is refused leaves its lexemes in `currentCommand`
  (`Connection.ts:148`), and a refused UID command the flag: `MayRefuse` of the
  intake instance holds commands without either, so that the client's commands stand
  for themselves.
* A literal sent without waiting for the continuation is read as arguments and
  refused (`test/literal-test.js` sends it so).
* A line end of which CR and LF arrive in different chunks does not end an ignored
  line (`Scanner.ts:31`); a malformed literal length such as `{a}` is thrown behind
  its CRLF, so that the skip takes the next line; `{}` closes the connection by the
  error that "SHOULD NEVER OCCUR" (`Lexeme.ts:36`).
* `readAny` goes on behind what a malformed token has passed (`Scanner.ts:351`), as
  the lexer's next reader finds it: SEARCH of `:abc` is executed with `abc`, and FETCH
  with a section and `<x>` within a list loses the partial.
* A `[`, `<` or `{` that is not closed makes the lexer wait past the end of its line,
  for bytes of the next.
* FETCH with a partial within a list is refused when all of it arrives at once: the
  branch for ATOM goes on behind the section (`FETCH.ts:57-68`).
* Readers that throw on an empty buffer instead of returning null (the quoted
  string, the section, the partial, the string), against the rule at
  `Scanner.ts:7-13`; the lexers run only when a line is there.
* A negative timeout lets the first client end the process (`Connection.ts:51`); 0
  cannot be configured for any integer; the valediction reads the key of the
  greeting (`EnvironmentVariables.ts:146`).
* A signal when the broker is lost logs, throws and does not exit (`Server.ts:89`);
  a boot step that rejects after the broker was connected leaves a process that
  neither serves nor exits.
* An authentication driver that is done with the empty name logs the client in under it
  (`LOGIN.ts:85`, `AUTHENTICATE.ts:63` ask for a string only): from then on the storage
  drivers and authorizers are asked on behalf of `""`, which is also what a connection
  that nobody has logged in holds.
* Of two selections sent at once the answers decide: EXAMINE answered behind SELECT leaves
  the connection SELECTED without write permission, which EXPUNGE and STORE do not look
  at (`SELECT.ts:20`).
* When bad arguments are logged over a closed channel, the connection is closed, and the
  lexemes of the line stay in `currentCommand` (`Connection.ts:238`).
* The set of permitted SASL mechanisms is never consulted by AUTHENTICATE.

## 6. Not modelled, and why

* `imapPrint.ts`: formats untagged responses, which are abstracted.
* `SequenceSet.ts` is a type; the JSON schemas are data for a library: whether a
  response passes one is an outcome of `CommandReplied`.
* Configuration options that are texts; the levels and texts of the logger.
* The answers of the DUMMY broker: constants, for development.
* Deployment, tools: no behaviour of the server.

## 7. Plan

Done, in this order: `RpcCall` and `MessageBroker`; `Connection`; `Scanner`;
`CommandStream` and `Intake`; `Server`; each with proofs;
`Sequential_proofs`, `Waiting_proofs` and `Session`, with its proof, for the client that waits.

Left:

1. `Intake` composed with `Connection` in place of `CallbackEnds`: the refused UID
   command and the refused exchange with their causes.
2. `Connection` composed with `MessageBroker` in place of its contract.
