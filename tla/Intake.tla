------------------------------- MODULE Intake -------------------------------
(***************************************************************************)
(* How a connection makes commands of bytes: socketDataHandler,            *)
(* lexemeStream and respondToLexeme (Connection.ts) with the argument      *)
(* lexers of the commands, on top of the scanner.  Of Scanner the readers, *)
(* enqueueData, skipLine and their variables are used.                     *)
(*                                                                         *)
(* A data event is one turn of the event loop: ReceiveData, then one step  *)
(* for each lexeme until the generator returns (pc = "idle").  Callbacks   *)
(* of commands end between the events.                                     *)
(***************************************************************************)
EXTENDS Scanner, FiniteSets, TLC

CONSTANTS
  UpperCase,    \* the upper case of the words that are not in upper case
  Scripts,      \* what a client may send: sequences of lines
  Pipelines,    \* whether it sends without waiting for answers
  MayRefuse,    \* the commands that may be refused: wrong state, no authorization
  MayChallenge, \* whether the SASL mechanism has a challenge
  MaxLexemes,   \* 20 in the code
  MaxFailures   \* 10 in the code

ASSUME IntakeAssumption ==
  /\ Pipelines \in BOOLEAN /\ MayChallenge \in BOOLEAN
  /\ MaxLexemes \in Nat /\ MaxFailures \in Nat
  /\ DOMAIN UpperCase \subseteq Letters

VARIABLES
  stream, stops,   \* the bytes of this client, and where it stops for answers
  sent,            \* its commands
  currentCommand,  \* the lexemes of the command being read
  useUID,
  tagReadFailures, badArgumentFailures,
  socket,          \* open, or ended by close()
  pc,              \* idle, or where lexemeStream() is
  pending,         \* the commands whose callbacks have not ended
  answered,        \* how often the client was given reason to send on
  executed         \* history: the commands executed

counters == <<tagReadFailures, badArgumentFailures>>
client == <<stream, stops, sent>>
intakeVars == <<scannerVars, client, currentCommand, useUID, counters, socket, pc,
                pending, answered, executed>>

-----------------------------------------------------------------------------
(* The client.  A line is a tag, perhaps UID, and the lexemes of a command *)
(* with its arguments, some of them sent as literals, or any bytes.        *)

Line(tag, uid, tokens, literals, ending, executes) ==
  [tag |-> tag, uid |-> uid, tokens |-> tokens, literals |-> literals,
   ending |-> ending, executes |-> executes]

Announced(literal) == <<"{", ToString(Len(literal)), "}", CR, LF>>
Spelled(line, i) ==
  IF i \in line.literals THEN Announced(line.tokens[i]) \o line.tokens[i] ELSE line.tokens[i]

(* The line up to its n-th token, and whole.                               *)
TextTo(line, n) ==
  line.tag \o (IF line.tag = <<>> THEN <<>> ELSE <<" ">>)
           \o (IF line.uid THEN <<"UID", " ">> ELSE <<>>)
           \o FlattenSeq([i \in 1 .. n |-> Spelled(line, i)])
Text(line) == TextTo(line, Len(line.tokens)) \o line.ending

(* A client stops before a literal, for the continuation, and at the end   *)
(* of a line, for the answer; where none comes (a blank line) it waits     *)
(* until the line was read.                                                *)
Stops(line) ==
  {Len(TextTo(line, i)) - Len(line.tokens[i]) : i \in line.literals} \cup {Len(Text(line))}

TextOf(lines) == FlattenSeq([i \in DOMAIN lines |-> Text(lines[i])])
StopsOf(lines) ==
  UNION {{Len(TextOf(SubSeq(lines, 1, i - 1))) + n : n \in Stops(lines[i])} : i \in DOMAIN lines}

ASSUME ClientSendsBytes == \A lines \in Scripts : TextOf(lines) \in Seq(Bytes)

(* The commands of the client, as they should be executed.                 *)
CommandsOf(lines) ==
  LET meant == SelectSeq(lines, LAMBDA line : line.executes)
  IN [i \in DOMAIN meant |->
        [uid |-> meant[i].uid,
         tokens |-> <<meant[i].tag>> \o meant[i].tokens]]

Executed(uid, command) == [uid |-> uid, tokens |-> [i \in DOMAIN command |-> command[i].token]]

(* Whether the client has had reason to send so many bytes.                *)
MaySend(to) ==
  \/ Pipelines
  \/ \E n \in stops : to <= n /\ Cardinality({m \in stops : m < n}) <= answered

-----------------------------------------------------------------------------
(* The argument lexers: which readers are tried for the next lexeme.  The  *)
(* optional one is tried first and may find nothing.                       *)

SimpleCommands == {"NOOP"}                      \* NewLineLexer
MailboxCommands == {"SELECT"}                   \* SimpleMailboxLexer
ListCommands == {"LIST"}                        \* ReferenceAndMailboxLexer
KnownCommands ==
  SimpleCommands \cup MailboxCommands \cup ListCommands
    \cup {"LOGIN", "RENAME", "COPY", "STATUS", "APPEND", "STORE", "SEARCH", "FETCH", "AUTHENTICATE"}

toUpperCase(token) ==
  [i \in DOMAIN token |-> IF token[i] \in DOMAIN UpperCase THEN UpperCase[token[i]] ELSE token[i]]

(* A name is one word; what is more than that is no command.               *)
CommandName(command) ==
  IF Len(command[2].token) = 1 THEN toUpperCase(command[2].token)[1] ELSE "unknown"
LastType(command) == Last(command).type

AnyOf(readers) == [optional |-> "none", readers |-> readers]
Perhaps(optional, readers) == [optional |-> optional, readers |-> readers]

(* The arguments are read one after the other, then the end of the line.   *)
Positional(readers, command) ==
  AnyOf(IF Len(command) - 1 \in DOMAIN readers THEN readers[Len(command) - 1] ELSE <<"end">>)

NewLineLexer(command)       == Positional(<<>>, command)
SimpleMailboxLexer(command) == Positional(<< <<"space">>, <<"astring">> >>, command)
ReferenceAndMailboxLexer(command) ==
  Positional(<< <<"space">>, <<"astring">>, <<"space">>, <<"mailboxList">> >>, command)
LOGINLexer(command) ==
  IF Len(command) > 6 THEN AnyOf(<<>>)
  ELSE Positional(<< <<"space">>, <<"astring">>, <<"space">>, <<"astring">> >>, command)
RENAMELexer(command) ==
  Positional(<< <<"space">>, <<"astring">>, <<"space">>, <<"astring">> >>, command)
COPYLexer(command) ==
  Positional(<< <<"space">>, <<"sequenceSet">>, <<"space">>, <<"astring">> >>, command)

STATUSLexer(command, first) ==
  IF Len(command) <= 5
  THEN Positional(<< <<"space">>, <<"astring">>, <<"space">>, <<"listStart">> >>, command)
  ELSE AnyOf(IF first /\ LastType(command) = "LIST_END"
             THEN <<"end">> ELSE <<"space", "atom", "listEnd", "end">>)

APPENDLexer(command) ==
  IF Len(command) <= 4
  THEN Positional(<< <<"space">>, <<"astring">>, <<"space">> >>, command)
  ELSE AnyOf(<<"space", "astring", "flag", "listStart", "listEnd", "end">>)

STORELexer(command, first) ==
  IF Len(command) <= 7
  THEN Positional(<< <<"space">>, <<"sequenceSet">>, <<"space">>, <<"atom">>, <<"space">>,
                     <<"listStart">> >>, command)
  ELSE AnyOf(IF ~first /\ LastType(command) = "LIST_END"
             THEN <<"end">> ELSE <<"flag", "space", "listEnd", "end">>)

(* With the lexeme it has yielded last; the end of the command is none.    *)
SEARCHLexer(lastType) ==
  AnyOf(CASE lastType = "COMMAND_NAME" -> <<"space">>
          [] lastType = "WHITESPACE"   -> <<"sequenceSet", "flag", "listStart", "astring">>
          [] lastType = "LIST_START"   -> <<"astring", "listStart">>
          [] OTHER                     -> <<"space", "listEnd", "end">>)

IsBody(lexeme) ==
  lexeme.type = "ATOM" /\ lexeme.token \in {<<"BODY">>, <<"BODY", ".", "PEEK">>}

FETCHListLexer(command, first) ==
  LET last == Last(command) IN
  CASE last.type = "LIST_START" -> AnyOf(<<"listEnd", "fetchAtt">>)
    [] last.type = "ATOM" ->
         IF IsBody(last) THEN Perhaps("section", <<"listEnd", "space">>)
         ELSE AnyOf(<<"listEnd", "space">>)
    [] last.type = "SECTION" ->
         IF first THEN Perhaps("partial", <<"listEnd", "partial", "space">>)
         ELSE AnyOf(<<"listEnd", "space">>)
    [] last.type = "PARTIAL"    -> AnyOf(<<"listEnd", "space">>)
    [] last.type = "WHITESPACE" -> AnyOf(<<"fetchAtt">>)
    [] last.type = "LIST_END"   -> AnyOf(<<"end">>)

FETCHLexer(command, first) ==
  LET last == Last(command) IN
  IF Len(command) <= 5
  THEN Positional(<< <<"space">>, <<"sequenceSet">>, <<"space">>, <<"listStart", "fetchAtt">> >>,
                  command)
  ELSE IF command[6].type = "LIST_START" THEN FETCHListLexer(command, first)
  ELSE IF IsBody(last) THEN Perhaps("section", <<"end">>)
  ELSE IF last.type = "SECTION" THEN Perhaps("partial", <<"end">>)
  ELSE AnyOf(<<"end">>)

AUTHENTICATELexer(command) ==
  IF Len(command) <= 4
  THEN Positional(<< <<"space">>, <<"mechanism">>, <<"newLine">> >>, command)
  ELSE AnyOf(IF LastType(command) = "NEWLINE" THEN <<"base64">> ELSE <<"newLine">>)

LexerOf(name, command, first) ==
  CASE name \in SimpleCommands  -> NewLineLexer(command)
    [] name \in MailboxCommands -> SimpleMailboxLexer(command)
    [] name \in ListCommands    -> ReferenceAndMailboxLexer(command)
    [] name = "LOGIN"  -> LOGINLexer(command)
    [] name = "RENAME" -> RENAMELexer(command)
    [] name = "COPY"   -> COPYLexer(command)
    [] name = "STATUS" -> STATUSLexer(command, first)
    [] name = "APPEND" -> APPENDLexer(command)
    [] name = "STORE"  -> STORELexer(command, first)
    [] name = "SEARCH" -> SEARCHLexer(LastType(command))
    [] name = "FETCH"  -> FETCHLexer(command, first)
    [] name = "AUTHENTICATE" -> AUTHENTICATELexer(command)

Lexed(lexer) ==
  LET tried == Reading(lexer.optional, receivedData, scanCursor) IN
  IF lexer.optional = "none" THEN readAny(lexer.readers, receivedData, scanCursor)
  ELSE IF tried.outcome = "token" THEN tried
  ELSE readAny(lexer.readers, receivedData, tried.cursor)

-----------------------------------------------------------------------------
(* Reading a command.                                                      *)

ReadInit ==
  /\ Init
  /\ \E lines \in Scripts :
       stream = TextOf(lines) /\ stops = StopsOf(lines) /\ sent = CommandsOf(lines)
  /\ currentCommand = <<>>
  /\ useUID = FALSE
  /\ tagReadFailures = 0 /\ badArgumentFailures = 0
  /\ socket = "open"
  /\ pc = "idle"
  /\ pending = <<>>
  /\ answered = 0
  /\ executed = <<>>

IsOverlong == Len(currentCommand) > MaxLexemes

(* A data event with any part of the bytes on their way.                   *)
ReceiveData ==
  /\ pc = "idle"
  /\ \E to \in Len(arrived) + 1 .. Len(stream) :
       /\ MaySend(to)
       /\ enqueueData(Slice(stream, Len(arrived), to))
       /\ arrived' = Slice(stream, 0, to)
  /\ pc' = "start"
  /\ UNCHANGED <<client, currentCommand, useUID, counters, socket, pending, answered, executed>>

SkipOverlong ==
  /\ pc = "start" /\ IsOverlong
  /\ skipLine(scanCursor)
  /\ pc' = "idle"
  /\ UNCHANGED <<arrived, client, currentCommand, useUID, counters, socket, pending, answered, executed>>

AwaitLine ==
  /\ pc = "start" /\ ~IsOverlong /\ ~lineReady
  /\ pc' = "idle"
  /\ UNCHANGED <<scannerVars, client, currentCommand, useUID, counters, socket, pending, answered, executed>>

(* An exception ends the event and the connection, not the reading.        *)
Fail(out) ==
  /\ Advance(out)
  /\ socket' = "ended"
  /\ pc' = "idle"
  /\ answered' = answered + 1
  /\ UNCHANGED <<currentCommand, useUID, counters>>

CloseAbove(failures) == socket' = IF failures > MaxFailures THEN "ended" ELSE socket

TakeTag ==
  LET tag == readTag(receivedData, scanCursor)
      space == readSpace(receivedData, tag.cursor)
  IN /\ pc = "start" /\ ~IsOverlong /\ lineReady /\ currentCommand = <<>>
     /\ \/ /\ tag.outcome = "error"
           /\ skipLine(tag.cursor)
           /\ tagReadFailures' = tagReadFailures + 1
           /\ CloseAbove(tagReadFailures')
           /\ pc' = "idle"
           /\ answered' = answered + 1
           /\ UNCHANGED <<currentCommand, useUID, badArgumentFailures>>
        \/ /\ tag.outcome = "token" /\ space.outcome = "error"
           /\ Fail(space)
        \/ /\ tag.outcome = "token" /\ space.outcome # "error"
           /\ Advance(space)
           /\ currentCommand' = <<tag.lexeme>>
           /\ pc' = "command"
           /\ UNCHANGED <<useUID, counters, socket, answered>>
     /\ UNCHANGED <<arrived, client, pending, executed>>

(* UID stands before a command, which is read in its place.                *)
TakeCommand ==
  LET name  == readCommand(receivedData, scanCursor)
      isUID == name.outcome = "token" /\ toUpperCase(name.lexeme.token) = <<"UID">>
      space == readSpace(receivedData, name.cursor)
      out   == IF ~isUID THEN name
               ELSE IF space.outcome = "error" THEN space
               ELSE readCommand(receivedData, space.cursor)
  IN /\ \/ pc = "command"
        \/ pc = "start" /\ ~IsOverlong /\ lineReady /\ Len(currentCommand) = 1
     /\ \/ /\ out.outcome = "error"
           /\ Fail(out)
        \/ /\ out.outcome = "token"
           /\ Advance(out)
           /\ useUID' = (useUID \/ isUID)
           /\ currentCommand' = Append(currentCommand, out.lexeme)
           /\ pc' = "entering"
           /\ UNCHANGED <<counters, socket, answered>>
     /\ UNCHANGED <<arrived, client, pending, executed>>

(* With the tag and the command name read, the event goes on here.         *)
Entering ==
  \/ pc = "entering"
  \/ pc = "start" /\ ~IsOverlong /\ lineReady /\ Len(currentCommand) >= 2

ValueOf(digit) ==
  CASE digit = "0" -> 0 [] digit = "1" -> 1 [] digit = "2" -> 2 [] digit = "3" -> 3
    [] digit = "4" -> 4 [] digit = "5" -> 5 [] digit = "6" -> 6 [] digit = "7" -> 7
    [] digit = "8" -> 8 [] digit = "9" -> 9

(* The number that the first i digits make.                                *)
toLiteralLength(token) ==
  LET number[i \in 0 .. Len(token) - 4] ==
        IF i = 0 THEN 0 ELSE 10 * number[i - 1] + ValueOf(token[i + 1])
  IN number[Len(token) - 4]

(* The literal takes the place of its length.                              *)
TakeLiteral ==
  LET length == Last(currentCommand).token
      out == readLiteral(toLiteralLength(length), receivedData, scanCursor)
  IN /\ Entering /\ LastType(currentCommand) = "LITERAL_LENGTH"
     /\ \/ /\ Len(length) = Len("{}") + Len(CRLF)
           /\ Fail(Throw(scanCursor))
        \/ /\ Len(length) > Len("{}") + Len(CRLF)
           /\ Advance(out)
           /\ IF out.outcome = "token"
              THEN /\ currentCommand' = Append(Front(currentCommand), out.lexeme)
                   /\ pc' = "entering"
              ELSE pc' = "idle" /\ UNCHANGED currentCommand
           /\ UNCHANGED <<useUID, counters, socket, answered>>
     /\ UNCHANGED <<arrived, client, pending, executed>>

(* Mutant: the command is not looked up before it is executed.             *)
ExecuteAny(command) ==
  IF Len(command) < 2 THEN UNCHANGED <<pending, answered, executed>>
  ELSE /\ executed' = Append(executed, Executed(useUID, command))
       /\ pending' = Append(pending, CommandName(command)) /\ UNCHANGED answered

(* executeCommand() up to its first await.                                 *)
Execute(command) ==
  IF Len(command) < 2 THEN UNCHANGED <<pending, answered, executed>>
  ELSE /\ executed' = Append(executed, Executed(useUID, command))
       /\ IF CommandName(command) \in KnownCommands
          THEN pending' = Append(pending, CommandName(command)) /\ UNCHANGED answered
          ELSE answered' = answered + 1 /\ UNCHANGED pending

SkipUnknown ==
  /\ Entering /\ LastType(currentCommand) # "LITERAL_LENGTH"
  /\ CommandName(currentCommand) \notin KnownCommands
  /\ skipLine(scanCursor)
  /\ Execute(currentCommand)
  /\ currentCommand' = <<>>
  /\ pc' = "idle"
  /\ UNCHANGED <<arrived, client, useUID, counters, socket>>

(* Mutant: what is left of a line with bad arguments is not skipped.       *)
BadArgumentsAlone(out) ==
  /\ badArgumentFailures' = badArgumentFailures + 1
  /\ CloseAbove(badArgumentFailures')
  /\ Advance(out)
  /\ currentCommand' = <<>>
  /\ pc' = "idle"
  /\ answered' = answered + 1
  /\ UNCHANGED <<tagReadFailures, pending, executed>>

BadArguments(out) ==
  /\ badArgumentFailures' = badArgumentFailures + 1
  /\ CloseAbove(badArgumentFailures')
  /\ skipLine(out.cursor)
  /\ currentCommand' = <<>>
  /\ pc' = "idle"
  /\ answered' = answered + 1
  /\ UNCHANGED <<tagReadFailures, pending, executed>>

(* next is where the generator goes on.                                    *)
respondToLexeme(lexeme, next) ==
  \/ /\ lexeme.type = "END_OF_COMMAND"
     /\ Execute(currentCommand)
     /\ currentCommand' = <<>>
     /\ pc' = next
  \/ /\ lexeme.type = "NEWLINE"
     /\ currentCommand' = Append(currentCommand, lexeme)
     /\ Execute(currentCommand')
     /\ pc' = next
  \/ /\ lexeme.type \notin {"END_OF_COMMAND", "NEWLINE"}
     /\ currentCommand' = Append(currentCommand, lexeme)
     /\ answered' = IF lexeme.type = "LITERAL_LENGTH" THEN answered + 1 ELSE answered
     /\ pc' = next
     /\ UNCHANGED <<pending, executed>>

(* Where the generator goes on behind a lexeme: it ends with the command,  *)
(* except that of SEARCH, which reads on as behind its last argument; and  *)
(* in a SASL exchange it ends behind each lexeme.                          *)
NextPlace(name, lexeme) ==
  IF pc = "trailing" \/ (lexeme.type = "END_OF_COMMAND" /\ name = "SEARCH") THEN "trailing"
  ELSE IF lexeme.type = "END_OF_COMMAND" THEN "idle"
  ELSE IF name = "AUTHENTICATE" /\ Len(currentCommand) >= 5 THEN "idle"
  ELSE "arguments"

TakeArgument ==
  LET name  == IF pc = "trailing" THEN "SEARCH" ELSE CommandName(currentCommand)
      lexer == IF pc = "trailing" THEN SEARCHLexer("END_OF_COMMAND")
               ELSE LexerOf(name, currentCommand, pc # "arguments")
      out   == Lexed(lexer)
  IN /\ \/ pc \in {"arguments", "trailing"}
        \/ Entering /\ LastType(currentCommand) # "LITERAL_LENGTH" /\ name \in KnownCommands
     /\ \/ /\ out.outcome = "null"
           /\ Advance(out)
           /\ pc' = "idle"
           /\ UNCHANGED <<currentCommand, counters, socket, pending, answered, executed>>
        \/ /\ out.outcome = "error"
           /\ BadArguments(out)
        \/ /\ out.outcome = "token"
           /\ Advance(out)
           /\ respondToLexeme(out.lexeme, NextPlace(name, out.lexeme))
           /\ UNCHANGED <<counters, socket>>
     /\ UNCHANGED <<arrived, client, useUID>>

(* A command is refused before its callback, or the callback ends.  When   *)
(* it throws, and when AUTHENTICATE is done, currentCommand is cleared,    *)
(* whichever command it holds by then.                                     *)
CallbackEnds ==
  /\ pc = "idle"
  /\ \E i \in DOMAIN pending :
       /\ pending' = RemoveAt(pending, i)
       /\ \/ /\ pending[i] \in MayRefuse
             /\ UNCHANGED <<currentCommand, useUID>>
          \/ /\ pending[i] = "AUTHENTICATE" => MayChallenge
             /\ useUID' = FALSE
             /\ UNCHANGED currentCommand
          \/ /\ useUID' = FALSE
             /\ currentCommand' = <<>>
  /\ answered' = answered + 1
  /\ UNCHANGED <<scannerVars, client, counters, socket, pc, executed>>

Read ==
  \/ SkipOverlong \/ AwaitLine \/ TakeTag \/ TakeCommand \/ TakeLiteral
  \/ SkipUnknown \/ TakeArgument

ReadNext == ReceiveData \/ Read \/ CallbackEnds

(* The event loop runs, the client sends on and the drivers answer.        *)
IntakeSpec ==
  /\ ReadInit /\ [][ReadNext]_intakeVars
  /\ WF_intakeVars(ReceiveData) /\ WF_intakeVars(Read) /\ WF_intakeVars(CallbackEnds)

-----------------------------------------------------------------------------
(* Properties.                                                             *)

ReadTypeOK ==
  /\ TypeOK
  /\ arrived = Slice(stream, 0, Len(arrived))
  /\ \A i \in DOMAIN currentCommand : currentCommand[i].token \in Seq(Bytes)
  /\ useUID \in BOOLEAN
  /\ tagReadFailures \in Nat /\ badArgumentFailures \in Nat /\ answered \in Nat
  /\ socket \in {"open", "ended"}
  /\ pc \in {"idle", "start", "command", "entering", "arguments", "trailing"}
  /\ pending \in Seq(KnownCommands)

InExchange ==
  /\ Len(currentCommand) >= 5
  /\ CommandName(currentCommand) = "AUTHENTICATE"

(* Nothing of the buffer that could be read is left to the next event: no  *)
(* complete line, and of a command only the literal the client was asked   *)
(* for is missing.                                                         *)
WaitsForLiteral == currentCommand # <<>> /\ LastType(currentCommand) = "LITERAL_LENGTH"

EveryLineRead ==
  pc = "idle" /\ socket = "open" /\ ~IsOverlong /\ ~InExchange /\ ~WaitsForLiteral => ~lineReady

(* A command is executed only when its line has ended, and a line that is  *)
(* refused is skipped: reading goes on at the start of a line, at once or, *)
(* of a refused line, when its end has arrived.                            *)
ResumesAtLineStart ==
  [][ /\ executed' # executed => ~ignoring' /\ AtLineStart'
      /\ (ignoring \/ counters' # counters) /\ ~ignoring' => AtLineStart' ]_intakeVars

(* In an exchange, each response of the client is read up to its end, so   *)
(* that AUTHENTICATE is executed with it.                                  *)
EveryResponseRead == pc = "idle" /\ InExchange => ~lineReady

Stream == INSTANCE CommandStream
ImplementsCommandStream == Stream!StreamSpec
=============================================================================
