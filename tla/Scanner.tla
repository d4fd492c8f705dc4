------------------------------ MODULE Scanner ------------------------------
(***************************************************************************)
(* The scanner of one connection (Scanner.ts): the bytes received and not  *)
(* yet consumed, and a reader for each kind of token.  A reader is given   *)
(* the bytes and the cursor; it returns a token and the cursor behind it,  *)
(* null when the token is not complete yet, or throws.                     *)
(*                                                                         *)
(* A byte is named by its character.  A letter may stand for a run of      *)
(* letters, so that a command name can be a single byte of a model.        *)
(***************************************************************************)
EXTENDS Integers, Sequences, SequencesExt

CONSTANTS
  Lower, Upper,  \* the letters, or words, in lower and upper case
  Chunks,        \* the pieces in which bytes arrive
  Lengths,       \* the literal lengths asked for
  MaxArrived     \* bounds the bytes that arrive

-----------------------------------------------------------------------------
(* The classes of bytes.                                                   *)

CR == "\r"
LF == "\n"
CRLF == <<CR, LF>>

NonZeroDigits == {"1", "2", "3", "4", "5", "6", "7", "8", "9"}
Digits == NonZeroDigits \cup {"0"}
Letters == Lower \cup Upper
AtomSpecials == {"(", ")", "{", " ", CR, LF, "%", "*", "\"", "\\", "]"}
Punctuation == {"}", "[", "<", ">", ".", ":", ",", "+", "/", "=", "-", "_"}

AtomChars == Letters \cup Digits \cup Punctuation
TagChars == AtomChars \ {"+"}
ListChars == AtomChars \cup {"%", "*", "]"}
SequenceSetChars == Digits \cup {":", "*", ","}
Base64Chars == Letters \cup Digits \cup {"+", "/", "="}
SASLMechanismNameChars == Upper \cup Digits \cup {"-", "_"}
FetchAttChars == Letters \cup Digits \cup {"."}

Bytes == AtomChars \cup AtomSpecials \cup {"8-bit"}

ASSUME LettersAssumption ==
  Letters \cap (Digits \cup Punctuation \cup AtomSpecials \cup {"8-bit"}) = {}

ASSUME ScannerAssumption ==
  MaxArrived \in Nat /\ Lengths \subseteq Nat /\ Chunks \subseteq Seq(Bytes)

-----------------------------------------------------------------------------
(* What a reader returns.  Cursors count the bytes before them.            *)

Slice(data, from, to) == SubSeq(data, from + 1, to)

Lexeme(type, token) == [type |-> type, token |-> token]
NoLexeme == Lexeme("NONE", <<>>)

Null(at)  == [outcome |-> "null",  lexeme |-> NoLexeme, cursor |-> at]
Throw(at) == [outcome |-> "error", lexeme |-> NoLexeme, cursor |-> at]
Token(type, data, from, to) ==
  [outcome |-> "token", lexeme |-> Lexeme(type, Slice(data, from, to)), cursor |-> to]

StartsWith(byte, data, at) == at < Len(data) /\ data[at + 1] = byte

Begins(token, data, at) ==
  at + Len(token) <= Len(data) /\ Slice(data, at, at + Len(token)) = token

(* Where the token begins, and where a byte outside of chars stands, at or *)
(* after the cursor.                                                       *)
Occurrences(token, data, at) == {i \in at .. Len(data) : Begins(token, data, i)}
Strangers(chars, data, at) == {i \in at .. Len(data) - 1 : data[i + 1] \notin chars}

(* A token of a fixed text.                                                *)
readFixedLengthToken(type, text, data, at) ==
  IF at + Len(text) > Len(data) THEN Null(at)
  ELSE IF Begins(text, data, at) THEN Token(type, data, at, at + Len(text))
  ELSE Throw(at)

(* Mutant: a run that reaches the end of the buffer counts as complete.    *)
readRunToTheEnd(type, chars, data, at) ==
  LET ends == Strangers(chars, data, at) \cup {Len(data)} IN
  IF at \in ends THEN Throw(at) ELSE Token(type, data, at, Min(ends))

(* A run of one or more bytes of a class, ended by a byte outside of it.   *)
readRun(type, chars, data, at) ==
  LET ends == Strangers(chars, data, at) IN
  IF ends = {} THEN Null(at)
  ELSE IF at \in ends THEN Throw(at)
  ELSE Token(type, data, at, Min(ends))

(* A token that starts with one byte and runs up to a closing text.        *)
readEnclosed(type, open, close, data, at) ==
  LET ends == Occurrences(close, data, at) IN
  IF ~StartsWith(open, data, at) THEN Throw(at)
  ELSE IF ends = {} THEN Null(at)
  ELSE Token(type, data, at, Min(ends) + Len(close))

-----------------------------------------------------------------------------
(* The readers.                                                            *)

readTag(data, at)           == readRun("TAG", TagChars, data, at)
readCommand(data, at)       == readRun("COMMAND_NAME", AtomChars, data, at)
readAtom(data, at)          == readRun("ATOM", AtomChars, data, at)
readList(data, at)          == readRun("ATOM", ListChars, data, at)
readSASLMechanism(data, at) == readRun("SASL_MECHANISM", SASLMechanismNameChars, data, at)
readFetchAtt(data, at)      == readRun("ATOM", FetchAttChars, data, at)
readSearchKey(data, at)     == readRun("SEARCH_KEY", Letters, data, at)

readSpace(data, at)     == readFixedLengthToken("WHITESPACE", <<" ">>, data, at)
readListStart(data, at) == readFixedLengthToken("LIST_START", <<"(">>, data, at)
readListEnd(data, at)   == readFixedLengthToken("LIST_END", <<")">>, data, at)
readNewLine(data, at)   == readFixedLengthToken("NEWLINE", CRLF, data, at)
readCommandTerminatingNewLine(data, at) ==
  readFixedLengthToken("END_OF_COMMAND", CRLF, data, at)

(* A backslash and any number of atom characters.                          *)
readFlag(data, at) ==
  LET ends == Strangers(AtomChars, data, at + 1) IN
  IF at + 2 > Len(data) THEN Null(at)
  ELSE IF ~StartsWith("\\", data, at) THEN Throw(at)
  ELSE IF ends = {} THEN Null(at)
  ELSE Token("FLAG", data, at, Min(ends))

(* The first quote not preceded by a backslash closes the string; neither  *)
(* CR nor LF may come before it.                                           *)
ClosingQuotes(data, at) ==
  {i \in at + 1 .. Len(data) - 1 : data[i + 1] = "\"" /\ data[i] # "\\"}
LineBreaks(data, at) == {i \in at + 1 .. Len(data) - 1 : data[i + 1] \in {CR, LF}}

readDoubleQuotedString(data, at) ==
  LET broken == LineBreaks(data, at)
      ends   == ClosingQuotes(data, at) \cup broken
  IN IF ~StartsWith("\"", data, at) THEN Throw(at)
     ELSE IF ends = {} THEN Null(at)
     ELSE IF Min(ends) \in broken THEN Throw(at)
     ELSE Token("QUOTED_STRING", data, at, Min(ends) + 1)

readFetchSection(data, at) == readEnclosed("SECTION", "[", <<"]">>, data, at)

(* <offset.octets>, where octets does not start with a zero.               *)
WellFormedPartial(token) ==
  \E dot \in 3 .. Len(token) - 2 :
    /\ token[dot] = "." /\ token[dot + 1] \in NonZeroDigits
    /\ \A i \in 2 .. Len(token) - 1 : i = dot \/ token[i] \in Digits

(* Mutant: an ill-formed token is reported as one that is not complete.    *)
CheckedAsNull(out, isWellFormed) ==
  IF out.outcome = "token" /\ ~isWellFormed THEN Null(out.cursor) ELSE out

(* An ill-formed token is thrown after the cursor was moved behind it.     *)
Checked(out, isWellFormed) ==
  IF out.outcome = "token" /\ ~isWellFormed THEN Throw(out.cursor) ELSE out

readFetchPartial(data, at) ==
  LET out == readEnclosed("PARTIAL", "<", <<">">>, data, at) IN
  Checked(out, WellFormedPartial(out.lexeme.token))

(* {digits}CRLF, the digits possibly none.                                 *)
readLiteralLength(data, at) ==
  LET out == readEnclosed("LITERAL_LENGTH", "{", <<"}", CR, LF>>, data, at) IN
  IF StartsWith("{", data, at)
  THEN Checked(out, \A i \in 2 .. Len(out.lexeme.token) - 3 : out.lexeme.token[i] \in Digits)
  ELSE Null(at)

(* Mutant: a short literal is taken for the whole.                         *)
readLiteralSoFar(length, data, at) ==
  Token("STRING_LITERAL", data, at, Min({at + length, Len(data)}))

(* The announced number of bytes, whatever they are.                       *)
readLiteral(length, data, at) ==
  IF at + length > Len(data) THEN Null(at) ELSE Token("STRING_LITERAL", data, at, at + length)

readAstring(data, at) ==
  IF StartsWith("\"", data, at) THEN readDoubleQuotedString(data, at)
  ELSE IF StartsWith("{", data, at) THEN readLiteralLength(data, at)
  ELSE readAtom(data, at)

readString(data, at) ==
  IF StartsWith("\"", data, at) THEN readDoubleQuotedString(data, at)
  ELSE IF StartsWith("{", data, at) THEN readLiteralLength(data, at)
  ELSE Throw(at)

readMailboxList(data, at) ==
  IF StartsWith("\"", data, at) THEN readDoubleQuotedString(data, at)
  ELSE IF StartsWith("{", data, at) THEN readLiteralLength(data, at)
  ELSE readList(data, at)

(* An asterisk aborts the exchange; otherwise base64, possibly none.       *)
readAbortableBase64(data, at) ==
  LET ends == Strangers(Base64Chars, data, at) IN
  IF StartsWith("*", data, at) THEN Token("ABORT", data, at, at + 1)
  ELSE IF ends = {} THEN Null(at)
  ELSE Token("BASE64", data, at, Min(ends))

(* Numbers without a leading zero, or asterisks, one or a pair n:m in each *)
(* place of a list separated by commas.                                    *)
WellFormedSequenceSet(token) ==
  LET Separates(i) == i \notin DOMAIN token \/ token[i] \in {":", ","}
      Starts(i) == Separates(i - 1)
  IN \A i \in DOMAIN token :
       /\ token[i] = "*" => Separates(i - 1) /\ Separates(i + 1)
       /\ token[i] = "0" => ~Starts(i)
       /\ Separates(i) => ~Separates(i - 1) /\ ~Separates(i + 1)
       /\ \A j \in 1 .. i - 1 :
            token[i] = ":" /\ token[j] = ":" => \E k \in j .. i : token[k] = ","

readSequenceSet(data, at) ==
  LET out == readRun("SEQUENCE_SET", SequenceSetChars, data, at) IN
  Checked(out, WellFormedSequenceSet(out.lexeme.token))

Readers ==
  {"tag", "command", "atom", "list", "mechanism", "fetchAtt", "searchKey",
   "space", "listStart", "listEnd", "newLine", "end", "flag", "quoted",
   "section", "partial", "literalLength", "astring", "string", "mailboxList",
   "base64", "sequenceSet"}

Reading(r, data, at) ==
  CASE r = "tag"           -> readTag(data, at)
    [] r = "command"       -> readCommand(data, at)
    [] r = "atom"          -> readAtom(data, at)
    [] r = "list"          -> readList(data, at)
    [] r = "mechanism"     -> readSASLMechanism(data, at)
    [] r = "fetchAtt"      -> readFetchAtt(data, at)
    [] r = "searchKey"     -> readSearchKey(data, at)
    [] r = "space"         -> readSpace(data, at)
    [] r = "listStart"     -> readListStart(data, at)
    [] r = "listEnd"       -> readListEnd(data, at)
    [] r = "newLine"       -> readNewLine(data, at)
    [] r = "end"           -> readCommandTerminatingNewLine(data, at)
    [] r = "flag"          -> readFlag(data, at)
    [] r = "quoted"        -> readDoubleQuotedString(data, at)
    [] r = "section"       -> readFetchSection(data, at)
    [] r = "partial"       -> readFetchPartial(data, at)
    [] r = "literalLength" -> readLiteralLength(data, at)
    [] r = "astring"       -> readAstring(data, at)
    [] r = "string"        -> readString(data, at)
    [] r = "mailboxList"   -> readMailboxList(data, at)
    [] r = "base64"        -> readAbortableBase64(data, at)
    [] r = "sequenceSet"   -> readSequenceSet(data, at)

(* The first of several readers that does not throw.  One that threw has   *)
(* perhaps moved the cursor, and the next starts from there.               *)
readAny(readers, data, at) ==
  LET tried[i \in 0 .. Len(readers)] ==
        LET out == IF i = 0 THEN Throw(at) ELSE tried[i - 1] IN
        IF i > 0 /\ out.outcome = "error" THEN Reading(readers[i], data, out.cursor) ELSE out
  IN tried[Len(readers)]

-----------------------------------------------------------------------------
(* The scanner as a machine.                                               *)

VARIABLES
  receivedData,
  scanCursor,
  ignoring,   \* ignoreEverythingUntilNewline
  arrived     \* history: every byte that ever arrived

scannerVars == <<receivedData, scanCursor, ignoring, arrived>>

Unread == Slice(receivedData, scanCursor, Len(receivedData))

lineReady == Occurrences(CRLF, receivedData, scanCursor) # {}

(* Mutant: the cursor is kept although the bytes before it are dropped.    *)
AppendKeepingCursor(data) ==
  /\ ~ignoring
  /\ receivedData' = Unread \o data
  /\ UNCHANGED <<scanCursor, ignoring>>

(* Mutant: the bytes before the cursor are kept as well.                   *)
AppendToAll(data) ==
  /\ ~ignoring
  /\ receivedData' = receivedData \o data
  /\ scanCursor' = 0
  /\ UNCHANGED ignoring

AppendData(data) ==
  /\ ~ignoring
  /\ receivedData' = Unread \o data
  /\ scanCursor' = 0
  /\ UNCHANGED ignoring

DropData(data) ==
  /\ ignoring
  /\ Occurrences(CRLF, data, 0) = {}
  /\ UNCHANGED <<receivedData, scanCursor, ignoring>>

(* Mutant: what is kept starts with the newline, not behind it.            *)
KeepFromNewLine(data) ==
  LET newlines == Occurrences(CRLF, data, 0) IN
  /\ ignoring
  /\ newlines # {}
  /\ receivedData' = Slice(data, Min(newlines), Len(data))
  /\ scanCursor' = 0
  /\ ignoring' = FALSE

(* The ignored line ends in this chunk: what was received before is gone.  *)
KeepBehindNewLine(data) ==
  LET newlines == Occurrences(CRLF, data, 0) IN
  /\ ignoring
  /\ newlines # {}
  /\ receivedData' = Slice(data, Min(newlines) + Len(CRLF), Len(data))
  /\ scanCursor' = 0
  /\ ignoring' = FALSE

enqueueData(data) == AppendData(data) \/ DropData(data) \/ KeepBehindNewLine(data)

(* To the end of the line, or, if that has not arrived, of the line to     *)
(* come.                                                                   *)
skipLine(at) ==
  LET newlines == Occurrences(CRLF, receivedData, at) IN
  /\ IF newlines = {}
     THEN ignoring' = TRUE /\ scanCursor' = at
     ELSE scanCursor' = Min(newlines) + Len(CRLF) /\ UNCHANGED ignoring
  /\ UNCHANGED receivedData

(* Whatever a reader returns, the cursor stays where the reader left it.   *)
Advance(out) ==
  /\ scanCursor' = out.cursor
  /\ UNCHANGED <<receivedData, ignoring>>

Enqueue ==
  \E data \in Chunks :
    /\ Len(arrived) + Len(data) <= MaxArrived
    /\ enqueueData(data)
    /\ arrived' = arrived \o data
SkipLine == skipLine(scanCursor) /\ UNCHANGED arrived
ReadToken == \E r \in Readers : Advance(Reading(r, receivedData, scanCursor)) /\ UNCHANGED arrived
ReadLiteral ==
  \E n \in Lengths : Advance(readLiteral(n, receivedData, scanCursor)) /\ UNCHANGED arrived

Init ==
  /\ receivedData = <<>>
  /\ scanCursor = 0
  /\ ignoring = FALSE
  /\ arrived = <<>>

Next == Enqueue \/ SkipLine \/ ReadToken \/ ReadLiteral

Spec == Init /\ [][Next]_scannerVars

-----------------------------------------------------------------------------
(* Properties.                                                             *)

TypeOK ==
  /\ receivedData \in Seq(Bytes)
  /\ scanCursor \in 0 .. Len(receivedData)
  /\ ignoring \in BOOLEAN
  /\ arrived \in Seq(Bytes)

(* How many of the bytes that arrived were read, skipped or dropped.       *)
Passed == Len(arrived) - Len(Unread)

(* Between ignored lines, what is left to read is a tail of what arrived.  *)
UnreadIsTail ==
  ~ignoring => /\ Len(Unread) <= Len(arrived)
               /\ Unread = Slice(arrived, Passed, Len(arrived))

(* The bytes are read in the order they arrived in, each at most once and  *)
(* none left out between ignored lines, however they were cut into chunks  *)
(* and whichever tokens were read, refused or skipped.                     *)
EachByteOnce == [][UnreadIsTail' /\ Passed' >= Passed]_scannerVars

Behaves(out, data, at) ==
  /\ out.outcome = "null" => out.cursor = at
  /\ out.outcome = "token" => out.lexeme.token = Slice(data, at, out.cursor)

(* "All methods that start with 'read' MUST return a `null` if the next    *)
(* lexeme could not be read solely because of non-completion": the caller  *)
(* retries, so null leaves the cursor in place, and a token is made of the *)
(* bytes it passes.                                                        *)
ReadersBehave ==
  /\ \A r \in Readers : Behaves(Reading(r, receivedData, scanCursor), receivedData, scanCursor)
  /\ \A n \in Lengths : Behaves(readLiteral(n, receivedData, scanCursor), receivedData, scanCursor)

(* What a reader decided, a token or an error, more bytes do not change:   *)
(* how the stream is cut into chunks decides when a token is read and not  *)
(* which.  (On an empty buffer some readers throw instead of waiting.)     *)
ChunksDecideNothing ==
  scanCursor < Len(receivedData) =>
    \A data \in Chunks :
      /\ \A r \in Readers :
           LET out == Reading(r, receivedData, scanCursor) IN
           out.outcome # "null" => Reading(r, receivedData \o data, scanCursor) = out
      /\ \A n \in Lengths :
           LET out == readLiteral(n, receivedData, scanCursor) IN
           out.outcome # "null" => readLiteral(n, receivedData \o data, scanCursor) = out

AtLineStart ==
  Passed >= Len(CRLF) /\ Slice(arrived, Passed - Len(CRLF), Passed) = CRLF

(* Once a line is skipped, at once or when its end has arrived, reading    *)
(* goes on at the start of a line.                                         *)
SkipsToLineStart ==
  [][(ignoring \/ SkipLine) /\ ~ignoring' => AtLineStart']_scannerVars
=============================================================================
