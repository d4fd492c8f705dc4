--------------------------- MODULE Waiting_proofs ---------------------------
(***************************************************************************)
(* What Intake guarantees to a client that waits for the answer to each of *)
(* its lines: no complete line is left in the buffer, however the lines    *)
(* were cut into data events, and for any alphabet and limits.             *)
(***************************************************************************)
EXTENDS Intake_proofs, FiniteSetTheorems

-----------------------------------------------------------------------------
(* The client.                                                             *)

(* What is opened is closed on its line.                                   *)
Closed(open, close, data, from) ==
  \A p, c \in from .. Len(data) :
    StartsWith(open, data, p) /\ p <= c /\ Begins(CRLF, data, c) =>
      \E q \in p .. c : Begins(close, data, q) /\ q + Len(close) <= c + Len(CRLF)

AllClosed(data, from) ==
  /\ Closed("[", <<"]">>, data, from)
  /\ Closed("<", <<">">>, data, from)
  /\ Closed("{", <<"}", CR, LF>>, data, from)

(* The client stops at the end of each line.                               *)
StopsAtLines(text, places) ==
  /\ IsFiniteSet(places) /\ places \subseteq Nat
  /\ \A c \in 0 .. Len(text) : Begins(CRLF, text, c) => c + Len(CRLF) \in places

(* A client that waits: the lines that it sends are whatever it likes, but *)
(* a bracket that it opens is closed on its line (the readers of sections, *)
(* partials and literal lengths look for the closing text only, and wait   *)
(* for it beyond the line), and there are no line terminators in literals. *)
ClientWaits ==
  /\ ~Pipelines
  /\ \A lines \in Scripts :
       AllClosed(TextOf(lines), 0) /\ StopsAtLines(TextOf(lines), StopsOf(lines))

-----------------------------------------------------------------------------
(* What a reader waits for is not on a line that has arrived.              *)

NoLine(data, at) == Occurrences(CRLF, data, at) = {}

(* A run of other bytes that has not ended has no line terminator.         *)
LEMMA RunsOnWithoutLine ==
  ASSUME NEW chars, CR \notin chars, NEW data, NEW at, Position(data, at),
         NEW from \in at .. Len(data), Strangers(chars, data, from) = {},
         from = at \/ (from = at + 1 /\ at < Len(data) /\ data[from] # CR)
  PROVE  NoLine(data, at)
<1> SUFFICES ASSUME NEW m \in Occurrences(CRLF, data, at) PROVE FALSE
  BY DEF NoLine
<1>1. m \in at .. Len(data) - 1 /\ data[m + 1] = CR
  BY CROfLine
<1>2. m # at \/ from = at
  <2>1. CASE from = at + 1
    BY <1>1, <2>1
  <2> QED BY <2>1
<1>3. m \in from .. Len(data) - 1
  BY <1>1, <1>2 DEF Position
<1> QED BY <1>1, <1>3 DEF Strangers

(* At the end of the buffer there is no line either.                       *)
LEMMA EndWithoutLine ==
  ASSUME NEW data, NEW at, Position(data, at), at + 2 > Len(data)
  PROVE  NoLine(data, at)
<1> SUFFICES ASSUME NEW m \in Occurrences(CRLF, data, at) PROVE FALSE
  BY DEF NoLine
<1>1. m \in at .. Len(data) /\ m + 2 <= Len(data)
  BY LineTerminator DEF Occurrences, Begins
<1> QED BY <1>1 DEF Position

(* A run.                                                                  *)
LEMMA RunWaits ==
  ASSUME NEW type, NEW chars, CR \notin chars, NEW data, NEW at, Position(data, at),
         readRun(type, chars, data, at).outcome = "null"
  PROVE  NoLine(data, at)
<1>1. Strangers(chars, data, at) = {}
  BY DEF readRun, Throw, Token
<1>2. at \in at .. Len(data)
  BY DEF Position
<1> QED BY <1>1, <1>2, RunsOnWithoutLine

(* A token of a fixed text of a byte or two.                               *)
LEMMA FixedWaits ==
  ASSUME NEW type, NEW text, Len(text) \in 0 .. 2, NEW data, NEW at, Position(data, at),
         readFixedLengthToken(type, text, data, at).outcome = "null"
  PROVE  NoLine(data, at)
<1>1. at + Len(text) > Len(data)
  BY DEF readFixedLengthToken, Throw, Token
<1>2. at + 2 > Len(data)
  <2> DEFINE n == Len(text)  end == Len(data)
  <2>1. n \in 0 .. 2 /\ at \in Nat /\ end \in Nat /\ at + n > end
    BY <1>1 DEF Position
  <2> HIDE DEF n, end
  <2>2. at + 2 > end
    BY <2>1
  <2> QED BY <2>2 DEF end
<1> QED BY <1>2, EndWithoutLine

(* A token that is closed on its line.                                     *)
LEMMA EnclosedWaits ==
  ASSUME NEW type, NEW open, NEW close, NEW data, NEW at, Position(data, at),
         Closed(open, close, data, at), readEnclosed(type, open, close, data, at).outcome = "null"
  PROVE  NoLine(data, at)
<1> SUFFICES ASSUME NEW m \in Occurrences(CRLF, data, at) PROVE FALSE
  BY DEF NoLine
<1>1. StartsWith(open, data, at) /\ Occurrences(close, data, at) = {}
  BY DEF readEnclosed, Throw, Token
<1>2. m \in at .. Len(data) /\ at \in at .. Len(data) /\ Begins(CRLF, data, m)
  BY DEF Occurrences, Position
<1>3. PICK q \in at .. m : Begins(close, data, q)
  <2>1. at <= m
    BY <1>2 DEF Position
  <2> QED BY <1>1, <1>2, <2>1 DEF Closed
<1>4. q \in at .. Len(data)
  BY <1>2, <1>3 DEF Position
<1> QED BY <1>1, <1>3, <1>4 DEF Occurrences

(* A flag.                                                                 *)
LEMMA FlagWaits ==
  ASSUME NEW data, NEW at, Position(data, at), readFlag(data, at).outcome = "null"
  PROVE  NoLine(data, at)
<1> DEFINE backslash == "\\"
<1>1. \/ at + 2 > Len(data)
      \/ /\ at + 2 <= Len(data) /\ StartsWith(backslash, data, at)
         /\ Strangers(AtomChars, data, at + 1) = {}
  BY DEF readFlag, Throw, Token, Position
<1>2. CR \notin AtomChars /\ CR # backslash
  BY LettersAssumption DEF AtomChars, Digits, NonZeroDigits, Punctuation, AtomSpecials, CR
<1> HIDE DEF backslash
<1>3. CASE at + 2 > Len(data)
  BY <1>3, EndWithoutLine
<1>4. CASE /\ at + 2 <= Len(data) /\ StartsWith(backslash, data, at)
           /\ Strangers(AtomChars, data, at + 1) = {}
  <2>1. at + 1 \in at .. Len(data) /\ at < Len(data) /\ data[at + 1] # CR
    BY <1>2, <1>4 DEF Position, StartsWith
  <2> QED BY <1>2, <1>4, <2>1, RunsOnWithoutLine
<1> QED BY <1>1, <1>3, <1>4

(* A quoted string, which may not go on behind the line.                   *)
LEMMA QuotedWaits ==
  ASSUME NEW data, NEW at, Position(data, at), readDoubleQuotedString(data, at).outcome = "null"
  PROVE  NoLine(data, at)
<1> DEFINE quote == "\""
<1>1. StartsWith(quote, data, at) /\ LineBreaks(data, at) = {}
  BY DEF readDoubleQuotedString, Throw, Token
<1>2. CR # quote
  BY DEF CR
<1> HIDE DEF quote
<1> SUFFICES ASSUME NEW m \in Occurrences(CRLF, data, at) PROVE FALSE
  BY DEF NoLine
<1>3. m \in at .. Len(data) - 1 /\ data[m + 1] = CR
  BY CROfLine
<1>4. m \in at + 1 .. Len(data) - 1
  BY <1>1, <1>2, <1>3 DEF StartsWith, Position
<1> QED BY <1>1, <1>3, <1>4 DEF LineBreaks

(* Base64.                                                                 *)
LEMMA Base64Waits ==
  ASSUME NEW data, NEW at, Position(data, at), readAbortableBase64(data, at).outcome = "null"
  PROVE  NoLine(data, at)
<1>1. Strangers(Base64Chars, data, at) = {}
  BY DEF readAbortableBase64, Token
<1>2. CR \notin Base64Chars
  BY LettersAssumption DEF Base64Chars, Digits, NonZeroDigits, AtomSpecials, CR
<1>3. at \in at .. Len(data)
  BY DEF Position
<1> QED BY <1>1, <1>2, <1>3, RunsOnWithoutLine

(* A check makes no token one to wait for.                                 *)
LEMMA CheckedWaits ==
  ASSUME NEW out, NEW wellFormed, Checked(out, wellFormed).outcome = "null"
  PROVE  out.outcome = "null"
BY DEF Checked, Throw

(* A literal length, once its brace is open.                               *)
LEMMA LengthWaits ==
  ASSUME NEW data, NEW at, Position(data, at), AllClosed(data, at), StartsWith("{", data, at),
         readLiteralLength(data, at).outcome = "null"
  PROVE  NoLine(data, at)
<1> DEFINE out == readEnclosed("LITERAL_LENGTH", "{", <<"}", CR, LF>>, data, at)
           wellFormed == \A i \in 2 .. Len(out.lexeme.token) - 3 : out.lexeme.token[i] \in Digits
<1>1. readLiteralLength(data, at) = Checked(out, wellFormed)
  BY DEF readLiteralLength
<1>2. out.outcome = "null"
  <2>1. Checked(out, wellFormed).outcome = "null"
    BY <1>1
  <2> HIDE DEF out, wellFormed
  <2> QED BY <2>1, CheckedWaits
<1> QED BY <1>2, EnclosedWaits DEF AllClosed

(* The readers that the lexers try: a literal length is read only behind   *)
(* its brace, by the readers of strings.                                   *)
ArgumentReaders == Readers \ {"quoted", "string", "literalLength"}

(* A reader of a lexer that waits does not wait on a line that is there.   *)
LEMMA ReadingWaits ==
  ASSUME NEW r \in ArgumentReaders, NEW data, NEW at, Position(data, at), AllClosed(data, at),
         Reading(r, data, at).outcome = "null"
  PROVE  NoLine(data, at)
<1>1. /\ CR \notin AtomChars /\ CR \notin TagChars /\ CR \notin ListChars
      /\ CR \notin SASLMechanismNameChars /\ CR \notin FetchAttChars /\ CR \notin Letters
      /\ CR \notin SequenceSetChars
  BY LettersAssumption DEF AtomChars, TagChars, ListChars, SASLMechanismNameChars, FetchAttChars, Letters,
     SequenceSetChars, Digits, NonZeroDigits, Punctuation, AtomSpecials, CR
<1>2. CASE r \in {"tag", "command", "atom", "list", "mechanism", "fetchAtt", "searchKey"}
  BY <1>1, <1>2, RunWaits DEF Reading, readTag, readCommand, readAtom, readList,
     readSASLMechanism, readFetchAtt, readSearchKey
<1>3. CASE r \in {"space", "listStart", "listEnd", "newLine", "end"}
  <2>1. PICK type, text : Reading(r, data, at) = readFixedLengthToken(type, text, data, at)
                          /\ Len(text) \in 0 .. 2
    <3>1. /\ Len(<<" ">>) \in 0 .. 2 /\ Len(<<"(">>) \in 0 .. 2 /\ Len(<<")">>) \in 0 .. 2
          /\ Len(CRLF) \in 0 .. 2
      BY LineTerminator
    <3> QED BY <1>3, <3>1 DEF Reading, readSpace, readListStart, readListEnd, readNewLine,
               readCommandTerminatingNewLine
  <2> QED BY <2>1, FixedWaits
<1>4. CASE r \in {"flag", "base64"}
  BY <1>4, FlagWaits, Base64Waits DEF Reading
<1>5. CASE r = "section"
  BY <1>5, EnclosedWaits DEF Reading, readFetchSection, AllClosed
<1>6. CASE r = "partial"
  <2> DEFINE out == readEnclosed("PARTIAL", "<", <<">">>, data, at)
  <2>1. Reading(r, data, at) = Checked(out, WellFormedPartial(out.lexeme.token))
    BY <1>6 DEF Reading, readFetchPartial
  <2>2. out.outcome = "null"
    BY <2>1, CheckedWaits
  <2> QED BY <2>2, EnclosedWaits DEF AllClosed
<1>7. CASE r = "sequenceSet"
  <2> DEFINE out == readRun("SEQUENCE_SET", SequenceSetChars, data, at)
  <2>1. Reading(r, data, at) = Checked(out, WellFormedSequenceSet(out.lexeme.token))
    BY <1>7 DEF Reading, readSequenceSet
  <2>2. out.outcome = "null"
    BY <2>1, CheckedWaits
  <2> QED BY <1>1, <2>2, RunWaits
<1>8. CASE r \in {"astring", "mailboxList"}
  <2>1. \/ Reading(r, data, at) = readDoubleQuotedString(data, at)
        \/ StartsWith("{", data, at) /\ Reading(r, data, at) = readLiteralLength(data, at)
        \/ Reading(r, data, at) = readAtom(data, at)
        \/ Reading(r, data, at) = readList(data, at)
    BY <1>8 DEF Reading, readAstring, readMailboxList
  <2>2. readAtom(data, at).outcome = "null" \/ readList(data, at).outcome = "null" => NoLine(data, at)
    BY <1>1, RunWaits DEF readAtom, readList
  <2> QED BY <2>1, <2>2, QuotedWaits, LengthWaits
<1> QED BY <1>2, <1>3, <1>4, <1>5, <1>6, <1>7, <1>8 DEF ArgumentReaders, Readers

-----------------------------------------------------------------------------
(* The lexers: the readers that each tries, of which the first waits for   *)
(* more where nothing is left, and does not throw.                         *)

Patient == ArgumentReaders \ {"section", "partial"}
ReaderList == {readers \in Seq(ArgumentReaders) : readers # <<>> /\ readers[1] \in Patient}
Starts(lexer) == lexer.optional \in {"none", "section", "partial"} /\ lexer.readers \in ReaderList

(* Where nothing is left, a patient reader waits.                          *)
LEMMA PatientWaits ==
  ASSUME NEW r \in Patient, NEW data \in Seq(Bytes)
  PROVE  Reading(r, data, Len(data)) = Null(Len(data))
<1> DEFINE n == Len(data)
<1>0. n \in Nat /\ ~(n < n)
  OBVIOUS
<1>1. \A byte : ~StartsWith(byte, data, n)
  BY <1>0 DEF StartsWith
<1>2. \A chars : Strangers(chars, data, n) = {}
  BY DEF Strangers
<1>3. \A type, chars : readRun(type, chars, data, n) = Null(n)
  BY <1>2 DEF readRun
<1>4. ASSUME NEW type, NEW text, Len(text) \in {1, 2}
      PROVE  readFixedLengthToken(type, text, data, n) = Null(n)
  <2>1. n + Len(text) > n
    BY <1>0, <1>4
  <2> QED BY <2>1 DEF readFixedLengthToken
<1>5. CASE r \in {"tag", "command", "atom", "list", "mechanism", "fetchAtt", "searchKey"}
  BY <1>3, <1>5 DEF Reading, readTag, readCommand, readAtom, readList,
     readSASLMechanism, readFetchAtt, readSearchKey
<1>6. CASE r \in {"space", "listStart", "listEnd", "newLine", "end"}
  <2>1. PICK type, text : Reading(r, data, n) = readFixedLengthToken(type, text, data, n)
                          /\ Len(text) \in {1, 2}
    <3>1. /\ Len(<<" ">>) \in {1, 2} /\ Len(<<"(">>) \in {1, 2} /\ Len(<<")">>) \in {1, 2}
          /\ Len(CRLF) \in {1, 2}
      BY LineTerminator
    <3> QED BY <1>6, <3>1 DEF Reading, readSpace, readListStart, readListEnd, readNewLine,
               readCommandTerminatingNewLine
  <2> QED BY <1>4, <2>1
<1>7. CASE r = "flag"
  <2>1. n + 2 > n
    BY <1>0
  <2> QED BY <1>7, <2>1 DEF Reading, readFlag
<1>8. CASE r = "base64"
  BY <1>1, <1>2, <1>8 DEF Reading, readAbortableBase64
<1>9. CASE r = "sequenceSet"
  BY <1>3, <1>9 DEF Reading, readSequenceSet, Checked, Null
<1>10. CASE r \in {"astring", "mailboxList"}
  BY <1>1, <1>3, <1>10 DEF Reading, readAstring, readMailboxList, readAtom, readList
<1> QED BY <1>5, <1>6, <1>7, <1>8, <1>9, <1>10 DEF Patient, ArgumentReaders, Readers

(* The lists of readers in the lexers.                                     *)
LEMMA ListsOfReaders ==
  /\ \A r \in {"space", "astring", "mailboxList", "sequenceSet", "atom", "listStart", "mechanism",
               "newLine", "base64", "fetchAtt", "end"} : <<r>> \in ReaderList
  /\ <<"listStart", "fetchAtt">> \in ReaderList
  /\ <<"space", "atom", "listEnd", "end">> \in ReaderList
  /\ <<"space", "astring", "flag", "listStart", "listEnd", "end">> \in ReaderList
  /\ <<"flag", "space", "listEnd", "end">> \in ReaderList
  /\ <<"sequenceSet", "flag", "listStart", "astring">> \in ReaderList
  /\ <<"astring", "listStart">> \in ReaderList
  /\ <<"space", "listEnd", "end">> \in ReaderList
  /\ <<"listEnd", "fetchAtt">> \in ReaderList /\ <<"listEnd", "space">> \in ReaderList
  /\ <<"listEnd", "partial", "space">> \in ReaderList
<1>1. {"space", "astring", "mailboxList", "sequenceSet", "atom", "listStart", "listEnd", "mechanism",
       "newLine", "base64", "fetchAtt", "end", "flag"} \subseteq Patient
  BY DEF Patient, ArgumentReaders, Readers
<1>2. "partial" \in ArgumentReaders /\ Patient \subseteq ArgumentReaders
  BY DEF Patient, ArgumentReaders, Readers
<1>3. ASSUME NEW a \in Patient, NEW b \in ArgumentReaders, NEW c \in ArgumentReaders,
             NEW d \in ArgumentReaders, NEW e \in ArgumentReaders, NEW f \in ArgumentReaders
      PROVE  /\ <<a>> \in ReaderList /\ <<a, b>> \in ReaderList /\ <<a, b, c>> \in ReaderList
             /\ <<a, b, c, d>> \in ReaderList /\ <<a, b, c, d, e, f>> \in ReaderList
  <2>1. a \in ArgumentReaders
    BY <1>2
  <2> QED BY <2>1 DEF ReaderList
<1> QED BY <1>1, <1>2, <1>3

(* A lexer of one list, perhaps behind an optional reader.                 *)
LEMMA AnyStarts ==
  ASSUME NEW readers \in ReaderList
  PROVE  /\ Starts(AnyOf(readers))
         /\ Starts(Perhaps("section", readers)) /\ Starts(Perhaps("partial", readers))
BY DEF Starts, AnyOf, Perhaps

(* A lexer of a list for each argument.                                    *)
LEMMA PositionalStarts ==
  ASSUME NEW readers, \A i \in DOMAIN readers : readers[i] \in ReaderList, NEW command
  PROVE  Starts(Positional(readers, command))
<1> DEFINE end == <<"end">>
<1>1. end \in ReaderList
  BY ListsOfReaders
<1>2. Positional(readers, command) =
        AnyOf(IF Len(command) - 1 \in DOMAIN readers THEN readers[Len(command) - 1] ELSE end)
  BY DEF Positional
<1> HIDE DEF end
<1> QED BY <1>1, <1>2, AnyStarts

(* Up to six lists.                                                        *)
LEMMA ListsForArguments ==
  ASSUME NEW command
  PROVE  /\ Starts(Positional(<<>>, command))
         /\ \A a, b \in ReaderList : Starts(Positional(<<a, b>>, command))
         /\ \A a, b, c \in ReaderList : Starts(Positional(<<a, b, c>>, command))
         /\ \A a, b, c, d \in ReaderList : Starts(Positional(<<a, b, c, d>>, command))
         /\ \A a, b, c, d, e, f \in ReaderList : Starts(Positional(<<a, b, c, d, e, f>>, command))
<1>1. Starts(Positional(<<>>, command))
  <2>1. \A i \in DOMAIN <<>> : <<>>[i] \in ReaderList
    OBVIOUS
  <2> QED BY <2>1, PositionalStarts
<1>2. ASSUME NEW a \in ReaderList, NEW b \in ReaderList, NEW c \in ReaderList, NEW d \in ReaderList,
             NEW e \in ReaderList, NEW f \in ReaderList
      PROVE  /\ Starts(Positional(<<a, b>>, command)) /\ Starts(Positional(<<a, b, c>>, command))
             /\ Starts(Positional(<<a, b, c, d>>, command))
             /\ Starts(Positional(<<a, b, c, d, e, f>>, command))
  <2> DEFINE two == <<a, b>>
             three == <<a, b, c>>
             four == <<a, b, c, d>>
             six == <<a, b, c, d, e, f>>
  <2>1. /\ \A i \in DOMAIN two : two[i] \in ReaderList
        /\ \A i \in DOMAIN three : three[i] \in ReaderList
        /\ \A i \in DOMAIN four : four[i] \in ReaderList
        /\ \A i \in DOMAIN six : six[i] \in ReaderList
    OBVIOUS
  <2> HIDE DEF two, three, four, six
  <2>2. /\ Starts(Positional(two, command)) /\ Starts(Positional(three, command))
        /\ Starts(Positional(four, command)) /\ Starts(Positional(six, command))
    BY <2>1, PositionalStarts
  <2> QED BY <2>2 DEF two, three, four, six
<1> QED BY <1>1, <1>2

(* Every lexer has one that starts so, but that of LOGIN behind the end of *)
(* the command.                                                            *)
LEMMA LexersStart ==
  ASSUME NEW command \in Seq(Lexemes), NEW name \in KnownCommands, NEW first, FetchOK(command, name),
         Len(command) > 6 => name # "LOGIN"
  PROVE  Starts(LexerOf(name, command, first))
<1> DEFINE lexer == LexerOf(name, command, first)
           space == <<"space">>
           astring == <<"astring">>
           list == <<"mailboxList">>
           set == <<"sequenceSet">>
           atom == <<"atom">>
           open == <<"listStart">>
           mechanism == <<"mechanism">>
           newLine == <<"newLine">>
           base64 == <<"base64">>
           end == <<"end">>
           item == <<"listStart", "fetchAtt">>
           statusItems == <<"space", "atom", "listEnd", "end">>
           flags == <<"flag", "space", "listEnd", "end">>
           appendFlags == <<"space", "astring", "flag", "listStart", "listEnd", "end">>
<1>1. /\ space \in ReaderList /\ astring \in ReaderList /\ list \in ReaderList /\ set \in ReaderList
      /\ atom \in ReaderList /\ open \in ReaderList /\ mechanism \in ReaderList /\ newLine \in ReaderList
      /\ base64 \in ReaderList /\ end \in ReaderList /\ item \in ReaderList
      /\ statusItems \in ReaderList /\ flags \in ReaderList /\ appendFlags \in ReaderList
  BY ListsOfReaders
<1> DEFINE P(readers) == Positional(readers, command)
<1>2. CASE name \in SimpleCommands \cup MailboxCommands \cup ListCommands \cup {"LOGIN", "RENAME", "COPY"}
  <2>1. \/ lexer = P(<<>>) \/ lexer = P(<<space, astring>>) \/ lexer = P(<<space, astring, space, list>>)
        \/ lexer = P(<<space, astring, space, astring>>) \/ lexer = P(<<space, set, space, astring>>)
    BY <1>2 DEF LexerOf, SimpleCommands, MailboxCommands, ListCommands, NewLineLexer, SimpleMailboxLexer,
       ReferenceAndMailboxLexer, LOGINLexer, RENAMELexer, COPYLexer
  <2> HIDE DEF lexer, space, astring, list, set
  <2>2. /\ Starts(P(<<>>)) /\ Starts(P(<<space, astring>>)) /\ Starts(P(<<space, astring, space, list>>))
        /\ Starts(P(<<space, astring, space, astring>>)) /\ Starts(P(<<space, set, space, astring>>))
    BY <1>1, ListsForArguments, Zenon
  <2>3. Starts(lexer)
    BY <2>1, <2>2, Zenon
  <2> QED BY <2>3 DEF lexer
<1>3. CASE name \in {"STATUS", "APPEND", "STORE", "AUTHENTICATE"}
  <2>1. \/ lexer = P(<<space, astring, space, open>>) \/ lexer = P(<<space, astring, space>>)
        \/ lexer = P(<<space, set, space, atom, space, open>>) \/ lexer = P(<<space, mechanism, newLine>>)
        \/ lexer = AnyOf(end) \/ lexer = AnyOf(statusItems) \/ lexer = AnyOf(appendFlags)
        \/ lexer = AnyOf(flags) \/ lexer = AnyOf(base64) \/ lexer = AnyOf(newLine)
    BY <1>3 DEF LexerOf, SimpleCommands, MailboxCommands, ListCommands, STATUSLexer, APPENDLexer, STORELexer,
       AUTHENTICATELexer
  <2> HIDE DEF lexer, space, astring, set, open, atom, end, statusItems, flags, appendFlags, mechanism,
               newLine, base64
  <2>2. /\ Starts(P(<<space, astring, space, open>>)) /\ Starts(P(<<space, astring, space>>))
        /\ Starts(P(<<space, set, space, atom, space, open>>)) /\ Starts(P(<<space, mechanism, newLine>>))
    BY <1>1, ListsForArguments, Zenon
  <2>3. /\ Starts(AnyOf(end)) /\ Starts(AnyOf(statusItems)) /\ Starts(AnyOf(appendFlags))
        /\ Starts(AnyOf(flags)) /\ Starts(AnyOf(base64)) /\ Starts(AnyOf(newLine))
    BY <1>1, AnyStarts
  <2>4. Starts(lexer)
    BY <2>1, <2>2, <2>3, Zenon
  <2> QED BY <2>4 DEF lexer
<1>4. CASE name = "SEARCH"
  <2>1. lexer = SEARCHLexer(LastType(command))
    BY <1>4 DEF LexerOf, SimpleCommands, MailboxCommands, ListCommands
  <2>2. \E readers \in ReaderList : lexer = AnyOf(readers)
    BY <2>1, ListsOfReaders DEF SEARCHLexer
  <2> QED BY <2>2, AnyStarts
<1>5. CASE name = "FETCH"
  <2>1. lexer = FETCHLexer(command, first)
    BY <1>5 DEF LexerOf, SimpleCommands, MailboxCommands, ListCommands
  <2>2. CASE Len(command) <= 5
    <3>1. lexer = P(<<space, set, space, item>>)
      BY <2>1, <2>2 DEF FETCHLexer
    <3> HIDE DEF lexer, space, set, item
    <3>2. Starts(lexer)
      BY <1>1, <3>1, ListsForArguments, Zenon
    <3> QED BY <3>2 DEF lexer
  <2>3. CASE ~(Len(command) <= 5)
    <3>1. Len(command) >= 6
      <4> DEFINE n == Len(command)
      <4>1. n \in Nat /\ ~(n <= 5)
        BY <2>3
      <4> HIDE DEF n
      <4>2. n >= 6
        BY <4>1
      <4> QED BY <4>2 DEF n
    <3>2. LastType(command) \in FetchTypes
      BY <1>5, <3>1 DEF FetchOK
    <3>3. Starts(FETCHListLexer(command, first))
      BY <3>2, ListsOfReaders, AnyStarts DEF FETCHListLexer, LastType, FetchTypes
    <3>4. lexer \in {FETCHListLexer(command, first), Perhaps("section", end), Perhaps("partial", end), AnyOf(end)}
      BY <2>1, <2>3 DEF FETCHLexer
    <3> QED BY <1>1, <3>3, <3>4, AnyStarts
  <2> QED BY <2>2, <2>3
<1> QED BY <1>2, <1>3, <1>4, <1>5 DEF KnownCommands

(* Brackets closed from one place on are closed from any later one on.     *)
LEMMA ClosedAhead ==
  ASSUME NEW data \in Seq(Bytes), NEW from \in Nat, NEW at \in from .. Len(data), AllClosed(data, from)
  PROVE  AllClosed(data, at)
<1>1. at .. Len(data) \subseteq from .. Len(data)
  OBVIOUS
<1>2. ASSUME NEW open, NEW close, Closed(open, close, data, from) PROVE Closed(open, close, data, at)
  BY <1>1, <1>2 DEF Closed
<1> QED BY <1>2 DEF AllClosed

(* Where a lexer waits, no line is left to read.                           *)
LEMMA LexedWaits ==
  ASSUME NEW lexer, Starts(lexer), Position(receivedData, scanCursor),
         AllClosed(receivedData, scanCursor), Lexed(lexer).outcome = "null"
  PROVE  NoLine(receivedData, Lexed(lexer).cursor)
<1> DEFINE out == Lexed(lexer)
           n == Len(receivedData)
<1>1. scanCursor \in Nat /\ n \in Nat /\ receivedData \in Seq(Bytes)
  BY DEF Position
<1>2. Tries(lexer, ArgumentReaders) /\ "none" \notin ArgumentReaders /\ ArgumentReaders \subseteq Readers
  BY DEF Starts, Tries, ReaderList, ArgumentReaders, Readers
<1>3. PICK a \in scanCursor .. n : out \in Outcomes(ArgumentReaders, receivedData, a)
  BY <1>2, LexedByReader
<1>4. out # Throw(a)
  BY DEF Throw
<1>5. PICK r \in ArgumentReaders, c \in a .. n : out = Reading(r, receivedData, c)
  BY <1>3, <1>4 DEF Outcomes
<1>6. out.outcome = "null"
  OBVIOUS
<1> HIDE DEF out
<1>7. c \in scanCursor .. n /\ Position(receivedData, c) /\ r \in Readers
  BY <1>1, <1>2 DEF Position
<1>8. out.cursor = c
  BY <1>5, <1>6, <1>7, ReadingSound DEF Sound, Behaves
<1>9. AllClosed(receivedData, c)
  BY <1>1, <1>7, ClosedAhead
<1> QED BY <1>5, <1>6, <1>7, <1>8, <1>9, ReadingWaits DEF out

(* Where nothing is left, a lexer waits.                                   *)
LEMMA NothingLexed ==
  ASSUME NEW lexer, Starts(lexer), receivedData \in Seq(Bytes), scanCursor = Len(receivedData)
  PROVE  Lexed(lexer) = Null(scanCursor)
<1> DEFINE at == scanCursor
           tried == Reading(lexer.optional, receivedData, at)
           readers == lexer.readers
<1>1. Position(receivedData, at) /\ ~(at < Len(receivedData)) /\ at = Len(receivedData)
  BY DEF Position
<1>2. readers \in Seq(Readers) /\ readers # <<>> /\ readers[1] \in Patient
  BY DEF Starts, ReaderList, ArgumentReaders
<1>3. readAny(readers, receivedData, at) = Null(at)
  <2>1. Reading(readers[1], receivedData, at) = Null(at)
    BY <1>1, <1>2, PatientWaits
  <2>2. Null(at).outcome # "error"
    BY DEF Null
  <2> QED BY <1>1, <1>2, <2>1, <2>2, FirstDecides
<1>4. lexer.optional # "none" => tried = Throw(at)
  <2>1. \A type, open, close : readEnclosed(type, open, close, receivedData, at) = Throw(at)
    BY <1>1 DEF readEnclosed, StartsWith
  <2> QED BY <2>1 DEF Starts, Reading, readFetchSection, readFetchPartial, Checked, Throw
<1> QED BY <1>3, <1>4 DEF Lexed, Throw

-----------------------------------------------------------------------------
(* The inductive invariant.                                                *)

Client == AllClosed(stream, 0) /\ StopsAtLines(stream, stops)

(* The lexer of LOGIN reads nothing behind the end of the command.         *)
ShortLogin == Len(currentCommand) > 6 => Name # "LOGIN"

(* The places the client has come to, the answers it got or will get       *)
(* without sending more, and whether it is waiting for another.            *)
Reached == {m \in stops : m <= Len(arrived)}
Answers == answered + Len(pending)
Due == Answers < Cardinality(Reached)

Exhausted == scanCursor = Len(receivedData)

(* The line that was sent last is the only one that is not read.           *)
OnlyLine == \A m \in Occurrences(CRLF, receivedData, scanCursor) : m + 2 = Len(receivedData)

(* The client and the connection take turns: for a line in the buffer an   *)
(* answer is due, while a command runs there is no line, and so no second  *)
(* command is handed on.                                                   *)
Turn ==
  /\ OnlyLine
  /\ Answers <= Cardinality(Reached)
  /\ lineReady => Due
  /\ pc \in {"command", "entering"} => Due
  /\ pc = "arguments" => (Due /\ pending = <<>>) \/ Exhausted
  /\ pc = "trailing" => Exhausted
  /\ Len(pending) <= 1
  /\ pending # <<>> => ~lineReady /\ pc \notin {"start", "command", "entering"}
  /\ pc = "idle" /\ lineReady => IsOverlong \/ WaitsForLiteral \/ InExchange

WaitInv == Client /\ (socket = "open" => ShortLogin /\ Turn)

-----------------------------------------------------------------------------
(* The places the client has come to are counted.                          *)
LEMMA ReachedCounted ==
  ASSUME Client
  PROVE  /\ IsFiniteSet(Reached) /\ Cardinality(Reached) \in Nat
         /\ \A S : S \subseteq stops => IsFiniteSet(S) /\ Cardinality(S) \in Nat
         /\ \A S, T : S \subseteq T /\ T \subseteq stops => Cardinality(S) <= Cardinality(T)
         /\ \A S, x : S \subseteq stops /\ x \notin S => Cardinality(S \cup {x}) = Cardinality(S) + 1
<1>1. IsFiniteSet(stops) /\ Reached \subseteq stops
  BY DEF Client, StopsAtLines, Reached
<1>2. \A S : S \subseteq stops => IsFiniteSet(S)
  BY <1>1, FS_Subset
<1>3. \A S : S \subseteq stops => Cardinality(S) \in Nat
  BY <1>2, FS_CardinalityType
<1>4. \A S, T : S \subseteq T /\ T \subseteq stops => Cardinality(S) <= Cardinality(T)
  BY <1>2, FS_Subset
<1>5. \A S, x : S \subseteq stops /\ x \notin S => Cardinality(S \cup {x}) = Cardinality(S) + 1
  BY <1>2, FS_AddElement
<1> QED BY <1>1, <1>2, <1>3, <1>4, <1>5

(* Behind the last byte there is no line.                                  *)
LEMMA ExhaustedHasNoLine ==
  ASSUME TypeOK, Exhausted
  PROVE  ~lineReady
<1>1. Position(receivedData, scanCursor) /\ scanCursor + 2 > Len(receivedData)
  BY DEF TypeOK, Position, Exhausted
<1> QED BY <1>1, EndWithoutLine DEF NoLine, lineReady

(* Behind the only line there are no more bytes.                           *)
LEMMA OnlyLinePassed ==
  ASSUME TypeOK, OnlyLine, NEW c, BehindLine(receivedData, scanCursor, c)
  PROVE  c - 2 + 2 = Len(receivedData)
BY DEF OnlyLine, BehindLine, Occurrences

(* What a step within the buffer leaves.                                   *)
Ahead == UNCHANGED <<arrived, client, receivedData>> /\ scanCursor' \in scanCursor .. Len(receivedData)

LEMMA AheadOfLine ==
  ASSUME TypeOK, OnlyLine, Ahead
  PROVE  OnlyLine' /\ (lineReady' => lineReady) /\ Reached' = Reached /\ (Exhausted => Exhausted')
<1>1. Occurrences(CRLF, receivedData, scanCursor)' \subseteq Occurrences(CRLF, receivedData, scanCursor)
  BY DEF TypeOK, Ahead, Occurrences
<1>2. receivedData' = receivedData /\ stops' = stops /\ arrived' = arrived
  BY DEF Ahead, client
<1>3. OnlyLine' /\ (lineReady' => lineReady)
  BY <1>1, <1>2 DEF OnlyLine, lineReady
<1>4. Exhausted => Exhausted'
  BY <1>2 DEF TypeOK, Ahead, Exhausted
<1> QED BY <1>2, <1>3, <1>4 DEF Reached

(* Behind a line that is skipped, there is none.                           *)
LEMMA SkippedToNoLine ==
  ASSUME TypeOK, OnlyLine, NEW at \in scanCursor .. Len(receivedData), skipLine(at),
         UNCHANGED <<arrived, client>>
  PROVE  Ahead /\ ~lineReady'
<1> DEFINE S == Occurrences(CRLF, receivedData, at)
<1>1. Position(receivedData, at) /\ <<>> \in Seq(Bytes) /\ receivedData' = receivedData
      /\ scanCursor \in Nat /\ Len(receivedData) \in Nat /\ CRLF \in Seq(Bytes) /\ Len(CRLF) = 2
  BY WholeSlice, LineTerminator DEF TypeOK, Position, skipLine
<1>2. CASE S = {}
  <2>1. scanCursor' = at
    BY <1>2 DEF skipLine
  <2> QED BY <1>1, <1>2, <2>1 DEF Ahead, lineReady
<1>3. CASE S # {}
  <2>1. S \in SUBSET Nat /\ scanCursor' = Min(S) + 2
    BY <1>1, <1>3 DEF skipLine, Occurrences
  <2>2. Min(S) \in S
    BY <1>3, <2>1, MinOfNaturals
  <2>3. Min(S) \in Occurrences(CRLF, receivedData, scanCursor)
    BY <1>1, <2>2 DEF Occurrences
  <2>4. scanCursor' = Len(receivedData)
    BY <2>1, <2>3 DEF OnlyLine
  <2>5. Ahead /\ Position(receivedData, scanCursor') /\ scanCursor' + 2 > Len(receivedData)
    BY <1>1, <2>4 DEF Ahead, Position
  <2>6. NoLine(receivedData, scanCursor')
    BY <2>5, EndWithoutLine
  <2> QED BY <1>1, <2>5, <2>6 DEF NoLine, lineReady
<1> QED BY <1>2, <1>3

(* Nor when a step has come to the last byte.                              *)
LEMMA ExhaustedByStep ==
  ASSUME TypeOK, Ahead, Exhausted'
  PROVE  ~lineReady'
<1>1. /\ receivedData' = receivedData /\ Position(receivedData, scanCursor')
      /\ scanCursor' + 2 > Len(receivedData)
  BY DEF TypeOK, Position, Ahead, Exhausted
<1>2. NoLine(receivedData, scanCursor')
  BY <1>1, EndWithoutLine
<1> QED BY <1>1, <1>2 DEF NoLine, lineReady

(* The counters of the turns.                                              *)
LEMMA AnswersCounted ==
  ASSUME ReadInv, Client
  PROVE  Answers \in Nat /\ answered \in Nat /\ Len(pending) \in Nat /\ Cardinality(Reached) \in Nat
<1>1. answered \in Nat /\ pending \in Seq(KnownCommands)
  BY DEF ReadInv, Types, ReadTypeOK
<1>2. Len(pending) \in Nat /\ Cardinality(Reached) \in Nat
  BY <1>1, ReachedCounted
<1> QED BY <1>1, <1>2 DEF Answers

(* A step that reads on and answers nothing.                               *)
GoesOn ==
  /\ UNCHANGED <<answered, pending>>
  /\ pc' # "start"
  /\ pc' \in {"command", "entering"} => Due /\ pending = <<>>
  /\ pc' = "arguments" => (Due /\ pending = <<>>) \/ Exhausted'
  /\ pc' = "trailing" => Exhausted'
  /\ pc' = "idle" /\ lineReady' => IsOverlong' \/ WaitsForLiteral' \/ InExchange'

LEMMA TurnGoesOn ==
  ASSUME ReadInv, Client, Turn, Ahead, GoesOn
  PROVE  Turn'
<1>1. OnlyLine' /\ (lineReady' => lineReady) /\ Reached' = Reached
  BY CursorInBuffer, AheadOfLine DEF Turn
<1>2. Answers' = Answers /\ (Due' <=> Due)
  BY <1>1 DEF GoesOn, Answers, Due
<1>3. pending' = pending /\ pc' # "start"
  BY DEF GoesOn
<1>4. Answers' <= Cardinality(Reached')
  BY <1>1, <1>2 DEF Turn
<1>5. lineReady' => Due'
  BY <1>1, <1>2 DEF Turn
<1>6. /\ pc' \in {"command", "entering"} => Due'
      /\ pc' = "arguments" => (Due' /\ pending' = <<>>) \/ Exhausted'
      /\ Len(pending') <= 1
      /\ pc' = "trailing" => Exhausted'
      /\ pc' = "idle" /\ lineReady' => IsOverlong' \/ WaitsForLiteral' \/ InExchange'
  BY <1>2, <1>3 DEF GoesOn, Turn
<1>7. pending' # <<>> => ~lineReady' /\ pc' \notin {"start", "command", "entering"}
  BY <1>1, <1>3 DEF GoesOn, Turn
<1> QED BY <1>1, <1>4, <1>5, <1>6, <1>7 DEF Turn

(* A step that answers, or hands a command on, when an answer is due.      *)
Answered ==
  /\ Answers' = Answers + 1 /\ Due /\ Len(pending') <= 1
  /\ ~lineReady'
  /\ pc' \in {"idle", "arguments", "trailing"}
  /\ pc' # "idle" => Exhausted'

LEMMA TurnAnswers ==
  ASSUME ReadInv, Client, Turn, Ahead, Answered
  PROVE  Turn'
<1>1. OnlyLine' /\ Reached' = Reached
  BY CursorInBuffer, AheadOfLine DEF Turn
<1>2. Answers' <= Cardinality(Reached')
  BY <1>1, AnswersCounted DEF Answered, Due
<1>3. /\ ~lineReady' /\ pc' \notin {"start", "command", "entering"}
      /\ pc' \in {"arguments", "trailing"} => Exhausted'
      /\ Len(pending') <= 1
  BY DEF Answered
<1> QED BY <1>1, <1>2, <1>3 DEF Turn

-----------------------------------------------------------------------------
(* What each action leaves to read.                                        *)

(* The generator does not begin.                                           *)
LEMMA SkipOverlongTurn ==
  ASSUME ReadInv, Client, Turn, SkipOverlong
  PROVE  Turn'
<1>1. TypeOK /\ scanCursor \in scanCursor .. Len(receivedData) /\ OnlyLine
  BY CursorInBuffer DEF Turn
<1>2. skipLine(scanCursor) /\ pc' = "idle" /\ UNCHANGED <<arrived, client, answered, pending>>
  BY DEF SkipOverlong
<1>3. Ahead /\ ~lineReady'
  BY <1>1, <1>2, SkippedToNoLine
<1> QED BY <1>2, <1>3, TurnGoesOn DEF GoesOn

(* There is nothing to begin with.                                         *)
LEMMA AwaitLineTurn ==
  ASSUME ReadInv, Client, Turn, AwaitLine
  PROVE  Turn'
<1>1. pc' = "idle" /\ ~lineReady /\ UNCHANGED <<scannerVars, client, answered, pending>>
  BY DEF AwaitLine
<1>2. Ahead /\ ~lineReady'
  BY <1>1, CursorInBuffer DEF Ahead, scannerVars, lineReady
<1> QED BY <1>1, <1>2, TurnGoesOn DEF GoesOn

(* At the start of a line, an answer to it is due, and no command runs.    *)
LEMMA LineIsDue ==
  ASSUME Turn, \/ pc \in {"command", "entering"}
               \/ pc = "start" /\ lineReady
  PROVE  Due /\ pending = <<>>
BY DEF Turn

(* Whatever is read, the cursor moves ahead.                               *)
LEMMA KeptAhead ==
  ASSUME ReadInv, Kept, UNCHANGED <<arrived, client, receivedData>>
  PROVE  Ahead
<1>1. Passed' >= Passed /\ TypeOK'
  BY DEF Kept, ReadInv, Types, ReadTypeOK
<1>2. Len(Unread') <= Len(Unread)
  <2>1. Len(Unread) \in Nat /\ Len(Unread') \in Nat /\ Len(arrived) \in Nat
    BY <1>1, UnreadForm, CursorInBuffer, TailOfSlice DEF TypeOK, Unread
  <2> QED BY <1>1, <2>1 DEF Passed
<1>3. Len(Unread) = Len(receivedData) - scanCursor /\ Len(Unread') = Len(receivedData) - scanCursor'
  BY <1>1, CursorInBuffer, UnreadForm, TailOfSlice DEF TypeOK, Unread
<1>4. scanCursor \in 0 .. Len(receivedData) /\ scanCursor' \in 0 .. Len(receivedData)
  BY <1>1, CursorInBuffer DEF TypeOK
<1>5. scanCursor' \in scanCursor .. Len(receivedData)
  BY <1>2, <1>3, <1>4
<1> QED BY <1>5 DEF Ahead

(* The tag of a line, or an answer to what is none.                        *)
LEMMA TakeTagTurn ==
  ASSUME ReadInv, Client, Turn, TakeTag, socket' = "open"
  PROVE  Turn'
<1> DEFINE tag == readTag(receivedData, scanCursor)
           space == readSpace(receivedData, tag.cursor)
<1>1. pc = "start" /\ lineReady /\ UNCHANGED <<arrived, client, pending>>
  BY DEF TakeTag
<1>2. Due /\ pending = <<>> /\ OnlyLine /\ TypeOK
  BY <1>1, LineIsDue, CursorInBuffer DEF Turn
<1>3. \/ /\ skipLine(tag.cursor) /\ pc' = "idle" /\ answered' = answered + 1
      \/ /\ Advance(space) /\ pc' = "command" /\ answered' = answered
  BY DEF TakeTag, Fail
<1>4. tag.cursor \in scanCursor .. Len(receivedData)
  <2>1. tag = Reading("tag", receivedData, scanCursor)
    BY DEF Reading
  <2> HIDE DEF tag
  <2> QED BY <2>1, CursorInBuffer, NameRead
<1>5. Ahead
  BY <1>1, <1>3, TakeTagKeeps, KeptAhead DEF skipLine, Advance
<1> HIDE DEF tag, space
<1>6. CASE skipLine(tag.cursor) /\ pc' = "idle" /\ answered' = answered + 1
  <2>1. ~lineReady'
    BY <1>1, <1>2, <1>4, <1>6, SkippedToNoLine
  <2>2. Answers' = Answers + 1 /\ Len(pending') <= 1
    BY <1>1, <1>6, AnswersCounted DEF Answers, Turn
  <2> QED BY <1>2, <1>5, <1>6, <2>1, <2>2, TurnAnswers DEF Answered
<1>7. CASE Advance(space) /\ pc' = "command" /\ answered' = answered
  BY <1>1, <1>2, <1>5, <1>7, TurnGoesOn DEF GoesOn
<1> QED BY <1>3, <1>6, <1>7

(* The name of the command.                                                *)
LEMMA TakeCommandTurn ==
  ASSUME ReadInv, Client, Turn, TakeCommand, socket' = "open"
  PROVE  Turn'
<1>1. /\ pc = "command" \/ (pc = "start" /\ lineReady)
      /\ UNCHANGED <<arrived, client, pending, receivedData>>
      /\ pc' = "entering" /\ answered' = answered
  BY DEF TakeCommand, Fail, Advance
<1>2. Due /\ pending = <<>>
  BY <1>1, LineIsDue
<1>3. Ahead
  BY <1>1, TakeCommandKeeps, KeptAhead
<1> QED BY <1>1, <1>2, <1>3, TurnGoesOn DEF GoesOn

(* A literal, or the wait for it.                                          *)
LEMMA TakeLiteralTurn ==
  ASSUME ReadInv, Client, Turn, TakeLiteral, socket' = "open"
  PROVE  Turn'
<1>1. /\ pc = "entering" \/ (pc = "start" /\ lineReady)
      /\ UNCHANGED <<arrived, client, pending, receivedData, answered>>
      /\ pc' = "entering" \/ (pc' = "idle" /\ UNCHANGED currentCommand)
      /\ LastType(currentCommand) = "LITERAL_LENGTH" /\ Len(currentCommand) >= 2
  BY EnteringForm DEF TakeLiteral, Fail, Advance, Entering
<1>2. Due /\ pending = <<>>
  BY <1>1, LineIsDue
<1>3. Ahead
  BY <1>1, TakeLiteralKeeps, KeptAhead
<1>4. currentCommand # <<>>
  BY <1>1
<1>5. pc' = "idle" => WaitsForLiteral'
  BY <1>1, <1>4 DEF WaitsForLiteral
<1> QED BY <1>1, <1>2, <1>3, <1>5, TurnGoesOn DEF GoesOn

(* A line with an unknown command is answered and skipped.                 *)
LEMMA SkipUnknownTurn ==
  ASSUME ReadInv, Client, Turn, SkipUnknown
  PROVE  Turn'
<1>1. /\ pc = "entering" \/ (pc = "start" /\ lineReady)
      /\ UNCHANGED <<arrived, client>>
      /\ skipLine(scanCursor) /\ pc' = "idle"
      /\ answered' = answered + 1 /\ pending' = pending
  BY EnteringForm DEF SkipUnknown, Entering, Execute
<1>2. Due /\ OnlyLine /\ TypeOK /\ scanCursor \in scanCursor .. Len(receivedData)
  BY <1>1, LineIsDue, CursorInBuffer DEF Turn
<1>3. Ahead /\ ~lineReady'
  BY <1>1, <1>2, SkippedToNoLine
<1>4. Answers' = Answers + 1 /\ Len(pending') <= 1
  BY <1>1, AnswersCounted DEF Answers, Turn
<1> QED BY <1>1, <1>2, <1>3, <1>4, TurnAnswers DEF Answered

-----------------------------------------------------------------------------
(* The buffer, as a part of the stream.                                    *)

(* The bytes of the buffer from a place on are the last of those of the    *)
(* whole up to an end.                                                     *)
PartOf(data, at, whole, end) ==
  /\ end \in 0 .. Len(whole) /\ Len(data) - at <= end
  /\ \A i \in at + 1 .. Len(data) : data[i] = whole[i + (end - Len(data))]

(* So they are where they are a tail of a first part of it.                *)
LEMMA TailIsPart ==
  ASSUME NEW data, NEW at, Position(data, at), NEW whole \in Seq(Bytes), NEW some \in Seq(Bytes),
         Len(some) <= Len(whole), some = Slice(whole, 0, Len(some)),
         LET rest == Slice(data, at, Len(data)) IN
           Len(rest) <= Len(some) /\ rest = Slice(some, Len(some) - Len(rest), Len(some))
  PROVE  PartOf(data, at, whole, Len(some))
<1> DEFINE n == Len(data)
           e == Len(some)
           rest == Slice(data, at, n)
           from == e - (n - at)
<1>1. data \in Seq(Bytes) /\ n \in Nat /\ at \in 0 .. n /\ n \in at .. n /\ e \in 0 .. Len(whole)
  BY DEF Position
<1>2. Len(rest) = n - at /\ \A i \in 1 .. n - at : rest[i] = data[at + i]
  BY <1>1, SliceParts
<1>3. \A i \in 1 .. e : some[i] = whole[i]
  <2>0. 0 \in 0 .. Len(whole) /\ e \in 0 .. Len(whole)
    BY <1>1
  <2> HIDE DEF e
  <2>1. \A i \in 1 .. e - 0 : Slice(whole, 0, e)[i] = whole[0 + i]
    BY <2>0, SliceParts
  <2>2. \A i \in 1 .. e : i \in 1 .. e - 0 /\ 0 + i = i
    BY <2>0
  <2> QED BY <2>1, <2>2 DEF e
<1>4. n - at <= e /\ rest = Slice(some, from, e)
  BY <1>2
<1> HIDE DEF n, rest
<1>5. from \in 0 .. e /\ e \in from .. e /\ e - from = n - at /\ e \in Nat
  BY <1>1, <1>4
<1>6. \A i \in 1 .. n - at : Slice(some, from, e)[i] = some[from + i]
  <2>1. \A i \in 1 .. e - from : Slice(some, from, e)[i] = some[from + i]
    BY <1>5, SliceParts
  <2> QED BY <1>5, <2>1
<1>7. ASSUME NEW i \in at + 1 .. n PROVE data[i] = whole[i + (e - n)]
  <2> DEFINE j == i - at
  <2>1. j \in 1 .. n - at /\ at + j = i /\ from + j \in 1 .. e /\ from + j = i + (e - n)
    BY <1>1, <1>4
  <2> HIDE DEF j, from
  <2>2. data[at + j] = rest[j] /\ rest[j] = some[from + j] /\ some[from + j] = whole[from + j]
    BY <1>2, <1>3, <1>4, <1>6, <2>1
  <2> QED BY <2>1, <2>2
<1> QED BY <1>1, <1>4, <1>7 DEF PartOf, n

(* What stands at a place of the part stands at its place of the whole.    *)
LEMMA PartSlices ==
  ASSUME NEW data, NEW at, Position(data, at), NEW whole \in Seq(Bytes), NEW end,
         PartOf(data, at, whole, end), NEW a \in at .. Len(data), NEW b \in a .. Len(data)
  PROVE  LET p == a + (end - Len(data))
             q == b + (end - Len(data)) IN
         /\ p \in 0 .. end /\ q \in p .. end /\ q - p = b - a /\ end <= Len(whole)
         /\ Slice(data, a, b) = Slice(whole, p, q)
         /\ a < Len(data) => data[a + 1] = whole[p + 1]
<1> DEFINE n == Len(data)
           p == a + (end - n)
           q == b + (end - n)
<1>1. /\ data \in Seq(Bytes) /\ n \in Nat /\ at \in 0 .. n /\ end \in 0 .. Len(whole) /\ n - at <= end
      /\ \A i \in at + 1 .. n : data[i] = whole[i + (end - n)]
  BY DEF Position, PartOf
<1> HIDE DEF n
<1>2. a \in at .. n /\ b \in a .. n
  BY DEF n
<1>3. /\ p \in 0 .. end /\ q \in p .. end /\ q - p = b - a /\ end <= Len(whole)
      /\ a \in 0 .. n /\ p \in 0 .. Len(whole) /\ q \in p .. Len(whole) /\ b - a \in Nat
  BY <1>1, <1>2
<1>4. \A i \in 1 .. b - a : data[a + i] = whole[p + i]
  <2>1. \A i \in 1 .. b - a : a + i \in at + 1 .. n /\ (a + i) + (end - n) = p + i
    BY <1>1, <1>2
  <2> QED BY <1>1, <2>1
<1>5. /\ Slice(data, a, b) \in Seq(Bytes) /\ Len(Slice(data, a, b)) = b - a
      /\ \A i \in 1 .. b - a : Slice(data, a, b)[i] = data[a + i]
  BY <1>1, <1>2, <1>3, SliceParts DEF n
<1>6. /\ Slice(whole, p, q) \in Seq(Bytes) /\ Len(Slice(whole, p, q)) = q - p
      /\ \A i \in 1 .. q - p : Slice(whole, p, q)[i] = whole[p + i]
  BY <1>3, SliceParts
<1>7. Slice(data, a, b) = Slice(whole, p, q)
  BY <1>3, <1>4, <1>5, <1>6, SeqEqual
<1>8. a < n => data[a + 1] = whole[p + 1]
  <2>1. a < n => a + 1 \in at + 1 .. n /\ (a + 1) + (end - n) = p + 1
    BY <1>1, <1>2
  <2> QED BY <1>1, <2>1
<1> QED BY <1>3, <1>7, <1>8 DEF n

(* The same text begins at both places.                                    *)
LEMMA PartBegins ==
  ASSUME NEW data, NEW at, Position(data, at), NEW whole \in Seq(Bytes), NEW end,
         PartOf(data, at, whole, end), NEW text, Len(text) \in Nat, NEW a \in at .. Len(data)
  PROVE  a + Len(text) <= Len(data) =>
           (Begins(text, data, a) <=> Begins(text, whole, a + (end - Len(data))))
<1> DEFINE n == Len(data)
           k == Len(text)
           p == a + (end - n)
<1> SUFFICES ASSUME a + k <= n PROVE Begins(text, data, a) <=> Begins(text, whole, p)
  OBVIOUS
<1>1. at \in 0 .. n /\ n \in Nat
  BY DEF Position
<1> HIDE DEF k, n
<1>2. a + k \in a .. n
  BY <1>1 DEF k, n
<1>3. /\ p \in 0 .. end /\ (a + k) + (end - n) \in p .. end /\ ((a + k) + (end - n)) - p = (a + k) - a
      /\ end <= Len(whole) /\ Slice(data, a, a + k) = Slice(whole, p, (a + k) + (end - n))
  BY <1>2, PartSlices DEF n
<1>4. (a + k) + (end - n) = p + k /\ p + k <= Len(whole)
  <2>1. end \in Nat /\ Len(whole) \in Nat
    BY DEF PartOf
  <2>2. a \in Nat /\ k \in Nat
    BY <1>1 DEF k, n
  <2> QED BY <1>1, <1>3, <2>1, <2>2
<1> QED BY <1>2, <1>3, <1>4 DEF Begins, k, n

(* What is closed in the whole is closed in the part.                      *)
LEMMA ClosedInPart ==
  ASSUME NEW data, NEW at, Position(data, at), NEW whole \in Seq(Bytes), NEW end,
         PartOf(data, at, whole, end), NEW open, NEW close, Len(close) \in Nat,
         Closed(open, close, whole, 0)
  PROVE  Closed(open, close, data, at)
<1> DEFINE n == Len(data)
           shift == end - n
           k == Len(close)
<1> SUFFICES ASSUME NEW p \in at .. n, NEW c \in at .. n,
                    StartsWith(open, data, p), p <= c, Begins(CRLF, data, c)
             PROVE  \E q \in p .. c : Begins(close, data, q) /\ q + k <= c + Len(CRLF)
  BY DEF Closed
<1>1. at \in Nat /\ n \in Nat /\ k \in Nat /\ end \in 0 .. Len(whole) /\ Len(whole) \in Nat /\ n - at <= end
  BY DEF Position, PartOf
<1>2. Len(CRLF) = 2 /\ c + 2 <= n
  BY LineTerminator DEF Begins
<1> HIDE DEF n, k
<1>3. p \in at .. n /\ c \in at .. n /\ p <= c /\ c \in Nat /\ p \in Nat /\ p < n
  BY <1>1, <1>2
<1>4. StartsWith(open, whole, p + shift)
  <2>1. data[p + 1] = open
    BY DEF StartsWith
  <2>2. p \in p .. n
    BY <1>3
  <2>3. data[p + 1] = whole[(p + shift) + 1]
    BY <1>3, <2>2, PartSlices DEF n
  <2>4. p + shift < Len(whole)
    BY <1>1, <1>3
  <2> QED BY <2>1, <2>3, <2>4 DEF StartsWith
<1>5. Begins(CRLF, whole, c + shift)
  <2> DEFINE line == CRLF
  <2>1. Len(line) \in Nat /\ c + Len(line) <= n /\ Begins(line, data, c)
    BY <1>2
  <2> HIDE DEF line
  <2>2. Begins(line, whole, c + shift)
    BY <1>3, <2>1, PartBegins DEF n
  <2> QED BY <2>2 DEF line
<1>6. p + shift \in 0 .. Len(whole) /\ c + shift \in 0 .. Len(whole) /\ p + shift <= c + shift
  BY <1>1, <1>3
<1>7. PICK m \in p + shift .. c + shift : Begins(close, whole, m) /\ m + k <= c + shift + 2
  BY <1>2, <1>4, <1>5, <1>6 DEF Closed, k
<1> DEFINE q == m - shift
<1>8. q \in p .. c /\ q \in at .. n /\ q + shift = m /\ q + k <= n /\ q + k <= c + 2
  BY <1>1, <1>2, <1>3, <1>7
<1> HIDE DEF q
<1>9. Begins(close, data, q)
  BY <1>7, <1>8, PartBegins DEF n, k
<1> QED BY <1>2, <1>8, <1>9

(* While no line is ignored, the buffer is a part of the stream.           *)
LEMMA BufferInStream ==
  ASSUME ReadInv, ~ignoring
  PROVE  /\ PartOf(receivedData, scanCursor, stream, Len(arrived))
         /\ stream \in Seq(Bytes) /\ Position(receivedData, scanCursor)
<1>1. /\ TypeOK /\ UnreadIsTail /\ arrived = Slice(stream, 0, Len(arrived)) /\ stream \in Seq(Bytes)
      /\ Len(arrived) <= Len(stream) /\ Position(receivedData, scanCursor)
  BY CursorInBuffer DEF ReadInv, Types, ReadTypeOK
<1>2. arrived \in Seq(Bytes)
  BY <1>1 DEF TypeOK
<1>3. LET rest == Slice(receivedData, scanCursor, Len(receivedData)) IN
        Len(rest) <= Len(arrived) /\ rest = Slice(arrived, Len(arrived) - Len(rest), Len(arrived))
  BY <1>1 DEF UnreadIsTail, Unread, Passed
<1> QED BY <1>1, <1>2, <1>3, TailIsPart

(* So what the client opens is closed in the buffer.                       *)
LEMMA ClosedInBuffer ==
  ASSUME ReadInv, Client, ~ignoring
  PROVE  AllClosed(receivedData, scanCursor)
<1> DEFINE close(byte) == <<byte>>
           closeLength == <<"}", CR, LF>>
<1>1. /\ PartOf(receivedData, scanCursor, stream, Len(arrived))
      /\ stream \in Seq(Bytes) /\ Position(receivedData, scanCursor)
  BY BufferInStream
<1>2. ASSUME NEW open, NEW text, Len(text) \in Nat, Closed(open, text, stream, 0)
      PROVE  Closed(open, text, receivedData, scanCursor)
  BY <1>1, <1>2, ClosedInPart
<1>3. /\ Closed("[", close("]"), stream, 0) /\ Closed("<", close(">"), stream, 0)
      /\ Closed("{", closeLength, stream, 0)
  BY DEF Client, AllClosed
<1>4. Len(close("]")) \in Nat /\ Len(close(">")) \in Nat /\ Len(closeLength) \in Nat
  OBVIOUS
<1> HIDE DEF close, closeLength
<1>5. /\ Closed("[", close("]"), receivedData, scanCursor) /\ Closed("<", close(">"), receivedData, scanCursor)
      /\ Closed("{", closeLength, receivedData, scanCursor)
  BY <1>2, <1>3, <1>4, Zenon
<1> QED BY <1>5 DEF AllClosed, close, closeLength

-----------------------------------------------------------------------------
(* The tokens behind which a line has ended.                               *)

(* A text of two bytes.                                                    *)
LEMMA LineBegins ==
  ASSUME NEW data \in Seq(Bytes), NEW m \in Nat, m + 2 <= Len(data), data[m + 1] = CR, data[m + 2] = LF
  PROVE  Begins(CRLF, data, m)
<1>1. /\ m \in 0 .. Len(data) /\ m + 2 \in m .. Len(data) /\ (m + 2) - m = 2
  OBVIOUS
<1>2. /\ Slice(data, m, m + 2) \in Seq(Bytes) /\ Len(Slice(data, m, m + 2)) = 2
      /\ \A i \in 1 .. 2 : Slice(data, m, m + 2)[i] = data[m + i]
  <2> DEFINE b == m + 2
  <2>1. m \in 0 .. Len(data) /\ b \in m .. Len(data) /\ b - m = 2
    BY <1>1
  <2> HIDE DEF b
  <2>2. /\ Slice(data, m, b) \in Seq(Bytes) /\ Len(Slice(data, m, b)) = b - m
        /\ \A i \in 1 .. b - m : Slice(data, m, b)[i] = data[m + i]
    BY <2>1, SliceParts
  <2> QED BY <2>1, <2>2 DEF b
<1>3. CRLF \in Seq(Bytes) /\ Len(CRLF) = 2 /\ CRLF[1] = CR /\ CRLF[2] = LF
  <2>1. CRLF[2] = LF
    BY DEF CRLF
  <2> QED BY <2>1, LineTerminator
<1> DEFINE s == Slice(data, m, m + 2)
<1> HIDE DEF s
<1>4. \A i \in 1 .. 2 : s[i] = CRLF[i]
  <2>1. s[1] = data[m + 1] /\ s[2] = data[m + 2]
    BY <1>2 DEF s
  <2>2. \A i \in 1 .. 2 : i = 1 \/ i = 2
    OBVIOUS
  <2> QED BY <1>3, <2>1, <2>2
<1>5. s = CRLF
  BY <1>2, <1>3, <1>4, SeqEqual DEF s
<1> QED BY <1>3, <1>5 DEF s, Begins

(* A literal length ends with a line terminator.                           *)
LEMMA LengthEndsLine ==
  ASSUME NEW data, NEW at, Position(data, at), readLiteralLength(data, at).outcome = "token"
  PROVE  BehindLine(data, at, readLiteralLength(data, at).cursor)
<1> DEFINE brace == "}"
           close == <<brace, CR, LF>>
           opened == StartsWith("{", data, at)
           out == readEnclosed("LITERAL_LENGTH", "{", close, data, at)
           wellFormed == \A i \in 2 .. Len(out.lexeme.token) - 3 : out.lexeme.token[i] \in Digits
           ends == Occurrences(close, data, at)
           m == Min(ends)
           n == Len(data)
<1>0. data \in Seq(Bytes) /\ Len(data) \in Nat /\ at \in 0 .. Len(data)
  BY DEF Position
<1>1. opened /\ readLiteralLength(data, at) = Checked(out, wellFormed)
  BY DEF readLiteralLength, Null
<1>2. out.outcome = "token" /\ readLiteralLength(data, at) = out
  <2>1. Checked(out, wellFormed).outcome = "token"
    BY <1>1
  <2> HIDE DEF out, wellFormed, opened
  <2> QED BY <1>1, <2>1 DEF Checked, Throw
<1>3. ends # {} /\ out = Token("LITERAL_LENGTH", data, at, m + Len(close))
  BY <1>1, <1>2 DEF readEnclosed, Null
<1>4. close \in Seq(Bytes)
  BY Texts
<1> HIDE DEF out, opened, m, brace
<1>5. Len(close) = 3 /\ close[2] = CR /\ close[3] = LF
  OBVIOUS
<1> HIDE DEF close
<1>6. m \in ends
  <2>1. ends \in SUBSET Nat
    BY <1>0 DEF Occurrences
  <2> QED BY <1>3, <2>1, MinOfNaturals DEF m
<1>7. m \in at .. Len(data) /\ Begins(close, data, m)
  BY <1>6 DEF Occurrences
<1>8. m + 3 <= Len(data) /\ data[m + 2] = CR /\ data[m + 3] = LF
  <2>1. Position(data, m)
    BY <1>0, <1>7 DEF Position
  <2>2. m + Len(close) <= Len(data) /\ \A i \in 1 .. Len(close) : data[m + i] = close[i]
    BY <1>4, <1>7, <2>1, TextBytes
  <2> QED BY <1>5, <2>2
<1> HIDE DEF ends, n
<1>9. /\ m + 1 \in Nat /\ (m + 1) + 2 <= Len(data) /\ (m + 1) + 1 = m + 2 /\ (m + 1) + 2 = m + 3
      /\ m + 1 \in at .. Len(data) /\ (m + 3) - 2 = m + 1
  BY <1>0, <1>7, <1>8
<1>10. Begins(CRLF, data, m + 1)
  BY <1>0, <1>8, <1>9, LineBegins
<1>11. out.cursor = m + 3
  BY <1>3, <1>5 DEF Token
<1> QED BY <1>2, <1>9, <1>10, <1>11 DEF BehindLine

(* So of the tokens that end a command, a line or announce a literal.      *)
LEMMA LineEndsWithToken ==
  ASSUME NEW r \in Readers, NEW data, NEW at, Position(data, at),
         Reading(r, data, at).outcome = "token",
         Reading(r, data, at).lexeme.type \in {"END_OF_COMMAND", "NEWLINE", "LITERAL_LENGTH"}
  PROVE  BehindLine(data, at, Reading(r, data, at).cursor)
<1>1. CASE Reading(r, data, at).lexeme.type = "LITERAL_LENGTH"
  <2>1. r \in {"literalLength", "astring", "string", "mailboxList"}
    BY <1>1, ReadingType DEF HasType, TypesOf, Readers
  <2>2. Reading(r, data, at) \in {readLiteralLength(data, at), readDoubleQuotedString(data, at),
                                  readAtom(data, at), readList(data, at), Throw(at)}
    BY <2>1 DEF Reading, readAstring, readString, readMailboxList
  <2>3. ~(Reading(r, data, at) = readDoubleQuotedString(data, at))
    BY <1>1, OtherTypes DEF HasType
  <2>4. ~(Reading(r, data, at) = readAtom(data, at)) /\ ~(Reading(r, data, at) = readList(data, at))
    BY <1>1, RunType DEF HasType, readAtom, readList
  <2>5. ~(Reading(r, data, at) = Throw(at))
    BY DEF Throw
  <2> QED BY <2>2, <2>3, <2>4, <2>5, LengthEndsLine
<1>2. CASE Reading(r, data, at).lexeme.type \in {"END_OF_COMMAND", "NEWLINE"}
  BY <1>2, LineEndsRead
<1> QED BY <1>1, <1>2

(* A lexer that has read one of them has read up to the end of a line.     *)
LEMMA LexedEndsLine ==
  ASSUME NEW lexer, Starts(lexer), Position(receivedData, scanCursor), Lexed(lexer).outcome = "token",
         Lexed(lexer).lexeme.type \in {"END_OF_COMMAND", "NEWLINE", "LITERAL_LENGTH"}
  PROVE  BehindLine(receivedData, scanCursor, Lexed(lexer).cursor)
<1> DEFINE out == Lexed(lexer)
           n == Len(receivedData)
<1>1. Tries(lexer, ArgumentReaders) /\ ArgumentReaders \subseteq Readers
  BY DEF Starts, Tries, ReaderList, ArgumentReaders, Readers
<1>2. PICK r \in ArgumentReaders, c \in scanCursor .. n : out = Reading(r, receivedData, c)
  BY <1>1, LexedToken
<1>3. Position(receivedData, c) /\ r \in Readers /\ scanCursor \in Nat /\ n \in Nat
  BY <1>1 DEF Position
<1>4. out.outcome = "token" /\ out.lexeme.type \in {"END_OF_COMMAND", "NEWLINE", "LITERAL_LENGTH"}
  OBVIOUS
<1> HIDE DEF out, n
<1>5. BehindLine(receivedData, c, out.cursor)
  BY <1>2, <1>3, <1>4, LineEndsWithToken
<1>6. BehindLine(receivedData, scanCursor, out.cursor)
  BY <1>2, <1>3, <1>5 DEF BehindLine, n
<1> QED BY <1>6 DEF out

-----------------------------------------------------------------------------
(* What the arguments leave to read.                                       *)

(* The lexer of the arguments has a reader that waits where nothing is     *)
(* left.                                                                   *)
LEMMA ArgumentStarts ==
  ASSUME ReadInv, ShortLogin, ArgumentPlace
  PROVE  Starts(ArgumentLexer)
<1>1. CASE pc = "trailing"
  <2>1. ArgumentLexer = AnyOf(<<"space", "listEnd", "end">>)
    BY <1>1 DEF ArgumentLexer, SEARCHLexer
  <2> QED BY <2>1, ListsOfReaders, AnyStarts
<1>2. CASE pc # "trailing"
  <2>1. Name \in KnownCommands /\ FetchOK(currentCommand, Name) /\ currentCommand \in Seq(Lexemes)
    BY <1>2, ArgumentRead, CursorInBuffer DEF ReadInv, Places
  <2>2. ArgumentLexer = LexerOf(Name, currentCommand, pc # "arguments")
    BY <1>2 DEF ArgumentLexer, ArgumentName
  <2> QED BY <2>1, <2>2, LexersStart DEF ShortLogin
<1> QED BY <1>1, <1>2

(* Where anything is read or refused, an answer is due and no command      *)
(* runs.                                                                   *)
LEMMA ArgumentDue ==
  ASSUME ReadInv, ShortLogin, Turn, ArgumentPlace, Lexed(ArgumentLexer).outcome # "null"
  PROVE  Due /\ pending = <<>> /\ pc # "trailing"
<1>1. ~Exhausted
  <2> SUFFICES ASSUME Exhausted PROVE FALSE
    OBVIOUS
  <2>1. receivedData \in Seq(Bytes)
    BY CursorInBuffer DEF TypeOK
  <2>2. Lexed(ArgumentLexer) = Null(scanCursor)
    BY <2>1, ArgumentStarts, NothingLexed DEF Exhausted
  <2> QED BY <2>2 DEF Null
<1>2. pc \in {"arguments", "trailing"} \/ pc = "entering" \/ (pc = "start" /\ lineReady)
  BY DEF ArgumentPlace, Entering
<1> QED BY <1>1, <1>2 DEF Turn

(* An argument, the end of a command, or bad arguments.                    *)
LEMMA TakeArgumentTurn ==
  ASSUME ReadInv, Client, ShortLogin, Turn, TakeArgument
  PROVE  Turn'
<1> DEFINE out == Lexed(ArgumentLexer)
           type == out.lexeme.type
           next == NextPlace(ArgumentName, out.lexeme)
<1>1. /\ ArgumentPlace
      /\ \/ out.outcome = "null" /\ Advance(out) /\ pc' = "idle" /\ UNCHANGED <<pending, answered>>
         \/ out.outcome = "error" /\ BadArguments(out)
         \/ out.outcome = "token" /\ Advance(out) /\ respondToLexeme(out.lexeme, next)
      /\ UNCHANGED <<arrived, client>>
  BY DEF TakeArgument, ArgumentName, ArgumentLexer, ArgumentPlace, Name
<1>2. /\ ~ignoring /\ out.cursor \in scanCursor .. Len(receivedData)
      /\ pc # "trailing" => Len(currentCommand) >= 2 /\ Name \in KnownCommands
  BY <1>1, ArgumentRead
<1>3. TypeOK /\ Position(receivedData, scanCursor) /\ OnlyLine /\ currentCommand \in Seq(Lexemes)
      /\ Starts(ArgumentLexer)
  BY <1>1, CursorInBuffer, ArgumentStarts DEF Turn
<1>4. out.outcome # "null" => Due /\ pending = <<>> /\ pc # "trailing"
  BY <1>1, ArgumentDue
<1>5. Answers \in Nat /\ answered \in Nat /\ Len(pending) \in Nat /\ pending \in Seq(KnownCommands)
  BY AnswersCounted DEF ReadInv, Types, ReadTypeOK
<1>6. CASE out.outcome = "null" /\ Advance(out) /\ pc' = "idle" /\ UNCHANGED <<pending, answered>>
  <2>1. NoLine(receivedData, out.cursor)
    BY <1>2, <1>3, <1>6, ClosedInBuffer, LexedWaits
  <2> HIDE DEF out
  <2>2. Ahead /\ ~lineReady'
    BY <1>1, <1>2, <1>6, <2>1 DEF Advance, Ahead, NoLine, lineReady
  <2> QED BY <1>6, <2>2, TurnGoesOn DEF GoesOn
<1>7. CASE out.outcome = "error" /\ BadArguments(out)
  <2> HIDE DEF out
  <2>1. skipLine(out.cursor) /\ pc' = "idle" /\ answered' = answered + 1 /\ pending' = pending
    BY <1>7 DEF BadArguments
  <2>2. Ahead /\ ~lineReady'
    BY <1>1, <1>2, <1>3, <2>1, SkippedToNoLine
  <2>3. Answers' = Answers + 1
    BY <1>5, <2>1 DEF Answers
  <2> QED BY <1>4, <1>7, <2>1, <2>2, <2>3, TurnAnswers DEF Answered
<1>8. CASE out.outcome = "token" /\ Advance(out) /\ respondToLexeme(out.lexeme, next)
  <2>1. out.lexeme \in Lexemes
    BY <1>1, <1>8, ArgumentRead DEF TokenRead
  <2>2. type \in {"END_OF_COMMAND", "NEWLINE", "LITERAL_LENGTH"} =>
          BehindLine(receivedData, scanCursor, out.cursor)
    BY <1>3, <1>8, LexedEndsLine
  <2>3. /\ next \in {"idle", "arguments", "trailing"}
        /\ type # "END_OF_COMMAND" => next \in {"idle", "arguments"}
    BY <1>4, <1>8, NextPlaces
  <2>4. type # "END_OF_COMMAND" /\ next = "idle" => Name = "AUTHENTICATE" /\ Len(currentCommand) >= 5
    BY <1>4, <1>8 DEF NextPlace, ArgumentName
  <2> HIDE DEF out, next
  <2>5. Ahead /\ Due /\ pending = <<>> /\ pc # "trailing"
    BY <1>1, <1>2, <1>4, <1>8 DEF Advance, Ahead
  <2>6. type \in {"END_OF_COMMAND", "NEWLINE", "LITERAL_LENGTH"} => Exhausted' /\ ~lineReady'
    <3>1. ASSUME BehindLine(receivedData, scanCursor, out.cursor) PROVE Exhausted'
      <4>1. out.cursor - 2 + 2 = Len(receivedData)
        BY <1>3, <3>1, OnlyLinePassed
      <4>2. out.cursor - 2 + 2 = out.cursor
        BY <1>2
      <4> QED BY <1>8, <4>1, <4>2 DEF Advance, Exhausted
    <3> QED BY <1>3, <2>2, <2>5, <3>1, ExhaustedByStep
  <2>7. ASSUME currentCommand' = Append(currentCommand, out.lexeme)
        PROVE  Len(currentCommand') = Len(currentCommand) + 1 /\ Name' = Name /\ Len(currentCommand) >= 2
    BY <1>2, <1>3, <2>1, <2>5, <2>7, LexemeAppended
  <2>8. CASE type = "END_OF_COMMAND" /\ Execute(currentCommand) /\ pc' = next
    <3>1. pending' = Append(pending, Name) /\ answered' = answered
      BY <1>2, <2>5, <2>8 DEF Execute, Name
    <3>2. Answers' = Answers + 1 /\ Len(pending') <= 1
      BY <1>5, <2>5, <3>1 DEF Answers
    <3> QED BY <2>3, <2>5, <2>6, <2>8, <3>2, TurnAnswers DEF Answered
  <2>9. CASE /\ type = "NEWLINE" /\ currentCommand' = Append(currentCommand, out.lexeme)
             /\ Execute(currentCommand') /\ pc' = next
    <3>1. ~(Len(currentCommand') < 2) /\ CommandName(currentCommand') \in KnownCommands
      <4>1. Len(currentCommand) \in Nat
        BY <1>3
      <4> QED BY <1>2, <2>5, <2>7, <2>9, <4>1 DEF Name
    <3>2. Len(pending') = Len(pending) + 1 /\ answered' = answered
      BY <1>5, <2>9, <3>1 DEF Execute
    <3>3. Answers' = Answers + 1 /\ Len(pending') <= 1
      BY <1>5, <2>5, <3>2 DEF Answers
    <3> QED BY <2>3, <2>5, <2>6, <2>9, <3>3, TurnAnswers DEF Answered
  <2>10. CASE type = "LITERAL_LENGTH" /\ answered' = answered + 1 /\ pc' = next /\ pending' = pending
    <3>1. Answers' = Answers + 1
      BY <1>5, <2>10 DEF Answers
    <3> QED BY <2>3, <2>5, <2>6, <2>10, <3>1, TurnAnswers DEF Answered
  <2>11. CASE /\ type \notin {"END_OF_COMMAND", "NEWLINE", "LITERAL_LENGTH"}
              /\ currentCommand' = Append(currentCommand, out.lexeme)
              /\ answered' = answered /\ pc' = next /\ pending' = pending
    <3>1. next \in {"idle", "arguments"}
      BY <2>3, <2>11
    <3>2. pc' = "idle" => InExchange'
      <4>1. Len(currentCommand) \in Nat
        BY <1>3
      <4> QED BY <2>4, <2>7, <2>11, <4>1 DEF InExchange, Name
    <3> QED BY <2>5, <2>11, <3>1, <3>2, TurnGoesOn DEF GoesOn
  <2> QED BY <1>8, <2>8, <2>9, <2>10, <2>11 DEF respondToLexeme
<1> HIDE DEF out, next
<1> QED BY <1>1, <1>6, <1>7, <1>8

-----------------------------------------------------------------------------
(* What a data event leaves to read.                                       *)

(* While no line is ignored, the buffer is a part of the stream behind a   *)
(* data event, too.                                                        *)
LEMMA BufferInStreamNext ==
  ASSUME ReadInv', ~ignoring'
  PROVE  /\ PartOf(receivedData', scanCursor', stream', Len(arrived'))
         /\ Position(receivedData', scanCursor') /\ Passed' \in Int
         /\ Passed' = Len(arrived') - (Len(receivedData') - scanCursor')
<1>1. /\ TypeOK' /\ UnreadIsTail' /\ arrived' = Slice(stream', 0, Len(arrived')) /\ stream' \in Seq(Bytes)
      /\ Len(arrived') <= Len(stream')
  BY DEF ReadInv, Types, ReadTypeOK, Lines
<1>2. arrived' \in Seq(Bytes) /\ Position(receivedData', scanCursor')
  BY <1>1 DEF TypeOK, Position
<1>3. LET rest == Slice(receivedData', scanCursor', Len(receivedData')) IN
        Len(rest) <= Len(arrived') /\ rest = Slice(arrived', Len(arrived') - Len(rest), Len(arrived'))
  BY <1>1 DEF UnreadIsTail, Unread, Passed
<1>4. Len(Slice(receivedData', scanCursor', Len(receivedData'))) = Len(receivedData') - scanCursor'
  <2>1. Len(receivedData') \in scanCursor' .. Len(receivedData') /\ receivedData' \in Seq(Bytes)
        /\ scanCursor' \in 0 .. Len(receivedData')
    BY <1>2 DEF Position
  <2> QED BY <2>1, SliceParts
<1>5. Passed' = Len(arrived') - (Len(receivedData') - scanCursor')
  BY <1>4 DEF Passed, Unread
<1>6. Passed' \in Int
  BY <1>2, <1>5 DEF Position
<1> QED BY <1>1, <1>2, <1>3, <1>5, <1>6, TailIsPart

(* Of a line that was ignored nothing is kept.                             *)
LEMMA NothingIgnoredKept ==
  ASSUME ReadInv, NEW data \in Seq(Bytes), KeepBehindNewLine(data), Len(arrived') = Len(arrived) + Len(data),
         Passed' = Len(arrived') - (Len(receivedData') - scanCursor')
  PROVE  Passed' >= Len(arrived)
<1> DEFINE S == Occurrences(CRLF, data, 0)
<1>1. S # {} /\ receivedData' = Slice(data, Min(S) + 2, Len(data)) /\ scanCursor' = 0
  BY LineTerminator DEF KeepBehindNewLine
<1>2. Len(data) \in Nat /\ Len(arrived) \in Nat
  BY CursorInBuffer DEF TypeOK
<1>3. S \in SUBSET Nat
  BY <1>2 DEF Occurrences
<1>4. Min(S) \in S
  BY <1>1, <1>3, MinOfNaturals
<1>5. Min(S) \in Nat /\ Min(S) + 2 <= Len(data)
  BY <1>3, <1>4, LineTerminator DEF Occurrences, Begins
<1> HIDE DEF S
<1> DEFINE a == Min(S) + 2
           n == Len(data)
<1>6. a \in 0 .. n /\ n \in a .. n /\ a \in Nat
  BY <1>2, <1>5
<1>7. Len(receivedData') = n - a
  <2>1. receivedData' = Slice(data, a, n)
    BY <1>1
  <2> HIDE DEF a
  <2>2. Len(Slice(data, a, Len(data))) = Len(data) - a
    BY <1>6, SliceParts
  <2> QED BY <2>1, <2>2
<1> QED BY <1>1, <1>2, <1>6, <1>7

(* A client that waits sends nothing before it got an answer to all that   *)
(* it has sent, and sends one line at most.                                *)
LEMMA ClientMayNotSend ==
  ASSUME ReadInv, Client, Turn, ~Pipelines, NEW to \in Len(arrived) + 1 .. Len(stream), MaySend(to)
  PROVE  /\ pending = <<>> /\ ~Due
         /\ \A m \in stops : m <= Len(arrived) \/ to <= m
<1>1. PICK n \in stops : to <= n /\ Cardinality({m \in stops : m < n}) <= answered
  BY DEF MaySend
<1> DEFINE Before == {m \in stops : m < n}
<1>2. stops \subseteq Nat /\ Reached \subseteq stops /\ Before \subseteq stops
  BY DEF Client, StopsAtLines, Reached
<1>3. Len(arrived) \in Nat /\ to \in Nat /\ Len(arrived) < to /\ n \in Nat
  BY <1>2, CursorInBuffer DEF TypeOK
<1>4. Reached \subseteq Before
  <2> SUFFICES ASSUME NEW m \in stops, m <= Len(arrived) PROVE m < n
    BY DEF Reached
  <2> QED BY <1>1, <1>2, <1>3
<1>5. /\ Cardinality(Reached) \in Nat /\ Cardinality(Before) \in Nat /\ Answers \in Nat
      /\ answered \in Nat /\ Len(pending) \in Nat
  BY <1>2, ReachedCounted, AnswersCounted
<1>6. Cardinality(Reached) <= Cardinality(Before)
  BY <1>2, <1>4, ReachedCounted
<1>7. Cardinality(Before) <= answered /\ Answers <= Cardinality(Reached) /\ Answers = answered + Len(pending)
  BY <1>1 DEF Turn, Answers
<1> HIDE DEF Before
<1>8. Len(pending) = 0 /\ ~Due /\ Cardinality(Reached) = Cardinality(Before)
  BY <1>5, <1>6, <1>7 DEF Due
<1>9. pending = <<>>
  BY <1>8 DEF ReadInv, Types, ReadTypeOK
<1>10. ASSUME NEW m \in stops, ~(m <= Len(arrived)), ~(to <= m) PROVE FALSE
  <2>1. m \notin Reached /\ m \in Before
    BY <1>1, <1>2, <1>3, <1>10 DEF Reached, Before
  <2>2. Reached \cup {m} \subseteq Before /\ Before \subseteq stops
    BY <1>2, <1>4, <2>1
  <2>3. Cardinality(Reached \cup {m}) = Cardinality(Reached) + 1
    BY <1>2, <2>1, ReachedCounted
  <2>4. Cardinality(Reached \cup {m}) <= Cardinality(Before)
    BY <2>2, ReachedCounted
  <2> QED BY <1>5, <1>8, <2>3, <2>4
<1> QED BY <1>8, <1>9, <1>10

(* A line that is in the buffer behind a data event has just arrived, and  *)
(* its end is the last that arrived.                                       *)
LEMMA LineJustArrived ==
  ASSUME ReadInv, Client, Turn, ~Pipelines, ReceiveData,
         NEW c \in Occurrences(CRLF, receivedData, scanCursor)'
  PROVE  /\ c + 2 = Len(receivedData') /\ Len(arrived') \in stops
         /\ Len(arrived) < Len(arrived')
<1>1. PICK to \in Len(arrived) + 1 .. Len(stream) :
        /\ MaySend(to) /\ enqueueData(Slice(stream, Len(arrived), to)) /\ arrived' = Slice(stream, 0, to)
  BY DEF ReceiveData
<1> DEFINE data == Slice(stream, Len(arrived), to)
           n == Len(receivedData')
           P == c + (to - n)
<1>2. ReadInv' /\ Passed' >= Passed /\ stream' = stream /\ pc = "idle" /\ UNCHANGED client
  BY ReceiveDataKeeps DEF Kept, ReceiveData, client
<1>3. /\ stream \in Seq(Bytes) /\ Len(arrived) \in 0 .. Len(stream) /\ to \in Len(arrived) .. Len(stream)
      /\ 0 \in 0 .. Len(stream) /\ to \in 0 .. Len(stream) /\ Len(stream) \in Nat
  BY CursorInBuffer DEF ReadInv, Types, TypeOK
<1>4. data \in Seq(Bytes) /\ Len(data) = to - Len(arrived) /\ Len(arrived') = to
  BY <1>1, <1>3, SliceParts, StreamParts
<1>5. ~ignoring'
  BY <1>2 DEF ReadInv, Lines, lineReady
<1>6. /\ PartOf(receivedData', scanCursor', stream, to) /\ Position(receivedData', scanCursor')
      /\ Passed' = to - (Len(receivedData') - scanCursor')
  BY <1>2, <1>4, <1>5, BufferInStreamNext
<1>7. c \in scanCursor' .. n /\ Begins(CRLF, receivedData', c) /\ c + 2 <= n
  BY LineTerminator DEF Occurrences, Begins
<1>8. P \in 0 .. to /\ Begins(CRLF, stream, P)
  <2> DEFINE line == CRLF
  <2>1. Len(line) \in Nat /\ c + Len(line) <= n /\ Begins(line, receivedData', c)
    BY <1>7, LineTerminator
  <2> HIDE DEF line
  <2>2. Begins(line, stream, P)
    BY <1>3, <1>6, <1>7, <2>1, PartBegins
  <2>3. c \in c .. n
    BY <1>6, <1>7 DEF Position
  <2>4. P \in 0 .. to
    BY <1>3, <1>6, <1>7, <2>3, PartSlices
  <2> QED BY <2>2, <2>4 DEF line
<1>9. n \in Nat /\ scanCursor' \in 0 .. n
  BY <1>6 DEF Position
<1> HIDE DEF data, n
<1>10. P + 2 <= to /\ P >= Passed' /\ P \in Nat
  BY <1>3, <1>6, <1>7, <1>8, <1>9 DEF n
<1>11. P + 2 \in stops
  BY <1>3, <1>8, LineTerminator DEF Client, StopsAtLines
<1> HIDE DEF P
<1>12. ~(P + 2 <= Len(arrived))
  <2> SUFFICES ASSUME P + 2 <= Len(arrived) PROVE FALSE
    OBVIOUS
  <2>1. CASE ignoring
    <3>1. KeepBehindNewLine(data)
      BY <1>1, <1>5, <2>1 DEF enqueueData, AppendData, DropData, data
    <3>2. Len(arrived') = Len(arrived) + Len(data)
      BY <1>3, <1>4
    <3>3. Passed' >= Len(arrived)
      BY <1>4, <1>6, <3>1, <3>2, NothingIgnoredKept
    <3>4. Passed' \in Int
      BY <1>3, <1>6, <1>9 DEF n
    <3> QED BY <1>3, <1>10, <3>3, <3>4
  <2>2. CASE ~ignoring
    <3> DEFINE m == Len(receivedData)
               a == P - (Len(arrived) - m)
    <3>1. /\ PartOf(receivedData, scanCursor, stream, Len(arrived)) /\ Position(receivedData, scanCursor)
          /\ Passed = Len(arrived) - (m - scanCursor)
      BY <2>2, BufferInStream, CursorInBuffer, PassedForm
    <3>2. m \in Nat /\ scanCursor \in 0 .. m
      BY <3>1 DEF Position
    <3>3. Passed' \in Int /\ Passed \in Int
      BY <1>3, <1>6, <1>9, <3>1, <3>2 DEF n
    <3> HIDE DEF m
    <3>4. a \in scanCursor .. m /\ a + 2 <= m /\ a + (Len(arrived) - m) = P
      BY <1>2, <1>3, <1>10, <3>1, <3>2, <3>3
    <3> HIDE DEF a
    <3>5. Begins(CRLF, receivedData, a)
      <4> DEFINE line == CRLF
      <4>1. Len(line) \in Nat /\ a + Len(line) <= m /\ Begins(line, stream, P)
        BY <1>8, <3>4, LineTerminator
      <4> HIDE DEF line
      <4>2. Begins(line, receivedData, a)
        BY <1>3, <3>1, <3>4, <4>1, PartBegins DEF m
      <4> QED BY <4>2 DEF line
    <3>6. lineReady
      BY <3>4, <3>5 DEF Occurrences, lineReady, m
    <3>7. ~Due
      BY <1>1, ClientMayNotSend
    <3> QED BY <3>6, <3>7 DEF Turn
  <2> QED BY <2>1, <2>2
<1>13. P + 2 = to
  <2>1. P + 2 <= Len(arrived) \/ to <= P + 2
    BY <1>1, <1>11, ClientMayNotSend
  <2> QED BY <1>3, <1>10, <1>12, <2>1
<1>14. c + 2 = n /\ Len(arrived) < to
  BY <1>3, <1>6, <1>7, <1>9, <1>13 DEF P, n
<1> QED BY <1>4, <1>11, <1>13, <1>14 DEF n

(* So an answer is due to it.                                              *)
LEMMA ReceiveDataTurn ==
  ASSUME ReadInv, Client, Turn, ~Pipelines, ReceiveData
  PROVE  Turn'
<1>1. PICK to \in Len(arrived) + 1 .. Len(stream) : MaySend(to) /\ arrived' = Slice(stream, 0, to)
  BY DEF ReceiveData
<1>2. pc' = "start" /\ UNCHANGED <<stops, pending, answered>> /\ Answers' = Answers
  BY DEF ReceiveData, client, Answers
<1>3. pending = <<>> /\ ~Due
  BY <1>1, ClientMayNotSend
<1>4. /\ stream \in Seq(Bytes) /\ Len(arrived) \in 0 .. Len(stream) /\ to \in Len(arrived) .. Len(stream)
      /\ 0 \in 0 .. Len(stream) /\ to \in 0 .. Len(stream) /\ Len(stream) \in Nat
  BY CursorInBuffer DEF ReadInv, Types, TypeOK
<1>5. Len(arrived') = to
  BY <1>1, <1>4, StreamParts
<1> DEFINE Now == {m \in stops : m <= to}
<1>6. Reached' = Now
  BY <1>2, <1>5 DEF Reached
<1>7. stops \subseteq Nat /\ Reached \subseteq stops /\ Now \subseteq stops
  BY DEF Client, StopsAtLines, Reached
<1>8. Reached \subseteq Now
  <2> SUFFICES ASSUME NEW m \in stops, m <= Len(arrived) PROVE m <= to
    BY DEF Reached
  <2> QED BY <1>4, <1>7
<1>9. /\ Cardinality(Reached) \in Nat /\ Cardinality(Now) \in Nat /\ Answers \in Nat
      /\ Cardinality(Reached) <= Cardinality(Now)
  BY <1>7, <1>8, ReachedCounted, AnswersCounted
<1>10. Answers' <= Cardinality(Reached')
  BY <1>2, <1>6, <1>9 DEF Turn
<1>11. OnlyLine'
  BY LineJustArrived DEF OnlyLine
<1>12. ASSUME lineReady' PROVE Due'
  <2>1. PICK c : c \in Occurrences(CRLF, receivedData, scanCursor)'
    BY <1>12 DEF lineReady
  <2>2. to \in stops /\ Len(arrived) < to
    BY <1>5, <2>1, LineJustArrived
  <2>3. to \in Now /\ to \notin Reached
    BY <1>4, <2>2 DEF Reached
  <2>4. Reached \cup {to} \subseteq Now
    BY <1>8, <2>3
  <2>5. Cardinality(Reached \cup {to}) = Cardinality(Reached) + 1
    BY <1>7, <2>3, ReachedCounted
  <2>6. Cardinality(Reached \cup {to}) <= Cardinality(Now)
    BY <1>7, <2>4, ReachedCounted
  <2> HIDE DEF Now
  <2>7. Answers <= Cardinality(Reached)
    BY DEF Turn
  <2> QED BY <1>2, <1>6, <1>9, <2>5, <2>6, <2>7 DEF Due
<1>13. pending' # <<>> => FALSE
  BY <1>2, <1>3
<1> HIDE DEF Now
<1>14. pending' # <<>> => ~lineReady' /\ pc' \notin {"start", "command", "entering"}
  BY <1>13
<1> QED BY <1>2, <1>10, <1>11, <1>12, <1>14 DEF Turn

(* The end of a callback is the answer.                                    *)
LEMMA CallbackEndsTurn ==
  ASSUME ReadInv, Client, Turn, CallbackEnds
  PROVE  Turn'
<1>1. /\ pc = "idle" /\ pc' = "idle" /\ answered' = answered + 1
      /\ UNCHANGED <<receivedData, scanCursor, arrived, stops>>
  BY DEF CallbackEnds, scannerVars, client
<1>2. PICK i \in DOMAIN pending : pending' = RemoveAt(pending, i)
  BY DEF CallbackEnds
<1>3. pending \in Seq(KnownCommands) /\ answered \in Nat /\ Len(pending) \in Nat
  BY AnswersCounted DEF ReadInv, Types, ReadTypeOK
<1>4. i \in 1 .. Len(pending) /\ Len(pending') = Len(pending) - 1
  <2>1. /\ SubSeq(pending, 1, i - 1) \in Seq(KnownCommands) /\ Len(SubSeq(pending, 1, i - 1)) = i - 1
        /\ SubSeq(pending, i + 1, Len(pending)) \in Seq(KnownCommands)
        /\ Len(SubSeq(pending, i + 1, Len(pending))) = Len(pending) - i
    BY <1>3
  <2> DEFINE before == SubSeq(pending, 1, i - 1)
             behind == SubSeq(pending, i + 1, Len(pending))
  <2>2. pending' = before \o behind
    BY <1>2 DEF RemoveAt
  <2>3. i \in 1 .. Len(pending)
    BY <1>3
  <2> HIDE DEF before, behind
  <2>4. Len(before \o behind) = Len(before) + Len(behind)
    BY <2>1 DEF before, behind
  <2> QED BY <1>3, <2>1, <2>2, <2>3, <2>4 DEF before, behind
<1>5. pending # <<>> /\ ~lineReady
  <2>1. pending # <<>>
    BY <1>3, <1>4
  <2> QED BY <2>1 DEF Turn
<1>6. Answers' = Answers
  BY <1>1, <1>3, <1>4 DEF Answers
<1>7. OnlyLine' /\ ~lineReady' /\ Reached' = Reached
  BY <1>1, <1>5 DEF Turn, OnlyLine, lineReady, Reached
<1>8. Len(pending') <= 1
  BY <1>3, <1>4 DEF Turn
<1> QED BY <1>1, <1>6, <1>7, <1>8 DEF Turn

-----------------------------------------------------------------------------
(* What each action leaves of the command.                                 *)

(* Behind the arguments of LOGIN only its end is read.                     *)
LEMMA LoginEnds ==
  ASSUME ReadInv, ArgumentPlace, pc # "trailing", Name = "LOGIN", Len(currentCommand) = 6,
         Lexed(ArgumentLexer).outcome = "token"
  PROVE  Lexed(ArgumentLexer).lexeme.type = "END_OF_COMMAND"
<1> DEFINE end == <<"end">>
<1>1. ArgumentLexer = LOGINLexer(currentCommand)
  BY DEF ArgumentLexer, ArgumentName, LexerOf, SimpleCommands, MailboxCommands, ListCommands
<1>2. LOGINLexer(currentCommand) = AnyOf(end)
  <2> DEFINE readers == << <<"space">>, <<"astring">>, <<"space">>, <<"astring">> >>
  <2>1. DOMAIN readers = 1 .. 4
    OBVIOUS
  <2>2. LOGINLexer(currentCommand) = Positional(readers, currentCommand)
    BY DEF LOGINLexer
  <2> HIDE DEF readers
  <2> QED BY <2>1, <2>2 DEF Positional
<1>3. end \in Seq({"end"}) /\ {"end"} \subseteq Readers
  BY DEF Readers
<1> HIDE DEF end
<1>4. Tries(ArgumentLexer, {"end"})
  BY <1>1, <1>2, <1>3, TriesAny
<1>5. TokenRead(Lexed(ArgumentLexer), {"end"})
  BY <1>3, <1>4, CursorInBuffer, TokenOfReader
<1>6. UNION {TypesOf(r) : r \in {"end"}} = {"END_OF_COMMAND"}
  BY DEF TypesOf
<1> QED BY <1>5, <1>6 DEF TokenRead

(* So LOGIN gets no argument more than it has.                             *)
LEMMA ShortLoginKept ==
  ASSUME ReadInv, ShortLogin, Turn, ReadNext, socket' = "open"
  PROVE  ShortLogin'
<1>0. Len(currentCommand) \in Nat /\ currentCommand \in Seq(Lexemes)
  BY CursorInBuffer
<1>1. ASSUME currentCommand' \in {currentCommand, <<>>} PROVE ShortLogin'
  <2>1. CASE currentCommand' = currentCommand
    BY <2>1 DEF ShortLogin, Name
  <2>2. CASE currentCommand' = <<>>
    BY <2>2 DEF ShortLogin
  <2> QED BY <1>1, <2>1, <2>2
<1>2. ASSUME ReceiveData \/ SkipOverlong \/ AwaitLine \/ SkipUnknown \/ CallbackEnds PROVE ShortLogin'
  BY <1>1, <1>2 DEF ReceiveData, SkipOverlong, AwaitLine, SkipUnknown, CallbackEnds
<1>3. CASE TakeTag
  <2>1. currentCommand' = currentCommand \/ \E lexeme : currentCommand' = <<lexeme>>
    BY <1>3 DEF TakeTag, Fail
  <2>2. CASE \E lexeme : currentCommand' = <<lexeme>>
    BY <2>2 DEF ShortLogin
  <2> QED BY <1>1, <2>1, <2>2
<1>4. CASE TakeCommand
  <2>1. Len(currentCommand) = 1
    BY <1>4 DEF TakeCommand, ReadInv, Places
  <2>2. currentCommand' = currentCommand \/ \E lexeme : currentCommand' = Append(currentCommand, lexeme)
    BY <1>4 DEF TakeCommand, Fail
  <2>3. ASSUME NEW lexeme, currentCommand' = Append(currentCommand, lexeme) PROVE ShortLogin'
    <3>1. Len(currentCommand') = 2
      BY <1>0, <2>1, <2>3
    <3> QED BY <3>1 DEF ShortLogin
  <2> QED BY <1>1, <2>2, <2>3
<1>5. CASE TakeLiteral
  <2>1. ReadInv' /\ Len(currentCommand) >= 2
    BY <1>5, TakeLiteralKeeps, EnteringForm DEF Kept, TakeLiteral
  <2>2. \/ currentCommand' = currentCommand
        \/ \E lexeme : currentCommand' = Append(Front(currentCommand), lexeme)
    BY <1>5 DEF TakeLiteral, Fail
  <2>3. Len(currentCommand) > 2
    <3> DEFINE m == Len(currentCommand)
    <3>1. m \in DOMAIN currentCommand /\ currentCommand[m].type = "LITERAL_LENGTH"
      <4>1. LastType(currentCommand) = "LITERAL_LENGTH"
        BY <1>5 DEF TakeLiteral
      <4> QED BY <1>0, <2>1, <4>1 DEF LastType, Last
    <3>2. LengthOK(m)
      BY <3>1 DEF ReadInv, Places
    <3> QED BY <3>1, <3>2 DEF LengthOK
  <2>4. ASSUME NEW lexeme, currentCommand' = Append(Front(currentCommand), lexeme) PROVE ShortLogin'
    <3>1. lexeme \in Lexemes
      <4> DEFINE front == Front(currentCommand)
      <4>1. front \in Seq(Lexemes) /\ currentCommand' \in Seq(Lexemes)
        BY <1>0, <2>1, <2>3 DEF Front, ReadInv, Types
      <4> HIDE DEF front
      <4>2. currentCommand' = Append(front, lexeme)
        BY <2>4 DEF front
      <4>3. currentCommand'[Len(front) + 1] = lexeme /\ Len(front) + 1 \in DOMAIN currentCommand'
        BY <4>1, <4>2
      <4> QED BY <4>1, <4>3
    <3>2. Len(currentCommand') = Len(currentCommand) /\ Name' = Name
      BY <1>0, <2>3, <2>4, <3>1, LexemeReplaced
    <3> QED BY <3>2 DEF ShortLogin
  <2> QED BY <1>1, <2>2, <2>4
<1>6. CASE TakeArgument
  <2> DEFINE out == Lexed(ArgumentLexer)
             next == NextPlace(ArgumentName, out.lexeme)
  <2>1. /\ ArgumentPlace
        /\ \/ currentCommand' \in {currentCommand, <<>>}
           \/ out.outcome = "token" /\ respondToLexeme(out.lexeme, next)
    BY <1>6 DEF TakeArgument, ArgumentName, ArgumentLexer, ArgumentPlace, Name, BadArguments
  <2>2. CASE out.outcome = "token" /\ respondToLexeme(out.lexeme, next)
    <3>1. pc # "trailing"
      BY <2>1, <2>2, ArgumentDue
    <3>2. Len(currentCommand) >= 2 /\ out.lexeme \in Lexemes
      BY <2>1, <2>2, <3>1, ArgumentRead DEF TokenRead
    <3>3. Name = "LOGIN" /\ Len(currentCommand) = 6 => out.lexeme.type = "END_OF_COMMAND"
      BY <2>1, <2>2, <3>1, LoginEnds
    <3> HIDE DEF out, next
    <3>4. \/ currentCommand' = <<>>
          \/ out.lexeme.type # "END_OF_COMMAND" /\ currentCommand' = Append(currentCommand, out.lexeme)
      BY <2>2 DEF respondToLexeme
    <3>5. ASSUME out.lexeme.type # "END_OF_COMMAND", currentCommand' = Append(currentCommand, out.lexeme)
          PROVE  ShortLogin'
      <4>1. Len(currentCommand') = Len(currentCommand) + 1 /\ Name' = Name
        BY <1>0, <3>2, <3>5, LexemeAppended
      <4>2. SUFFICES ASSUME Len(currentCommand') > 6, Name = "LOGIN" PROVE FALSE
        BY <4>1 DEF ShortLogin
      <4>3. ~(Len(currentCommand) > 6)
        BY <4>2 DEF ShortLogin
      <4>4. Len(currentCommand) = 6
        <5> DEFINE n == Len(currentCommand)  k == Len(currentCommand')
        <5>1. n \in Nat /\ k = n + 1 /\ k > 6 /\ ~(n > 6)
          BY <1>0, <4>1, <4>2, <4>3
        <5> HIDE DEF n, k
        <5>2. n = 6
          BY <5>1
        <5> QED BY <5>2 DEF n
      <4> QED BY <3>3, <3>5, <4>2, <4>4
    <3> QED BY <1>1, <3>4, <3>5
  <2> QED BY <1>1, <2>1, <2>2
<1> QED BY <1>2, <1>3, <1>4, <1>5, <1>6 DEF ReadNext, Read

-----------------------------------------------------------------------------
(* The theorem.                                                            *)

(* Before anything has arrived nothing is due.                             *)
LEMMA WaitsAtFirst == ASSUME ClientWaits, ReadInit PROVE WaitInv
<1>1. PICK lines \in Scripts : stream = TextOf(lines) /\ stops = StopsOf(lines)
  BY DEF ReadInit
<1>2. Client
  BY <1>1 DEF ClientWaits, Client
<1>3. /\ receivedData = <<>> /\ scanCursor = 0 /\ currentCommand = <<>> /\ pc = "idle"
      /\ pending = <<>> /\ answered = 0
  BY DEF ReadInit, Init
<1>4. ShortLogin
  BY <1>3 DEF ShortLogin
<1>5. Exhausted /\ TypeOK
  BY <1>3, ReadInitInv, CursorInBuffer DEF Exhausted
<1>6. ~lineReady
  BY <1>5, ExhaustedHasNoLine
<1>7. Turn
  <2>1. OnlyLine
    BY <1>6 DEF OnlyLine, lineReady
  <2>2. Answers <= Cardinality(Reached)
    <3>1. Answers = 0
      BY <1>3 DEF Answers
    <3>2. Cardinality(Reached) \in Nat
      BY <1>2, ReachedCounted
    <3> QED BY <3>1, <3>2
  <2> QED BY <1>3, <1>6, <2>1, <2>2 DEF Turn
<1> QED BY <1>2, <1>4, <1>7 DEF WaitInv

(* What is closed is not opened again.                                     *)
LEMMA StaysClosed ==
  ASSUME ReadNext, socket' = "open"
  PROVE  socket = "open"
BY DEF ReadNext, Read, ReceiveData, SkipOverlong, AwaitLine, TakeTag, TakeCommand, TakeLiteral, SkipUnknown,
   TakeArgument, CallbackEnds, Fail, CloseAbove, BadArguments

(* The client does not change what it sends.                               *)
LEMMA ClientKept ==
  ASSUME Client, ReadNext
  PROVE  Client'
<1>1. UNCHANGED <<stream, stops>>
  BY DEF ReadNext, Read, ReceiveData, SkipOverlong, AwaitLine, TakeTag, TakeCommand, TakeLiteral, SkipUnknown,
     TakeArgument, CallbackEnds, client
<1> QED BY <1>1 DEF Client

(* Each step keeps the invariant.                                          *)
LEMMA WaitStep ==
  ASSUME ~Pipelines, ReadInv, WaitInv, ReadNext
  PROVE  WaitInv'
<1>1. Client /\ Client'
  BY ClientKept DEF WaitInv
<1>2. ASSUME socket' = "open" PROVE ShortLogin' /\ Turn'
  <2>1. ShortLogin /\ Turn
    BY <1>2, StaysClosed DEF WaitInv
  <2>2. ShortLogin'
    BY <1>2, <2>1, ShortLoginKept
  <2>3. Turn'
    BY <1>1, <1>2, <2>1, ReceiveDataTurn, SkipOverlongTurn, AwaitLineTurn, TakeTagTurn, TakeCommandTurn,
       TakeLiteralTurn, SkipUnknownTurn, TakeArgumentTurn, CallbackEndsTurn DEF ReadNext, Read
  <2> QED BY <2>2, <2>3
<1> QED BY <1>1, <1>2 DEF WaitInv

(* The client and the connection take turns.                               *)
THEOREM TakingTurns == ASSUME ClientWaits PROVE IntakeSpec => []WaitInv
<1>1. ReadInit => WaitInv
  BY WaitsAtFirst
<1>2. WaitInv /\ UNCHANGED intakeVars => WaitInv'
  <2> SUFFICES ASSUME WaitInv, UNCHANGED intakeVars PROVE WaitInv'
    OBVIOUS
  <2>1. UNCHANGED <<receivedData, scanCursor, arrived, stream, stops, currentCommand, socket, pc, pending, answered>>
    BY DEF intakeVars, scannerVars, client
  <2>2. Client'
    BY <2>1 DEF WaitInv, Client
  <2>3. socket' = "open" => ShortLogin'
    BY <2>1 DEF WaitInv, ShortLogin, Name
  <2>4. Turn => Turn'
    BY <2>1 DEF Turn, OnlyLine, Answers, Reached, Due, Exhausted, lineReady, IsOverlong, WaitsForLiteral,
       InExchange
  <2> QED BY <2>1, <2>2, <2>3, <2>4 DEF WaitInv
<1>3. ReadInv /\ WaitInv /\ [ReadNext]_intakeVars => WaitInv'
  BY <1>2, WaitStep DEF ClientWaits
<1> QED BY <1>1, <1>3, ReadInvariant, PTL DEF IntakeSpec

(* Between the events no complete line is left in the buffer that could be *)
(* read: what a client that waits has sent is read when it arrives, up to  *)
(* the answer that the client waits for.                                   *)
THEOREM EveryLineIsRead == ASSUME ClientWaits PROVE IntakeSpec => []EveryLineRead
<1>1. WaitInv => EveryLineRead
  BY DEF WaitInv, Turn, EveryLineRead
<1> QED BY <1>1, TakingTurns, PTL

(* Such a client has one command running at a time, as the theorems about  *)
(* one slot of a connection assume, and never gets an answer more than it  *)
(* has stopped for.                                                        *)
OneAtATime == socket = "open" => Len(pending) <= 1 /\ Answers <= Cardinality(Reached)

THEOREM OneCommandAtATime == ASSUME ClientWaits PROVE IntakeSpec => []OneAtATime
<1>1. WaitInv => OneAtATime
  BY DEF WaitInv, Turn, OneAtATime
<1> QED BY <1>1, TakingTurns, PTL
=============================================================================
