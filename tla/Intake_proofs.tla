---------------------------- MODULE Intake_proofs ----------------------------
(***************************************************************************)
(* What Intake guarantees to any client, also one that pipelines or sends  *)
(* arbitrary bytes, for any alphabet, limits and cuts into data events.    *)
(***************************************************************************)
EXTENDS Intake, Scanner_proofs

-----------------------------------------------------------------------------
(* Recursion, where a reader or a number is made of the one before.        *)

Steps(n, V) == [(1 .. n) \X V -> V]
Iteration(f, n, V, base, step) ==
  /\ f \in [0 .. n -> V]
  /\ f[0] = base
  /\ \A i \in 1 .. n : f[i] = step[<<i, f[i - 1]>>]

(* A step that stays in a set can be iterated, and stays in it.            *)
LEMMA Iterates ==
  ASSUME NEW n \in Nat, NEW V, NEW base \in V, NEW step \in Steps(n, V)
  PROVE  \E f : Iteration(f, n, V, base, step)
<1> DEFINE Good(k) == \E f : Iteration(f, k, V, base, step)
           Bad == {k \in 0 .. n : ~Good(k)}
<1>0. step \in [(1 .. n) \X V -> V]
  BY DEF Steps
<1>1. Good(0)
  <2> DEFINE f == [i \in 0 .. 0 |-> base]
  <2>1. f \in [0 .. 0 -> V] /\ f[0] = base
    OBVIOUS
  <2>2. 1 .. 0 = {}
    OBVIOUS
  <2> HIDE DEF f
  <2> QED BY <2>1, <2>2 DEF Iteration
<1>2. ASSUME NEW k \in 1 .. n, Good(k - 1) PROVE Good(k)
  <2>1. PICK g \in [0 .. k - 1 -> V] :
          g[0] = base /\ \A i \in 1 .. k - 1 : g[i] = step[<<i, g[i - 1]>>]
    BY <1>2 DEF Iteration
  <2> DEFINE f == [i \in 0 .. k |-> IF i = k THEN step[<<k, g[k - 1]>>] ELSE g[i]]
  <2>2. <<k, g[k - 1]>> \in (1 .. n) \X V
    BY <2>1
  <2>3. \A i \in 0 .. k - 1 : i \in 0 .. k /\ i # k
    OBVIOUS
  <2>4. f \in [0 .. k -> V]
    BY <1>0, <2>1, <2>2
  <2>5. f[k] = step[<<k, g[k - 1]>>] /\ \A i \in 0 .. k - 1 : f[i] = g[i]
    BY <2>3
  <2> HIDE DEF f
  <2>6. ASSUME NEW i \in 1 .. k PROVE f[i] = step[<<i, f[i - 1]>>]
    <3>1. i - 1 \in 0 .. k - 1
      OBVIOUS
    <3>2. CASE i = k
      BY <2>5, <3>1, <3>2
    <3>3. CASE i # k
      <4>1. i \in 1 .. k - 1 /\ i \in 0 .. k - 1
        BY <3>3
      <4> QED BY <2>1, <2>5, <3>1, <4>1
    <3> QED BY <3>2, <3>3
  <2>7. 0 \in 0 .. k - 1
    OBVIOUS
  <2> QED BY <2>1, <2>4, <2>5, <2>6, <2>7 DEF Iteration
<1> HIDE DEF Good
<1>3. ASSUME Bad # {} PROVE FALSE
  <2> DEFINE k == Min(Bad)
  <2>1. Bad \in SUBSET Nat
    OBVIOUS
  <2>2. k \in Bad /\ \A x \in Bad : k <= x
    BY <1>3, <2>1, MinOfNaturals
  <2> HIDE DEF k
  <2>3. k \in 0 .. n /\ ~Good(k)
    BY <2>2
  <2>4. k # 0
    BY <1>1, <2>3
  <2>5. k \in 1 .. n /\ k - 1 \in 0 .. n /\ ~(k <= k - 1)
    BY <2>3, <2>4
  <2>6. Good(k - 1)
    BY <2>2, <2>5
  <2> QED BY <1>2, <2>3, <2>5, <2>6
<1>4. Good(n)
  BY <1>3
<1> QED BY <1>4 DEF Good

(* What a list of readers may return: what one of them does, at the cursor *)
(* or behind it, or the error they start from.                             *)
AnyOutcomes(readers, data, at) ==
  {Throw(at)} \cup {Reading(readers[i], data, c) : i \in DOMAIN readers, c \in at .. Len(data)}

(* They are tried in turn, as long as they throw.                          *)
NextTried(reader, data, out) == IF out.outcome = "error" THEN Reading(reader, data, out.cursor) ELSE out

LEMMA AnyUnfolds ==
  ASSUME NEW readers \in Seq(Readers), NEW data, NEW at, Position(data, at)
  PROVE  \E tried :
           /\ tried[0] = Throw(at) /\ readAny(readers, data, at) = tried[Len(readers)]
           /\ \A i \in 0 .. Len(readers) : tried[i] \in AnyOutcomes(readers, data, at)
           /\ \A i \in 1 .. Len(readers) : tried[i] = NextTried(readers[i], data, tried[i - 1])
<1> DEFINE n == Len(readers)
           V == AnyOutcomes(readers, data, at)
           next(i, out) == IF out.outcome = "error" THEN Reading(readers[i], data, out.cursor) ELSE out
           step == [p \in (1 .. n) \X V |-> next(p[1], p[2])]
           Body(f) == [i \in 0 .. n |->
                        LET out == IF i = 0 THEN Throw(at) ELSE f[i - 1] IN
                        IF i > 0 /\ out.outcome = "error" THEN Reading(readers[i], data, out.cursor)
                        ELSE out]
           tried == CHOOSE f : f = Body(f)
<1>1. n \in Nat /\ DOMAIN readers = 1 .. n /\ Throw(at) \in V
  BY DEF AnyOutcomes
<1>2. \A out \in V : out.cursor \in at .. Len(data)
  <2>1. Throw(at).cursor \in at .. Len(data)
    BY DEF Throw, Position
  <2>2. ASSUME NEW i \in 1 .. n, NEW c \in at .. Len(data)
        PROVE  Reading(readers[i], data, c).cursor \in at .. Len(data)
    <3>1. readers[i] \in Readers /\ Position(data, c)
      BY DEF Position
    <3>2. Sound(Reading(readers[i], data, c), data, c)
      BY <3>1, ReadingSound
    <3> QED BY <3>2 DEF Sound, Position
  <2> QED BY <1>1, <2>1, <2>2 DEF AnyOutcomes
<1>3. \A i \in 1 .. n, out \in V : next(i, out) \in V
  BY <1>1, <1>2 DEF AnyOutcomes
<1> HIDE DEF V, next, n
<1>4. step \in Steps(n, V)
  BY <1>3 DEF Steps
<1>5. ASSUME NEW i \in 1 .. n, NEW out \in V PROVE step[<<i, out>>] = next(i, out)
  <2>1. <<i, out>> \in (1 .. n) \X V
    OBVIOUS
  <2> QED BY <2>1
<1> HIDE DEF step
<1>6. PICK f : Iteration(f, n, V, Throw(at), step)
  BY <1>1, <1>4, Iterates
<1>7. \A i \in 1 .. n : f[i] = next(i, f[i - 1])
  <2>1. \A i \in 1 .. n : f[i - 1] \in V
    BY <1>1, <1>6 DEF Iteration
  <2> QED BY <1>5, <1>6, <2>1 DEF Iteration
<1>8. f = Body(f)
  <2>1. \A i \in 0 .. n : f[i] = Body(f)[i]
    BY <1>1, <1>6, <1>7 DEF next, Iteration
  <2> QED BY <1>6, <2>1 DEF Iteration
<1>9. tried = Body(tried)
  BY <1>8
<1>10. readAny(readers, data, at) = tried[n]
  BY DEF readAny, n
<1> HIDE DEF tried
<1>11. /\ tried[0] = Throw(at)
       /\ \A i \in 1 .. n : tried[i] = next(i, tried[i - 1])
  <2>1. \A i \in 0 .. n : tried[i] = Body(tried)[i]
    BY <1>9
  <2> QED BY <1>1, <2>1 DEF next
<1>12. \A i \in 0 .. n : tried[i] \in V
  <2> DEFINE Bad == {i \in 0 .. n : tried[i] \notin V}
  <2>1. ASSUME Bad # {} PROVE FALSE
    <3> DEFINE k == Min(Bad)
    <3>1. Bad \in SUBSET Nat
      BY <1>1
    <3>2. k \in Bad /\ \A x \in Bad : k <= x
      BY <2>1, <3>1, MinOfNaturals
    <3> HIDE DEF k
    <3>3. k \in 1 .. n /\ k - 1 \in 0 .. n /\ ~(k <= k - 1) /\ tried[k] \notin V
      BY <1>1, <1>11, <3>2
    <3>4. tried[k - 1] \in V
      BY <3>2, <3>3
    <3> QED BY <1>3, <1>11, <3>3, <3>4
  <2> QED BY <2>1
<1>13. /\ tried[0] = Throw(at) /\ readAny(readers, data, at) = tried[n]
       /\ \A i \in 0 .. n : tried[i] \in AnyOutcomes(readers, data, at)
       /\ \A i \in 1 .. n : tried[i] = NextTried(readers[i], data, tried[i - 1])
  BY <1>10, <1>11, <1>12 DEF V, next, NextTried
<1> QED BY <1>13 DEF n

(* So a list of readers returns what one of them does, or throws.          *)
LEMMA AnyReads ==
  ASSUME NEW readers \in Seq(Readers), NEW data, NEW at, Position(data, at)
  PROVE  readAny(readers, data, at) \in AnyOutcomes(readers, data, at)
<1>1. PICK tried :
        /\ readAny(readers, data, at) = tried[Len(readers)]
        /\ \A i \in 0 .. Len(readers) : tried[i] \in AnyOutcomes(readers, data, at)
  BY AnyUnfolds
<1>2. Len(readers) \in 0 .. Len(readers)
  OBVIOUS
<1> QED BY <1>1, <1>2

(* A reader that does not throw is the last that is tried.                 *)
LEMMA FirstDecides ==
  ASSUME NEW readers \in Seq(Readers), NEW data, NEW at, Position(data, at), readers # <<>>,
         Reading(readers[1], data, at).outcome # "error"
  PROVE  readAny(readers, data, at) = Reading(readers[1], data, at)
<1> DEFINE n == Len(readers)
           out == Reading(readers[1], data, at)
<1>1. PICK tried :
        /\ tried[0] = Throw(at) /\ readAny(readers, data, at) = tried[n]
        /\ \A i \in 1 .. n : tried[i] = NextTried(readers[i], data, tried[i - 1])
  BY AnyUnfolds
<1>2. n \in Nat /\ 1 \in 1 .. n /\ out.outcome # "error"
  OBVIOUS
<1>3. tried[1] = out
  BY <1>1, <1>2 DEF NextTried, Throw
<1> HIDE DEF out, n
<1> DEFINE Bad == {i \in 1 .. n : tried[i] # out}
<1>4. ASSUME Bad # {} PROVE FALSE
  <2> DEFINE k == Min(Bad)
  <2>1. Bad \in SUBSET Nat
    BY <1>2
  <2>2. k \in Bad /\ \A x \in Bad : k <= x
    BY <1>4, <2>1, MinOfNaturals
  <2> HIDE DEF k
  <2>3. k \in 1 .. n /\ tried[k] # out /\ k # 1
    BY <1>3, <2>2
  <2>4. k - 1 \in 1 .. n /\ ~(k <= k - 1)
    BY <1>2, <2>3
  <2>5. tried[k - 1] = out
    BY <2>2, <2>4
  <2> QED BY <1>1, <1>2, <2>3, <2>5 DEF NextTried
<1>5. n \in 1 .. n
  BY <1>2
<1>6. tried[n] = out
  BY <1>4, <1>5
<1> QED BY <1>1, <1>6 DEF out, n

-----------------------------------------------------------------------------
(* What the tokens of a reader are.                                        *)

TypesOf(r) ==
  CASE r = "tag"                              -> {"TAG"}
    [] r = "command"                          -> {"COMMAND_NAME"}
    [] r \in {"atom", "list", "fetchAtt"}     -> {"ATOM"}
    [] r = "mechanism"                        -> {"SASL_MECHANISM"}
    [] r = "searchKey"                        -> {"SEARCH_KEY"}
    [] r = "space"                            -> {"WHITESPACE"}
    [] r = "listStart"                        -> {"LIST_START"}
    [] r = "listEnd"                          -> {"LIST_END"}
    [] r = "newLine"                          -> {"NEWLINE"}
    [] r = "end"                              -> {"END_OF_COMMAND"}
    [] r = "flag"                             -> {"FLAG"}
    [] r = "quoted"                           -> {"QUOTED_STRING"}
    [] r = "section"                          -> {"SECTION"}
    [] r = "partial"                          -> {"PARTIAL"}
    [] r = "literalLength"                    -> {"LITERAL_LENGTH"}
    [] r \in {"astring", "string", "mailboxList"} -> {"QUOTED_STRING", "LITERAL_LENGTH", "ATOM"}
    [] r = "base64"                           -> {"ABORT", "BASE64"}
    [] r = "sequenceSet"                      -> {"SEQUENCE_SET"}

HasType(out, types) ==
  out.outcome = "token" =>
    out.lexeme.type \in types /\ out.lexeme = Lexeme(out.lexeme.type, out.lexeme.token)

(* A run has the type it is read for.                                      *)
LEMMA RunType ==
  ASSUME NEW type, NEW chars, NEW data, NEW at
  PROVE  HasType(readRun(type, chars, data, at), {type})
BY DEF HasType, readRun, Null, Throw, Token, Lexeme

(* A fixed text has the type it is read for.                               *)
LEMMA FixedType ==
  ASSUME NEW type, NEW text, NEW data, NEW at
  PROVE  HasType(readFixedLengthToken(type, text, data, at), {type})
BY DEF HasType, readFixedLengthToken, Null, Throw, Token, Lexeme

(* A check of the token leaves its type.                                   *)
LEMMA CheckedType ==
  ASSUME NEW out, NEW wellFormed, NEW types, HasType(out, types)
  PROVE  HasType(Checked(out, wellFormed), types)
BY DEF HasType, Checked, Throw

(* An enclosed token has the type it is read for.                          *)
LEMMA EnclosedType ==
  ASSUME NEW type, NEW open, NEW close, NEW data, NEW at
  PROVE  HasType(readEnclosed(type, open, close, data, at), {type})
BY DEF HasType, readEnclosed, Null, Throw, Token, Lexeme

(* The readers of a shape of their own.                                    *)
LEMMA OtherTypes ==
  ASSUME NEW data, NEW at
  PROVE  /\ HasType(readFlag(data, at), {"FLAG"})
         /\ HasType(readDoubleQuotedString(data, at), {"QUOTED_STRING"})
         /\ HasType(readAbortableBase64(data, at), {"ABORT", "BASE64"})
         /\ HasType(readLiteralLength(data, at), {"LITERAL_LENGTH"})
<1>1. HasType(readFlag(data, at), {"FLAG"})
  BY DEF HasType, readFlag, Null, Throw, Token, Lexeme
<1>2. HasType(readDoubleQuotedString(data, at), {"QUOTED_STRING"})
  BY DEF HasType, readDoubleQuotedString, Null, Throw, Token, Lexeme
<1>3. HasType(readAbortableBase64(data, at), {"ABORT", "BASE64"})
  BY DEF HasType, readAbortableBase64, Null, Throw, Token, Lexeme
<1>4. HasType(readLiteralLength(data, at), {"LITERAL_LENGTH"})
  <2> DEFINE out == readEnclosed("LITERAL_LENGTH", "{", <<"}", CR, LF>>, data, at)
             wellFormed == \A i \in 2 .. Len(out.lexeme.token) - 3 : out.lexeme.token[i] \in Digits
  <2>1. HasType(out, {"LITERAL_LENGTH"})
    BY EnclosedType
  <2>2. readLiteralLength(data, at) = Checked(out, wellFormed) \/ readLiteralLength(data, at) = Null(at)
    BY DEF readLiteralLength
  <2> HIDE DEF out, wellFormed
  <2>3. HasType(Checked(out, wellFormed), {"LITERAL_LENGTH"})
    BY <2>1, CheckedType
  <2>4. HasType(Null(at), {"LITERAL_LENGTH"})
    BY DEF HasType, Null
  <2> QED BY <2>2, <2>3, <2>4
<1> QED BY <1>1, <1>2, <1>3, <1>4

(* Each reader has its type of token.                                      *)
LEMMA ReadingType ==
  ASSUME NEW r \in Readers, NEW data, NEW at
  PROVE  HasType(Reading(r, data, at), TypesOf(r))
<1>1. CASE r \in {"tag", "command", "atom", "list", "mechanism", "fetchAtt", "searchKey"}
  BY <1>1, RunType DEF Reading, TypesOf, readTag, readCommand, readAtom, readList,
     readSASLMechanism, readFetchAtt, readSearchKey
<1>2. CASE r \in {"space", "listStart", "listEnd", "newLine", "end"}
  BY <1>2, FixedType DEF Reading, TypesOf, readSpace, readListStart, readListEnd, readNewLine,
     readCommandTerminatingNewLine
<1>3. CASE r \in {"flag", "quoted", "base64", "literalLength"}
  BY <1>3, OtherTypes DEF Reading, TypesOf
<1>4. CASE r \in {"section", "partial", "sequenceSet"}
  BY <1>4, EnclosedType, RunType, CheckedType
     DEF Reading, TypesOf, readFetchSection, readFetchPartial, readSequenceSet
<1>5. CASE r \in {"astring", "string", "mailboxList"}
  <2> DEFINE types == {"QUOTED_STRING", "LITERAL_LENGTH", "ATOM"}
  <2>1. /\ HasType(readDoubleQuotedString(data, at), types)
        /\ HasType(readLiteralLength(data, at), types)
    BY OtherTypes DEF HasType
  <2>2. HasType(readAtom(data, at), types) /\ HasType(readList(data, at), types)
    BY RunType DEF HasType, readAtom, readList
  <2>3. HasType(Throw(at), types)
    BY DEF HasType, Throw
  <2>4. TypesOf(r) = types
    BY <1>5 DEF TypesOf
  <2> HIDE DEF types
  <2> QED BY <1>5, <2>1, <2>2, <2>3, <2>4 DEF Reading, readAstring, readString, readMailboxList
<1> QED BY <1>1, <1>2, <1>3, <1>4, <1>5 DEF Readers

(* The line terminator.                                                    *)
LEMMA LineTerminator ==
  CRLF \in Seq(Bytes) /\ Len(CRLF) = 2 /\ 1 \in 1 .. Len(CRLF) /\ CRLF[1] = CR
<1>1. CRLF[1] = CR
  BY DEF CRLF
<1>2. CRLF \in Seq(Bytes) /\ Len(CRLF) = 2
  BY Texts
<1> QED BY <1>1, <1>2

(* The bytes of a text where it begins.                                    *)
LEMMA TextBytes ==
  ASSUME NEW data, NEW at, Position(data, at), NEW text \in Seq(Bytes), Begins(text, data, at)
  PROVE  at + Len(text) <= Len(data) /\ \A i \in 1 .. Len(text) : data[at + i] = text[i]
<1> DEFINE to == at + Len(text)
<1>1. Len(text) \in Nat /\ to <= Len(data) /\ Slice(data, at, to) = text
  BY DEF Begins
<1>2. data \in Seq(Bytes) /\ at \in 0 .. Len(data) /\ to \in at .. Len(data) /\ to - at = Len(text)
  BY <1>1 DEF Position
<1> HIDE DEF to
<1>3. \A i \in 1 .. to - at : Slice(data, at, to)[i] = data[at + i]
  BY <1>2, SliceParts
<1> QED BY <1>1, <1>2, <1>3 DEF to

(* A token is a lexeme of bytes.                                           *)
LexemeTypes == (UNION {TypesOf(r) : r \in Readers}) \cup {"STRING_LITERAL"}
Lexemes == [type : LexemeTypes, token : Seq(Bytes)]

LEMMA TokenIsLexeme ==
  ASSUME NEW r \in Readers, NEW data, NEW at, Position(data, at),
         Reading(r, data, at).outcome = "token"
  PROVE  Reading(r, data, at).lexeme \in Lexemes
<1> DEFINE out == Reading(r, data, at)
<1>1. out.lexeme.type \in TypesOf(r) /\ out.lexeme = Lexeme(out.lexeme.type, out.lexeme.token)
  BY ReadingType DEF HasType
<1>2. TypesOf(r) \subseteq LexemeTypes
  BY DEF LexemeTypes
<1>3. out.cursor \in at .. Len(data) /\ out.lexeme.token = Slice(data, at, out.cursor)
  BY ReadingSound DEF Sound, Behaves
<1>4. Slice(data, at, out.cursor) \in Seq(Bytes)
  BY <1>3, SliceParts DEF Position
<1> HIDE DEF out
<1>5. out.lexeme \in Lexemes
  BY <1>1, <1>2, <1>3, <1>4 DEF Lexeme, Lexemes
<1> QED BY <1>5 DEF out

(* {digits}CRLF *)
IsLength(token) == Len(token) >= 4 /\ \A i \in 2 .. Len(token) - 3 : token[i] \in Digits

(* The length of a literal is made of digits between its braces.           *)
LEMMA LengthIsNumber ==
  ASSUME NEW data, NEW at, Position(data, at), readLiteralLength(data, at).outcome = "token"
  PROVE  IsLength(readLiteralLength(data, at).lexeme.token)
<1> DEFINE brace == "}"
           close == <<brace, CR, LF>>
           opened == StartsWith("{", data, at)
           out == readEnclosed("LITERAL_LENGTH", "{", close, data, at)
           wellFormed == \A i \in 2 .. Len(out.lexeme.token) - 3 : out.lexeme.token[i] \in Digits
           ends == Occurrences(close, data, at)
           m == Min(ends)
           to == m + 3
<1>0. data \in Seq(Bytes) /\ Len(data) \in Nat /\ at \in 0 .. Len(data)
  BY DEF Position
<1>1. opened /\ readLiteralLength(data, at) = Checked(out, wellFormed)
  BY DEF readLiteralLength, Null
<1>2. out.outcome = "token" /\ wellFormed /\ readLiteralLength(data, at) = out
  <2>1. Checked(out, wellFormed).outcome = "token"
    BY <1>1
  <2> HIDE DEF out, wellFormed, opened
  <2> QED BY <1>1, <2>1 DEF Checked, Throw
<1>3. ends # {} /\ out = Token("LITERAL_LENGTH", data, at, m + Len(close))
  BY <1>1, <1>2 DEF readEnclosed, Null
<1>4. close \in Seq(Bytes)
  BY Texts
<1>5. opened => data[at + 1] # brace
  BY DEF StartsWith
<1> HIDE DEF brace, out, opened, m, to
<1>6. Len(close) = 3 /\ close[1] = brace
  OBVIOUS
<1> HIDE DEF close
<1>7. ends \in SUBSET Nat
  BY <1>0 DEF Occurrences
<1>8. m \in ends
  BY <1>3, <1>7, MinOfNaturals DEF m
<1>9. m \in at .. Len(data) /\ Begins(close, data, m)
  BY <1>8 DEF Occurrences
<1>10. to <= Len(data) /\ data[m + 1] = brace
  <2>1. Position(data, m)
    BY <1>0, <1>9 DEF Position
  <2>2. m + Len(close) <= Len(data) /\ \A i \in 1 .. Len(close) : data[m + i] = close[i]
    BY <1>4, <1>9, <2>1, TextBytes
  <2> QED BY <1>6, <2>2 DEF to
<1>11. m # at
  BY <1>1, <1>5, <1>10
<1>12. to \in at .. Len(data) /\ to - at >= 4
  BY <1>0, <1>9, <1>10, <1>11 DEF to
<1>13. Len(Slice(data, at, to)) = to - at
  BY <1>0, <1>12, SliceParts
<1>14. out.lexeme.token = Slice(data, at, to)
  BY <1>3, <1>6 DEF Token, Lexeme, to
<1>15. Len(out.lexeme.token) >= 4
  BY <1>12, <1>13, <1>14
<1> QED BY <1>2, <1>15 DEF IsLength

(* Whatever reads a literal length reads a number.                         *)
LEMMA LengthsRead ==
  ASSUME NEW r \in Readers, NEW data, NEW at, Position(data, at),
         Reading(r, data, at).outcome = "token",
         Reading(r, data, at).lexeme.type = "LITERAL_LENGTH"
  PROVE  IsLength(Reading(r, data, at).lexeme.token)
<1>1. r \in {"literalLength", "astring", "string", "mailboxList"}
  BY ReadingType DEF HasType, TypesOf, Readers
<1>2. Reading(r, data, at) \in {readLiteralLength(data, at), readDoubleQuotedString(data, at),
                                readAtom(data, at), readList(data, at), Throw(at)}
  BY <1>1 DEF Reading, readAstring, readString, readMailboxList
<1>3. ~(Reading(r, data, at) = readDoubleQuotedString(data, at))
  BY OtherTypes DEF HasType
<1>4. ~(Reading(r, data, at) = readAtom(data, at)) /\ ~(Reading(r, data, at) = readList(data, at))
  BY RunType DEF HasType, readAtom, readList
<1>5. ~(Reading(r, data, at) = Throw(at))
  BY DEF Throw
<1> QED BY <1>2, <1>3, <1>4, <1>5, LengthIsNumber

(* The cursor stands behind a line terminator.                             *)
BehindLine(data, from, cursor) == cursor - 2 \in from .. Len(data) /\ Begins(CRLF, data, cursor - 2)

(* Behind the token that ends a command, the line has ended.               *)
LEMMA LineEndsRead ==
  ASSUME NEW r \in Readers, NEW data, NEW at, Position(data, at),
         Reading(r, data, at).outcome = "token",
         Reading(r, data, at).lexeme.type \in {"END_OF_COMMAND", "NEWLINE"}
  PROVE  /\ BehindLine(data, at, Reading(r, data, at).cursor)
         /\ Reading(r, data, at).lexeme.type = "NEWLINE" => r = "newLine"
<1>1. r \in {"end", "newLine"} /\ (Reading(r, data, at).lexeme.type = "NEWLINE" => r = "newLine")
  BY ReadingType DEF HasType, TypesOf, Readers
<1>2. \E type : Reading(r, data, at) = readFixedLengthToken(type, CRLF, data, at)
  BY <1>1 DEF Reading, readNewLine, readCommandTerminatingNewLine
<1>3. Begins(CRLF, data, at) /\ Reading(r, data, at).cursor = at + 2
  <2>1. PICK type : Reading(r, data, at) = readFixedLengthToken(type, CRLF, data, at)
    BY <1>2
  <2>2. /\ Begins(CRLF, data, at)
        /\ readFixedLengthToken(type, CRLF, data, at) = Token(type, data, at, at + Len(CRLF))
    BY <2>1 DEF readFixedLengthToken, Null, Throw
  <2>3. Len(CRLF) = 2
    BY LineTerminator
  <2> QED BY <2>1, <2>2, <2>3 DEF Token
<1>4. at + 2 - 2 = at /\ at \in at .. Len(data)
  BY DEF Position
<1> QED BY <1>1, <1>3, <1>4 DEF BehindLine

(* The reader stops before the end of the line.                            *)
StaysInLine(out, data, at) ==
  Occurrences(CRLF, data, at) # {} => Occurrences(CRLF, data, out.cursor) # {}

(* The first byte of a line terminator.                                    *)
LEMMA CROfLine ==
  ASSUME NEW data, NEW at, Position(data, at), NEW m \in Occurrences(CRLF, data, at)
  PROVE  m \in at .. Len(data) - 1 /\ data[m + 1] = CR /\ Begins(CRLF, data, m)
<1>1. m \in at .. Len(data) /\ Begins(CRLF, data, m)
  BY DEF Occurrences
<1>3. Position(data, m) /\ Len(data) \in Nat
  BY <1>1 DEF Position
<1>4. m + 2 <= Len(data) /\ data[m + 1] = CR
  <2>1. m + Len(CRLF) <= Len(data) /\ \A i \in 1 .. Len(CRLF) : data[m + i] = CRLF[i]
    <3>1. CRLF \in Seq(Bytes)
      BY LineTerminator
    <3> QED BY <1>1, <1>3, <3>1, TextBytes
  <2> QED BY <2>1, LineTerminator
<1> QED BY <1>1, <1>3, <1>4 DEF Position

(* A run of other bytes stops before the end of the line.                  *)
LEMMA RunStaysInLine ==
  ASSUME NEW type, NEW chars, CR \notin chars, NEW data, NEW at, Position(data, at)
  PROVE  StaysInLine(readRun(type, chars, data, at), data, at)
<1> SUFFICES ASSUME NEW m \in Occurrences(CRLF, data, at)
             PROVE  Occurrences(CRLF, data, readRun(type, chars, data, at).cursor) # {}
  BY DEF StaysInLine
<1> DEFINE ends == Strangers(chars, data, at)
<1>1. m \in at .. Len(data) - 1 /\ data[m + 1] = CR /\ Begins(CRLF, data, m)
  BY CROfLine
<1>2. m \in ends /\ ends \in SUBSET Nat
  BY <1>1 DEF Strangers, Position
<1>3. Min(ends) \in ends /\ Min(ends) <= m
  BY <1>2, MinOfNaturals
<1>4. readRun(type, chars, data, at).cursor \in {at, Min(ends)}
  BY <1>2 DEF readRun, Throw, Token
<1>5. readRun(type, chars, data, at).cursor \in 0 .. m
  BY <1>1, <1>2, <1>3, <1>4 DEF Position
<1>6. m \in Occurrences(CRLF, data, readRun(type, chars, data, at).cursor)
  BY <1>1, <1>5 DEF Occurrences, Position
<1> QED BY <1>6

(* So do the tag, the name of the command and the spaces between them.     *)
LEMMA NamesStayInLine ==
  ASSUME NEW data, NEW at, Position(data, at)
  PROVE  /\ StaysInLine(readTag(data, at), data, at)
         /\ StaysInLine(readCommand(data, at), data, at)
         /\ StaysInLine(readSpace(data, at), data, at)
<1>1. CR \notin AtomChars /\ CR \notin TagChars
  BY LettersAssumption DEF AtomChars, TagChars, Digits, NonZeroDigits, Punctuation, AtomSpecials, CR
<1>2. ASSUME NEW m \in Occurrences(CRLF, data, at)
      PROVE  Occurrences(CRLF, data, readSpace(data, at).cursor) # {}
  <2>1. m \in at .. Len(data) - 1 /\ data[m + 1] = CR /\ Begins(CRLF, data, m)
    BY <1>2, CROfLine
  <2>2. CASE readSpace(data, at).cursor = at
    BY <1>2, <2>2
  <2>3. CASE readSpace(data, at).cursor # at
    <3> DEFINE blank == " "
               text == <<blank>>
    <3>1. Begins(text, data, at) /\ readSpace(data, at).cursor = at + Len(text)
      BY <2>3 DEF readSpace, readFixedLengthToken, Null, Throw, Token
    <3>2. text \in Seq(Bytes) /\ CR # blank
      BY Texts DEF CR
    <3> HIDE DEF blank
    <3>3. Len(text) = 1 /\ text[1] = blank
      OBVIOUS
    <3> HIDE DEF text
    <3>4. m # at
      <4>1. \A i \in 1 .. Len(text) : data[at + i] = text[i]
        BY <3>1, <3>2, TextBytes
      <4>2. data[at + 1] = blank
        BY <3>3, <4>1
      <4> QED BY <2>1, <3>2, <4>2
    <3>5. m \in Occurrences(CRLF, data, at + 1)
      BY <2>1, <3>4 DEF Occurrences, Position
    <3> QED BY <3>1, <3>3, <3>5
  <2> QED BY <2>2, <2>3
<1> QED BY <1>1, <1>2, RunStaysInLine DEF StaysInLine, readTag, readCommand

-----------------------------------------------------------------------------
(* The length of a literal is a natural number.                            *)

(* A digit has a value.                                                    *)
LEMMA DigitValue ==
  ASSUME NEW digit \in Digits
  PROVE  ValueOf(digit) \in Nat
BY DEF Digits, NonZeroDigits, ValueOf

(* So has the number that digits make.                                     *)
LEMMA LengthIsNatural ==
  ASSUME NEW token \in Seq(Bytes), IsLength(token)
  PROVE  toLiteralLength(token) \in Nat
<1> DEFINE n == Len(token) - 4
           next(i, sum) == 10 * sum + ValueOf(token[i + 1])
           step == [p \in (1 .. n) \X Nat |-> next(p[1], p[2])]
           Body(f) == [i \in 0 .. n |-> IF i = 0 THEN 0 ELSE 10 * f[i - 1] + ValueOf(token[i + 1])]
           number == CHOOSE f : f = Body(f)
<1>1. n \in Nat
  BY DEF IsLength
<1>2. \A i \in 1 .. n : ValueOf(token[i + 1]) \in Nat
  <2>1. \A i \in 1 .. n : i + 1 \in 2 .. Len(token) - 3
    OBVIOUS
  <2> QED BY <2>1, DigitValue DEF IsLength
<1>3. \A i \in 1 .. n, sum \in Nat : next(i, sum) \in Nat
  BY <1>2
<1>4. toLiteralLength(token) = number[n]
  BY DEF toLiteralLength
<1> HIDE DEF next, n
<1>5. step \in Steps(n, Nat)
  BY <1>3 DEF Steps
<1>6. ASSUME NEW i \in 1 .. n, NEW sum \in Nat PROVE step[<<i, sum>>] = next(i, sum)
  <2>1. <<i, sum>> \in (1 .. n) \X Nat
    OBVIOUS
  <2> QED BY <2>1
<1> HIDE DEF step
<1>7. PICK f : Iteration(f, n, Nat, 0, step)
  BY <1>1, <1>5, Iterates
<1>8. \A i \in 1 .. n : f[i] = next(i, f[i - 1])
  <2>1. \A i \in 1 .. n : f[i - 1] \in Nat
    BY <1>1, <1>7 DEF Iteration
  <2> QED BY <1>6, <1>7, <2>1 DEF Iteration
<1>9. f = Body(f)
  <2>1. \A i \in 0 .. n : f[i] = Body(f)[i]
    BY <1>1, <1>7, <1>8 DEF next, Iteration
  <2> QED BY <1>7, <2>1 DEF Iteration
<1>10. number = Body(number)
  BY <1>9
<1> HIDE DEF number
<1>11. number[0] = 0 /\ \A i \in 1 .. n : number[i] = next(i, number[i - 1])
  <2>1. \A i \in 0 .. n : number[i] = Body(number)[i]
    BY <1>10
  <2> QED BY <1>1, <2>1 DEF next
<1>12. \A i \in 0 .. n : number[i] \in Nat
  <2> DEFINE Bad == {i \in 0 .. n : number[i] \notin Nat}
  <2>1. ASSUME Bad # {} PROVE FALSE
    <3> DEFINE k == Min(Bad)
    <3>1. Bad \in SUBSET Nat
      BY <1>1
    <3>2. k \in Bad /\ \A x \in Bad : k <= x
      BY <2>1, <3>1, MinOfNaturals
    <3> HIDE DEF k
    <3>3. k \in 1 .. n /\ k - 1 \in 0 .. n /\ ~(k <= k - 1) /\ number[k] \notin Nat
      BY <1>1, <1>11, <3>2
    <3>4. number[k - 1] \in Nat
      BY <3>2, <3>3
    <3> QED BY <1>3, <1>11, <3>3, <3>4
  <2> QED BY <2>1
<1> QED BY <1>1, <1>4, <1>12

-----------------------------------------------------------------------------
(* The readers that an argument lexer tries.                               *)

Tries(lexer, readers) == lexer.optional \in readers \cup {"none"} /\ lexer.readers \in Seq(readers)

LineReaders == Readers \ {"newLine"}
FetchReaders == {"listStart", "fetchAtt", "listEnd", "section", "partial", "space", "end"}
TrailingReaders == {"space", "listEnd", "end"}

(* What may stand at the end of what FETCH has read of its arguments.      *)
FetchTypes == {"LIST_START", "ATOM", "SECTION", "PARTIAL", "WHITESPACE", "LIST_END"}

(* A lexer that tries few readers tries no others.                         *)
LEMMA TriesMore ==
  ASSUME NEW lexer, NEW R, NEW S, R \subseteq S, Tries(lexer, R)
  PROVE  Tries(lexer, S)
<1>1. \A s \in Seq(R) : s \in Seq(S)
  OBVIOUS
<1> QED BY <1>1 DEF Tries

(* The readers of a lexer.                                                 *)
LEMMA TriesAny ==
  ASSUME NEW R, NEW readers \in Seq(R)
  PROVE  Tries(AnyOf(readers), R)
BY DEF Tries, AnyOf

(* The readers of a lexer that tries an optional one first.                *)
LEMMA TriesPerhaps ==
  ASSUME NEW R, NEW readers \in Seq(R), NEW optional \in R
  PROVE  Tries(Perhaps(optional, readers), R)
BY DEF Tries, Perhaps

(* The readers of one argument after the other, and of the line's end.     *)
LEMMA TriesPositional ==
  ASSUME NEW R, NEW readers, \A i \in DOMAIN readers : readers[i] \in Seq(R), "end" \in R, NEW command
  PROVE  Tries(Positional(readers, command), R)
<1>1. <<"end">> \in Seq(R)
  OBVIOUS
<1> DEFINE end == <<"end">>
<1> HIDE DEF end
<1> QED BY <1>1 DEF end, Tries, Positional, AnyOf

(* Behind the second of its arguments, FETCH reads attributes.             *)
LEMMA FetchTries ==
  ASSUME NEW command \in Seq(Lexemes), NEW first, Len(command) >= 5,
         Len(command) >= 6 => LastType(command) \in FetchTypes
  PROVE  Tries(FETCHLexer(command, first), FetchReaders)
<1>1. CASE Len(command) <= 5
  <2> DEFINE space == <<"space">>
             set == <<"sequenceSet">>
             fourth == <<"listStart", "fetchAtt">>
             readers == <<space, set, space, fourth>>
  <2>1. FETCHLexer(command, first) = Positional(readers, command)
    BY <1>1 DEF FETCHLexer
  <2>2. fourth \in Seq(FetchReaders)
    BY DEF FetchReaders
  <2> HIDE DEF space, set, fourth
  <2>3. 4 \in DOMAIN readers /\ readers[4] = fourth
    OBVIOUS
  <2>4. Len(command) - 1 = 4
    <3> DEFINE n == Len(command)
    <3>1. n \in Nat /\ n >= 5 /\ n <= 5
      BY <1>1
    <3> HIDE DEF n
    <3>2. n - 1 = 4
      BY <3>1
    <3> QED BY <3>2 DEF n
  <2> HIDE DEF readers
  <2>5. Positional(readers, command) = AnyOf(fourth)
    BY <2>3, <2>4 DEF Positional
  <2> QED BY <2>1, <2>2, <2>5, TriesAny
<1>2. CASE ~(Len(command) <= 5)
  <2>1. /\ <<"listEnd", "fetchAtt">> \in Seq(FetchReaders) /\ <<"listEnd", "space">> \in Seq(FetchReaders)
        /\ <<"listEnd", "partial", "space">> \in Seq(FetchReaders)
        /\ <<"fetchAtt">> \in Seq(FetchReaders) /\ <<"end">> \in Seq(FetchReaders)
        /\ "section" \in FetchReaders /\ "partial" \in FetchReaders
    BY DEF FetchReaders
  <2>2. LastType(command) \in FetchTypes
    BY <1>2
  <2>3. Tries(FETCHListLexer(command, first), FetchReaders)
    <3>1. CASE LastType(command) = "LIST_START"
      BY <2>1, <3>1, TriesAny DEF FETCHListLexer, LastType
    <3>2. CASE LastType(command) = "ATOM"
      BY <2>1, <3>2, TriesAny, TriesPerhaps DEF FETCHListLexer, LastType
    <3>3. CASE LastType(command) = "SECTION"
      BY <2>1, <3>3, TriesAny, TriesPerhaps DEF FETCHListLexer, LastType
    <3>4. CASE LastType(command) = "PARTIAL"
      BY <2>1, <3>4, TriesAny DEF FETCHListLexer, LastType
    <3>5. CASE LastType(command) = "WHITESPACE"
      BY <2>1, <3>5, TriesAny DEF FETCHListLexer, LastType
    <3>6. CASE LastType(command) = "LIST_END"
      BY <2>1, <3>6, TriesAny DEF FETCHListLexer, LastType
    <3> QED BY <2>2, <3>1, <3>2, <3>3, <3>4, <3>5, <3>6 DEF FetchTypes
  <2> QED BY <1>2, <2>1, <2>3, TriesAny, TriesPerhaps DEF FETCHLexer
<1> QED BY <1>1, <1>2

(* The lists of readers that the lexers try.                               *)
LEMMA ReaderLists ==
  /\ "end" \in LineReaders /\ "section" \in LineReaders /\ "partial" \in LineReaders
  /\ LineReaders \subseteq Readers /\ FetchReaders \subseteq LineReaders
  /\ <<>> \in Seq(LineReaders)
  /\ \A a \in LineReaders : <<a>> \in Seq(LineReaders)
  /\ <<"listStart", "fetchAtt">> \in Seq(LineReaders)
  /\ <<"space", "atom", "listEnd", "end">> \in Seq(LineReaders)
  /\ <<"space", "astring", "flag", "listStart", "listEnd", "end">> \in Seq(LineReaders)
  /\ <<"flag", "space", "listEnd", "end">> \in Seq(LineReaders)
  /\ <<"sequenceSet", "flag", "listStart", "astring">> \in Seq(LineReaders)
  /\ <<"astring", "listStart">> \in Seq(LineReaders)
  /\ <<"space", "listEnd", "end">> \in Seq(LineReaders)
BY DEF LineReaders, FetchReaders, Readers

(* The lists of one reader for each argument.                              *)
LEMMA PositionalReaders ==
  ASSUME NEW R, NEW a \in Seq(R), NEW b \in Seq(R), NEW c \in Seq(R), NEW d \in Seq(R),
         NEW e \in Seq(R), NEW f \in Seq(R)
  PROVE  /\ \A i \in DOMAIN <<>> : <<>>[i] \in Seq(R)
         /\ \A i \in DOMAIN <<a, b>> : <<a, b>>[i] \in Seq(R)
         /\ \A i \in DOMAIN <<a, b, c>> : <<a, b, c>>[i] \in Seq(R)
         /\ \A i \in DOMAIN <<a, b, c, d>> : <<a, b, c, d>>[i] \in Seq(R)
         /\ \A i \in DOMAIN <<a, b, c, d, e, f>> : <<a, b, c, d, e, f>>[i] \in Seq(R)
OBVIOUS

(* The lexers of the commands without and with mailbox names.              *)
LEMMA NameLexersTry ==
  ASSUME NEW command
  PROVE  /\ Tries(NewLineLexer(command), LineReaders)
         /\ Tries(SimpleMailboxLexer(command), LineReaders)
         /\ Tries(ReferenceAndMailboxLexer(command), LineReaders)
         /\ Tries(LOGINLexer(command), LineReaders)
         /\ Tries(RENAMELexer(command), LineReaders)
         /\ Tries(COPYLexer(command), LineReaders)
<1> DEFINE space == <<"space">>
           astring == <<"astring">>
           list == <<"mailboxList">>
           set == <<"sequenceSet">>
           P(readers) == Tries(Positional(readers, command), LineReaders)
<1>1. "end" \in LineReaders /\ <<>> \in Seq(LineReaders)
  BY ReaderLists
<1>2. /\ space \in Seq(LineReaders) /\ astring \in Seq(LineReaders) /\ list \in Seq(LineReaders)
      /\ set \in Seq(LineReaders)
  BY ReaderLists DEF LineReaders, Readers
<1>3. Tries(AnyOf(<<>>), LineReaders)
  BY <1>1, TriesAny
<1>4. /\ NewLineLexer(command) = Positional(<<>>, command)
      /\ SimpleMailboxLexer(command) = Positional(<<space, astring>>, command)
      /\ ReferenceAndMailboxLexer(command) = Positional(<<space, astring, space, list>>, command)
      /\ LOGINLexer(command) \in {AnyOf(<<>>), Positional(<<space, astring, space, astring>>, command)}
      /\ RENAMELexer(command) = Positional(<<space, astring, space, astring>>, command)
      /\ COPYLexer(command) = Positional(<<space, set, space, astring>>, command)
  BY DEF NewLineLexer, SimpleMailboxLexer, ReferenceAndMailboxLexer, LOGINLexer, RENAMELexer, COPYLexer
<1> HIDE DEF space, astring, list, set
<1>5. P(<<>>)
  <2>1. \A i \in DOMAIN <<>> : <<>>[i] \in Seq(LineReaders)
    BY <1>1, PositionalReaders
  <2> QED BY <1>1, <2>1, TriesPositional
<1>6. P(<<space, astring>>)
  <2> DEFINE readers == <<space, astring>>
  <2>1. \A i \in DOMAIN readers : readers[i] \in Seq(LineReaders)
    BY <1>2, PositionalReaders
  <2> HIDE DEF readers
  <2>2. P(readers)
    BY <1>1, <2>1, TriesPositional
  <2> QED BY <2>2 DEF readers
<1>7. ASSUME NEW a \in Seq(LineReaders), NEW b \in Seq(LineReaders)
      PROVE  P(<<space, a, space, b>>)
  <2> DEFINE readers == <<space, a, space, b>>
  <2>1. \A i \in DOMAIN readers : readers[i] \in Seq(LineReaders)
    BY <1>2, PositionalReaders
  <2> HIDE DEF readers
  <2>2. P(readers)
    BY <1>1, <2>1, TriesPositional
  <2> QED BY <2>2 DEF readers
<1> QED BY <1>2, <1>3, <1>4, <1>5, <1>6, <1>7

(* The lexers of the commands with lists.                                  *)
LEMMA ListLexersTry ==
  ASSUME NEW command, NEW first
  PROVE  /\ Tries(STATUSLexer(command, first), LineReaders)
         /\ Tries(APPENDLexer(command), LineReaders)
         /\ Tries(STORELexer(command, first), LineReaders)
         /\ \A type : Tries(SEARCHLexer(type), LineReaders)
<1> DEFINE space == <<"space">>
           astring == <<"astring">>
           atom == <<"atom">>
           start == <<"listStart">>
           set == <<"sequenceSet">>
           end == <<"end">>
           statusItems == <<"space", "atom", "listEnd", "end">>
           flags == <<"flag", "space", "listEnd", "end">>
           appendFlags == <<"space", "astring", "flag", "listStart", "listEnd", "end">>
           T(lexer) == Tries(lexer, LineReaders)
<1>1. "end" \in LineReaders
  BY ReaderLists
<1>2. /\ space \in Seq(LineReaders) /\ astring \in Seq(LineReaders) /\ atom \in Seq(LineReaders)
      /\ start \in Seq(LineReaders) /\ set \in Seq(LineReaders) /\ end \in Seq(LineReaders)
  BY ReaderLists DEF LineReaders, Readers
<1>3. T(AnyOf(end)) /\ T(AnyOf(statusItems)) /\ T(AnyOf(flags)) /\ T(AnyOf(appendFlags))
  BY <1>2, ReaderLists, TriesAny
<1>4. /\ STATUSLexer(command, first) \in
           {Positional(<<space, astring, space, start>>, command), AnyOf(end), AnyOf(statusItems)}
      /\ APPENDLexer(command) \in {Positional(<<space, astring, space>>, command), AnyOf(appendFlags)}
      /\ STORELexer(command, first) \in
           {Positional(<<space, set, space, atom, space, start>>, command), AnyOf(end), AnyOf(flags)}
  BY DEF STATUSLexer, APPENDLexer, STORELexer
<1>5. ASSUME NEW type PROVE T(SEARCHLexer(type))
  BY <1>2, ReaderLists, TriesAny DEF SEARCHLexer
<1> HIDE DEF space, astring, atom, start, set, end, statusItems, flags, appendFlags
<1>6. ASSUME NEW readers, \A i \in DOMAIN readers : readers[i] \in Seq(LineReaders)
      PROVE  T(Positional(readers, command))
  BY <1>1, <1>6, TriesPositional
<1>7. T(Positional(<<space, astring, space, start>>, command))
  <2> DEFINE readers == <<space, astring, space, start>>
  <2>1. \A i \in DOMAIN readers : readers[i] \in Seq(LineReaders)
    BY <1>2, PositionalReaders
  <2> HIDE DEF readers
  <2>2. T(Positional(readers, command))
    BY <1>6, <2>1
  <2> QED BY <2>2 DEF readers
<1>8. T(Positional(<<space, astring, space>>, command))
  <2> DEFINE readers == <<space, astring, space>>
  <2>1. \A i \in DOMAIN readers : readers[i] \in Seq(LineReaders)
    BY <1>2, PositionalReaders
  <2> HIDE DEF readers
  <2>2. T(Positional(readers, command))
    BY <1>6, <2>1
  <2> QED BY <2>2 DEF readers
<1>9. T(Positional(<<space, set, space, atom, space, start>>, command))
  <2> DEFINE readers == <<space, set, space, atom, space, start>>
  <2>1. \A i \in DOMAIN readers : readers[i] \in Seq(LineReaders)
    BY <1>2, PositionalReaders
  <2> HIDE DEF readers
  <2>2. T(Positional(readers, command))
    BY <1>6, <2>1
  <2> QED BY <2>2 DEF readers
<1> QED BY <1>3, <1>4, <1>5, <1>7, <1>8, <1>9

(* No reader of FETCH reads a line terminator but the one that ends it.    *)
LEMMA FetchTriesLine ==
  ASSUME NEW command \in Seq(Lexemes), NEW first,
         Len(command) >= 6 => LastType(command) \in FetchTypes
  PROVE  Tries(FETCHLexer(command, first), LineReaders)
<1> DEFINE space == <<"space">>
           set == <<"sequenceSet">>
           fourth == <<"listStart", "fetchAtt">>
           readers == <<space, set, space, fourth>>
           n == Len(command)
<1>1. n \in Nat
  OBVIOUS
<1>2. CASE ~(n >= 5)
  <2>1. n <= 5
    <3> HIDE DEF n
    <3> QED BY <1>1, <1>2
  <2>2. FETCHLexer(command, first) = Positional(readers, command)
    BY <2>1 DEF FETCHLexer
  <2>3. "end" \in LineReaders /\ space \in Seq(LineReaders) /\ set \in Seq(LineReaders)
        /\ fourth \in Seq(LineReaders)
    BY ReaderLists DEF LineReaders, Readers
  <2> HIDE DEF space, set, fourth
  <2>4. \A i \in DOMAIN readers : readers[i] \in Seq(LineReaders)
    BY <2>3, PositionalReaders
  <2> HIDE DEF readers
  <2> QED BY <2>2, <2>3, <2>4, TriesPositional
<1>3. CASE n >= 5
  <2>1. Tries(FETCHLexer(command, first), FetchReaders)
    BY <1>3, FetchTries
  <2> QED BY <2>1, ReaderLists, TriesMore
<1> QED BY <1>2, <1>3

(* AUTHENTICATE alone reads line terminators.                              *)
LEMMA AuthenticateTries ==
  ASSUME NEW command
  PROVE  Tries(AUTHENTICATELexer(command), Readers)
<1> DEFINE space == <<"space">>
           mechanism == <<"mechanism">>
           newLine == <<"newLine">>
           base64 == <<"base64">>
           readers == <<space, mechanism, newLine>>
<1>1. AUTHENTICATELexer(command) \in {Positional(readers, command), AnyOf(base64), AnyOf(newLine)}
  BY DEF AUTHENTICATELexer
<1>2. /\ "end" \in Readers /\ space \in Seq(Readers) /\ mechanism \in Seq(Readers)
      /\ newLine \in Seq(Readers) /\ base64 \in Seq(Readers)
  BY DEF Readers
<1> HIDE DEF space, mechanism, newLine, base64
<1>3. \A i \in DOMAIN readers : readers[i] \in Seq(Readers)
  BY <1>2, PositionalReaders
<1> HIDE DEF readers
<1> QED BY <1>1, <1>2, <1>3, TriesAny, TriesPositional

FetchOK(command, name) == name = "FETCH" /\ Len(command) >= 6 => LastType(command) \in FetchTypes

(* Each command's lexer tries readers of the scanner.                      *)
LEMMA LexerTries ==
  ASSUME NEW command \in Seq(Lexemes), NEW name \in KnownCommands, NEW first, FetchOK(command, name)
  PROVE  /\ Tries(LexerOf(name, command, first), Readers)
         /\ name # "AUTHENTICATE" => Tries(LexerOf(name, command, first), LineReaders)
         /\ name = "FETCH" /\ Len(command) >= 5 => Tries(LexerOf(name, command, first), FetchReaders)
<1> DEFINE lexer == LexerOf(name, command, first)
<1>1. CASE name = "AUTHENTICATE"
  <2>1. lexer = AUTHENTICATELexer(command)
    BY <1>1 DEF LexerOf, SimpleCommands, MailboxCommands, ListCommands
  <2> QED BY <1>1, <2>1, AuthenticateTries
<1>2. CASE name = "FETCH"
  <2>1. lexer = FETCHLexer(command, first)
    BY <1>2 DEF LexerOf, SimpleCommands, MailboxCommands, ListCommands
  <2>2. Len(command) >= 6 => LastType(command) \in FetchTypes
    BY <1>2 DEF FetchOK
  <2>3. Tries(lexer, LineReaders)
    BY <2>1, <2>2, FetchTriesLine
  <2>4. Len(command) >= 5 => Tries(lexer, FetchReaders)
    BY <2>1, <2>2, FetchTries
  <2>5. Tries(lexer, Readers)
    BY <2>3, ReaderLists, TriesMore
  <2> QED BY <2>3, <2>4, <2>5
<1>3. CASE name \notin {"AUTHENTICATE", "FETCH"}
  <2>1. lexer \in {NewLineLexer(command), SimpleMailboxLexer(command), ReferenceAndMailboxLexer(command),
                   LOGINLexer(command), RENAMELexer(command), COPYLexer(command),
                   STATUSLexer(command, first), APPENDLexer(command), STORELexer(command, first),
                   SEARCHLexer(LastType(command))}
    BY <1>3 DEF LexerOf, SimpleCommands, MailboxCommands, ListCommands, KnownCommands
  <2>2. Tries(lexer, LineReaders)
    BY <2>1, NameLexersTry, ListLexersTry
  <2>3. Tries(lexer, Readers)
    BY <2>2, ReaderLists, TriesMore
  <2> QED BY <1>3, <2>2, <2>3
<1> QED BY <1>1, <1>2, <1>3

(* Behind a SEARCH, only spaces, closing parentheses and ends are read.    *)
LEMMA TrailingTries == Tries(SEARCHLexer("END_OF_COMMAND"), TrailingReaders)
<1>1. <<"space", "listEnd", "end">> \in Seq(TrailingReaders)
  BY DEF TrailingReaders
<1> QED BY <1>1, TriesAny DEF SEARCHLexer

(* What a lexer does: an error, or what one of its readers does at the     *)
(* cursor or behind it.                                                    *)
Outcomes(readers, data, at) ==
  {Throw(at)} \cup {Reading(r, data, c) : r \in readers, c \in at .. Len(data)}

LEMMA LexedByReader ==
  ASSUME NEW lexer, NEW R, R \subseteq Readers, Tries(lexer, R), Position(receivedData, scanCursor),
         "none" \notin R
  PROVE  \E c \in scanCursor .. Len(receivedData) : Lexed(lexer) \in Outcomes(R, receivedData, c)
<1> DEFINE first == Reading(lexer.optional, receivedData, scanCursor)
<1>1. lexer.readers \in Seq(R) /\ lexer.readers \in Seq(Readers)
  BY DEF Tries
<1>2. ASSUME NEW c \in scanCursor .. Len(receivedData)
      PROVE  readAny(lexer.readers, receivedData, c) \in Outcomes(R, receivedData, c)
  <2>1. Position(receivedData, c)
    BY DEF Position
  <2>2. readAny(lexer.readers, receivedData, c) \in AnyOutcomes(lexer.readers, receivedData, c)
    BY <1>1, <2>1, AnyReads
  <2>3. \A i \in DOMAIN lexer.readers : lexer.readers[i] \in R
    BY <1>1
  <2> QED BY <2>2, <2>3 DEF AnyOutcomes, Outcomes
<1>3. scanCursor \in scanCursor .. Len(receivedData)
  BY DEF Position
<1>4. CASE lexer.optional = "none"
  BY <1>2, <1>3, <1>4 DEF Lexed
<1>5. CASE lexer.optional # "none"
  <2>1. lexer.optional \in R
    BY <1>5 DEF Tries
  <2>2. first \in Outcomes(R, receivedData, scanCursor)
    BY <1>3, <2>1 DEF Outcomes
  <2>3. first.cursor \in scanCursor .. Len(receivedData)
    BY <2>1, ReadingSound DEF Sound
  <2>4. Lexed(lexer) \in {first, readAny(lexer.readers, receivedData, first.cursor)}
    BY <1>5 DEF Lexed
  <2> QED BY <1>2, <1>3, <2>2, <2>3, <2>4
<1> QED BY <1>4, <1>5

-----------------------------------------------------------------------------
(* How the bytes are passed.                                               *)

(* What is left to read lies in what arrived, at the place reached.        *)
LEMMA PassedForm ==
  ASSUME TypeOK
  PROVE  /\ Passed = Len(arrived) - (Len(receivedData) - scanCursor) /\ Passed \in Int
         /\ Len(arrived) \in Nat /\ Len(receivedData) \in Nat /\ scanCursor \in 0 .. Len(receivedData)
         /\ UnreadIsTail /\ ~ignoring => Passed \in 0 .. Len(arrived)
<1>1. /\ Len(Unread) = Len(receivedData) - scanCursor
      /\ UnreadIsTail => (~ignoring => IsTail(Unread, arrived))
  BY UnreadForm
<1>2. Len(arrived) \in Nat /\ Len(receivedData) \in Nat /\ scanCursor \in 0 .. Len(receivedData)
  BY DEF TypeOK
<1> QED BY <1>1, <1>2 DEF Passed, IsTail

(* The same bytes, counted from the cursor and from the first that arrived.*)
LEMMA FromArrived ==
  ASSUME TypeOK, UnreadIsTail, ~ignoring,
         NEW a \in scanCursor .. Len(receivedData), NEW b \in a .. Len(receivedData)
  PROVE  LET p == Passed + (a - scanCursor)
             q == Passed + (b - scanCursor) IN
         /\ p \in Passed .. Len(arrived) /\ q \in p .. Len(arrived)
         /\ Slice(receivedData, a, b) = Slice(arrived, p, q)
<1> DEFINE n == Len(receivedData)
           p == Passed + (a - scanCursor)
           q == Passed + (b - scanCursor)
<1>1. receivedData \in Seq(Bytes) /\ arrived \in Seq(Bytes) /\ Unread \in Seq(Bytes)
  BY UnreadForm DEF TypeOK
<1>2. /\ Passed = Len(arrived) - (n - scanCursor) /\ Passed \in 0 .. Len(arrived)
      /\ scanCursor \in 0 .. n /\ n \in Nat /\ Len(arrived) \in Nat
  BY PassedForm
<1>3. p \in Passed .. Len(arrived) /\ q \in p .. Len(arrived) /\ q - p = b - a
  BY <1>2
<1>4. Unread = Slice(receivedData, scanCursor, n) /\ Len(Unread) = n - scanCursor /\ IsTail(Unread, arrived)
  BY UnreadForm DEF Unread
<1>5. \A i \in 1 .. n - scanCursor : receivedData[scanCursor + i] = arrived[Passed + i]
  <2>1. n \in scanCursor .. n
    BY <1>2
  <2>2. \A i \in 1 .. n - scanCursor : Unread[i] = receivedData[scanCursor + i]
    BY <1>1, <1>2, <1>4, <2>1, SliceParts
  <2>3. \A i \in 1 .. Len(Unread) : Unread[i] = arrived[Len(arrived) - Len(Unread) + i]
    BY <1>1, <1>4, TailByByte
  <2> QED BY <1>2, <1>4, <2>2, <2>3
<1>6. /\ Slice(receivedData, a, b) \in Seq(Bytes) /\ Len(Slice(receivedData, a, b)) = b - a
      /\ \A i \in 1 .. b - a : Slice(receivedData, a, b)[i] = receivedData[a + i]
  <2>1. a \in 0 .. n /\ b \in a .. n
    BY <1>2
  <2> QED BY <1>1, <2>1, SliceParts
<1>7. /\ Slice(arrived, p, q) \in Seq(Bytes) /\ Len(Slice(arrived, p, q)) = b - a
      /\ \A i \in 1 .. b - a : Slice(arrived, p, q)[i] = arrived[p + i]
  <2>1. p \in 0 .. Len(arrived) /\ q \in p .. Len(arrived)
    BY <1>2, <1>3
  <2> HIDE DEF p, q
  <2>2. /\ Slice(arrived, p, q) \in Seq(Bytes) /\ Len(Slice(arrived, p, q)) = q - p
        /\ \A i \in 1 .. q - p : Slice(arrived, p, q)[i] = arrived[p + i]
    BY <1>1, <2>1, SliceParts
  <2> QED BY <1>3, <2>2
<1>8. ASSUME NEW i \in 1 .. b - a PROVE receivedData[a + i] = arrived[p + i]
  <2> DEFINE j == a - scanCursor + i
  <2>1. j \in 1 .. n - scanCursor /\ scanCursor + j = a + i /\ Passed + j = p + i
    BY <1>2
  <2> HIDE DEF j, p
  <2> QED BY <1>5, <2>1
<1> DEFINE s == Slice(receivedData, a, b)  t == Slice(arrived, p, q)
<1>9. s \in Seq(Bytes) /\ t \in Seq(Bytes) /\ Len(s) = Len(t) /\ \A i \in 1 .. Len(s) : s[i] = t[i]
  BY <1>6, <1>7, <1>8
<1> HIDE DEF s, t
<1>10. s = t
  BY <1>9, SeqEqual
<1> QED BY <1>3, <1>10 DEF s, t

(* The cursor moves forward.                                               *)
MovesTo(c) == scanCursor' = c /\ UNCHANGED <<receivedData, ignoring, arrived>>

LEMMA CursorMoves ==
  ASSUME TypeOK, NEW c \in scanCursor .. Len(receivedData), MovesTo(c)
  PROVE  /\ TypeOK' /\ (UnreadIsTail => UnreadIsTail')
         /\ Passed' = Passed + (c - scanCursor) /\ Passed' >= Passed
         /\ lineReady' <=> Occurrences(CRLF, receivedData, c) # {}
<1>1. Sound(Throw(c), receivedData, scanCursor)
  BY DEF Sound, Behaves, Throw
<1>2. Advance(Throw(c)) /\ UNCHANGED arrived
  BY DEF MovesTo, Advance, Throw
<1>3. TypeOK' /\ (UnreadIsTail => UnreadIsTail')
  BY <1>1, <1>2, ReadStep
<1>4. /\ Len(Unread) = Len(receivedData) - scanCursor /\ Len(arrived) \in Nat
      /\ Len(receivedData) \in Nat /\ scanCursor \in Int /\ c \in Int
  BY UnreadForm DEF TypeOK
<1>5. Len(Unread') = Len(receivedData) - c
  BY <1>3, UnreadForm, TailOfSlice DEF TypeOK, Unread, MovesTo
<1>6. Passed' = Passed + (c - scanCursor) /\ Passed' >= Passed
  BY <1>4, <1>5 DEF Passed, MovesTo
<1>7. lineReady' <=> Occurrences(CRLF, receivedData, c) # {}
  BY DEF lineReady, MovesTo
<1> QED BY <1>3, <1>6, <1>7

(* Behind a line terminator, a line starts.                                *)
LEMMA LineStarts ==
  ASSUME TypeOK, UnreadIsTail, ~ignoring, NEW c \in scanCursor .. Len(receivedData), MovesTo(c),
         BehindLine(receivedData, scanCursor, c)
  PROVE  AtLineStart' /\ Passed' >= Passed + 2
<1>1. Passed' = Passed + (c - scanCursor)
  BY CursorMoves
<1> DEFINE a == c - 2
           p == Passed + (a - scanCursor)
           q == Passed + (c - scanCursor)
<1>2. /\ a \in scanCursor .. Len(receivedData) /\ c \in a .. Len(receivedData) /\ a + 2 = c
      /\ Slice(receivedData, a, c) = CRLF
  BY LineTerminator, PassedForm DEF BehindLine, Begins
<1>3. p \in Passed .. Len(arrived) /\ Slice(receivedData, a, c) = Slice(arrived, p, q)
  BY <1>2, FromArrived
<1>4. Passed \in 0 .. Len(arrived) /\ scanCursor \in Int /\ c \in Int
  BY PassedForm
<1>5. q - 2 = p /\ q >= 2 /\ q >= Passed + 2
  BY <1>2, <1>3, <1>4
<1>6. Passed' = q /\ arrived' = arrived
  BY <1>1 DEF MovesTo
<1> HIDE DEF a, p, q
<1>7. Slice(arrived, q - 2, q) = CRLF
  BY <1>2, <1>3, <1>5
<1> QED BY <1>5, <1>6, <1>7, LineTerminator DEF AtLineStart

(* A line is skipped from the cursor or from behind what was read of it.   *)
LEMMA LineSkipped ==
  ASSUME TypeOK, NEW at \in scanCursor .. Len(receivedData), skipLine(at), UNCHANGED arrived
  PROVE  /\ TypeOK' /\ (UnreadIsTail => UnreadIsTail') /\ Passed' >= Passed
         /\ ignoring => ignoring'
         /\ (ignoring => ~lineReady) => (ignoring' => ~lineReady')
         /\ lineReady /\ at = scanCursor => ignoring' = ignoring
         /\ UnreadIsTail /\ ~ignoring /\ ~ignoring' => AtLineStart' /\ Passed' >= Passed + 2
<1> DEFINE S == Occurrences(CRLF, receivedData, at)
           c == Min(S) + Len(CRLF)
<1>1. Position(receivedData, at) /\ Position(receivedData, scanCursor) /\ <<>> \in Seq(Bytes)
  BY WholeSlice DEF TypeOK, Position
<1>2. CASE S = {}
  <2>1. ignoring' /\ scanCursor' = at /\ receivedData' = receivedData /\ arrived' = arrived
    BY <1>2 DEF skipLine
  <2>2. TypeOK' /\ UnreadIsTail'
    BY <2>1 DEF TypeOK, UnreadIsTail
  <2>3. ~lineReady'
    BY <1>2, <2>1 DEF lineReady
  <2>4. Passed' >= Passed
    <3>1. Len(Unread) = Len(receivedData) - scanCursor /\ Len(Unread') = Len(receivedData) - at
      BY <2>1, <2>2, UnreadForm, TailOfSlice DEF TypeOK, Unread
    <3>2. Len(receivedData) \in Nat /\ Len(arrived) \in Nat /\ scanCursor \in Int /\ at \in Int /\ at >= scanCursor
      BY DEF TypeOK
    <3> QED BY <2>1, <3>1, <3>2 DEF Passed
  <2>5. lineReady => at # scanCursor
    BY <1>2 DEF lineReady
  <2> QED BY <2>1, <2>2, <2>3, <2>4, <2>5
<1>3. CASE S # {}
  <2>1. S \in SUBSET Nat /\ c \in at .. Len(receivedData)
    BY <1>1, <1>3, LineTerminator, OccurrencesOfMore
  <2>2. Min(S) \in S
    BY <1>3, <2>1, MinOfNaturals
  <2>3. Min(S) \in at .. Len(receivedData) /\ Begins(CRLF, receivedData, Min(S)) /\ Len(CRLF) = 2
    BY <2>2, LineTerminator DEF Occurrences
  <2>4. MovesTo(c) /\ ignoring' = ignoring
    BY <1>3 DEF skipLine, MovesTo
  <2>5. scanCursor \in 0 .. Len(receivedData) /\ Len(receivedData) \in Nat
    BY DEF TypeOK
  <2>6. lineReady
    <3>1. Min(S) \in Occurrences(CRLF, receivedData, scanCursor)
      BY <2>3, <2>5 DEF Occurrences
    <3> QED BY <3>1 DEF lineReady
  <2>7. c \in scanCursor .. Len(receivedData)
    BY <2>1, <2>5
  <2>8. BehindLine(receivedData, scanCursor, c)
    <3>1. c - 2 = Min(S) /\ c - 2 \in scanCursor .. Len(receivedData)
      BY <2>3, <2>5
    <3> QED BY <2>3, <3>1 DEF BehindLine
  <2> HIDE DEF S, c
  <2>9. TypeOK' /\ (UnreadIsTail => UnreadIsTail') /\ Passed' >= Passed
    BY <2>4, <2>7, CursorMoves
  <2>10. UnreadIsTail /\ ~ignoring => AtLineStart' /\ Passed' >= Passed + 2
    BY <2>4, <2>7, <2>8, LineStarts
  <2> QED BY <2>4, <2>6, <2>9, <2>10
<1> QED BY <1>2, <1>3

(* More bytes arrive.                                                      *)
LEMMA DataArrives ==
  ASSUME TypeOK, NEW data \in Seq(Bytes), enqueueData(data), arrived' = arrived \o data
  PROVE  /\ TypeOK' /\ (UnreadIsTail => UnreadIsTail') /\ Passed' >= Passed
         /\ (ignoring => ~lineReady) => (ignoring' => ~lineReady')
         /\ ignoring /\ ~ignoring' => AtLineStart'
<1>1. TypeOK' /\ (UnreadIsTail => UnreadIsTail') /\ Passed' >= Passed
  BY EnqueueStep, EnqueuePasses
<1>2. CASE AppendData(data)
  BY <1>1, <1>2 DEF AppendData
<1>3. CASE DropData(data)
  BY <1>1, <1>3 DEF DropData, lineReady
<1>4. CASE KeepBehindNewLine(data)
  <2>1. AtLineStart'
    BY <1>4, KeptAtLineStart
  <2> QED BY <1>1, <1>4, <2>1 DEF KeepBehindNewLine
<1> QED BY <1>2, <1>3, <1>4 DEF enqueueData

-----------------------------------------------------------------------------
(* The inductive invariant.                                                *)

Types ==
  /\ ReadTypeOK
  /\ stream \in Seq(Bytes) /\ Len(arrived) <= Len(stream)
  /\ currentCommand \in Seq(Lexemes)

Name == CommandName(currentCommand)

(* The end of a literal length is the number it is made of, and stands     *)
(* behind the name of a known command.                                     *)
LengthOK(i) ==
  currentCommand[i].type = "LITERAL_LENGTH" =>
    i > 2 /\ IsLength(currentCommand[i].token) /\ Name \in KnownCommands

(* What is known of the command at each place of the generator.            *)
Places ==
  /\ pc = "command" => Len(currentCommand) = 1
  /\ pc \in {"entering", "arguments"} => Len(currentCommand) >= 2
  /\ pc = "arguments" => Name \in KnownCommands
  /\ pc = "trailing" => \A i \in DOMAIN currentCommand : currentCommand[i].type \in {"WHITESPACE", "LIST_END"}
  /\ \A i \in DOMAIN currentCommand : LengthOK(i)
  /\ FetchOK(currentCommand, Name)

(* Nothing is read of a line that is ignored, and until the arguments are  *)
(* read the end of the line is ahead.                                      *)
Lines ==
  /\ UnreadIsTail
  /\ ignoring => ~lineReady
  /\ ignoring => pc \in {"idle", "start"}
  /\ pc = "command" => lineReady
  /\ pc = "entering" /\ Name \notin KnownCommands => lineReady

ReadInv == Types /\ Places /\ Lines

-----------------------------------------------------------------------------
(* What each action keeps.                                                 *)

Resumes ==
  /\ executed' # executed => ~ignoring' /\ AtLineStart' /\ Passed' >= Passed + 2
  /\ (ignoring \/ counters' # counters) /\ ~ignoring' => AtLineStart'

Kept == ReadInv' /\ Passed' >= Passed /\ Resumes

(* The invariant in the terms that the lemmas on reading ask for.          *)
LEMMA CursorInBuffer ==
  ASSUME ReadInv
  PROVE  /\ TypeOK /\ UnreadIsTail /\ Position(receivedData, scanCursor)
         /\ scanCursor \in scanCursor .. Len(receivedData) /\ Passed \in Int
         /\ currentCommand \in Seq(Lexemes) /\ Len(currentCommand) \in Nat
BY PassedForm DEF ReadInv, Types, Lines, ReadTypeOK, TypeOK, Position

(* The types, where an action does not touch the stream.                   *)
LEMMA TypesKept ==
  ASSUME Types, TypeOK', currentCommand' \in Seq(Lexemes), UNCHANGED <<arrived, stream>>,
         useUID' \in BOOLEAN, tagReadFailures' \in Nat, badArgumentFailures' \in Nat, answered' \in Nat,
         socket' \in {"open", "ended"},
         pc' \in {"idle", "start", "command", "entering", "arguments", "trailing"},
         pending' \in Seq(KnownCommands)
  PROVE  Types'
<1>1. \A i \in DOMAIN currentCommand' : currentCommand'[i].token \in Seq(Bytes)
  <2>1. \A lexeme \in Lexemes : lexeme.token \in Seq(Bytes)
    BY DEF Lexemes
  <2>2. \A i \in DOMAIN currentCommand' : currentCommand'[i] \in Lexemes
    OBVIOUS
  <2> QED BY <2>1, <2>2
<1> QED BY <1>1 DEF Types, ReadTypeOK

(* The command is the same when the event is over or has begun.            *)
LEMMA PlacesKept ==
  ASSUME Places, UNCHANGED currentCommand, pc' \in {"idle", "start"}
  PROVE  Places'
BY DEF Places, Name, LengthOK, FetchOK

(* The command is done with.                                               *)
LEMMA PlacesCleared ==
  ASSUME currentCommand' = <<>>, pc' \in {"idle", "start", "trailing"}
  PROVE  Places'
<1>1. Len(currentCommand') = 0 /\ DOMAIN currentCommand' = {}
  OBVIOUS
<1> QED BY <1>1 DEF Places, FetchOK

(* The command with one lexeme more.                                       *)
LEMMA LexemeAppended ==
  ASSUME currentCommand \in Seq(Lexemes), NEW lexeme \in Lexemes,
         currentCommand' = Append(currentCommand, lexeme)
  PROVE  /\ currentCommand' \in Seq(Lexemes)
         /\ Len(currentCommand) \in Nat /\ Len(currentCommand') = Len(currentCommand) + 1
         /\ DOMAIN currentCommand' = 1 .. Len(currentCommand) + 1
         /\ DOMAIN currentCommand = 1 .. Len(currentCommand)
         /\ \A i \in 1 .. Len(currentCommand) : currentCommand'[i] = currentCommand[i]
         /\ currentCommand'[Len(currentCommand) + 1] = lexeme
         /\ LastType(currentCommand') = lexeme.type
         /\ Len(currentCommand) >= 2 => Name' = Name
<1>1. /\ currentCommand' \in Seq(Lexemes)
      /\ Len(currentCommand) \in Nat /\ Len(currentCommand') = Len(currentCommand) + 1
      /\ \A i \in 1 .. Len(currentCommand) : currentCommand'[i] = currentCommand[i]
      /\ currentCommand'[Len(currentCommand) + 1] = lexeme
  BY AppendProperties
<1>2. DOMAIN currentCommand' = 1 .. Len(currentCommand) + 1 /\ DOMAIN currentCommand = 1 .. Len(currentCommand)
  BY <1>1
<1>3. LastType(currentCommand') = lexeme.type
  BY <1>1 DEF LastType, Last
<1>4. Len(currentCommand) >= 2 => Name' = Name
  BY <1>1 DEF Name, CommandName
<1> QED BY <1>1, <1>2, <1>3, <1>4

(* The bytes of the stream, cut anywhere.                                  *)
LEMMA StreamParts ==
  ASSUME NEW s \in Seq(Bytes), NEW a \in 0 .. Len(s), NEW b \in a .. Len(s)
  PROVE  /\ Slice(s, a, b) \in Seq(Bytes) /\ Slice(s, 0, b) = Slice(s, 0, a) \o Slice(s, a, b)
         /\ Len(Slice(s, 0, b)) = b
<1> DEFINE u == Slice(s, 0, a)  v == Slice(s, a, b)  w == Slice(s, 0, b)
<1>1. /\ u \in Seq(Bytes) /\ Len(u) = a /\ \A i \in 1 .. a : u[i] = s[i]
      /\ w \in Seq(Bytes) /\ Len(w) = b /\ \A i \in 1 .. b : w[i] = s[i]
  <2>1. 0 \in 0 .. Len(s) /\ a \in 0 .. Len(s) /\ b \in 0 .. Len(s)
    OBVIOUS
  <2>2. \A c \in 0 .. Len(s) : /\ Slice(s, 0, c) \in Seq(Bytes) /\ Len(Slice(s, 0, c)) = c - 0
                               /\ \A i \in 1 .. c - 0 : Slice(s, 0, c)[i] = s[0 + i]
    BY <2>1, SliceParts
  <2>3. \A c \in 0 .. Len(s) : c - 0 = c /\ \A i \in 1 .. c : 0 + i = i
    OBVIOUS
  <2> QED BY <2>1, <2>2, <2>3
<1>2. v \in Seq(Bytes) /\ Len(v) = b - a /\ \A i \in 1 .. b - a : v[i] = s[a + i]
  BY SliceParts
<1> HIDE DEF u, v, w
<1>3. /\ u \o v \in Seq(Bytes) /\ Len(u \o v) = a + (b - a)
      /\ \A i \in 1 .. a + (b - a) : (u \o v)[i] = IF i <= a THEN u[i] ELSE v[i - a]
  BY <1>1, <1>2, ConcatProperties
<1>4. a + (b - a) = b
  OBVIOUS
<1>5. ASSUME NEW i \in 1 .. b PROVE (u \o v)[i] = w[i]
  <2>1. CASE i <= a
    BY <1>1, <1>3, <1>4, <2>1
  <2>2. CASE ~(i <= a)
    <3>1. i - a \in 1 .. b - a /\ a + (i - a) = i
      BY <2>2
    <3> QED BY <1>1, <1>2, <1>3, <1>4, <2>2, <3>1
  <2> QED BY <2>1, <2>2
<1>6. w = u \o v
  BY <1>1, <1>3, <1>4, <1>5, SeqEqual
<1> QED BY <1>1, <1>2, <1>6 DEF u, v, w

(* A data event.                                                           *)
LEMMA ReceiveDataKeeps ==
  ASSUME ReadInv, ReceiveData
  PROVE  Kept
<1> DEFINE data(to) == Slice(stream, Len(arrived), to)
<1>1. PICK to \in Len(arrived) + 1 .. Len(stream) :
        enqueueData(data(to)) /\ arrived' = Slice(stream, 0, to)
  BY DEF ReceiveData
<1>2. /\ TypeOK /\ UnreadIsTail /\ arrived = Slice(stream, 0, Len(arrived)) /\ stream \in Seq(Bytes)
      /\ Len(arrived) \in 0 .. Len(stream) /\ to \in Len(arrived) .. Len(stream) /\ to \in 0 .. Len(stream)
  BY DEF ReadInv, Types, ReadTypeOK, TypeOK, Lines
<1>3. data(to) \in Seq(Bytes) /\ arrived' = arrived \o data(to) /\ Len(arrived') = to
  <2>1. /\ Slice(stream, Len(arrived), to) \in Seq(Bytes)
        /\ Slice(stream, 0, to) = Slice(stream, 0, Len(arrived)) \o Slice(stream, Len(arrived), to)
        /\ Len(Slice(stream, 0, to)) = to
    BY <1>2, StreamParts
  <2> QED BY <1>1, <1>2, <2>1
<1> HIDE DEF data
<1>4. /\ TypeOK' /\ UnreadIsTail' /\ Passed' >= Passed
      /\ (ignoring => ~lineReady) => (ignoring' => ~lineReady')
      /\ ignoring /\ ~ignoring' => AtLineStart'
  BY <1>1, <1>2, <1>3, DataArrives
<1>5. UNCHANGED <<stream, currentCommand, useUID, counters, socket, pending, answered, executed>> /\ pc' = "start"
  BY DEF ReceiveData, client
<1>6. Types'
  <2>1. arrived' = Slice(stream', 0, Len(arrived')) /\ Len(arrived') <= Len(stream')
    BY <1>1, <1>2, <1>3, <1>5
  <2> QED BY <1>4, <1>5, <2>1 DEF ReadInv, Types, ReadTypeOK, counters
<1>7. Places'
  BY <1>5, PlacesKept DEF ReadInv
<1>8. Lines'
  BY <1>4, <1>5 DEF ReadInv, Lines
<1>9. Resumes
  BY <1>4, <1>5 DEF Resumes
<1> QED BY <1>4, <1>6, <1>7, <1>8, <1>9 DEF Kept, ReadInv

(* A line is skipped, and the event is over.                               *)
LEMMA SkipKeeps ==
  ASSUME ReadInv, NEW at \in scanCursor .. Len(receivedData), skipLine(at), UNCHANGED <<arrived, stream>>,
         currentCommand' \in {currentCommand, <<>>}, pc' = "idle",
         UNCHANGED useUID, tagReadFailures' \in Nat, badArgumentFailures' \in Nat, answered' \in Nat,
         socket' \in {"open", "ended"}, pending' \in Seq(KnownCommands),
         executed' # executed => lineReady /\ at = scanCursor
  PROVE  Kept
<1>1. TypeOK /\ UnreadIsTail /\ currentCommand \in Seq(Lexemes) /\ (ignoring => ~lineReady)
  BY CursorInBuffer DEF ReadInv, Lines
<1>2. /\ TypeOK' /\ UnreadIsTail' /\ Passed' >= Passed
      /\ ignoring => ignoring'
      /\ ignoring' => ~lineReady'
      /\ lineReady /\ at = scanCursor => ignoring' = ignoring
      /\ ~ignoring /\ ~ignoring' => AtLineStart' /\ Passed' >= Passed + 2
  BY <1>1, LineSkipped
<1>3. Types'
  <2>1. currentCommand' \in Seq(Lexemes)
    <3>1. <<>> \in Seq(Lexemes)
      OBVIOUS
    <3> QED BY <1>1, <3>1
  <2>2. useUID' \in BOOLEAN
    BY DEF ReadInv, Types, ReadTypeOK
  <2> QED BY <1>2, <2>1, <2>2, TypesKept DEF ReadInv
<1>4. Places'
  BY PlacesKept, PlacesCleared DEF ReadInv
<1>5. Lines'
  BY <1>2 DEF Lines
<1>6. Resumes
  BY <1>1, <1>2 DEF Resumes
<1> QED BY <1>2, <1>3, <1>4, <1>5, <1>6 DEF Kept, ReadInv

(* An overlong command: nothing but the rest of its line is skipped.       *)
LEMMA SkipOverlongKeeps ==
  ASSUME ReadInv, SkipOverlong
  PROVE  Kept
<1>1. scanCursor \in scanCursor .. Len(receivedData)
  BY CursorInBuffer
<1>2. /\ skipLine(scanCursor) /\ pc' = "idle"
      /\ UNCHANGED <<arrived, stream, currentCommand, useUID, tagReadFailures, badArgumentFailures,
                     socket, pending, answered, executed>>
  BY DEF SkipOverlong, client, counters
<1>3. /\ tagReadFailures' \in Nat /\ badArgumentFailures' \in Nat /\ answered' \in Nat
      /\ socket' \in {"open", "ended"} /\ pending' \in Seq(KnownCommands)
  BY <1>2 DEF ReadInv, Types, ReadTypeOK
<1> QED BY <1>1, <1>2, <1>3, SkipKeeps

(* An event without a complete line changes nothing.                       *)
LEMMA AwaitLineKeeps ==
  ASSUME ReadInv, AwaitLine
  PROVE  Kept
<1>1. /\ UNCHANGED <<receivedData, scanCursor, ignoring, arrived, stream, currentCommand, useUID,
                     tagReadFailures, badArgumentFailures, socket, pending, answered, executed>>
      /\ pc' = "idle"
  BY DEF AwaitLine, client, counters, scannerVars
<1>2. TypeOK' /\ UnreadIsTail' /\ Passed' = Passed /\ (ignoring' => ~lineReady')
  BY <1>1 DEF ReadInv, Types, ReadTypeOK, TypeOK, Lines, UnreadIsTail, Passed, Unread, lineReady
<1>3. Types'
  BY <1>1, <1>2, TypesKept DEF ReadInv, Types, ReadTypeOK
<1>4. Places'
  BY <1>1, PlacesKept DEF ReadInv
<1>5. Lines'
  BY <1>1, <1>2 DEF Lines
<1>6. Resumes
  BY <1>1 DEF Resumes, counters
<1>7. Passed' >= Passed
  BY <1>2, CursorInBuffer
<1> QED BY <1>3, <1>4, <1>5, <1>6, <1>7 DEF Kept, ReadInv

(* Something is read: the cursor moves on.                                 *)
LEMMA MoveKeeps ==
  ASSUME ReadInv, ~ignoring, NEW c \in scanCursor .. Len(receivedData), MovesTo(c),
         UNCHANGED <<stream, counters>>, currentCommand' \in Seq(Lexemes), Places',
         useUID' \in BOOLEAN, answered' \in Nat, socket' \in {"open", "ended"},
         pc' \in {"idle", "start", "command", "entering", "arguments", "trailing"},
         pending' \in Seq(KnownCommands),
         pc' = "command" => Occurrences(CRLF, receivedData, c) # {},
         pc' = "entering" /\ Name' \notin KnownCommands => Occurrences(CRLF, receivedData, c) # {},
         executed' # executed => BehindLine(receivedData, scanCursor, c)
  PROVE  Kept
<1>1. TypeOK /\ UnreadIsTail
  BY CursorInBuffer
<1>2. /\ TypeOK' /\ UnreadIsTail' /\ Passed' >= Passed
      /\ lineReady' <=> Occurrences(CRLF, receivedData, c) # {}
  BY <1>1, CursorMoves
<1>3. ~ignoring' /\ UNCHANGED <<arrived, stream, tagReadFailures, badArgumentFailures>>
  BY DEF MovesTo, counters
<1>4. Types'
  <2>1. tagReadFailures' \in Nat /\ badArgumentFailures' \in Nat
    BY <1>3 DEF ReadInv, Types, ReadTypeOK
  <2> QED BY <1>2, <1>3, <2>1, TypesKept DEF ReadInv
<1>5. Lines'
  BY <1>2, <1>3 DEF Lines
<1>6. executed' # executed => AtLineStart' /\ Passed' >= Passed + 2
  BY <1>1, LineStarts
<1>7. Resumes
  BY <1>3, <1>6 DEF Resumes
<1> QED BY <1>2, <1>4, <1>5, <1>7 DEF Kept, ReadInv

(* At the start of an event, or in the middle of it, no line is ignored.   *)
LEMMA Reads ==
  ASSUME ReadInv, pc \notin {"idle", "start"} \/ lineReady
  PROVE  ~ignoring
BY DEF ReadInv, Lines

(* Behind what a reader returned.                                          *)
LEMMA AdvanceMoves ==
  ASSUME NEW out, Advance(out), UNCHANGED arrived
  PROVE  MovesTo(out.cursor)
BY DEF Advance, MovesTo

(* The readers of the tag, the name and the space after them.              *)
LEMMA NameRead ==
  ASSUME ReadInv, NEW at \in scanCursor .. Len(receivedData), NEW r \in {"tag", "command", "space"}
  PROVE  LET out == Reading(r, receivedData, at) IN
         /\ out.cursor \in at .. Len(receivedData) /\ out.cursor \in scanCursor .. Len(receivedData)
         /\ StaysInLine(out, receivedData, at)
         /\ out.outcome = "token" =>
              out.lexeme \in Lexemes /\ out.lexeme.type \in TypesOf(r)
<1>1. Position(receivedData, at) /\ scanCursor \in Nat /\ Len(receivedData) \in Nat
  BY CursorInBuffer DEF Position
<1>2. r \in Readers
  BY DEF Readers
<1> DEFINE out == Reading(r, receivedData, at)
<1>3. out.cursor \in at .. Len(receivedData)
  BY <1>1, <1>2, ReadingSound DEF Sound
<1>4. StaysInLine(out, receivedData, at)
  BY <1>1, NamesStayInLine DEF Reading
<1>5. out.outcome = "token" => out.lexeme \in Lexemes /\ out.lexeme.type \in TypesOf(r)
  BY <1>1, <1>2, TokenIsLexeme, ReadingType DEF HasType
<1> HIDE DEF out
<1>6. out.cursor \in scanCursor .. Len(receivedData)
  BY <1>1, <1>3
<1> QED BY <1>3, <1>4, <1>5, <1>6 DEF out

(* The tag and the space behind it stay in the line.                       *)
LEMMA TakeTagKeeps ==
  ASSUME ReadInv, TakeTag
  PROVE  Kept
<1> DEFINE tag == Reading("tag", receivedData, scanCursor)
           space == Reading("space", receivedData, tag.cursor)
<1>0. readTag(receivedData, scanCursor) = tag /\ readSpace(receivedData, tag.cursor) = space
  BY DEF Reading
<1>1. /\ pc = "start" /\ lineReady /\ currentCommand = <<>>
      /\ UNCHANGED <<arrived, stream, pending, executed>>
  BY DEF TakeTag, client
<1>2. ~ignoring
  BY <1>1, Reads
<1>3. /\ tag.cursor \in scanCursor .. Len(receivedData) /\ StaysInLine(tag, receivedData, scanCursor)
      /\ tag.outcome = "token" => tag.lexeme \in Lexemes /\ tag.lexeme.type \in TypesOf("tag")
  BY CursorInBuffer, NameRead
<1>4. /\ space.cursor \in scanCursor .. Len(receivedData)
      /\ StaysInLine(space, receivedData, tag.cursor)
  BY <1>3, NameRead
<1>5. /\ useUID \in BOOLEAN /\ tagReadFailures \in Nat /\ badArgumentFailures \in Nat /\ answered \in Nat
      /\ socket \in {"open", "ended"} /\ pending \in Seq(KnownCommands)
  BY DEF ReadInv, Types, ReadTypeOK
<1>6. \/ /\ skipLine(tag.cursor) /\ tagReadFailures' = tagReadFailures + 1
         /\ CloseAbove(tagReadFailures') /\ pc' = "idle" /\ answered' = answered + 1
         /\ UNCHANGED <<currentCommand, useUID, badArgumentFailures>>
      \/ Fail(space)
      \/ /\ tag.outcome = "token" /\ Advance(space) /\ currentCommand' = <<tag.lexeme>> /\ pc' = "command"
         /\ UNCHANGED <<useUID, counters, socket, answered>>
  BY <1>0 DEF TakeTag
<1> HIDE DEF tag, space
<1>7. CASE skipLine(tag.cursor) /\ tagReadFailures' = tagReadFailures + 1
           /\ CloseAbove(tagReadFailures') /\ pc' = "idle" /\ answered' = answered + 1
           /\ UNCHANGED <<currentCommand, useUID, badArgumentFailures>>
  <2>1. socket' \in {"open", "ended"}
    BY <1>5, <1>7 DEF CloseAbove
  <2>2. tagReadFailures' \in Nat /\ badArgumentFailures' \in Nat /\ answered' \in Nat
    BY <1>5, <1>7
  <2> QED BY <1>1, <1>3, <1>5, <1>7, <2>1, <2>2, SkipKeeps
<1>8. CASE Fail(space)
  <2>1. MovesTo(space.cursor)
    BY <1>1, <1>8, AdvanceMoves DEF Fail
  <2>2. /\ socket' = "ended" /\ pc' = "idle" /\ answered' = answered + 1
        /\ UNCHANGED <<currentCommand, useUID, counters>>
    BY <1>8 DEF Fail
  <2>3. Places'
    BY <2>2, PlacesKept DEF ReadInv
  <2>4. currentCommand' \in Seq(Lexemes)
    BY <2>2, CursorInBuffer
  <2> QED BY <1>1, <1>2, <1>4, <1>5, <2>1, <2>2, <2>3, <2>4, MoveKeeps
<1>9. CASE tag.outcome = "token" /\ Advance(space) /\ currentCommand' = <<tag.lexeme>> /\ pc' = "command"
           /\ UNCHANGED <<useUID, counters, socket, answered>>
  <2>1. MovesTo(space.cursor)
    BY <1>1, <1>9, AdvanceMoves
  <2>2. currentCommand' \in Seq(Lexemes) /\ Len(currentCommand') = 1
        /\ DOMAIN currentCommand' = 1 .. 1 /\ currentCommand'[1] = tag.lexeme
    BY <1>3, <1>9
  <2>3. Places'
    <3>1. tag.lexeme.type # "LITERAL_LENGTH"
      BY <1>3, <1>9 DEF TypesOf
    <3> QED BY <1>9, <2>2, <3>1 DEF Places, LengthOK, FetchOK
  <2>4. Occurrences(CRLF, receivedData, space.cursor) # {}
    BY <1>1, <1>3, <1>4 DEF StaysInLine, lineReady
  <2> QED BY <1>1, <1>2, <1>4, <1>5, <1>9, <2>1, <2>2, <2>3, <2>4, MoveKeeps
<1> QED BY <1>6, <1>7, <1>8, <1>9

(* So do UID, the space behind it and the name of the command.             *)
LEMMA TakeCommandKeeps ==
  ASSUME ReadInv, TakeCommand
  PROVE  Kept
<1> DEFINE name == Reading("command", receivedData, scanCursor)
           isUID == name.outcome = "token" /\ toUpperCase(name.lexeme.token) = <<"UID">>
           space == Reading("space", receivedData, name.cursor)
           second == Reading("command", receivedData, space.cursor)
           out == IF ~isUID THEN name ELSE IF space.outcome = "error" THEN space ELSE second
<1>1. /\ readCommand(receivedData, scanCursor) = name /\ readSpace(receivedData, name.cursor) = space
      /\ readCommand(receivedData, space.cursor) = second
  BY DEF Reading
<1>2. /\ pc = "command" \/ (pc = "start" /\ lineReady /\ Len(currentCommand) = 1)
      /\ \/ out.outcome = "error" /\ Fail(out)
         \/ /\ out.outcome = "token" /\ Advance(out) /\ useUID' = (useUID \/ isUID)
            /\ currentCommand' = Append(currentCommand, out.lexeme) /\ pc' = "entering"
            /\ UNCHANGED <<counters, socket, answered>>
      /\ UNCHANGED <<arrived, client, pending, executed>>
  BY <1>1 DEF TakeCommand
<1>3. isUID \in BOOLEAN
  OBVIOUS
<1>4. lineReady /\ Len(currentCommand) = 1 /\ currentCommand \in Seq(Lexemes) /\ ~ignoring
      /\ UNCHANGED <<arrived, stream, pending, executed>>
  <2>1. lineReady /\ Len(currentCommand) = 1
    BY <1>2 DEF ReadInv, Places, Lines
  <2> QED BY <1>2, <2>1, Reads, CursorInBuffer DEF client
<1>5. /\ name.cursor \in scanCursor .. Len(receivedData) /\ StaysInLine(name, receivedData, scanCursor)
      /\ name.outcome = "token" => name.lexeme \in Lexemes /\ name.lexeme.type \in TypesOf("command")
  BY CursorInBuffer, NameRead
<1>6. /\ space.cursor \in scanCursor .. Len(receivedData)
      /\ StaysInLine(space, receivedData, name.cursor)
  BY <1>5, NameRead
<1>7. /\ second.cursor \in scanCursor .. Len(receivedData)
      /\ StaysInLine(second, receivedData, space.cursor)
      /\ second.outcome = "token" => second.lexeme \in Lexemes /\ second.lexeme.type \in TypesOf("command")
  BY <1>6, NameRead
<1> HIDE DEF name, space, second, isUID
<1>8. /\ out.cursor \in scanCursor .. Len(receivedData)
      /\ Occurrences(CRLF, receivedData, out.cursor) # {}
      /\ out.outcome = "token" => out.lexeme \in Lexemes /\ out.lexeme.type \in TypesOf("command")
  <2>1. Occurrences(CRLF, receivedData, name.cursor) # {}
    BY <1>4, <1>5 DEF StaysInLine, lineReady
  <2>2. Occurrences(CRLF, receivedData, space.cursor) # {}
    BY <1>6, <2>1 DEF StaysInLine
  <2>3. Occurrences(CRLF, receivedData, second.cursor) # {}
    BY <1>7, <2>2 DEF StaysInLine
  <2>4. space.outcome = "error" => space.outcome # "token"
    OBVIOUS
  <2> QED BY <1>5, <1>6, <1>7, <2>1, <2>2, <2>3, <2>4
<1> HIDE DEF out
<1>9. /\ useUID \in BOOLEAN /\ answered \in Nat
      /\ socket \in {"open", "ended"} /\ pending \in Seq(KnownCommands)
  BY DEF ReadInv, Types, ReadTypeOK
<1>10. CASE Fail(out)
  <2>1. MovesTo(out.cursor)
    BY <1>4, <1>10, AdvanceMoves DEF Fail
  <2>2. /\ socket' = "ended" /\ pc' = "idle" /\ answered' = answered + 1
        /\ UNCHANGED <<currentCommand, useUID, counters>>
    BY <1>10 DEF Fail
  <2>3. Places'
    BY <2>2, PlacesKept DEF ReadInv
  <2> QED BY <1>4, <1>8, <1>9, <2>1, <2>2, <2>3, MoveKeeps
<1>11. CASE /\ out.outcome = "token" /\ Advance(out) /\ useUID' = (useUID \/ isUID)
            /\ currentCommand' = Append(currentCommand, out.lexeme) /\ pc' = "entering"
            /\ UNCHANGED <<counters, socket, answered>>
  <2>1. MovesTo(out.cursor)
    BY <1>4, <1>11, AdvanceMoves
  <2>2. /\ currentCommand' \in Seq(Lexemes) /\ Len(currentCommand') = 2
        /\ DOMAIN currentCommand' = 1 .. 2
        /\ currentCommand'[1] = currentCommand[1] /\ currentCommand'[2] = out.lexeme
        /\ 1 \in DOMAIN currentCommand
    <3>1. out.lexeme \in Lexemes
      BY <1>8, <1>11
    <3> QED BY <1>4, <1>11, <3>1, LexemeAppended
  <2>3. Places'
    <3>1. out.lexeme.type # "LITERAL_LENGTH"
      BY <1>8, <1>11 DEF TypesOf
    <3>2. currentCommand[1].type # "LITERAL_LENGTH"
      BY <2>2 DEF ReadInv, Places, LengthOK
    <3> QED BY <1>11, <2>2, <3>1, <3>2 DEF Places, LengthOK, FetchOK
  <2>4. useUID' \in BOOLEAN
    BY <1>3, <1>9, <1>11 DEF isUID
  <2> QED BY <1>4, <1>8, <1>9, <1>11, <2>1, <2>2, <2>3, <2>4, MoveKeeps
<1> QED BY <1>2, <1>10, <1>11

(* The command with its last lexeme replaced.                              *)
LEMMA LexemeReplaced ==
  ASSUME currentCommand \in Seq(Lexemes), Len(currentCommand) > 2, NEW lexeme \in Lexemes,
         currentCommand' = Append(Front(currentCommand), lexeme)
  PROVE  /\ currentCommand' \in Seq(Lexemes) /\ Len(currentCommand') = Len(currentCommand)
         /\ DOMAIN currentCommand' = 1 .. Len(currentCommand)
         /\ \A i \in 1 .. Len(currentCommand) - 1 : currentCommand'[i] = currentCommand[i]
         /\ currentCommand'[Len(currentCommand)] = lexeme
         /\ Name' = Name
<1> DEFINE n == Len(currentCommand)
           front == Front(currentCommand)
<1>1. n \in Nat /\ n > 2
  OBVIOUS
<1>2. front \in Seq(Lexemes) /\ Len(front) = n - 1 /\ \A i \in 1 .. n - 1 : front[i] = currentCommand[i]
  BY DEF Front
<1> HIDE DEF front, n
<1>3. /\ currentCommand' \in Seq(Lexemes) /\ Len(currentCommand') = Len(front) + 1
      /\ \A i \in 1 .. Len(front) : currentCommand'[i] = front[i]
      /\ currentCommand'[Len(front) + 1] = lexeme
  BY <1>2, AppendProperties DEF front
<1>4. /\ Len(currentCommand') = n /\ currentCommand'[n] = lexeme
      /\ \A i \in 1 .. n - 1 : currentCommand'[i] = currentCommand[i]
  BY <1>1, <1>2, <1>3
<1>5. currentCommand'[2] = currentCommand[2]
  BY <1>1, <1>4
<1>6. Name' = Name
  BY <1>5 DEF Name, CommandName
<1> QED BY <1>3, <1>4, <1>6 DEF n

(* Where arguments are read, at least the name of the command has been.    *)
LEMMA EnteringForm ==
  ASSUME ReadInv, Entering
  PROVE  ~ignoring /\ Len(currentCommand) >= 2 /\ (Name \notin KnownCommands => lineReady)
BY Reads DEF Entering, ReadInv, Places, Lines

(* A literal takes the place of its length, which is a number.             *)
LEMMA TakeLiteralKeeps ==
  ASSUME ReadInv, TakeLiteral
  PROVE  Kept
<1> DEFINE n == Len(currentCommand)
           length == Last(currentCommand).token
           out == readLiteral(toLiteralLength(length), receivedData, scanCursor)
<1>1. /\ ~ignoring /\ LastType(currentCommand) = "LITERAL_LENGTH" /\ currentCommand \in Seq(Lexemes)
      /\ n \in Nat /\ n >= 2 /\ UNCHANGED <<arrived, stream, pending, executed>>
  BY EnteringForm, CursorInBuffer DEF TakeLiteral, client
<1>2. n \in DOMAIN currentCommand /\ currentCommand[n] \in Lexemes
  BY <1>1
<1>3. n > 2 /\ IsLength(length) /\ Name \in KnownCommands
  BY <1>1, <1>2 DEF ReadInv, Places, LengthOK, LastType, Last
<1>4. length \in Seq(Bytes)
  BY <1>2 DEF Last, Lexemes
<1>5. Position(receivedData, scanCursor) /\ scanCursor \in scanCursor .. Len(receivedData)
  BY CursorInBuffer
<1>6. toLiteralLength(length) \in Nat
  BY <1>3, <1>4, LengthIsNatural
<1>7. Sound(out, receivedData, scanCursor)
  BY <1>5, <1>6, LiteralSound
<1>8. /\ out.cursor \in scanCursor .. Len(receivedData)
      /\ out.outcome = "token" => out.lexeme = Lexeme("STRING_LITERAL", out.lexeme.token)
  BY <1>7 DEF Sound, readLiteral, Null, Token, Lexeme
<1>9. out.outcome = "token" => out.lexeme \in Lexemes /\ out.lexeme.type = "STRING_LITERAL"
  <2>1. ASSUME out.outcome = "token" PROVE out.lexeme.token \in Seq(Bytes)
    <3>1. out.lexeme.token = Slice(receivedData, scanCursor, out.cursor)
      BY <1>7, <2>1 DEF Sound, Behaves
    <3>2. Slice(receivedData, scanCursor, out.cursor) \in Seq(Bytes)
      BY <1>5, <1>8, SliceParts DEF Position
    <3> QED BY <3>1, <3>2
  <2> HIDE DEF out
  <2> QED BY <1>8, <2>1 DEF Lexemes, LexemeTypes, Lexeme
<1>10. \/ Fail(Throw(scanCursor))
       \/ /\ Advance(out)
          /\ IF out.outcome = "token"
             THEN currentCommand' = Append(Front(currentCommand), out.lexeme) /\ pc' = "entering"
             ELSE pc' = "idle" /\ UNCHANGED currentCommand
          /\ UNCHANGED <<useUID, counters, socket, answered>>
  BY DEF TakeLiteral
<1> HIDE DEF out
<1>11. /\ useUID \in BOOLEAN /\ answered \in Nat
       /\ socket \in {"open", "ended"} /\ pending \in Seq(KnownCommands)
  BY DEF ReadInv, Types, ReadTypeOK
<1>12. CASE Fail(Throw(scanCursor))
  <2>1. MovesTo(scanCursor)
    BY <1>1, <1>12 DEF Fail, Advance, Throw, MovesTo
  <2>2. /\ socket' = "ended" /\ pc' = "idle" /\ answered' = answered + 1
        /\ UNCHANGED <<currentCommand, useUID, counters>>
    BY <1>12 DEF Fail
  <2>3. Places'
    BY <2>2, PlacesKept DEF ReadInv
  <2> QED BY <1>1, <1>5, <1>11, <2>1, <2>2, <2>3, MoveKeeps
<1>13. CASE /\ Advance(out) /\ out.outcome # "token" /\ pc' = "idle" /\ UNCHANGED currentCommand
            /\ UNCHANGED <<useUID, counters, socket, answered>>
  <2>1. MovesTo(out.cursor)
    BY <1>1, <1>13, AdvanceMoves
  <2>2. Places'
    BY <1>13, PlacesKept DEF ReadInv
  <2> QED BY <1>1, <1>8, <1>11, <1>13, <2>1, <2>2, MoveKeeps
<1>14. CASE /\ Advance(out) /\ out.outcome = "token"
            /\ currentCommand' = Append(Front(currentCommand), out.lexeme) /\ pc' = "entering"
            /\ UNCHANGED <<useUID, counters, socket, answered>>
  <2>1. MovesTo(out.cursor)
    BY <1>1, <1>14, AdvanceMoves
  <2>2. /\ currentCommand' \in Seq(Lexemes) /\ Len(currentCommand') = n /\ DOMAIN currentCommand' = 1 .. n
        /\ \A i \in 1 .. n - 1 : currentCommand'[i] = currentCommand[i]
        /\ currentCommand'[n] = out.lexeme /\ Name' = Name
    BY <1>1, <1>3, <1>9, <1>14, LexemeReplaced
  <2>3. Places'
    <3>1. ASSUME NEW i \in 1 .. n PROVE LengthOK(i)'
      <4>1. CASE i = n
        BY <1>9, <1>14, <2>2, <4>1 DEF LengthOK
      <4>2. CASE i # n
        <5>1. i \in 1 .. n - 1 /\ i \in DOMAIN currentCommand
          BY <1>1, <4>2
        <5>2. LengthOK(i)
          BY <5>1 DEF ReadInv, Places
        <5> QED BY <2>2, <5>1, <5>2 DEF LengthOK
      <4> QED BY <4>1, <4>2
    <3>2. FetchOK(currentCommand, Name)'
      BY <1>1, <2>2 DEF ReadInv, Places, FetchOK, FetchTypes
    <3> QED BY <1>1, <1>14, <2>2, <3>1, <3>2 DEF Places
  <2> QED BY <1>1, <1>3, <1>8, <1>11, <1>14, <2>1, <2>2, <2>3, MoveKeeps
<1> QED BY <1>10, <1>12, <1>13, <1>14

(* What executing a command does to the commands pending.                  *)
LEMMA ExecuteTypes ==
  ASSUME ReadInv, NEW command, Execute(command)
  PROVE  pending' \in Seq(KnownCommands) /\ answered' \in Nat
<1>1. pending \in Seq(KnownCommands) /\ answered \in Nat
  BY DEF ReadInv, Types, ReadTypeOK
<1>2. CommandName(command) \in KnownCommands => Append(pending, CommandName(command)) \in Seq(KnownCommands)
  BY <1>1
<1>3. \/ UNCHANGED <<pending, answered>>
      \/ CommandName(command) \in KnownCommands /\ pending' = Append(pending, CommandName(command))
         /\ answered' = answered
      \/ answered' = answered + 1 /\ pending' = pending
  BY DEF Execute
<1> QED BY <1>1, <1>2, <1>3

(* The end of the line is ahead when a command that is not known is        *)
(* skipped.                                                                *)
LEMMA SkipUnknownKeeps ==
  ASSUME ReadInv, SkipUnknown
  PROVE  Kept
<1>1. /\ lineReady /\ skipLine(scanCursor) /\ Execute(currentCommand) /\ currentCommand' = <<>> /\ pc' = "idle"
      /\ UNCHANGED <<arrived, stream, useUID, tagReadFailures, badArgumentFailures, socket>>
  BY EnteringForm DEF SkipUnknown, Name, client, counters
<1>2. /\ tagReadFailures' \in Nat /\ badArgumentFailures' \in Nat /\ socket' \in {"open", "ended"}
      /\ pending' \in Seq(KnownCommands) /\ answered' \in Nat
  BY <1>1, ExecuteTypes DEF ReadInv, Types, ReadTypeOK
<1> QED BY <1>1, <1>2, SkipKeeps, CursorInBuffer

(* A token that a lexer reads is read by one of its readers, at the cursor *)
(* or behind it; and in any case the cursor stays in the buffer.           *)
LEMMA LexedToken ==
  ASSUME NEW lexer, NEW R, R \subseteq Readers, Tries(lexer, R), Position(receivedData, scanCursor)
  PROVE  /\ Lexed(lexer).cursor \in scanCursor .. Len(receivedData)
         /\ Lexed(lexer).outcome = "token" =>
              \E r \in R, c \in scanCursor .. Len(receivedData) :
                Lexed(lexer) = Reading(r, receivedData, c)
<1> DEFINE n == Len(receivedData)
           out == Lexed(lexer)
<1>1. scanCursor \in Nat /\ n \in Nat /\ receivedData \in Seq(Bytes) /\ "none" \notin R
  BY DEF Position, Readers
<1>2. PICK a \in scanCursor .. n : out \in Outcomes(R, receivedData, a)
  BY <1>1, LexedByReader
<1> HIDE DEF out, n
<1>3. CASE out = Throw(a)
  BY <1>2, <1>3 DEF Throw, out, n
<1>4. CASE out # Throw(a)
  <2>1. PICK r \in R, c \in a .. n : out = Reading(r, receivedData, c)
    BY <1>2, <1>4 DEF Outcomes, n
  <2>2. c \in scanCursor .. n /\ Position(receivedData, c)
    BY <1>1 DEF Position, n
  <2>3. out.cursor \in c .. n
    BY <2>1, <2>2, ReadingSound DEF Sound, n
  <2>4. out.cursor \in scanCursor .. n
    BY <1>1, <2>2, <2>3
  <2> QED BY <2>1, <2>2, <2>4 DEF out, n
<1> QED BY <1>3, <1>4

(* What one of the readers has read.                                       *)
TokenRead(out, R) ==
  /\ out.lexeme \in Lexemes
  /\ out.lexeme.type = "LITERAL_LENGTH" => IsLength(out.lexeme.token)
  /\ out.lexeme.type \in {"END_OF_COMMAND", "NEWLINE"} =>
       BehindLine(receivedData, scanCursor, out.cursor)
  /\ out.lexeme.type = "NEWLINE" => "newLine" \in R
  /\ out.lexeme.type \in UNION {TypesOf(r) : r \in R}
  /\ \E c \in scanCursor .. out.cursor : out.lexeme.token = Slice(receivedData, c, out.cursor)

LEMMA TokenOfReader ==
  ASSUME NEW lexer, NEW R, R \subseteq Readers, Tries(lexer, R), Position(receivedData, scanCursor),
         Lexed(lexer).outcome = "token"
  PROVE  TokenRead(Lexed(lexer), R)
<1> DEFINE out == Lexed(lexer)
           n == Len(receivedData)
<1>1. PICK r \in R, c \in scanCursor .. n : out = Reading(r, receivedData, c)
  BY LexedToken
<1>2. Position(receivedData, c) /\ r \in Readers /\ scanCursor \in Nat /\ n \in Nat
  BY DEF Position
<1>3. out.outcome = "token"
  OBVIOUS
<1> HIDE DEF out, n
<1>4. out.lexeme \in Lexemes
  BY <1>1, <1>2, <1>3, TokenIsLexeme
<1>5. out.lexeme.type = "LITERAL_LENGTH" => IsLength(out.lexeme.token)
  BY <1>1, <1>2, <1>3, LengthsRead
<1>6. out.lexeme.type \in {"END_OF_COMMAND", "NEWLINE"} =>
        /\ BehindLine(receivedData, c, out.cursor)
        /\ out.lexeme.type = "NEWLINE" => r = "newLine"
  BY <1>1, <1>2, <1>3, LineEndsRead
<1>7. BehindLine(receivedData, c, out.cursor) => BehindLine(receivedData, scanCursor, out.cursor)
  BY <1>1, <1>2 DEF BehindLine, n
<1>8. out.lexeme.type \in TypesOf(r)
  BY <1>1, <1>2, <1>3, ReadingType DEF HasType
<1>9. Sound(out, receivedData, c)
  BY <1>1, <1>2, ReadingSound
<1>10. c \in scanCursor .. out.cursor /\ out.lexeme.token = Slice(receivedData, c, out.cursor)
  BY <1>1, <1>2, <1>3, <1>9 DEF Sound, Behaves, n
<1>11. TokenRead(out, R)
  BY <1>1, <1>4, <1>5, <1>6, <1>7, <1>8, <1>10 DEF TokenRead
<1> QED BY <1>11 DEF out

(* What TakeArgument reads.                                                *)
ArgumentName == IF pc = "trailing" THEN "SEARCH" ELSE Name
ArgumentLexer ==
  IF pc = "trailing" THEN SEARCHLexer("END_OF_COMMAND")
  ELSE LexerOf(ArgumentName, currentCommand, pc # "arguments")
ArgumentPlace ==
  \/ pc \in {"arguments", "trailing"}
  \/ Entering /\ LastType(currentCommand) # "LITERAL_LENGTH" /\ ArgumentName \in KnownCommands

LEMMA ArgumentRead ==
  ASSUME ReadInv, ArgumentPlace
  PROVE  LET out == Lexed(ArgumentLexer)
             type == out.lexeme.type
         IN
         /\ ~ignoring /\ out.cursor \in scanCursor .. Len(receivedData)
         /\ pc # "trailing" => Len(currentCommand) >= 2 /\ Name \in KnownCommands
         /\ out.outcome = "token" =>
              /\ TokenRead(out, Readers)
              /\ type = "NEWLINE" => pc # "trailing" /\ Name = "AUTHENTICATE"
              /\ pc = "trailing" => type \in {"WHITESPACE", "LIST_END", "END_OF_COMMAND"}
              /\ pc # "trailing" /\ Name = "FETCH" /\ Len(currentCommand) >= 5 =>
                   type \in FetchTypes \cup {"END_OF_COMMAND"}
<1> DEFINE out == Lexed(ArgumentLexer)
           type == out.lexeme.type
<1>1. Position(receivedData, scanCursor) /\ currentCommand \in Seq(Lexemes)
  BY CursorInBuffer
<1>2. ~ignoring
  BY EnteringForm, Reads DEF ArgumentPlace
<1>3. CASE pc = "trailing"
  <2>1. Tries(ArgumentLexer, TrailingReaders)
    BY <1>3, TrailingTries DEF ArgumentLexer
  <2>2. TrailingReaders \subseteq Readers
    BY DEF TrailingReaders, Readers
  <2>3. Tries(ArgumentLexer, Readers)
    BY <2>1, <2>2, TriesMore
  <2>4. out.cursor \in scanCursor .. Len(receivedData)
    BY <1>1, <2>3, LexedToken
  <2>5. ASSUME out.outcome = "token"
        PROVE  TokenRead(out, Readers) /\ type \in UNION {TypesOf(r) : r \in TrailingReaders}
    <3>1. TokenRead(out, Readers)
      BY <1>1, <2>3, <2>5, TokenOfReader
    <3>2. TokenRead(out, TrailingReaders)
      BY <1>1, <2>1, <2>2, <2>5, TokenOfReader
    <3> QED BY <3>1, <3>2 DEF TokenRead
  <2> HIDE DEF out
  <2>6. UNION {TypesOf(r) : r \in TrailingReaders} \subseteq {"WHITESPACE", "LIST_END", "END_OF_COMMAND"}
    BY DEF TypesOf, TrailingReaders
  <2>7. out.outcome = "token" => type \in {"WHITESPACE", "LIST_END", "END_OF_COMMAND"}
    BY <2>5, <2>6
  <2> QED BY <1>2, <1>3, <2>4, <2>5, <2>7 DEF out
<1>4. CASE pc # "trailing"
  <2>1. Len(currentCommand) >= 2 /\ Name \in KnownCommands /\ FetchOK(currentCommand, Name)
    BY <1>4, EnteringForm DEF ArgumentPlace, ArgumentName, ReadInv, Places
  <2>2. ArgumentLexer = LexerOf(Name, currentCommand, pc # "arguments")
    BY <1>4 DEF ArgumentLexer, ArgumentName
  <2>3. /\ Tries(ArgumentLexer, Readers)
        /\ Name # "AUTHENTICATE" => Tries(ArgumentLexer, LineReaders)
        /\ Name = "FETCH" /\ Len(currentCommand) >= 5 => Tries(ArgumentLexer, FetchReaders)
    BY <1>1, <2>1, <2>2, LexerTries
  <2>4. out.cursor \in scanCursor .. Len(receivedData)
    BY <1>1, <2>3, LexedToken
  <2>5. out.outcome = "token" => TokenRead(out, Readers)
    BY <1>1, <2>3, TokenOfReader
  <2>6. out.outcome = "token" /\ Name # "AUTHENTICATE" => TokenRead(out, LineReaders)
    BY <1>1, <2>3, ReaderLists, TokenOfReader
  <2>7. out.outcome = "token" /\ Name = "FETCH" /\ Len(currentCommand) >= 5 => TokenRead(out, FetchReaders)
    <3>1. FetchReaders \subseteq Readers
      BY DEF FetchReaders, Readers
    <3> QED BY <1>1, <2>3, <3>1, TokenOfReader
  <2> HIDE DEF out
  <2>8. out.outcome = "token" /\ type = "NEWLINE" => Name = "AUTHENTICATE"
    BY <2>6 DEF TokenRead, LineReaders
  <2>9. out.outcome = "token" /\ Name = "FETCH" /\ Len(currentCommand) >= 5 =>
          type \in FetchTypes \cup {"END_OF_COMMAND"}
    <3>1. UNION {TypesOf(r) : r \in FetchReaders} \subseteq FetchTypes \cup {"END_OF_COMMAND"}
      BY DEF TypesOf, FetchReaders, FetchTypes
    <3> QED BY <2>7, <3>1 DEF TokenRead
  <2> QED BY <1>2, <1>4, <2>1, <2>4, <2>5, <2>8, <2>9 DEF out
<1> QED BY <1>3, <1>4

(* The places of the generator behind a lexeme.                            *)
LEMMA NextPlaces ==
  ASSUME NEW lexeme
  PROVE  LET next == NextPlace(ArgumentName, lexeme) IN
         /\ next \in {"idle", "arguments", "trailing"}
         /\ lexeme.type = "END_OF_COMMAND" => next \in {"idle", "trailing"}
         /\ pc = "trailing" => next = "trailing"
         /\ lexeme.type # "END_OF_COMMAND" /\ pc # "trailing" => next \in {"idle", "arguments"}
BY DEF NextPlace

(* A lexeme is added to the command.                                       *)
LEMMA ArgumentAppended ==
  ASSUME ReadInv, ArgumentPlace, Lexed(ArgumentLexer).outcome = "token",
         Lexed(ArgumentLexer).lexeme.type # "END_OF_COMMAND",
         currentCommand' = Append(currentCommand, Lexed(ArgumentLexer).lexeme),
         pc' = NextPlace(ArgumentName, Lexed(ArgumentLexer).lexeme)
  PROVE  currentCommand' \in Seq(Lexemes) /\ Places'
<1> DEFINE out == Lexed(ArgumentLexer)
           lexeme == out.lexeme
           n == Len(currentCommand)
<1>1. /\ pc # "trailing" => n >= 2 /\ Name \in KnownCommands
      /\ TokenRead(out, Readers)
      /\ lexeme.type = "NEWLINE" => pc # "trailing" /\ Name = "AUTHENTICATE"
      /\ pc = "trailing" => lexeme.type \in {"WHITESPACE", "LIST_END", "END_OF_COMMAND"}
      /\ pc # "trailing" /\ Name = "FETCH" /\ n >= 5 => lexeme.type \in FetchTypes \cup {"END_OF_COMMAND"}
  BY ArgumentRead
<1>2. lexeme \in Lexemes /\ (lexeme.type = "LITERAL_LENGTH" => IsLength(lexeme.token))
  BY <1>1 DEF TokenRead
<1>3. currentCommand \in Seq(Lexemes)
  BY CursorInBuffer
<1>4. /\ pc = "trailing" => pc' = "trailing"
      /\ pc # "trailing" => pc' \in {"idle", "arguments"}
  BY NextPlaces
<1>5. lexeme.type # "END_OF_COMMAND" /\ currentCommand' = Append(currentCommand, lexeme)
  OBVIOUS
<1> HIDE DEF lexeme, out
<1>6. /\ currentCommand' \in Seq(Lexemes)
      /\ n \in Nat /\ Len(currentCommand') = n + 1
      /\ DOMAIN currentCommand' = 1 .. n + 1 /\ DOMAIN currentCommand = 1 .. n
      /\ \A i \in 1 .. n : currentCommand'[i] = currentCommand[i]
      /\ currentCommand'[n + 1] = lexeme
      /\ LastType(currentCommand') = lexeme.type
      /\ n >= 2 => Name' = Name
  BY <1>2, <1>3, <1>5, LexemeAppended
<1> HIDE DEF n
<1>7. CASE pc = "trailing"
  <2>1. lexeme.type \in {"WHITESPACE", "LIST_END"}
    BY <1>1, <1>5, <1>7
  <2>2. \A i \in 1 .. n : currentCommand[i].type \in {"WHITESPACE", "LIST_END"}
    BY <1>6, <1>7 DEF ReadInv, Places
  <2>3. \A i \in 1 .. n + 1 : currentCommand'[i].type \in {"WHITESPACE", "LIST_END"}
    <3>1. \A i \in 1 .. n + 1 : i \in 1 .. n \/ i = n + 1
      BY <1>6
    <3> QED BY <1>6, <2>1, <2>2, <3>1
  <2>4. \A i \in 1 .. n + 1 : LengthOK(i)'
    BY <2>3 DEF LengthOK
  <2>5. FetchOK(currentCommand, Name)'
    BY <1>6, <2>1 DEF FetchOK, FetchTypes
  <2> QED BY <1>4, <1>6, <1>7, <2>3, <2>4, <2>5 DEF Places
<1>8. CASE pc # "trailing"
  <2>1. n >= 2 /\ Name \in KnownCommands /\ Name' = Name
    BY <1>1, <1>6, <1>8 DEF n
  <2>2. ASSUME NEW i \in 1 .. n + 1 PROVE LengthOK(i)'
    <3>1. CASE i = n + 1
      <4>1. i > 2
        BY <1>6, <2>1, <3>1
      <4> QED BY <1>2, <1>6, <2>1, <3>1, <4>1 DEF LengthOK
    <3>2. CASE i # n + 1
      <4>1. i \in 1 .. n
        BY <1>6, <3>2
      <4>2. LengthOK(i)
        BY <1>6, <4>1 DEF ReadInv, Places
      <4> QED BY <1>6, <2>1, <4>1, <4>2 DEF LengthOK
    <3> QED BY <3>1, <3>2
  <2>3. FetchOK(currentCommand, Name)'
    <3>1. n + 1 >= 6 => n >= 5
      BY <1>6
    <3>2. Name = "FETCH" /\ n >= 5 => lexeme.type \in FetchTypes
      BY <1>1, <1>5, <1>8 DEF n
    <3> QED BY <1>6, <2>1, <3>1, <3>2 DEF FetchOK
  <2>4. n + 1 >= 2
    BY <1>6, <2>1
  <2> QED BY <1>4, <1>6, <1>8, <2>1, <2>2, <2>3, <2>4 DEF Places
<1> QED BY <1>6, <1>7, <1>8

(* A command is executed behind the line terminator that its lexer has     *)
(* read.                                                                   *)
LEMMA TakeArgumentKeeps ==
  ASSUME ReadInv, TakeArgument
  PROVE  Kept
<1> DEFINE out == Lexed(ArgumentLexer)
           next == NextPlace(ArgumentName, out.lexeme)
<1>1. /\ ArgumentPlace
      /\ \/ out.outcome = "null" /\ Advance(out) /\ pc' = "idle"
            /\ UNCHANGED <<currentCommand, counters, socket, pending, answered, executed>>
         \/ out.outcome = "error" /\ BadArguments(out)
         \/ /\ out.outcome = "token" /\ Advance(out) /\ respondToLexeme(out.lexeme, next)
            /\ UNCHANGED <<counters, socket>>
      /\ UNCHANGED <<arrived, client, useUID>>
  BY DEF TakeArgument, ArgumentName, ArgumentLexer, ArgumentPlace, Name
<1>2. ~ignoring /\ out.cursor \in scanCursor .. Len(receivedData)
  BY <1>1, ArgumentRead
<1>3. /\ useUID \in BOOLEAN /\ answered \in Nat /\ tagReadFailures \in Nat /\ badArgumentFailures \in Nat
      /\ socket \in {"open", "ended"} /\ pending \in Seq(KnownCommands) /\ currentCommand \in Seq(Lexemes)
  BY CursorInBuffer DEF ReadInv, Types, ReadTypeOK
<1>4. UNCHANGED <<arrived, stream, useUID>>
  BY <1>1 DEF client
<1>5. CASE out.outcome = "null" /\ Advance(out) /\ pc' = "idle"
           /\ UNCHANGED <<currentCommand, counters, socket, pending, answered, executed>>
  <2>1. MovesTo(out.cursor)
    BY <1>4, <1>5, AdvanceMoves
  <2> HIDE DEF out
  <2>2. Places'
    BY <1>5, PlacesKept DEF ReadInv
  <2> QED BY <1>2, <1>3, <1>4, <1>5, <2>1, <2>2, MoveKeeps
<1>6. CASE BadArguments(out)
  <2> HIDE DEF out
  <2>1. /\ badArgumentFailures' = badArgumentFailures + 1 /\ CloseAbove(badArgumentFailures')
        /\ skipLine(out.cursor) /\ currentCommand' = <<>> /\ pc' = "idle" /\ answered' = answered + 1
        /\ UNCHANGED <<tagReadFailures, pending, executed>>
    BY <1>6 DEF BadArguments
  <2>2. socket' \in {"open", "ended"} /\ badArgumentFailures' \in Nat /\ answered' \in Nat
    BY <1>3, <2>1 DEF CloseAbove
  <2> QED BY <1>2, <1>3, <1>4, <2>1, <2>2, SkipKeeps
<1>7. CASE out.outcome = "token" /\ Advance(out) /\ respondToLexeme(out.lexeme, next)
           /\ UNCHANGED <<counters, socket>>
  <2>1. MovesTo(out.cursor)
    BY <1>4, <1>7, AdvanceMoves
  <2>2. TokenRead(out, Readers)
    BY <1>1, <1>7, ArgumentRead
  <2>3. /\ next \in {"idle", "arguments", "trailing"}
        /\ out.lexeme.type = "END_OF_COMMAND" => next \in {"idle", "trailing"}
    BY NextPlaces
  <2>4. CASE out.lexeme.type = "END_OF_COMMAND" /\ Execute(currentCommand) /\ currentCommand' = <<>> /\ pc' = next
    <3> HIDE DEF out, next
    <3>1. Places' /\ currentCommand' \in Seq(Lexemes)
      <4>1. <<>> \in Seq(Lexemes)
        OBVIOUS
      <4> QED BY <2>3, <2>4, <4>1, PlacesCleared
    <3>2. pending' \in Seq(KnownCommands) /\ answered' \in Nat
      BY <2>4, ExecuteTypes
    <3>3. BehindLine(receivedData, scanCursor, out.cursor)
      BY <2>2, <2>4 DEF TokenRead
    <3> QED BY <1>2, <1>3, <1>4, <1>7, <2>1, <2>3, <2>4, <3>1, <3>2, <3>3, MoveKeeps
  <2>5. CASE /\ out.lexeme.type = "NEWLINE" /\ currentCommand' = Append(currentCommand, out.lexeme)
             /\ Execute(currentCommand') /\ pc' = next
    <3>1. Places' /\ currentCommand' \in Seq(Lexemes)
      BY <1>1, <1>7, <2>5, ArgumentAppended
    <3> HIDE DEF out, next
    <3>2. pending' \in Seq(KnownCommands) /\ answered' \in Nat
      BY <2>5, ExecuteTypes
    <3>3. BehindLine(receivedData, scanCursor, out.cursor)
      BY <2>2, <2>5 DEF TokenRead
    <3> QED BY <1>2, <1>3, <1>4, <1>7, <2>1, <2>3, <2>5, <3>1, <3>2, <3>3, MoveKeeps
  <2>6. CASE /\ out.lexeme.type \notin {"END_OF_COMMAND", "NEWLINE"}
             /\ currentCommand' = Append(currentCommand, out.lexeme)
             /\ answered' = IF out.lexeme.type = "LITERAL_LENGTH" THEN answered + 1 ELSE answered
             /\ pc' = next /\ UNCHANGED <<pending, executed>>
    <3>1. Places' /\ currentCommand' \in Seq(Lexemes)
      BY <1>1, <1>7, <2>6, ArgumentAppended
    <3> HIDE DEF out, next
    <3>2. answered' \in Nat
      BY <1>3, <2>6
    <3> QED BY <1>2, <1>3, <1>4, <1>7, <2>1, <2>3, <2>6, <3>1, <3>2, MoveKeeps
  <2> HIDE DEF out, next
  <2> QED BY <1>7, <2>4, <2>5, <2>6 DEF respondToLexeme
<1> HIDE DEF out, next
<1> QED BY <1>1, <1>5, <1>6, <1>7

(* One of the callbacks ends.                                              *)
LEMMA CallbackEndsKeeps ==
  ASSUME ReadInv, CallbackEnds
  PROVE  Kept
<1>1. PICK i \in DOMAIN pending :
        /\ pending' = RemoveAt(pending, i)
        /\ currentCommand' \in {currentCommand, <<>>} /\ useUID' \in {useUID, FALSE}
  BY DEF CallbackEnds
<1>2. /\ UNCHANGED <<receivedData, scanCursor, ignoring, arrived, stream, tagReadFailures,
                     badArgumentFailures, socket, executed>>
      /\ pc' = "idle" /\ answered' = answered + 1
  BY DEF CallbackEnds, scannerVars, client, counters
<1>3. TypeOK' /\ UnreadIsTail' /\ Passed' = Passed /\ (ignoring' => ~lineReady')
  BY <1>2 DEF ReadInv, Types, ReadTypeOK, TypeOK, Lines, UnreadIsTail, Passed, Unread, lineReady
<1>4. Types'
  <2>1. pending \in Seq(KnownCommands) /\ answered \in Nat /\ useUID \in BOOLEAN
    BY DEF ReadInv, Types, ReadTypeOK
  <2>2. pending' \in Seq(KnownCommands)
    <3>1. /\ SubSeq(pending, 1, i - 1) \in Seq(KnownCommands)
          /\ SubSeq(pending, i + 1, Len(pending)) \in Seq(KnownCommands)
      BY <2>1
    <3> QED BY <1>1, <3>1 DEF RemoveAt
  <2>3. <<>> \in Seq(Lexemes) /\ currentCommand \in Seq(Lexemes)
    BY CursorInBuffer
  <2>4. currentCommand' \in Seq(Lexemes)
    BY <1>1, <2>3
  <2>5. useUID' \in BOOLEAN
    BY <1>1, <2>1, Zenon
  <2>6. /\ tagReadFailures' \in Nat /\ badArgumentFailures' \in Nat /\ answered' \in Nat
        /\ socket' \in {"open", "ended"}
    BY <1>2, <2>1 DEF ReadInv, Types, ReadTypeOK
  <2> QED BY <1>2, <1>3, <2>2, <2>4, <2>5, <2>6, TypesKept DEF ReadInv
<1>5. Places'
  BY <1>1, <1>2, PlacesKept, PlacesCleared DEF ReadInv
<1>6. Lines'
  BY <1>2, <1>3 DEF Lines
<1>7. Resumes
  BY <1>2 DEF Resumes, counters
<1>8. Passed' >= Passed
  BY <1>3, CursorInBuffer
<1> QED BY <1>4, <1>5, <1>6, <1>7, <1>8 DEF Kept, ReadInv

(* At first nothing has arrived.                                           *)
LEMMA ReadInitInv == ReadInit => ReadInv
<1> SUFFICES ASSUME ReadInit PROVE ReadInv
  OBVIOUS
<1>1. PICK lines \in Scripts : stream = TextOf(lines)
  BY DEF ReadInit
<1>2. stream \in Seq(Bytes)
  BY <1>1, ClientSendsBytes
<1>3. /\ receivedData = <<>> /\ scanCursor = 0 /\ ignoring = FALSE /\ arrived = <<>>
      /\ currentCommand = <<>> /\ useUID = FALSE /\ tagReadFailures = 0 /\ badArgumentFailures = 0
      /\ socket = "open" /\ pc = "idle" /\ pending = <<>> /\ answered = 0
  BY DEF ReadInit, Init
<1>4. TypeOK /\ UnreadIsTail
  BY <1>3, InitOK DEF ReadInit
<1>5. Types
  <2>1. <<>> \in Seq(Lexemes) /\ <<>> \in Seq(KnownCommands) /\ Len(arrived) = 0 /\ DOMAIN currentCommand = {}
    BY <1>3
  <2>2. arrived = Slice(stream, 0, Len(arrived)) /\ Len(arrived) <= Len(stream)
    <3>1. 0 \in 0 .. Len(stream)
      BY <1>2
    <3>2. Slice(stream, 0, 0) \in Seq(Bytes) /\ Len(Slice(stream, 0, 0)) = 0
      BY <1>2, <3>1, StreamParts
    <3>3. Slice(stream, 0, 0) = <<>>
      BY <3>2
    <3> QED BY <1>2, <1>3, <2>1, <3>3
  <2> QED BY <1>2, <1>3, <1>4, <2>1, <2>2 DEF Types, ReadTypeOK
<1>6. Places
  <2>1. Len(currentCommand) = 0 /\ DOMAIN currentCommand = {}
    BY <1>3
  <2> QED BY <1>3, <2>1 DEF Places, FetchOK
<1>7. Lines
  BY <1>3, <1>4 DEF Lines
<1> QED BY <1>5, <1>6, <1>7 DEF ReadInv

(* Each step keeps the invariant and what the properties say of a step.    *)
LEMMA ReadStepKeeps ==
  ASSUME ReadInv, ReadNext
  PROVE  Kept
BY ReceiveDataKeeps, SkipOverlongKeeps, AwaitLineKeeps, TakeTagKeeps, TakeCommandKeeps, TakeLiteralKeeps,
   SkipUnknownKeeps, TakeArgumentKeeps, CallbackEndsKeeps
   DEF ReadNext, Read

(* What holds in each state, whatever the client sends.                    *)
THEOREM ReadInvariant == IntakeSpec => []ReadInv
<1>1. ReadInv /\ UNCHANGED intakeVars => ReadInv'
  <2> SUFFICES ASSUME ReadInv, UNCHANGED intakeVars PROVE ReadInv'
    OBVIOUS
  <2>1. /\ UNCHANGED <<receivedData, scanCursor, ignoring, arrived, stream, currentCommand, useUID>>
        /\ UNCHANGED <<tagReadFailures, badArgumentFailures, socket, pc, pending, answered>>
    BY DEF intakeVars, scannerVars, client, counters
  <2>2. Types'
    BY <2>1 DEF ReadInv, Types, ReadTypeOK, TypeOK
  <2>3. Places'
    BY <2>1 DEF ReadInv, Places, LengthOK, Name
  <2>4. Lines'
    BY <2>1 DEF ReadInv, Lines, UnreadIsTail, Passed, Unread, lineReady, Name
  <2> QED BY <2>2, <2>3, <2>4 DEF ReadInv
<1>2. ReadInv /\ [ReadNext]_intakeVars => ReadInv'
  BY <1>1, ReadStepKeeps DEF Kept
<1> QED BY ReadInitInv, <1>2, PTL DEF IntakeSpec

(* The state of a connection that reads commands keeps its types, and what *)
(* arrived is the first part of what the client sends.                     *)
THEOREM ReadsWellTyped == IntakeSpec => []ReadTypeOK
<1>1. ReadInv => ReadTypeOK
  BY DEF ReadInv, Types
<1> QED BY <1>1, ReadInvariant, PTL

(* The promise of the scanner, of the connection that drives it: the bytes *)
(* are read in order, each at most once, and none left out between ignored *)
(* lines.                                                                  *)
THEOREM ConnectionReadsOnce == IntakeSpec => EachByteOnce
<1>1. ReadInv /\ [ReadNext]_intakeVars => [UnreadIsTail' /\ Passed' >= Passed]_scannerVars
  <2> SUFFICES ASSUME ReadInv, [ReadNext]_intakeVars, ~UNCHANGED scannerVars
               PROVE  UnreadIsTail' /\ Passed' >= Passed
    OBVIOUS
  <2>1. ReadNext
    BY DEF intakeVars
  <2> QED BY <2>1, ReadStepKeeps DEF Kept, ReadInv, Lines
<1> QED BY <1>1, ReadInvariant, PTL DEF IntakeSpec, EachByteOnce

(* A command is executed only at the end of a line, and behind a line that *)
(* is skipped reading goes on at the start of the next, however the line   *)
(* was cut into data events and wherever its reading failed.               *)
THEOREM CommandsEndWithLines == IntakeSpec => ResumesAtLineStart
<1>1. ReadInv /\ [ReadNext]_intakeVars
        => [ /\ executed' # executed => ~ignoring' /\ AtLineStart'
             /\ (ignoring \/ counters' # counters) /\ ~ignoring' => AtLineStart' ]_intakeVars
  BY ReadStepKeeps DEF Kept, Resumes
<1> QED BY <1>1, ReadInvariant, PTL DEF IntakeSpec, ResumesAtLineStart

-----------------------------------------------------------------------------
(* What is executed is what was sent.                                      *)

Tokens(command) == [i \in DOMAIN command |-> command[i].token]

(* The tokens are bytes of the stream, each at its place, one behind the   *)
(* other, and the last of them over by the given end.                      *)
Sent(tokens, at, end) ==
  /\ at \in [DOMAIN tokens -> Nat]
  /\ \A i \in DOMAIN tokens : Begins(tokens[i], stream, at[i]) /\ at[i] + Len(tokens[i]) <= end
  /\ \A i, j \in DOMAIN tokens : i < j => at[i] + Len(tokens[i]) <= at[j]

LineEnds(end) == end >= Len(CRLF) /\ Begins(CRLF, stream, end - Len(CRLF))

Authenticates(tokens) ==
  Len(tokens) >= 2 /\ Len(tokens[2]) = 1 /\ toUpperCase(tokens[2])[1] = "AUTHENTICATE"

(* A command has no bytes before the end of one executed before it, except *)
(* that AUTHENTICATE is executed again with the response of the client.    *)
Behind(tokens, at, end, before, placesBefore) ==
  \A i \in DOMAIN tokens :
    \/ end <= at[i]
    \/ /\ Authenticates(before)
       /\ i \in DOMAIN before /\ tokens[i] = before[i] /\ at[i] = placesBefore[i]

(* Each command executed was sent in full and up to the end of a line,     *)
(* behind the commands executed before it.                                 *)
SentInTurn(places, ends) ==
  /\ \A k \in DOMAIN executed : Sent(executed[k].tokens, places[k], ends[k]) /\ LineEnds(ends[k])
  /\ \A j, k \in DOMAIN executed :
       j < k => /\ ends[j] < ends[k]
                /\ Behind(executed[k].tokens, places[k], ends[j], executed[j].tokens, places[j])

ExecutedAsSent == \E places, ends : SentInTurn(places, ends)

(* So far, with the lexemes of the command being read.                     *)
Executions == [uid : BOOLEAN, tokens : Seq(Seq(Bytes))]

SentSoFar(places, ends, at) ==
  /\ SentInTurn(places, ends)
  /\ \A k \in DOMAIN executed : ends[k] \in Int /\ ends[k] <= Passed
  /\ Sent(Tokens(currentCommand), at, Passed)
  /\ \A k \in DOMAIN executed :
       Behind(Tokens(currentCommand), at, ends[k], executed[k].tokens, places[k])

SentInv == executed \in Seq(Executions) /\ \E places, ends, at : SentSoFar(places, ends, at)

(* What a step may do to the command being read and to those executed.     *)
NewBytes(token) ==
  \E c \in Nat : Passed <= c /\ Begins(token, stream, c) /\ c + Len(token) <= Passed'

Extended ==
  \E m \in 0 .. Len(currentCommand) :
    /\ Len(currentCommand') = m + 1
    /\ \A i \in 1 .. m : currentCommand'[i] = currentCommand[i]
    /\ NewBytes(currentCommand'[m + 1].token)

Executes(command) == executed' = Append(executed, Executed(useUID, command))

Edits ==
  \/ executed' = executed /\ currentCommand' \in {currentCommand, <<>>}
  \/ executed' = executed /\ Extended
  \/ Executes(currentCommand) /\ currentCommand' = <<>>
  \/ Executes(currentCommand') /\ Extended /\ Authenticates(Tokens(currentCommand'))

(* A prefix has the bytes of the whole.                                    *)
LEMMA PrefixSlices ==
  ASSUME NEW s \in Seq(Bytes), NEW t, Len(t) \in 0 .. Len(s), Slice(s, 0, Len(t)) = t,
         NEW a \in 0 .. Len(t), NEW b \in a .. Len(t)
  PROVE  /\ Slice(t, a, b) = Slice(s, a, b) /\ Begins(Slice(t, a, b), s, a)
         /\ Slice(t, a, b) \in Seq(Bytes) /\ Len(Slice(t, a, b)) = b - a
<1> DEFINE n == Len(t)
           rest == Slice(s, n, Len(s))
<1>1. n \in 0 .. Len(s) /\ t = Slice(s, 0, n) /\ a \in 0 .. n /\ b \in a .. n
  OBVIOUS
<1> HIDE DEF n
<1>0. Len(s) \in n .. Len(s) /\ Len(s) \in Nat
  BY <1>1
<1>2. t \in Seq(Bytes) /\ Len(t) = n /\ rest \in Seq(Bytes) /\ Slice(s, 0, Len(s)) = t \o rest
  <2>1. 0 \in 0 .. Len(s) /\ n \in 0 .. Len(s)
    BY <1>1
  <2>2. Slice(s, 0, n) \in Seq(Bytes) /\ Len(Slice(s, 0, n)) = n - 0
    BY <2>1, SliceParts
  <2>3. t \in Seq(Bytes) /\ Len(t) = n
    BY <1>1, <2>2
  <2>4. rest \in Seq(Bytes) /\ Slice(s, 0, Len(s)) = Slice(s, 0, n) \o rest
    BY <1>0, <1>1, StreamParts
  <2> QED BY <1>1, <2>3, <2>4
<1>3. Slice(s, 0, Len(s)) = s
  BY WholeSlice
<1> HIDE DEF rest
<1>4. Position(t, a) /\ b \in a .. Len(t)
  BY <1>1, <1>2 DEF Position
<1>5. Slice(t \o rest, a, b) = Slice(t, a, b)
  BY <1>2, <1>4, SliceOfMore
<1>6. Slice(t, a, b) = Slice(s, a, b)
  BY <1>2, <1>3, <1>5
<1>7. a \in 0 .. Len(t) /\ b \in a .. Len(t)
  BY <1>1, <1>2
<1>8. Slice(t, a, b) \in Seq(Bytes) /\ Len(Slice(t, a, b)) = b - a
  BY <1>2, <1>7, SliceParts
<1>9. Begins(Slice(t, a, b), s, a)
  <2>1. a + (b - a) = b /\ b <= Len(s)
    BY <1>0, <1>1
  <2> QED BY <1>6, <1>8, <2>1 DEF Begins
<1> QED BY <1>6, <1>8, <1>9

(* Bytes that were read stand in the stream, behind those read before.     *)
LEMMA BytesRead ==
  ASSUME ReadInv, ~ignoring, NEW c \in scanCursor .. Len(receivedData), NEW d \in c .. Len(receivedData),
         NEW e \in d .. Len(receivedData), MovesTo(e)
  PROVE  NewBytes(Slice(receivedData, c, d))
<1> DEFINE p == Passed + (c - scanCursor)
           q == Passed + (d - scanCursor)
<1>1. /\ TypeOK /\ UnreadIsTail /\ stream \in Seq(Bytes) /\ arrived = Slice(stream, 0, Len(arrived))
      /\ Len(arrived) \in 0 .. Len(stream)
  BY CursorInBuffer DEF ReadInv, Types, ReadTypeOK, TypeOK
<1>2. /\ p \in Passed .. Len(arrived) /\ q \in p .. Len(arrived)
      /\ Slice(receivedData, c, d) = Slice(arrived, p, q)
  BY <1>1, FromArrived
<1>3. Passed \in 0 .. Len(arrived) /\ Len(arrived) \in Nat /\ scanCursor \in Nat /\ Len(receivedData) \in Nat
  BY <1>1, PassedForm
<1>4. e \in scanCursor .. Len(receivedData) /\ c \in Int /\ d \in Int /\ e \in Int
  BY <1>3
<1>5. Passed' = Passed + (e - scanCursor)
  BY <1>1, <1>4, CursorMoves
<1>6. q <= Passed'
  BY <1>3, <1>4, <1>5
<1> HIDE DEF p, q
<1>7. p \in 0 .. Len(arrived) /\ p \in Nat /\ q \in Int /\ Passed <= p
  BY <1>2, <1>3
<1>8. Begins(Slice(arrived, p, q), stream, p) /\ Len(Slice(arrived, p, q)) = q - p
  <2>1. q \in p .. Len(arrived)
    BY <1>2
  <2>2. Slice(stream, 0, Len(arrived)) = arrived /\ stream \in Seq(Bytes) /\ Len(arrived) \in 0 .. Len(stream)
    BY <1>1
  <2>3. p \in 0 .. Len(arrived) /\ q \in p .. Len(arrived)
    BY <1>7, <2>1
  <2>4. Begins(Slice(arrived, p, q), stream, p)
    BY <2>2, <2>3, PrefixSlices
  <2>5. Len(Slice(arrived, p, q)) = q - p
    BY <2>2, <2>3, PrefixSlices
  <2> QED BY <2>4, <2>5
<1>9. p + (q - p) = q
  BY <1>7
<1> QED BY <1>2, <1>6, <1>7, <1>8, <1>9 DEF NewBytes

(* What is known of tokens is known of them with one token more, or with   *)
(* one in the place of the last.                                           *)
LEMMA SentExtended ==
  ASSUME NEW tokens, NEW more, NEW m \in 0 .. Len(tokens), DOMAIN tokens = 1 .. Len(tokens),
         Len(tokens) \in Nat, DOMAIN more = 1 .. m + 1, \A i \in 1 .. m : more[i] = tokens[i],
         NEW at, NEW end \in Int, Sent(tokens, at, end), \A i \in DOMAIN tokens : Len(tokens[i]) \in Nat,
         NEW c \in Nat, end <= c, Begins(more[m + 1], stream, c), Len(more[m + 1]) \in Nat,
         NEW later \in Int, c + Len(more[m + 1]) <= later
  PROVE  \E places :
           /\ Sent(more, places, later)
           /\ \A e, before, placesBefore :
                e <= end /\ e \in Int /\ Behind(tokens, at, e, before, placesBefore)
                  => Behind(more, places, e, before, placesBefore)
<1>1. m \in Nat /\ \A i \in 1 .. m + 1 : i \in 1 .. m \/ i = m + 1
  OBVIOUS
<1>2. PICK places : places = [i \in 1 .. m + 1 |-> IF i = m + 1 THEN c ELSE at[i]]
  OBVIOUS
<1>3. \A i \in 1 .. m : i \in DOMAIN tokens /\ i \in 1 .. m + 1 /\ i # m + 1
  BY <1>1
<1>4. m + 1 \in 1 .. m + 1
  BY <1>1
<1>5. places[m + 1] = c /\ \A i \in 1 .. m : places[i] = at[i] /\ at[i] \in Nat
  BY <1>2, <1>3, <1>4 DEF Sent
<1>6. places \in [1 .. m + 1 -> Nat]
  <2>1. \A i \in 1 .. m + 1 : (IF i = m + 1 THEN c ELSE at[i]) \in Nat
    BY <1>1, <1>5
  <2> QED BY <1>2, <2>1
<1>7. end <= later
  OBVIOUS
<1>8. \A i \in 1 .. m : /\ Begins(more[i], stream, places[i])
                        /\ Len(more[i]) \in Nat /\ places[i] + Len(more[i]) <= end
  BY <1>3, <1>5 DEF Sent
<1>9. Sent(more, places, later)
  <2>1. ASSUME NEW i \in 1 .. m + 1
        PROVE  Begins(more[i], stream, places[i]) /\ places[i] + Len(more[i]) <= later
    <3>1. CASE i \in 1 .. m
      <4>1. places[i] \in Nat /\ Len(more[i]) \in Nat /\ places[i] + Len(more[i]) <= end
        BY <1>5, <1>8, <3>1
      <4>2. places[i] + Len(more[i]) <= later
        BY <1>7, <4>1
      <4> QED BY <1>8, <3>1, <4>2
    <3>2. CASE i = m + 1
      BY <1>5, <3>2
    <3> QED BY <1>1, <3>1, <3>2
  <2>2. ASSUME NEW i \in 1 .. m + 1, NEW j \in 1 .. m + 1, i < j
        PROVE  places[i] + Len(more[i]) <= places[j]
    <3>1. i \in 1 .. m
      BY <1>1, <2>2
    <3>2. CASE j \in 1 .. m
      <4>1. at[i] + Len(tokens[i]) <= at[j]
        BY <1>3, <2>2, <3>1, <3>2 DEF Sent
      <4> QED BY <1>5, <3>1, <3>2, <4>1
    <3>3. CASE j = m + 1
      <4>1. places[i] \in Nat /\ Len(more[i]) \in Nat /\ places[i] + Len(more[i]) <= end
        BY <1>5, <1>8, <3>1
      <4>2. places[j] = c
        BY <1>5, <3>3
      <4> QED BY <4>1, <4>2
    <3> QED BY <1>1, <3>2, <3>3
  <2> QED BY <1>6, <2>1, <2>2 DEF Sent
<1>10. ASSUME NEW e \in Int, NEW before, NEW placesBefore, e <= end,
              Behind(tokens, at, e, before, placesBefore)
       PROVE  Behind(more, places, e, before, placesBefore)
  <2>1. e <= c
    BY <1>10
  <2> QED BY <1>1, <1>3, <1>5, <1>10, <2>1 DEF Behind
<1> QED BY <1>9, <1>10

(* A command without lexemes.                                              *)
LEMMA SentNothing ==
  ASSUME NEW end
  PROVE  /\ Sent(Tokens(<<>>), <<>>, end)
         /\ \A e, before, placesBefore : Behind(Tokens(<<>>), <<>>, e, before, placesBefore)
<1>1. DOMAIN Tokens(<<>>) = {} /\ <<>> \in [{} -> Nat]
  BY DEF Tokens
<1> QED BY <1>1 DEF Sent, Behind

(* The commands executed are the same.                                     *)
LEMMA NothingExecuted ==
  ASSUME NEW places, NEW ends, NEW at, SentSoFar(places, ends, at), executed \in Seq(Executions),
         UNCHANGED <<stream, executed>>, Passed \in Int, Passed' \in Int, Passed' >= Passed,
         NEW next, Sent(Tokens(currentCommand'), next, Passed'),
         \A k \in DOMAIN executed :
           Behind(Tokens(currentCommand'), next, ends[k], executed[k].tokens, places[k])
  PROVE  SentInv'
<1>1. SentInTurn(places, ends)'
  BY DEF SentSoFar, SentInTurn, Sent, LineEnds, Begins
<1>2. \A k \in DOMAIN executed : ends[k] \in Int /\ ends[k] <= Passed'
  BY DEF SentSoFar
<1>3. Sent(Tokens(currentCommand), next, Passed)'
  BY DEF Sent, Begins
<1>4. SentSoFar(places, ends, next)'
  BY <1>1, <1>2, <1>3 DEF SentSoFar
<1> QED BY <1>4 DEF SentInv

(* One command more is executed.                                           *)
LEMMA OneExecuted ==
  ASSUME NEW places, NEW ends, NEW at, SentSoFar(places, ends, at), executed \in Seq(Executions),
         UNCHANGED stream, Passed \in Int, Passed' \in Int, Passed' > Passed,
         NEW command \in Executions, executed' = Append(executed, command),
         NEW its, Sent(command.tokens, its, Passed'), LineEnds(Passed'),
         \A k \in DOMAIN executed : Behind(command.tokens, its, ends[k], executed[k].tokens, places[k]),
         NEW next, Sent(Tokens(currentCommand'), next, Passed'),
         \A k \in DOMAIN executed :
           Behind(Tokens(currentCommand'), next, ends[k], executed[k].tokens, places[k]),
         Behind(Tokens(currentCommand'), next, Passed', command.tokens, its)
  PROVE  SentInv'
<1>1. PICK n \in Nat : n = Len(executed)
  OBVIOUS
<1>2. /\ executed' \in Seq(Executions) /\ DOMAIN executed = 1 .. n /\ DOMAIN executed' = 1 .. n + 1
      /\ \A k \in 1 .. n : executed'[k] = executed[k]
      /\ executed'[n + 1] = command
  BY <1>1, AppendProperties
<1>3. PICK p : p = [k \in 1 .. n + 1 |-> IF k = n + 1 THEN its ELSE places[k]]
  OBVIOUS
<1>4. PICK e : e = [k \in 1 .. n + 1 |-> IF k = n + 1 THEN Passed' ELSE ends[k]]
  OBVIOUS
<1>5. /\ \A k \in 1 .. n + 1 : k \in 1 .. n \/ k = n + 1
      /\ \A k \in 1 .. n : k \in 1 .. n + 1 /\ k # n + 1
      /\ n + 1 \in 1 .. n + 1
  OBVIOUS
<1>6. /\ \A k \in 1 .. n : p[k] = places[k] /\ e[k] = ends[k]
      /\ p[n + 1] = its /\ e[n + 1] = Passed'
  BY <1>3, <1>4, <1>5
<1>7. ASSUME NEW k \in 1 .. n + 1
      PROVE  Sent(executed'[k].tokens, p[k], e[k]) /\ LineEnds(e[k]) /\ e[k] \in Int /\ e[k] <= Passed'
  <2>1. CASE k \in 1 .. n
    BY <1>2, <1>6, <2>1 DEF SentSoFar, SentInTurn
  <2>2. CASE k = n + 1
    BY <1>2, <1>6, <2>2
  <2> QED BY <1>5, <2>1, <2>2
<1>8. ASSUME NEW j \in 1 .. n + 1, NEW k \in 1 .. n + 1, j < k
      PROVE  e[j] < e[k] /\ Behind(executed'[k].tokens, p[k], e[j], executed'[j].tokens, p[j])
  <2>1. j \in 1 .. n
    BY <1>5, <1>8
  <2>2. CASE k \in 1 .. n
    BY <1>2, <1>6, <1>8, <2>1, <2>2 DEF SentSoFar, SentInTurn
  <2>3. CASE k = n + 1
    <3>1. ends[j] < Passed'
      BY <1>2, <2>1 DEF SentSoFar
    <3> QED BY <1>2, <1>6, <2>1, <2>3, <3>1
  <2> QED BY <1>5, <2>2, <2>3
<1>9. ASSUME NEW k \in 1 .. n + 1
      PROVE  Behind(Tokens(currentCommand'), next, e[k], executed'[k].tokens, p[k])
  BY <1>2, <1>5, <1>6
<1>10. SentInTurn(p, e)'
  BY <1>2, <1>7, <1>8 DEF SentInTurn, Sent, LineEnds, Begins
<1>11. Sent(Tokens(currentCommand), next, Passed)'
  BY DEF Sent, Begins
<1>12. SentSoFar(p, e, next)'
  BY <1>2, <1>7, <1>9, <1>10, <1>11 DEF SentSoFar
<1> QED BY <1>2, <1>12 DEF SentInv

(* The lexeme that was read ends the command.                              *)
LEMMA LexemeExtends ==
  ASSUME currentCommand \in Seq(Lexemes), NEW lexeme, NEW token \in Seq(Bytes), lexeme \in Lexemes,
         lexeme.token = token, NewBytes(token),
         \/ currentCommand' = Append(currentCommand, lexeme)
         \/ Len(currentCommand) > 2 /\ currentCommand' = Append(Front(currentCommand), lexeme)
  PROVE  Extended
<1> DEFINE n == Len(currentCommand)
<1>1. n \in Nat
  OBVIOUS
<1>2. CASE currentCommand' = Append(currentCommand, lexeme)
  <2>1. /\ Len(currentCommand') = n + 1 /\ \A i \in 1 .. n : currentCommand'[i] = currentCommand[i]
        /\ currentCommand'[n + 1] = lexeme
    BY <1>2, LexemeAppended
  <2>2. n \in 0 .. n
    BY <1>1
  <2> QED BY <2>1, <2>2 DEF Extended
<1>3. CASE n > 2 /\ currentCommand' = Append(Front(currentCommand), lexeme)
  <2>1. /\ Len(currentCommand') = n /\ \A i \in 1 .. n - 1 : currentCommand'[i] = currentCommand[i]
        /\ currentCommand'[n] = lexeme
    BY <1>3, LexemeReplaced
  <2>2. n - 1 \in 0 .. n /\ n - 1 + 1 = n
    BY <1>1, <1>3
  <2> QED BY <2>1, <2>2 DEF Extended
<1> QED BY <1>2, <1>3

(* The tag.                                                                *)
LEMMA TakeTagEdits ==
  ASSUME ReadInv, TakeTag
  PROVE  Edits
<1> DEFINE tag == Reading("tag", receivedData, scanCursor)
           space == Reading("space", receivedData, tag.cursor)
<1>1. readTag(receivedData, scanCursor) = tag /\ readSpace(receivedData, tag.cursor) = space
  BY DEF Reading
<1>2. /\ pc = "start" /\ lineReady /\ currentCommand = <<>> /\ UNCHANGED <<arrived, executed>>
      /\ \/ UNCHANGED currentCommand
         \/ tag.outcome = "token" /\ Advance(space) /\ currentCommand' = <<tag.lexeme>>
  BY <1>1 DEF TakeTag, Fail
<1>3. ~ignoring /\ Position(receivedData, scanCursor) /\ "tag" \in Readers
      /\ scanCursor \in scanCursor .. Len(receivedData)
  BY <1>2, Reads, CursorInBuffer DEF Readers
<1>4. /\ tag.cursor \in scanCursor .. Len(receivedData)
      /\ tag.outcome = "token" => tag.lexeme \in Lexemes
      /\ space.cursor \in tag.cursor .. Len(receivedData)
  BY <1>3, NameRead
<1>5. tag.outcome = "token" => tag.lexeme.token = Slice(receivedData, scanCursor, tag.cursor)
  BY <1>3, ReadingSound DEF Sound, Behaves
<1> HIDE DEF tag, space
<1>6. CASE tag.outcome = "token" /\ Advance(space) /\ currentCommand' = <<tag.lexeme>>
  <2>1. MovesTo(space.cursor)
    BY <1>2, <1>6, AdvanceMoves
  <2>2. NewBytes(tag.lexeme.token)
    BY <1>3, <1>4, <1>5, <1>6, <2>1, BytesRead
  <2>3. currentCommand' = Append(currentCommand, tag.lexeme) /\ currentCommand \in Seq(Lexemes)
    BY <1>2, <1>6
  <2>4. tag.lexeme.token \in Seq(Bytes)
    BY <1>4, <1>6 DEF Lexemes
  <2>5. Extended
    BY <1>4, <1>6, <2>2, <2>3, <2>4, LexemeExtends
  <2> QED BY <1>2, <2>5 DEF Edits
<1> QED BY <1>2, <1>6 DEF Edits

(* The name of the command, behind UID or not.                             *)
LEMMA TakeCommandEdits ==
  ASSUME ReadInv, TakeCommand
  PROVE  Edits
<1> DEFINE name == Reading("command", receivedData, scanCursor)
           isUID == name.outcome = "token" /\ toUpperCase(name.lexeme.token) = <<"UID">>
           space == Reading("space", receivedData, name.cursor)
           second == Reading("command", receivedData, space.cursor)
           out == IF ~isUID THEN name ELSE IF space.outcome = "error" THEN space ELSE second
<1>1. /\ readCommand(receivedData, scanCursor) = name /\ readSpace(receivedData, name.cursor) = space
      /\ readCommand(receivedData, space.cursor) = second
  BY DEF Reading
<1>2. /\ pc = "command" \/ (pc = "start" /\ lineReady)
      /\ \/ UNCHANGED currentCommand
         \/ /\ out.outcome = "token" /\ Advance(out)
            /\ currentCommand' = Append(currentCommand, out.lexeme)
      /\ UNCHANGED <<arrived, executed>>
  BY <1>1 DEF TakeCommand, Fail
<1>3. ~ignoring /\ Position(receivedData, scanCursor) /\ "command" \in Readers
      /\ scanCursor \in scanCursor .. Len(receivedData) /\ currentCommand \in Seq(Lexemes)
  BY <1>2, Reads, CursorInBuffer DEF Readers
<1>4. /\ name.cursor \in scanCursor .. Len(receivedData)
      /\ name.outcome = "token" => name.lexeme \in Lexemes
      /\ space.cursor \in scanCursor .. Len(receivedData)
  BY <1>3, NameRead
<1>5. /\ second.cursor \in space.cursor .. Len(receivedData)
      /\ second.outcome = "token" => second.lexeme \in Lexemes
      /\ Position(receivedData, space.cursor)
  BY <1>3, <1>4, NameRead DEF Position
<1>6. /\ name.outcome = "token" => name.lexeme.token = Slice(receivedData, scanCursor, name.cursor)
      /\ second.outcome = "token" => second.lexeme.token = Slice(receivedData, space.cursor, second.cursor)
  BY <1>3, <1>5, ReadingSound DEF Sound, Behaves
<1>7. space.outcome = "error" => space.outcome # "token"
  OBVIOUS
<1> HIDE DEF name, space, second, isUID
<1>8. out.outcome = "token" =>
        /\ out.lexeme \in Lexemes
        /\ \E c \in scanCursor .. Len(receivedData) :
             out.cursor \in c .. Len(receivedData) /\ out.lexeme.token = Slice(receivedData, c, out.cursor)
  BY <1>3, <1>4, <1>5, <1>6, <1>7
<1> HIDE DEF out
<1>9. CASE out.outcome = "token" /\ Advance(out) /\ currentCommand' = Append(currentCommand, out.lexeme)
  <2>1. MovesTo(out.cursor)
    BY <1>2, <1>9, AdvanceMoves
  <2>2. PICK c \in scanCursor .. Len(receivedData) :
          out.cursor \in c .. Len(receivedData) /\ out.lexeme.token = Slice(receivedData, c, out.cursor)
    BY <1>8, <1>9
  <2>3. out.cursor \in out.cursor .. Len(receivedData)
    BY <1>3, <2>2 DEF Position
  <2>4. NewBytes(out.lexeme.token)
    BY <1>3, <2>1, <2>2, <2>3, BytesRead
  <2>5. out.lexeme.token \in Seq(Bytes)
    BY <1>8, <1>9 DEF Lexemes
  <2>6. Extended
    BY <1>3, <1>8, <1>9, <2>4, <2>5, LexemeExtends
  <2> QED BY <1>2, <2>6 DEF Edits
<1> QED BY <1>2, <1>9 DEF Edits

(* The literal in the place of its length.                                 *)
LEMMA TakeLiteralEdits ==
  ASSUME ReadInv, TakeLiteral
  PROVE  Edits
<1> DEFINE n == Len(currentCommand)
           length == Last(currentCommand).token
           out == readLiteral(toLiteralLength(length), receivedData, scanCursor)
<1>1. /\ ~ignoring /\ LastType(currentCommand) = "LITERAL_LENGTH" /\ currentCommand \in Seq(Lexemes)
      /\ n \in Nat /\ n >= 2 /\ UNCHANGED <<arrived, executed>>
  BY EnteringForm, CursorInBuffer DEF TakeLiteral, client
<1>2. n \in DOMAIN currentCommand /\ currentCommand[n] \in Lexemes
  BY <1>1
<1>3. n > 2 /\ IsLength(length)
  BY <1>1, <1>2 DEF ReadInv, Places, LengthOK, LastType, Last
<1>4. length \in Seq(Bytes)
  BY <1>2 DEF Last, Lexemes
<1>5. Position(receivedData, scanCursor) /\ scanCursor \in scanCursor .. Len(receivedData)
  BY CursorInBuffer
<1>6. toLiteralLength(length) \in Nat
  BY <1>3, <1>4, LengthIsNatural
<1>7. Sound(out, receivedData, scanCursor)
  BY <1>5, <1>6, LiteralSound
<1>8. /\ out.cursor \in scanCursor .. Len(receivedData)
      /\ out.outcome = "token" => out.lexeme = Lexeme("STRING_LITERAL", out.lexeme.token)
      /\ out.outcome = "token" => out.lexeme.token = Slice(receivedData, scanCursor, out.cursor)
  BY <1>7 DEF Sound, Behaves, readLiteral, Null, Token, Lexeme
<1>9. \/ UNCHANGED currentCommand
      \/ /\ Advance(out) /\ out.outcome = "token"
         /\ currentCommand' = Append(Front(currentCommand), out.lexeme)
  BY DEF TakeLiteral, Fail
<1> HIDE DEF out, length
<1>10. CASE Advance(out) /\ out.outcome = "token" /\ currentCommand' = Append(Front(currentCommand), out.lexeme)
  <2>1. MovesTo(out.cursor)
    BY <1>1, <1>10, AdvanceMoves
  <2>2. out.cursor \in out.cursor .. Len(receivedData)
    BY <1>5, <1>8 DEF Position
  <2>3. NewBytes(out.lexeme.token)
    BY <1>1, <1>5, <1>8, <1>10, <2>1, <2>2, BytesRead
  <2>4. out.lexeme.token \in Seq(Bytes)
    BY <1>5, <1>8, <1>10, SliceParts DEF Position
  <2>5. out.lexeme \in Lexemes
    BY <1>8, <1>10, <2>4 DEF Lexemes, LexemeTypes, Lexeme
  <2>6. Extended
    BY <1>1, <1>3, <1>10, <2>3, <2>4, <2>5, LexemeExtends
  <2> QED BY <1>1, <2>6 DEF Edits
<1> QED BY <1>1, <1>9, <1>10 DEF Edits

(* An argument, or the end of a command, which is executed.                *)
LEMMA TakeArgumentEdits ==
  ASSUME ReadInv, TakeArgument
  PROVE  Edits
<1> DEFINE out == Lexed(ArgumentLexer)
           next == NextPlace(ArgumentName, out.lexeme)
<1>1. /\ ArgumentPlace /\ UNCHANGED arrived
      /\ \/ UNCHANGED <<currentCommand, executed>>
         \/ currentCommand' = <<>> /\ UNCHANGED executed
         \/ /\ out.outcome = "token" /\ Advance(out) /\ respondToLexeme(out.lexeme, next)
  BY DEF TakeArgument, BadArguments, ArgumentName, ArgumentLexer, ArgumentPlace, Name
<1>2. CASE out.outcome = "token" /\ Advance(out) /\ respondToLexeme(out.lexeme, next)
  <2>1. /\ ~ignoring /\ out.cursor \in scanCursor .. Len(receivedData)
        /\ TokenRead(out, Readers)
        /\ out.lexeme.type = "NEWLINE" => Name = "AUTHENTICATE" /\ Len(currentCommand) >= 2
    BY <1>1, <1>2, ArgumentRead
  <2> HIDE DEF out, next
  <2>2. MovesTo(out.cursor)
    BY <1>1, <1>2, AdvanceMoves
  <2>3. PICK c \in scanCursor .. out.cursor : out.lexeme.token = Slice(receivedData, c, out.cursor)
    BY <2>1 DEF TokenRead
  <2>4. Position(receivedData, scanCursor) /\ currentCommand \in Seq(Lexemes) /\ out.lexeme \in Lexemes
    BY <2>1, CursorInBuffer DEF TokenRead
  <2>5. c \in scanCursor .. Len(receivedData) /\ out.cursor \in c .. Len(receivedData)
        /\ out.cursor \in out.cursor .. Len(receivedData)
    BY <2>1, <2>4 DEF Position
  <2>6. NewBytes(out.lexeme.token)
    BY <2>1, <2>2, <2>3, <2>5, BytesRead
  <2>7. out.lexeme.token \in Seq(Bytes)
    BY <2>4 DEF Lexemes
  <2>8. currentCommand' = Append(currentCommand, out.lexeme) => Extended
    BY <2>4, <2>6, <2>7, LexemeExtends
  <2>9. CASE out.lexeme.type = "END_OF_COMMAND" /\ Execute(currentCommand) /\ currentCommand' = <<>>
    BY <2>9 DEF Execute, Edits, Executes
  <2>10. CASE /\ out.lexeme.type = "NEWLINE" /\ currentCommand' = Append(currentCommand, out.lexeme)
              /\ Execute(currentCommand')
    <3>1. Len(currentCommand') >= 2 /\ currentCommand'[2] = currentCommand[2]
          /\ DOMAIN currentCommand' = 1 .. Len(currentCommand')
      BY <2>1, <2>4, <2>10, LexemeAppended
    <3>2. Authenticates(Tokens(currentCommand'))
      <4>1. Len(currentCommand[2].token) = 1 /\ toUpperCase(currentCommand[2].token)[1] = "AUTHENTICATE"
        BY <2>1, <2>10 DEF Name, CommandName
      <4>2. Tokens(currentCommand')[2] = currentCommand[2].token /\ Len(Tokens(currentCommand')) >= 2
        BY <3>1, <2>4, <2>10, LexemeAppended DEF Tokens
      <4> QED BY <4>1, <4>2 DEF Authenticates
    <3> QED BY <2>8, <2>10, <3>1, <3>2 DEF Execute, Edits, Executes
  <2>11. CASE executed' = executed /\ currentCommand' = Append(currentCommand, out.lexeme)
    BY <2>8, <2>11 DEF Edits
  <2> QED BY <1>2, <2>9, <2>10, <2>11 DEF respondToLexeme
<1> QED BY <1>1, <1>2 DEF Edits

(* So does each step.                                                      *)
LEMMA StepEdits ==
  ASSUME ReadInv, ReadNext
  PROVE  Edits /\ UNCHANGED stream
<1>1. CASE ReceiveData \/ SkipOverlong \/ AwaitLine
  BY <1>1 DEF ReceiveData, SkipOverlong, AwaitLine, client, Edits
<1>2. CASE CallbackEnds
  BY <1>2 DEF CallbackEnds, client, Edits
<1>3. CASE SkipUnknown
  BY <1>3 DEF SkipUnknown, Execute, client, Edits, Executes
<1>4. CASE TakeTag \/ TakeCommand \/ TakeLiteral \/ TakeArgument
  <2>1. UNCHANGED stream
    BY <1>4 DEF TakeTag, TakeCommand, TakeLiteral, TakeArgument, client
  <2> QED BY <1>4, <2>1, TakeTagEdits, TakeCommandEdits, TakeLiteralEdits, TakeArgumentEdits
<1> QED BY <1>1, <1>2, <1>3, <1>4 DEF ReadNext, Read

(* The command being read, with a token more.                              *)
LEMMA ReadOn ==
  ASSUME ReadInv, ReadInv', UNCHANGED stream, Extended, Passed' \in Int,
         NEW at, Sent(Tokens(currentCommand), at, Passed)
  PROVE  \E next :
           /\ Sent(Tokens(currentCommand'), next, Passed')
           /\ \A e, before, placesBefore :
                e <= Passed /\ e \in Int /\ Behind(Tokens(currentCommand), at, e, before, placesBefore)
                  => Behind(Tokens(currentCommand'), next, e, before, placesBefore)
<1> DEFINE tokens == Tokens(currentCommand)
           more == Tokens(currentCommand')
<1>1. currentCommand \in Seq(Lexemes) /\ currentCommand' \in Seq(Lexemes) /\ Passed \in Int
  BY CursorInBuffer DEF ReadInv, Types
<1>2. PICK m \in 0 .. Len(currentCommand) :
        /\ Len(currentCommand') = m + 1
        /\ \A i \in 1 .. m : currentCommand'[i] = currentCommand[i]
        /\ NewBytes(currentCommand'[m + 1].token)
  BY DEF Extended
<1>3. PICK c \in Nat :
        /\ Passed <= c /\ Begins(currentCommand'[m + 1].token, stream, c)
        /\ c + Len(currentCommand'[m + 1].token) <= Passed'
  BY <1>2 DEF NewBytes
<1>4. \A lexeme \in Lexemes : lexeme.token \in Seq(Bytes) /\ Len(lexeme.token) \in Nat
  BY DEF Lexemes
<1>5. /\ Len(tokens) = Len(currentCommand) /\ Len(tokens) \in Nat /\ DOMAIN tokens = 1 .. Len(tokens)
      /\ \A i \in DOMAIN tokens : tokens[i] = currentCommand[i].token /\ Len(tokens[i]) \in Nat
  BY <1>1, <1>4 DEF Tokens
<1>6. /\ DOMAIN more = 1 .. m + 1
      /\ \A i \in 1 .. m + 1 : more[i] = currentCommand'[i].token /\ Len(more[i]) \in Nat
  BY <1>1, <1>2, <1>4 DEF Tokens
<1>7. m \in 0 .. Len(tokens) /\ m + 1 \in 1 .. m + 1 /\ \A i \in 1 .. m : i \in 1 .. m + 1 /\ i \in DOMAIN tokens
  BY <1>5
<1>8. \A i \in 1 .. m : more[i] = tokens[i]
  BY <1>2, <1>5, <1>6, <1>7
<1>9. Begins(more[m + 1], stream, c) /\ Len(more[m + 1]) \in Nat /\ c + Len(more[m + 1]) <= Passed'
  BY <1>3, <1>6, <1>7
<1>10. Sent(tokens, at, Passed)
  OBVIOUS
<1> HIDE DEF tokens, more
<1>11. /\ m \in 0 .. Len(tokens) /\ DOMAIN tokens = 1 .. Len(tokens) /\ Len(tokens) \in Nat
       /\ DOMAIN more = 1 .. m + 1 /\ (\A i \in 1 .. m : more[i] = tokens[i])
       /\ Passed \in Int /\ Sent(tokens, at, Passed) /\ (\A i \in DOMAIN tokens : Len(tokens[i]) \in Nat)
       /\ c \in Nat /\ Passed <= c /\ Begins(more[m + 1], stream, c) /\ Len(more[m + 1]) \in Nat
       /\ Passed' \in Int /\ c + Len(more[m + 1]) <= Passed'
  BY <1>1, <1>3, <1>5, <1>6, <1>7, <1>8, <1>9, <1>10
<1>12. \E next :
         /\ Sent(more, next, Passed')
         /\ \A e, before, placesBefore :
              e <= Passed /\ e \in Int /\ Behind(tokens, at, e, before, placesBefore)
                => Behind(more, next, e, before, placesBefore)
  BY <1>11, SentExtended
<1> QED BY <1>12 DEF tokens, more

(* At the start of a line, the line before it has ended.                   *)
LEMMA LineHasEnded ==
  ASSUME ReadInv', ~ignoring', AtLineStart', UNCHANGED stream
  PROVE  LineEnds(Passed') /\ Passed' \in Int
<1>1. /\ stream \in Seq(Bytes) /\ Slice(stream, 0, Len(arrived')) = arrived'
      /\ Len(arrived') \in 0 .. Len(stream) /\ arrived' \in Seq(Bytes) /\ Unread' \in Seq(Bytes)
      /\ Len(Unread') <= Len(arrived')
  <2>1. /\ stream' \in Seq(Bytes) /\ arrived' = Slice(stream', 0, Len(arrived'))
        /\ Len(arrived') <= Len(stream') /\ TypeOK' /\ UnreadIsTail'
    BY DEF ReadInv, Types, ReadTypeOK, Lines
  <2>2. arrived' \in Seq(Bytes) /\ Len(Unread') <= Len(arrived')
    BY <2>1 DEF TypeOK, UnreadIsTail
  <2>3. Unread' \in Seq(Bytes)
    BY <2>1, TailOfSlice DEF TypeOK, Unread
  <2> QED BY <2>1, <2>2, <2>3
<1>2. PICK p : p = Passed'
  OBVIOUS
<1>3. p \in 0 .. Len(arrived') /\ p >= 2 /\ Slice(arrived', p - 2, p) = CRLF
  <2>1. Passed' = Len(arrived') - Len(Unread') /\ Len(arrived') \in Nat /\ Len(Unread') \in Nat
    BY <1>1 DEF Passed
  <2>2. p \in 0 .. Len(arrived')
    BY <1>1, <1>2, <2>1
  <2> QED BY <1>2, <2>2, LineTerminator DEF AtLineStart
<1>4. p - 2 \in 0 .. Len(arrived') /\ p \in p - 2 .. Len(arrived') /\ p \in Int
  BY <1>3
<1>5. Begins(Slice(arrived', p - 2, p), stream, p - 2)
  BY <1>1, <1>4, PrefixSlices
<1> QED BY <1>2, <1>3, <1>4, <1>5, LineTerminator DEF LineEnds

(* Each step keeps what is known of the commands executed.                 *)
LEMMA SentStep ==
  ASSUME ReadInv, SentInv, ReadNext
  PROVE  SentInv'
<1>1. /\ ReadInv' /\ Passed' >= Passed
      /\ executed' # executed => ~ignoring' /\ AtLineStart' /\ Passed' >= Passed + 2
  BY ReadStepKeeps DEF Kept, Resumes
<1>2. Edits /\ stream' = stream
  BY StepEdits
<1>3. Passed \in Int /\ currentCommand \in Seq(Lexemes) /\ useUID \in BOOLEAN
  BY CursorInBuffer DEF ReadInv, Types, ReadTypeOK
<1>4. Passed' \in Int /\ currentCommand' \in Seq(Lexemes)
  <2>1. TypeOK' /\ currentCommand' \in Seq(Lexemes)
    BY <1>1 DEF ReadInv, Types, ReadTypeOK
  <2>2. arrived' \in Seq(Bytes) /\ Unread' \in Seq(Bytes)
    BY <2>1, TailOfSlice DEF TypeOK, Unread
  <2> QED BY <2>1, <2>2 DEF Passed
<1>5. PICK places, ends, at : executed \in Seq(Executions) /\ SentSoFar(places, ends, at)
  BY DEF SentInv
<1>6. /\ Sent(Tokens(currentCommand), at, Passed)
      /\ \A k \in DOMAIN executed : /\ ends[k] \in Int /\ ends[k] <= Passed
                                    /\ Behind(Tokens(currentCommand), at, ends[k], executed[k].tokens, places[k])
  BY <1>5 DEF SentSoFar
<1>7. Sent(Tokens(currentCommand), at, Passed')
  <2>1. ASSUME NEW i \in DOMAIN currentCommand PROVE at[i] + Len(currentCommand[i].token) <= Passed'
    <3>1. currentCommand[i].token \in Seq(Bytes)
      <4>1. currentCommand[i] \in Lexemes
        BY <1>3
      <4> QED BY <4>1 DEF Lexemes
    <3>2. Tokens(currentCommand)[i] = currentCommand[i].token /\ i \in DOMAIN Tokens(currentCommand)
      BY DEF Tokens
    <3>3. at[i] \in Nat /\ at[i] + Len(currentCommand[i].token) <= Passed
      BY <1>6, <3>2 DEF Sent
    <3> QED BY <1>1, <1>3, <1>4, <3>1, <3>3
  <2>2. \A i \in DOMAIN Tokens(currentCommand) :
          i \in DOMAIN currentCommand /\ Tokens(currentCommand)[i] = currentCommand[i].token
    BY DEF Tokens
  <2> QED BY <1>6, <2>1, <2>2 DEF Sent
<1>8. ASSUME Extended
      PROVE  \E next :
               /\ Sent(Tokens(currentCommand'), next, Passed')
               /\ \A k \in DOMAIN executed :
                    Behind(Tokens(currentCommand'), next, ends[k], executed[k].tokens, places[k])
  BY <1>1, <1>2, <1>4, <1>6, <1>8, ReadOn
<1>9. \A command \in Seq(Lexemes) :
        Executed(useUID, command) \in Executions /\ Executed(useUID, command).tokens = Tokens(command)
  <2>1. \A lexeme \in Lexemes : lexeme.token \in Seq(Bytes)
    BY DEF Lexemes
  <2>2. \A command \in Seq(Lexemes) : Tokens(command) \in Seq(Seq(Bytes))
    BY <2>1 DEF Tokens
  <2> QED BY <1>3, <2>2 DEF Executed, Executions, Tokens
<1>10. ASSUME NEW command, Executes(command) PROVE executed' # executed
  <2>1. Len(executed') = Len(executed) + 1 /\ Len(executed) \in Nat
    BY <1>5, <1>10 DEF Executes
  <2> QED BY <2>1
<1>11. CASE executed' = executed /\ currentCommand' \in {currentCommand, <<>>}
  <2>1. CASE currentCommand' = currentCommand
    BY <1>1, <1>2, <1>3, <1>4, <1>5, <1>6, <1>7, <1>11, <2>1, NothingExecuted
  <2>2. CASE currentCommand' = <<>>
    <3>1. /\ Sent(Tokens(currentCommand'), <<>>, Passed')
          /\ \A e, before, placesBefore : Behind(Tokens(currentCommand'), <<>>, e, before, placesBefore)
      BY <2>2, SentNothing
    <3> QED BY <1>1, <1>2, <1>3, <1>4, <1>5, <1>11, <3>1, NothingExecuted
  <2> QED BY <1>11, <2>1, <2>2
<1>12. CASE executed' = executed /\ Extended
  BY <1>1, <1>2, <1>3, <1>4, <1>5, <1>8, <1>12, NothingExecuted
<1>13. CASE Executes(currentCommand) /\ currentCommand' = <<>>
  <2>1. Passed' > Passed /\ LineEnds(Passed')
    <3>1. ~ignoring' /\ AtLineStart' /\ Passed' >= Passed + 2
      BY <1>1, <1>10, <1>13
    <3> QED BY <1>1, <1>2, <1>3, <1>4, <3>1, LineHasEnded
  <2>2. PICK command \in Executions :
          command.tokens = Tokens(currentCommand) /\ executed' = Append(executed, command)
    BY <1>3, <1>9, <1>13 DEF Executes
  <2>3. /\ Sent(Tokens(currentCommand'), <<>>, Passed')
        /\ \A e, before, placesBefore : Behind(Tokens(currentCommand'), <<>>, e, before, placesBefore)
    BY <1>13, SentNothing
  <2>4. /\ Sent(command.tokens, at, Passed')
        /\ \A k \in DOMAIN executed : Behind(command.tokens, at, ends[k], executed[k].tokens, places[k])
    BY <1>6, <1>7, <2>2
  <2> QED BY <1>2, <1>3, <1>4, <1>5, <2>1, <2>2, <2>3, <2>4, OneExecuted
<1>14. CASE Executes(currentCommand') /\ Extended /\ Authenticates(Tokens(currentCommand'))
  <2>1. Passed' > Passed /\ LineEnds(Passed')
    <3>1. ~ignoring' /\ AtLineStart' /\ Passed' >= Passed + 2
      BY <1>1, <1>10, <1>14
    <3> QED BY <1>1, <1>2, <1>3, <1>4, <3>1, LineHasEnded
  <2>2. PICK command \in Executions :
          command.tokens = Tokens(currentCommand') /\ executed' = Append(executed, command)
    BY <1>4, <1>9, <1>14 DEF Executes
  <2>3. PICK next :
          /\ Sent(Tokens(currentCommand'), next, Passed')
          /\ \A k \in DOMAIN executed :
               Behind(Tokens(currentCommand'), next, ends[k], executed[k].tokens, places[k])
    BY <1>8, <1>14
  <2>4. Behind(Tokens(currentCommand'), next, Passed', command.tokens, next)
    BY <1>14, <2>2 DEF Behind
  <2> QED BY <1>2, <1>3, <1>4, <1>5, <2>1, <2>2, <2>3, <2>4, OneExecuted
<1> QED BY <1>2, <1>11, <1>12, <1>13, <1>14 DEF Edits

(* Whatever the client sends and however it is cut into data events, each  *)
(* command that is executed is made of bytes of the stream in the order    *)
(* they were sent in, and was executed at the end of a line; and none of   *)
(* its bytes was sent before the end of a command executed earlier.  So no *)
(* byte is part of two commands, but in the exchange of AUTHENTICATE.      *)
THEOREM CommandsAsSent == IntakeSpec => []ExecutedAsSent
<1>1. ReadInit => SentInv
  <2> SUFFICES ASSUME ReadInit PROVE SentInv
    OBVIOUS
  <2>1. executed = <<>> /\ currentCommand = <<>>
    BY DEF ReadInit
  <2>2. DOMAIN executed = {} /\ executed \in Seq(Executions)
    BY <2>1
  <2>3. SentSoFar(<<>>, <<>>, <<>>)
    BY <2>1, <2>2, SentNothing DEF SentSoFar, SentInTurn
  <2> QED BY <2>2, <2>3 DEF SentInv
<1>2. ReadInv /\ SentInv /\ [ReadNext]_intakeVars => SentInv'
  <2>1. ASSUME SentInv, UNCHANGED intakeVars PROVE SentInv'
    <3>1. UNCHANGED <<receivedData, scanCursor, arrived, stream, currentCommand, executed>>
      BY <2>1 DEF intakeVars, scannerVars, client
    <3>2. PICK places, ends, at : executed \in Seq(Executions) /\ SentSoFar(places, ends, at)
      BY <2>1 DEF SentInv
    <3>3. Passed' = Passed
      BY <3>1 DEF Passed, Unread
    <3>4. SentInTurn(places, ends)'
      BY <3>1, <3>2 DEF SentSoFar, SentInTurn, Sent, LineEnds, Begins
    <3>5. Sent(Tokens(currentCommand), at, Passed)'
      BY <3>1, <3>2, <3>3 DEF SentSoFar, Sent, Begins
    <3>6. SentSoFar(places, ends, at)'
      BY <3>1, <3>2, <3>3, <3>4, <3>5 DEF SentSoFar
    <3> QED BY <3>1, <3>2, <3>6 DEF SentInv
  <2> QED BY <2>1, SentStep
<1>3. SentInv => ExecutedAsSent
  BY DEF SentInv, SentSoFar, ExecutedAsSent
<1> QED BY <1>1, <1>2, <1>3, ReadInvariant, PTL DEF IntakeSpec
=============================================================================
