--------------------------- MODULE Scanner_proofs ---------------------------
(***************************************************************************)
(* The properties of Scanner, proved for every set of chunks and lengths.  *)
(*                                                                         *)
(* Two lemmas for each kind of reader carry the proofs: Sound, the token   *)
(* is the bytes from the old cursor to the new one, and Settled, what was  *)
(* decided stays when bytes are appended.  The unread bytes are handled as *)
(* a tail of what arrived.                                                 *)
(***************************************************************************)
EXTENDS Scanner, WellFoundedInduction, SequenceTheorems, TLAPS

(* A nonempty set of natural numbers has a least member, and Min is it.    *)
LEMMA MinOfNaturals ==
  ASSUME NEW S \in SUBSET Nat, S # {}
  PROVE  Min(S) \in S /\ \A x \in S : Min(S) <= x
<1> DEFINE R == {ss \in Nat \X Nat : ss[1] < ss[2]}
<1>1. IsWellFoundedOn(R, Nat)
  BY NatLessThanWellFounded DEF OpToRel
<1>2. PICK m \in S : \A y \in S : <<y, m>> \notin R
  BY <1>1, WFMin
<1>3. ASSUME NEW y \in S PROVE m <= y
  <2>1. <<y, m>> \notin R /\ y \in Nat /\ m \in Nat
    BY <1>2
  <2> QED BY <2>1
<1> QED  BY <1>3 DEF Min

(* Members behind all the others do not change the least one.              *)
LEMMA MinOfMore ==
  ASSUME NEW S \in SUBSET Nat, NEW T \in SUBSET Nat, S # {}, S \subseteq T,
         \A x \in T \ S : \A y \in S : y < x
  PROVE  Min(T) = Min(S)
<1>1. Min(S) \in S /\ \A x \in S : Min(S) <= x
  BY MinOfNaturals
<1>2. Min(T) \in T /\ \A x \in T : Min(T) <= x
  BY MinOfNaturals
<1>3. Min(S) \in Nat /\ Min(T) \in Nat
  BY <1>1, <1>2
<1>4. Min(T) <= Min(S)
  BY <1>1, <1>2
<1>5. Min(T) \in S
  <2>1. CASE Min(T) \in T \ S
    <3>1. Min(S) < Min(T)
      BY <2>1, <1>1
    <3> QED BY <3>1, <1>3, <1>4
  <2> QED BY <2>1, <1>2
<1>6. Min(S) <= Min(T)
  BY <1>5, <1>1
<1> HIDE DEF Min
<1> QED BY <1>3, <1>4, <1>6

(* What a reader is given. *)
Position(data, at) == data \in Seq(Bytes) /\ at \in 0 .. Len(data)

(* A slice of the bytes that are there does not depend on those to come.   *)
LEMMA SliceOfMore ==
  ASSUME NEW data, NEW at, Position(data, at), NEW more \in Seq(Bytes), NEW to \in at .. Len(data)
  PROVE  Slice(data \o more, at, to) = Slice(data, at, to)
BY DEF Slice, Position

(* The bytes that are there stay where they are.                           *)
LEMMA ByteOfMore ==
  ASSUME NEW data \in Seq(Bytes), NEW more \in Seq(Bytes)
  PROVE  /\ Len(data \o more) = Len(data) + Len(more)
         /\ data \o more \in Seq(Bytes)
         /\ \A i \in 1 .. Len(data) : (data \o more)[i] = data[i]
OBVIOUS

(* What is shown of each reader. *)
Sound(out, data, at) == out.cursor \in at .. Len(data) /\ Behaves(out, data, at)
Settled(out, next) == out.outcome # "null" => next = out

(* A run ends inside the buffer, and its token is the bytes it passes.     *)
LEMMA RunSound ==
  ASSUME NEW type, NEW chars, NEW data, NEW at, Position(data, at)
  PROVE  Sound(readRun(type, chars, data, at), data, at)
<1> DEFINE ends == Strangers(chars, data, at)
<1>1. CASE ends = {}
  BY <1>1 DEF readRun, Sound, Behaves, Null, Position
<1>2. CASE ends # {}
  <2>1. ends \in SUBSET Nat /\ ends \subseteq at .. Len(data) - 1
    BY DEF Strangers, Position
  <2>2. Min(ends) \in at .. Len(data)
    BY <1>2, <2>1, MinOfNaturals DEF Position
  <2> QED BY <1>2, <2>2 DEF readRun, Sound, Behaves, Throw, Token, Lexeme, Position
<1> QED BY <1>1, <1>2

(* The first byte outside of a class, once there, stays the first.         *)
LEMMA StrangersOfMore ==
  ASSUME NEW chars, NEW data, NEW at, Position(data, at), NEW more \in Seq(Bytes)
  PROVE  LET S == Strangers(chars, data, at)
             T == Strangers(chars, data \o more, at) IN
         /\ S \in SUBSET Nat /\ T \in SUBSET Nat
         /\ at < Len(data) => (at \in S <=> at \in T)
         /\ S # {} => at < Len(data)
         /\ S # {} => T # {} /\ Min(T) = Min(S)
         /\ S # {} => Min(S) \in at .. Len(data) - 1
<1> DEFINE S == Strangers(chars, data, at)
           T == Strangers(chars, data \o more, at)
<1>1. S \in SUBSET Nat /\ T \in SUBSET Nat
  BY ByteOfMore DEF Strangers, Position
<1>2. S \subseteq T /\ \A x \in T \ S : x >= Len(data)
  BY ByteOfMore DEF Strangers, Position
<1>3. \A y \in S : y \in at .. Len(data) - 1
  BY DEF Strangers
<1>4. at < Len(data) => (at \in S <=> at \in T)
  BY <1>2, ByteOfMore DEF Position
<1>5. S # {} => T # {} /\ Min(T) = Min(S)
  <2>1. \A x \in T \ S : \A y \in S : y < x
    BY <1>1, <1>2, <1>3 DEF Position
  <2> QED BY <2>1, <1>1, <1>2, MinOfMore
<1>6. S # {} => Min(S) \in at .. Len(data) - 1
  BY <1>1, <1>3, MinOfNaturals
<1>7. S # {} => at < Len(data)
  BY <1>3 DEF Position
<1> QED BY <1>1, <1>4, <1>5, <1>6, <1>7

(* A run that ended is read alike when more bytes are there.               *)
LEMMA RunSettled ==
  ASSUME NEW type, NEW chars, NEW data, NEW at, Position(data, at), NEW more \in Seq(Bytes)
  PROVE  Settled(readRun(type, chars, data, at), readRun(type, chars, data \o more, at))
<1> DEFINE S == Strangers(chars, data, at)
           T == Strangers(chars, data \o more, at)
<1>1. CASE S = {}
  BY <1>1 DEF readRun, Settled, Null
<1>2. CASE S # {} /\ at \in S
  <2>1. at \in T /\ T # {}
    BY <1>2, StrangersOfMore
  <2> QED BY <1>2, <2>1 DEF readRun, Settled
<1>3. CASE S # {} /\ at \notin S
  <2>1. at \notin T /\ T # {} /\ Min(T) = Min(S) /\ Min(S) \in at .. Len(data)
    BY <1>3, StrangersOfMore DEF Position
  <2>2. Slice(data \o more, at, Min(S)) = Slice(data, at, Min(S))
    BY <2>1, SliceOfMore
  <2> QED BY <1>3, <2>1, <2>2 DEF readRun, Settled, Token
<1> QED BY <1>1, <1>2, <1>3

(* A token of a fixed text is the bytes it passes.                         *)
LEMMA FixedSound ==
  ASSUME NEW type, NEW text \in Seq(Bytes), NEW data, NEW at, Position(data, at)
  PROVE  Sound(readFixedLengthToken(type, text, data, at), data, at)
BY DEF readFixedLengthToken, Sound, Behaves, Null, Throw, Token, Lexeme, Position

(* Whether the next bytes are the text does not depend on those behind.    *)
LEMMA FixedSettled ==
  ASSUME NEW type, NEW text \in Seq(Bytes), NEW data, NEW at, Position(data, at), NEW more \in Seq(Bytes)
  PROVE  Settled(readFixedLengthToken(type, text, data, at),
                 readFixedLengthToken(type, text, data \o more, at))
<1>1. CASE at + Len(text) > Len(data)
  BY <1>1 DEF readFixedLengthToken, Settled, Null
<1>2. CASE at + Len(text) <= Len(data)
  <2>1. Slice(data \o more, at, at + Len(text)) = Slice(data, at, at + Len(text))
    BY <1>2, SliceOfMore DEF Position
  <2>2. at + Len(text) <= Len(data \o more) /\ ~(at + Len(text) > Len(data \o more))
    BY <1>2, ByteOfMore DEF Position
  <2>3. ~(at + Len(text) > Len(data))
    BY <1>2 DEF Position
  <2>4. Begins(text, data \o more, at) <=> Begins(text, data, at)
    BY <1>2, <2>1, <2>2 DEF Begins
  <2> QED BY <2>1, <2>2, <2>3, <2>4 DEF readFixedLengthToken, Settled, Token
<1> QED BY <1>1, <1>2 DEF Position

(* The first place of a text, once there, stays the first.                 *)
LEMMA OccurrencesOfMore ==
  ASSUME NEW text \in Seq(Bytes), NEW data, NEW at, Position(data, at), NEW more \in Seq(Bytes)
  PROVE  LET S == Occurrences(text, data, at)
             T == Occurrences(text, data \o more, at) IN
         /\ S \in SUBSET Nat /\ T \in SUBSET Nat
         /\ S # {} => T # {} /\ Min(T) = Min(S)
         /\ S # {} => Min(S) \in at .. Len(data) /\ Min(S) + Len(text) \in at .. Len(data)
<1> DEFINE S == Occurrences(text, data, at)
           T == Occurrences(text, data \o more, at)
<1>1. S \in SUBSET Nat /\ T \in SUBSET Nat
  BY ByteOfMore DEF Occurrences, Position
<1>2. \A y \in S : y \in at .. Len(data) /\ y + Len(text) \in at .. Len(data)
  BY DEF Occurrences, Begins, Position
<1>3. S \subseteq T /\ \A x \in T \ S : x + Len(text) > Len(data)
  <2>1. \A x \in at .. Len(data) : x + Len(text) <= Len(data) =>
            (Begins(text, data \o more, x) <=> Begins(text, data, x))
    <3> SUFFICES ASSUME NEW x \in at .. Len(data), x + Len(text) <= Len(data)
                 PROVE  Begins(text, data \o more, x) <=> Begins(text, data, x)
      OBVIOUS
    <3>1. Position(data, x) /\ x + Len(text) \in x .. Len(data)
      BY DEF Position
    <3>2. Slice(data \o more, x, x + Len(text)) = Slice(data, x, x + Len(text))
      BY <3>1, SliceOfMore
    <3> QED BY <3>2, ByteOfMore DEF Begins, Position
  <2>2. S \subseteq T
    BY <1>2, <2>1, ByteOfMore DEF Occurrences, Position
  <2>3. ASSUME NEW x \in T, x \notin S PROVE x + Len(text) > Len(data)
    <3>1. x \in Nat /\ at <= x /\ Begins(text, data \o more, x)
      BY ByteOfMore DEF Occurrences, Position
    <3>2. CASE x + Len(text) <= Len(data)
      <4>1. x \in at .. Len(data)
        BY <3>1, <3>2 DEF Position
      <4> QED BY <2>1, <2>3, <3>1, <3>2, <4>1 DEF Occurrences
    <3> QED BY <3>1, <3>2 DEF Position
  <2> QED BY <2>2, <2>3
<1>4. S # {} => T # {} /\ Min(T) = Min(S)
  <2>1. \A x \in T \ S : \A y \in S : y < x
    BY <1>1, <1>2, <1>3 DEF Position
  <2> QED BY <2>1, <1>1, <1>3, MinOfMore
<1>5. S # {} => Min(S) \in S
  BY <1>1, MinOfNaturals
<1> QED BY <1>1, <1>2, <1>4, <1>5

(* The byte at the cursor stays the same.                                  *)
LEMMA StartOfMore ==
  ASSUME NEW byte, NEW data, NEW at, Position(data, at), NEW more \in Seq(Bytes), at < Len(data)
  PROVE  StartsWith(byte, data \o more, at) <=> StartsWith(byte, data, at)
BY ByteOfMore DEF StartsWith, Position

(* An enclosed token is the bytes it passes.                               *)
LEMMA EnclosedSound ==
  ASSUME NEW type, NEW open, NEW close \in Seq(Bytes), NEW data, NEW at, Position(data, at)
  PROVE  Sound(readEnclosed(type, open, close, data, at), data, at)
<1> DEFINE ends == Occurrences(close, data, at)
<1>1. CASE ~StartsWith(open, data, at)
  BY <1>1 DEF readEnclosed, Sound, Behaves, Throw, Position
<1>2. CASE StartsWith(open, data, at) /\ ends = {}
  BY <1>2 DEF readEnclosed, Sound, Behaves, Null, Position
<1>3. CASE StartsWith(open, data, at) /\ ends # {}
  <2>1. Min(ends) + Len(close) \in at .. Len(data)
    <3>1. <<>> \in Seq(Bytes)
      OBVIOUS
    <3> QED BY <3>1, <1>3, OccurrencesOfMore
  <2> QED BY <1>3, <2>1 DEF readEnclosed, Sound, Behaves, Token, Lexeme, Position
<1> QED BY <1>1, <1>2, <1>3

(* Bytes behind the closing text change nothing.                           *)
LEMMA EnclosedSettled ==
  ASSUME NEW type, NEW open, NEW close \in Seq(Bytes), NEW data, NEW at, Position(data, at),
         NEW more \in Seq(Bytes), at < Len(data)
  PROVE  Settled(readEnclosed(type, open, close, data, at),
                 readEnclosed(type, open, close, data \o more, at))
<1> DEFINE S == Occurrences(close, data, at)
           T == Occurrences(close, data \o more, at)
<1>1. StartsWith(open, data \o more, at) <=> StartsWith(open, data, at)
  BY StartOfMore
<1>2. CASE ~StartsWith(open, data, at)
  BY <1>1, <1>2 DEF readEnclosed, Settled, Throw
<1>3. CASE StartsWith(open, data, at) /\ S = {}
  BY <1>3 DEF readEnclosed, Settled, Null
<1>4. CASE StartsWith(open, data, at) /\ S # {}
  <2>1. T # {} /\ Min(T) = Min(S) /\ Min(S) + Len(close) \in at .. Len(data)
    BY <1>4, OccurrencesOfMore
  <2>2. Slice(data \o more, at, Min(S) + Len(close)) = Slice(data, at, Min(S) + Len(close))
    BY <2>1, SliceOfMore
  <2> QED BY <1>1, <1>4, <2>1, <2>2 DEF readEnclosed, Settled, Token
<1> QED BY <1>2, <1>3, <1>4

(* Refusing an ill-formed token keeps the cursor inside the buffer.        *)
LEMMA CheckedSound ==
  ASSUME NEW out, NEW wellFormed \in BOOLEAN, NEW data, NEW at, Sound(out, data, at)
  PROVE  Sound(Checked(out, wellFormed), data, at)
BY DEF Checked, Sound, Behaves, Throw

(* The check of a token looks at the token alone.                          *)
LEMMA CheckedSettled ==
  ASSUME NEW out, NEW next, NEW wellFormed \in BOOLEAN, NEW nextWellFormed \in BOOLEAN,
         Settled(out, next), next = out => nextWellFormed = wellFormed
  PROVE  Settled(Checked(out, wellFormed), Checked(next, nextWellFormed))
BY DEF Checked, Settled, Throw

(* A flag is the bytes it passes.                                          *)
LEMMA FlagSound ==
  ASSUME NEW data, NEW at, Position(data, at)
  PROVE  Sound(readFlag(data, at), data, at)
<1> DEFINE ends == Strangers(AtomChars, data, at + 1)
<1>1. CASE at + 2 > Len(data) \/ ~StartsWith("\\", data, at) \/ ends = {}
  BY <1>1 DEF readFlag, Sound, Behaves, Null, Throw, Position
<1>2. CASE ~(at + 2 > Len(data)) /\ StartsWith("\\", data, at) /\ ends # {}
  <2>1. Position(data, at + 1)
    BY <1>2 DEF Position
  <2>2. Min(ends) \in at .. Len(data)
    <3>1. <<>> \in Seq(Bytes)
      OBVIOUS
    <3>2. Min(ends) \in at + 1 .. Len(data) - 1
      BY <1>2, <2>1, <3>1, StrangersOfMore
    <3> QED BY <3>2 DEF Position
  <2> QED BY <1>2, <2>2 DEF readFlag, Sound, Behaves, Token, Lexeme, Position
<1> QED BY <1>1, <1>2

(* Bytes behind a flag change nothing.                                     *)
LEMMA FlagSettled ==
  ASSUME NEW data, NEW at, Position(data, at), NEW more \in Seq(Bytes)
  PROVE  Settled(readFlag(data, at), readFlag(data \o more, at))
<1> DEFINE S == Strangers(AtomChars, data, at + 1)
           T == Strangers(AtomChars, data \o more, at + 1)
<1>1. CASE at + 2 > Len(data)
  BY <1>1 DEF readFlag, Settled, Null
<1>2. CASE ~(at + 2 > Len(data))
  <2>1. Position(data, at + 1) /\ at < Len(data)
    BY <1>2 DEF Position
  <2>2. ~(at + 2 > Len(data \o more))
    BY <1>2, ByteOfMore DEF Position
  <2>3. StartsWith("\\", data \o more, at) <=> StartsWith("\\", data, at)
    BY <2>1, StartOfMore
  <2>4. CASE ~StartsWith("\\", data, at)
    BY <1>2, <2>2, <2>3, <2>4 DEF readFlag, Settled, Throw
  <2>5. CASE StartsWith("\\", data, at) /\ S = {}
    BY <1>2, <2>5 DEF readFlag, Settled, Null
  <2>6. CASE StartsWith("\\", data, at) /\ S # {}
    <3>1. T # {} /\ Min(T) = Min(S) /\ Min(S) \in at + 1 .. Len(data) - 1
      BY <2>1, <2>6, StrangersOfMore
    <3>2. Slice(data \o more, at, Min(S)) = Slice(data, at, Min(S))
      <4>1. Min(S) \in at .. Len(data)
        BY <3>1 DEF Position
      <4> QED BY <4>1, SliceOfMore
    <3> QED BY <1>2, <2>2, <2>3, <2>6, <3>1, <3>2 DEF readFlag, Settled, Token
  <2> QED BY <2>4, <2>5, <2>6
<1> QED BY <1>1, <1>2

(* Where a quoted string ends. *)
Ends(data, at) == ClosingQuotes(data, at) \cup LineBreaks(data, at)

(* The quote or line break that ends a quoted string stays the first.      *)
LEMMA EndsOfMore ==
  ASSUME NEW data, NEW at, Position(data, at), NEW more \in Seq(Bytes)
  PROVE  LET S == Ends(data, at)
             T == Ends(data \o more, at) IN
         S # {} => /\ T # {} /\ Min(T) = Min(S)
                   /\ Min(S) + 1 \in at .. Len(data)
                   /\ Min(S) \in LineBreaks(data \o more, at) <=> Min(S) \in LineBreaks(data, at)
<1> DEFINE S == Ends(data, at)
           T == Ends(data \o more, at)
<1>1. S \in SUBSET Nat /\ T \in SUBSET Nat
  <2>1. Len(data) \in Nat /\ Len(data \o more) \in Nat
    BY ByteOfMore DEF Position
  <2>2. \A n \in Nat : at + 1 .. n - 1 \in SUBSET Nat
    BY DEF Position
  <2>3. S \subseteq at + 1 .. Len(data) - 1 /\ T \subseteq at + 1 .. Len(data \o more) - 1
    BY DEF Ends, ClosingQuotes, LineBreaks
  <2> QED BY <2>1, <2>2, <2>3
<1>2. \A i \in at + 1 .. Len(data) - 1 :
        /\ i \in ClosingQuotes(data \o more, at) <=> i \in ClosingQuotes(data, at)
        /\ i \in LineBreaks(data \o more, at) <=> i \in LineBreaks(data, at)
  <2> SUFFICES ASSUME NEW i \in at + 1 .. Len(data) - 1
               PROVE  /\ i \in ClosingQuotes(data \o more, at) <=> i \in ClosingQuotes(data, at)
                      /\ i \in LineBreaks(data \o more, at) <=> i \in LineBreaks(data, at)
    OBVIOUS
  <2>1. i \in 1 .. Len(data) /\ i + 1 \in 1 .. Len(data) /\ i \in at + 1 .. Len(data \o more) - 1
    BY ByteOfMore DEF Position
  <2>2. (data \o more)[i] = data[i] /\ (data \o more)[i + 1] = data[i + 1]
    BY <2>1, ByteOfMore DEF Position
  <2> QED BY <2>1, <2>2 DEF ClosingQuotes, LineBreaks
<1>3. \A y \in S : y \in at + 1 .. Len(data) - 1
  BY DEF Ends, ClosingQuotes, LineBreaks
<1>4. S \subseteq T /\ \A x \in T \ S : x >= Len(data)
  <2>1. S \subseteq T
    BY <1>2, <1>3 DEF Ends
  <2>2. ASSUME NEW x \in T, x \notin S PROVE x >= Len(data)
    <3>1. x \in Nat /\ at + 1 <= x
      <4>1. x \in at + 1 .. Len(data \o more) - 1
        BY <2>2 DEF Ends, ClosingQuotes, LineBreaks
      <4> QED BY <1>1, <2>2, <4>1 DEF Position
    <3>2. CASE x < Len(data)
      <4>1. x \in at + 1 .. Len(data) - 1
        BY <3>1, <3>2 DEF Position
      <4> QED BY <1>2, <2>2, <4>1 DEF Ends
    <3> QED BY <3>1, <3>2 DEF Position
  <2> QED BY <2>1, <2>2
<1>5. ASSUME S # {}
      PROVE  /\ T # {} /\ Min(T) = Min(S)
             /\ Min(S) + 1 \in at .. Len(data)
             /\ Min(S) \in LineBreaks(data \o more, at) <=> Min(S) \in LineBreaks(data, at)
  <2>1. \A x \in T \ S : \A y \in S : y < x
    BY <1>1, <1>3, <1>4 DEF Position
  <2>2. Min(T) = Min(S) /\ T # {}
    BY <1>1, <1>4, <1>5, <2>1, MinOfMore
  <2>3. Min(S) \in at + 1 .. Len(data) - 1
    BY <1>1, <1>3, <1>5, MinOfNaturals
  <2>4. Min(S) + 1 \in at .. Len(data)
    BY <2>3 DEF Position
  <2> QED BY <1>2, <2>2, <2>3, <2>4
<1> QED BY <1>5

(* A quoted string is the bytes it passes.                                 *)
LEMMA QuotedSound ==
  ASSUME NEW data, NEW at, Position(data, at)
  PROVE  Sound(readDoubleQuotedString(data, at), data, at)
<1> DEFINE ends == Ends(data, at)
<1>1. CASE ~StartsWith("\"", data, at) \/ ends = {}
  <2>1. readDoubleQuotedString(data, at) \in {Throw(at), Null(at)}
    BY <1>1 DEF readDoubleQuotedString, Ends
  <2> QED BY <2>1 DEF Sound, Behaves, Null, Throw, Position
<1>2. CASE StartsWith("\"", data, at) /\ ends # {}
  <2>1. Min(ends) + 1 \in at .. Len(data)
    <3>1. <<>> \in Seq(Bytes)
      OBVIOUS
    <3> QED BY <3>1, <1>2, EndsOfMore
  <2>2. readDoubleQuotedString(data, at)
          \in {Throw(at), Token("QUOTED_STRING", data, at, Min(ends) + 1)}
    BY <1>2 DEF readDoubleQuotedString, Ends
  <2> QED BY <2>1, <2>2 DEF Sound, Behaves, Token, Throw, Lexeme, Position
<1> QED BY <1>1, <1>2

(* Bytes behind a quoted string change nothing.                            *)
LEMMA QuotedSettled ==
  ASSUME NEW data, NEW at, Position(data, at), NEW more \in Seq(Bytes), at < Len(data)
  PROVE  Settled(readDoubleQuotedString(data, at), readDoubleQuotedString(data \o more, at))
<1> DEFINE S == Ends(data, at)
           T == Ends(data \o more, at)
<1>1. StartsWith("\"", data \o more, at) <=> StartsWith("\"", data, at)
  BY StartOfMore
<1>2. CASE ~StartsWith("\"", data, at)
  BY <1>1, <1>2 DEF readDoubleQuotedString, Settled, Throw
<1>3. CASE StartsWith("\"", data, at) /\ S = {}
  BY <1>3 DEF readDoubleQuotedString, Ends, Settled, Null
<1>4. CASE StartsWith("\"", data, at) /\ S # {}
  <2>1. /\ T # {} /\ Min(T) = Min(S) /\ Min(S) + 1 \in at .. Len(data)
        /\ Min(S) \in LineBreaks(data \o more, at) <=> Min(S) \in LineBreaks(data, at)
    BY <1>4, EndsOfMore
  <2>2. Slice(data \o more, at, Min(S) + 1) = Slice(data, at, Min(S) + 1)
    BY <2>1, SliceOfMore
  <2> HIDE DEF S, T
  <2>3. readDoubleQuotedString(data, at) =
          IF Min(S) \in LineBreaks(data, at) THEN Throw(at)
          ELSE Token("QUOTED_STRING", data, at, Min(S) + 1)
    BY <1>4 DEF S, readDoubleQuotedString, Ends
  <2>4. readDoubleQuotedString(data \o more, at) =
          IF Min(T) \in LineBreaks(data \o more, at) THEN Throw(at)
          ELSE Token("QUOTED_STRING", data \o more, at, Min(T) + 1)
    BY <1>1, <1>4, <2>1 DEF T, readDoubleQuotedString, Ends
  <2> QED BY <2>1, <2>2, <2>3, <2>4 DEF Settled, Token
<1> QED BY <1>2, <1>3, <1>4

(* A literal is the bytes it passes.                                       *)
LEMMA LiteralSound ==
  ASSUME NEW length \in Nat, NEW data, NEW at, Position(data, at)
  PROVE  Sound(readLiteral(length, data, at), data, at)
BY DEF readLiteral, Sound, Behaves, Null, Token, Lexeme, Position

(* Bytes behind a literal change nothing.                                  *)
LEMMA LiteralSettled ==
  ASSUME NEW length \in Nat, NEW data, NEW at, Position(data, at), NEW more \in Seq(Bytes)
  PROVE  Settled(readLiteral(length, data, at), readLiteral(length, data \o more, at))
<1>1. CASE at + length > Len(data)
  BY <1>1 DEF readLiteral, Settled, Null
<1>2. CASE at + length <= Len(data)
  <2>1. Slice(data \o more, at, at + length) = Slice(data, at, at + length)
    BY <1>2, SliceOfMore DEF Position
  <2>2. ~(at + length > Len(data \o more)) /\ ~(at + length > Len(data))
    BY <1>2, ByteOfMore DEF Position
  <2> QED BY <2>1, <2>2 DEF readLiteral, Settled, Token
<1> QED BY <1>1, <1>2 DEF Position

(* A base64 token is the bytes it passes.                                  *)
LEMMA Base64Sound ==
  ASSUME NEW data, NEW at, Position(data, at)
  PROVE  Sound(readAbortableBase64(data, at), data, at)
<1> DEFINE ends == Strangers(Base64Chars, data, at)
<1>1. CASE StartsWith("*", data, at)
  BY <1>1 DEF readAbortableBase64, StartsWith, Sound, Behaves, Token, Lexeme, Position
<1>2. CASE ~StartsWith("*", data, at) /\ ends = {}
  BY <1>2 DEF readAbortableBase64, Sound, Behaves, Null, Position
<1>3. CASE ~StartsWith("*", data, at) /\ ends # {}
  <2>1. Min(ends) \in at .. Len(data)
    <3>1. <<>> \in Seq(Bytes)
      OBVIOUS
    <3>2. Min(ends) \in at .. Len(data) - 1
      BY <1>3, <3>1, StrangersOfMore
    <3> QED BY <3>2 DEF Position
  <2> QED BY <1>3, <2>1 DEF readAbortableBase64, Sound, Behaves, Token, Lexeme, Position
<1> QED BY <1>1, <1>2, <1>3

(* Bytes behind a base64 token change nothing.                             *)
LEMMA Base64Settled ==
  ASSUME NEW data, NEW at, Position(data, at), NEW more \in Seq(Bytes), at < Len(data)
  PROVE  Settled(readAbortableBase64(data, at), readAbortableBase64(data \o more, at))
<1> DEFINE S == Strangers(Base64Chars, data, at)
           T == Strangers(Base64Chars, data \o more, at)
<1>1. StartsWith("*", data \o more, at) <=> StartsWith("*", data, at)
  BY StartOfMore
<1>2. CASE StartsWith("*", data, at)
  <2>1. at + 1 \in at .. Len(data)
    BY DEF Position
  <2>2. Slice(data \o more, at, at + 1) = Slice(data, at, at + 1)
    BY <2>1, SliceOfMore
  <2> QED BY <1>1, <1>2, <2>2 DEF readAbortableBase64, Settled, Token
<1>3. CASE ~StartsWith("*", data, at) /\ S = {}
  BY <1>3 DEF readAbortableBase64, Settled, Null
<1>4. CASE ~StartsWith("*", data, at) /\ S # {}
  <2>1. T # {} /\ Min(T) = Min(S) /\ Min(S) \in at .. Len(data)
    BY <1>4, StrangersOfMore DEF Position
  <2>2. Slice(data \o more, at, Min(S)) = Slice(data, at, Min(S))
    BY <2>1, SliceOfMore
  <2> QED BY <1>1, <1>4, <2>1, <2>2 DEF readAbortableBase64, Settled, Token
<1> QED BY <1>2, <1>3, <1>4

(* The texts the readers look for are sequences of bytes.                  *)
LEMMA Texts ==
  /\ <<" ">> \in Seq(Bytes) /\ <<"(">> \in Seq(Bytes) /\ <<")">> \in Seq(Bytes)
  /\ CRLF \in Seq(Bytes) /\ Len(CRLF) = 2
  /\ <<"]">> \in Seq(Bytes) /\ <<">">> \in Seq(Bytes) /\ <<"}", CR, LF>> \in Seq(Bytes)
<1>1. {" ", "(", ")", CR, LF, "]", ">", "}"} \subseteq Bytes
  BY DEF Bytes, AtomChars, AtomSpecials, Punctuation, CR, LF
<1>2. \A b \in Bytes : <<b>> \in Seq(Bytes)
  OBVIOUS
<1>3. \A b, c \in Bytes : <<b, c>> \in Seq(Bytes) /\ Len(<<b, c>>) = 2
  OBVIOUS
<1>4. \A b, c, d \in Bytes : <<b, c, d>> \in Seq(Bytes)
  OBVIOUS
<1>5. CRLF \in Seq(Bytes) /\ Len(CRLF) = 2
  BY <1>1, <1>3 DEF CRLF
<1>6. <<"}", CR, LF>> \in Seq(Bytes)
  BY <1>1, <1>4
<1> QED BY <1>1, <1>2, <1>5, <1>6

(* A partial is the bytes it passes.                                       *)
LEMMA PartialSound ==
  ASSUME NEW data, NEW at, Position(data, at)
  PROVE  Sound(readFetchPartial(data, at), data, at)
<1> DEFINE out == readEnclosed("PARTIAL", "<", <<">">>, data, at)
<1>1. Sound(out, data, at)
  BY Texts, EnclosedSound
<1>2. WellFormedPartial(out.lexeme.token) \in BOOLEAN
  BY DEF WellFormedPartial
<1> HIDE DEF out
<1>3. Sound(Checked(out, WellFormedPartial(out.lexeme.token)), data, at)
  BY <1>1, <1>2, CheckedSound
<1> QED BY <1>3 DEF readFetchPartial, out

(* Bytes behind a partial change nothing.                                  *)
LEMMA PartialSettled ==
  ASSUME NEW data, NEW at, Position(data, at), NEW more \in Seq(Bytes), at < Len(data)
  PROVE  Settled(readFetchPartial(data, at), readFetchPartial(data \o more, at))
<1> DEFINE out == readEnclosed("PARTIAL", "<", <<">">>, data, at)
           next == readEnclosed("PARTIAL", "<", <<">">>, data \o more, at)
<1>1. Settled(out, next)
  BY Texts, EnclosedSettled
<1>2. \A token : WellFormedPartial(token) \in BOOLEAN
  BY DEF WellFormedPartial
<1> HIDE DEF out, next
<1>3. Settled(Checked(out, WellFormedPartial(out.lexeme.token)),
              Checked(next, WellFormedPartial(next.lexeme.token)))
  BY <1>1, <1>2, CheckedSettled
<1> QED BY <1>3 DEF readFetchPartial, out, next

(* A sequence set is the bytes it passes.                                  *)
LEMMA SequenceSetSound ==
  ASSUME NEW data, NEW at, Position(data, at)
  PROVE  Sound(readSequenceSet(data, at), data, at)
<1> DEFINE out == readRun("SEQUENCE_SET", SequenceSetChars, data, at)
<1>1. Sound(out, data, at)
  BY RunSound
<1>2. WellFormedSequenceSet(out.lexeme.token) \in BOOLEAN
  BY DEF WellFormedSequenceSet
<1> HIDE DEF out
<1>3. Sound(Checked(out, WellFormedSequenceSet(out.lexeme.token)), data, at)
  BY <1>1, <1>2, CheckedSound
<1> QED BY <1>3 DEF readSequenceSet, out

(* Bytes behind a sequence set change nothing.                             *)
LEMMA SequenceSetSettled ==
  ASSUME NEW data, NEW at, Position(data, at), NEW more \in Seq(Bytes)
  PROVE  Settled(readSequenceSet(data, at), readSequenceSet(data \o more, at))
<1> DEFINE out == readRun("SEQUENCE_SET", SequenceSetChars, data, at)
           next == readRun("SEQUENCE_SET", SequenceSetChars, data \o more, at)
<1>1. Settled(out, next)
  BY RunSettled
<1>2. \A token : WellFormedSequenceSet(token) \in BOOLEAN
  BY DEF WellFormedSequenceSet
<1> HIDE DEF out, next
<1>3. Settled(Checked(out, WellFormedSequenceSet(out.lexeme.token)),
              Checked(next, WellFormedSequenceSet(next.lexeme.token)))
  BY <1>1, <1>2, CheckedSettled
<1> QED BY <1>3 DEF readSequenceSet, out, next

(* A literal length is the bytes it passes.                                *)
LEMMA LiteralLengthSound ==
  ASSUME NEW data, NEW at, Position(data, at)
  PROVE  Sound(readLiteralLength(data, at), data, at)
<1> DEFINE out == readEnclosed("LITERAL_LENGTH", "{", <<"}", CR, LF>>, data, at)
           ok == \A i \in 2 .. Len(out.lexeme.token) - 3 : out.lexeme.token[i] \in Digits
<1>1. Sound(out, data, at)
  BY Texts, EnclosedSound
<1>2. ok \in BOOLEAN
  OBVIOUS
<1> HIDE DEF out, ok
<1>3. Sound(Checked(out, ok), data, at)
  BY <1>1, <1>2, CheckedSound
<1>4. Sound(Null(at), data, at)
  BY DEF Sound, Behaves, Null, Position
<1> QED BY <1>3, <1>4 DEF readLiteralLength, out, ok

(* Bytes behind a literal length change nothing.                           *)
LEMMA LiteralLengthSettled ==
  ASSUME NEW data, NEW at, Position(data, at), NEW more \in Seq(Bytes), at < Len(data)
  PROVE  Settled(readLiteralLength(data, at), readLiteralLength(data \o more, at))
<1> DEFINE out == readEnclosed("LITERAL_LENGTH", "{", <<"}", CR, LF>>, data, at)
           next == readEnclosed("LITERAL_LENGTH", "{", <<"}", CR, LF>>, data \o more, at)
           ok(o) == \A i \in 2 .. Len(o.lexeme.token) - 3 : o.lexeme.token[i] \in Digits
<1>1. Settled(out, next)
  BY Texts, EnclosedSettled
<1>2. ok(out) \in BOOLEAN /\ ok(next) \in BOOLEAN /\ (next = out => ok(next) = ok(out))
  OBVIOUS
<1>3. StartsWith("{", data \o more, at) <=> StartsWith("{", data, at)
  BY StartOfMore
<1>4. readLiteralLength(data, at) = IF StartsWith("{", data, at) THEN Checked(out, ok(out)) ELSE Null(at)
  BY DEF readLiteralLength
<1>5. readLiteralLength(data \o more, at) =
        IF StartsWith("{", data \o more, at) THEN Checked(next, ok(next)) ELSE Null(at)
  BY DEF readLiteralLength
<1> HIDE DEF out, next, ok
<1>6. Settled(Checked(out, ok(out)), Checked(next, ok(next)))
  BY <1>1, <1>2, CheckedSettled
<1>7. CASE StartsWith("{", data, at)
  BY <1>3, <1>4, <1>5, <1>6, <1>7
<1>8. CASE ~StartsWith("{", data, at)
  <2>1. readLiteralLength(data, at) = Null(at)
    BY <1>4, <1>8
  <2> QED BY <2>1 DEF Settled, Null
<1> QED BY <1>7, <1>8

(* Every reader leaves the cursor inside the buffer and behaves.           *)
LEMMA ReadingSound ==
  ASSUME NEW r \in Readers, NEW data, NEW at, Position(data, at)
  PROVE  Sound(Reading(r, data, at), data, at)
<1>1. Sound(Throw(at), data, at)
  BY DEF Sound, Behaves, Throw, Position
<1>2. /\ Sound(readAstring(data, at), data, at)
      /\ Sound(readString(data, at), data, at)
      /\ Sound(readMailboxList(data, at), data, at)
  BY <1>1, QuotedSound, LiteralLengthSound, RunSound
     DEF readAstring, readString, readMailboxList, readAtom, readList
<1>3. /\ Sound(readTag(data, at), data, at) /\ Sound(readCommand(data, at), data, at)
      /\ Sound(readAtom(data, at), data, at) /\ Sound(readList(data, at), data, at)
      /\ Sound(readSASLMechanism(data, at), data, at) /\ Sound(readFetchAtt(data, at), data, at)
      /\ Sound(readSearchKey(data, at), data, at)
  BY RunSound DEF readTag, readCommand, readAtom, readList, readSASLMechanism, readFetchAtt,
     readSearchKey
<1>4. /\ Sound(readSpace(data, at), data, at) /\ Sound(readListStart(data, at), data, at)
      /\ Sound(readListEnd(data, at), data, at) /\ Sound(readNewLine(data, at), data, at)
      /\ Sound(readCommandTerminatingNewLine(data, at), data, at)
  BY FixedSound, Texts DEF readSpace, readListStart, readListEnd, readNewLine,
     readCommandTerminatingNewLine
<1>5. Sound(readFetchSection(data, at), data, at)
  BY EnclosedSound, Texts DEF readFetchSection
<1> QED
  BY <1>2, <1>3, <1>4, <1>5, FlagSound, QuotedSound, PartialSound, LiteralLengthSound,
     Base64Sound, SequenceSetSound
     DEF Readers, Reading

(* What a reader decided, more bytes do not change.                        *)
LEMMA ReadingSettled ==
  ASSUME NEW r \in Readers, NEW data, NEW at, Position(data, at), NEW more \in Seq(Bytes),
         at < Len(data)
  PROVE  Settled(Reading(r, data, at), Reading(r, data \o more, at))
<1> DEFINE all == data \o more
<1>1. Settled(Throw(at), Throw(at))
  BY DEF Settled
<1>2. \A byte : StartsWith(byte, data \o more, at) <=> StartsWith(byte, data, at)
  BY StartOfMore
<1>3. /\ Settled(readTag(data, at), readTag(all, at))
      /\ Settled(readCommand(data, at), readCommand(all, at))
      /\ Settled(readAtom(data, at), readAtom(all, at))
      /\ Settled(readList(data, at), readList(all, at))
      /\ Settled(readSASLMechanism(data, at), readSASLMechanism(all, at))
      /\ Settled(readFetchAtt(data, at), readFetchAtt(all, at))
      /\ Settled(readSearchKey(data, at), readSearchKey(all, at))
  BY RunSettled DEF readTag, readCommand, readAtom, readList, readSASLMechanism, readFetchAtt,
     readSearchKey
<1>4. /\ Settled(readSpace(data, at), readSpace(all, at))
      /\ Settled(readListStart(data, at), readListStart(all, at))
      /\ Settled(readListEnd(data, at), readListEnd(all, at))
      /\ Settled(readNewLine(data, at), readNewLine(all, at))
      /\ Settled(readCommandTerminatingNewLine(data, at), readCommandTerminatingNewLine(all, at))
  BY FixedSettled, Texts DEF readSpace, readListStart, readListEnd, readNewLine,
     readCommandTerminatingNewLine
<1>5. Settled(readFetchSection(data, at), readFetchSection(all, at))
  BY EnclosedSettled, Texts DEF readFetchSection
<1>6. /\ Settled(readDoubleQuotedString(data, at), readDoubleQuotedString(all, at))
      /\ Settled(readLiteralLength(data, at), readLiteralLength(all, at))
  BY QuotedSettled, LiteralLengthSettled
<1>7. /\ Settled(readAstring(data, at), readAstring(all, at))
      /\ Settled(readString(data, at), readString(all, at))
      /\ Settled(readMailboxList(data, at), readMailboxList(all, at))
  BY <1>1, <1>2, <1>3, <1>6 DEF readAstring, readString, readMailboxList
<1>8. /\ Settled(readFlag(data, at), readFlag(all, at))
      /\ Settled(readFetchPartial(data, at), readFetchPartial(all, at))
      /\ Settled(readAbortableBase64(data, at), readAbortableBase64(all, at))
      /\ Settled(readSequenceSet(data, at), readSequenceSet(all, at))
  BY FlagSettled, PartialSettled, Base64Settled, SequenceSetSettled
<1> HIDE DEF all
<1>9. Settled(Reading(r, data, at), Reading(r, all, at))
  BY <1>3, <1>4, <1>5, <1>6, <1>7, <1>8 DEF Readers, Reading
<1> QED BY <1>9 DEF all

-----------------------------------------------------------------------------
(* The length and the bytes of a slice.                                    *)
LEMMA SliceParts ==
  ASSUME NEW s \in Seq(Bytes), NEW a \in 0 .. Len(s), NEW b \in a .. Len(s)
  PROVE  /\ Slice(s, a, b) \in Seq(Bytes)
         /\ Len(Slice(s, a, b)) = b - a
         /\ \A i \in 1 .. b - a : Slice(s, a, b)[i] = s[a + i]
<1>1. a \in Nat /\ b \in Nat /\ Len(s) \in Nat /\ a <= b /\ b <= Len(s)
  OBVIOUS
<1>2. /\ SubSeq(s, a + 1, b) \in Seq(Bytes)
      /\ Len(SubSeq(s, a + 1, b)) = IF a + 1 <= b THEN b - (a + 1) + 1 ELSE 0
      /\ \A i \in 1 .. b - (a + 1) + 1 : SubSeq(s, a + 1, b)[i] = s[a + 1 + i - 1]
  BY <1>1, SubSeqProperties
<1>3. \A i \in 1 .. b - a : a + 1 + i - 1 = a + i
  BY <1>1
<1>4. b - (a + 1) + 1 = b - a /\ (a + 1 <= b \/ b - a = 0)
  BY <1>1
<1> QED BY <1>2, <1>3, <1>4 DEF Slice

(* s is the end of t. *)
IsTail(s, t) == Len(s) <= Len(t) /\ s = Slice(t, Len(t) - Len(s), Len(t))

(* A tail, stated byte by byte.                                            *)
LEMMA TailByByte ==
  ASSUME NEW s \in Seq(Bytes), NEW t \in Seq(Bytes)
  PROVE  IsTail(s, t) <=> /\ Len(s) <= Len(t)
                        /\ \A i \in 1 .. Len(s) : s[i] = t[Len(t) - Len(s) + i]
<1> SUFFICES ASSUME Len(s) <= Len(t)
             PROVE  s = Slice(t, Len(t) - Len(s), Len(t))
                      <=> \A i \in 1 .. Len(s) : s[i] = t[Len(t) - Len(s) + i]
  BY DEF IsTail
<1> DEFINE a == Len(t) - Len(s)  u == Slice(t, a, Len(t))
<1>1. a \in 0 .. Len(t) /\ Len(t) \in a .. Len(t) /\ Len(t) - a = Len(s)
  OBVIOUS
<1>2. u \in Seq(Bytes) /\ Len(u) = Len(s) /\ \A i \in 1 .. Len(s) : u[i] = t[a + i]
  BY <1>1, SliceParts
<1> HIDE DEF u
<1>3. s = u <=> \A i \in 1 .. Len(s) : s[i] = u[i]
  BY <1>2
<1> QED BY <1>2, <1>3 DEF u

(* The tail of a tail is a tail.                                           *)
LEMMA TailOfTail ==
  ASSUME NEW s \in Seq(Bytes), NEW t \in Seq(Bytes), NEW u \in Seq(Bytes), IsTail(s, t), IsTail(t, u)
  PROVE  IsTail(s, u)
<1>1. Len(s) <= Len(t) /\ \A i \in 1 .. Len(s) : s[i] = t[Len(t) - Len(s) + i]
  BY TailByByte
<1>2. Len(t) <= Len(u) /\ \A i \in 1 .. Len(t) : t[i] = u[Len(u) - Len(t) + i]
  BY TailByByte
<1>3. ASSUME NEW i \in 1 .. Len(s) PROVE s[i] = u[Len(u) - Len(s) + i]
  <2>1. Len(t) - Len(s) + i \in 1 .. Len(t)
        /\ Len(u) - Len(t) + (Len(t) - Len(s) + i) = Len(u) - Len(s) + i
    BY <1>1, <1>2
  <2> QED BY <1>1, <1>2, <2>1
<1> QED BY <1>1, <1>2, <1>3, TailByByte

(* What lies behind a position is a tail.                                  *)
LEMMA TailOfSlice ==
  ASSUME NEW s \in Seq(Bytes), NEW k \in 0 .. Len(s)
  PROVE  Slice(s, k, Len(s)) \in Seq(Bytes) /\ Len(Slice(s, k, Len(s))) = Len(s) - k
         /\ IsTail(Slice(s, k, Len(s)), s)
<1>1. Len(s) \in k .. Len(s)
  OBVIOUS
<1>2. Slice(s, k, Len(s)) \in Seq(Bytes) /\ Len(Slice(s, k, Len(s))) = Len(s) - k
  BY <1>1, SliceParts
<1>3. Len(s) - k <= Len(s) /\ Len(s) - (Len(s) - k) = k
  OBVIOUS
<1> QED BY <1>2, <1>3 DEF IsTail

(* Appending the same bytes keeps a tail one.                              *)
LEMMA TailOfAppend ==
  ASSUME NEW s \in Seq(Bytes), NEW t \in Seq(Bytes), NEW d \in Seq(Bytes)
  PROVE  IsTail(d, t \o d) /\ (IsTail(s, t) => IsTail(s \o d, t \o d))
<1>1. /\ t \o d \in Seq(Bytes) /\ Len(t \o d) = Len(t) + Len(d)
      /\ s \o d \in Seq(Bytes) /\ Len(s \o d) = Len(s) + Len(d)
  OBVIOUS
<1>2. /\ \A i \in 1 .. Len(s) : (s \o d)[i] = s[i]
      /\ \A i \in 1 .. Len(t) : (t \o d)[i] = t[i]
  OBVIOUS
<1>3. /\ \A i \in 1 .. Len(d) : (s \o d)[Len(s) + i] = d[i]
      /\ \A i \in 1 .. Len(d) : (t \o d)[Len(t) + i] = d[i]
  OBVIOUS
<1>4. IsTail(d, t \o d)
  <2>1. Len(t) + Len(d) - Len(d) = Len(t) /\ Len(d) <= Len(t) + Len(d)
    OBVIOUS
  <2>2. \A i \in 1 .. Len(d) : d[i] = (t \o d)[Len(t \o d) - Len(d) + i]
    <3>1. Len(t \o d) - Len(d) = Len(t)
      BY <1>1, <2>1
    <3> QED BY <1>3, <3>1
  <2>3. Len(d) <= Len(t \o d)
    BY <1>1, <2>1
  <2> HIDE DEF IsTail
  <2> QED BY <1>1, <2>2, <2>3, TailByByte
<1>5. ASSUME IsTail(s, t) PROVE IsTail(s \o d, t \o d)
  <2>1. Len(s) <= Len(t) /\ \A i \in 1 .. Len(s) : s[i] = t[Len(t) - Len(s) + i]
    BY <1>5, TailByByte
  <2>2. ASSUME NEW i \in 1 .. Len(s) + Len(d)
        PROVE (s \o d)[i] = (t \o d)[(Len(t) + Len(d)) - (Len(s) + Len(d)) + i]
    <3>1. (Len(t) + Len(d)) - (Len(s) + Len(d)) + i = Len(t) - Len(s) + i
      OBVIOUS
    <3>4. i \in Int /\ Len(s) \in Int
      OBVIOUS
    <3>2. CASE i <= Len(s)
      <4>1. i \in 1 .. Len(s) /\ Len(t) - Len(s) + i \in 1 .. Len(t)
        BY <2>1, <3>2
      <4> QED BY <1>2, <2>1, <3>1, <4>1
    <3>3. CASE i > Len(s)
      <4>1. i - Len(s) \in 1 .. Len(d) /\ Len(s) + (i - Len(s)) = i
            /\ Len(t) + (i - Len(s)) = Len(t) - Len(s) + i
        BY <3>3
      <4> QED BY <1>3, <3>1, <4>1
    <3>5. i <= Len(s) \/ i > Len(s)
      BY <3>4
    <3> QED BY <3>2, <3>3, <3>5, Zenon
  <2>3. Len(s \o d) <= Len(t \o d)
    BY <1>1, <2>1
  <2> QED BY <1>1, <2>2, <2>3, TailByByte
<1> QED BY <1>4, <1>5

(* The slice of everything is everything.                                  *)
LEMMA WholeSlice ==
  /\ <<>> \in Seq(Bytes) /\ Len(<<>>) = 0
  /\ \A s \in Seq(Bytes) : Slice(s, 0, Len(s)) = s /\ 0 \in 0 .. Len(s)
<1>1. <<>> \in Seq(Bytes) /\ Len(<<>>) = 0
  OBVIOUS
<1>2. ASSUME NEW s \in Seq(Bytes) PROVE SubSeq(s, 1, Len(s)) = s /\ 0 \in 0 .. Len(s)
  OBVIOUS
<1>3. 0 + 1 = 1
  OBVIOUS
<1> QED BY <1>1, <1>2, <1>3 DEF Slice

(* The unread bytes are a tail of what was received.                       *)
LEMMA UnreadForm ==
  ASSUME TypeOK
  PROVE  /\ Unread \in Seq(Bytes) /\ IsTail(Unread, receivedData)
         /\ Len(Unread) = Len(receivedData) - scanCursor
         /\ UnreadIsTail => (~ignoring => IsTail(Unread, arrived))
BY TailOfSlice DEF TypeOK, Unread, UnreadIsTail, Passed, IsTail

(* A reader moves the cursor forward, which leaves a tail of the tail.     *)
LEMMA ReadStep ==
  ASSUME TypeOK, NEW out, Sound(out, receivedData, scanCursor), Advance(out), UNCHANGED arrived
  PROVE  TypeOK' /\ (UnreadIsTail => UnreadIsTail')
<1>1. TypeOK'
  BY DEF TypeOK, Sound, Advance
<1>2. ASSUME UnreadIsTail, ~ignoring PROVE IsTail(Unread', arrived')
  <2> DEFINE k == scanCursor' - scanCursor
  <2>1. IsTail(Unread, arrived) /\ Unread \in Seq(Bytes) /\ arrived \in Seq(Bytes)
    BY <1>2, UnreadForm DEF TypeOK
  <2>2. Unread' \in Seq(Bytes) /\ IsTail(Unread', Unread)
    <3>1. receivedData' = receivedData /\ receivedData \in Seq(Bytes)
          /\ scanCursor \in 0 .. Len(receivedData) /\ scanCursor' \in scanCursor .. Len(receivedData)
      BY DEF TypeOK, Sound, Advance
    <3> DEFINE n == Len(receivedData)
    <3>2. Unread = Slice(receivedData, scanCursor, n) /\ Unread' = Slice(receivedData, scanCursor', n)
      BY <3>1 DEF Unread
    <3>3. /\ Len(Unread) = n - scanCursor
          /\ \A i \in 1 .. n - scanCursor : Unread[i] = receivedData[scanCursor + i]
      <4>1. scanCursor \in 0 .. n /\ n \in scanCursor .. n
        BY <3>1
      <4> QED BY <3>1, <3>2, <4>1, SliceParts
    <3>4. scanCursor' \in 0 .. n /\ n \in scanCursor' .. n
      BY <3>1
    <3>5. /\ Len(Unread') = n - scanCursor' /\ Unread' \in Seq(Bytes)
          /\ \A i \in 1 .. n - scanCursor' : Unread'[i] = receivedData[scanCursor' + i]
      BY <3>1, <3>2, <3>4, SliceParts
    <3>6. ASSUME NEW i \in 1 .. n - scanCursor'
          PROVE  Unread'[i] = Unread[(n - scanCursor) - (n - scanCursor') + i]
      <4>1. (n - scanCursor) - (n - scanCursor') + i \in 1 .. n - scanCursor
            /\ scanCursor + ((n - scanCursor) - (n - scanCursor') + i) = scanCursor' + i
        BY <3>1
      <4> QED BY <3>3, <3>5, <4>1
    <3>7. n - scanCursor' <= n - scanCursor
      BY <3>1
    <3> QED BY <2>1, <3>3, <3>5, <3>6, <3>7, TailByByte
  <2> QED BY <2>1, <2>2, TailOfTail
<1>3. UnreadIsTail' <=> (~ignoring' => IsTail(Unread', arrived'))
  BY DEF UnreadIsTail, Passed, IsTail
<1> QED BY <1>1, <1>2, <1>3 DEF Advance

(* The next line terminator lies inside the buffer.                        *)
LEMMA NewlineAhead ==
  ASSUME TypeOK, Occurrences(CRLF, receivedData, scanCursor) # {}
  PROVE  LET m == Min(Occurrences(CRLF, receivedData, scanCursor)) IN
         /\ m \in Occurrences(CRLF, receivedData, scanCursor)
         /\ m + Len(CRLF) \in scanCursor .. Len(receivedData)
<1> DEFINE S == Occurrences(CRLF, receivedData, scanCursor)
<1>1. Position(receivedData, scanCursor) /\ <<>> \in Seq(Bytes)
  BY DEF TypeOK, Position
<1>2. S \in SUBSET Nat /\ Min(S) + Len(CRLF) \in scanCursor .. Len(receivedData)
  BY <1>1, Texts, OccurrencesOfMore
<1>3. Min(S) \in S
  BY <1>2, MinOfNaturals
<1> QED BY <1>2, <1>3

(* Skipping a line keeps the invariant.                                    *)
LEMMA SkipStep ==
  ASSUME TypeOK, SkipLine
  PROVE  TypeOK' /\ (UnreadIsTail => UnreadIsTail')
<1>1. CASE Occurrences(CRLF, receivedData, scanCursor) = {}
  BY <1>1 DEF TypeOK, UnreadIsTail, Passed, Unread, SkipLine, skipLine
<1>2. CASE Occurrences(CRLF, receivedData, scanCursor) # {}
  <2> DEFINE to == Min(Occurrences(CRLF, receivedData, scanCursor)) + Len(CRLF)
  <2>1. Sound(Throw(to), receivedData, scanCursor)
    BY <1>2, NewlineAhead DEF Sound, Behaves, Throw
  <2>2. Advance(Throw(to)) /\ UNCHANGED arrived
    BY <1>2 DEF SkipLine, skipLine, Advance, Throw
  <2> QED BY <2>1, <2>2, ReadStep
<1> QED BY <1>1, <1>2

(* A chunk keeps the invariant, whether appended, dropped or cut.          *)
LEMMA EnqueueStep ==
  ASSUME TypeOK, NEW data \in Seq(Bytes), enqueueData(data), arrived' = arrived \o data
  PROVE  TypeOK' /\ (UnreadIsTail => UnreadIsTail')
<1>1. Unread \in Seq(Bytes)
  BY UnreadForm
<1>2. arrived \in Seq(Bytes) /\ arrived' \in Seq(Bytes)
  BY DEF TypeOK
<1>3. CASE AppendData(data)
  <2>1. /\ receivedData' = Unread \o data /\ scanCursor' = 0 /\ ~ignoring /\ ~ignoring'
        /\ ignoring' \in BOOLEAN
    BY <1>3 DEF AppendData, TypeOK
  <2>2. Unread \o data \in Seq(Bytes)
    BY <1>1
  <2>3. TypeOK'
    <3>1. receivedData' \in Seq(Bytes) /\ 0 \in 0 .. Len(receivedData')
      BY <2>1, <2>2, WholeSlice
    <3> QED BY <1>2, <2>1, <3>1 DEF TypeOK
  <2>4. Unread' = Unread \o data
    BY <2>1, <2>2, WholeSlice DEF Unread
  <2>5. UnreadIsTail => IsTail(Unread', arrived')
    <3>1. UnreadIsTail => IsTail(Unread, arrived)
      BY <2>1, UnreadForm
    <3> QED BY <1>1, <1>2, <2>4, <3>1, TailOfAppend
  <2> QED BY <2>3, <2>5 DEF UnreadIsTail, Passed, IsTail
<1>4. CASE DropData(data)
  BY <1>2, <1>4 DEF DropData, TypeOK, UnreadIsTail
<1>5. CASE KeepBehindNewLine(data)
  <2> DEFINE k == Min(Occurrences(CRLF, data, 0)) + Len(CRLF)
  <2>1. k \in 0 .. Len(data)
    <3>1. Position(data, 0) /\ <<>> \in Seq(Bytes)
      BY DEF Position
    <3> QED BY <1>5, <3>1, Texts, OccurrencesOfMore DEF KeepBehindNewLine
  <2>2. receivedData' = Slice(data, k, Len(data)) /\ scanCursor' = 0 /\ ignoring' = FALSE
    BY <1>5 DEF KeepBehindNewLine
  <2> HIDE DEF k
  <2>3. receivedData' \in Seq(Bytes) /\ IsTail(receivedData', data)
    BY <2>1, <2>2, TailOfSlice
  <2>4. Unread' = receivedData'
    BY <2>2, <2>3, WholeSlice DEF Unread
  <2>5. TypeOK'
    <3>1. 0 \in 0 .. Len(receivedData')
      BY <2>3, WholeSlice
    <3> QED BY <1>2, <2>2, <2>3, <3>1 DEF TypeOK
  <2>6. IsTail(data, arrived')
    BY <1>2, TailOfAppend
  <2>7. IsTail(Unread', arrived')
    BY <1>2, <2>3, <2>4, <2>6, TailOfTail
  <2> QED BY <2>5, <2>7 DEF UnreadIsTail, Passed, IsTail
<1> QED BY <1>3, <1>4, <1>5 DEF enqueueData

(* Every step keeps the invariant.                                         *)
LEMMA Step ==
  ASSUME TypeOK, [Next]_scannerVars
  PROVE  TypeOK' /\ (UnreadIsTail => UnreadIsTail')
<1>1. Position(receivedData, scanCursor)
  BY DEF TypeOK, Position
<1>2. CASE Enqueue
  BY <1>2, EnqueueStep, ScannerAssumption DEF Enqueue
<1>3. CASE SkipLine
  BY <1>3, SkipStep
<1>4. CASE ReadToken
  BY <1>1, <1>4, ReadingSound, ReadStep DEF ReadToken
<1>5. CASE ReadLiteral
  BY <1>1, <1>5, LiteralSound, ReadStep, ScannerAssumption DEF ReadLiteral
<1>6. CASE UNCHANGED scannerVars
  BY <1>6 DEF scannerVars, TypeOK, UnreadIsTail, Passed, Unread
<1> QED BY <1>2, <1>3, <1>4, <1>5, <1>6 DEF Next

(* The invariant holds at first.                                           *)
LEMMA InitOK == Init => TypeOK /\ UnreadIsTail
<1> SUFFICES ASSUME Init PROVE TypeOK /\ UnreadIsTail
  OBVIOUS
<1>1. receivedData = <<>> /\ scanCursor = 0 /\ arrived = <<>> /\ ignoring \in BOOLEAN
  BY DEF Init
<1>2. TypeOK
  BY <1>1, WholeSlice DEF TypeOK
<1>3. Unread = <<>> /\ Slice(arrived, 0, 0) = <<>>
  BY <1>1, WholeSlice DEF Unread
<1>4. UnreadIsTail
  BY <1>1, <1>3, WholeSlice DEF UnreadIsTail, Passed
<1> QED BY <1>2, <1>4

(* The cursor never leaves the buffer, whatever arrives and is read.       *)
THEOREM ScannerTypeOK == Spec => []TypeOK
<1>1. TypeOK /\ [Next]_scannerVars => TypeOK'
  BY Step
<1> QED BY InitOK, <1>1, PTL DEF Spec

(* The unread bytes are a tail of what arrived.                            *)
LEMMA TailIsUnread == Spec => []UnreadIsTail
<1>1. TypeOK /\ UnreadIsTail /\ [Next]_scannerVars => UnreadIsTail'
  BY Step
<1> QED BY InitOK, ScannerTypeOK, <1>1, PTL DEF Spec

(* A reader takes bytes and gives none back.                               *)
LEMMA ReadPasses ==
  ASSUME TypeOK, NEW out, Sound(out, receivedData, scanCursor), Advance(out), UNCHANGED arrived
  PROVE  Passed' >= Passed
<1>1. TypeOK'
  BY ReadStep
<1>2. Len(Unread) = Len(receivedData) - scanCursor /\ Len(Unread') = Len(receivedData') - scanCursor'
  BY <1>1, TailOfSlice DEF TypeOK, Unread
<1>3. /\ receivedData' = receivedData /\ arrived' = arrived /\ scanCursor' >= scanCursor
      /\ Len(receivedData) \in Nat /\ Len(arrived) \in Nat /\ scanCursor \in Int /\ scanCursor' \in Int
  BY DEF TypeOK, Sound, Advance
<1> QED BY <1>2, <1>3 DEF Passed

(* A chunk adds at most its own bytes to the unread ones.                  *)
LEMMA EnqueuePasses ==
  ASSUME TypeOK, NEW data \in Seq(Bytes), enqueueData(data), arrived' = arrived \o data
  PROVE  Passed' >= Passed
<1>1. TypeOK'
  BY EnqueueStep
<1>2. /\ Unread \in Seq(Bytes) /\ Len(Unread) \in Nat /\ Len(data) \in Nat
      /\ Len(arrived') = Len(arrived) + Len(data) /\ Len(arrived) \in Nat
  BY UnreadForm DEF TypeOK
<1>3. Len(Unread') = Len(receivedData') - scanCursor'
  BY <1>1, TailOfSlice DEF TypeOK, Unread
<1>4. Len(Unread') <= Len(Unread) + Len(data) /\ Len(Unread') \in Nat
  <2>1. CASE AppendData(data)
    <3>1. Len(Unread \o data) = Len(Unread) + Len(data)
      BY <1>2
    <3> QED BY <1>2, <1>3, <2>1, <3>1 DEF AppendData
  <2>2. CASE DropData(data)
    <3>1. Unread' = Unread
      BY <2>2 DEF DropData, Unread
    <3> QED BY <1>2, <3>1
  <2>3. CASE KeepBehindNewLine(data)
    <3> DEFINE k == Min(Occurrences(CRLF, data, 0)) + Len(CRLF)
    <3>1. Position(data, 0) /\ <<>> \in Seq(Bytes)
      BY WholeSlice DEF Position
    <3>2. k \in 0 .. Len(data)
      BY <2>3, <3>1, Texts, OccurrencesOfMore DEF KeepBehindNewLine
    <3>3. receivedData' = Slice(data, k, Len(data)) /\ scanCursor' = 0
      BY <2>3 DEF KeepBehindNewLine
    <3> HIDE DEF k
    <3>4. Len(receivedData') = Len(data) - k
      BY <3>2, <3>3, TailOfSlice
    <3> QED BY <1>2, <1>3, <3>2, <3>3, <3>4
  <2> QED BY <2>1, <2>2, <2>3 DEF enqueueData
<1> QED BY <1>2, <1>4 DEF Passed

(* Every step reads on.                                                    *)
LEMMA StepPasses ==
  ASSUME TypeOK, [Next]_scannerVars
  PROVE  Passed' >= Passed
<1>1. Position(receivedData, scanCursor)
  BY DEF TypeOK, Position
<1>2. CASE Enqueue
  BY <1>2, EnqueuePasses, ScannerAssumption DEF Enqueue
<1>3. CASE SkipLine
  <2>1. CASE Occurrences(CRLF, receivedData, scanCursor) = {}
    BY <1>3, <2>1, UnreadForm DEF SkipLine, skipLine, Passed, Unread, TypeOK
  <2>2. CASE Occurrences(CRLF, receivedData, scanCursor) # {}
    <3> DEFINE to == Min(Occurrences(CRLF, receivedData, scanCursor)) + Len(CRLF)
    <3>1. Sound(Throw(to), receivedData, scanCursor)
      BY <2>2, NewlineAhead DEF Sound, Behaves, Throw
    <3>2. Advance(Throw(to)) /\ UNCHANGED arrived
      BY <1>3, <2>2 DEF SkipLine, skipLine, Advance, Throw
    <3> QED BY <3>1, <3>2, ReadPasses
  <2> QED BY <2>1, <2>2
<1>4. CASE ReadToken
  BY <1>1, <1>4, ReadingSound, ReadPasses DEF ReadToken
<1>5. CASE ReadLiteral
  BY <1>1, <1>5, LiteralSound, ReadPasses, ScannerAssumption DEF ReadLiteral
<1>6. CASE UNCHANGED scannerVars
  <2>1. Passed' = Passed /\ Passed \in Int
    BY <1>6, UnreadForm DEF scannerVars, Passed, Unread, TypeOK
  <2> QED BY <2>1
<1> QED BY <1>2, <1>3, <1>4, <1>5, <1>6 DEF Next

(* The bytes are read in the order they arrived in, each at most once      *)
(* (enqueueData, skipLine and every reader), for chunks of any bytes.      *)
THEOREM BytesAreReadOnce == Spec => EachByteOnce
<1>1. TypeOK /\ UnreadIsTail /\ [Next]_scannerVars => [UnreadIsTail' /\ Passed' >= Passed]_scannerVars
  BY Step, StepPasses
<1> QED BY <1>1, ScannerTypeOK, TailIsUnread, PTL DEF Spec, EachByteOnce

(* Every reader leaves the cursor in place when it returns null and returns*)
(* the bytes it passed, for any bytes received.                            *)
THEOREM AllReadersBehave == Spec => []ReadersBehave
<1>1. TypeOK => ReadersBehave
  <2> SUFFICES ASSUME TypeOK PROVE ReadersBehave
    OBVIOUS
  <2>1. Position(receivedData, scanCursor)
    BY DEF TypeOK, Position
  <2> QED BY <2>1, ReadingSound, LiteralSound, ScannerAssumption DEF ReadersBehave, Sound
<1> QED BY <1>1, ScannerTypeOK, PTL

(* A decision of a reader stands when more bytes arrive: the cut of the    *)
(* stream into chunks decides when a token is read and not which one.      *)
THEOREM NoChunkDecides == Spec => []ChunksDecideNothing
<1>1. TypeOK => ChunksDecideNothing
  <2> SUFFICES ASSUME TypeOK, scanCursor < Len(receivedData), NEW data \in Chunks
               PROVE  /\ \A r \in Readers :
                           LET out == Reading(r, receivedData, scanCursor) IN
                           out.outcome # "null" => Reading(r, receivedData \o data, scanCursor) = out
                      /\ \A n \in Lengths :
                           LET out == readLiteral(n, receivedData, scanCursor) IN
                           out.outcome # "null" => readLiteral(n, receivedData \o data, scanCursor) = out
    BY DEF ChunksDecideNothing
  <2>1. Position(receivedData, scanCursor) /\ data \in Seq(Bytes) /\ Lengths \subseteq Nat
    BY ScannerAssumption DEF TypeOK, Position
  <2> QED BY <2>1, ReadingSettled, LiteralSettled DEF Settled
<1> QED BY <1>1, ScannerTypeOK, PTL

(* A slice of two bytes.                                                   *)
LEMMA PairOfBytes ==
  ASSUME NEW s \in Seq(Bytes), NEW a \in 0 .. Len(s), a + 2 <= Len(s)
  PROVE  /\ Slice(s, a, a + 2) \in Seq(Bytes) /\ Len(Slice(s, a, a + 2)) = 2
         /\ \A i \in 1 .. 2 : Slice(s, a, a + 2)[i] = s[a + i]
<1>1. a + 2 \in a .. Len(s) /\ (a + 2) - a = 2
  OBVIOUS
<1> QED BY <1>1, SliceParts

(* Behind a line terminator of a tail of what arrived, a line starts.      *)
LEMMA BehindCRLF ==
  ASSUME NEW t \in Seq(Bytes), NEW u \in Seq(Bytes), IsTail(u, t),
         NEW p \in 0 .. Len(u), p + 2 <= Len(u), Begins(CRLF, u, p)
  PROVE  LET passed == Len(t) - Len(Slice(u, p + 2, Len(u))) IN
         passed >= 2 /\ Slice(t, passed - 2, passed) = CRLF
<1> DEFINE passed == Len(t) - Len(u) + p + 2
<1>1. Len(u) <= Len(t) /\ \A i \in 1 .. Len(u) : u[i] = t[Len(t) - Len(u) + i]
  BY TailByByte
<1>2. Len(Slice(u, p + 2, Len(u))) = Len(u) - (p + 2)
  <2>1. p + 2 \in 0 .. Len(u)
    OBVIOUS
  <2> QED BY <2>1, TailOfSlice
<1>3. passed \in 2 .. Len(t) /\ passed - 2 \in 0 .. Len(t) /\ passed \in passed - 2 .. Len(t)
      /\ Len(t) - (Len(u) - (p + 2)) = passed /\ passed - (passed - 2) = 2
  BY <1>1
<1>4. u[p + 1] = CR /\ u[p + 2] = LF
  <2>1. Slice(u, p, p + 2) = CRLF
    BY Texts DEF Begins
  <2>3. \A i \in 1 .. 2 : Slice(u, p, p + 2)[i] = u[p + i]
    BY PairOfBytes
  <2> QED BY <2>1, <2>3 DEF CRLF
<1>5. t[passed - 2 + 1] = CR /\ t[passed - 2 + 2] = LF
  <2>1. p + 1 \in 1 .. Len(u) /\ p + 2 \in 1 .. Len(u)
    OBVIOUS
  <2>2. Len(t) - Len(u) + (p + 1) = passed - 2 + 1 /\ Len(t) - Len(u) + (p + 2) = passed - 2 + 2
    OBVIOUS
  <2>3. u[p + 1] = t[Len(t) - Len(u) + (p + 1)] /\ u[p + 2] = t[Len(t) - Len(u) + (p + 2)]
    BY <1>1, <2>1
  <2> HIDE DEF passed
  <2> QED BY <1>4, <2>2, <2>3
<1> HIDE DEF passed
<1>6. Slice(t, passed - 2, passed) = CRLF
  <2> DEFINE s == Slice(t, passed - 2, passed)
  <2>1. s \in Seq(Bytes) /\ Len(s) = 2 /\ \A i \in 1 .. 2 : s[i] = t[passed - 2 + i]
    BY <1>3, SliceParts
  <2>2. s[1] = CR /\ s[2] = LF
    BY <1>5, <2>1
  <2> HIDE DEF s
  <2>3. s = <<CR, LF>>
    BY <2>1, <2>2
  <2> QED BY <2>3 DEF s, CRLF
<1> QED BY <1>2, <1>3, <1>6

(* Behind the end of the ignored line, what is kept starts a line.         *)
LEMMA KeptAtLineStart ==
  ASSUME TypeOK, NEW data \in Seq(Bytes), KeepBehindNewLine(data), arrived' = arrived \o data
  PROVE  AtLineStart'
<1>1. arrived \in Seq(Bytes)
  BY DEF TypeOK
<1> DEFINE S == Occurrences(CRLF, data, 0)  p == Min(S)
<1>2. Position(data, 0) /\ <<>> \in Seq(Bytes)
  BY WholeSlice DEF Position
<1>3. S \in SUBSET Nat /\ S # {} /\ p + 2 \in 0 .. Len(data)
  BY <1>2, Texts, OccurrencesOfMore DEF KeepBehindNewLine
<1>4. p \in S
  BY <1>3, MinOfNaturals
<1>5. p \in 0 .. Len(data) /\ Begins(CRLF, data, p)
  BY <1>4 DEF Occurrences
<1>6. receivedData' = Slice(data, p + 2, Len(data)) /\ scanCursor' = 0
  BY Texts DEF KeepBehindNewLine
<1> HIDE DEF S, p
<1>7. Unread' = Slice(data, p + 2, Len(data))
  BY <1>3, <1>6, TailOfSlice, WholeSlice DEF Unread
<1>8. arrived' \in Seq(Bytes) /\ IsTail(data, arrived')
  BY <1>1, TailOfAppend
<1>9. LET passed == Len(arrived') - Len(Slice(data, p + 2, Len(data))) IN
      passed >= 2 /\ Slice(arrived', passed - 2, passed) = CRLF
  <2>1. p + 2 <= Len(data)
    BY <1>3
  <2> QED BY <1>5, <1>8, <2>1, BehindCRLF
<1> QED BY <1>7, <1>9, Texts DEF AtLineStart, Passed

(* After a line is skipped, reading goes on behind a line terminator.      *)
THEOREM SkippingEndsAtLineStart == Spec => SkipsToLineStart
<1>1. ASSUME TypeOK, UnreadIsTail, [Next]_scannerVars, ignoring \/ SkipLine, ~ignoring'
      PROVE  AtLineStart'
  <2>1. CASE SkipLine
    <3>1. Occurrences(CRLF, receivedData, scanCursor) # {} /\ ~ignoring
      BY <1>1, <2>1 DEF SkipLine, skipLine
    <3> DEFINE p == Min(Occurrences(CRLF, receivedData, scanCursor))
    <3>2. p \in Occurrences(CRLF, receivedData, scanCursor)
          /\ p + Len(CRLF) \in scanCursor .. Len(receivedData)
      BY <1>1, <3>1, NewlineAhead
    <3>3. scanCursor' = p + 2 /\ receivedData' = receivedData /\ arrived' = arrived
      BY <2>1, <3>1, Texts DEF SkipLine, skipLine
    <3> HIDE DEF p
    <3> DEFINE n == Len(receivedData)  q == p - scanCursor
    <3>4. /\ receivedData \in Seq(Bytes) /\ arrived \in Seq(Bytes) /\ Unread \in Seq(Bytes)
          /\ scanCursor \in 0 .. n /\ n \in scanCursor .. n /\ n \in Nat /\ Len(Unread) = n - scanCursor
          /\ IsTail(Unread, arrived)
      BY <1>1, <3>1, UnreadForm DEF TypeOK
    <3>5. p \in scanCursor .. n /\ p + 2 \in scanCursor .. n /\ Begins(CRLF, receivedData, p)
      BY <3>2, Texts DEF Occurrences
    <3>6. q \in 0 .. Len(Unread) /\ q + 2 <= Len(Unread) /\ q + 2 \in 0 .. Len(Unread)
      BY <3>4, <3>5
    <3>7. \A i \in 1 .. n - scanCursor : Unread[i] = receivedData[scanCursor + i]
      BY <3>4, SliceParts DEF Unread
    <3>8. Begins(CRLF, Unread, q)
      <4> DEFINE s == Slice(Unread, q, q + 2)  r == Slice(receivedData, p, p + 2)
      <4>1. r = CRLF
        BY <3>5, Texts DEF Begins
      <4>2. p \in 0 .. n /\ p + 2 <= n
        BY <3>4, <3>5
      <4>3. s \in Seq(Bytes) /\ Len(s) = 2 /\ \A i \in 1 .. 2 : s[i] = Unread[q + i]
        BY <3>4, <3>6, PairOfBytes
      <4>4. r \in Seq(Bytes) /\ Len(r) = 2 /\ \A i \in 1 .. 2 : r[i] = receivedData[p + i]
        BY <3>4, <4>2, PairOfBytes
      <4>5. \A i \in 1 .. 2 : q + i \in 1 .. n - scanCursor /\ scanCursor + (q + i) = p + i
        BY <3>4, <3>5
      <4>6. \A i \in 1 .. 2 : s[i] = r[i]
        BY <3>7, <4>3, <4>4, <4>5
      <4> HIDE DEF s, r
      <4>7. s = r
        BY <4>3, <4>4, <4>6
      <4> QED BY <3>6, <4>1, <4>7, Texts DEF Begins, s
    <3>9. Len(Unread') = Len(Slice(Unread, q + 2, Len(Unread)))
      <4>1. Len(Slice(Unread, q + 2, Len(Unread))) = Len(Unread) - (q + 2)
        BY <3>4, <3>6, TailOfSlice
      <4>2. p + 2 \in 0 .. n
        BY <3>4, <3>5
      <4>3. Len(Slice(receivedData, p + 2, n)) = n - (p + 2)
        BY <3>4, <4>2, TailOfSlice
      <4>4. Unread' = Slice(receivedData, p + 2, n)
        BY <3>3 DEF Unread
      <4>5. Len(Unread) - (q + 2) = n - (p + 2)
        BY <3>4, <3>5
      <4> QED BY <4>1, <4>3, <4>4, <4>5
    <3> HIDE DEF q, n
    <3>10. LET passed == Len(arrived) - Len(Slice(Unread, q + 2, Len(Unread))) IN
           passed >= 2 /\ Slice(arrived, passed - 2, passed) = CRLF
      BY <3>4, <3>6, <3>8, BehindCRLF
    <3> QED BY <3>3, <3>9, <3>10, Texts DEF AtLineStart, Passed
  <2>2. CASE ignoring /\ ~SkipLine
    <3>1. Enqueue
      BY <1>1, <2>2 DEF Next, ReadToken, ReadLiteral, Advance, scannerVars
    <3>2. PICK data \in Chunks : enqueueData(data) /\ arrived' = arrived \o data
      BY <3>1 DEF Enqueue
    <3>3. KeepBehindNewLine(data) /\ data \in Seq(Bytes)
      BY <1>1, <2>2, <3>2, ScannerAssumption DEF enqueueData, AppendData, DropData
    <3> QED BY <1>1, <3>2, <3>3, KeptAtLineStart
  <2> QED BY <1>1, <2>1, <2>2
<1>2. TypeOK /\ UnreadIsTail /\ [Next]_scannerVars
        => [(ignoring \/ SkipLine) /\ ~ignoring' => AtLineStart']_scannerVars
  BY <1>1
<1> QED BY <1>2, ScannerTypeOK, TailIsUnread, PTL DEF Spec, SkipsToLineStart
=============================================================================
